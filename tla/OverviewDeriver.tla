--------------------------- MODULE OverviewDeriver ---------------------------
(***************************************************************************)
(* The eager deriver of an rf_dataset member                               *)
(* (plateau_rt/viewer/derive/overview.py): from the manifest, the member   *)
(* records and the tree of a stored bundle to overview.json. Fractions are *)
(* pairs; fields copied from the manifest one by one are left out.         *)
(***************************************************************************)
EXTENDS BundleKinds, Integers
LOCAL INSTANCE SequencesExt
LOCAL INSTANCE FiniteSetsExt

Failed == [is |-> "failed"]

-----------------------------------------------------------------------------
(* Frequencies *)

Bins(j) == Len(Items(Offsets(j)))
Step(j, n) == Items(Offsets(j))[n + 1].n - Items(Offsets(j))[n].n
HasSpacing(j) == Bins(j) >= 2 /\ \A n \in 1..(Bins(j) - 1) : Step(j, n) = Step(j, 1)
Bandwidth(j) ==
  LET b == Config(j, "bandwidth_hz")
  IN  CASE IsNumber(b) /\ b.n > 0 -> {b.n}
        [] ~(IsNumber(b) /\ b.n > 0) /\ HasSpacing(j) -> {Bins(j) * Step(j, 1)}
        [] OTHER -> {}
\* A field of the manifest, or what follows from a bandwidth; {} is None.
Delay(j, field, numerator) ==
  IF ~Missing(Get(j, field)) THEN {<<Get(j, field).n, 1>>} ELSE {<<numerator, b>> : b \in {x \in Bandwidth(j) : x > 0}}

-----------------------------------------------------------------------------
(* Pairs of a view and a station *)

Total(energy) == MapThenSumSet(LAMBDA k : energy[k].n, DOMAIN energy)
BackFraction(energy) ==
  IF Total(energy) > 0 /\ "back" \in DOMAIN energy THEN {<<energy["back"].n, Total(energy)>>} ELSE {}
OverviewPairs(p) ==
  FlattenSeq([n \in DOMAIN p.views |->
    [i \in DOMAIN p.views[n].bs |->
       LET e == p.views[n].bs[i]
       IN  [view |-> p.views[n].id, bs |-> e.id, total |-> Total(e.energy), back |-> BackFraction(e.energy)]]])

-----------------------------------------------------------------------------
(* What else the bundle has for the dataset *)

\* ctx.path(...): a path that leads out of the bundle is no file and no directory.
Exists(t, path) == path # Unsafe /\ IsFile(t, path)
InMember(m, text) == Resolve(Under(m.path, text))
TransformsName(j) ==
  LET x == Get(Get(Get(j, "optical_reference"), "pinhole"), "transforms")
  IN  IF IsStr(x) THEN x.s ELSE <<"transforms.json">>
\* The names of an optical artifact start with "optical_".
OpticalKeys == {"optical_pinhole_rgba", "optical_pinhole_depth_m", "optical_pinhole_range_m",
                "optical_hemisphere_rgba", "optical_hemisphere_range_m"}
LinkedTo(members, kind, link(_), m) ==
  {members[n].id : n \in {k \in DOMAIN members : members[k].kind = kind /\ link(members[k]) = Str(<<m.id>>)}}
SceneOf(members, m) ==
  LET hits == {n \in DOMAIN members : members[n].kind = "scene" /\ members[n].for = Str(<<m.id>>)}
  IN  {members[CHOOSE n \in hits : \A k \in hits : n <= k].id : x \in (IF hits = {} THEN {} ELSE {0})}
Contents(t, members, m, j) ==
  LET p == Parsed(j)
      found(n) == Len(p.paths) >= n /\ Exists(t, InMember(m, p.paths[n]))
  IN  [optical |-> OpticalKeys \cap UNION {DOMAIN p.views[n].artifacts : n \in DOMAIN p.views},
       transforms_json |-> Exists(t, InMember(m, TransformsName(j))),
       path_gt |-> found(1), path_schema |-> found(2),
       observations |-> Keys(Get(j, "observations")),
       partials |-> LinkedTo(members, "rf_partial", LAMBDA x : x.source, m),
       scene |-> SceneOf(members, m),
       placement |-> Append(m.path, "placement") \in t.dirs \/ Has(j, "placement"),
       tomography_gt |-> Exists(t, Append(m.path, "tomography_gt.npz"))]

-----------------------------------------------------------------------------
(* derive *)

\* _normalize_json: NaN becomes null and an infinity is refused, also within a
\* list or a map. Only the axes are copied as they are.
ImageAxes(j) == Get(Get(j, "camera_model"), "image_axes")
Encodable(x) ==
  /\ x # Infinity
  /\ \A n \in DOMAIN Items(x) : Items(x)[n] # Infinity
  /\ \A k \in Keys(x) : x.m[k] # Infinity
AxesAreEncodable(j) == \A k \in Keys(ImageAxes(j)) : Encodable(ImageAxes(j).m[k])
CameraLoads(t, m, j) ==
  LET path == InMember(m, Parsed(j).camera)
  IN  path # Unsafe /\ Content(t, path).is = "npz" /\ Content(t, path).sound
Overview(t, members, m) ==
  LET j == ManifestOf(t, m)
      p == Parsed(j)
  IN  IF ManifestFault(j) # NoFault \/ ~CameraLoads(t, m, j) \/ ~AxesAreEncodable(j) THEN Failed
      ELSE [is |-> "overview", pairs |-> OverviewPairs(p), contents |-> Contents(t, members, m, j),
            bandwidth |-> Bandwidth(j),
            delay_resolution |-> Delay(j, "delay_resolution_s", 1),
            unambiguous_delay |-> Delay(j, "unambiguous_delay_s", Bins(j)),
            default_axes |-> ~IsMap(ImageAxes(j))]
=============================================================================
