--------------------------- MODULE DatasetPipeline ---------------------------
(***************************************************************************)
(* The commands of cli/main.py that write a scene (build), an RF camera    *)
(* dataset of it (rf-camera-multiview,                                     *)
(* adapters/sionna/rf_camera_dataset.py) and what is derived from that:    *)
(* -observe, -optical and -partial (application/rf_camera_observe.py,      *)
(* optical_reference.py, rf_camera_partial.py).  A command writes one file *)
(* after the other, its manifest last, and none of them atomically: a      *)
(* command that dies leaves what it has written, and possibly a torn file, *)
(* and so does one that raises half-way: what it reads or computes between *)
(* two writes is checked there and not before. They may be run again, in   *)
(* any order, one at a time.                                               *)
(*                                                                         *)
(* A workspace has a scene, a dataset and a partial directory side by      *)
(* side. The solver, the renderer and the arithmetic are external: an      *)
(* array is its shape and type.                                            *)
(***************************************************************************)
EXTENDS SceneBuild
LOCAL INSTANCE SequencesExt

CONSTANTS
  Cities,        \* that build is given, as SceneBuild has them
  Grounds,       \* sizes of a ground plane, 0 for none
  Setups,        \* of multiview: [stations, views, rows, cols, bins, carrier, bandwidth, radius, meets]
  Variants,      \* names of observations
  Bands,         \* subbands <<start, stop>>
  JsonValues,    \* what a file may hold that the commands have not written
  Earlier,       \* datasets that may be there already
  EarlierScenes, \* and scenes
  MaxCommands,   \* bound: commands that write
  MaxDeaths      \* bound: of them

VARIABLES
  scene, dataset, partial,  \* the directories, functions from paths to contents
  writes,            \* what the command that runs has left to write
  command,           \* "build", "multiview", "observe", "optical" or "partial": the last one
  spoilt,            \* it has changed a file that the manifest there names (auxiliary)
  suspect,           \* directories in which a command died after that (auxiliary)
  commands, deaths   \* that there have been

pipelineVars == <<scene, dataset, partial, writes, command, spoilt, suspect, commands, deaths>>

Idle == writes = <<>>
At(at) == CASE at = "scene" -> scene [] at = "dataset" -> dataset [] at = "partial" -> partial

-----------------------------------------------------------------------------
(* The names and arrays of a dataset *)

VectorOf(x) == List(<<x, Float(2), Float(3)>>)
Vector == VectorOf(Float(1))
Text(c) == Str(<<c>>)
BsId(n) == << <<"bs_000">>, <<"bs_001">> >>[n]
ViewId(n) == << <<"ue_000000">>, <<"ue_000001">> >>[n]
ViewDir(id) == <<"views">> \o id
RfDir(id) == ViewDir(id) \o <<"rf">>
Complex(shape) == NpyFile(shape, "complex", TRUE)
Real(shape) == NpyFile(shape, "real", TRUE)

\* RFMultiViewConfig.validate and generate_ring_views: what a setup must have to be
\* run at all. The floats are compared with 0.0, which NaN and Infinity pass.
NotPositive(x) == IsNumber(x) /\ x.n <= 0
SetupIsValid(c) ==
  /\ c.stations >= 1 /\ c.views >= 1 /\ c.bins >= 2 /\ c.rows >= 1 /\ c.cols >= 1
  /\ ~NotPositive(c.carrier) /\ ~NotPositive(c.bandwidth) /\ ~NotPositive(c.radius)
\* A step that raises unless something holds, and a step of its own in what a command does.
Raise == Save(<<"raise">>, [is |-> "raise"])
Check(holds) == IF holds THEN <<>> ELSE <<Raise>>
\* _write_view_bs: the files of a pair and their names.
PairFiles == [angular_cfr_center |-> "angular_cfr_center.npy", angular_power_center |-> "angular_power_center.npy",
              phase_valid_mask |-> "phase_valid_mask.npy", dominant_delay_s |-> "dominant_delay_s.npy",
              dominant_delay_power |-> "dominant_delay_power.npy", debug_power_png |-> "angular_power_center.png"]
PairDir(view, bs) == RfDir(view) \o bs
PairWrites(view, bs) ==
  LET keys == Arranged(DOMAIN PairFiles)
  IN  [n \in DOMAIN keys |-> Save(Append(PairDir(view, bs), PairFiles[keys[n]]),
                                  IF keys[n] = "debug_power_png" THEN Blob ELSE Real(<<2, 2>>))]
PairEntry(c, view, bs) ==
  Map([bs_id |-> Str(bs), bs_direction_local |-> VectorOf(c.radius), bs_in_front_hemisphere |-> Bool(TRUE),
       hemisphere_energy |-> Map([front |-> Float(2), back |-> Float(1)]),
       artifacts |-> Map([k \in DOMAIN PairFiles |-> Str(Append(PairDir(view, bs), PairFiles[k]))])])

Pose(view) == Append(ViewDir(view), "pose.json")
Aperture(view) == Append(RfDir(view), "aperture_cfr.npy")
\* _write_view, with what raises in it: delay_products, before the files of a pair, when the
\* frequencies are not finite, and geometric_los_source_direction_local, after them, when
\* the station is where the view is.
ViewWrites(c, view) ==
  << Save(Pose(view), JsonFile(Map([position_m |-> VectorOf(c.radius)]))),
     Save(Aperture(view), Complex(<<c.stations, 2, c.rows, c.cols, c.bins>>)) >>
  \o FlattenSeq([n \in 1..c.stations |->
       Check(IsNumber(c.bandwidth)) \o PairWrites(view, BsId(n)) \o Check(<<view, BsId(n)>> \notin c.meets)])
ViewEntry(c, view) ==
  Map([view_id |-> Str(view), position_m |-> VectorOf(c.radius), look_at_m |-> Vector,
       orientation_rad |-> VectorOf(c.radius),
       artifacts |-> Map([pose |-> Str(Pose(view)), aperture_cfr |-> Str(Aperture(view))]),
       bs |-> List([n \in 1..c.stations |-> PairEntry(c, view, BsId(n))])])

Shifted(x, n) == IF IsNumber(x) THEN Float(x.n + n) ELSE x
MultiviewManifest(c) ==
  LET ids == [n \in 1..c.stations |-> Str(BsId(n))]
  IN  Map([schema_version |-> Whole(3), mode |-> Text("multibs_multiue_rf_camera_dataset"),
           source_scene |-> Text("scene.xml"),
           config |-> Map([carrier_frequency_hz |-> c.carrier, bandwidth_hz |-> c.bandwidth,
                           num_frequency_bins |-> Whole(c.bins), rx_rows |-> Whole(c.rows),
                           rx_cols |-> Whole(c.cols), synthetic_array |-> Bool(TRUE)]),
           frequency_offsets_hz |-> List([n \in 1..c.bins |-> Float(n)]),
           absolute_frequencies_hz |-> List([n \in 1..c.bins |-> Shifted(c.carrier, n)]),
           delay_resolution_s |-> Float(1), unambiguous_delay_s |-> Float(2),
           base_stations |->
             List([n \in 1..c.stations |-> Map([bs_id |-> ids[n], index |-> Whole(n - 1),
                                                position_m |-> Vector, look_at_m |-> Vector])]),
           raw_observation |-> Map([axis_order |-> List([n \in 1..5 |-> Text(ApertureAxes(3)[n])]),
                                    bs_ids |-> List(ids), hemispheres |-> List(<<Text("front"), Text("back")>>)]),
           camera_model |-> Map([ray_directions |-> Text("camera_model.npz")]),
           path_geometry_gt |-> Text("path_geometry_gt.npz"), path_schema |-> Text("path_schema.json"),
           views |-> List([n \in 1..c.views |-> ViewEntry(c, ViewId(n))])])
-----------------------------------------------------------------------------
(* Running a command *)

ManifestOfDataset == <<"dataset_manifest.json">>
ManifestOfPartial == <<"partial_manifest.json">>
ManifestPath(at) == IF at = "dataset" THEN ManifestOfDataset ELSE ManifestOfPartial
AsTree(files) ==
  [files |-> files, dirs |-> UNION {{SubSeq(p, 1, n) : n \in 1..(Len(p) - 1)} : p \in DOMAIN files}]
IsPath(p) == IsSeq(p) /\ p # <<>>
\* A file that the commands have not written.
IsReadable(content) ==
  /\ content.is = "json" => content.json \in JsonValues
  /\ content.is = "xml" => \A n \in DOMAIN content.shapes : content.shapes[n].filename \in JsonValues
\* Every scene among some files has each of the files that it names.
AreRead(files) ==
  \A path \in DOMAIN files :
    files[path].is = "xml" => MemberFault(AsTree(files), Member("m", "scene", path, Null, Null)) = NoFault
\* The lists of a city are sequences, and the names of its meshes are plain ones.
ASSUME SceneAssumption ==
  /\ \A city \in Cities :
       /\ HasLists(city)
       /\ \A ground \in Grounds : CanParse(city) => \A n \in DOMAIN Meshes(city, ground) :
            LET file == MeshFile(Meshes(city, ground)[n]) IN Resolve(file) = file /\ file # Unsafe /\ file # <<"">>
  /\ \A files \in EarlierScenes :
       IsFiniteSet(DOMAIN files) /\ (\A p \in DOMAIN files : IsPath(p)) /\ AreRead(files)
ASSUME PipelineAssumption ==
  /\ \A c \in Setups :
       /\ c.stations \in 0..2 /\ c.views \in 0..2 /\ c.bins \in Nat
       /\ {c.carrier.t, c.bandwidth.t, c.radius.t} \subseteq {"float", "nan", "inf"}
  /\ AreWhole(JsonValues)
  /\ \A files \in Earlier :
       IsFiniteSet(DOMAIN files) /\ \A p \in DOMAIN files : IsPath(p) /\ IsReadable(files[p])
AsMember == Member("m", "rf_dataset", <<>>, Null, Null)
Manifest == JsonAt(AsTree(dataset), ManifestOfDataset)
\* The files that the manifest of a directory vouches for.
ArtifactsOf(j) == {Get(j, "artifacts").m[k].s : k \in Keys(Get(j, "artifacts"))}
PartialFiles ==
  LET views == Items(Get(JsonAt(AsTree(partial), ManifestOfPartial), "views"))
      stations(v) == {Items(Get(v, "bs"))[n] : n \in DOMAIN Items(Get(v, "bs"))}
  IN  {<<"element_mask.npy">>}
      \cup UNION {ArtifactsOf(v) \cup UNION {ArtifactsOf(e) : e \in stations(v)} : v \in {views[n] : n \in DOMAIN views}}
Vouched(at) ==
  CASE Content(AsTree(At(at)), ManifestPath(at)).is # "json" -> {}
    [] at = "partial" -> PartialFiles
    [] OTHER -> MemberFiles(AsTree(dataset), AsMember)

PipelineInit ==
  /\ scene \in EarlierScenes \cup {<<>>} /\ dataset \in Earlier \cup {<<>>} /\ partial = <<>>
  /\ writes = <<>> /\ command = "multiview" /\ spoilt = FALSE /\ suspect = {} /\ commands = 0 /\ deaths = 0
MayRun == Idle /\ commands < MaxCommands
Run(what, steps) ==
  /\ MayRun /\ commands' = commands + 1
  /\ writes' = steps /\ command' = what /\ spoilt' = FALSE
  /\ UNCHANGED <<scene, dataset, partial, suspect, deaths>>

Place == CASE command = "build" -> "scene" [] command = "partial" -> "partial" [] OTHER -> "dataset"
Removed == [is |-> "removed"]
With(files, path, content) ==
  IF content = Removed THEN [p \in DOMAIN files \ {path} |-> files[p]]
  ELSE [p \in DOMAIN files \cup {path} |-> IF p = path THEN content ELSE files[p]]
Leave(path, content) ==
  /\ scene' = IF Place = "scene" THEN With(scene, path, content) ELSE scene
  /\ dataset' = IF Place = "dataset" THEN With(dataset, path, content) ELSE dataset
  /\ partial' = IF Place = "partial" THEN With(partial, path, content) ELSE partial
Spoils(path, content) ==
  /\ Place # "scene" /\ path \in DOMAIN At(Place) /\ At(Place)[path] # content
  /\ path \in Vouched(Place) \ {ManifestPath(Place)}
\* What a command writes whole is no longer suspected.
Write ==
  /\ ~Idle /\ Head(writes) # Raise
  /\ Leave(Head(writes).path, Head(writes).content)
  /\ spoilt' = (spoilt \/ Spoils(Head(writes).path, Head(writes).content))
  /\ writes' = Tail(writes)
  /\ suspect' = IF Len(writes) = 1 /\ command \in {"multiview", "partial"} THEN suspect \ {Place} ELSE suspect
  /\ UNCHANGED <<command, commands, deaths>>
\* It dies with the next file not begun or half written, or raises between two files.
Halves(content) == {Blob} \cup (IF content.is = "npy" THEN {NpyFile(content.shape, content.dtype, FALSE)} ELSE {})
Suspects(is) == suspect' = IF is /\ Place # "scene" THEN suspect \cup {Place} ELSE suspect
Die ==
  /\ ~Idle /\ Head(writes) # Raise /\ writes' = <<>> /\ deaths < MaxDeaths /\ deaths' = deaths + 1
  /\ LET w == Head(writes)
     IN  \/ UNCHANGED <<scene, dataset, partial>> /\ Suspects(spoilt)
         \/ /\ w.content # Removed
            /\ \E half \in Halves(w.content) :
                 /\ Leave(w.path, half)
                 /\ Suspects(spoilt \/ w.path = ManifestPath(Place) \/ Spoils(w.path, half))
  /\ UNCHANGED <<command, spoilt, commands>>
Abort ==
  /\ ~Idle /\ Head(writes) = Raise /\ writes' = <<>> /\ Suspects(spoilt)
  /\ UNCHANGED <<scene, dataset, partial, command, spoilt, commands, deaths>>

-----------------------------------------------------------------------------
(* The commands *)

\* A scene is read with the files that it names.
IsScene(path) == path \in DOMAIN scene /\ scene[path].is = "xml"
Build(city, ground) == CanParse(city) /\ Run("build", CityWrites(city, ground))

\* Mutant: the manifest goes first.
ManifestFirst(files, manifest) == <<Save(ManifestOfDataset, JsonFile(manifest))>> \o files
ManifestLast(files, manifest) == Append(files, Save(ManifestOfDataset, JsonFile(manifest)))
MultiviewWrites(c) ==
  ManifestLast(<< Save(<<"camera_model.npz">>, NpzFile(TRUE)), Save(<<"path_geometry_gt.npz">>, NpzFile(TRUE)),
                  Save(<<"path_schema.json">>, JsonFile(Map(<<>>))) >>
               \o FlattenSeq([n \in 1..c.views |-> ViewWrites(c, ViewId(n))]),
               MultiviewManifest(c))
Multiview(c) == SetupIsValid(c) /\ Run("multiview", MultiviewWrites(c))

CanRead == MayRun /\ ManifestFault(Manifest) = NoFault
AtPath(path) == Content(AsTree(dataset), Resolve(path))
\* load_aperture_cfr.
Loads(p, v) ==
  LET c == AtPath(v.artifacts["aperture_cfr"])
  IN  c.is = "npy" /\ c.whole /\ c.dtype # "object" /\ LoadedShape(p, c.shape) = ApertureShape(p)
Merge(j, more) == Map([k \in DOMAIN j.m \cup DOMAIN more |-> IF k \in DOMAIN more THEN more[k] ELSE j.m[k]])
\* The manifest of what is there, with the artifacts of every view or pair changed.
PatchViews(Patch(_, _)) ==
  LET views == Items(Get(Manifest, "views"))
  IN  Put(Manifest, "views", List([n \in DOMAIN views |-> Patch(views[n], Parsed(Manifest).views[n])]))

ObservedFile(v, e, name, file) == Append(RfDir(v.id.s) \o e.id.s \o <<"observed", name>>, file)
ObserveWrites(p, name) ==
  FlattenSeq([n \in DOMAIN p.views |->
    FlattenSeq([i \in DOMAIN p.views[n].bs |->
      LET file(f) == ObservedFile(p.views[n], p.views[n].bs[i], name, f)
      IN  << Save(file("aperture_cfr.npy"), Complex(<<p.rows, p.cols, p.bins>>)),
             Save(file("impairment_gt.json"), JsonFile(Map(<<>>))) >>])])
ObservedManifest(name) ==
  LET key(kind) == "observed." \o name \o kind
      pair(entry, v, e) ==
        LET file(f) == Str(ObservedFile(v, e, name, f))
        IN  Put(entry, "artifacts",
                Put(Put(Get(entry, "artifacts"), key(".aperture_cfr"), file("aperture_cfr.npy")),
                    key(".impairment_gt"), file("impairment_gt.json")))
      patch(view, v) ==
        LET bs == Items(Get(view, "bs")) IN Put(view, "bs", List([i \in DOMAIN bs |-> pair(bs[i], v, v.bs[i])]))
      there == Get(Manifest, "observations")
      before == IF IsMap(there) THEN there ELSE Map(<<>>)
  IN  Put(PatchViews(patch), "observations", Put(before, name, Map(<<>>)))
\* Every aperture is read before anything is written; the observations there are not
\* looked at before their new entry is set, after all of the files.
Observe(name) ==
  /\ CanRead
  /\ LET p == Parsed(Manifest)
     IN  /\ p.version = 3 /\ {<<"front">>, <<"back">>} \subseteq {p.hemispheres[n] : n \in DOMAIN p.hemispheres}
         /\ \A n \in DOMAIN p.views : Loads(p, p.views[n])
         /\ Run("observe", ManifestLast(ObserveWrites(p, name)
                                        \o Check(Has(Manifest, "observations") => IsMap(Get(Manifest, "observations"))),
                                        ObservedManifest(name)))

OpticalFiles ==
  [optical_pinhole_rgba |-> "pinhole_rgba.png", optical_pinhole_depth_m |-> "pinhole_depth_m.npy",
   optical_pinhole_range_m |-> "pinhole_range_m.npy", optical_hemisphere_rgba |-> "hemisphere_rgba.png",
   optical_hemisphere_range_m |-> "hemisphere_range_m.npy"]
OpticalFile(v, k) == ViewDir(v.id.s) \o <<"optical", OpticalFiles[k]>>
\* A pose is read when its view is rendered.
OpticalWrites(p) ==
  LET keys == Arranged(DOMAIN OpticalFiles)
  IN  FlattenSeq([n \in DOMAIN p.views |->
        Check(AtPath(p.views[n].artifacts["pose"]).is = "json")
        \o [i \in DOMAIN keys |->
              Save(OpticalFile(p.views[n], keys[i]),
                   IF SuffixOf(OpticalFile(p.views[n], keys[i])) = ".npy" THEN Real(<<2, 2>>) ELSE Blob)]])
OpticalManifest ==
  LET patch(view, v) ==
        Put(view, "artifacts", Merge(Get(view, "artifacts"), [k \in DOMAIN OpticalFiles |-> Str(OpticalFile(v, k))]))
  IN  Put(PatchViews(patch), "optical_reference", Map([pinhole |-> Map([transforms |-> Text("transforms.json")])]))
Optical ==
  /\ CanRead
  /\ LET p == Parsed(Manifest)
     IN  /\ AtPath(p.camera) = NpzFile(TRUE)
         /\ Run("optical", ManifestLast(Append(OpticalWrites(p), Save(<<"transforms.json">>, JsonFile(Map(<<>>)))),
                                        OpticalManifest))

\* build_partial_dataset: a non-empty choice of the views, a subband, a summary.
Summaries == {"none", "power", "delay"}
ViewFiles(summary) ==
  CASE summary = "none" -> [aperture_cfr |-> "aperture_cfr.npy"]
    [] summary = "power" -> [element_power |-> "element_power.npy", hemisphere_power |-> "hemisphere_power.npy"]
    [] summary = "delay" -> <<>>
Removals ==
  LET there(x) == IF x \in DOMAIN partial THEN <<x>> ELSE <<>>
      old == there(<<"element_mask.npy">>) \o there(ManifestOfPartial)
             \o Arranged({x \in DOMAIN partial : x[1] = "views"})
  IN  [n \in DOMAIN old |-> Save(old[n], Removed)]
\* PathGeometryGT.array_axes: from the path schema, when there is one.
HasAxes(p) == Len(p.paths) = 2 => AtPath(p.paths[2]).is = "json"
DelayFile(v, e) == Append(RfDir(v.id.s) \o e.id.s, "dominant_delay.json")
PartialViewWrites(p, v, summary) ==
  LET keys == Arranged(DOMAIN ViewFiles(summary))
  IN  Check(Loads(p, v))
      \o [n \in DOMAIN keys |-> Save(Append(RfDir(v.id.s), ViewFiles(summary)[keys[n]]), Complex(<<1>>))]
      \o (IF summary = "delay" THEN [i \in DOMAIN v.bs |-> Save(DelayFile(v, v.bs[i]), JsonFile(Map(<<>>)))] ELSE <<>>)
PartialView(v, summary) ==
  Map([view_id |-> v.id,
       artifacts |-> Map([k \in DOMAIN ViewFiles(summary) |-> Str(Append(RfDir(v.id.s), ViewFiles(summary)[k]))]),
       bs |-> List([i \in DOMAIN v.bs |->
                Map([bs_id |-> v.bs[i].id,
                     artifacts |-> Map(IF summary = "delay" THEN [dominant_delay |-> Str(DelayFile(v, v.bs[i]))] ELSE <<>>)])])])
ToDataset == <<"..", "dataset">>
NewPartial(p, kept, summary) ==
  Map([schema_version |-> Whole(1), mode |-> Text("rf_camera_partial_observation"),
       source_dataset |-> Str(ToDataset), camera_model_source |-> Str(ToDataset \o p.camera),
       path_geometry_gt |->
         IF p.paths = <<>> THEN Null
         ELSE Map([artifact |-> Str(ToDataset \o p.paths[1]),
                   path_schema |-> IF Len(p.paths) = 1 THEN Null ELSE Str(ToDataset \o p.paths[2])]),
       views |-> List([n \in DOMAIN kept |-> PartialView(p.views[kept[n]], summary)])])
\* The hemispheres and the apertures are looked at when what was there is gone and the mask
\* is written, although a comment at the removal has it that all validation has passed.
BuildPartial(kept, band, summary, overwrite) ==
  /\ CanRead
  /\ LET p == Parsed(Manifest)
         views == SetToSortSeq(kept, <)
     IN  /\ kept \subseteq DOMAIN p.views /\ kept # {}
         /\ band[1] < band[2] /\ band[2] <= p.bins /\ (summary = "delay" => band[2] - band[1] >= 2)
         /\ HasAxes(p)
         /\ partial = <<>> \/ overwrite
         /\ Run("partial",
                Removals \o <<Save(<<"element_mask.npy">>, Real(<<p.rows, p.cols>>))>>
                \o Check(<<"front">> \in {p.hemispheres[n] : n \in DOMAIN p.hemispheres})
                \o FlattenSeq([n \in DOMAIN p.views |->
                     IF n \in kept THEN PartialViewWrites(p, p.views[n], summary) ELSE <<>>])
                \o <<Save(ManifestOfPartial, JsonFile(NewPartial(p, views, summary)))>>)

\* The command line: a carrier is checked against the scene before anything is made.
BuildCommand == \E city \in Cities, ground \in Grounds : Build(city, ground)
MultiviewCommand ==
  \E c \in Setups, xml \in DOMAIN scene : IsScene(xml) /\ CarrierIsValid(scene[xml], c.carrier) /\ Multiview(c)
ObserveCommand == \E name \in Variants : Observe(name)
OpticalCommand == \E xml \in DOMAIN scene : IsScene(xml) /\ Optical
PartialCommand ==
  \E kept \in SUBSET {1, 2}, band \in Bands, summary \in Summaries, overwrite \in BOOLEAN :
    BuildPartial(kept, band, summary, overwrite)
PipelineNext ==
  BuildCommand \/ MultiviewCommand \/ ObserveCommand \/ OpticalCommand \/ PartialCommand \/ Write \/ Die \/ Abort

-----------------------------------------------------------------------------
(* What the viewer reads *)

\* A bundle of both directories, as its documentation lays it out.
InDirectory(name, files) ==
  [p \in {<<name>> \o q : q \in DOMAIN files} |-> files[Tail(p)]]
BundleJson ==
  LET entry(id, kind) == Map([id |-> Text(id), kind |-> Text(kind), path |-> Text(id)])
  IN  JsonFile(Map([bundle_format_version |-> Whole(1),
                    members |-> List(<<entry("dataset", "rf_dataset"), entry("partial", "rf_partial")>>)]))
Workspace ==
  LET first == InDirectory("dataset", dataset)
      second == InDirectory("partial", partial)
  IN  AsTree([p \in DOMAIN first \cup DOMAIN second \cup {<<"bundle.json">>} |->
                IF p \in DOMAIN first THEN first[p] ELSE IF p \in DOMAIN second THEN second[p] ELSE BundleJson])

\* A scene is never ahead of its meshes: whatever was built, or built again, and
\* wherever a build died, every scene that can be parsed is a valid member of a
\* bundle, with each of the files that it names.
SceneIsRead == AreRead(scene)

\* Made with a carrier and at places that are numbers, or else NaN or infinite, which the
\* command does not check and writes, and the reader refuses.
IsFinite(j) ==
  /\ IsNumber(Config(j, "carrier_frequency_hz"))
  /\ \A n \in DOMAIN Items(Get(j, "views")) : IsVector(Get(Items(Get(j, "views"))[n], "position_m"))
HasDataset == ManifestOfDataset \in DOMAIN dataset /\ IsFinite(Manifest)
\* What the commands write the viewer reads. Whatever commands ran, in any order,
\* and wherever they died or raised: a dataset with a manifest, made of finite numbers,
\* is a valid bundle unless a file its manifest names was spoilt by the command that
\* died or raised, and a partial beside it is found to be the one of this dataset, has
\* all of its files and its links lead to files.
WrittenIsRead ==
  Idle =>
    /\ "dataset" \notin suspect /\ HasDataset => BundleFault(AsTree(dataset)) = NoFault
    /\ suspect = {} /\ HasDataset /\ ManifestOfPartial \in DOMAIN partial =>
         /\ BundleFault(Workspace) = NoFault
         /\ Detected(Workspace)[2].source = Text("dataset")
         /\ PartialFiles \subseteq DOMAIN partial
         /\ LET gt == Get(JsonAt(AsTree(partial), ManifestOfPartial), "path_geometry_gt")
            IN  \A k \in Keys(gt) : Missing(gt.m[k]) \/ Collapsed(<<"partial">> \o gt.m[k].s) \in DOMAIN Workspace.files
=============================================================================
