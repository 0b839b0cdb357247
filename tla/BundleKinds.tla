----------------------------- MODULE BundleKinds -----------------------------
(***************************************************************************)
(* Which members a bundle has and whether they are valid                   *)
(* (plateau_rt/viewer/kinds.py, with safeio.py and scene_files.py).        *)
(*                                                                         *)
(* A tree is what was staged, below the bundle's root: the set of its      *)
(* directories and a function from its files to their contents. It has no  *)
(* links, staging refuses them. A file that is too large, is not UTF-8 or  *)
(* does not parse has the contents of a blob. Outcomes are "none",         *)
(* "invalid" (BundleValidationError), "unknown_kind" and "internal"; which *)
(* member an error names is left out.                                      *)
(***************************************************************************)
EXTENDS DatasetManifest

CONSTANTS
  Suffix,      \* of the file names that have one
  NoIds,       \* names MEMBER_ID_RE does not match
  DriveNames,  \* "C:x" and the like
  Slashed,     \* the parts of the names that have a backslash
  MaxMembers   \* of one bundle.json

Blob == [is |-> "blob"]
JsonFile(j) == [is |-> "json", json |-> j]
XmlFile(tag, shapes) == [is |-> "xml", tag |-> tag, shapes |-> shapes]   \* shapes: [type, filename]
\* whole: of the size its header declares, which is below the cap.
NpyFile(shape, dtype, whole) == [is |-> "npy", shape |-> shape, dtype |-> dtype, whole |-> whole]
NpzFile(sound) == [is |-> "npz", sound |-> sound]                        \* sound: check_npz accepts it

Markers == [rf_dataset |-> "dataset_manifest.json", rf_partial |-> "partial_manifest.json",
            tomo_run |-> "run_manifest.json"]
FallbackIds == [rf_dataset |-> "dataset", rf_partial |-> "partial", tomo_run |-> "run"]
MemberKinds == DOMAIN Markers \cup {"scene"}
ASSUME SlashAssumption == DOMAIN Slashed \cap {Markers[k] : k \in DOMAIN Markers} = {}

-----------------------------------------------------------------------------
(* Paths *)

SuffixOf(path) == LET name == path[Len(path)] IN IF name \in DOMAIN Suffix THEN Suffix[name] ELSE ""
Plain(path) ==
  LET plain[n \in 0..Len(path)] ==
        IF n = 0 THEN <<>>
        ELSE IF path[n] \in {"", "."} THEN plain[n - 1] ELSE Append(plain[n - 1], path[n])
  IN  plain[Len(path)]
\* A backslash separates as well, for what is refused.
RootNames == DriveNames \cup {c \in DOMAIN Slashed : Slashed[c][1] = ""}
UpNames == {".."} \cup {c \in DOMAIN Slashed : \E n \in DOMAIN Slashed[c] : Slashed[c][n] = ".."}
Absolute(path) == (path[1] = "" /\ Len(path) > 1) \/ path[1] \in RootNames
Unsafe == <<"..">>
\* resolve_inside, in a tree without links.
Resolve(path) ==
  IF (path # <<>> /\ Absolute(path)) \/ \E n \in DOMAIN path : path[n] \in UpNames THEN Unsafe ELSE Plain(path)
\* Path(member.path) / text: an absolute text stays what it is.
Under(directory, text) == IF text[1] = "" /\ Len(text) > 1 THEN text ELSE directory \o text
Inside(path, directory) == Len(path) > Len(directory) /\ SubSeq(path, 1, Len(directory)) = directory
Parent(path) == SubSeq(path, 1, Len(path) - 1)
\* posixpath.normpath of a relative path; "." is the empty path here.
LOCAL INSTANCE SequencesExt
Collapsed(path) ==
  FoldLeft(LAMBDA done, c : IF c # ".." \/ done = <<>> \/ done[Len(done)] = ".." THEN Append(done, c)
                            ELSE Parent(done), <<>>, Plain(path))

IsFile(t, path) == path \in DOMAIN t.files
Content(t, path) == IF IsFile(t, path) THEN t.files[path] ELSE Blob
JsonAt(t, path) == IF Content(t, path).is = "json" THEN Content(t, path).json ELSE [t |-> "none"]

-----------------------------------------------------------------------------
(* bundle.json *)

TopIsValid(j) ==
  LET by == Get(j, "created_by")
  IN  /\ IsMap(j) /\ DOMAIN j.m \subseteq {"bundle_format_version", "members", "created_by"}
      /\ IsInt(Get(j, "bundle_format_version")) /\ Get(j, "bundle_format_version").n = 1
      /\ Items(Get(j, "members")) # <<>> /\ Len(Items(Get(j, "members"))) <= MaxMembers
      /\ Has(j, "created_by") =>
           /\ IsMap(by) /\ (Has(by, "tool") => IsStr(Get(by, "tool")))
           /\ Has(by, "tool_version") => IsInt(Get(by, "tool_version"))

IdIsValid(j) == IsStr(j) /\ Len(j.s) = 1 /\ j.s[1] \notin {"", ".", ".."} \cup NoIds
KindOfEntry(e) == LET k == Get(e, "kind") IN IF IsStr(k) /\ Len(k.s) = 1 THEN k.s[1] ELSE "none"
PathIsValid(j) ==
  IsStr(j) /\ ~Absolute(j.s) /\ \A n \in DOMAIN j.s : j.s[n] \notin {"", ".", ".."} \cup DOMAIN Slashed
\* _check_member_path: every part is there, with the marker or a <scene>.
PathIsMember(t, kind, path) ==
  IF kind = "scene"
  THEN SuffixOf(path) = ".xml" /\ Content(t, path).is = "xml" /\ Content(t, path).tag = "scene"
  ELSE path \in t.dirs /\ IsFile(t, Append(path, Markers[kind]))
MemberEntryFault(t, entries, n) ==
  LET e == entries[n]
      id == Get(e, "id")
      path == Get(e, "path")
  IN  First(<< <<~IsMap(e) \/ ~(Keys(e) \subseteq {"id", "kind", "path", "for", "source"}), "invalid">>,
               <<~IdIsValid(id), "invalid">>,
               <<\E m \in 1..(n - 1) : Get(entries[m], "id") = id, "invalid">>,
               <<KindOfEntry(e) \notin MemberKinds, "unknown_kind">>,
               <<~PathIsValid(path), "invalid">>,
               <<KindOfEntry(e) \in MemberKinds /\ PathIsValid(path)
                 /\ ~PathIsMember(t, KindOfEntry(e), path.s), "invalid">> >>)

\* _check_directory_collisions and _check_links.
Separate(entries) ==
  LET dirs == {n \in DOMAIN entries : KindOfEntry(entries[n]) # "scene"}
      path(n) == Get(entries[n], "path").s
  IN  \A m, n \in dirs : m # n => path(m) # path(n) /\ ~Inside(path(m), path(n))
NamesDataset(entries, j) ==
  IsStr(j) /\ \E n \in DOMAIN entries : Get(entries[n], "id") = j /\ KindOfEntry(entries[n]) = "rf_dataset"
LinksAreValid(entries) ==
  \A n \in DOMAIN entries :
    LET e == entries[n]
    IN  /\ Has(e, "for") => /\ KindOfEntry(e) = "scene" /\ NamesDataset(entries, Get(e, "for"))
                            /\ \A m \in 1..(n - 1) : ~Has(entries[m], "for") \/ Get(entries[m], "for") # Get(e, "for")
        /\ Has(e, "source") => /\ KindOfEntry(e) \in {"rf_partial", "tomo_run"}
                               /\ NamesDataset(entries, Get(e, "source"))

\* The dataset of a partial that names none in bundle.json, from its own manifest.
PartialSource(t, entries, path) ==
  LET source == Get(JsonAt(t, Append(path, "partial_manifest.json")), "source_dataset")
      hits == {n \in DOMAIN entries : KindOfEntry(entries[n]) = "rf_dataset"
                                      /\ Get(entries[n], "path").s = Collapsed(path \o source.s)}
  IN  IF IsText(source) /\ ~Absolute(source.s) /\ hits # {}
      THEN Get(entries[CHOOSE n \in hits : TRUE], "id") ELSE Null
Member(id, kind, path, for, source) == [id |-> id, kind |-> kind, path |-> path, for |-> for, source |-> source]
DeclaredMembers(t, entries) ==
  [n \in DOMAIN entries |->
     LET e == entries[n]
         path == Get(e, "path").s
         kind == KindOfEntry(e)
     IN  Member(Get(e, "id").s[1], kind, path, Get(e, "for"),
                IF kind = "rf_partial" /\ ~Has(e, "source") THEN PartialSource(t, entries, path) ELSE Get(e, "source"))]

\* detect_members.
FallbackKinds(t) == {k \in DOMAIN Markers : IsFile(t, <<Markers[k]>>)}
HasBundleJson(t) == <<"bundle.json">> \in DOMAIN t.files \cup t.dirs
BundleEntries(t) == Items(Get(JsonAt(t, <<"bundle.json">>), "members"))
DetectFault(t) ==
  IF ~HasBundleJson(t)
  THEN First(<< <<FallbackKinds(t) = {}, "unknown_kind">>, <<Cardinality(FallbackKinds(t)) > 1, "invalid">> >>)
  ELSE IF ~TopIsValid(JsonAt(t, <<"bundle.json">>)) THEN "invalid"
  ELSE LET entries == BundleEntries(t)
           fault == FirstOf([n \in DOMAIN entries |-> MemberEntryFault(t, entries, n)])
       IN  IF fault # NoFault THEN fault
           ELSE Invalid(Separate(entries) /\ LinksAreValid(entries))
Detected(t) ==
  IF HasBundleJson(t) THEN DeclaredMembers(t, BundleEntries(t))
  ELSE LET k == CHOOSE k \in FallbackKinds(t) : TRUE
       IN  << Member(FallbackIds[k], k, <<>>, Null, Null) >>

-----------------------------------------------------------------------------
(* validate_member *)

ManifestOf(t, m) == JsonAt(t, Append(m.path, "dataset_manifest.json"))
ViewArtifacts(p) == UNION {{<<k, v.artifacts[k]>> : k \in DOMAIN v.artifacts} : v \in {p.views[n] : n \in DOMAIN p.views}}
BsArtifacts(p) ==
  UNION {UNION {{e.artifacts[k] : k \in DOMAIN e.artifacts} : e \in {p.views[n].bs[i] : i \in DOMAIN p.views[n].bs}}
         : n \in DOMAIN p.views}
Transforms(j) ==
  LET x == Get(Get(Get(j, "optical_reference"), "pinhole"), "transforms") IN IF IsStr(x) THEN {x.s} ELSE {}
\* The files a dataset names, each with the question whether it is a view's aperture.
Labeled(m, j) ==
  LET p == Parsed(j)
      apertures == {a \in ViewArtifacts(p) : a[1] = "aperture_cfr"}
      others == {p.camera} \cup {a[2] : a \in ViewArtifacts(p) \ apertures} \cup BsArtifacts(p)
                \cup {p.paths[n] : n \in DOMAIN p.paths} \cup Transforms(j)
  IN  [apertures |-> {Resolve(Under(m.path, a[2])) : a \in apertures},
       others |-> {Resolve(Under(m.path, a)) : a \in others}]
ApertureIsValid(c, p) ==
  c.is = "npy" /\ c.dtype = "complex" /\ c.whole /\ c.shape = StoredShape(p)
\* Mutant: a .npz file need only be one.
HeaderOnly(c, path) ==
  /\ SuffixOf(path) = ".npy" => c.is = "npy" /\ c.dtype # "object"
  /\ SuffixOf(path) = ".npz" => c.is = "npz"
ArrayIsValid(c, path) ==
  /\ SuffixOf(path) = ".npy" => c.is = "npy" /\ c.dtype # "object"
  /\ SuffixOf(path) = ".npz" => c.is = "npz" /\ c.sound
DatasetFault(t, m) ==
  LET j == ManifestOf(t, m)
      fault == ManifestFault(j)
  IN  IF fault # NoFault THEN fault
      ELSE LET l == Labeled(m, j)
           IN  Invalid(/\ \A a \in l.apertures \cup l.others : a # Unsafe /\ IsFile(t, a)
                       /\ \A a \in l.apertures : ApertureIsValid(Content(t, a), Parsed(j))
                       /\ \A a \in l.others : ArrayIsValid(Content(t, a), a))

ShapeFile(m, shape) == Resolve(Parent(m.path) \o shape.filename.s)
\* Mutant: a path that stays in the bundle is as good as a file.
PathStays(t, m, shape) ==
  IF Missing(shape.filename) THEN shape.type \notin {"ply", "obj", "serialized"}
  ELSE IsText(shape.filename) /\ Resolve(shape.filename.s) # Unsafe
ShapeIsValid(t, m, shape) ==
  IF Missing(shape.filename) THEN shape.type \notin {"ply", "obj", "serialized"}
  ELSE /\ IsText(shape.filename) /\ Resolve(shape.filename.s) # Unsafe
       /\ IsFile(t, ShapeFile(m, shape))
Shapes(t, m) == Content(t, m.path).shapes
SceneFault(t, m) == Invalid(\A n \in DOMAIN Shapes(t, m) : ShapeIsValid(t, m, Shapes(t, m)[n]))
PartialFault(t, m) ==
  LET j == JsonAt(t, Append(m.path, "partial_manifest.json"))
  IN  Invalid(/\ IsMap(j) /\ IsInt(Get(j, "schema_version")) /\ Get(j, "schema_version").n = 1
              /\ Get(j, "mode") = Str(<<"rf_camera_partial_observation">>))
MemberFault(t, m) ==
  CASE m.kind = "rf_dataset" -> DatasetFault(t, m)
    [] m.kind = "scene" -> SceneFault(t, m)
    [] m.kind = "rf_partial" -> PartialFault(t, m)
    [] m.kind = "tomo_run" -> "unknown_kind"

\* validate_bundle.
BundleFault(t) ==
  IF DetectFault(t) # NoFault THEN DetectFault(t)
  ELSE FirstOf([n \in DOMAIN Detected(t) |-> MemberFault(t, Detected(t)[n])])
\* MemberInfo.files.
MemberFiles(t, m) ==
  CASE m.kind = "rf_dataset" ->
         LET l == Labeled(m, ManifestOf(t, m))
         IN  l.apertures \cup l.others \cup {Append(m.path, "dataset_manifest.json")}
    [] m.kind = "scene" ->
         {m.path} \cup {ShapeFile(m, s) : s \in {x \in {Shapes(t, m)[n] : n \in DOMAIN Shapes(t, m)} : ~Missing(x.filename)}}
    [] OTHER -> {Append(m.path, Markers[m.kind])}
=============================================================================
