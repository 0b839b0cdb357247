--------------------------- MODULE MCViewerRequests ---------------------------
(* Small instances of ViewerRequests: short archives of every kind of entry,  *)
(* datasets with one thing changed, bundles with members that collide, every  *)
(* way a request is refused, the workspaces the commands write, and derivers  *)
(* of every kind of parameter.                                                *)
EXTENDS ViewerRequests, TLC
LOCAL INSTANCE SequencesExt

MCUnitBytes == [KiB |-> 1, MiB |-> 1, GiB |-> 1, TiB |-> 1]
MCLower == ("HTTP" :> "http") @@ ("Localhost" :> "localhost") @@ ("Yes" :> "yes")
MCFolded == "A" :> "a"
MCLetters == ("b" :> <<"b">>) @@ ("bc" :> <<"b", "c">>)
MCSlashed == ("\\pose.json" :> <<"", "pose.json">>) @@ ("x\\.." :> <<"x", "..">>) @@ ("x\\y" :> <<"x", "y">>)
ArrayNames == {"aperture_cfr.npy", "angular_cfr_center.npy", "angular_power_center.npy", "phase_valid_mask.npy",
               "dominant_delay_s.npy", "dominant_delay_power.npy", "pinhole_depth_m.npy", "pinhole_range_m.npy",
               "hemisphere_range_m.npy", "element_mask.npy", "a.npy"}
MCSuffix == [x \in ArrayNames |-> ".npy"]
            @@ [x \in {"camera_model.npz", "path_geometry_gt.npz"} |-> ".npz"] @@ [x \in {"s.xml"} |-> ".xml"]

-----------------------------------------------------------------------------
(* Requests *)

Local == [method |-> "PUT", host |-> <<"localhost", "8765">>, header |-> TRUE, origin |-> NoOrigin]
Upl(archive) ==
  [what |-> "upload", http |-> Local, named |-> TRUE, type |-> "octet", length |-> "fits", free |-> TRUE,
   chunks |-> <<1>>, cut |-> FALSE, source |-> archive]
Ing(src) == [what |-> "ingest", source |-> src]
Del(digest) == [what |-> "delete", http |-> Local, digest |-> digest, chunks |-> <<70>>, cut |-> FALSE, confirmed |-> TRUE]
Get1(digest, member, path) ==
  [what |-> "raw", http |-> [Local EXCEPT !.method = "GET"], digest |-> digest, member |-> member, path |-> path]
Session(env, requests) == [env |-> env, requests |-> requests]
With1(env, r) == Session(env, <<r>>)

-----------------------------------------------------------------------------
(* Archives and directories, with limits of two files and two blocks *)

Small == [max_files |-> Digits(2), max_extracted_bytes |-> Sized(2, "KiB")]
Entry1(name, kind, blocks, flaw) == [name |-> name, kind |-> kind, blocks |-> blocks, flaw |-> flaw]
Fi(name, b) == Entry1(name, "file", b, "none")
Di(name) == Entry1(name, "dir", 0, "none")
Plain1 == {Fi(<<"a">>, 1), Fi(<<"a", "b">>, 1), Fi(<<"b">>, 2), Di(<<"A">>), Di(<<"a", "">>), Fi(<<"A", "b">>, 0),
           Di(<<".", "">>), Fi(<<".", "c">>, 0)}
Odd == {Fi(<<"c">>, 3), Entry1(<<"c">>, "file", 1, "data"), Entry1(<<"c">>, "file", 0, "encrypted"),
        Entry1(<<"c">>, "file", 0, "header"), Fi(<<"">>, 0), Fi(<<"b", "bad">>, 0), Fi(<<"", "b">>, 0),
        Fi(<<"C:", "b">>, 0), Fi(<<"b", "..", "c">>, 0), Fi(<<".">>, 0)}
       \cup {Entry1(<<"c">>, kind, 0, "none") : kind \in {"symlink", "hardlink", "device"}}
Seqs == UNION {[1..n -> Plain1] : n \in 0..3} \cup {<<x>> : x \in Odd}
        \cup {<<p, x>> : p \in Plain1, x \in Odd} \cup {<<x, p>> : p \in Plain1, x \in Odd}
Archives == {[format |-> f[1], counted |-> f[2], entries |-> s, contents |-> <<>>] :
               f \in {<<"zip", TRUE>>, <<"zip", FALSE>>, <<"tar", FALSE>>}, s \in Seqs}
Other == [format |-> "other", counted |-> FALSE, entries |-> <<>>, contents |-> <<>>]
Named(name, kind, b) == [name |-> name, kind |-> kind, blocks |-> b]
Dir(listing) == [format |-> "directory", listing |-> listing, contents |-> <<>>]
Directories ==
  {Dir(<<>> :> s) : s \in {<<>>, <<Named("A", "file", 1), Named("a", "file", 1)>>, <<Named("a", "symlink", 1)>>,
                           <<Named("a", "device", 1)>>, <<Named("bad", "file", 1)>>, <<Named("a", "file", 3)>>,
                           <<Named("a", "file", 1), Named("b", "file", 1)>>,
                           <<Named("a", "file", 1), Named("b", "file", 1), Named("c", "file", 0)>>}}
  \cup {Dir((<<>> :> <<Named("a", "dir", 0), Named("b", "file", 2)>>) @@ (<<"a">> :> s)) :
          s \in {<<>>, <<Named("b", "file", 1)>>}}
  \cup {Dir((<<>> :> <<Named("a", "dir", 0)>>) @@ (<<"a">> :> <<Named("c", "file", 2)>>))}
Staged == {With1(Small, Ing(s)) : s \in Archives \cup Directories \cup {Other, [format |-> "missing"]}}

-----------------------------------------------------------------------------
(* Datasets: one of version 3 and one of version 2, and what may be changed *)

View3 == Map([view_id |-> Text("v"), position_m |-> Vector,
              artifacts |-> Map([pose |-> Text("pose.json"), aperture_cfr |-> Text("a.npy")]),
              bs |-> List(<<Map([bs_id |-> Text("b"), hemisphere_energy |-> Map([front |-> Float(2), back |-> Float(1)]),
                                 artifacts |-> Map(<<>>)])>>)])
Station1(id, at) == Map([bs_id |-> Text(id), index |-> at, position_m |-> Vector, look_at_m |-> Vector])
Base3 ==
  Map([schema_version |-> Whole(3),
       config |-> Map([carrier_frequency_hz |-> Float(3), rx_rows |-> Whole(1), rx_cols |-> Whole(1)]),
       frequency_offsets_hz |-> List(<<Float(1), Float(2)>>),
       base_stations |-> List(<<Station1("b", Whole(0))>>), views |-> List(<<View3>>)])
View2 == Map([view_id |-> Text("v"), position_m |-> Vector, hemisphere_energy |-> Map([front |-> Whole(1)]),
              artifacts |-> Map([pose |-> Text("pose.json"), aperture_cfr |-> Text("a.npy"),
                                 angular_power_center |-> Text("a.npy")])])
Base2 ==
  Map([schema_version |-> Whole(2),
       config |-> Map([carrier_frequency_hz |-> Float(3), rx_rows |-> Whole(1), rx_cols |-> Whole(1),
                       tx_position |-> Vector, tx_look_at |-> Vector]),
       frequency_offsets_hz |-> List(<<Float(2), Float(1)>>), views |-> List(<<View2>>)])
Files(j, shape) ==
  (<<"dataset_manifest.json">> :> JsonFile(j)) @@ (<<"pose.json">> :> JsonFile(Map(<<>>)))
  @@ (<<"a.npy">> :> Complex(shape)) @@ (<<"camera_model.npz">> :> NpzFile(TRUE))
Shape3 == <<1, 2, 1, 1, 2>>
Set3(k, values) == {Put(Base3, k, v) : v \in values}
SetIn(k, k2, values) ==
  {Put(Base3, k, Put(IF Has(Base3, k) THEN Get(Base3, k) ELSE Map(<<>>), k2, v)) : v \in values}
SetView(k, values) == {Put(Base3, "views", List(<<Put(View3, k, v)>>)) : v \in values}
Energy(j) == Map([bs_id |-> Text("b"), hemisphere_energy |-> j, artifacts |-> Map(<<>>)])
Axes5 == [n \in 1..5 |-> Text(ApertureAxes(3)[n])]
Manifests ==
  {Base3, Null, List(<<>>)}
  \cup Set3("schema_version", {Whole(4), Bool(TRUE), Float(3), Text("3")})
  \cup Set3("config", {Null}) \cup SetIn("config", "carrier_frequency_hz", {Null, NaN, Bool(TRUE)})
  \cup SetIn("config", "rx_rows", {Whole(0), Float(1), Bool(TRUE)})
  \cup SetIn("config", "num_frequency_bins", {Whole(2), Float(2), Whole(3), Null})
  \cup SetIn("config", "bandwidth_hz", {Float(5), Float(0), Infinity})
  \cup Set3("frequency_offsets_hz", {List(<<>>), Null, List(<<Infinity>>)})
  \cup Set3("absolute_frequencies_hz", {List(<<Whole(1)>>), List(<<Whole(1), Whole(2)>>)})
  \cup SetIn("raw_observation", "axis_order", {Null, Text("row"), List(Axes5), List(Tail(Axes5))})
  \cup SetIn("raw_observation", "bs_ids", {Null, Text("b"), Text("bc"), Text("cd"), Whole(1), Map(<<>>), Map([b |-> Null]),
                                    List(<<Text("b")>>), List(<<Text("c")>>)})
  \cup SetIn("raw_observation", "hemispheres", {List(<<>>), List(<<Text("front")>>), List(<<Text("x"), Text("y")>>)})
  \cup Set3("base_stations", {List(<<>>), Null, List(<<Station1("", Whole(0))>>), List(<<Station1("b", Whole(1))>>),
                              List(<<Station1("b", Bool(FALSE))>>),
                              List(<<Station1("b", Whole(0)), Station1("b", Whole(1))>>)})
  \cup Set3("views", {List(<<>>), Null, List(<<View3, View3>>), List(<<View3, Put(View3, "view_id", Text("w"))>>)})
  \cup SetView("view_id", {Null, Text("")}) \cup SetView("look_at_m", {Null, Vector, List(<<Whole(1)>>)})
  \cup SetView("artifacts", {Map([pose |-> Text("pose.json")]),
                             Map([pose |-> Text("x"), aperture_cfr |-> Text("a.npy")]),
                             Map([pose |-> Str(<<"..", "pose.json">>), aperture_cfr |-> Text("a.npy")]),
                             Map([pose |-> Str(<<"", "pose.json">>), aperture_cfr |-> Text("a.npy")]),
                             Map([pose |-> Text("\\pose.json"), aperture_cfr |-> Text("a.npy")]),
                             Map([pose |-> Str(<<"x\\..", "pose.json">>), aperture_cfr |-> Text("a.npy")]),
                             Map([pose |-> Text("x\\y"), aperture_cfr |-> Text("a.npy")]),
                             Map([pose |-> Str(<<".", "pose.json">>), aperture_cfr |-> Text("a.npy"),
                                  optical_pinhole_rgba |-> Text("pose.json"), angular_power_center |-> Text("a.npy")])})
  \cup SetView("bs", {List(<<>>), List(<<Energy(Null)>>), List(<<Energy(Map([back |-> Infinity]))>>),
                      List(<<Energy(Map([back |-> Whole(1)]))>>)})
  \cup Set3("path_geometry_gt", {Text("pose.json"), Map([artifact |-> Text("")]), Map([artifact |-> Text("x")]), Whole(1)})
  \cup {Put(Put(Base3, "path_geometry_gt", Map([artifact |-> Text("pose.json")])), "path_schema", s) :
          s \in {Text("pose.json"), Text("")}}
  \cup SetIn("camera_model", "ray_directions", {Null, Text("pose.json"), Text("x"), Text("")})
  \cup SetIn("camera_model", "image_axes", {Null} \cup {Map([row |-> x]) : x \in {Text("up"), List(<<NaN>>), List(<<Infinity>>)}})
  \cup {Put(Base3, "optical_reference", Map([pinhole |-> Map([transforms |-> Text(x)])])) : x \in {"pose.json", "x"}}
  \cup Set3("mode", {Whole(1), Text("m")}) \cup Set3("delay_resolution_s", {Float(2), Infinity})
  \cup {Put(Base2, "config", Put(Get(Base2, "config"), "tx_position", v)) : v \in {Null, Vector}}
ShapeOf(j) == IF Equals(Get(j, "schema_version"), 2) THEN Tail(Shape3) ELSE Shape3
DatasetFiles ==
  {Files(j, ShapeOf(j)) : j \in Manifests}
  \cup {Files(Base3, s) : s \in {Tail(Shape3), <<1, 2, 2, 1, 2>>}}
  \cup {(p :> c) @@ Files(Base3, Shape3) :
          <<p, c>> \in ({<<"a.npy">>} \X {Real(Shape3), NpyFile(Shape3, "complex", FALSE), Blob, NpyFile(Shape3, "object", TRUE)})
                      \cup ({<<"camera_model.npz">>} \X {Blob, NpzFile(FALSE)})
                      \cup {<< <<"partial_manifest.json">>, Blob >>, << <<"bundle.json">>, Blob >>}}

-----------------------------------------------------------------------------
(* Bundles of several members *)

In(name, files) == InDirectory(name, files)
Good == Files(Base3, Shape3)
Partial1(from) ==
  <<"partial_manifest.json">> :> JsonFile(Map([schema_version |-> Whole(1), source_dataset |-> from,
                                               mode |-> Text("rf_camera_partial_observation")]))
Shape1(type, file) == [type |-> type, filename |-> file]
Scene(tag, shapes) == <<"s", "s.xml">> :> XmlFile(tag, shapes)
SceneFiles(shapes) == Scene("scene", shapes) @@ (<<"s", "m.ply">> :> Blob)
E1(id, kind, path) == Map([id |-> Text(id), kind |-> Text(kind), path |-> Str(path)])
ED == E1("d", "rf_dataset", <<"d">>)
EP == E1("p", "rf_partial", <<"p">>)
ES == E1("s", "scene", <<"s", "s.xml">>)
Bundle(entries) == JsonFile(Map([bundle_format_version |-> Whole(1), members |-> List(entries)]))
Tomo == <<"run_manifest.json">> :> JsonFile(Map(<<>>))
Rest == In("d", Good) @@ In("p", Partial1(Str(<<"..", "d">>))) @@ SceneFiles(<<>>) @@ In("t", Tomo)
EntryLists ==
  {<<ED, EP, ES>>, <<ED, EP, Put(ES, "for", Text("d"))>>, <<ED, EP, Put(ES, "for", Text("p"))>>,
   <<ED, Put(EP, "source", Text("d")), ES>>, <<ED, Put(EP, "source", Text("s")), ES>>, <<Put(ED, "for", Text("d")), EP, ES>>,
   <<ED, Put(ES, "for", Text("d")), Put(Put(ES, "for", Text("d")), "id", Text("s2"))>>,
   <<ED, ES, Put(ES, "id", Text("s2"))>>,
   <<ED, ED>>, <<ED, Put(ED, "id", Text("d2"))>>, <<ED, E1("n", "rf_partial", <<"d">>)>>,
   <<ED, E1("m", "movie", <<"d">>)>>, <<ED, E1("t", "tomo_run", <<"t">>)>>, <<ED, E1("x", "scene", <<"d", "pose.json">>)>>,
   <<Put(ED, "id", Text("bad id"))>>, <<Put(ED, "id", Null)>>, <<Put(ED, "path", Str(<<"d", "">>))>>, <<Put(ED, "path", Text("q"))>>,
   <<Put(ED, "path", Text("x\\y"))>>, <<ED, EP, ES, Put(ES, "id", Text("s2")), Put(ES, "id", Text("s3"))>>,
   <<Put(ED, "more", Null)>>, <<Null>>, <<>>}
BundleFiles ==
  {(<<"bundle.json">> :> Bundle(l)) @@ Rest : l \in EntryLists}
  \cup {(<<"bundle.json">> :> Bundle(<<ED, E1("n", "rf_partial", <<"d", "n">>)>>)) @@ In("d", Good @@ In("n", Partial1(Null)))}
  \cup {(<<"bundle.json">> :> JsonFile(j)) @@ In("d", Good) :
          j \in {Put(Bundle(<<ED>>).json, k, v) :
                   <<k, v>> \in {"bundle_format_version"} \X {Whole(2), Float(1)} \cup {<<"more", Null>>, <<"members", Null>>}
                     \cup {<<"created_by", Map([tool |-> Text("t"), tool_version |-> Whole(1)])>>,
                           <<"created_by", Map([tool |-> Whole(1)])>>, <<"created_by", Null>>}}}
  \cup {(<<"bundle.json">> :> Bundle(<<EP>>)) @@ In("p", f) :
          f \in {Partial1(Null), <<"partial_manifest.json">> :> JsonFile(Map([schema_version |-> Whole(1)])),
                 <<"partial_manifest.json">> :> Blob}}
  \cup {(<<"bundle.json">> :> Bundle(<<ES>>)) @@ s :
          s \in {SceneFiles(<<x>>) :
                   x \in {Shape1("ply", Text("m.ply")), Shape1("ply", Null), Shape1("sphere", Null), Shape1("ply", Text("")),
                          Shape1("obj", Text("x.ply")), Shape1("ply", Str(<<"..", "m.ply">>))}}
                \cup {Scene("html", <<>>)}}

\* The archive of some files, in any one order, with a directory entry or not.
Zipped(files, top) ==
  LET names == Arranged(DOMAIN files)
  IN  [format |-> "zip", counted |-> TRUE, contents |-> files,
       entries |-> [n \in DOMAIN names |-> Fi(names[n], 0)] \o top]
Contentful == {With1(<<>>, Upl(Zipped(f, <<>>))) : f \in DatasetFiles \cup BundleFiles \cup {Tomo}}

-----------------------------------------------------------------------------
(* Everything else that may be wrong with a request *)

Base == Upl(Zipped(Good, <<>>))
Uploads ==
  {[Base EXCEPT !.named = FALSE], [Base EXCEPT !.type = "none"], [Base EXCEPT !.type = "other"],
   [Base EXCEPT !.length = "bad"], [Base EXCEPT !.length = "over"], [Base EXCEPT !.length = "none"],
   [Base EXCEPT !.free = FALSE], [Base EXCEPT !.cut = TRUE], [Base EXCEPT !.chunks = <<>>],
   [Base EXCEPT !.chunks = <<2, 2>>], [Base EXCEPT !.chunks = <<2, 3>>], [Base EXCEPT !.chunks = <<3, 1, 1>>]}
Url(scheme, host) == UrlOrigin(scheme, host, "")
Https ==
  {[Local EXCEPT !.host = <<h>>] : h \in {"localhost", "Localhost", "127.0.0.1", "elsewhere"}}
  \cup {[Local EXCEPT !.header = FALSE], [Local EXCEPT !.host = <<"u@localhost">>, !.origin = Url("http", <<"u@localhost">>)]}
  \cup {[Local EXCEPT !.origin = o] :
          o \in {NullOrigin, BrokenOrigin, Url("http", <<"localhost", "8765">>), Url("HTTP", <<"Localhost", "8765">>),
                 Url("http", <<"localhost">>), Url("ftp", <<"localhost", "8765">>), Url("https", <<"lab">>),
                 UrlOrigin("http", <<"localhost", "8765">>, "/x")}}
Origins == [allowed_origins |-> Separated(<<[scheme |-> "https", host |-> <<"lab">>, rest |-> "/"]>>)]
Gated == {With1(env, [Base EXCEPT !.http = h]) : env \in {<<>>, Origins, [allowed_hosts |-> Separated(<<"*">>)]}, h \in Https}
Faulty ==
  [max_files : {Digits(0), Signed(-1), Sized(1, "KiB"), Word("x")}]
  \cup [max_upload_bytes : {Signed(1), Decimal(1), Digits(0)}] \cup [derive_timeout_s : {Word("nan"), Digits(0)}]
  \cup [read_only : {Word("maybe")}] \cup [allowed_hosts : {Separated(<<"">>)}] \cup [data_dir : {Word("a file")}]
  \cup [allowed_origins : {Separated(<<[scheme |-> s, host |-> <<h>>, rest |-> ""]>>) :
                             <<s, h>> \in {<<"ftp", "lab">>, <<"https", "u@localhost">>}}]
  \cup [import_roots : {Separated(<<r, r>>) : r \in [absolute : BOOLEAN, directory : BOOLEAN, path : {"r"}]}]
Fine == [read_only : {Word("Yes"), Blank}, derive_timeout_s : {Decimal(1)}, max_files : {Blank, Signed(9)},
         import_roots : {Separated(<<Blank, [absolute |-> TRUE, directory |-> TRUE, path |-> "r"]>>)}]
Longer ==
  LET again == Upl(Zipped(Good, <<Di(<<"empty">>)>>))
      d == Del(Good)
      both == (<<"bundle.json">> :> Bundle(<<ED, EP, ES>>)) @@ Rest
  IN  {<<Base, again, d, again>>, <<Upl(Zipped(In("top", Good), <<>>)), d, d>>, <<Base, Ing(Zipped(both, <<>>)), d>>,
       <<Base, [d EXCEPT !.confirmed = FALSE]>>, <<Base, [d EXCEPT !.cut = TRUE]>>, <<Base, [d EXCEPT !.chunks = <<4000, 97>>]>>,
       <<Ing(Zipped(both, <<>>)), Get1(both, "d", <<"pose.json">>), Get1(both, "s", <<"m.ply">>), Get1(both, "d", <<"..", "p">>),
         Get1(both, "x", <<"pose.json">>), Get1(both, "p", <<"pose.json">>), Get1(Good, "dataset", <<"pose.json">>)>>}
Requested ==
  {With1(<<>>, r) : r \in Uploads} \cup Gated \cup {With1(env, Base) : env \in Faulty \cup Fine}
  \cup {Session(<<>>, requests) : requests \in Longer}

-----------------------------------------------------------------------------
(* Scenes and workspaces *)

\* A house with a roof, walls and a window, and one whose roof is a line, with a road.
Geometry(type, surfaces, values, corners) == [type |-> type, surfaces |-> surfaces, values |-> values, corners |-> corners]
Object(id, type, structure, geometry) == [id |-> id, type |-> type, structure |-> structure, geometry |-> geometry]
City(vertices, objects) == [stem |-> "s", vertices |-> vertices, objects |-> objects]
House ==
  Object("a", "Building", "wooden",
         <<Geometry("MultiSurface", <<"RoofSurface", "WallSurface", "Window">>, <<1, 2, 2, 0, 3>>, <<3, 4, 2, 3, 3>>)>>)
Roofless ==
  Object("a", "BuildingPart", "unknown",
         <<Geometry("Solid", <<"RoofSurface", "GroundSurface">>, <<1, 2>>, <<2, 3>>),
           Geometry("MultiSurface", <<>>, <<>>, <<3>>), Geometry("MultiPoint", <<"RoofSurface">>, <<1>>, <<3>>)>>)
Road == Object("r", "Road", "unknown", <<Geometry("MultiSurface", <<"RoofSurface">>, <<2>>, <<3>>)>>)
Short == Object("a", "Building", "unknown", <<Geometry("MultiSurface", <<"RoofSurface">>, <<1>>, <<3, 3>>)>>)
MCCities == {City(4, <<House>>), City(4, <<Road, Roofless>>), City(0, <<House>>), City(4, <<House, Short>>)}
MCGrounds == {0, 50}
Setup(stations, rows) ==
  [stations |-> stations, views |-> 1, rows |-> rows, cols |-> 1, bins |-> 2, meets |-> {},
   carrier |-> Float(3), bandwidth |-> Float(2), radius |-> Float(1)]
\* A usual one, those that are refused, and those that raise or write what is not read.
MCSetups ==
  LET usual == Setup(1, 1)
  IN  {Setup(1, 2), Setup(0, 1), [usual EXCEPT !.carrier = Float(0)],
       [usual EXCEPT !.carrier = NaN, !.radius = Infinity], [usual EXCEPT !.bandwidth = NaN],
       [usual EXCEPT !.carrier = Float(28), !.meets = {<<ViewId(1), BsId(1)>>}]}
MCBands == {<<0, 2>>, <<1, 2>>}
Complete(w) == [p \in {w[n].path : n \in DOMAIN w} |-> w[CHOOSE n \in DOMAIN w : w[n].path = p].content]
\* Of version 2 without a front; of two views, the second without a pose, with observations
\* that are no map; and a usual one.
Sideways == Put(Base2, "raw_observation", Map([hemispheres |-> List(<<Text("left"), Text("right")>>)]))
Two ==
  LET second == Put(Put(View3, "view_id", Text("w")), "artifacts",
                    Map([pose |-> Text("w.json"), aperture_cfr |-> Text("a.npy")]))
  IN  Put(Put(Base3, "views", List(<<View3, second>>)), "observations", Null)
MCEarlier ==
  {Files(Sideways, Tail(Shape3)), Files(Two, Shape3) @@ (<<"w.json">> :> Blob), Complete(MultiviewWrites(Setup(1, 1)))}
MCEarlierScenes == {Complete(CityWrites(City(4, <<House>>), 0))}
Workspaces == {With1(<<>>, [what |-> "workspace"])}

-----------------------------------------------------------------------------
(* Derivations: 1000 ticks to 1, three digits and a tolerance of 10 ticks, as *)
(* one parameter of each kind with good and bad bounds, or two                *)

Num(n, spelling) == Params!Number(n, spelling)
Quote(w, chars) == Params!Word(w, chars)
Bound(n) == Params!IntBound(n)
Real1(n) == Params!FloatBound(n)
MCTexts == {Num(n, Params!Shortest) : n \in {-1000, -300, 0, 3, 100, 101, 106, 300, 305, 898, 900, 903, 1000, 2000}}
           \cup {Num(n, "long") : n \in {0, 300, 1000}} \cup {Quote("a", 1), Quote("c", 90), Quote("d", 200)}
Param(name, kind) ==
  [name |-> name, kind |-> kind, values |-> <<>>, slip |-> 0,
   min |-> Params!NoBound, max |-> Params!NoBound, step |-> Params!NoBound]
Ints == {[Param("i", "int") EXCEPT !.min = Bound(r[1]), !.max = r[2]] :
           r \in {<<-1, Bound(2)>>, <<0, Bound(0)>>, <<1, Bound(0)>>, <<0, Real1(0)>>}}
Floats == {[Param("f", "float") EXCEPT !.min = r[1], !.max = Real1(r[2]), !.step = Real1(r[3]), !.slip = r[4]] :
             r \in {<<Bound(-1), 1000, 100, 0>>, <<Bound(-1), 1000, 100, 1>>, <<Real1(0), 900, 300, 1>>,
                    <<Real1(-300), 0, 100, -1>>, <<Real1(-300), 0, 100, 1>>, <<Real1(0), 898, 300, 0>>,
                    <<Bound(0), 2000, 2000, 0>>, <<Params!OddBound, 0, 100, 0>>, <<Real1(0), 905, 300, 0>>,
                    <<Bound(0), 1000, 1, 0>>}}
Enums == {[Param("e", "enum") EXCEPT !.values = v] :
            v \in {<<Quote("a", 1), Quote("c", 90)>>, <<Quote("a", 1), Quote("a", 1)>>, <<>>}}
AView == Param("v", "view")
\* Combinations that are whole, of one name too few, or with a value that is no text.
Spaces(params) ==
  LET names == {params[n].name : n \in DOMAIN params} \ {"i", "f"}
  IN  {[x \in names |-> w] : w \in {Quote("a", 1), Quote("c", 90), Quote("d", 200), Params!NotText}} \cup {<<>>}
Deriver(kind, params, eager, fault) ==
  [kinds |-> {kind}, params |-> params, eager |-> eager, space |-> [fault |-> fault, combinations |-> Spaces(params)]]
Single == {<<p>> : p \in Ints \cup Floats \cup Enums \cup {AView}}
MCDerivers ==
  {Deriver("rf_dataset", p, e, "none") :
     p \in {<<>>, <<AView, AView>>} \cup Single \cup {<<p, AView>> : p \in Ints \cup Enums}, e \in BOOLEAN}
  \cup {Deriver("scene", <<AView>>, FALSE, "none"), Deriver("rf_dataset", <<AView>>, TRUE, "derive_failed")}
Member1(what, id) ==
  [what |-> what, http |-> [Local EXCEPT !.method = "GET"], digest |-> Good, member |-> id, repeated |-> FALSE]
Derivations ==
  LET one == Member1("derived", "dataset")
  IN  {Session(<<>>, r) : r \in {<<Base, one, one>>, <<Base, Member1("derive", "dataset"), one>>,
                                 <<Base, Member1("derived", "x")>>, <<Base, [one EXCEPT !.repeated = TRUE]>>,
                                 <<Member1("derive", "dataset")>>}}

\* The values in the files of all these, with what is in them.
InFiles(files) ==
  {files[p].json : p \in {q \in DOMAIN files : files[q].is = "json"}}
  \cup UNION {{files[p].shapes[n].filename : n \in DOMAIN files[p].shapes} : p \in {q \in DOMAIN files : files[q].is = "xml"}}
Inside1(values) ==
  values \cup UNION {{j.m[k] : k \in DOMAIN j.m} : j \in {v \in values : IsMap(v)}}
         \cup UNION {{j.l[n] : n \in DOMAIN j.l} : j \in {v \in values : v.t = "list"}}
MCJsonValues ==
  LET within[n \in 0..8] == IF n = 0 THEN UNION {InFiles(f) : f \in DatasetFiles \cup BundleFiles \cup MCEarlier \cup {Tomo, Good, Rest}}
                            ELSE Inside1(within[n - 1])
  IN  within[8]
MCSessions == Staged \cup Contentful \cup Requested \cup Workspaces \cup Derivations
=============================================================================
