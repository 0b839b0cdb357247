--------------------------- MODULE DatasetManifest ---------------------------
(***************************************************************************)
(* dataset_manifest.json of an RF camera dataset, schema versions 2 and 3  *)
(* (plateau_rt/application/rf_dataset_manifest.py): what the parser        *)
(* refuses, in its order, and what it makes of the rest. "invalid" is a    *)
(* ManifestError, "internal" an exception that nobody expects.             *)
(***************************************************************************)
EXTENDS Json

CONSTANT Letters  \* the characters, in their order, of the texts that are short

ApertureAxes(version) ==
  (IF version = 3 THEN <<"bs">> ELSE <<>>) \o <<"hemisphere", "row", "col", "frequency_offset">>
PerBsArtifacts ==
  {"angular_cfr_center", "angular_power_center", "phase_valid_mask", "dominant_delay_s",
   "dominant_delay_power", "debug_power_png"}

-----------------------------------------------------------------------------
(* The fields of a manifest *)

SchemaVersion(j) ==
  LET v == Get(j, "schema_version") IN IF Equals(v, 2) THEN 2 ELSE IF Equals(v, 3) THEN 3 ELSE 0
Config(j, k) == Get(Get(j, "config"), k)
Offsets(j) == Get(j, "frequency_offsets_hz")
IsNumberList(j) == IsListOf(j, IsNumber) /\ j.l # <<>>
Observation(j, k) == Get(Get(j, "raw_observation"), k)
IsNameList(j) == IsListOf(j, IsStr) /\ j.l # <<>>
Names(j) == [n \in DOMAIN j.l |-> j.l[n].s]
Optional(j, IsOne(_)) == Missing(j) \/ IsOne(j)
OptionalNumber(j) == Missing(j) \/ IsNumber(j)
OptionalVector(j) == Missing(j) \/ IsVector(j)
IsBool(j) == j.t = "bool"
IsEnergies(j) == IsMap(j) /\ \A k \in DOMAIN j.m : IsNumber(j.m[k])
IsArtifacts(j) == IsMap(j) /\ \A k \in DOMAIN j.m : IsStr(j.m[k])

ConfigIsValid(j) ==
  /\ IsMap(Get(j, "config")) /\ IsNumber(Config(j, "carrier_frequency_hz"))
  /\ \A k \in {"rx_rows", "rx_cols"} : IsInt(Config(j, k)) /\ Config(j, k).n >= 1
FrequenciesAreValid(j) ==
  /\ IsNumberList(Offsets(j))
  /\ Has(Get(j, "config"), "num_frequency_bins") =>
       Equals(Config(j, "num_frequency_bins"), Len(Items(Offsets(j))))
  /\ LET a == Get(j, "absolute_frequencies_hz")
     IN  Missing(a) \/ (IsNumberList(a) /\ Len(Items(a)) = Len(Items(Offsets(j))))
AxesAreValid(j) ==
  LET axes == Observation(j, "axis_order")
  IN  Missing(axes) \/ (IsNameList(axes)
                        /\ Names(axes) = [n \in DOMAIN ApertureAxes(SchemaVersion(j)) |->
                                            <<ApertureAxes(SchemaVersion(j))[n]>>])
HeadIsValid(j) ==
  /\ IsMap(j) /\ SchemaVersion(j) # 0 /\ ConfigIsValid(j) /\ FrequenciesAreValid(j)
  /\ Optional(Get(j, "raw_observation"), IsMap)
  /\ AxesAreValid(j) /\ Optional(Observation(j, "hemispheres"), IsNameList)
  /\ Optional(Get(j, "mode"), IsStr) /\ Optional(Get(j, "source_scene"), IsStr)
  /\ OptionalNumber(Get(j, "delay_resolution_s"))
  /\ OptionalNumber(Get(j, "unambiguous_delay_s"))
  /\ Get(j, "views").t = "list" /\ Items(Get(j, "views")) # <<>>

-----------------------------------------------------------------------------
(* Base stations and views *)

StationIsValid(s, n) ==
  /\ IsText(Get(s, "bs_id")) /\ Equals(Get(s, "index"), n - 1)
  /\ IsVector(Get(s, "position_m")) /\ IsVector(Get(s, "look_at_m"))
Unique(items, k) ==
  \A m, n \in DOMAIN items : Get(items[m], k) = Get(items[n], k) => m = n
StationsAreValid(j) ==
  IF SchemaVersion(j) = 3
  THEN LET stations == Items(Get(j, "base_stations"))
       IN  /\ stations # <<>> /\ \A n \in DOMAIN stations : StationIsValid(stations[n], n)
           /\ Unique(stations, "bs_id")
  ELSE IsVector(Config(j, "tx_position")) /\ IsVector(Config(j, "tx_look_at"))
\* The ids of version 3, or the one that stands for the transmitter of version 2.
Stations(j) ==
  IF SchemaVersion(j) = 3
  THEN LET l == Items(Get(j, "base_stations")) IN [n \in DOMAIN l |-> Get(l[n], "bs_id")]
  ELSE <<Str(<<"bs_000">>)>>
\* list(...) of a list is that list, of a text its characters, of a map its keys, which
\* are taken to be in the order of the stations; nothing else gets to the comparison.
ListsStations(ids, stations) ==
  CASE ids.t = "list" -> Items(ids) = stations
    [] ids.t = "map" -> {stations[n] : n \in DOMAIN stations} = {Str(<<k>>) : k \in DOMAIN ids.m}
    [] IsStr(ids) -> /\ Len(ids.s) = 1 /\ ids.s[1] \in DOMAIN Letters
                     /\ [n \in DOMAIN Letters[ids.s[1]] |-> Str(<<Letters[ids.s[1]][n]>>)] = stations
BsIdsFault(j) ==
  LET ids == Observation(j, "bs_ids")
  IN  First(<< <<SchemaVersion(j) # 3 \/ Missing(ids), NoFault>>,
               <<ids.t \notin {"list", "str", "map"}, "internal">>,
               <<ids.t \in {"list", "str", "map"} /\ ~ListsStations(ids, Stations(j)), "invalid">> >>)

PoseIsValid(v) ==
  /\ IsText(Get(v, "view_id")) /\ IsVector(Get(v, "position_m"))
  /\ OptionalVector(Get(v, "look_at_m")) /\ OptionalVector(Get(v, "orientation_rad"))
  /\ IsArtifacts(Get(v, "artifacts")) /\ {"pose", "aperture_cfr"} \subseteq Keys(Get(v, "artifacts"))
EntryIsValid(e) ==
  /\ IsMap(e) /\ IsEnergies(Get(e, "hemisphere_energy"))
  /\ OptionalVector(Get(e, "bs_direction_local"))
  /\ Optional(Get(e, "bs_in_front_hemisphere"), IsBool)
\* Version 3: one entry for each station, in their order. Version 2: the view is the entry.
ViewIsValid(j, v) ==
  /\ PoseIsValid(v)
  /\ IF SchemaVersion(j) = 3
     THEN LET bs == Items(Get(v, "bs"))
          IN  /\ [n \in DOMAIN bs |-> Get(bs[n], "bs_id")] = Stations(j)
              /\ \A n \in DOMAIN bs : EntryIsValid(bs[n]) /\ IsArtifacts(Get(bs[n], "artifacts"))
     ELSE EntryIsValid(v)
ViewsAreValid(j) ==
  LET views == Items(Get(j, "views"))
  IN  /\ \A n \in DOMAIN views : ViewIsValid(j, views[n])
      /\ Unique(views, "view_id")
PathsAreValid(j) ==
  LET gt == Get(j, "path_geometry_gt")
  IN  /\ Missing(gt) \/ IsStr(gt) \/ (IsMap(gt) /\ IsText(Get(gt, "artifact")))
      /\ Optional(Get(j, "path_schema"), IsText)

Invalid(is) == IF is THEN NoFault ELSE "invalid"
ManifestFault(j) ==
  LET head == Invalid(HeadIsValid(j))
  IN  IF head # NoFault THEN head
      ELSE LET stations == Invalid(StationsAreValid(j))
           IN  IF stations # NoFault THEN stations
               ELSE FirstOf(<<BsIdsFault(j), Invalid(ViewsAreValid(j)), Invalid(PathsAreValid(j))>>)

-----------------------------------------------------------------------------
(* What the parser makes of a manifest without a fault *)

Paths(artifacts, keys) == [k \in keys |-> artifacts.m[k].s]
ViewKeys(j, v) ==
  Keys(Get(v, "artifacts")) \ (IF SchemaVersion(j) = 2 THEN PerBsArtifacts ELSE {})
BsEntries(j, v) ==
  IF SchemaVersion(j) = 3
  THEN LET bs == Items(Get(v, "bs"))
       IN  [n \in DOMAIN bs |-> [id |-> Get(bs[n], "bs_id"), energy |-> Get(bs[n], "hemisphere_energy").m,
                                 artifacts |-> Paths(Get(bs[n], "artifacts"), Keys(Get(bs[n], "artifacts")))]]
  ELSE << [id |-> Stations(j)[1], energy |-> Get(v, "hemisphere_energy").m,
           artifacts |-> Paths(Get(v, "artifacts"), Keys(Get(v, "artifacts")) \cap PerBsArtifacts)] >>
View(j, v) ==
  [id |-> Get(v, "view_id"), bs |-> BsEntries(j, v),
   artifacts |-> Paths(Get(v, "artifacts"), ViewKeys(j, v))]
Hemispheres(j) ==
  LET h == Observation(j, "hemispheres") IN IF Missing(h) THEN << <<"front">>, <<"back">> >> ELSE Names(h)
RayDirections(j) ==
  LET ray == Get(Get(j, "camera_model"), "ray_directions")
  IN  IF IsStr(ray) THEN ray.s ELSE <<"camera_model.npz">>
\* path_geometry_gt, and its schema, which counts only with it.
PathFiles(j) ==
  LET gt == Get(j, "path_geometry_gt")
  IN  IF Missing(gt) THEN <<>>
      ELSE <<IF IsStr(gt) THEN gt.s ELSE Get(gt, "artifact").s>>
           \o (IF Missing(Get(j, "path_schema")) THEN <<>> ELSE <<Get(j, "path_schema").s>>)
Parsed(j) ==
  [version |-> SchemaVersion(j), stations |-> Stations(j), hemispheres |-> Hemispheres(j),
   views |-> LET l == Items(Get(j, "views")) IN [n \in DOMAIN l |-> View(j, l[n])],
   rows |-> Config(j, "rx_rows").n, cols |-> Config(j, "rx_cols").n, bins |-> Len(Items(Offsets(j))),
   camera |-> RayDirections(j), paths |-> PathFiles(j),
   synthetic |-> ~Has(Get(j, "config"), "synthetic_array") \/ Truthy(Config(j, "synthetic_array"))]
\* The shape in which an aperture is stored; load_aperture_cfr adds the leading axis of version 2.
StoredShape(p) ==
  (IF p.version = 3 THEN <<Len(p.stations)>> ELSE <<>>) \o <<Len(p.hemispheres), p.rows, p.cols, p.bins>>
LoadedShape(p, stored) == (IF p.version = 2 THEN <<1>> ELSE <<>>) \o stored
ApertureShape(p) == <<Len(p.stations), Len(p.hemispheres), p.rows, p.cols, p.bins>>
\* pairs(): view-major, then in the order of the stations.
Pairs(p) == [n \in 1..(Len(p.views) * Len(p.stations)) |->
               LET k == Len(p.stations)
               IN  [view |-> p.views[((n - 1) \div k) + 1].id,
                    bs |-> p.views[((n - 1) \div k) + 1].bs[((n - 1) % k) + 1].id]]
=============================================================================
