----------------------------- MODULE SceneBuild -----------------------------
(***************************************************************************)
(* What the build command makes of a city (application/build_scene.py):    *)
(* the surfaces of its buildings are read from CityJSON                    *)
(* (cityjson_parser.py), each part of a building becomes a mesh            *)
(* (trimesh_adapter.py), a scene names the meshes (scene_compiler.py) and  *)
(* a manifest comes last.  Coordinates are left out: a polygon is the      *)
(* surface that it belongs to and the number of its corners.               *)
(*                                                                         *)
(* A city is [stem, vertices, objects], an object [id, type, structure,    *)
(* geometry] and a geometry [type, surfaces, values, corners]: the types   *)
(* of its surfaces and, for every polygon of its outer shell, which of     *)
(* them it belongs to and its corners.  Without semantics there are no     *)
(* surfaces and no values.                                                 *)
(***************************************************************************)
EXTENDS BundleKinds
LOCAL INSTANCE SequencesExt

\* A file to write.
Save(path, content) == [path |-> path, content |-> content]

-----------------------------------------------------------------------------
(* CityJSONAdapter *)

BuildingTypes == {"Building", "BuildingPart"}
GeometryTypes == {"MultiSurface", "Solid", "CompositeSurface"}
NoSurface == 0
PartOf == [RoofSurface |-> "roof", WallSurface |-> "wall", GroundSurface |-> "ground"]
BaseMaterial ==
  [wooden |-> "wood", reinforced_concrete |-> "concrete", steel |-> "metal", steel_concrete |-> "concrete", brick |-> "concrete"]
\* A roof is of the default material, whatever the structure.
MaterialOf(o, part) ==
  IF part = "roof" \/ o.structure \notin DOMAIN BaseMaterial THEN "default" ELSE BaseMaterial[o.structure]

IsKept(g, n) == g.values # <<>> /\ g.values[n] # NoSurface /\ g.surfaces[g.values[n]] \in DOMAIN PartOf
ExtractSurfaces(o, g) ==
  FlattenSeq([n \in DOMAIN g.corners |->
    IF IsKept(g, n)
    THEN LET part == PartOf[g.surfaces[g.values[n]]]
         IN  <<[part |-> part, material |-> MaterialOf(o, part), corners |-> g.corners[n]]>>
    ELSE <<>>])
SurfacesOf(o) ==
  FlattenSeq([k \in DOMAIN o.geometry |->
    IF o.geometry[k].type \in GeometryTypes THEN ExtractSurfaces(o, o.geometry[k]) ELSE <<>>])
\* What raises: no vertices, or a polygon without an entry or with one of no surface.
CanParse(city) ==
  /\ city.vertices > 0
  /\ \A k \in DOMAIN city.objects : LET o == city.objects[k] IN
       o.type \in BuildingTypes =>
         \A i \in DOMAIN o.geometry : LET g == o.geometry[i] IN
           g.type \in GeometryTypes /\ g.values # <<>> =>
             \A n \in DOMAIN g.corners : n \in DOMAIN g.values /\ g.values[n] \in {NoSurface} \cup DOMAIN g.surfaces

HasLists(city) ==
  /\ IsSeq(city.objects)
  /\ \A k \in DOMAIN city.objects : LET o == city.objects[k] IN
       IsSeq(o.geometry) /\ \A i \in DOMAIN o.geometry : IsSeq(o.geometry[i].corners)

-----------------------------------------------------------------------------
(* TrimeshAdapter and SionnaSceneCompiler *)

Mesh(id, material) == [id |-> id, material |-> material]
MeshFile(mesh) == <<mesh.id \o ".ply">>
\* export_scene: one mesh of every part, unless it has no surface of three corners.
BuildingMeshes(o) ==
  LET s == SurfacesOf(o)
      isFirst(n) == \A i \in 1..(n - 1) : s[i].part # s[n].part
      hasMesh(n) == \E i \in DOMAIN s : s[i].part = s[n].part /\ s[i].corners >= 3
  IN  FlattenSeq([n \in DOMAIN s |->
        IF isFirst(n) /\ hasMesh(n) THEN <<Mesh(o.id \o "_" \o s[n].part, s[n].material)>> ELSE <<>>])
GroundPlane == Mesh("ground_plane", "ground")
Meshes(city, ground) ==
  FlattenSeq([k \in DOMAIN city.objects |->
    IF city.objects[k].type \in BuildingTypes THEN BuildingMeshes(city.objects[k]) ELSE <<>>])
  \o (IF ground > 0 THEN <<GroundPlane>> ELSE <<>>)

MaterialMap ==
  [concrete |-> "itu_concrete", wood |-> "itu_wood", glass |-> "itu_glass", metal |-> "itu_metal",
   default |-> "itu_concrete", ground |-> "itu_medium_dry_ground"]
SceneXml(meshes) ==
  XmlFile("scene", [n \in DOMAIN meshes |-> [type |-> "ply", filename |-> Str(MeshFile(meshes[n])),
                                             bsdf |-> MaterialMap[meshes[n].material]]])
XmlPath(city) == <<city.stem \o ".xml">>
SceneManifest(city, meshes, ground) ==
  LET ids == {meshes[n].id : n \in DOMAIN meshes}
      material(id) == MaterialMap[meshes[CHOOSE n \in DOMAIN meshes : meshes[n].id = id].material]
      manifest ==
        Map([scene_id |-> Str(<<city.stem>>),
             outputs |-> Map([xml_file |-> Str(XmlPath(city)), mesh_count |-> Whole(Len(meshes))]),
             material_mapping |-> Map([id \in ids |-> Str(<<material(id)>>)])])
  IN  IF ground > 0 THEN Put(manifest, "ground_plane", Map([size_m |-> Float(ground)])) ELSE manifest

\* SceneBuilder.run: the meshes, the scene that names them, the manifest.
MeshWrites(meshes) == [n \in DOMAIN meshes |-> Save(MeshFile(meshes[n]), Blob)]
\* Mutant: the scene is compiled before its meshes are exported.
SceneFirst(city, meshes) == <<Save(XmlPath(city), SceneXml(meshes))>> \o MeshWrites(meshes)
SceneLast(city, meshes) == Append(MeshWrites(meshes), Save(XmlPath(city), SceneXml(meshes)))
CityWrites(city, ground) ==
  LET meshes == Meshes(city, ground)
  IN  Append(SceneLast(city, meshes), Save(<<"manifest.json">>, JsonFile(SceneManifest(city, meshes, ground))))

\* check_scene_carrier_frequency: the material of the ground is defined from 1 to 10 GHz.
CarrierIsValid(xml, ghz) ==
  (\E n \in DOMAIN xml.shapes : xml.shapes[n].bsdf = MaterialMap["ground"]) => IsNumber(ghz) /\ 1 <= ghz.n /\ ghz.n <= 10
=============================================================================
