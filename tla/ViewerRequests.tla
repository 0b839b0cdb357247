---------------------------- MODULE ViewerRequests ----------------------------
(***************************************************************************)
(* What the viewer does with a request, from its first check to the store  *)
(* and back: the upload, delete and raw file routes                        *)
(* (plateau_rt/viewer/api/routes_bundles.py) behind the gates of           *)
(* ViewerSettings, the ingest command (plateau_rt/viewer/__main__.py) and  *)
(* the ingest they share (plateau_rt/viewer/ingest.py), which stages,      *)
(* validates and commits.  One request runs at a time; BundleStore has the *)
(* interleavings of commits and deletes, and ViewerServer the jobs.        *)
(*                                                                         *)
(* The digest of a bundle is the function from its files to their          *)
(* contents: empty directories do not count.                               *)
(***************************************************************************)
EXTENDS ViewerSettings, DatasetPipeline, OverviewDeriver, SafeExtract

CONSTANTS
  Sessions,       \* an environment of the viewer, with a sequence of requests
  Derivers, Texts,  \* what may be declared, and what may be asked for
  Unit, FloatDigits, Tolerance, MaxKeyChars,  \* of DeriveParams
  MaxFaults       \* bound: failures of the disk

AllRequests == UNION {{session.requests[n] : n \in DOMAIN session.requests} : session \in Sessions}
\* Requests have chunks of bytes and, the archives among their sources, entries;
\* what is uploaded is no directory, and a directory is a tree; files that
\* hold values hold those of JsonValues; the variables of an environment have
\* numbers and units where they look so.
ASSUME RequestsAssumption ==
  /\ MaxFaults \in Nat
  /\ \A session \in Sessions : session.requests \in Seq(AllRequests)
  /\ \A r \in AllRequests :
       /\ r.what \in {"upload", "delete"} => r.chunks \in Seq(Nat)
       /\ r.what = "upload" => r.source.format # "directory"
       /\ r.what \in {"upload", "ingest"} /\ r.source.format \in {"zip", "tar"} => r.source.entries \in Seq(Entries)
       /\ r.what \in {"upload", "ingest"} /\ r.source.format \in {"zip", "tar", "directory"} =>
            \A path \in DOMAIN r.source.contents : IsReadable(r.source.contents[path])
       /\ r.what = "ingest" /\ r.source.format = "directory" => IsTreeOfItems(r.source)
ASSUME SettingsAssumption ==
  /\ UnitBytes["GiB"] \in Nat
  /\ \A session \in Sessions : \A field \in NumberFields : Given(session.env, field) =>
       LET value == session.env[field]
       IN  /\ value.t \in {"digits", "signed", "sized", "decimal"} => value.n \in Int
           /\ value.t = "sized" => UnitBytes[value.unit] \in Nat

VARIABLES
  settings,       \* ViewerSettings, or SettingsError
  todo,           \* the request that runs, and those after it
  stage,          \* "ready", "body", "staging", "deriving" or "answered"
  chunk, spool,   \* chunks of the body that were read; the bytes in the .upload file, or NoSpool
  dest,           \* the staging directory is there
  stored,         \* the bundles: from their digests to [dirs, members]
  answer,         \* to the request at the head
  before,         \* stored when it came (auxiliary)
  target,         \* the deriver, bundle and member that derivations are about, or NoTarget
  queue,          \* canonical parameters of jobs that wait for a child
  results,        \* what its children derived: from canonical parameters to typed ones
  asked,          \* the last derivation that was asked for, as it was prepared
  faults

deriveVars == <<target, queue, results, asked>>
requestVars == <<settings, todo, stage, chunk, spool, dest, stored, answer, before, faults>>
viewerVars == <<requestVars, deriveVars, stagingVars, pipelineVars>>
Params == INSTANCE DeriveParams

NoSpool == -1
Request == Head(todo)
Answer(status, of) == [status |-> status, of |-> of]
NoAnswer == Answer(0, "none")
DeleteBodyLimit == 4096

-----------------------------------------------------------------------------
(* The trees of sources *)

\* The files of an archive or a directory, with their contents. A source says of
\* the files that are no blobs what is in them.
ContentIn(src, path) == IF path \in DOMAIN src.contents THEN src.contents[path] ELSE Blob
\* The tree below a root, which is a path in the staging directory.
Rebased(paths, root) == {SubSeq(p, Len(root) + 1, Len(p)) : p \in {q \in paths : Inside(q, root)}}
StagedTree ==
  LET files == {p \in DOMAIN disk : disk[p] = "file"}
  IN  [files |-> [p \in Rebased(files, BundleRoot) |-> ContentIn(source, BundleRoot \o p)],
       dirs |-> Rebased(DOMAIN disk \ files, BundleRoot)]
\* What a directory of the pipeline's looks like to scandir.
ListingOf(tree) ==
  LET all == DOMAIN tree.files \cup tree.dirs
      names(d) == Arranged({p \in all : Parent(p) = d})
      entry(p) == [name |-> p[Len(p)], kind |-> IF p \in tree.dirs THEN "dir" ELSE "file", blocks |-> 0]
  IN  [format |-> "directory", contents |-> tree.files,
       listing |-> [d \in tree.dirs \cup {<<>>} |-> [n \in DOMAIN names(d) |-> entry(names(d)[n])]]]
\* A dataset alone needs no bundle.json.
PipelineTree == IF partial = <<>> THEN AsTree(dataset) ELSE Workspace
SourceOf(request) ==
  IF request.what = "workspace" THEN ListingOf(PipelineTree) ELSE request.source

-----------------------------------------------------------------------------
(* The end of a request *)

StagingReset ==
  /\ source' = NoSource /\ limits' = NoLimits /\ pos' = 0 /\ stack' = <<>> /\ index' = <<>>
  /\ explicit' = {} /\ disk' = <<>> /\ total' = 0 /\ count' = 0 /\ rootSeen' = FALSE
  /\ writing' = NoFile /\ verdict' = "none"
Unchanged == UNCHANGED <<settings, todo, before, deriveVars, pipelineVars>>
\* The `finally` of the upload removes the spool, whatever happened.
Respond(status, of) ==
  /\ answer' = Answer(status, of) /\ stage' = "answered" /\ spool' = NoSpool /\ chunk' = 0
  /\ StagingReset /\ UNCHANGED <<settings, todo, before, pipelineVars>>
Reply(status, of) == Respond(status, of) /\ UNCHANGED deriveVars
Fails(status, of) == Reply(status, of) /\ UNCHANGED stored
NextRequest ==
  /\ stage = "answered" /\ stage' = "ready" /\ todo' = Tail(todo) /\ answer' = NoAnswer /\ before' = stored
  /\ UNCHANGED <<settings, chunk, spool, dest, stored, faults, deriveVars, stagingVars, pipelineVars>>

Asked(what) == stage = "ready" /\ todo # <<>> /\ Request.what = what
IsHttp(what) == what \in {"upload", "delete", "raw", "derived"}
Shut(request) == IsHttp(request.what) /\ Gate(settings, request.http) # 200
RefusedAtTheGate ==
  /\ stage = "ready" /\ todo # <<>> /\ Shut(Request)
  /\ Fails(Gate(settings, Request.http), "gate") /\ UNCHANGED <<dest, faults>>
Admitted(what) == Asked(what) /\ ~Shut(Request)

-----------------------------------------------------------------------------
(* Upload: the headers, then the body chunk by chunk, then ingest_archive *)

HeaderFault(request) ==
  First(<< <<~request.named, "name">>,
           <<request.type = "other", "content_type">>,
           <<request.length = "bad", "content_length">>,
           <<request.length = "over", "too_large">>,
           <<~request.free, "insufficient_storage">> >>)
HeaderStatus(fault) == CASE fault = "too_large" -> 413 [] fault = "insufficient_storage" -> 507 [] OTHER -> 400
Upload ==
  /\ Admitted("upload")
  /\ LET fault == HeaderFault(Request)
     IN  IF fault # NoFault THEN Fails(HeaderStatus(fault), fault) /\ UNCHANGED <<dest, faults>>
         ELSE /\ stage' = "body" /\ spool' = 0
              /\ UNCHANGED <<chunk, dest, stored, answer, faults, stagingVars>> /\ Unchanged
Reading == stage = "body" /\ chunk < Len(Request.chunks)
\* Mutant: the cap counts what is in the spool already.
FitsBefore(s, bytes) == spool <= s.upload
Fits(s, bytes) == spool + bytes <= s.upload
ReadChunk ==
  /\ Reading
  /\ LET bytes == Request.chunks[chunk + 1]
     IN  IF ~Fits(settings, bytes) THEN Fails(413, "too_large") /\ UNCHANGED <<dest, faults>>
         ELSE /\ chunk' = chunk + 1 /\ spool' = spool + bytes
              /\ UNCHANGED <<stage, dest, stored, answer, faults, stagingVars>> /\ Unchanged
BodyEnds == stage = "body" /\ chunk = Len(Request.chunks)
Disconnect == BodyEnds /\ Request.cut /\ Fails(400, "disconnected") /\ UNCHANGED <<dest, faults>>
ExtractUpload ==
  /\ BodyEnds /\ ~Request.cut
  /\ stage' = "staging" /\ dest' = TRUE /\ StageArchive(Request.source, settings.limits)
  /\ UNCHANGED <<chunk, spool, stored, answer, faults>> /\ Unchanged

-----------------------------------------------------------------------------
(* The ingest command, of an archive or a directory; "workspace" is the *)
(* directory that the commands of DatasetPipeline wrote; bound: one in   *)
(* which a command died is ingested before the last of them ran          *)

\* An answer of the command is its exit code, which an unexpected exception makes 1 as well.
Ingest ==
  /\ Asked("ingest") \/ (Asked("workspace") /\ Idle /\ commands + deaths <= MaxCommands)
  /\ LET src == SourceOf(Request)
     IN  IF src.format = "missing" THEN Fails(1, "not_found") /\ UNCHANGED <<dest, faults>>
         ELSE /\ stage' = "staging" /\ dest' = TRUE
              /\ IF src.format = "directory" THEN StageDirectory(src, settings.limits)
                 ELSE StageArchive(src, settings.limits)
              /\ UNCHANGED <<chunk, spool, stored, answer, faults>> /\ Unchanged

Staging == stage = "staging" /\ verdict = "working"
StageOne ==
  /\ Staging /\ StagingNext
  /\ UNCHANGED <<requestVars, deriveVars, pipelineVars>>
\* safe_extract or stage_from_directory has removed the directory.
Refused ==
  /\ stage = "staging" /\ verdict \in Reasons
  /\ Fails(IF Request.what = "upload" THEN 400 ELSE 1, "unsafe_archive")
  /\ dest' = FALSE /\ UNCHANGED faults
\* A full disk, or another error of it, in the body or in staging.
DiskFails ==
  /\ stage = "body" \/ Staging
  /\ faults < MaxFaults /\ faults' = faults + 1 /\ dest' = FALSE
  /\ IF Request.what = "upload" THEN Fails(507, "insufficient_storage") \/ Fails(500, "internal")
     ELSE Fails(1, "error")

\* ingest_staged: validate_bundle, then commit.
Status(fault) ==
  IF Request.what = "upload" THEN (IF fault = "internal" THEN 500 ELSE 400)
  ELSE 1
Invalidated ==
  /\ stage = "staging" /\ verdict = "accepted" /\ BundleFault(StagedTree) # NoFault
  /\ Fails(Status(BundleFault(StagedTree)), BundleFault(StagedTree)) /\ dest' = FALSE /\ UNCHANGED faults
\* Mutant: the record of a bundle that is there is written again.
Replaces(digest, record) == [d \in DOMAIN stored \cup {digest} |-> IF d = digest THEN record ELSE stored[d]]
Keeps(digest, record) == [d \in DOMAIN stored \cup {digest} |-> IF d \in DOMAIN stored THEN stored[d] ELSE record]
Commit ==
  /\ stage = "staging" /\ verdict = "accepted" /\ BundleFault(StagedTree) = NoFault
  /\ LET tree == StagedTree
         created == tree.files \notin DOMAIN stored
     IN  /\ Reply(IF Request.what # "upload" THEN 0 ELSE IF created THEN 201 ELSE 200,
                  IF created THEN "created" ELSE "duplicate")
         /\ stored' = Keeps(tree.files, [dirs |-> tree.dirs, members |-> Detected(tree)])
  /\ dest' = FALSE /\ UNCHANGED faults

-----------------------------------------------------------------------------
(* Delete and raw files: they name a bundle by the digest of a source *)

Known(request) == request.digest \in DOMAIN stored
BodyBytes(request) == SumFunction(request.chunks)
DeleteFault(request) ==
  First(<< <<~Known(request), "not_found">>,
           <<\E n \in DOMAIN request.chunks :
               SumFunction(SubSeq(request.chunks, 1, n)) > DeleteBodyLimit, "too_large">>,
           <<request.cut, "internal">>,
           <<~request.confirmed, "bad_params">> >>)
DeleteStatus(fault) ==
  CASE fault = "not_found" -> 404 [] fault = "too_large" -> 413 [] fault = "internal" -> 500 [] OTHER -> 400
Delete ==
  /\ Admitted("delete")
  /\ LET fault == DeleteFault(Request)
     IN  IF fault # NoFault THEN Fails(DeleteStatus(fault), fault)
         ELSE /\ Reply(200, "deleted")
              /\ stored' = [d \in DOMAIN stored \ {Request.digest} |-> stored[d]]
  /\ UNCHANGED <<dest, faults>>

TreeOf(digest) == [files |-> digest, dirs |-> stored[digest].dirs]
MemberDirectory(m) == IF m.kind = "scene" THEN Parent(m.path) ELSE m.path
\* The status of GET .../members/{id}/raw/{path}.
RawStatus(digest, id, path) ==
  IF digest \notin DOMAIN stored THEN 404
  ELSE LET members == stored[digest].members
           hits == {n \in DOMAIN members : members[n].id = id}
       IN  IF hits = {} THEN 404
           ELSE IF Resolve(path) = Unsafe THEN 400
           ELSE IF IsFile(TreeOf(digest), MemberDirectory(members[CHOOSE n \in hits : TRUE]) \o Resolve(path))
           THEN 200 ELSE 404
Raw ==
  /\ Admitted("raw")
  /\ Fails(RawStatus(Request.digest, Request.member, Request.path), "raw") /\ UNCHANGED <<dest, faults>>

-----------------------------------------------------------------------------
(* Derivations of one deriver for one member, as they are prepared *)

NoTarget == [spec |-> "none"]
NoKind == "none"
\* require_record and require_member, and the kind of the member.
KindAt(at) ==
  LET members == IF at.digest \in DOMAIN stored THEN stored[at.digest].members ELSE <<>>
      hits == {n \in DOMAIN members : members[n].id = at.member}
  IN  IF hits = {} THEN NoKind ELSE members[CHOOSE n \in hits : TRUE].kind
Registered == {d \in Derivers : Params!DeriverIsValid(d)}
Chosen(d) ==
  LET t == [spec |-> d, digest |-> Request.digest, member |-> Request.member]
  IN  target \in {NoTarget, t} /\ target' = t
\* A text for each parameter, or one parameter too few or too many.
Queries(d) ==
  LET names == Params!NamesOf(d)
  IN  [names -> Texts] \cup {[x \in some |-> t] : some \in {{}, names \cup {"undeclared"}}, t \in Texts}

PrepareStatus(fault) == CASE fault = "not_found" -> 404 [] fault = "derive_failed" -> 500 [] OTHER -> 400
\* The rest of derive_member: the result, or a job that will derive it.
Answered(v) ==
  IF v.fault # "none" THEN Respond(PrepareStatus(v.fault), v.fault) /\ UNCHANGED queue
  ELSE IF v.canonical \in DOMAIN results THEN Respond(200, "hit") /\ UNCHANGED queue
  ELSE Respond(202, "queued") /\ queue' = queue \cup {v.canonical}
DeriveMember ==
  /\ Admitted("derived") /\ UNCHANGED <<stored, dest, results, faults>>
  /\ IF KindAt(Request) = NoKind \/ Request.repeated
     THEN /\ Respond(IF KindAt(Request) = NoKind THEN 404 ELSE 400, "unprepared")
          /\ UNCHANGED <<target, queue, asked>>
     ELSE \E d \in Registered : \E texts \in Queries(d) :
            /\ Chosen(d) /\ asked' = Params!Prepare(d, KindAt(Request), texts)
            /\ Answered(asked')
\* The derive command, with --all-lazy: it waits for its jobs.
Accepted(items) == {v.canonical : v \in {w \in items : w.fault = "none"}}
Derive ==
  /\ Asked("derive")
  /\ IF Request.digest \notin DOMAIN stored
     THEN Fails(1, "not_found") /\ UNCHANGED <<dest, faults>>
     ELSE \E d \in Registered :
            /\ Chosen(d) /\ stage' = "deriving"
            /\ queue' = queue \cup (Accepted(Params!ItemsOf(d, KindAt(Request))) \ DOMAIN results)
            /\ UNCHANGED <<settings, todo, chunk, spool, dest, stored, answer, before, results, asked, faults>>
            /\ UNCHANGED <<stagingVars, pipelineVars>>
DeriveEnds ==
  /\ stage = "deriving" /\ queue = {}
  /\ LET items == Params!ItemsOf(target.spec, KindAt(target))
         failed == \/ \E v \in items : v.fault \notin {"none", "skipped"}
                   \/ ~(Accepted(items) \subseteq DOMAIN results)
     IN  Fails(IF failed THEN 1 ELSE 0, "derive") /\ UNCHANGED <<dest, faults>>
\* A child is sent the canonical texts and prepares them again (get_or_derive).
ChildPrepares ==
  \E key \in queue :
    LET v == Params!Prepare(target.spec, KindAt(target), key)
    IN  /\ queue' = queue \ {key}
        /\ results' = IF v.fault # "none" \/ v.canonical \in DOMAIN results THEN results
                      ELSE [k \in DOMAIN results \cup {v.canonical} |->
                              IF k = v.canonical THEN v.typed ELSE results[k]]
        /\ UNCHANGED <<requestVars, target, asked, stagingVars, pipelineVars>>

-----------------------------------------------------------------------------
ViewerInit ==
  /\ StagingInit /\ PipelineInit
  /\ \E session \in Sessions : settings = FromEnv(session.env) /\ todo = session.requests
  /\ (scene = <<>> /\ dataset = <<>>) \/ \E n \in DOMAIN todo : todo[n].what = "workspace"
  /\ stage = "ready" /\ chunk = 0 /\ spool = NoSpool /\ dest = FALSE
  /\ stored = <<>> /\ answer = NoAnswer /\ before = <<>> /\ faults = 0
  /\ target = NoTarget /\ queue = {} /\ results = <<>> /\ asked = Params!Refused("none")
\* Settings that are refused end the viewer before it does anything.
Starts == ~settings.fault
RequestNext ==
  \/ RefusedAtTheGate \/ Upload \/ ReadChunk \/ Disconnect \/ ExtractUpload \/ Ingest \/ StageOne
  \/ Refused \/ DiskFails \/ Invalidated \/ Commit \/ Delete \/ Raw \/ NextRequest
  \/ DeriveMember \/ Derive \/ DeriveEnds \/ ChildPrepares
\* Someone who will ingest a workspace runs the commands first.
Commands == Asked("workspace") /\ PipelineNext /\ UNCHANGED <<requestVars, deriveVars, stagingVars>>
ViewerNext == (Starts /\ RequestNext) \/ (Starts /\ Commands)
ViewerSpec == ViewerInit /\ [][ViewerNext]_viewerVars

-----------------------------------------------------------------------------
(* What the viewer promises *)

RequestsTypeOK ==
  /\ StagingTypeOK
  /\ ~settings.fault => settings.upload > 0 /\ settings.limits.files > 0 /\ settings.limits.blocks > 0
  /\ stage \in {"ready", "body", "staging", "deriving", "answered"}
  /\ spool # NoSpool => ~settings.fault /\ spool \in 0..settings.upload
  /\ stage = "body" => spool # NoSpool /\ chunk <= Len(Request.chunks)
  /\ verdict # "none" <=> stage = "staging"
  /\ target = NoTarget => queue = {} /\ results = <<>>
  /\ faults \in 0..MaxFaults

\* The tree of a source that is safe, without staging it.
TreeIn(src) ==
  LET files == IF src.format = "directory"
               THEN UNION {{Append(d, src.listing[d][n].name) : n \in {k \in DOMAIN src.listing[d] : src.listing[d][k].kind = "file"}}
                           : d \in DOMAIN src.listing}
               ELSE {NameIn(src, n) : n \in FilesOf(src)}
      dirs == IF src.format = "directory" THEN DOMAIN src.listing \ {<<>>}
              ELSE PathsOf(src, InnerOf(src)) \ files
      tops == {p[1] : p \in files \cup dirs}
      root == IF Cardinality(tops) = 1 /\ \A p \in files : Len(p) > 1 THEN <<CHOOSE x \in tops : TRUE>> ELSE <<>>
  IN  [files |-> [p \in Rebased(files, root) |-> ContentIn(src, root \o p)], dirs |-> Rebased(dirs, root)]
IsStoring(r) == r.what \in {"upload", "ingest", "workspace"}
Storable(r) ==
  LET src == SourceOf(r)
  IN  /\ src.format # "missing" /\ IsSafe(src, settings.limits) /\ BundleFault(TreeIn(src)) = NoFault
      /\ r.what = "upload" =>
           /\ ~Shut(r) /\ r.named /\ r.type # "other" /\ r.length \notin {"bad", "over"} /\ r.free /\ ~r.cut
           /\ BodyBytes(r) <= settings.upload
Deletable(r) == ~Shut(r) /\ r.digest \in DOMAIN before /\ ~r.cut /\ r.confirmed /\ BodyBytes(r) <= DeleteBodyLimit
Succeeded == answer.status \in {0, 200, 201} /\ answer.of \in {"created", "duplicate", "deleted"}

\* The answer tells what the store is now. A bundle is stored when the whole
\* source, looked at as one thing, is safe and a valid bundle, and the request
\* is in order; then it is exactly what the source holds, "created" tells
\* whether it is new, and no other bundle changes. After any other answer the
\* store is what it was and staging is empty; only a disk that fails makes a
\* request fail that could have been met.
AnswerTellsTheStore ==
  stage = "answered" =>
    /\ ~dest
    /\ IsStoring(Request) =>
         LET new == TreeIn(SourceOf(Request)) IN
           /\ Succeeded => Storable(Request)
           /\ Storable(Request) /\ faults = 0 => Succeeded
           /\ answer.status = 201 => answer.of = "created"
           /\ Succeeded /\ answer.of = "created" =>
                /\ new.files \notin DOMAIN before
                /\ stored = [d \in DOMAIN before \cup {new.files} |->
                               IF d = new.files THEN [dirs |-> new.dirs, members |-> Detected(new)] ELSE before[d]]
           /\ Succeeded /\ answer.of = "duplicate" => new.files \in DOMAIN before /\ stored = before
    /\ Request.what = "delete" =>
         /\ Succeeded <=> Deletable(Request)
         /\ Succeeded => stored = [d \in DOMAIN before \ {Request.digest} |-> before[d]]
    /\ ~Succeeded => stored = before

\* The members of a stored bundle fit together, whoever laid it out: they have
\* ids of their own and separate directories, a link leads to a dataset, which
\* has one scene at most, and every file that a member names is there and is
\* what the raw route of that member serves (a name like "C:x" apart, which it
\* refuses). The pairs of a dataset are its views with its stations, each once,
\* and an artifact of version 2 belongs to the view or to its station, not to both.
Serves(d, m, file) ==
  LET relative == SubSeq(file, Len(MemberDirectory(m)) + 1, Len(file))
  IN  Absolute(relative) \/ RawStatus(d, m.id, relative) = 200
PairsAreComplete(p) ==
  LET pairs == Pairs(p)
  IN  /\ \A m, n \in DOMAIN pairs : pairs[m] = pairs[n] => m = n
      /\ {pairs[n] : n \in DOMAIN pairs}
           = {[view |-> p.views[n].id, bs |-> p.stations[i]] : n \in DOMAIN p.views, i \in DOMAIN p.stations}
      /\ p.version = 2 => \A n \in DOMAIN p.views : \A i \in DOMAIN p.views[n].bs :
           DOMAIN p.views[n].artifacts \cap DOMAIN p.views[n].bs[i].artifacts \cap PerBsArtifacts = {}
MembersFit(d) ==
  LET ms == stored[d].members
      t == TreeOf(d)
      IsDataset(id) == \E n \in DOMAIN ms : ms[n].kind = "rf_dataset" /\ id = Str(<<ms[n].id>>)
  IN  /\ \A m, n \in DOMAIN ms : m # n =>
           /\ ms[m].id # ms[n].id
           /\ "scene" \notin {ms[m].kind, ms[n].kind} => ms[m].path # ms[n].path /\ ~Inside(ms[m].path, ms[n].path)
           /\ Missing(ms[m].for) \/ ms[m].for # ms[n].for
      /\ \A n \in DOMAIN ms :
           /\ (Missing(ms[n].for) \/ IsDataset(ms[n].for)) /\ (Missing(ms[n].source) \/ IsDataset(ms[n].source))
           /\ \A file \in MemberFiles(t, ms[n]) : Serves(d, ms[n], file)
           /\ ms[n].kind = "rf_dataset" => PairsAreComplete(Parsed(ManifestOf(t, ms[n])))
StoredIsConsistent == \A d \in DOMAIN stored : MembersFit(d)

\* What was accepted can be shown: the overview of a stored dataset is derived
\* (unless its ray directions are in no .npz file, which is never opened before,
\* or an image axis is infinite), lists the pairs in their order, and says that
\* the files are there which the manifest names.
StoredMeansDerivable ==
  \A d \in DOMAIN stored :
    LET ms == stored[d].members
        t == TreeOf(d)
    IN  \A n \in {k \in DOMAIN ms : ms[k].kind = "rf_dataset"} :
          LET j == ManifestOf(t, ms[n])
              p == Parsed(j)
              o == Overview(t, ms, ms[n])
          IN  /\ o = Failed => SuffixOf(p.camera) # ".npz" \/ ~AxesAreEncodable(j)
              /\ o # Failed =>
                   /\ [k \in DOMAIN o.pairs |-> [view |-> o.pairs[k].view, bs |-> o.pairs[k].bs]] = Pairs(p)
                   /\ o.contents.path_gt <=> p.paths # <<>>
                   /\ o.contents.path_schema <=> Len(p.paths) = 2
                   /\ Transforms(j) # {} => o.contents.transforms_json
                   /\ Cardinality(o.contents.scene) <= 1
                   /\ o.contents.partials = {ms[k].id : k \in {x \in DOMAIN ms : ms[x].source = Str(<<ms[n].id>>)
                                                                       /\ ms[x].kind = "rf_partial"}}

\* A parameter has many spellings and its values a tolerance, while a result is
\* found under a text: a job is not refused by the child that prepares its
\* parameters again, its result is found under the key it was queued with, no
\* value is derived twice under two keys, and a request that is answered from
\* the cache gets the result for the very values it would have had derived.
\* Only a parameter whose steps are too fine for the digits of a key, or whose
\* ends are off when they are written, is left out (IsFine).
RequestsAreCanonical ==
  target # NoTarget /\ (\A n \in DOMAIN target.spec.params : Params!IsFine(target.spec.params[n])) =>
    /\ \A k, l \in DOMAIN results : results[k] = results[l] => k = l
    /\ stage = "answered" /\ Request.what = "derived" =>
         /\ answer.of \in {"hit", "queued"} => asked.canonical \in queue \cup DOMAIN results
         /\ answer.of \in {"hit", "queued"} /\ asked.canonical \in DOMAIN results => results[asked.canonical] = asked.typed
         /\ answer.of = "queued" => asked.typed \notin {results[k] : k \in DOMAIN results \ {asked.canonical}}
    /\ stage = "answered" /\ Request.what = "derive" =>
         Accepted(Params!ItemsOf(target.spec, KindAt(target))) \subseteq DOMAIN results
=============================================================================
