------------------------ MODULE ViewerRequestsProofs ------------------------
(***************************************************************************)
(* Proofs about ViewerRequests: its types and those of the staging in it   *)
(* (RequestsTypeOK), that the index of paths is what is in the staging     *)
(* directory (IndexIsDisk), what the store is between the requests, that   *)
(* exactly the safe sources are accepted (VerdictIsOfTheSource), what the  *)
(* answer to a request tells (AnswerTellsTheStore), and that the members of*)
(* what is stored fit together (StoredIsConsistent). The steps of staging  *)
(* are SafeExtractProofs'; here are the requests that start it, run it and *)
(* clear it away.                                                          *)
(***************************************************************************)
EXTENDS ViewerRequests, DatasetPipelineProofs

-----------------------------------------------------------------------------
(* The invariant of the requests *)

\* Nothing was staged yet; and nothing is staged, which is so at first and after each request.
Ready ==
  /\ limits.files \in Nat /\ limits.blocks \in Nat /\ Unstarted
  /\ verdict \in {"none", "working", "unknown_format", "too_many_files"}
Empty ==
  /\ source = NoSource /\ limits = NoLimits /\ Unstarted /\ verdict = "none"
SettingsInv ==
  /\ settings.fault \in BOOLEAN
  /\ ~settings.fault => /\ settings.upload \in Nat \ {0}
                        /\ settings.limits.files \in Nat \ {0} /\ settings.limits.blocks \in Nat \ {0}
RequestsInv ==
  /\ StagingInv /\ SettingsInv
  /\ todo \in Seq(AllRequests) /\ (stage # "ready" => todo # <<>>)
  /\ stage \in {"ready", "body", "staging", "deriving", "answered"}
  /\ spool # NoSpool => ~settings.fault /\ spool \in 0..settings.upload
  /\ stage \in {"ready", "answered"} => chunk = 0
  /\ stage = "body" => /\ spool # NoSpool /\ Request.what = "upload"
                       /\ chunk \in 0..Len(Request.chunks)
  /\ verdict # "none" <=> stage = "staging"
  /\ target = NoTarget => queue = {} /\ results = <<>>
  /\ faults \in 0..MaxFaults

-----------------------------------------------------------------------------
(* Staging starts and ends *)

\* Nothing was staged yet.
LEMMA ReadyIsTyped == Ready => StagingTypeOK
<1> SUFFICES ASSUME limits.files \in Nat, limits.blocks \in Nat, Unstarted,
                    verdict \in {"none", "working", "unknown_format", "too_many_files"}
             PROVE  StagingTypeOK
  BY DEF Ready
<1>0. DOMAIN disk = {} /\ DOMAIN index = {}
  BY DEF Unstarted
<1>1. pos \in Nat /\ rootSeen \in BOOLEAN
  BY DEF Unstarted
<1>2. total \in 0..limits.blocks /\ count \in 0..limits.files
  BY DEF Unstarted
<1>3. \A p \in DOMAIN disk : disk[p] \in {"file", "dir"}
  BY <1>0
<1>4. \A k \in DOMAIN index : index[k].kind \in {"file", "dir"} /\ Key(index[k].path) = k
  BY <1>0
<1>5. explicit \subseteq DOMAIN index /\ writing = NoFile
  BY DEF Unstarted
<1>6. verdict \in Reasons \cup {"none", "working", "accepted"}
  BY DEF Reasons
<1> QED
  BY <1>1, <1>2, <1>3, <1>4, <1>5, <1>6 DEF StagingTypeOK

\* The same of the next state.
LEMMA ReadyIsTypedNext == Ready' => StagingTypeOK'
BY ReadyIsTyped, PTL

\* Staging of an archive starts from nothing.
LEMMA StageArchiveKeeps ==
  ASSUME StagingInv, NEW a, NEW l, StageArchive(a, l), l.files \in Nat, l.blocks \in Nat,
         a.format \in {"zip", "tar"} => a.entries \in Seq(Entries)
  PROVE  StagingInv' /\ verdict' # "none"
<1> DEFINE p1 == a.format \notin {"zip", "tar"}
           p2 == DeclaresTooMany(a, l)
           c == << <<p1, "unknown_format">>, <<p2, "too_many_files">>, <<TRUE, "working">> >>
<1>1. /\ verdict = "none" /\ source' = a /\ limits' = l /\ verdict' = First(c)
      /\ UNCHANGED <<pos, stack, index, explicit, disk, total, count, rootSeen, writing>>
  BY DEF StageArchive
<1> HIDE DEF p1, p2
<1>2. /\ DOMAIN c = 1..3 /\ 3 \in Nat /\ (c[1][1] <=> p1) /\ c[3][1]
      /\ c[1][2] = "unknown_format" /\ c[2][2] = "too_many_files" /\ c[3][2] = "working"
  OBVIOUS
<1> HIDE DEF c
<1>3. \/ First(c) = NoFault /\ \A n \in 1..3 : ~c[n][1]
      \/ \E n \in 1..3 : /\ c[n][1] /\ First(c) = c[n][2]
                         /\ \A m \in 1..3 : c[m][1] => n <= m
  BY <1>2, FirstIsLeast
<1>4. verdict' \in {"unknown_format", "too_many_files", "working"} /\ (verdict' = "working" => ~p1)
  BY <1>1, <1>2, <1>3
<1>5. Unstarted /\ Unstarted'
  BY <1>1 DEF StagingInv, SourceInv, Unstarted
<1>6. DOMAIN disk' = {} /\ DOMAIN index' = {} /\ explicit' = {}
  BY <1>5 DEF Unstarted
<1>7. StagingTypeOK'
  BY <1>1, <1>4, <1>5, ReadyIsTypedNext DEF Ready
<1>8. SourceInv'
  BY <1>1, <1>4, <1>5 DEF Unstarted, SourceInv, IsArchive, NoFile, p1
<1>9. IsTree(disk)'
  BY <1>6 DEF IsTree
<1>10. ArchiveInv'
  BY <1>5, <1>6 DEF ArchiveInv, IndexPaths, Opened, Unstarted
<1>11. DirectoryInv'
  BY <1>1, <1>4 DEF DirectoryInv, p1
<1> QED
  BY <1>4, <1>7, <1>8, <1>9, <1>10, <1>11 DEF StagingInv

\* Staging of a directory starts from nothing, with one frame for its root.
LEMMA StageDirectoryKeeps ==
  ASSUME StagingInv, NEW tree, NEW l, StageDirectory(tree, l), l.files \in Nat, l.blocks \in Nat,
         tree.format = "directory"
  PROVE  StagingInv' /\ verdict' # "none"
<1>0. PICK f : f = Listed(tree, <<>>)
  OBVIOUS
<1>1. /\ verdict = "none" /\ source' = tree /\ limits' = l /\ verdict' = "working" /\ stack' = <<f>>
      /\ UNCHANGED <<pos, index, explicit, disk, total, count, rootSeen, writing>>
  BY <1>0 DEF StageDirectory
<1>5. Unstarted
  BY <1>1 DEF StagingInv, SourceInv
<1>6. DOMAIN disk' = {} /\ DOMAIN index' = {} /\ explicit' = {}
  BY <1>1, <1>5 DEF Unstarted
<1>7. StagingTypeOK'
  <2>1. /\ pos' \in Nat /\ rootSeen' \in BOOLEAN /\ explicit' \subseteq DOMAIN index'
            /\ writing' = NoFile
        /\ verdict' \in Reasons \cup {"none", "working", "accepted"}
    BY <1>1, <1>5, <1>6 DEF Unstarted
  <2>4. total' \in 0..limits'.blocks /\ count' \in 0..limits'.files
    BY <1>1, <1>5 DEF Unstarted
  <2>2. \A k \in DOMAIN index' : index'[k].kind \in {"file", "dir"} /\ Key(index[k].path)' = k
    BY <1>6
  <2>3. \A p \in DOMAIN disk' : disk'[p] \in {"file", "dir"}
    BY <1>6
  <2> QED
    BY <2>1, <2>2, <2>3, <2>4 DEF StagingTypeOK
<1>8. SourceInv'
  BY <1>1, <1>5 DEF Unstarted, SourceInv, IsArchive, NoFile
<1>9. IsTree(disk)'
  BY <1>6 DEF IsTree
<1>10. ArchiveInv'
  BY <1>1 DEF ArchiveInv, IsArchive
<1>11. DirectoryInv'
  <2>1. f = [path |-> f.path, left |-> f.left, seen |-> f.seen] /\ f.path = <<>>
    BY <1>0 DEF Listed
  <2>2. IsSeq(<<>>)
    BY DEF IsSeq
  <2>3. FrameInv(f, disk)'
    BY <1>6, <2>1, <2>2 DEF FrameInv
  <2>4. <<f>> \in Seq({f}) /\ DOMAIN <<f>> = {1} /\ <<f>>[1] = f
    OBVIOUS
  <2>5. IsSeq(stack')
    BY <1>1, <2>4, SeqIsSeq
  <2> QED
    BY <1>1, <2>3, <2>4, <2>5 DEF DirectoryInv
<1> QED
  BY <1>1, <1>7, <1>8, <1>9, <1>10, <1>11 DEF StagingInv

\* The empty staging directory satisfies the invariant.
LEMMA EmptyIsFine == Empty => StagingInv
<1> SUFFICES ASSUME Empty PROVE StagingInv
  OBVIOUS
<1>1. DOMAIN disk = {} /\ DOMAIN index = {} /\ explicit = {}
  BY DEF Empty, Unstarted
<1>2. limits.files = 0 /\ limits.blocks = 0
  BY DEF Empty, NoLimits
<1>3. StagingTypeOK
  BY <1>2, ReadyIsTyped DEF Empty, Ready
<1>4. SourceInv
  BY <1>2 DEF Empty, Unstarted, SourceInv, NoFile
<1>5. IsTree(disk)
  BY <1>1 DEF IsTree
<1> QED
  BY <1>3, <1>4, <1>5 DEF StagingInv, Empty, ArchiveInv, DirectoryInv

\* The same of the next state.
LEMMA EmptyIsFineNext == Empty' => StagingInv'
BY EmptyIsFine, PTL

\* Staging that has begun does not unbegin.
LEMMA StagingGoesOn ==
  ASSUME StagingNext, verdict = "working"
  PROVE  verdict' # "none"
<1>1. ASSUME NEW reason \in Reasons, Refuse(reason) PROVE verdict' # "none"
  BY <1>1 DEF Refuse, Reasons
<1>2. CASE CopyFails
  BY <1>1, <1>2 DEF CopyFails, Reasons
<1>3. CASE RefuseEntry
  BY <1>1, <1>3, EntryChecks DEF RefuseEntry
<1>4. CASE RefuseChild
  BY <1>1, <1>4, ChildChecks DEF RefuseChild
<1>5. CASE NextDirectory
  BY <1>5 DEF NextDirectory
<1>6. CASE ~(CopyFails \/ RefuseEntry \/ RefuseChild \/ NextDirectory)
  BY <1>6 DEF StagingNext, Copy, SkipRoot, MakeDirectory, OpenFile, CloseFile, Extracted,
              CopyDirectory, CopyFile, CloseCopy
<1> QED
  BY <1>2, <1>3, <1>4, <1>5, <1>6

\* Settings that are not refused are positive numbers.
LEMMA SettingsAreSound ==
  ASSUME NEW session \in Sessions, settings = FromEnv(session.env)
  PROVE  SettingsInv
<1> DEFINE env == session.env
<1>1. CASE ~EnvIsValid(env)
  BY <1>1 DEF FromEnv, SettingsError, SettingsInv
<1>2. CASE EnvIsValid(env)
  <2>1. ASSUME NEW field \in NumberFields PROVE Number(env, field) \in Nat \ {0}
    <3>1. NumberParses(env, field) /\ Number(env, field) > 0
      BY <1>2 DEF EnvIsValid
    <3>2. Number(env, field) \in Int
      <4>1. CASE ~Given(env, field)
        <5>1. Defaults[field] \in Int
          BY SettingsAssumption DEF Defaults, NumberFields, ByteFields, CountFields
        <5> QED
          BY <4>1, <5>1 DEF Number
      <4>2. CASE Given(env, field)
        <5> DEFINE value == env[field]
        <5>1. value.t \in {"digits", "signed", "sized", "decimal"}
          BY <3>1, <4>2 DEF NumberParses, Forms
        <5>2. value.n \in Int /\ (value.t = "sized" => UnitBytes[value.unit] \in Nat)
          BY <4>2, <5>1, SettingsAssumption
        <5>3. \A x \in Int : \A y \in Nat : x * y \in Int
          OBVIOUS
        <5> QED
          BY <4>2, <5>2, <5>3 DEF Number
      <4> QED
        BY <4>1, <4>2
    <3> QED
      BY <3>1, <3>2
  <2>2. /\ settings.fault = FALSE /\ settings.upload = Number(env, "max_upload_bytes")
        /\ settings.limits.files = Number(env, "max_files")
        /\ settings.limits.blocks = Number(env, "max_extracted_bytes")
    BY <1>2 DEF FromEnv
  <2>3. {"max_upload_bytes", "max_files", "max_extracted_bytes"} \subseteq NumberFields
    BY DEF NumberFields, ByteFields, CountFields
  <2> QED
    BY <2>1, <2>2, <2>3 DEF SettingsInv
<1> QED
  BY <1>1, <1>2

-----------------------------------------------------------------------------
(* The steps of a request *)

\* What every end of a request does to what the invariant speaks of.
LEMMA AnsweredKeeps ==
  ASSUME RequestsInv, todo # <<>>, NEW status, NEW of, Respond(status, of),
         target' = NoTarget => queue' = {} /\ results' = <<>>,
         faults' \in 0..MaxFaults
  PROVE  RequestsInv'
<1>1. /\ stage' = "answered" /\ spool' = NoSpool /\ chunk' = 0
      /\ settings' = settings /\ todo' = todo /\ Empty' /\ verdict' = "none"
  BY DEF Respond, StagingReset, Empty, Unstarted
<1>2. StagingInv'
  BY <1>1, EmptyIsFineNext
<1> QED
  BY <1>1, <1>2 DEF RequestsInv, SettingsInv

\* An answer that leaves the derivations alone.
LEMMA FailsKeeps ==
  ASSUME RequestsInv, todo # <<>>, NEW status, NEW of, Reply(status, of), faults' \in 0..MaxFaults
  PROVE  RequestsInv'
<1>1. Respond(status, of) /\ target' = target /\ queue' = queue /\ results' = results
  BY DEF Reply, deriveVars
<1> QED
  BY <1>1, AnsweredKeeps DEF RequestsInv

\* The request that runs is one of a session.
LEMMA RequestOf ==
  ASSUME RequestsInv, todo # <<>>
  PROVE  Request \in AllRequests
BY DEF RequestsInv, Request

\* Steps that leave staging alone.
LEMMA StagingKept ==
  ASSUME StagingInv, UNCHANGED stagingVars
  PROVE  StagingInv' /\ verdict' = verdict
<1>1. UNCHANGED <<source, limits, pos, stack, index, explicit, disk, total, count, rootSeen,
          writing, verdict>>
  BY DEF stagingVars, given
<1>2. StagingTypeOK'
  BY <1>1 DEF StagingInv, StagingTypeOK, Key
<1>3. SourceInv'
  BY <1>1 DEF StagingInv, SourceInv, IsArchive, Unstarted
<1>4. Opened' = Opened
  BY <1>1 DEF Opened
<1> QED
  BY <1>1, <1>2, <1>3, <1>4, PathsKept

\* Steps that leave the derivations alone as well.
LEMMA AsideKeeps ==
  ASSUME RequestsInv, UNCHANGED stagingVars, UNCHANGED deriveVars
  PROVE  StagingInv' /\ verdict' = verdict /\ (target' = NoTarget => queue' = {} /\ results' = <<>>)
<1>1. StagingInv' /\ verdict' = verdict
  BY StagingKept DEF RequestsInv
<1> QED
  BY <1>1 DEF RequestsInv, deriveVars

\* The headers of an upload are looked at, and its spool is made.
LEMMA UploadKeeps == ASSUME RequestsInv, Upload, ~settings.fault PROVE RequestsInv'
<1>1. Asked("upload") /\ todo # <<>> /\ stage = "ready" /\ Request.what = "upload"
  BY DEF Upload, Admitted, Asked
<1>2. CASE HeaderFault(Request) # NoFault
  <2>1. Reply(HeaderStatus(HeaderFault(Request)), HeaderFault(Request)) /\ faults' = faults
    BY <1>2 DEF Upload, Fails
  <2> QED
    BY <1>1, <2>1, FailsKeeps DEF RequestsInv
<1>3. CASE HeaderFault(Request) = NoFault
  <2>1. /\ stage' = "body" /\ spool' = 0 /\ UNCHANGED <<chunk, faults, settings, todo>>
        /\ UNCHANGED stagingVars /\ UNCHANGED deriveVars
    BY <1>3 DEF Upload, Unchanged
  <2>2. StagingInv' /\ verdict' = verdict /\ (target' = NoTarget => queue' = {} /\ results' = <<>>)
    BY <2>1, AsideKeeps
  <2>3. Request' = Request
    BY <2>1 DEF Request
  <2>4. spool' # NoSpool /\ spool' \in 0..settings'.upload
    BY <2>1 DEF RequestsInv, SettingsInv, NoSpool
  <2>5. Request.chunks \in Seq(Nat) /\ chunk = 0
    BY <1>1, RequestOf, RequestsAssumption DEF RequestsInv
  <2>6. chunk' \in 0..Len(Request.chunks)
    BY <2>1, <2>5
  <2> QED
    BY <1>1, <2>1, <2>2, <2>3, <2>4, <2>6 DEF RequestsInv, SettingsInv
<1> QED
  BY <1>2, <1>3

\* A chunk goes to the spool only where it fits.
LEMMA ReadChunkKeeps == ASSUME RequestsInv, ReadChunk PROVE RequestsInv'
<1>1. stage = "body" /\ chunk < Len(Request.chunks) /\ todo # <<>> /\ Request.what = "upload"
  BY DEF ReadChunk, Reading, RequestsInv
<1> DEFINE bytes == Request.chunks[chunk + 1]
<1>2. CASE ~Fits(settings, bytes)
  <2>1. Reply(413, "too_large") /\ faults' = faults
    BY <1>2 DEF ReadChunk, Fails
  <2> QED
    BY <1>1, <2>1, FailsKeeps DEF RequestsInv
<1>3. CASE Fits(settings, bytes)
  <2>1. /\ chunk' = chunk + 1 /\ spool' = spool + bytes /\ UNCHANGED <<stage, faults, settings, todo>>
        /\ UNCHANGED stagingVars /\ UNCHANGED deriveVars
    BY <1>3 DEF ReadChunk, Unchanged
  <2>2. StagingInv' /\ verdict' = verdict /\ (target' = NoTarget => queue' = {} /\ results' = <<>>)
    BY <2>1, AsideKeeps
  <2>3. Request' = Request
    BY <2>1 DEF Request
  <2>4. Request.chunks \in Seq(Nat) /\ chunk \in 0..Len(Request.chunks)
    BY <1>1, RequestOf, RequestsAssumption DEF RequestsInv
  <2>5. bytes \in Nat /\ chunk + 1 \in 0..Len(Request.chunks)
    BY <1>1, <2>4
  <2>6. spool # NoSpool /\ ~settings.fault /\ spool \in 0..settings.upload /\ settings.upload \in Nat
    BY <1>1 DEF RequestsInv, SettingsInv
  <2>7. spool' # NoSpool /\ spool' \in 0..settings'.upload
    BY <1>3, <2>1, <2>5, <2>6 DEF Fits, NoSpool
  <2>8. chunk' \in 0..Len(Request.chunks) /\ Request'.what = "upload" /\ stage' = "body"
    BY <1>1, <2>1, <2>3, <2>5
  <2>9. settings' = settings /\ todo' = todo /\ faults' = faults
    BY <2>1
  <2> QED
    BY <1>1, <2>2, <2>3, <2>6, <2>7, <2>8, <2>9 DEF RequestsInv, SettingsInv
<1> QED
  BY <1>2, <1>3

\* A request that goes on to staging.
LEMMA StagedKeeps ==
  ASSUME RequestsInv, todo # <<>>, StagingInv', verdict' # "none", stage' = "staging",
         UNCHANGED <<settings, todo, spool, faults>>, UNCHANGED deriveVars
  PROVE  RequestsInv'
BY DEF RequestsInv, SettingsInv, deriveVars

\* The body is complete: the spool is extracted.
LEMMA ExtractUploadKeeps == ASSUME RequestsInv, ~settings.fault, ExtractUpload PROVE RequestsInv'
<1>1. /\ stage = "body" /\ stage' = "staging" /\ StageArchive(Request.source, settings.limits)
      /\ UNCHANGED <<spool, faults, settings, todo>> /\ UNCHANGED deriveVars
  BY DEF ExtractUpload, BodyEnds, Unchanged
<1>2. todo # <<>> /\ Request.what = "upload"
  BY <1>1 DEF RequestsInv
<1>3. Request.source.format \in {"zip", "tar"} => Request.source.entries \in Seq(Entries)
  BY <1>2, RequestOf, RequestsAssumption
<1>4. settings.limits.files \in Nat /\ settings.limits.blocks \in Nat
  BY DEF RequestsInv, SettingsInv
<1>5. StagingInv' /\ verdict' # "none"
  BY <1>1, <1>3, <1>4, StageArchiveKeeps DEF RequestsInv
<1> QED
  BY <1>1, <1>2, <1>5, StagedKeeps

\* The ingest command begins to stage.
LEMMA IngestKeeps == ASSUME RequestsInv, ~settings.fault, Ingest PROVE RequestsInv'
<1> DEFINE src == SourceOf(Request)
<1>1. todo # <<>> /\ Request.what \in {"ingest", "workspace"}
  BY DEF Ingest, Asked
<1>2. CASE src.format = "missing"
  <2>1. Reply(1, "not_found") /\ faults' = faults
    BY <1>2 DEF Ingest, Fails
  <2> QED
    BY <1>1, <2>1, FailsKeeps DEF RequestsInv
<1>3. CASE src.format # "missing"
  <2>1. /\ stage' = "staging" /\ UNCHANGED <<spool, faults, settings, todo>> /\ UNCHANGED deriveVars
        /\ IF src.format = "directory" THEN StageDirectory(src, settings.limits)
           ELSE StageArchive(src, settings.limits)
    BY <1>3 DEF Ingest, Unchanged
  <2>2. settings.limits.files \in Nat /\ settings.limits.blocks \in Nat /\ StagingInv
    BY DEF RequestsInv, SettingsInv
  <2>3. StagingInv' /\ verdict' # "none"
    <3>1. CASE src.format = "directory"
      BY <2>1, <2>2, <3>1, StageDirectoryKeeps
    <3>2. CASE src.format # "directory"
      <4>1. Request.what = "ingest" /\ src = Request.source
        <5>1. CASE Request.what = "workspace"
          BY <3>2, <5>1 DEF SourceOf, ListingOf
        <5> QED
          BY <1>1, <5>1 DEF SourceOf
      <4>2. src.format \in {"zip", "tar"} => src.entries \in Seq(Entries)
        BY <1>1, <4>1, RequestOf, RequestsAssumption
      <4> QED
        BY <2>1, <2>2, <3>2, <4>2, StageArchiveKeeps
    <3> QED
      BY <3>1, <3>2
  <2> QED
    BY <1>1, <2>1, <2>3, StagedKeeps
<1> QED
  BY <1>2, <1>3

\* One step of staging.
LEMMA StageOneKeeps == ASSUME RequestsInv, StageOne PROVE RequestsInv'
<1>1. /\ stage = "staging" /\ verdict = "working" /\ StagingNext /\ UNCHANGED deriveVars
      /\ UNCHANGED <<settings, todo, stage, spool, faults>>
  BY DEF StageOne, Staging, requestVars
<1>2. StagingInv' /\ verdict' # "none"
  BY <1>1, StagingKeeps, StagingGoesOn DEF RequestsInv
<1>3. todo # <<>> /\ stage' = "staging"
  BY <1>1 DEF RequestsInv
<1> QED
  BY <1>1, <1>2, <1>3, StagedKeeps

\* The derivations.
LEMMA TargetIsOne ==
  ASSUME NEW d, Chosen(d)
  PROVE  target' # NoTarget
<1> DEFINE t == [spec |-> d, digest |-> Request.digest, member |-> Request.member]
<1>1. target' = t
  BY DEF Chosen
<1>2. "digest" \in DOMAIN t /\ "digest" \notin DOMAIN NoTarget
  BY DEF NoTarget
<1> QED
  BY <1>1, <1>2

\* A derivation that is asked for.
LEMMA DeriveMemberKeeps == ASSUME RequestsInv, DeriveMember PROVE RequestsInv'
<1>1. todo # <<>> /\ results' = results /\ faults' = faults
  BY DEF DeriveMember, Admitted, Asked
<1>2. CASE KindAt(Request) = NoKind \/ Request.repeated
  <2>1. PICK status : Respond(status, "unprepared") /\ target' = target /\ queue' = queue
    BY <1>2 DEF DeriveMember
  <2> QED
    BY <1>1, <2>1, AnsweredKeeps DEF RequestsInv
<1>3. CASE ~(KindAt(Request) = NoKind \/ Request.repeated)
  <2>1. PICK d : Chosen(d) /\ Answered(asked')
    BY <1>3 DEF DeriveMember
  <2>2. PICK status, of : Respond(status, of)
    BY <2>1 DEF Answered
  <2>3. target' # NoTarget
    BY <2>1, TargetIsOne
  <2> QED
    BY <1>1, <2>2, <2>3, AnsweredKeeps DEF RequestsInv
<1> QED
  BY <1>2, <1>3

\* The derive command queues its jobs.
LEMMA DeriveKeeps == ASSUME RequestsInv, Derive PROVE RequestsInv'
<1>1. todo # <<>> /\ stage = "ready"
  BY DEF Derive, Asked
<1>2. CASE Request.digest \notin DOMAIN stored
  <2>1. Reply(1, "not_found") /\ faults' = faults
    BY <1>2 DEF Derive, Fails
  <2> QED
    BY <1>1, <2>1, FailsKeeps DEF RequestsInv
<1>3. CASE Request.digest \in DOMAIN stored
  <2>1. PICK d : /\ Chosen(d) /\ stage' = "deriving"
                 /\ UNCHANGED <<settings, todo, spool, faults>> /\ UNCHANGED stagingVars
    BY <1>3 DEF Derive
  <2>2. target' # NoTarget
    BY <2>1, TargetIsOne
  <2>7. StagingInv' /\ verdict' = verdict
    BY <2>1, StagingKept DEF RequestsInv
  <2> QED
    BY <1>1, <2>1, <2>2, <2>7 DEF RequestsInv, SettingsInv
<1> QED
  BY <1>2, <1>3

\* A child derives one of the jobs.
LEMMA ChildPreparesKeeps == ASSUME RequestsInv, ChildPrepares PROVE RequestsInv'
<1>1. /\ queue # {} /\ target' = target
      /\ UNCHANGED <<settings, todo, stage, chunk, spool, faults>> /\ UNCHANGED stagingVars
  BY DEF ChildPrepares, requestVars
<1>2. target' # NoTarget
  BY <1>1 DEF RequestsInv
<1>7. StagingInv' /\ verdict' = verdict
  BY <1>1, StagingKept DEF RequestsInv
<1>8. Request' = Request
  BY <1>1 DEF Request
<1> QED
  BY <1>1, <1>2, <1>7, <1>8 DEF RequestsInv, SettingsInv

\* Steps that end a request, and those that leave staging alone.
LEMMA EndingKeeps ==
  ASSUME RequestsInv, RefusedAtTheGate \/ Disconnect \/ Refused \/ DiskFails \/ Invalidated \/ Commit
                      \/ Delete \/ Raw \/ DeriveEnds
  PROVE  RequestsInv'
<1>1. todo # <<>>
  BY DEF RequestsInv, RefusedAtTheGate, Disconnect, BodyEnds, Refused, DiskFails, Staging,
      Invalidated, Commit,
      Delete, Raw, Admitted, Asked, DeriveEnds
<1>2. faults \in 0..MaxFaults /\ MaxFaults \in Nat
  BY RequestsAssumption DEF RequestsInv
<1>3. CASE DiskFails
  <2>1. faults' \in 0..MaxFaults
    BY <1>2, <1>3 DEF DiskFails
  <2>2. PICK status, of : Reply(status, of)
    BY <1>3 DEF DiskFails, Fails
  <2> QED
    BY <1>1, <2>1, <2>2, FailsKeeps
<1>4. CASE Commit
  <2>1. PICK status, of : Reply(status, of) /\ faults' = faults
    BY <1>4 DEF Commit
  <2> QED
    BY <1>1, <1>2, <2>1, FailsKeeps
<1>5. CASE Delete
  <2>1. PICK status, of : Reply(status, of)
    BY <1>5 DEF Delete, Fails
  <2>2. faults' = faults
    BY <1>5 DEF Delete
  <2> QED
    BY <1>1, <1>2, <2>1, <2>2, FailsKeeps
<1>6. CASE RefusedAtTheGate \/ Disconnect \/ Refused \/ Invalidated \/ Raw \/ DeriveEnds
  <2>1. PICK status, of : Fails(status, of) /\ faults' = faults
    BY <1>6 DEF RefusedAtTheGate, Disconnect, Refused, Invalidated, Raw, DeriveEnds
  <2>2. Reply(status, of)
    BY <2>1 DEF Fails
  <2> QED
    BY <1>1, <1>2, <2>1, <2>2, FailsKeeps
<1> QED
  BY <1>3, <1>4, <1>5, <1>6

\* The next request.
LEMMA NextRequestKeeps == ASSUME RequestsInv, NextRequest PROVE RequestsInv'
<1>1. /\ stage = "answered" /\ stage' = "ready" /\ todo' = Tail(todo)
      /\ UNCHANGED <<settings, chunk, spool, faults>> /\ UNCHANGED stagingVars /\ UNCHANGED deriveVars
  BY DEF NextRequest
<1>2. todo \in Seq(AllRequests) /\ todo # <<>>
  BY <1>1 DEF RequestsInv
<1>3. todo' \in Seq(AllRequests)
  BY <1>1, <1>2, HeadTailProperties
<1>4. StagingInv' /\ verdict' = verdict /\ (target' = NoTarget => queue' = {} /\ results' = <<>>)
  BY <1>1, AsideKeeps
<1> QED
  BY <1>1, <1>3, <1>4 DEF RequestsInv, SettingsInv

\* Steps of other parts.
LEMMA StillKeeps ==
  ASSUME RequestsInv, UNCHANGED requestVars, UNCHANGED deriveVars, UNCHANGED stagingVars
  PROVE  RequestsInv'
<1>1. UNCHANGED <<settings, todo, stage, chunk, spool, faults>>
  BY DEF requestVars
<1>2. StagingInv' /\ verdict' = verdict /\ (target' = NoTarget => queue' = {} /\ results' = <<>>)
  BY AsideKeeps
<1>3. Request' = Request
  BY <1>1 DEF Request
<1> QED
  BY <1>1, <1>2, <1>3 DEF RequestsInv, SettingsInv

\* A session starts in a state of the invariant.
LEMMA RequestsInitially == ViewerInit => RequestsInv
<1> SUFFICES ASSUME ViewerInit PROVE RequestsInv
  OBVIOUS
<1>1. StagingInv /\ verdict = "none"
  BY EmptyIsFine DEF ViewerInit, StagingInit, Empty, Unstarted
<1>2. PICK session \in Sessions : settings = FromEnv(session.env) /\ todo = session.requests
  BY DEF ViewerInit
<1>3. SettingsInv
  BY <1>2, SettingsAreSound
<1>4. todo \in Seq(AllRequests) /\ MaxFaults \in Nat
  BY <1>2, RequestsAssumption
<1> QED
  BY <1>1, <1>3, <1>4 DEF ViewerInit, RequestsInv

\* Every step of the viewer keeps it.
LEMMA RequestsNext == ASSUME RequestsInv, [ViewerNext]_viewerVars PROVE RequestsInv'
<1>1. CASE UNCHANGED viewerVars
  BY <1>1, StillKeeps DEF viewerVars
<1>2. CASE Commands
  BY <1>2, StillKeeps DEF Commands
<1>3. CASE ~settings.fault /\ RequestNext
  <2>1. CASE RefusedAtTheGate \/ Disconnect \/ Refused \/ DiskFails \/ Invalidated \/ Commit
             \/ Delete \/ Raw \/ DeriveEnds
    BY <2>1, EndingKeeps
  <2>2. CASE Upload
    BY <1>3, <2>2, UploadKeeps
  <2>3. CASE ReadChunk
    BY <2>3, ReadChunkKeeps
  <2>4. CASE ExtractUpload
    BY <1>3, <2>4, ExtractUploadKeeps
  <2>5. CASE Ingest
    BY <1>3, <2>5, IngestKeeps
  <2>6. CASE StageOne
    BY <2>6, StageOneKeeps
  <2>7. CASE NextRequest
    BY <2>7, NextRequestKeeps
  <2>8. CASE DeriveMember
    BY <2>8, DeriveMemberKeeps
  <2>9. CASE Derive
    BY <2>9, DeriveKeeps
  <2>10. CASE ChildPrepares
    BY <2>10, ChildPreparesKeeps
  <2> QED
    BY <1>3, <2>1, <2>2, <2>3, <2>4, <2>5, <2>6, <2>7, <2>8, <2>9, <2>10 DEF RequestNext
<1> QED
  BY <1>1, <1>2, <1>3 DEF ViewerNext, Starts

\* The invariant that everything else follows from.
THEOREM RequestsInvariant == ViewerSpec => []RequestsInv
<1>1. ViewerInit => RequestsInv
  BY RequestsInitially
<1>2. RequestsInv /\ [ViewerNext]_viewerVars => RequestsInv'
  BY RequestsNext
<1> QED
  BY <1>1, <1>2, PTL DEF ViewerSpec

\* The types of the viewer: what is in the spool fits, and what staging counts
\* stays within the limits.
THEOREM RequestsTypes == ViewerSpec => []RequestsTypeOK
<1>1. RequestsInv => RequestsTypeOK
  <2> SUFFICES ASSUME RequestsInv PROVE RequestsTypeOK
    OBVIOUS
  <2>1. stage = "body" => spool # NoSpool /\ chunk <= Len(Request.chunks)
    <3> SUFFICES ASSUME stage = "body" PROVE chunk <= Len(Request.chunks) /\ spool # NoSpool
      OBVIOUS
    <3>1. spool # NoSpool /\ chunk \in 0..Len(Request.chunks)
      BY DEF RequestsInv
    <3> QED
      BY <3>1
  <2>2. ~settings.fault => settings.upload > 0 /\ settings.limits.files > 0
            /\ settings.limits.blocks > 0
    BY DEF RequestsInv, SettingsInv
  <2> QED
    BY <2>1, <2>2 DEF RequestsInv, StagingInv, RequestsTypeOK
<1> QED
  BY <1>1, RequestsInvariant, PTL

\* Between entries the index of paths and the staging directory have the same
\* paths and kinds, every path has one spelling, directories lie above every
\* path, and no entry is refused by the file system that the index let pass
\* (safe_extract, _PathIndex, _copy_server_tree).
THEOREM IndexFollowsDisk == ViewerSpec => []IndexIsDisk
<1>1. RequestsInv => IndexIsDisk
  <2> SUFFICES ASSUME RequestsInv PROVE IndexIsDisk
    OBVIOUS
  <2>1. FromArchive => /\ DOMAIN disk = {index[k].path : k \in DOMAIN index}
                       /\ \A k \in DOMAIN index : disk[index[k].path] = index[k].kind
    BY DEF RequestsInv, StagingInv, ArchiveInv, FromArchive, IsArchive, Opened, IndexPaths
  <2>2. NextEntry /\ ~IsRoot /\ ~Collides(EntryPath, Entry.kind) => ~Blocked(EntryPath, Entry.kind)
    BY NamesDecide DEF RequestsInv
  <2> QED
    BY <2>1, <2>2 DEF RequestsInv, StagingInv, IsTree, IndexIsDisk
<1> QED
  BY <1>1, RequestsInvariant, PTL
-----------------------------------------------------------------------------
(* The store between the requests *)

\* What is stored has passed validation, with the members it was stored with.
StoredIsValid ==
  \A d \in DOMAIN stored :
    BundleFault(TreeOf(d)) = NoFault /\ stored[d].members = Detected(TreeOf(d))
\* A staging directory is there exactly as long as a request stages, and the
\* store is what the request found until it is answered.
StoreIsQuiet ==
  /\ dest = (stage = "staging")
  /\ stage # "answered" => stored = before
\* The answer accounts for a change of the store, which is one of one bundle.
Added(digest) ==
  stored = [d \in DOMAIN before \cup {digest} |-> IF d = digest THEN stored[d] ELSE before[d]]
Deleted(digest) == stored = [d \in DOMAIN before \ {digest} |-> before[d]]
ChangesAreAnswered ==
  stage = "answered" /\ stored # before =>
    \/ /\ answer.of = "created" /\ IsStoring(Request)
       /\ \E digest \in DOMAIN stored \ DOMAIN before : Added(digest)
    \/ answer.of = "deleted" /\ Request.what = "delete" /\ Deleted(Request.digest)
StoreInv ==
  /\ StoredIsValid /\ StoreIsQuiet /\ ChangesAreAnswered
  /\ stored = [d \in DOMAIN stored |-> stored[d]]
  /\ stage \in {"body", "staging"} => IsStoring(Request)

\* Whatever ends a request without changing the store.
LEMMA FailsQuietly ==
  ASSUME StoreInv, NEW status, NEW of, Respond(status, of), UNCHANGED stored, dest' = FALSE,
         stage # "answered"
  PROVE  StoreInv'
<1>1. UNCHANGED <<stored, before>> /\ stage' = "answered" /\ stored = before
  BY DEF StoreInv, StoreIsQuiet, Respond
<1>2. StoredIsValid' /\ ChangesAreAnswered'
  BY <1>1 DEF StoreInv, StoredIsValid, ChangesAreAnswered, TreeOf
<1>3. (stage' = "staging") = FALSE
  BY <1>1
<1>4. StoreIsQuiet'
  BY <1>1, <1>3 DEF StoreIsQuiet
<1> QED
  BY <1>1, <1>2, <1>4 DEF StoreInv

\* A commit adds a bundle that was just found valid; one that is there stays
\* as it is, whatever empty directories the new one has.
LEMMA CommitStores == ASSUME StoreInv, Commit PROVE StoreInv'
<1> DEFINE tree == StagedTree
<1>1. PICK t : t = tree
  OBVIOUS
<1>2. /\ BundleFault(t) = NoFault /\ t = [files |-> t.files, dirs |-> t.dirs]
      /\ stored' = Keeps(t.files, [dirs |-> t.dirs, members |-> Detected(t)])
      /\ dest' = FALSE /\ stage' = "answered" /\ before' = before /\ Request' = Request
      /\ stored = before /\ IsStoring(Request)
      /\ t.files \notin DOMAIN stored => answer'.of = "created"
  BY <1>1 DEF Commit, Reply, Respond, Answer, StagedTree, Request, StoreInv, StoreIsQuiet
<1>3. ASSUME NEW d \in DOMAIN stored'
      PROVE  /\ BundleFault([files |-> d, dirs |-> stored'[d].dirs]) = NoFault
             /\ stored'[d].members = Detected([files |-> d, dirs |-> stored'[d].dirs])
  <2>1. CASE d \in DOMAIN stored
    <3>1. stored'[d] = stored[d]
      BY <1>2, <2>1 DEF Keeps
    <3> QED
      BY <2>1, <3>1 DEF StoreInv, StoredIsValid, TreeOf
  <2>2. CASE d \notin DOMAIN stored
    <3>1. d = t.files /\ stored'[d] = [dirs |-> t.dirs, members |-> Detected(t)]
      BY <1>2, <1>3, <2>2 DEF Keeps
    <3>2. [files |-> d, dirs |-> stored'[d].dirs] = t
      BY <1>2, <3>1
    <3> QED
      BY <1>2, <3>1, <3>2
  <2> QED
    BY <2>1, <2>2
<1>4. StoredIsValid' /\ stored' = [d \in DOMAIN stored' |-> stored'[d]]
  BY <1>2, <1>3 DEF StoredIsValid, TreeOf, Keeps
<1>5. (stage' = "staging") = FALSE
  BY <1>2
<1>6. CASE t.files \in DOMAIN stored
  <2>1. stored' = stored
    BY <1>2, <1>6 DEF Keeps, StoreInv
  <2> QED
    BY <1>2, <1>4, <1>5, <2>1 DEF StoreInv, StoreIsQuiet, ChangesAreAnswered
<1>7. CASE t.files \notin DOMAIN stored
  <2> DEFINE r == [dirs |-> t.dirs, members |-> Detected(t)]
  <2>1. stored' = [d \in DOMAIN before \cup {t.files} |-> IF d = t.files THEN r ELSE before[d]]
    BY <1>2, <1>7 DEF Keeps
  <2>2. /\ stored' = [d \in DOMAIN before' \cup {t.files} |->
                        IF d = t.files THEN stored'[d] ELSE before'[d]]
        /\ answer'.of = "created" /\ t.files \in DOMAIN stored' \ DOMAIN before'
    BY <1>2, <1>7, <2>1
  <2>3. IsStoring(Request)'
    BY <1>2 DEF IsStoring
  <2>4. ChangesAreAnswered'
    BY <2>2, <2>3 DEF ChangesAreAnswered, Added
  <2> QED
    BY <1>2, <1>4, <1>5, <2>4 DEF StoreInv, StoreIsQuiet
<1> QED
  BY <1>6, <1>7

\* A deletion leaves the other bundles alone.
LEMMA DeleteStores == ASSUME StoreInv, Delete PROVE StoreInv'
<1>1. /\ dest' = dest /\ dest = FALSE /\ stage = "ready" /\ stored = before
      /\ Request.what = "delete"
  BY DEF Delete, Admitted, Asked, StoreInv, StoreIsQuiet
<1>2. CASE DeleteFault(Request) # NoFault
  <2>1. PICK status, of : Respond(status, of) /\ UNCHANGED stored
    BY <1>2 DEF Delete, Fails, Reply
  <2> QED
    BY <1>1, <2>1, FailsQuietly
<1>3. CASE DeleteFault(Request) = NoFault
  <2>1. /\ stored' = [d \in DOMAIN stored \ {Request.digest} |-> stored[d]]
        /\ stage' = "answered" /\ answer'.of = "deleted" /\ before' = before /\ Request' = Request
    BY <1>3 DEF Delete, Reply, Respond, Answer, Request
  <2>2. PICK q : q = Request.digest
    OBVIOUS
  <2>3. /\ stored' = [d \in DOMAIN stored \ {q} |-> stored[d]]
        /\ \A d \in DOMAIN stored' : d \in DOMAIN stored /\ stored'[d] = stored[d]
    BY <2>1, <2>2
  <2>4. StoredIsValid' /\ stored' = [d \in DOMAIN stored' |-> stored'[d]]
    BY <2>3 DEF StoreInv, StoredIsValid, TreeOf
  <2>5. ChangesAreAnswered'
    BY <1>1, <2>1 DEF ChangesAreAnswered, Deleted
  <2>6. (stage' = "staging") = FALSE
    BY <2>1
  <2> QED
    BY <1>1, <2>1, <2>4, <2>5, <2>6 DEF StoreInv, StoreIsQuiet
<1> QED
  BY <1>2, <1>3

\* Every step of the viewer keeps the store valid.
LEMMA StoreNext == ASSUME StoreInv, [ViewerNext]_viewerVars PROVE StoreInv'
<1>1. ASSUME UNCHANGED <<stored, dest, before, todo>>,
             \/ UNCHANGED <<stage, answer>>
             \/ stage = "ready" /\ stage' = "deriving"
             \/ stage = "ready" /\ stage' = "body" /\ IsStoring(Request)
      PROVE  StoreInv'
  <2>1. Request' = Request /\ IsStoring(Request)' = IsStoring(Request)
    BY <1>1 DEF Request, IsStoring
  <2>2. StoredIsValid'
    BY <1>1 DEF StoreInv, StoredIsValid, TreeOf
  <2>3. ASSUME UNCHANGED <<stage, answer>> PROVE ChangesAreAnswered'
    <3>1. UNCHANGED <<stage, answer, stored, before, Request>>
      BY <1>1, <2>1, <2>3
    <3> QED
      BY <2>1, <3>1 DEF StoreInv, ChangesAreAnswered, Added, Deleted, IsStoring
  <2>4. ASSUME stage' # "answered" PROVE ChangesAreAnswered'
    BY <2>4 DEF ChangesAreAnswered
  <2>5. ChangesAreAnswered'
    BY <1>1, <2>3, <2>4
  <2>6. (stage' = "staging") = (stage = "staging")
    BY <1>1
  <2>7. StoreIsQuiet'
    BY <1>1, <2>6 DEF StoreInv, StoreIsQuiet
  <2> QED
    BY <1>1, <2>1, <2>2, <2>5, <2>7 DEF StoreInv
<1>2. CASE UNCHANGED viewerVars \/ Commands \/ StageOne \/ ChildPrepares
  BY <1>1, <1>2 DEF viewerVars, requestVars, Commands, StageOne, ChildPrepares
<1>3. CASE RefusedAtTheGate \/ Disconnect \/ Raw \/ DeriveEnds
  <2>1. dest' = dest /\ dest = FALSE /\ stage # "answered"
    BY <1>3 DEF RefusedAtTheGate, Disconnect, Raw, DeriveEnds, BodyEnds, Admitted, Asked,
                StoreInv, StoreIsQuiet
  <2>2. PICK status, of : Respond(status, of) /\ UNCHANGED stored
    BY <1>3 DEF RefusedAtTheGate, Disconnect, Raw, DeriveEnds, Fails, Reply
  <2> QED
    BY <2>1, <2>2, FailsQuietly
<1>4. CASE Refused \/ DiskFails \/ Invalidated
  <2>1. /\ stage # "answered"
        /\ \E status, of : Respond(status, of) /\ UNCHANGED stored /\ dest' = FALSE
    BY <1>4 DEF Refused, DiskFails, Invalidated, Staging, Fails, Reply
  <2> QED
    BY <2>1, FailsQuietly
<1>5. CASE Upload \/ ReadChunk
  <2>1. /\ stage \in {"ready", "body"} /\ dest = FALSE
        /\ IsStoring(Request)
    BY <1>5 DEF Upload, ReadChunk, Reading, Admitted, Asked, IsStoring, StoreInv, StoreIsQuiet
  <2>2. CASE \E status, of : Fails(status, of) /\ UNCHANGED dest
    BY <2>1, <2>2, FailsQuietly DEF Fails, Reply
  <2>3. CASE UNCHANGED <<stored, dest, before, todo, answer>> /\ stage' \in {stage, "body"}
    BY <1>1, <1>5, <2>1, <2>3
  <2> QED
    BY <1>5, <2>2, <2>3 DEF Upload, ReadChunk, Unchanged
<1>6. CASE ExtractUpload \/ Ingest
  <2>1. stage # "answered" /\ dest = FALSE /\ stored = before /\ IsStoring(Request)
    BY <1>6 DEF ExtractUpload, Ingest, BodyEnds, Asked, IsStoring, StoreInv, StoreIsQuiet
  <2>2. CASE \E status, of : Fails(status, of) /\ UNCHANGED dest
    BY <2>1, <2>2, FailsQuietly DEF Fails, Reply
  <2>3. CASE stage' = "staging" /\ dest' = TRUE /\ UNCHANGED <<stored, before, todo>>
    <3>1. (stage' = "staging") = TRUE
      BY <2>3
    <3>2. StoredIsValid' /\ StoreIsQuiet' /\ ChangesAreAnswered' /\ IsStoring(Request)'
      BY <2>1, <2>3, <3>1
         DEF StoreInv, StoredIsValid, StoreIsQuiet, ChangesAreAnswered, IsStoring, Request, TreeOf
    <3> QED
      BY <2>3, <3>2 DEF StoreInv
  <2> QED
    BY <1>6, <2>2, <2>3 DEF ExtractUpload, Ingest, Unchanged
<1>7. CASE NextRequest
  <2>1. /\ UNCHANGED <<stored, dest>> /\ before' = stored /\ stage = "answered" /\ stage' = "ready"
    BY <1>7 DEF NextRequest
  <2>2. (stage' = "staging") = (stage = "staging")
    BY <2>1
  <2>3. StoredIsValid' /\ StoreIsQuiet' /\ ChangesAreAnswered'
    BY <2>1, <2>2 DEF StoreInv, StoredIsValid, StoreIsQuiet, ChangesAreAnswered, TreeOf
  <2> QED
    BY <2>1, <2>3 DEF StoreInv
<1>8. CASE DeriveMember \/ Derive
  <2>1. stage = "ready" /\ dest = FALSE
    BY <1>8 DEF DeriveMember, Derive, Admitted, Asked, StoreInv, StoreIsQuiet
  <2>2. CASE \E status, of : Respond(status, of) /\ UNCHANGED <<stored, dest>>
    BY <2>1, <2>2, FailsQuietly
  <2>3. CASE UNCHANGED <<stored, dest, before, todo>> /\ stage' = "deriving"
    BY <1>1, <2>1, <2>3
  <2> QED
    BY <1>8, <2>2, <2>3 DEF DeriveMember, Derive, Answered, Fails, Reply
<1> QED
  BY <1>2, <1>3, <1>4, <1>5, <1>6, <1>7, <1>8, CommitStores, DeleteStores DEF ViewerNext, RequestNext

\* At first nothing is stored.
LEMMA StoreInitially == ViewerInit => StoreInv
<1> SUFFICES ASSUME ViewerInit PROVE StoreInv
  OBVIOUS
<1>1. stored = <<>> /\ before = <<>> /\ dest = FALSE /\ stage = "ready"
  BY DEF ViewerInit
<1>2. (stage = "staging") = FALSE
  BY <1>1
<1>3. StoreIsQuiet
  BY <1>1, <1>2 DEF StoreIsQuiet
<1>4. DOMAIN stored = {}
  BY <1>1
<1>5. stored = [d \in DOMAIN stored |-> stored[d]]
  BY <1>1
<1> QED
  BY <1>1, <1>3, <1>4, <1>5 DEF StoreInv, StoredIsValid, ChangesAreAnswered

\* However requests end, a bundle in the store has passed validation as it is
\* there, with the directories of whoever stored it first, and has the members
\* that were detected in it; until a request is answered the store is what it
\* found, after that one bundle more or less if the answer says so, and no
\* staging directory outlives the request (ingest_staged, commit, delete).
THEOREM StoreIsValid == ViewerSpec => []StoreInv
<1>1. ViewerInit => StoreInv
  BY StoreInitially
<1>2. StoreInv /\ [ViewerNext]_viewerVars => StoreInv'
  BY StoreNext
<1> QED
  BY <1>1, <1>2, PTL DEF ViewerSpec
-----------------------------------------------------------------------------
(* The verdict on an archive *)

\* What was not staged follows no entries.
LEMMA NothingFollows == Empty => EntriesInv
BY DEF Empty, NoSource, EntriesInv, ProgressInv, RefusedInv, IsArchive

\* The same of the next state.
LEMMA NothingFollowsNext == Empty' => EntriesInv'
BY NothingFollows, PTL

\* Steps that leave staging alone.
LEMMA EntriesKept == ASSUME EntriesInv, UNCHANGED stagingVars PROVE EntriesInv'
<1>1. UNCHANGED <<source, limits, pos, explicit, disk, count, rootSeen, writing, verdict>>
  BY DEF stagingVars, given
<1>2. Taken' = Taken /\ IsArchive' = IsArchive
  BY <1>1 DEF Taken, IsArchive
<1> QED
  BY <1>1, <1>2 DEF EntriesInv, ProgressInv, RefusedInv

\* Staging begins with no entry taken.
LEMMA BeginsFollows ==
  ASSUME RequestsInv, ~settings.fault, ExtractUpload \/ (Ingest /\ SourceOf(Request).format # "missing")
  PROVE  EntriesInv'
<1> DEFINE src == SourceOf(Request)
<1>1. StagingInv /\ settings.limits.files \in Nat /\ todo # <<>>
  BY DEF RequestsInv, SettingsInv, Ingest, Asked, ExtractUpload, BodyEnds
<1>2. ASSUME Request.what \in {"upload", "ingest"}, StageArchive(Request.source, settings.limits)
      PROVE  EntriesInv'
  <2>1. Request.source.format \in {"zip", "tar"} => Request.source.entries \in Seq(Entries)
    BY <1>1, <1>2, RequestOf, RequestsAssumption
  <2> QED
    BY <1>1, <1>2, <2>1, StageArchiveFollows
<1>3. CASE ExtractUpload
  BY <1>2, <1>3 DEF ExtractUpload, BodyEnds, RequestsInv
<1>4. CASE Ingest /\ src.format = "directory"
  <2>1. source' = src
    BY <1>4 DEF Ingest, StageDirectory
  <2> QED
    BY <1>4, <2>1 DEF EntriesInv, ProgressInv, RefusedInv, IsArchive
<1>5. CASE Ingest /\ src.format \notin {"directory", "missing"}
  <2>1. Request.what \in {"ingest", "workspace"} /\ StageArchive(src, settings.limits)
    BY <1>5 DEF Ingest, Asked
  <2>2. CASE Request.what = "workspace"
    BY <1>5, <2>2 DEF SourceOf, ListingOf
  <2>3. CASE Request.what # "workspace"
    BY <1>2, <2>1, <2>3 DEF SourceOf
  <2> QED
    BY <2>2, <2>3
<1> QED
  BY <1>3, <1>4, <1>5

\* What clears staging away, and what does not touch it.
LEMMA RespondedFollows ==
  ASSUME EntriesInv, (\E status, of : Respond(status, of)) \/ UNCHANGED stagingVars
  PROVE  EntriesInv'
<1>1. CASE \E status, of : Respond(status, of)
  BY <1>1, NothingFollowsNext DEF Respond, StagingReset, Empty, Unstarted
<1> QED
  BY <1>1, EntriesKept

\* Every step of the viewer follows the entries.
LEMMA EntriesNext ==
  ASSUME RequestsInv, EntriesInv, [ViewerNext]_viewerVars
  PROVE  EntriesInv'
<1>1. CASE UNCHANGED viewerVars \/ Commands \/ ChildPrepares \/ NextRequest
  BY <1>1, RespondedFollows DEF viewerVars, Commands, ChildPrepares, NextRequest
<1>2. CASE RefusedAtTheGate \/ Disconnect \/ Refused \/ DiskFails \/ Invalidated \/ Raw \/ DeriveEnds
  BY <1>2, RespondedFollows
     DEF RefusedAtTheGate, Disconnect, Refused, DiskFails, Invalidated, Raw, DeriveEnds, Fails, Reply
<1>3. CASE Commit \/ Delete
  BY <1>3, RespondedFollows DEF Commit, Delete, Fails, Reply
<1>4. CASE Upload \/ ReadChunk
  BY <1>4, RespondedFollows DEF Upload, ReadChunk, Fails, Reply
<1>5. CASE DeriveMember \/ Derive
  BY <1>5, RespondedFollows DEF DeriveMember, Derive, Answered, Fails, Reply
<1>6. CASE ~settings.fault /\ (ExtractUpload \/ Ingest)
  <2>1. CASE Ingest /\ SourceOf(Request).format = "missing"
    BY <2>1, RespondedFollows DEF Ingest, Fails, Reply
  <2> QED
    BY <1>6, <2>1, BeginsFollows
<1>7. CASE StageOne
  BY <1>7, StagingFollows DEF RequestsInv, StageOne
<1> QED
  BY <1>1, <1>2, <1>3, <1>4, <1>5, <1>6, <1>7 DEF ViewerNext, RequestNext, Starts

\* An archive that is accepted has only entries that belong there, and one that
\* is refused for anything but its size has one that does not.
VerdictIsOfTheEntries ==
  source.format # "directory" /\ verdict \notin {"none", "working"} =>
    /\ verdict = "accepted" => EntriesAreSafe(source, limits)
    /\ verdict \notin {"accepted", "too_large"} => ~EntriesAreSafe(source, limits)

\* Of any archive, in whatever order its entries come: it is accepted only if
\* it is safe as a whole, but for the sum of its blocks, and what refuses it,
\* but for the budget of blocks, is that it is not (safe_extract).
THEOREM ArchiveVerdict == ViewerSpec => []VerdictIsOfTheEntries
<1>1. ViewerInit => RequestsInv /\ EntriesInv
  <2>1. ViewerInit => Empty
    BY DEF ViewerInit, StagingInit, Empty, Unstarted
  <2> QED
    BY <2>1, RequestsInitially, NothingFollows
<1>2. RequestsInv /\ EntriesInv /\ [ViewerNext]_viewerVars => RequestsInv' /\ EntriesInv'
  BY RequestsNext, EntriesNext
<1>3. RequestsInv /\ EntriesInv => VerdictIsOfTheEntries
  <2> SUFFICES ASSUME RequestsInv, EntriesInv, source.format # "directory",
                      verdict \notin {"none", "working"}
               PROVE  /\ verdict = "accepted" => EntriesAreSafe(source, limits)
                      /\ verdict \notin {"accepted", "too_large"} => ~EntriesAreSafe(source, limits)
    BY DEF VerdictIsOfTheEntries
  <2>1. verdict = "accepted" => EntriesAreSafe(source, limits)
    BY AcceptedIsSafe DEF RequestsInv
  <2> QED
    BY <2>1 DEF EntriesInv, RefusedInv
<1> QED
  BY <1>1, <1>2, <1>3, PTL DEF ViewerSpec
-----------------------------------------------------------------------------
(* What is staged of an archive or a directory *)

\* Every path of the staging directory begins with one of its first level.
LEMMA FirstLevel ==
  ASSUME IsTree(disk), NEW p \in DOMAIN disk
  PROVE  /\ Len(p) \in Nat \ {0} /\ <<p[1]>> \in DOMAIN disk
         /\ Len(p) = 1 => p = <<p[1]>>
         /\ Len(p) > 1 => disk[<<p[1]>>] = "dir"
<1>1. IsSeq(p) /\ p # <<>>
  BY DEF IsTree
<1>2. /\ Len(p) \in Nat \ {0}
      /\ IsSeq(<<p[1]>>) /\ Len(<<p[1]>>) = 1 /\ <<p[1]>>[1] = p[1]
  <2>1. p \in Seq({p[n] : n \in DOMAIN p})
    BY <1>1 DEF IsSeq
  <2>2. <<p[1]>> \in Seq({p[1]})
    OBVIOUS
  <2>3. Len(p) \in Nat \ {0}
    BY <1>1, <2>1
  <2>4. IsSeq(<<p[1]>>)
    BY <2>2, SeqIsSeq
  <2>5. Len(<<p[1]>>) = 1 /\ <<p[1]>>[1] = p[1]
    OBVIOUS
  <2> QED
    BY <2>3, <2>4, <2>5
<1>3. Len(p) = 1 => p = <<p[1]>>
  <2> SUFFICES ASSUME Len(p) = 1 PROVE p = <<p[1]>>
    OBVIOUS
  <2>1. \A n \in 1..1 : n = 1
    OBVIOUS
  <2> QED
    BY <1>1, <1>2, <2>1, SameSeq
<1>4. ASSUME Len(p) > 1 PROVE SubSeq(p, 1, 1) = <<p[1]>> /\ SubSeq(p, 1, 1) \in Ancestors(p)
  <2>1. 1 \in 1..Len(p) /\ 1 \in 1..(Len(p) - 1)
    BY <1>2, <1>4
  <2>2. IsSeq(SubSeq(p, 1, 1)) /\ Len(SubSeq(p, 1, 1)) = 1 /\ SubSeq(p, 1, 1)[1] = p[1]
    BY <1>1, <2>1, Prefix, 1 \in 1..1
  <2>3. \A n \in 1..1 : n = 1
    OBVIOUS
  <2> QED
    BY <1>2, <2>1, <2>2, <2>3, SameSeq DEF Ancestors
<1>5. Len(p) > 1 => <<p[1]>> \in DOMAIN disk /\ disk[<<p[1]>>] = "dir"
  BY <1>4 DEF IsTree
<1>6. Len(p) = 1 \/ Len(p) > 1
  BY <1>2
<1> QED
  BY <1>2, <1>3, <1>5, <1>6

\* The root of what was staged is the only directory at the first level, or the whole.
LEMMA RootIsTop ==
  ASSUME IsTree(disk), IsFiniteSet(DOMAIN disk), NEW files, files = {p \in DOMAIN disk : disk[p] =
      "file"},
         NEW tops, tops = {p[1] : p \in DOMAIN disk}
  PROVE  BundleRoot = IF Cardinality(tops) = 1 /\ \A p \in files : Len(p) > 1
                      THEN <<CHOOSE x \in tops : TRUE>> ELSE <<>>
<1> DEFINE top == {p \in DOMAIN disk : Len(p) = 1}
<1>1. IsFiniteSet(top) /\ IsFiniteSet(tops)
  <2> DEFINE f == [p \in DOMAIN disk |-> p[1]]
  <2>1. IsFiniteSet({f[p] : p \in DOMAIN disk})
    BY ImageIsFinite
  <2>2. tops = {f[p] : p \in DOMAIN disk}
    OBVIOUS
  <2> QED
    BY <2>1, <2>2, FS_Subset
<1>2. \A p \in DOMAIN disk : <<p[1]>> \in top /\ (p \in top => p = <<p[1]>>)
  <2> SUFFICES ASSUME NEW p \in DOMAIN disk
               PROVE  <<p[1]>> \in top /\ (p \in top => p = <<p[1]>>)
    OBVIOUS
  <2>1. Len(<<p[1]>>) = 1
    OBVIOUS
  <2> QED
    BY <2>1, FirstLevel
<1>3. \A x : <<x>>[1] = x
  OBVIOUS
<1>4. ASSUME NEW x, tops = {x} PROVE top = {<<x>>}
  <2>1. PICK p \in DOMAIN disk : p[1] = x
    BY <1>4
  <2>2. <<x>> \in top
    BY <1>2, <2>1
  <2>3. ASSUME NEW q \in top PROVE q = <<x>>
    <3>1. q = <<q[1]>> /\ q[1] \in tops
      BY <1>2, <2>3
    <3> QED
      BY <1>4, <3>1
  <2> QED
    BY <2>2, <2>3
<1>5. ASSUME NEW q, top = {q} PROVE tops = {q[1]}
  <2>1. q \in DOMAIN disk
    BY <1>5
  <2>2. ASSUME NEW p \in DOMAIN disk PROVE p[1] = q[1]
    <3>1. <<p[1]>> = q
      BY <1>2, <1>5, <2>2
    <3> QED
      BY <1>3, <3>1
  <2> QED
    BY <2>1, <2>2
<1>6. CASE \E x : tops = {x}
  <2>1. PICK x : tops = {x}
    BY <1>6
  <2>2. top = {<<x>>} /\ Cardinality(top) = 1 /\ Cardinality(tops) = 1
    BY <1>4, <2>1, FS_Singleton
  <2>3. (CHOOSE p \in top : TRUE) = <<x>> /\ (CHOOSE y \in tops : TRUE) = x
    BY <2>1, <2>2
  <2>4. (\A p \in top : disk[p] = "dir") <=> \A p \in files : Len(p) > 1
    <3>1. <<x>> \in DOMAIN disk /\ disk[<<x>>] \in {"file", "dir"} /\ Len(<<x>>) = 1
      BY <2>2 DEF IsTree
    <3>2. ASSUME disk[<<x>>] = "dir", NEW p \in files PROVE Len(p) > 1
      <4>1. p \in DOMAIN disk /\ disk[p] = "file" /\ Len(p) \in Nat \ {0}
        BY <3>2, FirstLevel
      <4>2. Len(p) # 1
        BY <2>2, <3>2, <4>1
      <4>3. PICK l : l = Len(p)
        OBVIOUS
      <4>4. l \in Nat \ {0} /\ l # 1
        BY <4>1, <4>2, <4>3
      <4>5. l > 1
        BY <4>4
      <4> QED
        BY <4>3, <4>5
    <3>3. ASSUME \A p \in files : Len(p) > 1 PROVE disk[<<x>>] = "dir"
      <4>1. ~(1 > 1)
        OBVIOUS
      <4>2. <<x>> \notin files
        BY <3>1, <3>3, <4>1
      <4> QED
        BY <3>1, <4>2
    <3> QED
      BY <2>2, <3>2, <3>3
  <2> HIDE DEF top
  <2>5. BundleRoot = IF Cardinality(top) = 1 /\ \A p \in top : disk[p] = "dir"
                     THEN CHOOSE p \in top : TRUE ELSE <<>>
    BY DEF BundleRoot, top
  <2>6. PICK b \in BOOLEAN : b <=> \A p \in files : Len(p) > 1
    OBVIOUS
  <2>7. BundleRoot = IF b THEN <<x>> ELSE <<>>
    BY <2>2, <2>3, <2>4, <2>5, <2>6
  <2> QED
    BY <2>2, <2>3, <2>6, <2>7
<1>7. CASE ~\E x : tops = {x}
  <2>1. Cardinality(tops) # 1
    BY <1>1, <1>7, FS_Singleton
  <2>2. ~\E q : top = {q}
    BY <1>5, <1>7
  <2>3. Cardinality(top) # 1
    BY <1>1, <2>2, FS_Singleton
  <2> QED
    BY <2>1, <2>3 DEF BundleRoot
<1> QED
  BY <1>6, <1>7

\* What was staged of an accepted archive is the tree that its entries make.
LEMMA StagedIsTheTree ==
  ASSUME StagingInv, EntriesInv, verdict = "accepted", source.format # "directory"
  PROVE  StagedTree = TreeIn(source)
<1> DEFINE all == PathsOf(source, InnerOf(source))
<1>1. /\ Follows(source, disk, count, Len(source.entries)) /\ source.entries \in Seq(Entries)
      /\ InnerOf(source) = InnerTo(source, Len(source.entries))
  BY AcceptedIsSafe, InnerIsInner
<1>2. DOMAIN disk = all /\ IsTree(disk) /\ IsFiniteSet(DOMAIN disk)
  BY <1>1, PathsAreFinite DEF Follows, StagingInv
<1>3. PICK files : files = {p \in DOMAIN disk : disk[p] = "file"}
  OBVIOUS
<1>4. files = {NameIn(source, n) : n \in FilesOf(source)}
  <2>1. ASSUME NEW p \in files PROVE \E n \in FilesOf(source) : p = NameIn(source, n)
    BY <1>1, <1>3, <2>1 DEF Follows, FilesOf
  <2>2. ASSUME NEW n \in FilesOf(source) PROVE NameIn(source, n) \in files
    <3>1. n \in InnerOf(source) /\ NameIn(source, n) \in all
      BY DEF FilesOf, PathsOf, PathsTo
    <3> QED
      BY <1>1, <1>2, <1>3, <3>1 DEF Follows, FilesOf
  <2> QED
    BY <2>1, <2>2
<1>5. PICK dirs : dirs = DOMAIN disk \ files
  OBVIOUS
<1>6. files \cup dirs = DOMAIN disk
  BY <1>3, <1>5
<1>7. PICK tops : tops = {p[1] : p \in DOMAIN disk}
  OBVIOUS
<1>8. PICK root : root = BundleRoot
  OBVIOUS
<1>9. root = IF Cardinality(tops) = 1 /\ \A p \in files : Len(p) > 1
             THEN <<CHOOSE x \in tops : TRUE>> ELSE <<>>
  BY <1>2, <1>3, <1>7, <1>8, RootIsTop
<1> HIDE DEF all
<1>10. StagedTree = [files |-> [p \in Rebased(files, root) |-> ContentIn(source, root \o p)],
                     dirs |-> Rebased(dirs, root)]
  BY <1>3, <1>5, <1>8 DEF StagedTree
<1>11. dirs = PathsOf(source, InnerOf(source)) \ files /\ tops = {p[1] : p \in files \cup dirs}
  BY <1>2, <1>5, <1>6, <1>7 DEF all
<1>12. TreeIn(source) = [files |-> [p \in Rebased(files, root) |-> ContentIn(source, root \o p)],
                         dirs |-> Rebased(dirs, root)]
  BY <1>4, <1>9, <1>11 DEF TreeIn
<1> QED
  BY <1>10, <1>12

\* What was staged of an accepted directory is the tree of its items.
LEMMA StagedDirectoryIsTheTree ==
  ASSUME StagingInv, ItemsInv, verdict = "accepted", source.format = "directory"
  PROVE  StagedTree = TreeIn(source)
<1>1. IsTreeOfItems(source) /\ Walk(source, {}, disk, count) /\ IsTree(disk)
  BY DEF ItemsInv, StagingInv
<1>2. PICK places : places = Places(source)
  OBVIOUS
<1>3. /\ Done(source, {}, disk) = places /\ DOMAIN source.listing = {<<>>} \cup {p \in DOMAIN disk : disk[p] = "dir"}
      /\ DOMAIN disk = {PathAt(source, x) : x \in places} /\ IsFiniteSet(places)
  BY <1>1, <1>2, WalkEnds, PlacesAreFinite DEF Entered
<1>4. IsFiniteSet(DOMAIN disk)
  <2>0. PICK f : f = [x \in places |-> PathAt(source, x)]
    OBVIOUS
  <2>1. IsFiniteSet({f[x] : x \in places})
    BY ONLY <1>3, <2>0, ImageIsFinite
  <2>2. DOMAIN disk = {f[x] : x \in places}
    BY ONLY <1>3, <2>0
  <2> QED
    BY <2>1, <2>2
<1>5. PICK files : files = {p \in DOMAIN disk : disk[p] = "file"}
  OBVIOUS
<1>6. \A x \in places : PathAt(source, x) \in DOMAIN disk /\ disk[PathAt(source, x)] = ItemAt(source, x).kind
  BY <1>1, <1>3 DEF Walk
<1>7. files = UNION {{Append(d, source.listing[d][n].name) :
                        n \in {k \in DOMAIN source.listing[d] : source.listing[d][k].kind = "file"}}
                      : d \in DOMAIN source.listing}
  <2>1. ASSUME NEW d \in DOMAIN source.listing, NEW n \in DOMAIN source.listing[d],
               source.listing[d][n].kind = "file"
        PROVE  Append(d, source.listing[d][n].name) \in files
    <3>1. <<d, n>> \in places
      BY <1>2 DEF Places
    <3>2. PathAt(source, <<d, n>>) = Append(d, source.listing[d][n].name)
          /\ ItemAt(source, <<d, n>>).kind = "file"
      BY <2>1 DEF PathAt, ItemAt
    <3> QED
      BY <1>5, <1>6, <3>1, <3>2
  <2>2. ASSUME NEW p \in files
        PROVE  \E d \in DOMAIN source.listing : \E n \in DOMAIN source.listing[d] :
                 source.listing[d][n].kind = "file" /\ p = Append(d, source.listing[d][n].name)
    <3>1. PICK x \in places : p = PathAt(source, x)
      BY <1>3, <1>5
    <3>2. PICK d \in DOMAIN source.listing : \E n \in DOMAIN source.listing[d] : x = <<d, n>>
      BY <1>2, <3>1 DEF Places
    <3>3. PICK n \in DOMAIN source.listing[d] : x = <<d, n>>
      BY <3>2
    <3>4. p = Append(d, source.listing[d][n].name) /\ ItemAt(source, x).kind = source.listing[d][n].kind
      BY <3>1, <3>3 DEF PathAt, ItemAt
    <3> QED
      BY <1>5, <1>6, <3>1, <3>4
  <2>3. PICK all : all = UNION {{Append(d, source.listing[d][n].name) :
                                   n \in {k \in DOMAIN source.listing[d] : source.listing[d][k].kind = "file"}}
                                 : d \in DOMAIN source.listing}
    OBVIOUS
  <2>4. ASSUME NEW p \in all PROVE p \in files
    <3>1. PICK d \in DOMAIN source.listing :
            p \in {Append(d, source.listing[d][n].name) :
                     n \in {k \in DOMAIN source.listing[d] : source.listing[d][k].kind = "file"}}
      BY ONLY <2>3, <2>4
    <3> QED
      BY ONLY <2>1, <3>1
  <2>5. ASSUME NEW p \in files PROVE p \in all
    <3>1. PICK d \in DOMAIN source.listing : \E n \in DOMAIN source.listing[d] :
            source.listing[d][n].kind = "file" /\ p = Append(d, source.listing[d][n].name)
      BY ONLY <2>2, <2>5
    <3>2. p \in {Append(d, source.listing[d][n].name) :
                  n \in {k \in DOMAIN source.listing[d] : source.listing[d][k].kind = "file"}}
      BY ONLY <3>1
    <3> QED
      BY ONLY <2>3, <3>1, <3>2
  <2> QED
    BY ONLY <2>3, <2>4, <2>5
<1>8. PICK dirs : dirs = DOMAIN disk \ files
  OBVIOUS
<1>9. dirs = DOMAIN source.listing \ {<<>>} /\ files \cup dirs = DOMAIN disk
  BY <1>1, <1>3, <1>5, <1>8 DEF IsTree
<1>10. PICK tops : tops = {p[1] : p \in DOMAIN disk}
  OBVIOUS
<1>11. PICK root : root = BundleRoot
  OBVIOUS
<1>12. root = IF Cardinality(tops) = 1 /\ \A p \in files : Len(p) > 1
              THEN <<CHOOSE x \in tops : TRUE>> ELSE <<>>
  BY <1>1, <1>4, <1>5, <1>10, <1>11, RootIsTop
<1>13. StagedTree = [files |-> [p \in Rebased(files, root) |-> ContentIn(source, root \o p)],
                     dirs |-> Rebased(dirs, root)]
  BY <1>5, <1>8, <1>11 DEF StagedTree
<1>14. tops = {p[1] : p \in files \cup dirs}
  BY <1>9, <1>10
<1>15. TreeIn(source) = [files |-> [p \in Rebased(files, root) |-> ContentIn(source, root \o p)],
                         dirs |-> Rebased(dirs, root)]
  BY ONLY <1>7, <1>9, <1>12, <1>14, source.format = "directory" DEF TreeIn
<1> QED
  BY <1>13, <1>15

-----------------------------------------------------------------------------
(* What the commands wrote is a tree of items *)

\* The files of a directory of ours, and the directories above them, are a tree of items.
LEMMA TreeIsOfItems ==
  ASSUME NEW files, IsFiniteSet(DOMAIN files), \A p \in DOMAIN files : IsPath(p)
  PROVE  IsTreeOfItems(ListingOf(AsTree(files)))
<1> DEFINE F == DOMAIN files
           above(p) == {SubSeq(p, 1, n) : n \in 1..(Len(p) - 1)}
           dirs == UNION {above(p) : p \in F}
           all == F \cup dirs
           names(d) == Arranged({p \in all : Parent(p) = d})
           entry(p) == [name |-> p[Len(p)], kind |-> IF p \in dirs THEN "dir" ELSE "file", blocks |-> 0]
           listing == [d \in dirs \cup {<<>>} |-> [n \in DOMAIN names(d) |-> entry(names(d)[n])]]
           tree == ListingOf(AsTree(files))
<1>1. tree = [format |-> "directory", contents |-> files, listing |-> listing]
  BY DEF ListingOf, AsTree
<1>2. tree.listing = listing
  BY <1>1
<1>3. ASSUME NEW d \in dirs PROVE IsPath(d) /\ Parent(d) \in dirs \cup {<<>>}
  <2>1. PICK p \in F : d \in above(p)
    OBVIOUS
  <2>2. PICK n \in 1..(Len(p) - 1) : d = SubSeq(p, 1, n)
    BY <2>1
  <2>3. IsPath(d) /\ (Parent(d) = <<>> \/ \E m \in 1..(Len(p) - 1) : Parent(d) = SubSeq(p, 1, m))
    BY <2>2, AboveParent
  <2>4. Parent(d) = <<>> \/ Parent(d) \in above(p)
    BY <2>3
  <2> HIDE DEF above
  <2> QED
    BY <2>3, <2>4
<1>5. IsFiniteSet(dirs)
  <2>1. ASSUME NEW p \in F PROVE IsFiniteSet(above(p))
    <3> DEFINE l == Len(p) - 1
               f == [n \in 1..l |-> SubSeq(p, 1, n)]
    <3>1. l \in Int
      BY PathParts
    <3>2. IsFiniteSet(1..l)
      BY <3>1, 1 \in Int, FS_Interval
    <3>3. IsFiniteSet({f[n] : n \in 1..l})
      BY <3>2, ImageIsFinite
    <3> QED
      BY <3>3
  <2> DEFINE g == [p \in F |-> above(p)]
             G == {g[p] : p \in F}
  <2>2. IsFiniteSet(G) /\ \A T \in G : IsFiniteSet(T)
    BY <2>1, ImageIsFinite
  <2>3. dirs = UNION G
    OBVIOUS
  <2> HIDE DEF G, dirs
  <2> QED
    BY <2>2, <2>3, FS_UNION
<1>6. (\A p \in all : IsPath(p)) /\ IsFiniteSet(all)
  BY <1>3, <1>5, FS_Union
<1> HIDE DEF dirs, above
<1>7. ASSUME NEW d
      PROVE  /\ IsSeq(names(d)) /\ \A n \in DOMAIN names(d) : names(d)[n] \in all /\ Parent(names(d)[n]) = d
             /\ \A p \in all : Parent(p) = d => \E n \in DOMAIN names(d) : names(d)[n] = p
  <2> DEFINE S == {p \in all : Parent(p) = d}
  <2>1. IsFiniteSet(S)
    BY <1>6, FS_Subset
  <2>2. IsSeq(Arranged(S)) /\ Range(Arranged(S)) = S
    BY <2>1, ArrangedIs
  <2> QED
    BY <2>2 DEF Range
<1> HIDE DEF names
<1> HIDE DEF all
<1>9. DOMAIN listing = dirs \cup {<<>>}
  OBVIOUS
<1>10. ASSUME NEW d \in dirs \cup {<<>>} PROVE IsSeq(listing[d])
  <2>1. PICK s : s = names(d)
    OBVIOUS
  <2> HIDE DEF entry
  <2>2. listing[d] = [n \in DOMAIN s |-> entry(s[n])]
    BY <2>1
  <2>3. PICK t : t = listing[d]
    OBVIOUS
  <2>4. t = [n \in DOMAIN s |-> t[n]]
    BY <2>2, <2>3
  <2> QED
    BY <1>7, <2>1, <2>3, <2>4, SameLength
<1>11. IsFiniteSet(DOMAIN listing) /\ \A d \in DOMAIN listing : IsSeq(d) /\ IsSeq(listing[d])
  <2>1. IsFiniteSet(dirs \cup {<<>>})
    BY <1>5, FS_AddElement
  <2>2. IsSeq(<<>>) /\ \A d \in dirs : IsSeq(d)
    BY <1>3 DEF IsPath, IsSeq
  <2> HIDE DEF listing
  <2> QED
    BY <1>9, <1>10, <2>1, <2>2
<1>12. ASSUME NEW d \in dirs \cup {<<>>}, NEW n \in DOMAIN names(d)
       PROVE  /\ names(d)[n] \in all /\ listing[d][n] = entry(names(d)[n])
              /\ Append(d, listing[d][n].name) = names(d)[n]
              /\ listing[d][n].kind = "dir" <=> names(d)[n] \in dirs
  <2>1. PICK p : p = names(d)[n]
    OBVIOUS
  <2>2. p \in all /\ Parent(p) = d
    BY <1>7, <2>1
  <2>3. Append(d, p[Len(p)]) = p
    BY <1>6, <2>2, PathParts
  <2>4. listing[d][n] = entry(p)
    BY <2>1
  <2> QED
    BY <2>1, <2>2, <2>3, <2>4
<1>8. ASSUME NEW x \in Places(tree)
      PROVE  ItemAt(tree, x).kind \in Kinds /\ ItemAt(tree, x).blocks \in Nat
  <2>0. PICK d \in DOMAIN listing : \E n \in DOMAIN listing[d] : x = <<d, n>>
    <3> HIDE DEF listing, tree
    <3> QED
      BY <1>2 DEF Places
  <2>1. PICK n \in DOMAIN listing[d] : x = <<d, n>>
    BY <2>0
  <2>2. d \in dirs \cup {<<>>} /\ n \in DOMAIN names(d)
    BY <2>1
  <2>3. PICK p : p = names(d)[n]
    OBVIOUS
  <2>4. ItemAt(tree, x) = entry(p)
    <3> HIDE DEF listing, tree, entry
    <3> QED
      BY <1>2, <1>12, <2>1, <2>2, <2>3 DEF ItemAt
  <2> QED
    BY <2>4 DEF Kinds
<1>13. ASSUME NEW d \in dirs
       PROVE  \E x \in Places(tree) : ItemAt(tree, x).kind = "dir" /\ PathAt(tree, x) = d
  <2>1. PICK e \in dirs \cup {<<>>} : e = Parent(d)
    BY <1>3
  <2>2. PICK n \in DOMAIN names(e) : names(e)[n] = d
    BY <1>7, <2>1 DEF all
  <2>3. n \in DOMAIN listing[e]
    BY <2>2
  <2>4. listing[e][n].kind = "dir" /\ Append(e, listing[e][n].name) = d
    BY <1>12, <2>2
  <2> HIDE DEF listing, tree
  <2>5. <<e, n>> \in Places(tree)
    BY <1>2, <1>9, <2>3 DEF Places
  <2> QED
    BY <1>2, <2>4, <2>5 DEF ItemAt, PathAt
<1>14. ASSUME NEW x \in Places(tree), ItemAt(tree, x).kind = "dir"
       PROVE  PathAt(tree, x) \in dirs
  <2>0. PICK d \in DOMAIN listing : \E n \in DOMAIN listing[d] : x = <<d, n>>
    <3> HIDE DEF listing, tree
    <3> QED
      BY <1>2 DEF Places
  <2>1. PICK n \in DOMAIN listing[d] : x = <<d, n>>
    BY <2>0
  <2>2. d \in dirs \cup {<<>>} /\ n \in DOMAIN names(d)
    BY <2>1
  <2> HIDE DEF listing, tree
  <2>3. listing[d][n].kind = "dir" /\ PathAt(tree, x) = Append(d, listing[d][n].name)
    BY <1>2, <1>14, <2>1 DEF ItemAt, PathAt
  <2> QED
    BY <1>12, <2>2, <2>3
<1> HIDE DEF listing, tree
<1>15. DOMAIN listing = {<<>>} \cup {PathAt(tree, x) : x \in {y \in Places(tree) : ItemAt(tree, y).kind = "dir"}}
  BY <1>9, <1>13, <1>14
<1>16. IsTreeOfItems(tree)
  <2>1. /\ IsFiniteSet(DOMAIN tree.listing)
        /\ \A d \in DOMAIN tree.listing : IsSeq(d) /\ IsSeq(tree.listing[d])
    BY ONLY <1>2, <1>11
  <2>2. \A x \in Places(tree) : ItemAt(tree, x).kind \in Kinds /\ ItemAt(tree, x).blocks \in Nat
    BY ONLY <1>8
  <2>3. DOMAIN tree.listing
        = {<<>>} \cup {PathAt(tree, x) : x \in {y \in Places(tree) : ItemAt(tree, y).kind = "dir"}}
    BY ONLY <1>2, <1>15
  <2> QED
    BY ONLY <2>1, <2>2, <2>3 DEF IsTreeOfItems
<1> QED
  BY <1>16 DEF tree

\* A directory of the files of another, under a name.
LEMMA InDirectoryAre ==
  ASSUME NEW files, AreFiles(files), NEW name
  PROVE  IsFiniteSet({<<name>> \o q : q \in DOMAIN files}) /\ \A p \in {<<name>> \o q : q \in DOMAIN files} : IsPath(p)
<1>1. IsFiniteSet({<<name>> \o q : q \in DOMAIN files})
  <2> DEFINE D == DOMAIN files
             f == [q \in D |-> <<name>> \o q]
  <2>1. IsFiniteSet(D)
    BY DEF AreFiles
  <2>2. IsFiniteSet({f[q] : q \in D})
    BY <2>1, ImageIsFinite
  <2> QED
    BY <2>2
<1>2. ASSUME NEW q \in DOMAIN files PROVE IsPath(<<name>> \o q)
  <2>1. IsPath(q) /\ IsPath(<<name>>)
    BY OneIsSeq DEF AreFiles
  <2> QED
    BY <2>1, JoinedIsPath DEF IsPath
<1> QED
  BY <1>1, <1>2

\* What the commands wrote is a tree, as the ingest command finds it.
LEMMA PipelineIsOfItems == ASSUME PipelineInv PROVE IsTreeOfItems(ListingOf(PipelineTree))
<1>1. CASE partial = <<>>
  BY <1>1, TreeIsOfItems DEF PipelineTree, PipelineInv, AreFiles
<1>2. CASE partial # <<>>
  <2> DEFINE A == {<<"dataset">> \o q : q \in DOMAIN dataset}
             B == {<<"partial">> \o q : q \in DOMAIN partial}
             C == {<<"bundle.json">>}
             first == InDirectory("dataset", dataset)
             second == InDirectory("partial", partial)
             files == [p \in DOMAIN first \cup DOMAIN second \cup {<<"bundle.json">>} |->
                IF p \in DOMAIN first THEN first[p] ELSE IF p \in DOMAIN second THEN second[p] ELSE BundleJson]
  <2>1. /\ IsFiniteSet(A) /\ \A p \in A : IsPath(p)
        /\ IsFiniteSet(B) /\ \A p \in B : IsPath(p)
    BY InDirectoryAre DEF PipelineInv
  <2>2. IsFiniteSet(C) /\ \A p \in C : IsPath(p)
    BY OneIsSeq, FS_Singleton
  <2>3. Workspace = AsTree(files)
    BY DEF Workspace
  <2>4. DOMAIN first = A /\ DOMAIN second = B
    BY DEF InDirectory
  <2>5. DOMAIN files = DOMAIN first \cup DOMAIN second \cup C
    OBVIOUS
  <2>6. DOMAIN files = (A \cup B) \cup C
    BY <2>4, <2>5
  <2>7. PICK fs : fs = files
    OBVIOUS
  <2> HIDE DEF A, B, C, first, second, files
  <2>8. IsFiniteSet(A \cup B)
    BY ONLY <2>1, FS_Union
  <2>9. IsFiniteSet((A \cup B) \cup C)
    BY ONLY <2>2, <2>8, FS_Union
  <2>10. IsFiniteSet(DOMAIN fs) /\ \A p \in DOMAIN fs : IsPath(p)
    BY <2>1, <2>2, <2>6, <2>7, <2>9
  <2>11. IsTreeOfItems(ListingOf(AsTree(fs)))
    BY ONLY <2>10, TreeIsOfItems
  <2> QED
    BY <1>2, <2>3, <2>7, <2>11 DEF PipelineTree
<1> QED
  BY <1>1, <1>2

-----------------------------------------------------------------------------
(* The verdict on any source *)

VerdictInv == BlocksInv /\ ItemsInv

\* What was not staged has no blocks and no items.
LEMMA NothingCounts == Empty => VerdictInv
BY DEF Empty, NoSource, VerdictInv, BlocksInv, ItemsInv, IsArchive, Reasons

\* The same of the next state.
LEMMA NothingCountsNext == Empty' => VerdictInv'
BY NothingCounts, PTL

\* Steps that leave staging alone.
LEMMA VerdictKept == ASSUME VerdictInv, UNCHANGED stagingVars PROVE VerdictInv'
<1>1. UNCHANGED <<source, limits, pos, stack, explicit, disk, total, count, rootSeen, writing, verdict>>
  BY DEF stagingVars, given
<1>2. Taken' = Taken /\ IsArchive' = IsArchive
  BY <1>1 DEF Taken, IsArchive
<1> QED
  BY <1>1, <1>2 DEF VerdictInv, BlocksInv, ItemsInv

\* What clears staging away, and what does not touch it.
LEMMA RespondedCounts ==
  ASSUME VerdictInv, (\E status, of : Respond(status, of)) \/ UNCHANGED stagingVars
  PROVE  VerdictInv'
<1>1. CASE \E status, of : Respond(status, of)
  BY <1>1, NothingCountsNext DEF Respond, StagingReset, Empty, Unstarted
<1> QED
  BY <1>1, VerdictKept

\* An archive has no items, and a directory no entries.
LEMMA ArchiveCounts ==
  ASSUME StagingInv, NEW a, NEW l, a.format # "directory", StageArchive(a, l)
  PROVE  VerdictInv'
<1>1. source' = a
  BY DEF StageArchive
<1> QED
  BY <1>1, StageArchiveCounts DEF VerdictInv, ItemsInv
LEMMA DirectoryCounts ==
  ASSUME StagingInv, NEW tree, NEW l, tree.format = "directory", IsTreeOfItems(tree), StageDirectory(tree, l)
  PROVE  VerdictInv'
<1>1. source' = tree
  BY DEF StageDirectory
<1> QED
  BY <1>1, StageDirectoryWalks DEF VerdictInv, BlocksInv, IsArchive

\* What a step of staging has copied counts.
LEMMA StagingOfBoth ==
  ASSUME StagingInv, EntriesInv, VerdictInv, StagingNext
  PROVE  VerdictInv'
BY StagingCounts, StagingWalks DEF VerdictInv

\* Staging begins with nothing counted.
LEMMA BeginsCounts ==
  ASSUME RequestsInv, PipelineInv, ExtractUpload \/ (Ingest /\ SourceOf(Request).format # "missing")
  PROVE  VerdictInv'
<1> DEFINE src == SourceOf(Request)
<1>1. StagingInv /\ todo # <<>>
  BY DEF RequestsInv, Ingest, Asked, ExtractUpload, BodyEnds
<1>2. Request \in AllRequests
  BY <1>1, RequestOf DEF RequestsInv
<1>3. CASE ExtractUpload
  <2>1. Request.what = "upload" /\ StageArchive(Request.source, settings.limits)
    BY <1>3 DEF ExtractUpload, BodyEnds, RequestsInv
  <2> QED
    BY <1>1, <1>2, <2>1, RequestsAssumption, ArchiveCounts
<1>4. CASE Ingest /\ src.format = "directory"
  <2>1. Request.what \in {"ingest", "workspace"} /\ StageDirectory(src, settings.limits)
    BY <1>4 DEF Ingest, Asked
  <2>2. IsTreeOfItems(src)
    BY <1>2, <1>4, <2>1, RequestsAssumption, PipelineIsOfItems DEF SourceOf
  <2> HIDE DEF src
  <2> QED
    BY <1>1, <1>4, <2>1, <2>2, DirectoryCounts
<1>5. CASE Ingest /\ src.format \notin {"directory", "missing"}
  <2>1. StageArchive(src, settings.limits)
    BY <1>5 DEF Ingest
  <2> HIDE DEF src
  <2> QED
    BY <1>1, <1>5, <2>1, ArchiveCounts
<1> QED
  BY <1>3, <1>4, <1>5

\* Every step of the viewer counts what it copies.
LEMMA VerdictNext ==
  ASSUME RequestsInv, EntriesInv, PipelineInv, VerdictInv, [ViewerNext]_viewerVars
  PROVE  VerdictInv'
<1>1. CASE UNCHANGED viewerVars \/ Commands \/ ChildPrepares \/ NextRequest
  BY <1>1, RespondedCounts DEF viewerVars, Commands, ChildPrepares, NextRequest
<1>2. CASE RefusedAtTheGate \/ Disconnect \/ Refused \/ DiskFails \/ Invalidated \/ Raw \/ DeriveEnds
  BY <1>2, RespondedCounts
     DEF RefusedAtTheGate, Disconnect, Refused, DiskFails, Invalidated, Raw, DeriveEnds, Fails, Reply
<1>3. CASE Commit \/ Delete
  BY <1>3, RespondedCounts DEF Commit, Delete, Fails, Reply
<1>4. CASE Upload \/ ReadChunk
  BY <1>4, RespondedCounts DEF Upload, ReadChunk, Fails, Reply
<1>5. CASE DeriveMember \/ Derive
  BY <1>5, RespondedCounts DEF DeriveMember, Derive, Answered, Fails, Reply
<1>6. CASE ExtractUpload \/ Ingest
  <2>1. CASE Ingest /\ SourceOf(Request).format = "missing"
    BY <2>1, RespondedCounts DEF Ingest, Fails, Reply
  <2> QED
    BY <1>6, <2>1, BeginsCounts
<1>7. CASE StageOne
  BY <1>7, StagingOfBoth DEF RequestsInv, StageOne
<1> QED
  BY <1>1, <1>2, <1>3, <1>4, <1>5, <1>6, <1>7 DEF ViewerNext, RequestNext

\* Only the commands change what they wrote.
LEMMA PipelineOfViewer ==
  ASSUME PipelineInv, [ViewerNext]_viewerVars
  PROVE  PipelineInv'
<1>1. CASE Commands
  BY <1>1, PipelineKeeps DEF Commands
<1>2. CASE UNCHANGED pipelineVars
  BY <1>2 DEF pipelineVars, PipelineInv, AreFiles, HasSound, Saves
<1>3. CASE RequestNext
  <2>1. CASE RefusedAtTheGate \/ Disconnect \/ Refused \/ DiskFails \/ Invalidated \/ Raw \/ DeriveEnds \/ Commit \/ Delete
    BY <2>1, <1>2
       DEF RefusedAtTheGate, Disconnect, Refused, DiskFails, Invalidated, Raw, DeriveEnds, Commit, Delete,
           Fails, Reply, Respond
  <2>2. CASE Upload \/ ReadChunk \/ ExtractUpload \/ Ingest
    BY <2>2, <1>2 DEF Upload, ReadChunk, ExtractUpload, Ingest, Fails, Reply, Respond, Unchanged
  <2>3. CASE DeriveMember \/ Derive
    BY <2>3, <1>2 DEF DeriveMember, Derive, Answered, Fails, Reply, Respond
  <2>4. CASE StageOne \/ NextRequest \/ ChildPrepares
    BY <2>4, <1>2 DEF StageOne, NextRequest, ChildPrepares
  <2> QED
    BY <1>3, <2>1, <2>2, <2>3, <2>4 DEF RequestNext
<1> QED
  BY <1>1, <1>2, <1>3 DEF ViewerNext, viewerVars

\* Exactly the safe sources are accepted: an archive whose entries, in whatever
\* order, are safe as a whole, with all their blocks, and a directory whose
\* items are, in whatever order they are walked (safe_extract,
\* stage_from_directory).
THEOREM VerdictIsRight == ViewerSpec => []VerdictIsOfTheSource
<1> DEFINE All == RequestsInv /\ EntriesInv /\ PipelineInv /\ VerdictInv
<1>1. ViewerInit => All
  <2>1. ViewerInit => Empty
    BY DEF ViewerInit, StagingInit, Empty, Unstarted
  <2>2. ViewerInit => PipelineInv
    BY PipelineBegins DEF ViewerInit
  <2> QED
    BY <2>1, <2>2, RequestsInitially, NothingFollows, NothingCounts
<1>2. All /\ [ViewerNext]_viewerVars => All'
  BY RequestsNext, EntriesNext, PipelineOfViewer, VerdictNext
<1>3. All => VerdictIsOfTheSource
  BY ArchiveVerdictIs, DirectoryVerdictIs DEF VerdictInv, RequestsInv, VerdictIsOfTheSource, IsSafe
<1> QED
  BY <1>1, <1>2, <1>3, PTL DEF ViewerSpec
-----------------------------------------------------------------------------
(* The checks of a request *)

\* The headers of an upload are in order when none of the checks of them fails.
HeadIsInOrder(r) ==
  ~Shut(r) /\ r.named /\ r.type # "other" /\ r.length \notin {"bad", "over"} /\ r.free
LEMMA HeaderChecks ==
  ASSUME NEW r
  PROVE  (HeaderFault(r) = NoFault) <=> (r.named /\ r.type # "other" /\ r.length \notin {"bad", "over"} /\ r.free)
<1> DEFINE p1 == r.named
           p2 == r.type = "other"
           p3 == r.length = "bad"
           p4 == r.length = "over"
           p5 == r.free
           c == << <<~p1, "name">>, <<p2, "content_type">>, <<p3, "content_length">>, <<p4, "too_large">>,
                   <<~p5, "insufficient_storage">> >>
<1>1. HeaderFault(r) = First(c)
  BY DEF HeaderFault
<1> HIDE DEF p1, p2, p3, p4, p5
<1>2. /\ DOMAIN c = 1..5 /\ 5 \in Nat
      /\ \A n \in 1..5 : c[n][2] # NoFault
  <2>1. \A n \in 1..5 : n \in {1, 2, 3, 4, 5}
    OBVIOUS
  <2> QED
    BY <2>1 DEF NoFault
<1>3. /\ c[1] = <<~p1, "name">> /\ c[2] = <<p2, "content_type">> /\ c[3] = <<p3, "content_length">>
      /\ c[4] = <<p4, "too_large">> /\ c[5] = <<~p5, "insufficient_storage">>
  OBVIOUS
<1>7. (c[1][1] <=> ~p1) /\ (c[2][1] <=> p2) /\ (c[3][1] <=> p3)
  BY ONLY <1>3
<1>8. (c[4][1] <=> p4) /\ (c[5][1] <=> ~p5)
  BY ONLY <1>3
<1> HIDE DEF c
<1>4. (First(c) = NoFault) <=> \A n \in 1..5 : ~c[n][1]
  BY <1>2, FirstIsLeast
<1>5. \A n \in 1..5 : n \in {1, 2, 3, 4, 5}
  OBVIOUS
<1>6. (\A n \in 1..5 : ~c[n][1]) <=> p1 /\ ~p2 /\ ~p3 /\ ~p4 /\ p5
  BY ONLY <1>5, <1>7, <1>8
<1> QED
  BY <1>1, <1>4, <1>6 DEF p1, p2, p3, p4, p5

\* A bundle is deleted when it is known, and the request has a short body that confirms it.
LEMMA DeleteChecks ==
  ASSUME NEW r, r.chunks \in Seq(Nat)
  PROVE  (DeleteFault(r) = NoFault)
         <=> (Known(r) /\ BodyBytes(r) <= DeleteBodyLimit /\ ~r.cut /\ r.confirmed)
<1> DEFINE p1 == Known(r)
           p2 == BodyIsOver(r.chunks, DeleteBodyLimit)
           p3 == r.cut
           p4 == r.confirmed
           c == << <<~p1, "not_found">>, <<p2, "too_large">>, <<p3, "internal">>, <<~p4, "bad_params">> >>
<1>1. DeleteFault(r) = First(c)
  BY DEF DeleteFault, BodyIsOver
<1>7. p2 <=> ~(BodyBytes(r) <= DeleteBodyLimit)
  BY BodyIsOverWhole DEF BodyBytes, DeleteBodyLimit
<1> HIDE DEF p1, p2, p3, p4
<1>2. /\ DOMAIN c = 1..4 /\ 4 \in Nat
      /\ \A n \in 1..4 : c[n][2] # NoFault
  <2>1. \A n \in 1..4 : n \in {1, 2, 3, 4}
    OBVIOUS
  <2> QED
    BY <2>1 DEF NoFault
<1>3. /\ c[1][1] <=> ~p1
      /\ c[2][1] <=> p2
      /\ c[3][1] <=> p3
      /\ c[4][1] <=> ~p4
  OBVIOUS
<1> HIDE DEF c
<1>4. (First(c) = NoFault) <=> \A n \in 1..4 : ~c[n][1]
  BY <1>2, FirstIsLeast
<1>5. \A n \in 1..4 : n \in {1, 2, 3, 4}
  OBVIOUS
<1>6. (\A n \in 1..4 : ~c[n][1]) <=> p1 /\ ~p2 /\ ~p3 /\ p4
  BY <1>3, <1>5
<1> QED
  BY <1>1, <1>4, <1>6, <1>7 DEF p1, p3, p4

-----------------------------------------------------------------------------
(* The answer to a request *)

\* Staging is of the source that was asked for, and what of a request was looked
\* at before was in order.
AskedInv ==
  /\ stage = "staging" =>
       /\ limits = settings.limits /\ source = SourceOf(Request)
       /\ Request.what = "upload" =>
            HeadIsInOrder(Request) /\ ~Request.cut /\ BodyBytes(Request) <= settings.upload
  /\ stage = "body" => HeadIsInOrder(Request) /\ spool = BytesTo(Request.chunks, chunk)
  /\ stage = "deriving" => Request.what = "derive"
AnswersInv == AskedInv /\ AnswerTellsTheStore
SeenInv == RequestsInv /\ StoreInv /\ EntriesInv /\ VerdictInv /\ AnswersInv

\* The verdict on a source is of the source as a whole.
LEMMA VerdictOf ==
  ASSUME RequestsInv, EntriesInv, VerdictInv
  PROVE  VerdictIsOfTheSource
BY ArchiveVerdictIs, DirectoryVerdictIs DEF VerdictInv, RequestsInv, VerdictIsOfTheSource, IsSafe

\* What was staged of an accepted source is its tree.
LEMMA StagedIsTheSource ==
  ASSUME RequestsInv, EntriesInv, VerdictInv, verdict = "accepted"
  PROVE  StagedTree = TreeIn(source)
BY StagedIsTheTree, StagedDirectoryIsTheTree DEF RequestsInv, VerdictInv

\* Until the next request what is asked for stays the same.
LEMMA AskedKept ==
  ASSUME UNCHANGED <<settings, todo, before, pipelineVars>>
  PROVE  /\ Request' = Request /\ SourceOf(Request)' = SourceOf(Request)
         /\ Storable(Request)' = Storable(Request) /\ Deletable(Request)' = Deletable(Request)
         /\ HeadIsInOrder(Request)' = HeadIsInOrder(Request)
<1>1. Request' = Request
  BY DEF Request
<1>2. PipelineTree' = PipelineTree
  BY DEF pipelineVars, PipelineTree, Workspace
<1>3. SourceOf(Request)' = SourceOf(Request)
  BY <1>1, <1>2 DEF SourceOf
<1>4. Shut(Request)' = Shut(Request)
  BY <1>1 DEF Shut
<1>5. HeadIsInOrder(Request)' = HeadIsInOrder(Request)
  BY <1>1, <1>4 DEF HeadIsInOrder
<1>6. Deletable(Request)' = Deletable(Request)
  BY <1>1, <1>4 DEF Deletable
<1>7. Storable(Request)' = Storable(Request)
  BY <1>1, <1>3, <1>4 DEF Storable
<1> QED
  BY <1>1, <1>3, <1>5, <1>6, <1>7

\* Nothing should have been stored or deleted, or the disk failed, and the
\* status says that nothing was.
Denies(status) ==
  /\ IsStoring(Request) => status \notin {0, 200, 201} /\ (~Storable(Request) \/ faults' # 0)
  /\ Request.what = "delete" => status \notin {0, 200, 201} /\ ~Deletable(Request)
\* Answers that leave the store alone, when nothing should have changed in it.
LEMMA DeniedAnswers ==
  ASSUME StoreInv, stage # "answered", NEW status, NEW of, Respond(status, of), UNCHANGED stored, dest' = FALSE, Denies(status)
  PROVE  AnswersInv'
<1>1. /\ stage' = "answered" /\ answer'.status = status /\ stored' = before'
      /\ UNCHANGED <<settings, todo, before, pipelineVars>>
  BY DEF Respond, Answer, StoreInv, StoreIsQuiet
<1>2. /\ Request' = Request /\ Storable(Request)' = Storable(Request)
      /\ Deletable(Request)' = Deletable(Request) /\ IsStoring(Request)' = IsStoring(Request)
  BY <1>1, AskedKept DEF IsStoring
<1>3. status \notin {0, 200, 201} => ~Succeeded' /\ answer'.status # 201
  BY <1>1 DEF Succeeded
<1>4. AskedInv'
  BY <1>1 DEF AskedInv
<1>5. AnswerTellsTheStore'
  BY <1>1, <1>2, <1>3 DEF AnswerTellsTheStore, Denies
<1> QED
  BY <1>4, <1>5 DEF AnswersInv

\* Steps that are no answer and leave what is asked for.
LEMMA StillAnswers ==
  ASSUME AnswersInv, UNCHANGED pipelineVars,
         UNCHANGED <<settings, todo, stage, chunk, spool, dest, stored, answer, before, faults, source, limits>>
  PROVE  AnswersInv'
<1>1. /\ Request' = Request /\ SourceOf(Request)' = SourceOf(Request) /\ Storable(Request)' = Storable(Request)
      /\ Deletable(Request)' = Deletable(Request) /\ HeadIsInOrder(Request)' = HeadIsInOrder(Request)
      /\ IsStoring(Request)' = IsStoring(Request) /\ Succeeded' = Succeeded
  BY AskedKept DEF IsStoring, Succeeded
<1>2. AskedInv'
  BY <1>1 DEF AnswersInv, AskedInv, BodyBytes
<1>3. AnswerTellsTheStore'
  BY <1>1 DEF AnswersInv, AnswerTellsTheStore
<1> QED
  BY <1>2, <1>3 DEF AnswersInv

\* A gate, the headers, the body or the disk end an upload that should not be stored.
LEMMA UploadAnswers == ASSUME SeenInv, Upload PROVE AnswersInv'
<1>1. Request.what = "upload" /\ stage = "ready" /\ ~Shut(Request) /\ dest = FALSE /\ chunk = 0 /\ todo # <<>>
  BY DEF Upload, Admitted, Asked, SeenInv, RequestsInv, StoreInv, StoreIsQuiet
<1>2. CASE HeaderFault(Request) # NoFault
  <2>1. HeaderStatus(HeaderFault(Request)) \notin {0, 200, 201}
    BY DEF HeaderStatus
  <2>2. ~Storable(Request)
    BY <1>1, <1>2, HeaderChecks DEF Storable
  <2>3. Respond(HeaderStatus(HeaderFault(Request)), HeaderFault(Request)) /\ UNCHANGED <<stored, dest>>
    BY <1>2 DEF Upload, Fails, Reply
  <2>4. Denies(HeaderStatus(HeaderFault(Request)))
    BY <1>1, <2>1, <2>2 DEF Denies
  <2> QED
    BY <1>1, <2>3, <2>4, DeniedAnswers DEF SeenInv
<1>3. CASE HeaderFault(Request) = NoFault
  <2>1. HeadIsInOrder(Request)
    BY <1>1, <1>3, HeaderChecks DEF HeadIsInOrder
  <2>2. stage' = "body" /\ spool' = 0 /\ chunk' = chunk /\ UNCHANGED <<settings, todo, before, pipelineVars>>
    BY <1>3 DEF Upload, Unchanged
  <2>3. Request' = Request /\ HeadIsInOrder(Request)' = HeadIsInOrder(Request)
    BY <2>2, AskedKept
  <2>4. Request.chunks \in Seq(Nat)
    BY <1>1, RequestOf, RequestsAssumption DEF SeenInv
  <2>5. spool' = BytesTo(Request.chunks, chunk)
    BY <1>1, <2>2, <2>4, BytesAre
  <2>6. AskedInv'
    BY <2>1, <2>2, <2>3, <2>5 DEF AskedInv
  <2> QED
    BY <2>2, <2>6 DEF AnswersInv, AnswerTellsTheStore
<1> QED
  BY <1>2, <1>3

\* What is spooled is the sum of the chunks that were read, and one that is too
\* much makes the whole body too much.
LEMMA ReadChunkAnswers == ASSUME SeenInv, ReadChunk PROVE AnswersInv'
<1>1. /\ stage = "body" /\ Request.what = "upload" /\ dest = FALSE /\ todo # <<>>
      /\ spool = BytesTo(Request.chunks, chunk) /\ HeadIsInOrder(Request)
      /\ chunk \in 0..Len(Request.chunks) /\ chunk < Len(Request.chunks)
  BY DEF ReadChunk, Reading, SeenInv, RequestsInv, StoreInv, StoreIsQuiet, AnswersInv, AskedInv
<1>2. Request.chunks \in Seq(Nat) /\ settings.upload \in Nat
  BY <1>1, RequestOf, RequestsAssumption DEF SeenInv, RequestsInv, SettingsInv
<1>3. PICK chunks \in Seq(Nat) : chunks = Request.chunks
  BY <1>2
<1>4. PICK bytes : bytes = chunks[chunk + 1]
  OBVIOUS
<1>5. chunk + 1 \in 0..Len(chunks) /\ bytes \in Nat
  BY <1>1, <1>3, <1>4
<1>6. /\ BytesTo(chunks, chunk + 1) = spool + bytes
      /\ BytesTo(chunks, chunk + 1) <= BodyBytes(Request) /\ spool \in Nat /\ BodyBytes(Request) \in Nat
  BY <1>1, <1>3, <1>4, <1>5, BytesAre DEF BodyBytes
<1>7. CASE ~(spool + bytes <= settings.upload)
  <2>1. ~(BodyBytes(Request) <= settings.upload)
    BY ONLY <1>2, <1>5, <1>6, <1>7
  <2>2. ~Storable(Request)
    BY <1>1, <2>1 DEF Storable
  <2>3. Respond(413, "too_large") /\ UNCHANGED <<stored, dest>>
    BY <1>3, <1>4, <1>7 DEF ReadChunk, Fits, Fails, Reply
  <2>4. stage # "answered" /\ dest' = FALSE /\ Denies(413)
    BY <1>1, <2>2, <2>3 DEF Denies
  <2> QED
    BY <2>3, <2>4, DeniedAnswers DEF SeenInv
<1>8. CASE spool + bytes <= settings.upload
  <2>1. stage' = "body" /\ chunk' = chunk + 1 /\ spool' = spool + bytes
        /\ UNCHANGED <<settings, todo, before, pipelineVars>>
    BY <1>1, <1>3, <1>4, <1>8 DEF ReadChunk, Fits, Unchanged
  <2>2. Request' = Request /\ HeadIsInOrder(Request)' = HeadIsInOrder(Request)
    BY <2>1, AskedKept
  <2>3. AskedInv'
    BY <1>1, <1>3, <1>6, <2>1, <2>2 DEF AskedInv
  <2> QED
    BY <2>1, <2>3 DEF AnswersInv, AnswerTellsTheStore
<1> QED
  BY <1>7, <1>8

\* Staging begins with the source that was asked for, of an upload when all of
\* its body was read.
LEMMA ExtractUploadAnswers == ASSUME SeenInv, ExtractUpload PROVE AnswersInv'
<1>1. /\ stage = "body" /\ Request.what = "upload" /\ todo # <<>> /\ ~Request.cut /\ chunk = Len(Request.chunks)
      /\ spool = BytesTo(Request.chunks, chunk) /\ HeadIsInOrder(Request) /\ spool <= settings.upload
  <2>1. spool \in 0..settings.upload /\ settings.upload \in Nat
    BY DEF ExtractUpload, BodyEnds, SeenInv, RequestsInv, SettingsInv
  <2> QED
    BY <2>1 DEF ExtractUpload, BodyEnds, SeenInv, RequestsInv, AnswersInv, AskedInv
<1>2. Request.chunks \in Seq(Nat)
  BY <1>1, RequestOf, RequestsAssumption DEF SeenInv
<1>3. BodyBytes(Request) <= settings.upload
  BY <1>1, <1>2, BytesAre DEF BodyBytes
<1>4. /\ stage' = "staging" /\ limits' = settings.limits /\ source' = Request.source
      /\ UNCHANGED <<settings, todo, before, pipelineVars>>
  BY DEF ExtractUpload, StageArchive, Unchanged
<1>5. /\ Request' = Request /\ HeadIsInOrder(Request)' = HeadIsInOrder(Request)
      /\ SourceOf(Request)' = SourceOf(Request) /\ BodyBytes(Request)' = BodyBytes(Request)
  BY <1>4, AskedKept DEF BodyBytes
<1>6. SourceOf(Request) = Request.source
  BY <1>1 DEF SourceOf
<1>7. AskedInv'
  BY <1>1, <1>3, <1>4, <1>5, <1>6 DEF AskedInv
<1> QED
  BY <1>4, <1>7 DEF AnswersInv, AnswerTellsTheStore

\* An ingest stages what it is asked for, if that is there.
LEMMA IngestAnswers == ASSUME SeenInv, Ingest PROVE AnswersInv'
<1>1. stage = "ready" /\ Request.what \in {"ingest", "workspace"} /\ dest = FALSE
  BY DEF Ingest, Asked, SeenInv, StoreInv, StoreIsQuiet
<1>2. CASE SourceOf(Request).format = "missing"
  <2>1. Respond(1, "not_found") /\ UNCHANGED <<stored, dest>>
    BY <1>2 DEF Ingest, Fails, Reply
  <2>2. ~Storable(Request)
    BY <1>2 DEF Storable
  <2>3. stage # "answered" /\ dest' = FALSE /\ Denies(1)
    BY <1>1, <2>1, <2>2 DEF Denies
  <2> QED
    BY <2>1, <2>3, DeniedAnswers DEF SeenInv
<1>3. CASE SourceOf(Request).format # "missing"
  <2>1. /\ stage' = "staging" /\ limits' = settings.limits /\ source' = SourceOf(Request)
        /\ UNCHANGED <<settings, todo, before, pipelineVars>>
    BY <1>3 DEF Ingest, StageArchive, StageDirectory, Unchanged
  <2>2. Request' = Request /\ SourceOf(Request)' = SourceOf(Request)
    BY <2>1, AskedKept
  <2>3. AskedInv'
    BY <1>1, <2>1, <2>2 DEF AskedInv
  <2> QED
    BY <2>1, <2>3 DEF AnswersInv, AnswerTellsTheStore
<1> QED
  BY <1>2, <1>3

\* What is refused, does not arrive, or is no bundle should not be stored.
LEMMA RefusalAnswers ==
  ASSUME SeenInv, RefusedAtTheGate \/ Disconnect \/ Refused \/ DiskFails \/ Invalidated
  PROVE  AnswersInv'
<1>1. CASE RefusedAtTheGate
  <2>1. /\ stage = "ready" /\ dest = FALSE /\ Shut(Request)
        /\ Respond(Gate(settings, Request.http), "gate") /\ UNCHANGED <<stored, dest>>
    BY <1>1 DEF RefusedAtTheGate, Fails, Reply, SeenInv, StoreInv, StoreIsQuiet
  <2>2. Gate(settings, Request.http) \notin {0, 200, 201}
    BY <2>1 DEF Shut, Gate
  <2>3. IsStoring(Request) => ~Storable(Request)
    BY <2>1 DEF Shut, IsHttp, IsStoring, Storable
  <2>4. ~Deletable(Request)
    BY <2>1 DEF Deletable
  <2>5. Denies(Gate(settings, Request.http))
    BY <2>2, <2>3, <2>4 DEF Denies
  <2> QED
    BY <2>1, <2>5, DeniedAnswers DEF SeenInv
<1>2. CASE Disconnect
  <2>1. /\ stage = "body" /\ dest = FALSE /\ Request.what = "upload" /\ Request.cut
    BY <1>2 DEF Disconnect, BodyEnds, SeenInv, RequestsInv, StoreInv, StoreIsQuiet
  <2>2. PICK status, of : Respond(status, of) /\ UNCHANGED stored /\ status \in {413, 400}
    BY <1>2 DEF Disconnect, Fails, Reply
  <2>3. ~Storable(Request)
    BY <2>1 DEF Storable
  <2>4. stage # "answered" /\ dest' = FALSE /\ Denies(status)
    BY <1>2, <2>1, <2>2, <2>3 DEF Disconnect, Denies
  <2> QED
    BY <2>2, <2>4, DeniedAnswers DEF SeenInv
<1>3. CASE Refused
  <2>1. /\ stage = "staging" /\ verdict \in Reasons /\ IsStoring(Request) /\ dest' = FALSE
        /\ source = SourceOf(Request) /\ limits = settings.limits
    BY <1>3 DEF Refused, SeenInv, StoreInv, AnswersInv, AskedInv
  <2>2. PICK status \in {400, 1} : Respond(status, "unsafe_archive") /\ UNCHANGED stored
    BY <1>3 DEF Refused, Fails, Reply
  <2>3. ~IsSafe(source, limits)
    BY <2>1, VerdictOf DEF SeenInv, VerdictIsOfTheSource, Reasons
  <2>4. ~Storable(Request)
    BY <2>1, <2>3 DEF Storable
  <2>5. stage # "answered" /\ dest' = FALSE /\ Denies(status)
    BY <2>1, <2>2, <2>4 DEF IsStoring, Denies
  <2> QED
    BY <2>2, <2>5, DeniedAnswers DEF SeenInv
<1>4. CASE DiskFails
  <2>1. /\ stage \in {"body", "staging"} /\ dest' = FALSE /\ faults' # 0 /\ IsStoring(Request)
    BY <1>4, RequestsAssumption DEF DiskFails, Staging, SeenInv, RequestsInv, StoreInv
  <2>2. PICK status, of : Respond(status, of) /\ UNCHANGED stored /\ status \in {507, 500, 1}
    BY <1>4 DEF DiskFails, Fails, Reply
  <2>3. stage # "answered" /\ dest' = FALSE /\ Denies(status)
    BY <2>1, <2>2 DEF IsStoring, Denies
  <2> QED
    BY <2>2, <2>3, DeniedAnswers DEF SeenInv
<1>5. CASE Invalidated
  <2>1. /\ stage = "staging" /\ verdict = "accepted" /\ IsStoring(Request) /\ dest' = FALSE
        /\ source = SourceOf(Request) /\ BundleFault(StagedTree) # NoFault
    BY <1>5 DEF Invalidated, SeenInv, StoreInv, AnswersInv, AskedInv
  <2>2. PICK status, of : Respond(status, of) /\ UNCHANGED stored /\ status \in {500, 400, 1}
    BY <1>5 DEF Invalidated, Fails, Reply, Status
  <2>3. StagedTree = TreeIn(SourceOf(Request))
    BY <2>1, StagedIsTheSource DEF SeenInv
  <2>4. ~Storable(Request)
    BY <2>1, <2>3 DEF Storable
  <2>5. stage # "answered" /\ dest' = FALSE /\ Denies(status)
    BY <2>1, <2>2, <2>4 DEF IsStoring, Denies
  <2> QED
    BY <2>2, <2>5, DeniedAnswers DEF SeenInv
<1> QED
  BY <1>1, <1>2, <1>3, <1>4, <1>5

\* A commit is of a source that should be stored, and stores its tree.
LEMMA CommitAnswers == ASSUME SeenInv, Commit PROVE AnswersInv'
<1>1. /\ stage = "staging" /\ verdict = "accepted" /\ IsStoring(Request) /\ stored = before
      /\ stored = [d \in DOMAIN stored |-> stored[d]]
      /\ stage' = "answered" /\ UNCHANGED <<settings, todo, before, pipelineVars>> /\ dest' = FALSE
  BY DEF Commit, Reply, Respond, SeenInv, StoreInv, StoreIsQuiet
<1>2. /\ Request' = Request /\ SourceOf(Request)' = SourceOf(Request)
      /\ Storable(Request)' = Storable(Request) /\ IsStoring(Request)' = IsStoring(Request)
  BY <1>1, AskedKept DEF IsStoring
<1>3. PICK src : src = SourceOf(Request)
  OBVIOUS
<1>4. /\ source = src /\ limits = settings.limits
      /\ Request.what = "upload" =>
           HeadIsInOrder(Request) /\ ~Request.cut /\ BodyBytes(Request) <= settings.upload
  BY <1>1, <1>3 DEF SeenInv, AnswersInv, AskedInv
<1>5. IsSafe(src, settings.limits)
  BY <1>1, <1>4, VerdictOf DEF SeenInv, VerdictIsOfTheSource
<1>6. src.format # "missing"
  BY <1>5 DEF IsSafe, ArchiveIsSafe, EntriesAreSafe
<1>7. PICK tree : tree = TreeIn(src)
  OBVIOUS
<1>8. StagedTree = tree
  BY <1>1, <1>4, <1>7, StagedIsTheSource DEF SeenInv
<1>9. /\ BundleFault(tree) = NoFault /\ stored' = Keeps(tree.files, [dirs |-> tree.dirs, members |-> Detected(tree)])
      /\ answer'.status = IF Request.what # "upload" THEN 0
                          ELSE IF tree.files \notin DOMAIN stored THEN 201 ELSE 200
      /\ answer'.of = IF tree.files \notin DOMAIN stored THEN "created" ELSE "duplicate"
  BY <1>8 DEF Commit, Reply, Respond, Answer
<1>10. Storable(Request)
  BY <1>3, <1>4, <1>5, <1>6, <1>7, <1>9 DEF Storable, HeadIsInOrder
<1>11. Request.what # "delete" /\ Succeeded'
  BY <1>1, <1>9 DEF IsStoring, Succeeded
<1>12. CASE tree.files \notin DOMAIN stored
  <2>1. stored' = [d \in DOMAIN before \cup {tree.files} |->
                     IF d = tree.files THEN [dirs |-> tree.dirs, members |-> Detected(tree)] ELSE before[d]]
    BY <1>1, <1>9, <1>12 DEF Keeps
  <2>2. answer'.of = "created" /\ tree.files \notin DOMAIN before'
    BY <1>1, <1>9, <1>12
  <2>3. TreeIn(SourceOf(Request)') = tree
    BY <1>2, <1>3, <1>7
  <2> QED
    BY <1>1, <1>2, <1>3, <1>7, <1>10, <1>11, <2>1, <2>2, <2>3 DEF AnswersInv, AskedInv, AnswerTellsTheStore
<1>13. CASE tree.files \in DOMAIN stored
  <2>1. stored' = stored
    <3>1. DOMAIN stored \cup {tree.files} = DOMAIN stored
      BY <1>13
    <3> QED
      BY <1>1, <1>9, <3>1 DEF Keeps
  <2>2. answer'.of = "duplicate" /\ answer'.status # 201 /\ tree.files \in DOMAIN before'
    BY <1>1, <1>9, <1>13
  <2>3. TreeIn(SourceOf(Request)') = tree
    BY <1>2, <1>3, <1>7
  <2> QED
    BY <1>1, <1>2, <1>3, <1>7, <1>10, <1>11, <2>1, <2>2, <2>3 DEF AnswersInv, AskedInv, AnswerTellsTheStore
<1> QED
  BY <1>12, <1>13

\* A delete is answered with 200 when, and only when, it should be.
LEMMA DeleteAnswers == ASSUME SeenInv, Delete PROVE AnswersInv'
<1>1. /\ Request.what = "delete" /\ stage = "ready" /\ ~Shut(Request) /\ dest = FALSE /\ dest' = FALSE
      /\ stored = before /\ todo # <<>>
  BY DEF Delete, Admitted, Asked, SeenInv, StoreInv, StoreIsQuiet
<1>2. Request.chunks \in Seq(Nat)
  BY <1>1, RequestOf, RequestsAssumption DEF SeenInv
<1>3. (DeleteFault(Request) = NoFault) <=> Deletable(Request)
  BY <1>1, <1>2, DeleteChecks DEF Deletable, Known
<1>4. ~IsStoring(Request)
  BY <1>1 DEF IsStoring
<1>5. CASE DeleteFault(Request) # NoFault
  <2>1. DeleteStatus(DeleteFault(Request)) \notin {0, 200, 201}
    BY DEF DeleteStatus
  <2>2. Respond(DeleteStatus(DeleteFault(Request)), DeleteFault(Request)) /\ UNCHANGED stored
    BY <1>5 DEF Delete, Fails, Reply
  <2>3. Denies(DeleteStatus(DeleteFault(Request)))
    BY <1>3, <1>4, <1>5, <2>1 DEF Denies
  <2> QED
    BY <1>1, <2>2, <2>3, DeniedAnswers DEF SeenInv
<1>6. CASE DeleteFault(Request) = NoFault
  <2>1. /\ stage' = "answered" /\ answer' = Answer(200, "deleted")
        /\ UNCHANGED <<settings, todo, before, pipelineVars>>
        /\ stored' = [d \in DOMAIN stored \ {Request.digest} |-> stored[d]]
    BY <1>6 DEF Delete, Reply, Respond
  <2>2. /\ Request' = Request /\ Deletable(Request)' = Deletable(Request)
        /\ IsStoring(Request)' = IsStoring(Request)
    BY <2>1, AskedKept DEF IsStoring
  <2>3. Succeeded'
    BY <2>1 DEF Succeeded, Answer
  <2> QED
    BY <1>1, <1>3, <1>4, <1>6, <2>1, <2>2, <2>3 DEF AnswersInv, AskedInv, AnswerTellsTheStore
<1> QED
  BY <1>5, <1>6

\* Raw files and derivations do not touch the store.
LEMMA OtherAnswers ==
  ASSUME SeenInv, Raw \/ DeriveMember \/ Derive \/ DeriveEnds
  PROVE  AnswersInv'
<1>1. /\ Request.what \in {"raw", "derived", "derive"} /\ stage \in {"ready", "deriving"} /\ dest = FALSE
      /\ dest' = dest /\ stored' = stored
      /\ Request.what = "derive" \/ stage = "ready"
  BY DEF Raw, DeriveMember, Derive, DeriveEnds, Admitted, Asked, Fails, Reply, SeenInv, AnswersInv, AskedInv,
         StoreInv, StoreIsQuiet
<1>2. ~IsStoring(Request) /\ Request.what # "delete"
  BY <1>1 DEF IsStoring
<1>3. CASE \E status, of : Respond(status, of)
  <2>1. \A status : Denies(status)
    BY <1>2 DEF Denies
  <2> QED
    BY <1>1, <1>3, <2>1, DeniedAnswers DEF SeenInv
<1>4. CASE Derive /\ stage' = "deriving"
  <2>1. Request.what = "derive" /\ todo' = todo
    BY <1>4 DEF Derive, Asked, Fails, Reply, Respond
  <2>2. Request' = Request
    BY <2>1 DEF Request
  <2> QED
    BY <1>4, <2>1, <2>2 DEF AnswersInv, AskedInv, AnswerTellsTheStore
<1> QED
  BY <1>3, <1>4 DEF Raw, DeriveMember, Derive, DeriveEnds, Answered, Fails, Reply

\* Staging keeps its source.
LEMMA StagingKeepsSource == ASSUME StagingNext PROVE UNCHANGED <<source, limits>>
BY DEF StagingNext, Copy, CopyFails, Refuse, RefuseEntry, SkipRoot, MakeDirectory, OpenFile, CloseFile,
       Extracted, RefuseChild, CopyDirectory, CopyFile, CloseCopy, NextDirectory, given

\* Every step of the viewer keeps the answers true.
LEMMA AnswersNext == ASSUME SeenInv, [ViewerNext]_viewerVars PROVE AnswersInv'
<1>1. CASE UNCHANGED viewerVars \/ ChildPrepares \/ StageOne
  <2>1. UNCHANGED <<requestVars, pipelineVars, source, limits>>
    BY <1>1, StagingKeepsSource DEF viewerVars, ChildPrepares, StageOne, stagingVars, given
  <2> QED
    BY <2>1, StillAnswers DEF SeenInv, requestVars
<1>2. CASE Commands \/ NextRequest
  <2>1. stage' = "ready"
    BY <1>2 DEF Commands, NextRequest, Asked, requestVars
  <2> QED
    BY <2>1 DEF AnswersInv, AskedInv, AnswerTellsTheStore
<1> QED
  BY <1>1, <1>2, UploadAnswers, ReadChunkAnswers, ExtractUploadAnswers, IngestAnswers, RefusalAnswers,
     CommitAnswers, DeleteAnswers, OtherAnswers DEF ViewerNext, RequestNext

\* The answer tells what the store is now: a bundle is stored when, and only
\* when, its source is safe as a whole and a valid bundle and the request is in
\* order (or the disk fails), and is then exactly what the source holds; a
\* delete is answered likewise; after any other answer the store is what it was,
\* and nothing is left in staging (upload_bundle, ingest_archive,
\* ingest_directory, delete_bundle).
THEOREM AnswersTellTheStore == ViewerSpec => []AnswerTellsTheStore
<1> DEFINE All == SeenInv /\ PipelineInv
<1>1. ViewerInit => All
  <2>1. ViewerInit => Empty
    BY DEF ViewerInit, StagingInit, Empty, Unstarted
  <2>2. ViewerInit => PipelineInv
    BY PipelineBegins DEF ViewerInit
  <2>3. ViewerInit => AnswersInv
    BY DEF ViewerInit, AnswersInv, AskedInv, AnswerTellsTheStore
  <2> QED
    BY <2>1, <2>2, <2>3, RequestsInitially, StoreInitially, NothingFollows, NothingCounts DEF SeenInv
<1>2. All /\ [ViewerNext]_viewerVars => All'
  BY RequestsNext, StoreNext, EntriesNext, PipelineOfViewer, VerdictNext, AnswersNext DEF SeenInv
<1>3. All => AnswerTellsTheStore
  BY DEF SeenInv, AnswersInv
<1> QED
  BY <1>1, <1>2, <1>3, PTL DEF ViewerSpec
-----------------------------------------------------------------------------
(* The pairs of a dataset *)

\* Numbers below a product, as rows and columns.
LEMMA DivisionIs ==
  ASSUME NEW m \in Nat, NEW K \in Nat, K > 0
  PROVE  m \div K \in Nat /\ m % K \in 0..(K - 1) /\ m = K * (m \div K) + (m % K)
OBVIOUS

LEMMA LowerRow ==
  ASSUME NEW K \in Nat, K > 0, NEW a \in Nat, NEW b \in Nat, a < b, NEW r \in 0..(K - 1), NEW s \in 0..(K - 1)
  PROVE  a * K + r < b * K + s
<1>1. PICK d : d = b - a
  OBVIOUS
<1>2. d \in Nat /\ d >= 1 /\ b = a + d
  BY <1>1
<1>3. b * K = a * K + d * K
  BY <1>2
<1>4. d * K >= K
  BY <1>2
<1>5. PICK x : x = a * K
  OBVIOUS
<1>6. PICK y : y = b * K
  OBVIOUS
<1>7. PICK z : z = d * K
  OBVIOUS
<1>8. x \in Int /\ y \in Int /\ z \in Int
  BY <1>2, <1>5, <1>6, <1>7
<1> QED
  BY <1>3, <1>4, <1>5, <1>6, <1>7, <1>8

LEMMA RowIsBelow ==
  ASSUME NEW V \in Nat, NEW K \in Nat, K > 0, NEW m \in Nat, m < V * K
  PROVE  m \div K \in 0..(V - 1)
<1>1. PICK q : q = m \div K
  OBVIOUS
<1>2. PICK r : r = m % K
  OBVIOUS
<1>3. q \in Nat /\ r \in 0..(K - 1) /\ m = K * q + r
  BY DivisionIs, <1>1, <1>2
<1>4. CASE V <= q
  <2>1. V = q \/ V < q
    BY <1>3, <1>4
  <2>2. 0 \in 0..(K - 1)
    OBVIOUS
  <2>3. V < q => V * K + 0 < q * K + 0
    BY <1>3, <2>2, LowerRow
  <2>4. PICK x : x = q * K
    OBVIOUS
  <2>5. PICK y : y = V * K
    OBVIOUS
  <2>6. x \in Nat /\ y \in Nat /\ m = x + r
    BY <1>3, <2>4, <2>5
  <2>7. y <= x
    BY <2>1, <2>3, <2>4, <2>5, <2>6
  <2> QED
    BY <1>3, <2>5, <2>6, <2>7
<1> QED
  BY <1>1, <1>3, <1>4

\* The row and the column of a pair determine it, and there is one of each.
Row(n, K) == ((n - 1) \div K) + 1
Column(n, K) == ((n - 1) % K) + 1
Numbered(V, K, y) ==
  /\ \A n \in 1..y : Row(n, K) \in 1..V /\ Column(n, K) \in 1..K
  /\ \A m, n \in 1..y : Row(m, K) = Row(n, K) /\ Column(m, K) = Column(n, K) => m = n
  /\ \A a \in 1..V, r \in 1..K : \E n \in 1..y : Row(n, K) = a /\ Column(n, K) = r
LEMMA RowAndColumn ==
  ASSUME NEW V \in Nat, NEW K \in Nat, K > 0, NEW y, y = V * K
  PROVE  Numbered(V, K, y)
<1>1. y = V * K
  OBVIOUS
<1>2. y \in Nat
  BY <1>1
<1>3. ASSUME NEW n \in 1..y
      PROVE  /\ Row(n, K) \in 1..V /\ Column(n, K) \in 1..K
             /\ n = K * (Row(n, K) - 1) + Column(n, K)
  <2>1. PICK m : m = n - 1
    OBVIOUS
  <2>2. m \in Nat /\ m < y /\ n = m + 1
    BY <1>2, <2>1
  <2>3. m \div K \in 0..(V - 1)
    BY <1>1, <2>2, RowIsBelow
  <2>4. m % K \in 0..(K - 1) /\ m = K * (m \div K) + (m % K)
    BY <2>2, DivisionIs
  <2>5. PICK q : q = m \div K
    OBVIOUS
  <2>6. PICK r : r = m % K
    OBVIOUS
  <2>7. PICK x : x = K * q
    OBVIOUS
  <2>8. Row(n, K) = q + 1 /\ Column(n, K) = r + 1
    BY <2>1, <2>5, <2>6 DEF Row, Column
  <2>9. Row(n, K) - 1 = q /\ q \in 0..(V - 1) /\ r \in 0..(K - 1) /\ x \in Int
    <3>1. q \in 0..(V - 1) /\ r \in 0..(K - 1)
      BY <2>3, <2>4, <2>5, <2>6
    <3>2. q \in Int /\ x \in Int
      BY <2>7, <3>1
    <3> QED
      BY <2>8, <3>1, <3>2
  <2>10. n = x + (r + 1)
    BY <2>2, <2>4, <2>5, <2>6, <2>7, <2>9
  <2>11. n = K * (Row(n, K) - 1) + Column(n, K)
    BY <2>7, <2>8, <2>9, <2>10
  <2> QED
    BY <2>8, <2>9, <2>11
<1>4. ASSUME NEW m \in 1..y, NEW n \in 1..y, Row(m, K) = Row(n, K), Column(m, K) = Column(n, K)
      PROVE  m = n
  <2>1. m = K * (Row(m, K) - 1) + Column(m, K) /\ n = K * (Row(n, K) - 1) + Column(n, K)
    BY <1>3
  <2> QED
    BY <1>4, <2>1
<1>5. ASSUME NEW a \in 1..V, NEW r \in 1..K PROVE \E n \in 1..y : Row(n, K) = a /\ Column(n, K) = r
  <2>1. PICK b : b = a - 1
    OBVIOUS
  <2>2. PICK s : s = r - 1
    OBVIOUS
  <2>3. b \in Nat /\ b < V /\ a = b + 1 /\ s \in 0..(K - 1) /\ r = s + 1 /\ 0 \in 0..(K - 1)
    BY <2>1, <2>2
  <2>4. PICK x : x = b * K
    OBVIOUS
  <2>5. x \in Nat
    BY <2>3, <2>4
  <2>6. x + s < y + 0
    BY <1>1, <2>3, <2>4, LowerRow
  <2>7. PICK m : m = x + s
    OBVIOUS
  <2>8. PICK n : n = m + 1
    OBVIOUS
  <2>9. m \in Nat /\ n \in 1..y /\ n - 1 = m
    BY <1>2, <2>3, <2>5, <2>6, <2>7, <2>8
  <2>10. PICK q : q = m \div K
    OBVIOUS
  <2>11. PICK t : t = m % K
    OBVIOUS
  <2>12. q \in Nat /\ t \in 0..(K - 1) /\ m = K * q + t
    BY <2>9, <2>10, <2>11, DivisionIs
  <2>13. PICK z : z = q * K
    OBVIOUS
  <2>14. z \in Nat /\ m = z + t
    BY <2>12, <2>13
  <2>15. q = b
    <3>1. ~(q < b)
      <4> SUFFICES ASSUME q < b PROVE FALSE
        OBVIOUS
      <4>1. z + t < x + s
        BY <2>3, <2>4, <2>12, <2>13, LowerRow
      <4> QED
        BY <2>3, <2>5, <2>7, <2>12, <2>14, <4>1
    <3>2. ~(b < q)
      <4> SUFFICES ASSUME b < q PROVE FALSE
        OBVIOUS
      <4>1. x + s < z + t
        BY <2>3, <2>4, <2>12, <2>13, LowerRow
      <4> QED
        BY <2>3, <2>5, <2>7, <2>12, <2>14, <4>1
    <3> QED
      BY <2>3, <2>12, <3>1, <3>2
  <2>16. t = s
    BY <2>3, <2>4, <2>5, <2>7, <2>12, <2>13, <2>14, <2>15
  <2>17. Row(n, K) = a /\ Column(n, K) = r
    BY <2>3, <2>9, <2>10, <2>11, <2>15, <2>16 DEF Row, Column
  <2> QED
    BY <2>9, <2>17
<1> QED
  BY <1>3, <1>4, <1>5 DEF Numbered

\* The pairs of views and stations that have ids of their own, each station in each view.
EachPairOnce(p) ==
  /\ \A m, n \in DOMAIN Pairs(p) : Pairs(p)[m] = Pairs(p)[n] => m = n
  /\ {Pairs(p)[n] : n \in DOMAIN Pairs(p)}
       = {[view |-> p.views[n].id, bs |-> p.stations[i]] : n \in DOMAIN p.views, i \in DOMAIN p.stations}
LEMMA PairsAre ==
  ASSUME NEW p, NEW V \in Nat, NEW K \in Nat, K > 0,
         Len(p.views) = V, DOMAIN p.views = 1..V, Len(p.stations) = K, DOMAIN p.stations = 1..K,
         \A n \in 1..V : \A i \in 1..K : p.views[n].bs[i].id = p.stations[i],
         \A m, n \in 1..V : p.views[m].id = p.views[n].id => m = n,
         \A i, k \in 1..K : p.stations[i] = p.stations[k] => i = k
  PROVE  EachPairOnce(p)
<1> DEFINE Pair(n, i) == [view |-> p.views[n].id, bs |-> p.stations[i]]
<1>1. PICK pairs : pairs = Pairs(p)
  OBVIOUS
<1>2. PICK y : y = V * K
  OBVIOUS
<1>3. pairs = [n \in 1..y |-> [view |-> p.views[Row(n, K)].id, bs |-> p.views[Row(n, K)].bs[Column(n, K)].id]]
  BY <1>1, <1>2 DEF Pairs, Row, Column
<1>4. Numbered(V, K, y)
  BY <1>2, RowAndColumn
<1>5. DOMAIN pairs = 1..y
  BY <1>3
<1>6. \A n \in 1..y : pairs[n] = Pair(Row(n, K), Column(n, K))
  <2>1. \A n \in 1..y : Row(n, K) \in 1..V /\ Column(n, K) \in 1..K
    BY <1>4 DEF Numbered
  <2> QED
    BY <1>3, <2>1
<1>7. \A a, b, r, s : Pair(a, r) = Pair(b, s) => p.views[a].id = p.views[b].id /\ p.stations[r] = p.stations[s]
  <2> SUFFICES ASSUME NEW a, NEW b, NEW r, NEW s, Pair(a, r) = Pair(b, s)
               PROVE  p.views[a].id = p.views[b].id /\ p.stations[r] = p.stations[s]
    OBVIOUS
  <2>1. /\ Pair(a, r).view = p.views[a].id /\ Pair(b, s).view = p.views[b].id
        /\ Pair(a, r).bs = p.stations[r] /\ Pair(b, s).bs = p.stations[s]
    OBVIOUS
  <2> QED
    BY <2>1
<1> DEFINE all == {Pair(n, i) : n \in 1..V, i \in 1..K}
<1>8. all = {[view |-> p.views[n].id, bs |-> p.stations[i]] : n \in DOMAIN p.views, i \in DOMAIN p.stations}
  OBVIOUS
<1> HIDE DEF Pair
<1>9. \A x : x \in all <=> \E n \in 1..V, i \in 1..K : x = Pair(n, i)
  OBVIOUS
<1> HIDE DEF all
<1>10. ASSUME NEW m \in 1..y, NEW n \in 1..y, pairs[m] = pairs[n] PROVE m = n
  <2>1. Pair(Row(m, K), Column(m, K)) = Pair(Row(n, K), Column(n, K))
    BY <1>6, <1>10
  <2>2. Row(m, K) \in 1..V /\ Row(n, K) \in 1..V /\ Column(m, K) \in 1..K /\ Column(n, K) \in 1..K
    BY <1>4 DEF Numbered
  <2>3. /\ p.views[Row(m, K)].id = p.views[Row(n, K)].id
        /\ p.stations[Column(m, K)] = p.stations[Column(n, K)]
    BY ONLY <1>7, <2>1
  <2>4. Row(m, K) = Row(n, K) /\ Column(m, K) = Column(n, K)
    BY <2>2, <2>3
  <2> QED
    BY <1>4, <2>4 DEF Numbered
<1>11. ASSUME NEW n \in 1..y PROVE pairs[n] \in all
  <2>1. Row(n, K) \in 1..V /\ Column(n, K) \in 1..K
    BY <1>4 DEF Numbered
  <2> QED
    BY <1>6, <1>9, <2>1
<1>12. ASSUME NEW x \in all PROVE \E n \in 1..y : x = pairs[n]
  <2>1. PICK a \in 1..V, r \in 1..K : x = Pair(a, r)
    BY ONLY <1>9, <1>12
  <2>2. PICK n \in 1..y : Row(n, K) = a /\ Column(n, K) = r
    BY ONLY <1>4, <2>1 DEF Numbered
  <2> QED
    BY ONLY <1>6, <2>1, <2>2
<1>13. {pairs[n] : n \in 1..y} = all
  BY ONLY <1>11, <1>12
<1>14. {Pairs(p)[n] : n \in DOMAIN Pairs(p)} = all
  BY ONLY <1>1, <1>5, <1>13
<1>15. \A m, n \in DOMAIN Pairs(p) : Pairs(p)[m] = Pairs(p)[n] => m = n
  BY ONLY <1>1, <1>5, <1>10
<1> QED
  BY ONLY <1>8, <1>14, <1>15 DEF EachPairOnce

\* The stations of a manifest have ids of their own, and a view has an entry for each.
LEMMA StationsAre ==
  ASSUME NEW j, IsWhole(j), StationsAreValid(j)
  PROVE  \E K \in Nat : /\ K > 0 /\ Len(Stations(j)) = K /\ DOMAIN Stations(j) = 1..K
                        /\ \A i, k \in 1..K : Stations(j)[i] = Stations(j)[k] => i = k
<1>1. PICK S : S = Stations(j)
  OBVIOUS
<1>2. CASE SchemaVersion(j) = 3
  <2>1. PICK l : l = Items(Get(j, "base_stations"))
    OBVIOUS
  <2>2. IsSeq(l) /\ l # <<>> /\ Unique(l, "bs_id")
    BY <1>2, <2>1, WholeGet, WholeItems DEF StationsAreValid
  <2>3. S = [n \in DOMAIN l |-> Get(l[n], "bs_id")]
    BY <1>1, <1>2, <2>1 DEF Stations
  <2>4. PICK K : K = Len(l)
    OBVIOUS
  <2>5. K \in Nat \ {0} /\ DOMAIN l = 1..K
    BY <2>2, <2>4, PathParts, SeqParts DEF IsPath
  <2>6. S = [n \in 1..K |-> S[n]] /\ DOMAIN S = 1..K /\ \A n \in 1..K : S[n] = Get(l[n], "bs_id")
    BY <2>3, <2>5
  <2>7. Len(S) = K
    BY <2>5, <2>6, FunctionIsSeq
  <2>8. \A i, k \in 1..K : S[i] = S[k] => i = k
    BY <2>2, <2>5, <2>6 DEF Unique
  <2> QED
    BY <1>1, <2>5, <2>6, <2>7, <2>8
<1>3. CASE SchemaVersion(j) # 3
  <2>1. PICK x : S = <<x>>
    BY <1>1, <1>3 DEF Stations
  <2>2. 1 \in Nat /\ 1 > 0 /\ Len(S) = 1 /\ DOMAIN S = 1..1 /\ \A i, k \in 1..1 : i = k
    BY <2>1
  <2> QED
    BY <1>1, <2>2
<1> QED
  BY <1>2, <1>3

LEMMA ViewHasStations ==
  ASSUME NEW j, NEW v, ViewIsValid(j, v)
  PROVE  /\ \A i \in DOMAIN Stations(j) : View(j, v).bs[i].id = Stations(j)[i]
         /\ View(j, v).id = Get(v, "view_id") /\ DOMAIN View(j, v).artifacts = ViewKeys(j, v)
<1>1. View(j, v).id = Get(v, "view_id") /\ View(j, v).bs = BsEntries(j, v)
      /\ View(j, v).artifacts = Paths(Get(v, "artifacts"), ViewKeys(j, v))
  BY DEF View
<1>2. DOMAIN View(j, v).artifacts = ViewKeys(j, v)
  BY <1>1 DEF Paths
<1>3. PICK S : S = Stations(j)
  OBVIOUS
<1>4. PICK b : b = BsEntries(j, v)
  OBVIOUS
<1>5. CASE SchemaVersion(j) = 3
  <2>1. PICK bs : bs = Items(Get(v, "bs"))
    OBVIOUS
  <2>2. [n \in DOMAIN bs |-> Get(bs[n], "bs_id")] = S
    BY <1>3, <1>5, <2>1 DEF ViewIsValid
  <2>3. b = [n \in DOMAIN bs |-> [id |-> Get(bs[n], "bs_id"), energy |-> Get(bs[n], "hemisphere_energy").m,
                                  artifacts |-> Paths(Get(bs[n], "artifacts"), Keys(Get(bs[n], "artifacts")))]]
    BY <1>4, <1>5, <2>1 DEF BsEntries
  <2>4. DOMAIN S = DOMAIN bs /\ \A n \in DOMAIN bs : S[n] = Get(bs[n], "bs_id")
    BY <2>2
  <2>5. \A n \in DOMAIN bs : b[n].id = Get(bs[n], "bs_id")
    BY <2>3
  <2>6. \A n \in DOMAIN S : b[n].id = S[n]
    BY <2>4, <2>5
  <2> QED
    BY <1>1, <1>2, <1>3, <1>4, <2>6
<1>6. CASE SchemaVersion(j) # 3
  <2>1. PICK x : S = <<x>>
    BY <1>3, <1>6 DEF Stations
  <2>2. PICK y : b = <<y>> /\ y.id = S[1]
    BY <1>3, <1>4, <1>6 DEF BsEntries
  <2>3. DOMAIN S = {1} /\ b[1].id = S[1]
    BY <2>1, <2>2
  <2>4. \A n \in DOMAIN S : b[n].id = S[n]
    BY <2>3
  <2> QED
    BY <1>1, <1>2, <1>3, <1>4, <2>4
<1> QED
  BY <1>5, <1>6

\* The pairs of a manifest without a fault are complete.
LEMMA PairsComplete ==
  ASSUME NEW j, IsWhole(j), ManifestFault(j) = NoFault
  PROVE  PairsAreComplete(Parsed(j))
<1>1. StationsAreValid(j) /\ ViewsAreValid(j)
  BY NoManifestFault
<1>2. PICK K \in Nat : /\ K > 0 /\ Len(Stations(j)) = K /\ DOMAIN Stations(j) = 1..K
                       /\ \A i, k \in 1..K : Stations(j)[i] = Stations(j)[k] => i = k
  BY <1>1, StationsAre
<1>3. PICK p : p = Parsed(j)
  OBVIOUS
<1>4. PICK l : l = Items(Get(j, "views"))
  OBVIOUS
<1>5. p.stations = Stations(j) /\ p.version = SchemaVersion(j) /\ p.views = [n \in DOMAIN l |-> View(j, l[n])]
  BY <1>3, <1>4 DEF Parsed
<1>6. IsSeq(l)
  BY <1>4, WholeGet, WholeItems
<1>7. PICK V : V = Len(l)
  OBVIOUS
<1>8. V \in Nat /\ DOMAIN l = 1..V
  BY <1>6, <1>7, SeqParts
<1>9. DOMAIN p.views = 1..V /\ \A n \in 1..V : p.views[n] = View(j, l[n])
  BY <1>5, <1>8
<1>10. p.views = [n \in 1..V |-> p.views[n]]
  BY <1>5, <1>8, <1>9
<1>11. Len(p.views) = V
  BY <1>8, <1>10, FunctionIsSeq
<1>12. \A n \in 1..V : ViewIsValid(j, l[n])
  BY <1>1, <1>4, <1>8 DEF ViewsAreValid
<1>13. ASSUME NEW n \in 1..V
       PROVE  /\ \A i \in 1..K : p.views[n].bs[i].id = p.stations[i]
              /\ p.views[n].id = Get(l[n], "view_id") /\ DOMAIN p.views[n].artifacts = ViewKeys(j, l[n])
  <2>1. ViewIsValid(j, l[n]) /\ p.views[n] = View(j, l[n])
    BY <1>9, <1>12
  <2> QED
    BY <1>2, <1>5, <2>1, ViewHasStations
<1>14. \A m, n \in 1..V : p.views[m].id = p.views[n].id => m = n
  BY <1>1, <1>4, <1>8, <1>13 DEF ViewsAreValid, Unique
<1>15. EachPairOnce(p)
  <2>1. /\ K \in Nat /\ K > 0 /\ V \in Nat /\ Len(p.views) = V /\ DOMAIN p.views = 1..V
        /\ Len(p.stations) = K /\ DOMAIN p.stations = 1..K
    BY <1>2, <1>5, <1>8, <1>9, <1>11
  <2>2. \A n \in 1..V : \A i \in 1..K : p.views[n].bs[i].id = p.stations[i]
    BY <1>13
  <2>3. \A i, k \in 1..K : p.stations[i] = p.stations[k] => i = k
    BY <1>2, <1>5
  <2> QED
    BY ONLY <2>1, <2>2, <2>3, <1>14, PairsAre
<1>16. ASSUME p.version = 2, NEW n \in DOMAIN p.views, NEW i
       PROVE  DOMAIN p.views[n].artifacts \cap DOMAIN p.views[n].bs[i].artifacts \cap PerBsArtifacts = {}
  <2>1. DOMAIN p.views[n].artifacts = ViewKeys(j, l[n]) /\ SchemaVersion(j) = 2
    BY <1>5, <1>9, <1>13, <1>16
  <2>2. ViewKeys(j, l[n]) \cap PerBsArtifacts = {}
    BY <2>1 DEF ViewKeys
  <2> QED
    BY <2>1, <2>2
<1>17. PairsAreComplete(p)
  <2>1. p.version = 2 => \A n \in DOMAIN p.views : \A i \in DOMAIN p.views[n].bs :
           DOMAIN p.views[n].artifacts \cap DOMAIN p.views[n].bs[i].artifacts \cap PerBsArtifacts = {}
    BY <1>16
  <2> QED
    BY ONLY <1>15, <2>1 DEF PairsAreComplete, EachPairOnce
<1> QED
  BY <1>3, <1>17
-----------------------------------------------------------------------------
(* The members of what is stored *)

\* What a stored bundle holds is sound.
StoredIsSound == \A d \in DOMAIN stored : HasSound(d)

\* What the commands leave is sound, with the bundle.json that is put beside it.
LEMMA BundleJsonIsSound == IsSound(BundleJson)
<1> DEFINE entry(id, kind) == Map([id |-> Text(id), kind |-> Text(kind), path |-> Text(id)])
<1>1. \A id, kind : IsWhole(entry(id, kind))
  <2> SUFFICES ASSUME NEW id, NEW kind PROVE IsWhole(entry(id, kind))
    OBVIOUS
  <2>1. PICK a : a = Text(id)
    OBVIOUS
  <2>2. PICK b : b = Text(kind)
    OBVIOUS
  <2>3. PICK f : f = [id |-> a, kind |-> b, path |-> a]
    OBVIOUS
  <2>4. \A k \in DOMAIN f : f[k] = a \/ f[k] = b
    BY <2>3
  <2>5. IsWhole(Map(f))
    BY <2>1, <2>2, <2>4, WholeText, WholeMap
  <2> QED
    BY <2>1, <2>2, <2>3, <2>5
<1>2. PICK a : a = entry("dataset", "rf_dataset")
  OBVIOUS
<1>3. PICK b : b = entry("partial", "rf_partial")
  OBVIOUS
<1>4. IsWhole(a) /\ IsWhole(b)
  BY <1>1, <1>2, <1>3
<1>5. PICK s : s = <<a, b>>
  OBVIOUS
<1>6. s \in Seq({a, b}) /\ \A n \in DOMAIN s : s[n] = a \/ s[n] = b
  BY <1>5
<1>7. IsWhole(List(s))
  BY <1>4, <1>6, SeqIsSeq, WholeList
<1>8. PICK one : one = Whole(1)
  OBVIOUS
<1>9. IsWhole(one)
  BY <1>8, WholeNumbers
<1>10. PICK members : members = List(s)
  OBVIOUS
<1>11. PICK f : f = [bundle_format_version |-> one, members |-> members]
  OBVIOUS
<1>12. \A k \in DOMAIN f : f[k] = one \/ f[k] = members
  BY <1>11
<1>13. IsWhole(Map(f))
  BY <1>7, <1>9, <1>10, <1>12, WholeTwo
<1>14. BundleJson = JsonFile(Map(f))
  BY <1>2, <1>3, <1>5, <1>8, <1>10, <1>11 DEF BundleJson
<1> QED
  BY <1>13, <1>14, PlainIsSound

LEMMA PipelineIsSound == ASSUME PipelineInv PROVE HasSound(PipelineTree.files)
<1>1. ASSUME NEW name, NEW files, AreFiles(files), HasSound(files) PROVE HasSound(InDirectory(name, files))
  <2>1. PICK f : f = InDirectory(name, files)
    OBVIOUS
  <2>2. DOMAIN f = {<<name>> \o q : q \in DOMAIN files} /\ \A p \in DOMAIN f : f[p] = files[Tail(p)]
    BY <2>1 DEF InDirectory
  <2>3. ASSUME NEW p \in DOMAIN f PROVE IsSound(f[p])
    <3>1. PICK q \in DOMAIN files : p = <<name>> \o q
      BY <2>2
    <3>2. Tail(p) = q
      BY <1>1, <3>1, TailOfJoined DEF AreFiles, IsPath
    <3> QED
      BY <1>1, <2>2, <3>1, <3>2 DEF HasSound
  <2> QED
    BY <2>1, <2>3 DEF HasSound
<1>2. CASE partial = <<>>
  BY <1>2 DEF PipelineTree, AsTree, PipelineInv
<1>3. CASE partial # <<>>
  <2>1. PICK first : first = InDirectory("dataset", dataset)
    OBVIOUS
  <2>2. PICK second : second = InDirectory("partial", partial)
    OBVIOUS
  <2>3. HasSound(first) /\ HasSound(second)
    BY <1>1, <2>1, <2>2 DEF PipelineInv
  <2>4. PICK files : files = [p \in DOMAIN first \cup DOMAIN second \cup {<<"bundle.json">>} |->
                               IF p \in DOMAIN first THEN first[p] ELSE IF p \in DOMAIN second THEN second[p] ELSE BundleJson]
    OBVIOUS
  <2>5. Workspace = AsTree(files)
    BY <2>1, <2>2, <2>4 DEF Workspace
  <2>6. HasSound(files)
    BY <2>3, <2>4, BundleJsonIsSound DEF HasSound
  <2> QED
    BY <1>3, <2>5, <2>6 DEF PipelineTree, AsTree
<1> QED
  BY <1>2, <1>3

\* So is what was staged of a source that is accepted.
LEMMA SourceIsSound ==
  ASSUME SeenInv, PipelineInv, stage = "staging", verdict = "accepted"
  PROVE  HasSound(source.contents)
<1>1. source = SourceOf(Request) /\ IsStoring(Request)
  BY DEF SeenInv, AnswersInv, AskedInv, StoreInv
<1>2. CASE Request.what = "workspace"
  <2>1. source.contents = PipelineTree.files
    BY <1>1, <1>2 DEF SourceOf, ListingOf
  <2> QED
    BY <2>1, PipelineIsSound
<1>3. CASE Request.what # "workspace"
  <2>1. source = Request.source /\ Request.what \in {"upload", "ingest"}
    BY <1>1, <1>3 DEF SourceOf, IsStoring
  <2>2. IsSafe(source, limits)
    BY VerdictOf DEF VerdictIsOfTheSource, SeenInv
  <2>3. source.format \in {"zip", "tar", "directory"}
    BY <2>2 DEF IsSafe, ArchiveIsSafe, EntriesAreSafe
  <2>4. Request \in AllRequests
    BY RequestOf DEF SeenInv, RequestsInv
  <2>5. \A path \in DOMAIN source.contents : IsReadable(source.contents[path])
    BY <2>1, <2>3, <2>4, RequestsAssumption
  <2> QED
    BY <2>5, ReadableIsSound DEF HasSound
<1> QED
  BY <1>2, <1>3

LEMMA StagedIsSound ==
  ASSUME SeenInv, PipelineInv, stage = "staging", verdict = "accepted"
  PROVE  HasSound(StagedTree.files)
<1>1. HasSound(source.contents)
  BY SourceIsSound
<1>2. \A path : IsSound(ContentIn(source, path))
  BY <1>1, PlainIsSound DEF ContentIn, HasSound
<1>3. PICK P : StagedTree.files = [p \in P |-> ContentIn(source, BundleRoot \o p)]
  BY DEF StagedTree
<1> QED
  BY <1>2, <1>3 DEF HasSound

\* A request adds what it has staged, or nothing.
LEMMA StoredStaysSound ==
  ASSUME SeenInv, PipelineInv, StoredIsSound, [ViewerNext]_viewerVars
  PROVE  StoredIsSound'
<1>1. CASE Commit
  <2>1. stage = "staging" /\ verdict = "accepted"
    BY <1>1 DEF Commit
  <2>2. PICK t : t = StagedTree
    OBVIOUS
  <2>3. stored' = Keeps(t.files, [dirs |-> t.dirs, members |-> Detected(t)])
    BY <1>1, <2>2 DEF Commit
  <2>4. DOMAIN stored' = DOMAIN stored \cup {t.files}
    BY <2>3 DEF Keeps
  <2>5. HasSound(t.files)
    BY <2>1, <2>2, StagedIsSound
  <2> QED
    BY <2>4, <2>5 DEF StoredIsSound
<1>2. CASE Delete
  <2>1. UNCHANGED stored \/ DOMAIN stored' = DOMAIN stored \ {Request.digest}
    BY <1>2 DEF Delete, Fails
  <2> QED
    BY <2>1 DEF StoredIsSound
<1>3. CASE UNCHANGED stored
  BY <1>3 DEF StoredIsSound
<1>4. CASE UNCHANGED viewerVars \/ Commands \/ StageOne \/ ChildPrepares
  BY <1>3, <1>4 DEF viewerVars, requestVars, Commands, StageOne, ChildPrepares
<1>5. CASE RefusedAtTheGate \/ Disconnect \/ Raw \/ DeriveEnds \/ Refused \/ DiskFails \/ Invalidated
  BY <1>3, <1>5 DEF RefusedAtTheGate, Disconnect, Raw, DeriveEnds, Refused, DiskFails, Invalidated, Fails
<1>6. CASE Upload \/ ReadChunk \/ ExtractUpload \/ Ingest \/ NextRequest
  BY <1>3, <1>6 DEF Upload, ReadChunk, ExtractUpload, Ingest, NextRequest, Fails
<1>7. CASE DeriveMember \/ Derive
  BY <1>3, <1>7 DEF DeriveMember, Derive, Fails
<1> QED
  BY <1>1, <1>2, <1>4, <1>5, <1>6, <1>7 DEF ViewerNext, RequestNext

\* A file of a member is what the raw route of the member serves.
LEMMA FileIsServed ==
  ASSUME NEW d \in DOMAIN stored, NEW n \in DOMAIN stored[d].members,
         \A k \in DOMAIN stored[d].members : k # n => stored[d].members[k].id # stored[d].members[n].id,
         IsSeq(MemberPlace(stored[d].members[n])),
         NEW file, IsFile(TreeOf(d), file), FileAt(MemberPlace(stored[d].members[n]), file)
  PROVE  Serves(d, stored[d].members[n], file)
<1>1. PICK ms : ms = stored[d].members
  OBVIOUS
<1>2. PICK m : m = ms[n]
  OBVIOUS
<1>3. PICK dir : dir = MemberDirectory(m)
  OBVIOUS
<1>4. dir = MemberPlace(m)
  BY <1>3 DEF MemberDirectory, MemberPlace
<1>5. IsSeq(dir) /\ FileAt(dir, file)
  BY <1>1, <1>2, <1>4
<1>6. PICK rel : IsProper(rel) /\ file = dir \o rel
  BY <1>5 DEF FileAt
<1>7. SubSeq(file, Len(dir) + 1, Len(file)) = rel
  BY <1>5, <1>6, AfterPath DEF IsProper
<1>8. rel # Unsafe /\ (Absolute(rel) \/ Resolve(rel) = rel)
  BY <1>6, ProperIsResolved
<1>9. CASE Absolute(rel)
  BY <1>1, <1>2, <1>3, <1>7, <1>9 DEF Serves
<1>10. CASE Resolve(rel) = rel
  <2>1. PICK hits : hits = {k \in DOMAIN ms : ms[k].id = m.id}
    OBVIOUS
  <2>2. hits = {n}
    BY <1>1, <1>2, <2>1
  <2>3. hits # {} /\ (CHOOSE k \in hits : TRUE) = n
    BY <2>2
  <2>4. IsFile(TreeOf(d), MemberDirectory(ms[CHOOSE k \in hits : TRUE]) \o Resolve(rel))
    BY <1>2, <1>3, <1>6, <1>10, <2>3
  <2>5. Resolve(rel) # Unsafe
    BY <1>8, <1>10
  <2>6. RawStatus(d, m.id, rel) = 200
    BY <1>1, <2>1, <2>3, <2>4, <2>5 DEF RawStatus
  <2> QED
    BY <1>1, <1>2, <1>3, <1>7, <2>6 DEF Serves
<1> QED
  BY <1>8, <1>9, <1>10

\* What passed validation has members that fit together.
LEMMA ValidMembersFit ==
  ASSUME StoredIsValid, StoredIsSound, NEW d \in DOMAIN stored
  PROVE  MembersFit(d)
<1>1. PICK t : t = TreeOf(d)
  OBVIOUS
<1>2. PICK ms : ms = stored[d].members
  OBVIOUS
<1>3. HasSound(t.files) /\ BundleFault(t) = NoFault /\ ms = Detected(t)
  BY <1>1, <1>2 DEF StoredIsValid, StoredIsSound, TreeOf
<1>4. /\ MembersAgree(ms)
      /\ \A n \in DOMAIN ms :
           /\ IsSeq(MemberPlace(ms[n]))
           /\ \A file \in MemberFiles(t, ms[n]) : IsFile(t, file) /\ FileAt(MemberPlace(ms[n]), file)
           /\ ms[n].kind = "rf_dataset" => IsWhole(ManifestOf(t, ms[n])) /\ ManifestFault(ManifestOf(t, ms[n])) = NoFault
  BY ONLY <1>3, BundleIsThere
<1>5. \A m, n \in DOMAIN ms : m # n =>
        /\ ms[m].id # ms[n].id
        /\ "scene" \notin {ms[m].kind, ms[n].kind} => ms[m].path # ms[n].path /\ ~Inside(ms[m].path, ms[n].path)
        /\ Missing(ms[m].for) \/ ms[m].for # ms[n].for
  BY <1>4 DEF MembersAgree
<1>6. ASSUME NEW n \in DOMAIN ms PROVE \A file \in MemberFiles(t, ms[n]) : Serves(d, ms[n], file)
  <2> SUFFICES ASSUME NEW file \in MemberFiles(t, ms[n]) PROVE Serves(d, ms[n], file)
    OBVIOUS
  <2>1. IsSeq(MemberPlace(ms[n])) /\ IsFile(t, file) /\ FileAt(MemberPlace(ms[n]), file)
    BY <1>4
  <2>2. \A k \in DOMAIN ms : k # n => ms[k].id # ms[n].id
    BY <1>5
  <2> QED
    BY <1>1, <1>2, <2>1, <2>2, FileIsServed
<1>7. ASSUME NEW n \in DOMAIN ms, ms[n].kind = "rf_dataset" PROVE PairsAreComplete(Parsed(ManifestOf(t, ms[n])))
  BY <1>4, <1>7, PairsComplete
<1>8. \A n \in DOMAIN ms : /\ Missing(ms[n].for) \/ DatasetAmong(ms, ms[n].for)
                           /\ Missing(ms[n].source) \/ DatasetAmong(ms, ms[n].source)
  BY <1>4 DEF MembersAgree
<1>9. \A n \in DOMAIN ms :
        /\ (Missing(ms[n].for) \/ DatasetAmong(ms, ms[n].for)) /\ (Missing(ms[n].source) \/ DatasetAmong(ms, ms[n].source))
        /\ \A file \in MemberFiles(t, ms[n]) : Serves(d, ms[n], file)
        /\ ms[n].kind = "rf_dataset" => PairsAreComplete(Parsed(ManifestOf(t, ms[n])))
  BY ONLY <1>6, <1>7, <1>8
<1> QED
  BY ONLY <1>1, <1>2, <1>5, <1>9 DEF MembersFit, DatasetAmong

\* The members of every stored bundle fit together, whoever laid it out and
\* whatever is in its files: ids of their own, separate directories, links that
\* lead to a dataset, files that are there and are served, and pairs that are
\* complete (detect_members, validate_member, get_raw_file, parse_dataset_manifest).
THEOREM StoredFits == ViewerSpec => []StoredIsConsistent
<1> DEFINE All == SeenInv /\ PipelineInv /\ StoredIsSound
<1>1. ViewerInit => All
  <2>1. ViewerInit => Empty
    BY DEF ViewerInit, StagingInit, Empty, Unstarted
  <2>2. ViewerInit => PipelineInv
    BY PipelineBegins DEF ViewerInit
  <2>3. ViewerInit => AnswersInv
    BY DEF ViewerInit, AnswersInv, AskedInv, AnswerTellsTheStore
  <2>4. ViewerInit => StoredIsSound
    <3>1. ViewerInit => stored = <<>>
      BY DEF ViewerInit
    <3>2. DOMAIN <<>> = {}
      OBVIOUS
    <3> QED
      BY ONLY <3>1, <3>2 DEF StoredIsSound
  <2> QED
    BY <2>1, <2>2, <2>3, <2>4, RequestsInitially, StoreInitially, NothingFollows, NothingCounts DEF SeenInv
<1>2. All /\ [ViewerNext]_viewerVars => All'
  BY RequestsNext, StoreNext, EntriesNext, PipelineOfViewer, VerdictNext, AnswersNext, StoredStaysSound DEF SeenInv
<1>3. All => StoredIsConsistent
  BY ValidMembersFit DEF SeenInv, StoreInv, StoredIsConsistent
<1> QED
  BY <1>1, <1>2, <1>3, PTL DEF ViewerSpec
=============================================================================
