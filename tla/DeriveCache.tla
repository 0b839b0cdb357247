---------------------------- MODULE DeriveCache -----------------------------
(***************************************************************************)
(* The cache of derived results (plateau_rt/viewer/derive/__init__.py) and *)
(* the route that serves its files: lookups, derivations and file requests *)
(* of one member, deriver and parameter combination of the bundle `Own`,   *)
(* in threads and processes that share no lock, while bundles are          *)
(* committed and deleted beside them.                                      *)
(*                                                                         *)
(* A derivation links to `NLinks` files, each found by its sha256 in the   *)
(* bundles `HoldersOf[i]`, once in each; the key of a result is the         *)
(* sequence of tokens they resolve to (the token "self" is the digest Own). *)
(* A result is determined by its key, so one state stands for its bytes. An *)
(* entry's order by updated_at is left open: candidates are tried in any    *)
(* order. The records of a file come ordered by digest, a hash: in any      *)
(* order too. The wall clock behind created_at is taken to be monotonic.    *)
(***************************************************************************)
EXTENDS Naturals, Sequences, FiniteSets

CONSTANTS
  Digests, Own, Procs,
  NLinks, HoldersOf,  \* the bundles that hold the i-th linked file
  NoLink,             \* the token of a link that resolves to nothing
  Initially,          \* the bundles stored at the start, oldest first
  Cached,             \* what may be there then of earlier calls: sets of keys
  MaxCalls, MaxChanges, MaxFaults  \* bounds

ASSUME LinksAssumption ==
  /\ Own \in Digests /\ NoLink \notin Digests
  /\ NLinks \in Nat \ {0} /\ HoldersOf \in [1..NLinks -> SUBSET Digests]
  /\ Initially \in Seq(Digests)
  /\ \A m, n \in DOMAIN Initially : Initially[m] = Initially[n] => m = n
Limit == [calls |-> MaxCalls, changes |-> MaxChanges, faults |-> MaxFaults]
ASSUME BoundsAssumption == Limit \in [{"calls", "changes", "faults"} -> Nat]

VARIABLES
  created,   \* created_at of each digest's row in `bundles`, 0 for no row
  dirs,      \* digests whose directory is under bundles/
  home,      \* the directory .../<params_key> that holds the results exists
  final,     \* keys whose result directory is in its place
  derived,   \* status of each key's row in `derived`
  pc, mode, got, cands, staged,  \* of each process
  answer,    \* what its last call returned
  seen,      \* auxiliary: `created` at each instant of the call it changed, in order
  used

disk == <<created, dirs, home, final, derived>>
vars == <<disk, pc, mode, got, cands, staged, answer, seen, used>>

Links == 1..NLinks
Tokens == Digests \cup {NoLink}
\* links_key: tokens that are all "none" give "nolink", however many they are.
Key(tokens) == IF \A i \in DOMAIN tokens : tokens[i] = NoLink THEN <<>> ELSE tokens
Keys == {Key(t) : t \in UNION {[1..n -> Tokens] : n \in 0..NLinks}}
Statuses == {"none", "ready", "failed"}

\* What a call has of its links: the tokens so far and the key it looks for; and
\* of the link under way, the records still to be read and the bundles read.
Gotten == [tokens : Seq(Tokens), want : Keys, found : SUBSET Digests, held : [Digests -> Nat]]
Nothing == [d \in Digests |-> 0]
Fresh(tokens, want) == [tokens |-> tokens, want |-> want, found |-> {}, held |-> Nothing]

LookupPoints == {"open", "space", "record", "rows", "pick", "resolve", "get", "files"}
DerivePoints == {"context", "link", "fetch", "compute", "fail", "stage", "parents", "swap", "away",
                 "publish", "index"}
FilePoints == {"url", "row", "meta", "send"}
Points == {"idle"} \cup LookupPoints \cup DerivePoints \cup FilePoints
StagingPoints == {"parents", "swap", "away", "publish"}  \* the call owns a directory under staging/
Outcomes == {"none", "hit", "miss", "derived", "file", "gone", "missing", "bad", "failed", "error"}

TypeOK ==
  /\ created \in [Digests -> Nat] /\ dirs \subseteq Digests /\ home \in BOOLEAN
  /\ final \subseteq Keys /\ derived \in [Keys -> Statuses]
  /\ pc \in [Procs -> Points]
  /\ mode \in [Procs -> {"lookup", "derive", "file"}]
  /\ got \in [Procs -> Gotten]
  /\ cands \in [Procs -> SUBSET Keys]
  /\ answer \in [Procs -> [is : Outcomes, key : Keys]]
  /\ seen \in [Procs -> Seq([Digests -> Nat])]
  /\ used \in [DOMAIN Limit -> Nat]
  \* Nothing is left in staging/ of a call that is over, unless the process
  \* was killed.
  /\ staged \subseteq Procs
  /\ \A p \in staged : pc[p] \in StagingPoints
  /\ (home => Own \in dirs) /\ (final # {} => home)

-----------------------------------------------------------------------------
IsStored(d) == created[d] # 0

Position(d) == CHOOSE n \in DOMAIN Initially : Initially[n] = d
FirstStored == {Initially[n] : n \in DOMAIN Initially}
ASSUME CachedAssumption ==
  Cached \subseteq SUBSET Keys /\ \A keys \in Cached : keys # {} => Own \in FirstStored
Init ==
  /\ created = [d \in Digests |-> IF d \in FirstStored THEN Position(d) ELSE 0]
  /\ dirs = FirstStored
  /\ final \in Cached /\ home = (final # {})
  /\ derived = [k \in Keys |-> IF k \in final THEN "ready" ELSE "none"]
  /\ pc = [p \in Procs |-> "idle"] /\ mode = [p \in Procs |-> "lookup"]
  /\ got = [p \in Procs |-> Fresh(<<>>, <<>>)]
  /\ cands = [p \in Procs |-> {}] /\ staged = {}
  /\ answer = [p \in Procs |-> [is |-> "none", key |-> <<>>]]
  /\ seen = [p \in Procs |-> <<>>]
  /\ used = [b \in DOMAIN Limit |-> 0]

Spend(b) == used[b] < Limit[b] /\ used' = [used EXCEPT ![b] = @ + 1]
At(p, point) == pc[p] = point
Goto(p, point) == pc' = [pc EXCEPT ![p] = point]
\* What the call knew is gone with it; its instants stay with what they are about.
Return(p, is, key) ==
  /\ Goto(p, "idle") /\ answer' = [answer EXCEPT ![p] = [is |-> is, key |-> key]]
  /\ got' = [got EXCEPT ![p] = Fresh(<<>>, <<>>)] /\ cands' = [cands EXCEPT ![p] = {}]
  /\ seen' = [seen EXCEPT ![p] = IF is \in {"hit", "derived"} THEN @ ELSE <<>>]
\* A step that only moves the process on.
Move(p, from, to) ==
  /\ At(p, from) /\ Goto(p, to)
  /\ UNCHANGED <<disk, mode, got, cands, staged, answer, seen, used>>
\* A step that only ends the call.
End(p, is, key) ==
  /\ Return(p, is, key) /\ UNCHANGED <<disk, mode, staged>>

-----------------------------------------------------------------------------
(* lookup_cached and the first half of get_or_derive *)

Call(p, m) ==
  /\ At(p, "idle") /\ Spend("calls")
  /\ Goto(p, "open") /\ mode' = [mode EXCEPT ![p] = m]
  /\ answer' = [answer EXCEPT ![p] = [is |-> "none", key |-> <<>>]]
  /\ seen' = [seen EXCEPT ![p] = <<created>>]
  /\ UNCHANGED <<disk, got, cands, staged>>

\* open_context, then validate_params, whose param_space may read the bundle.
Open(p) == IsStored(Own) /\ Move(p, "open", "space")
OpenMissing(p) == At(p, "open") /\ ~IsStored(Own) /\ End(p, "missing", <<>>) /\ UNCHANGED used
Space(p) == Move(p, "space", "record")
SpaceError(p) == At(p, "space") /\ Own \notin dirs /\ End(p, "error", <<>>) /\ UNCHANGED used

\* No cached result: a lookup answers so (the route queues a job), a child or
\* the derive command goes on to derive.
Missed(p) ==
  /\ IF mode[p] = "derive" THEN Goto(p, "context") /\ UNCHANGED <<answer, got, cands, seen>>
     ELSE Return(p, "miss", <<>>)
  /\ UNCHANGED <<disk, mode, staged, used>>
Record(p) == IsStored(Own) /\ Move(p, "record", "rows")
RecordMissing(p) == At(p, "record") /\ ~IsStored(Own) /\ Missed(p)
Rows(p) ==
  /\ At(p, "rows") /\ Goto(p, "pick")
  /\ cands' = [cands EXCEPT ![p] = {k \in Keys : derived[k] = "ready"}]
  /\ UNCHANGED <<disk, mode, got, staged, answer, seen, used>>
NoRowLeft(p) == At(p, "pick") /\ cands[p] = {} /\ Missed(p)
\* _read_meta: the links are read from the entry's own record.
Pick(p) ==
  /\ At(p, "pick")
  /\ \E k \in cands[p] :
       /\ cands' = [cands EXCEPT ![p] = @ \ {k}]
       /\ \/ k \in final /\ Goto(p, "resolve") /\ got' = [got EXCEPT ![p] = Fresh(<<>>, k)]
          \/ k \notin final /\ UNCHANGED <<pc, got>>
  /\ UNCHANGED <<disk, mode, staged, answer, seen, used>>

\* _resolve_link of the next link, in the order of the record or of the deriver.
\* find_by_file_sha256: one query for the stored bundles that hold the file ...
NextLink(p) == Len(got[p].tokens) + 1
Holding(i) == {d \in HoldersOf[i] : IsStored(d)}
Find(p) ==
  /\ \/ At(p, "resolve") /\ Goto(p, "get")
     \/ At(p, "link") /\ Goto(p, "fetch")
  /\ got' = [got EXCEPT ![p] = [@ EXCEPT !.found = Holding(NextLink(p)), !.held = Nothing]]
  /\ UNCHANGED <<disk, mode, cands, staged, answer, seen, used>>
\* ... then store.get for each of them, which passes over one deleted since ...
Read(has, d) == [has EXCEPT !.found = has.found \ {d}, !.held[d] = created[d]]
GetRecord(p) ==
  /\ pc[p] \in {"get", "fetch"}
  /\ \E d \in got[p].found : got' = [got EXCEPT ![p] = Read(@, d)]
  /\ UNCHANGED <<disk, pc, mode, cands, staged, answer, seen, used>>
\* ... and the own bundle, or else the one registered first, of those it has.
Precedes(at, d, e) == d # e /\ at[d] # 0 /\ (d = Own \/ (e # Own /\ at[d] < at[e]))
Chosen(at, t) ==
  \/ t = NoLink /\ \A d \in Digests : at[d] = 0
  \/ t \in Digests /\ at[t] # 0 /\ \A d \in Digests : ~Precedes(at, d, t)
HasTokens(p, tokens) == got' = [got EXCEPT ![p] = Fresh(tokens, @.want)]
Resolves(p, t) ==
  got[p].found = {} /\ Chosen(got[p].held, t) /\ HasTokens(p, Append(got[p].tokens, t))

\* Mutant: the recorded tokens are taken as they are.
TrustsMeta(p, tokens) == TRUE
Matches(p, tokens) == Key(tokens) = got[p].want
\* Each recorded target is resolved again, one after the other.
ResolveNext(p) ==
  /\ At(p, "get")
  /\ \E t \in Tokens :
       /\ Resolves(p, t)
       /\ Goto(p, IF NextLink(p) < NLinks THEN "resolve"
                  ELSE IF Matches(p, Append(got[p].tokens, t)) THEN "files" ELSE "pick")
  /\ UNCHANGED <<disk, mode, cands, staged, answer, seen, used>>
Hit(p) ==
  /\ At(p, "files") /\ got[p].want \in final
  /\ End(p, "hit", got[p].want) /\ UNCHANGED used
FilesGone(p) == got[p].want \notin final /\ Move(p, "files", "pick")

-----------------------------------------------------------------------------
(* _derive_and_store *)

ResultKey(p) == Key(got[p].tokens)
Context(p) ==
  /\ At(p, "context") /\ IsStored(Own)
  /\ Goto(p, "link") /\ HasTokens(p, <<>>)
  /\ UNCHANGED <<disk, mode, cands, staged, answer, seen, used>>
ContextMissing(p) == At(p, "context") /\ ~IsStored(Own) /\ End(p, "missing", <<>>) /\ UNCHANGED used
\* DeriveContext.link, called by the deriver.
Link(p) ==
  /\ At(p, "fetch")
  /\ \E t \in Tokens : Resolves(p, t)
  /\ Goto(p, IF NextLink(p) = NLinks THEN "compute" ELSE "link")
  /\ UNCHANGED <<disk, mode, cands, staged, answer, seen, used>>
\* The deriver reads its own bundle and the linked ones, whose files may be gone.
Readable(p) == \A d \in {Own} \cup {got[p].tokens[i] : i \in DOMAIN got[p].tokens} : d \in dirs \cup {NoLink}
Compute(p) == Readable(p) /\ Move(p, "compute", "stage")
BadParams(p) == At(p, "compute") /\ Spend("faults") /\ End(p, "bad", <<>>)
\* It raises, or its outputs cannot be encoded, perhaps before its last link.
ComputeFails(p) ==
  /\ pc[p] \in {"link", "compute"}
  /\ IF Readable(p) THEN Spend("faults") ELSE UNCHANGED used
  /\ Goto(p, "fail")
  /\ UNCHANGED <<disk, mode, got, cands, staged, answer, seen>>
RecordRow(p, status) ==
  /\ derived' = [derived EXCEPT ![ResultKey(p)] = status]
  /\ UNCHANGED <<created, dirs, home, final>>
Fail(p) ==
  /\ At(p, "fail") /\ RecordRow(p, "failed") /\ Return(p, "failed", ResultKey(p))
  /\ UNCHANGED <<mode, staged, used>>

\* new_staging, the output files and _meta.json.
Stage(p) ==
  /\ At(p, "stage") /\ Goto(p, "parents") /\ staged' = staged \cup {p}
  /\ UNCHANGED <<disk, mode, got, cands, answer, seen, used>>
\* Mutant: the row is written before the result is in its place.
IndexesFirst(p) ==
  /\ At(p, "parents") /\ Goto(p, "swap") /\ RecordRow(p, "ready")
  /\ UNCHANGED <<mode, got, cands, staged, answer, seen, used>>
\* os.makedirs(final.parent), also of a bundle that has been deleted.
Parents(p) ==
  /\ At(p, "parents") /\ Goto(p, "swap")
  /\ dirs' = dirs \cup {Own} /\ home' = TRUE
  /\ UNCHANGED <<created, final, derived, mode, got, cands, staged, answer, seen, used>>
SwapOld(p) == ResultKey(p) \in final /\ Move(p, "swap", "away")
SwapNew(p) == ResultKey(p) \notin final /\ Move(p, "swap", "publish")
Away(p) ==
  /\ At(p, "away") /\ ResultKey(p) \in final
  /\ Goto(p, "publish") /\ final' = final \ {ResultKey(p)}
  /\ UNCHANGED <<created, dirs, home, derived, mode, got, cands, staged, answer, seen, used>>
\* os.rename onto its place: nothing may be there, and the parent must be.
CanPublish(p) == home /\ ResultKey(p) \notin final
Publish(p) ==
  /\ At(p, "publish") /\ CanPublish(p)
  /\ Goto(p, "index") /\ final' = final \cup {ResultKey(p)} /\ staged' = staged \ {p}
  /\ UNCHANGED <<created, dirs, home, derived, mode, got, cands, answer, seen, used>>
\* Mutants: nobody discards; the failing call takes the result with it.
KeepsStaging(p) == UNCHANGED <<staged, final>>
DiscardsAll(p) == staged' = staged \ {p} /\ final' = final \ {ResultKey(p)}
Discard(p) == staged' = staged \ {p} /\ UNCHANGED final
StageError(p) ==
  /\ \/ pc[p] \in StagingPoints /\ Spend("faults")
     \/ At(p, "away") /\ ResultKey(p) \notin final /\ UNCHANGED used
     \/ At(p, "publish") /\ ~CanPublish(p) /\ UNCHANGED used
  /\ Discard(p) /\ Return(p, "error", ResultKey(p))
  /\ UNCHANGED <<created, dirs, home, derived, mode>>
Index(p) ==
  /\ At(p, "index") /\ RecordRow(p, "ready") /\ Return(p, "derived", ResultKey(p))
  /\ UNCHANGED <<mode, staged, used>>
\* The row cannot be written.
RowError(p) == pc[p] \in {"fail", "index"} /\ Spend("faults") /\ End(p, "error", ResultKey(p))

-----------------------------------------------------------------------------
(* get_derived_file: the versioned URL of one output *)

FileCall(p, k) ==
  /\ At(p, "idle") /\ Spend("calls") /\ derived[k] # "none"
  /\ Goto(p, "url") /\ mode' = [mode EXCEPT ![p] = "file"]
  /\ got' = [got EXCEPT ![p] = Fresh(<<>>, k)]
  /\ answer' = [answer EXCEPT ![p] = [is |-> "none", key |-> <<>>]]
  /\ seen' = [seen EXCEPT ![p] = <<created>>]
  /\ UNCHANGED <<disk, cands, staged>>
FileRecord(p) == IsStored(Own) /\ Move(p, "url", "row")
FileRow(p) == derived[got[p].want] = "ready" /\ Move(p, "row", "meta")
FileMeta(p) == got[p].want \in final /\ Move(p, "meta", "send")
FileGone(p) ==
  /\ \/ At(p, "url") /\ ~IsStored(Own)
     \/ At(p, "row") /\ derived[got[p].want] # "ready"
     \/ At(p, "meta") /\ got[p].want \notin final
  /\ End(p, "gone", <<>>) /\ UNCHANGED used
FileSend(p) ==
  /\ At(p, "send")
  /\ IF got[p].want \in final THEN End(p, "file", got[p].want) ELSE End(p, "error", <<>>)
  /\ UNCHANGED used

-----------------------------------------------------------------------------
(* Around the calls *)

\* The process is killed (a time-out, a cancellation, the end of the server).
Die(p) ==
  /\ ~At(p, "idle") /\ Spend("faults")
  /\ Return(p, "none", <<>>) /\ staged' = staged \ {p}
  /\ UNCHANGED <<disk, mode>>

Notice ==
  seen' = [p \in Procs |-> IF pc[p] = "idle" THEN seen[p] ELSE Append(seen[p], created')]
\* Store.commit and Store.delete; BundleStore has their steps. A commit replaces
\* what a late derivation has left of a deleted bundle.
Commit(d) ==
  /\ ~IsStored(d) /\ Spend("changes")
  /\ created' = [created EXCEPT ![d] = Len(Initially) + used'.changes]
  /\ dirs' = dirs \cup {d}
  /\ IF d = Own THEN home' = FALSE /\ final' = {} ELSE UNCHANGED <<home, final>>
  /\ Notice
  /\ UNCHANGED <<derived, pc, mode, got, cands, staged, answer>>
DeleteRows(d) ==
  /\ IsStored(d) /\ Spend("changes")
  /\ created' = [created EXCEPT ![d] = 0]
  /\ derived' = IF d = Own THEN [k \in Keys |-> "none"] ELSE derived
  /\ Notice
  /\ UNCHANGED <<dirs, home, final, pc, mode, got, cands, staged, answer>>
DeleteDir(d) ==
  /\ ~IsStored(d) /\ d \in dirs
  /\ dirs' = dirs \ {d}
  /\ IF d = Own THEN home' = FALSE /\ final' = {} ELSE UNCHANGED <<home, final>>
  /\ UNCHANGED <<created, derived, pc, mode, got, cands, staged, answer, seen, used>>

LinkNext(p) == Find(p) \/ GetRecord(p)
LookupNext(p) ==
  \/ Open(p) \/ OpenMissing(p) \/ Space(p) \/ SpaceError(p) \/ Record(p) \/ RecordMissing(p) \/ Rows(p)
  \/ NoRowLeft(p) \/ Pick(p) \/ ResolveNext(p) \/ Hit(p) \/ FilesGone(p)
DeriveNext(p) ==
  \/ Context(p) \/ ContextMissing(p) \/ Link(p) \/ Compute(p) \/ BadParams(p) \/ ComputeFails(p)
  \/ Fail(p) \/ Stage(p) \/ Parents(p) \/ SwapOld(p) \/ SwapNew(p) \/ Away(p) \/ Publish(p)
  \/ StageError(p) \/ Index(p) \/ RowError(p)
FileNext(p) == FileRecord(p) \/ FileRow(p) \/ FileMeta(p) \/ FileGone(p) \/ FileSend(p)
StoreNext(d) == Commit(d) \/ DeleteRows(d) \/ DeleteDir(d)

Next ==
  \/ \E p \in Procs :
       \/ LinkNext(p) \/ LookupNext(p) \/ DeriveNext(p) \/ FileNext(p) \/ Die(p)
       \/ \E m \in {"lookup", "derive"} : Call(p, m)
       \/ \E k \in Keys : FileCall(p, k)
  \/ \E d \in Digests : StoreNext(d)
Spec == Init /\ [][Next]_vars

-----------------------------------------------------------------------------
(* What the cache promises *)

\* Of the instants `at` of a call: bundle d was gone at the n-th or at a later one.
Gone(at, d, n) == \E k \in n..Len(at) : at[k][d] = 0
\* Link i was looked up from the n-th on, and token t is the answer.
ResolvedAt(at, i, t, n) ==
  \/ t = NoLink /\ \A d \in HoldersOf[i] : Gone(at, d, n)
  \/ /\ t \in HoldersOf[i] /\ at[n][t] # 0
     /\ \E m \in n..Len(at) :
          at[m][t] # 0 /\ \A d \in HoldersOf[i] : Precedes(at[m], d, t) => Gone(at, d, n)
Resolved(at, i, t) == \E n \in DOMAIN at : ResolvedAt(at, i, t, n)
Current(at, key) ==
  \E t \in [Links -> Tokens] : Key(t) = key /\ \A i \in Links : Resolved(at, i, t[i])
\* "Before serving a cache entry, every recorded link target is re-resolved":
\* whatever is deleted or committed during the call, each link of an answer is
\* resolved within it. The bundle it names was stored when the lookup of the link
\* began and at an instant after that; a bundle that holds the file and comes
\* before it, the own one or an older one, was gone at some instant since the
\* lookup began. (It need not be what the link resolved to at any one instant.)
AnswerIsCurrent == \A p \in Procs : answer[p].is \in {"hit", "derived"} => Current(seen[p], answer[p].key)

\* A ready row has its result in place, but for the moment between the two
\* renames of a process that renews it; errors, deaths and deletions aside.
Undisturbed == used.faults = 0 /\ used.changes = 0
Renews(q, k) == At(q, "publish") /\ ResultKey(q) = k
ReadyIsThere ==
  Undisturbed => \A k \in Keys : derived[k] = "ready" => k \in final \/ \E q \in Procs : Renews(q, k)

\* Processes that derive one key at a time can make each other fail, but one of
\* them wins: a derivation that fails for no reason of its own leaves a result
\* in its place, or a process that is about to put one there.
OneWins ==
  Undisturbed =>
    \A p \in Procs : answer[p].is = "error" /\ mode[p] = "derive" =>
      answer[p].key \in final \/ \E q \in Procs : Renews(q, answer[p].key)
=============================================================================
