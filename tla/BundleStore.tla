---------------------------- MODULE BundleStore -----------------------------
(***************************************************************************)
(* Commit and delete of the content-addressed bundle store                 *)
(* (plateau_rt/viewer/store.py) step by step: the exclusive flock on       *)
(* store.lock, the index rows, the directory bundles/<digest> and the      *)
(* staging area, with callers in several threads and processes, I/O errors *)
(* at any step and the death of a caller between any two.                  *)
(*                                                                         *)
(* Abstracted: the content of a tree is its digest; the rows of bundles,   *)
(* files, derived and jobs change in one SQLite transaction and are one    *)
(* membership; removing a tree is one step (a partial removal looks like a *)
(* directory without raw/). A derive child writes under                    *)
(* bundles/<digest>/derived without the lock.                              *)
(***************************************************************************)
EXTENDS Naturals, FiniteSets

CONSTANTS
  Procs,        \* threads and processes that call the store
  Digests,
  MaxCalls,     \* bound: calls of commit and delete
  MaxFaults,    \* bound: I/O errors
  MaxDeaths     \* bound: callers killed half way

CONSTANT Nobody
ASSUME NobodyAssumption == Nobody \notin Procs
ASSUME BoundsAssumption == MaxCalls \in Nat /\ MaxFaults \in Nat /\ MaxDeaths \in Nat

VARIABLES
  pc,        \* control point of each caller
  want,      \* the digest its call is about
  answer,    \* what its last call returned
  lock,      \* holder of store.lock
  rows,      \* digests with a row in `bundles`
  dir,       \* state of bundles/<digest>
  staged,    \* the staging directory of a caller's commit
  trash,     \* callers with a staging/deleting-<uuid> directory
  debris,    \* entries of staging/ that no call will remove any more
  writing,   \* digests a derive child has opened and may still write to
  used       \* calls, faults and deaths so far

disk == <<rows, dir, staged, trash, debris>>
vars == <<pc, want, answer, lock, disk, writing, used>>

-----------------------------------------------------------------------------
CommitPoints == {"staging", "staged", "check", "mkdir", "derived", "rename", "chmod", "insert",
                 "tidy"}
DeletePoints == {"delete", "erase", "move", "purge"}
Locked == (CommitPoints \ {"staging", "staged"}) \cup (DeletePoints \ {"delete"})
\* bare: the directory alone; derived: with derived/; raw: with raw/ too;
\* frozen: raw/ is in place and read-only from its root down.
DirStates == {"none", "bare", "derived", "raw", "frozen"}
\* tree: as extracted; frozen: read-only below its root; rest: what is left
\* of staging/<uuid> when the bundle root was a directory inside it.
StagedStates == {"none", "tree", "frozen", "rest"}

TypeOK ==
  /\ pc \in [Procs -> {"idle"} \cup CommitPoints \cup DeletePoints]
  /\ want \in [Procs -> Digests]
  /\ answer \in [Procs -> {"none", "created", "duplicate", "deleted", "missing", "error"}]
  /\ lock \in Procs \cup {Nobody}
  /\ rows \subseteq Digests /\ writing \subseteq Digests
  /\ dir \in [Digests -> DirStates]
  /\ staged \in [Procs -> StagedStates]
  /\ trash \subseteq Procs /\ debris \in Nat
  /\ used \in [{"calls", "faults", "deaths"} -> Nat]
  \* A caller is past its lock exactly while it holds it.
  /\ \A p \in Procs : pc[p] \in Locked <=> lock = p

Init ==
  /\ pc = [p \in Procs |-> "idle"]
  /\ want \in [Procs -> Digests]
  /\ answer = [p \in Procs |-> "none"]
  /\ lock = Nobody
  /\ rows = {} /\ dir = [d \in Digests |-> "none"]
  /\ staged = [p \in Procs |-> "none"] /\ trash = {} /\ debris = 0
  /\ writing = {}
  /\ used = [b \in {"calls", "faults", "deaths"} |-> 0]

Limit == [calls |-> MaxCalls, faults |-> MaxFaults, deaths |-> MaxDeaths]
Spend(b) == used[b] < Limit[b] /\ used' = [used EXCEPT ![b] = @ + 1]

At(p, point) == pc[p] = point
Goto(p, point) == pc' = [pc EXCEPT ![p] = point]
SetDir(p, state) == dir' = [dir EXCEPT ![want[p]] = state]

Call(p, d, point) ==
  /\ At(p, "idle") /\ Spend("calls")
  /\ Goto(p, point)
  /\ want' = [want EXCEPT ![p] = d]
  /\ answer' = [answer EXCEPT ![p] = "none"]
  /\ UNCHANGED <<lock, disk, writing>>

\* Mutant: LOCK_SH in place of LOCK_EX.
AcquireShared(p, from, to) ==
  /\ At(p, from)
  /\ lock' = p /\ Goto(p, to)
  /\ UNCHANGED <<want, answer, disk, writing, used>>
\* _lock(): one caller at a time, the others wait in flock.
Acquire(p, from, to) ==
  /\ At(p, from) /\ lock = Nobody
  /\ lock' = p /\ Goto(p, to)
  /\ UNCHANGED <<want, answer, disk, writing, used>>

\* The call ends; the lock, if it is held, is released with its descriptor.
Return(p, result) ==
  /\ Goto(p, "idle")
  /\ answer' = [answer EXCEPT ![p] = result]
  /\ lock' = IF lock = p THEN Nobody ELSE lock
  /\ UNCHANGED <<want, writing>>

\* Mutant: nobody discards.
KeepsStaging(p) == UNCHANGED staged
\* discard_staging, by commit itself or by ingest_staged and ingest_archive.
Discard(p) == staged' = [staged EXCEPT ![p] = "none"]

-----------------------------------------------------------------------------
(* ingest and commit *)

CommitCall(p, d) == Call(p, d, "staging")
\* Extraction and validation fill a private directory under staging/ ...
Stage(p) ==
  /\ At(p, "staging")
  /\ Goto(p, "staged") /\ staged' = [staged EXCEPT ![p] = "tree"]
  /\ UNCHANGED <<want, answer, lock, rows, dir, trash, debris, writing, used>>
\* ... or reject the bundle, which is then discarded.
Reject(p) ==
  /\ At(p, "staged")
  /\ Discard(p) /\ Return(p, "error")
  /\ UNCHANGED <<rows, dir, trash, debris, used>>
CommitLock(p) == Acquire(p, "staged", "check")

\* Mutant: the early return says that it created the bundle.
DuplicateIsCreated(p) ==
  /\ At(p, "check") /\ want[p] \in rows
  /\ Discard(p) /\ Return(p, "created")
  /\ UNCHANGED <<rows, dir, trash, debris, used>>
CommitDuplicate(p) ==
  /\ At(p, "check") /\ want[p] \in rows
  /\ Discard(p) /\ Return(p, "duplicate")
  /\ UNCHANGED <<rows, dir, trash, debris, used>>
\* A directory without a row is a crash leftover: it is removed. The staged
\* tree is made read-only before anything is created.
CommitCheck(p) ==
  /\ At(p, "check") /\ want[p] \notin rows
  /\ SetDir(p, "none") /\ staged' = [staged EXCEPT ![p] = "frozen"]
  /\ Goto(p, "mkdir")
  /\ UNCHANGED <<want, answer, lock, rows, trash, debris, writing, used>>

CommitStep(p, from, to, state) ==
  /\ At(p, from) /\ SetDir(p, state) /\ Goto(p, to)
  /\ UNCHANGED <<want, answer, lock, rows, trash, debris, writing, used>>
CommitMkdir(p) == dir[want[p]] = "none" /\ CommitStep(p, "mkdir", "derived", "bare") /\ UNCHANGED staged
CommitDerived(p) == dir[want[p]] = "bare" /\ CommitStep(p, "derived", "rename", "derived") /\ UNCHANGED staged
CommitRename(p) ==
  /\ CommitStep(p, "rename", "chmod", "raw")
  /\ \E left \in {"none", "rest"} : staged' = [staged EXCEPT ![p] = left]
CommitChmod(p) == CommitStep(p, "chmod", "insert", "frozen") /\ UNCHANGED staged
CommitInsert(p) ==
  /\ At(p, "insert")
  /\ rows' = rows \cup {want[p]}
  /\ Goto(p, "tidy")
  /\ UNCHANGED <<want, answer, lock, dir, staged, trash, debris, writing, used>>
CommitTidy(p) ==
  /\ At(p, "tidy")
  /\ Discard(p) /\ Return(p, "created")
  /\ UNCHANGED <<rows, dir, trash, debris, used>>

\* All up to mkdir(bundle_path) comes before the try: an error there cleans
\* nothing but the staging directory. A derive child may have made the
\* directory meanwhile.
MkdirError(p) ==
  /\ \/ At(p, "check") /\ want[p] \notin rows /\ Spend("faults")
     \/ At(p, "mkdir") /\ dir[want[p]] = "none" /\ Spend("faults")
     \/ At(p, "mkdir") /\ dir[want[p]] # "none" /\ UNCHANGED used
  /\ Discard(p) /\ Return(p, "error")
  /\ UNCHANGED <<rows, dir, trash, debris>>
\* Every later error rolls back and removes the directory; a derive child that
\* writes to it at that moment may leave some of it.
CommitError(p) ==
  /\ \/ At(p, "derived") /\ dir[want[p]] # "bare" /\ UNCHANGED used
     \/ pc[p] \in {"derived", "rename", "chmod", "insert"} /\ Spend("faults")
  /\ \/ SetDir(p, "none")
     \/ want[p] \in writing /\ SetDir(p, "derived")
  /\ Discard(p) /\ Return(p, "error")
  /\ UNCHANGED <<rows, trash, debris>>
\* What is left of the staging directory cannot be removed: the call fails
\* although its row is in.
TidyError(p) ==
  /\ At(p, "tidy") /\ staged[p] = "rest" /\ Spend("faults")
  /\ debris' = debris + 1 /\ Discard(p) /\ Return(p, "error")
  /\ UNCHANGED <<rows, dir, trash>>

-----------------------------------------------------------------------------
(* delete *)

DeleteCall(p, d) == Call(p, d, "delete")
DeleteLock(p) == Acquire(p, "delete", "erase")
DeleteMissing(p) ==
  /\ At(p, "erase") /\ want[p] \notin rows /\ dir[want[p]] = "none"
  /\ Return(p, "missing")
  /\ UNCHANGED <<disk, used>>
\* Mutant: the directory goes first.
MovesFirst(p) ==
  /\ At(p, "erase") /\ (want[p] \in rows \/ dir[want[p]] # "none")
  /\ SetDir(p, "none") /\ Goto(p, "move")
  /\ UNCHANGED <<rows, want, answer, lock, staged, trash, debris, writing, used>>
DeleteErase(p) ==
  /\ At(p, "erase") /\ (want[p] \in rows \/ dir[want[p]] # "none")
  /\ rows' = rows \ {want[p]}
  /\ Goto(p, "move")
  /\ UNCHANGED <<want, answer, lock, dir, staged, trash, debris, writing, used>>
EraseError(p) ==
  /\ At(p, "erase") /\ Spend("faults")
  /\ Return(p, "error")
  /\ UNCHANGED disk
\* A row has its directory (RowHasBundle), so there is always one to move.
DeleteMove(p) ==
  /\ At(p, "move") /\ dir[want[p]] # "none"
  /\ SetDir(p, "none") /\ trash' = trash \cup {p}
  /\ Goto(p, "purge")
  /\ UNCHANGED <<want, answer, lock, rows, staged, debris, writing, used>>
\* The directory cannot be renamed: it stays without a row.
MoveError(p) ==
  /\ At(p, "move") /\ dir[want[p]] # "none" /\ Spend("faults")
  /\ Return(p, "error")
  /\ UNCHANGED disk
DeletePurge(p) ==
  /\ At(p, "purge")
  /\ trash' = trash \ {p} /\ Return(p, "deleted")
  /\ UNCHANGED <<rows, dir, staged, debris, used>>
PurgeError(p) ==
  /\ At(p, "purge") /\ Spend("faults")
  /\ trash' = trash \ {p} /\ debris' = debris + 1 /\ Return(p, "error")
  /\ UNCHANGED <<rows, dir, staged>>

-----------------------------------------------------------------------------
(* Around the calls *)

\* Mutant: a lock file that exists while it is held.
LockFileStays(p) == lock
\* A caller is killed: the kernel releases its flock, the transaction it had
\* open is rolled back, its directories stay.
Released(p) == IF lock = p THEN Nobody ELSE lock
Die(p) ==
  /\ ~At(p, "idle") /\ Spend("deaths")
  /\ Goto(p, "idle") /\ lock' = Released(p)
  /\ debris' = debris + (IF staged[p] = "none" THEN 0 ELSE 1) + (IF p \in trash THEN 1 ELSE 0)
  /\ staged' = [staged EXCEPT ![p] = "none"] /\ trash' = trash \ {p}
  /\ UNCHANGED <<want, answer, rows, dir, writing>>

\* A derive child opens a stored bundle; its makedirs comes at any later time,
\* whether or not the bundle is still there.
DeriveOpen(d) ==
  /\ d \in rows \ writing
  /\ writing' = writing \cup {d}
  /\ UNCHANGED <<pc, want, answer, lock, disk, used>>
DeriveMakedirs(d) ==
  /\ d \in writing /\ dir[d] \in {"none", "bare"}
  /\ dir' = [dir EXCEPT ![d] = "derived"]
  /\ UNCHANGED <<pc, want, answer, lock, rows, staged, trash, debris, writing, used>>
DeriveClose(d) ==
  /\ d \in writing
  /\ writing' = writing \ {d}
  /\ UNCHANGED <<pc, want, answer, lock, disk, used>>

CommitNext(p) ==
  \/ Stage(p) \/ Reject(p) \/ CommitLock(p) \/ CommitDuplicate(p) \/ CommitCheck(p)
  \/ CommitMkdir(p) \/ CommitDerived(p) \/ CommitRename(p) \/ CommitChmod(p)
  \/ CommitInsert(p) \/ CommitTidy(p)
  \/ MkdirError(p) \/ CommitError(p) \/ TidyError(p)
DeleteNext(p) ==
  \/ DeleteLock(p) \/ DeleteMissing(p) \/ DeleteErase(p) \/ EraseError(p)
  \/ DeleteMove(p) \/ MoveError(p) \/ DeletePurge(p) \/ PurgeError(p)
ProcNext(p) == CommitNext(p) \/ DeleteNext(p)
DeriveNext(d) == DeriveOpen(d) \/ DeriveMakedirs(d) \/ DeriveClose(d)

Next ==
  \/ \E p \in Procs : ProcNext(p) \/ Die(p) \/ \E d \in Digests : CommitCall(p, d) \/ DeleteCall(p, d)
  \/ \E d \in Digests : DeriveNext(d)

Spec == Init /\ [][Next]_vars

\* A caller that can go on does, and one that waits in flock is not passed over
\* for ever.
Fairness == \A p \in Procs : WF_vars(ProcNext(p)) /\ SF_vars(CommitLock(p) \/ DeleteLock(p))
FairSpec == Spec /\ Fairness

-----------------------------------------------------------------------------
(* What the store promises *)

\* Whoever finds a row finds the complete, read-only bundle behind it, at every
\* instant, also after a death or an error anywhere.
RowHasBundle == \A d \in rows : dir[d] = "frozen"

\* While a bundle has its row, nothing touches its directory.
BundleIsImmutable == [][\A d \in rows \cap rows' : dir'[d] = dir[d]]_vars

\* "Every failure path removes the staging file and staging directory": a call
\* that is over leaves nothing under staging/, but for one entry for each caller
\* that was killed and each removal that failed.
StagingIsEmpty ==
  /\ debris <= used.deaths + used.faults
  /\ \A p \in Procs : At(p, "idle") => staged[p] = "none" /\ p \notin trash

\* Every call ends: a caller that died, or failed, has not kept the lock.
CallsEnd == \A p \in Procs : ~At(p, "idle") ~> At(p, "idle")

\* What a call has done by now, as its caller could see it.
Effect(point) ==
  CASE point = "idle" -> "idle"
    [] point = "tidy" -> "added"
    [] point \in {"move", "purge"} -> "removed"
    [] point \in CommitPoints \ {"tidy"} -> "commit"
    [] OTHER -> "delete"
Op == [p \in Procs |-> Effect(pc[p])]

\* Commit and delete take effect at one instant: the store is a ContentStore.
Abstract == INSTANCE ContentStore WITH stored <- rows, op <- Op
IsContentStore == Abstract!StoreSpec
=============================================================================
