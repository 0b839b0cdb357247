-------------------------- MODULE BundleStoreProofs --------------------------
(***************************************************************************)
(* Proofs about BundleStore, for any callers, digests and bounds: a row    *)
(* always has its complete bundle, which nobody touches; nothing stays in  *)
(* staging but what a killed caller or a failed removal left there; and    *)
(* commit and delete implement the atomic operations of ContentStore.      *)
(*                                                                         *)
(* The inductive invariant says what the holder of store.lock relies on at *)
(* each of its points: that its digest has no row until it inserts it (or  *)
(* since it erased it), that the directory is frozen before the insert, and *)
(* which temporary directories its call can own.                           *)
(***************************************************************************)
EXTENDS BundleStore, TLAPS

\* Between the check and the insert, and after the erasure, there is no row.
RowlessPoints == {"mkdir", "derived", "rename", "chmod", "insert", "move"}

\* What holds for a caller at its control point.
CallInv(p) ==
  /\ pc[p] \in RowlessPoints => want[p] \notin rows
  /\ pc[p] = "insert" => dir[want[p]] = "frozen"
  /\ pc[p] # "idle" => answer[p] = "none"
  /\ staged[p] # "none" => pc[p] \in CommitPoints
  /\ p \in trash => pc[p] = "purge"

DebrisBound == debris <= used["deaths"] + used["faults"]

StoreInv ==
  /\ TypeOK
  /\ RowHasBundle
  /\ DebrisBound
  /\ \A p \in Procs : CallInv(p)

-----------------------------------------------------------------------------
(* Preservation of the invariant *)

\* The store starts empty, with no call in progress.
LEMMA InvInit == Init => StoreInv
BY NobodyAssumption
DEF Init, StoreInv, TypeOK, RowHasBundle, DebrisBound, CallInv, Locked, CommitPoints,
    DeletePoints, DirStates, StagedStates, RowlessPoints

\* Every step keeps the types, and the lock with the one caller that is past it.
LEMMA TypeStep == ASSUME StoreInv, [Next]_vars PROVE TypeOK'
<1> USE DEF Call, Acquire, Return, Discard, CommitStep, At, Goto, SetDir, Spend, Limit, Released,
    disk, Locked, CommitPoints, DeletePoints, StoreInv, TypeOK,
    DirStates, StagedStates
<1>1. ASSUME NEW p \in Procs, Stage(p) PROVE TypeOK'
  BY <1>1, NobodyAssumption DEF Stage
<1>2. ASSUME NEW p \in Procs, Reject(p) PROVE TypeOK'
  BY <1>2, NobodyAssumption DEF Reject
<1>3. ASSUME NEW p \in Procs, CommitLock(p) PROVE TypeOK'
  BY <1>3, NobodyAssumption DEF CommitLock
<1>4. ASSUME NEW p \in Procs, CommitDuplicate(p) PROVE TypeOK'
  BY <1>4, NobodyAssumption DEF CommitDuplicate
<1>5. ASSUME NEW p \in Procs, CommitCheck(p) PROVE TypeOK'
  BY <1>5, NobodyAssumption DEF CommitCheck
<1>6. ASSUME NEW p \in Procs, CommitMkdir(p) PROVE TypeOK'
  BY <1>6, NobodyAssumption DEF CommitMkdir
<1>7. ASSUME NEW p \in Procs, CommitDerived(p) PROVE TypeOK'
  BY <1>7, NobodyAssumption DEF CommitDerived
<1>8. ASSUME NEW p \in Procs, CommitRename(p) PROVE TypeOK'
  BY <1>8, NobodyAssumption DEF CommitRename
<1>9. ASSUME NEW p \in Procs, CommitChmod(p) PROVE TypeOK'
  BY <1>9, NobodyAssumption DEF CommitChmod
<1>10. ASSUME NEW p \in Procs, CommitInsert(p) PROVE TypeOK'
  BY <1>10, NobodyAssumption DEF CommitInsert
<1>11. ASSUME NEW p \in Procs, CommitTidy(p) PROVE TypeOK'
  BY <1>11, NobodyAssumption DEF CommitTidy
<1>12. ASSUME NEW p \in Procs, MkdirError(p) PROVE TypeOK'
  BY <1>12, NobodyAssumption DEF MkdirError
<1>13. ASSUME NEW p \in Procs, CommitError(p) PROVE TypeOK'
  BY <1>13, NobodyAssumption DEF CommitError
<1>14. ASSUME NEW p \in Procs, TidyError(p) PROVE TypeOK'
  BY <1>14, NobodyAssumption DEF TidyError
<1>15. ASSUME NEW p \in Procs, DeleteLock(p) PROVE TypeOK'
  BY <1>15, NobodyAssumption DEF DeleteLock
<1>16. ASSUME NEW p \in Procs, DeleteMissing(p) PROVE TypeOK'
  BY <1>16, NobodyAssumption DEF DeleteMissing
<1>17. ASSUME NEW p \in Procs, DeleteErase(p) PROVE TypeOK'
  BY <1>17, NobodyAssumption DEF DeleteErase
<1>18. ASSUME NEW p \in Procs, EraseError(p) PROVE TypeOK'
  BY <1>18, NobodyAssumption DEF EraseError
<1>19. ASSUME NEW p \in Procs, DeleteMove(p) PROVE TypeOK'
  BY <1>19, NobodyAssumption DEF DeleteMove
<1>20. ASSUME NEW p \in Procs, MoveError(p) PROVE TypeOK'
  BY <1>20, NobodyAssumption DEF MoveError
<1>21. ASSUME NEW p \in Procs, DeletePurge(p) PROVE TypeOK'
  BY <1>21, NobodyAssumption DEF DeletePurge
<1>22. ASSUME NEW p \in Procs, PurgeError(p) PROVE TypeOK'
  BY <1>22, NobodyAssumption DEF PurgeError
<1>23. ASSUME NEW p \in Procs, Die(p) PROVE TypeOK'
  BY <1>23, NobodyAssumption DEF Die
<1>24. ASSUME NEW p \in Procs, NEW d \in Digests, CommitCall(p, d) \/ DeleteCall(p, d)
        PROVE TypeOK'
  BY <1>24, NobodyAssumption DEF CommitCall, DeleteCall
<1>25. ASSUME NEW d \in Digests, DeriveNext(d) PROVE TypeOK'
  BY <1>25 DEF DeriveNext, DeriveOpen, DeriveMakedirs, DeriveClose
<1>26. CASE UNCHANGED vars
  BY <1>26 DEF vars
<1> QED
  BY <1>1, <1>2, <1>3, <1>4, <1>5, <1>6, <1>7, <1>8, <1>9, <1>10, <1>11, <1>12, <1>13,
     <1>14, <1>15, <1>16, <1>17, <1>18, <1>19, <1>20, <1>21, <1>22, <1>23, <1>24, <1>25,
     <1>26 DEF Next, ProcNext, CommitNext, DeleteNext

\* What a step does to the rows and their directories.
RowKept ==
  /\ \A d \in rows' : dir'[d] = "frozen"
  /\ \A d \in rows \cap rows' : dir'[d] = dir[d]

\* Only the holder of the lock changes a directory, and only while its digest has no
\* row; a derive child finds derived/ in every directory whose bundle has one.
LEMMA RowStep == ASSUME StoreInv, [Next]_vars PROVE RowKept
<1> USE DEF Call, Acquire, Return, Discard, CommitStep, At, Goto, SetDir, Spend, Limit, Released,
    disk, Locked, CommitPoints, DeletePoints, StoreInv, TypeOK,
    RowHasBundle, RowKept, CallInv, RowlessPoints
<1>1. ASSUME NEW p \in Procs, CommitCheck(p) PROVE RowKept
  BY <1>1 DEF CommitCheck
<1>2. ASSUME NEW p \in Procs, CommitMkdir(p) PROVE RowKept
  BY <1>2 DEF CommitMkdir
<1>3. ASSUME NEW p \in Procs, CommitDerived(p) PROVE RowKept
  BY <1>3 DEF CommitDerived
<1>4. ASSUME NEW p \in Procs, CommitRename(p) PROVE RowKept
  BY <1>4 DEF CommitRename
<1>5. ASSUME NEW p \in Procs, CommitChmod(p) PROVE RowKept
  BY <1>5 DEF CommitChmod
<1>6. ASSUME NEW p \in Procs, CommitInsert(p) PROVE RowKept
  BY <1>6 DEF CommitInsert
<1>7. ASSUME NEW p \in Procs, CommitError(p) PROVE RowKept
  BY <1>7 DEF CommitError
<1>8. ASSUME NEW p \in Procs, DeleteErase(p) PROVE RowKept
  BY <1>8 DEF DeleteErase
<1>9. ASSUME NEW p \in Procs, DeleteMove(p) PROVE RowKept
  BY <1>9 DEF DeleteMove
<1>10. ASSUME NEW p \in Procs, Stage(p) \/ Reject(p) \/ CommitLock(p)
        \/ CommitDuplicate(p) \/ CommitTidy(p) \/ MkdirError(p) \/ TidyError(p)
        \/ DeleteLock(p) \/ DeleteMissing(p) \/ EraseError(p) \/ MoveError(p)
        \/ DeletePurge(p) \/ PurgeError(p) \/ Die(p) PROVE RowKept
  BY <1>10 DEF Stage, Reject, CommitLock, CommitDuplicate, CommitTidy, MkdirError,
     TidyError, DeleteLock, DeleteMissing, EraseError, MoveError, DeletePurge,
     PurgeError, Die
<1>11. ASSUME NEW p \in Procs, NEW d \in Digests, CommitCall(p, d) \/ DeleteCall(p, d)
        PROVE RowKept
  BY <1>11 DEF CommitCall, DeleteCall
<1>12. ASSUME NEW d \in Digests, DeriveNext(d) PROVE RowKept
  BY <1>12 DEF DeriveNext, DeriveOpen, DeriveMakedirs, DeriveClose
<1>13. CASE UNCHANGED vars
  BY <1>13 DEF vars
<1> QED
  BY <1>1, <1>2, <1>3, <1>4, <1>5, <1>6, <1>7, <1>8, <1>9, <1>10, <1>11, <1>12, <1>13
     DEF Next, ProcNext, CommitNext, DeleteNext

\* A call leaves an entry in staging only when it dies or a removal fails, and no
\* call owns two.
LEMMA DebrisStep == ASSUME StoreInv, [Next]_vars PROVE DebrisBound'
<1> USE DEF Call, Acquire, Return, Discard, CommitStep, At, Goto, SetDir, Spend, Limit, Released,
    disk, Locked, CommitPoints, DeletePoints, StoreInv, TypeOK,
    DebrisBound, CallInv
<1>1. ASSUME NEW p \in Procs, TidyError(p) PROVE DebrisBound'
  BY <1>1 DEF TidyError
<1>2. ASSUME NEW p \in Procs, PurgeError(p) PROVE DebrisBound'
  BY <1>2 DEF PurgeError
<1>3. ASSUME NEW p \in Procs, Die(p) PROVE DebrisBound'
  BY <1>3 DEF Die
<1>4. ASSUME NEW p \in Procs, Stage(p) \/ Reject(p) \/ CommitLock(p)
        \/ CommitDuplicate(p) \/ CommitCheck(p) \/ CommitMkdir(p) \/ CommitDerived(p)
        \/ CommitRename(p) \/ CommitChmod(p) \/ CommitInsert(p) \/ CommitTidy(p)
        \/ MkdirError(p) \/ CommitError(p) \/ DeleteLock(p) \/ DeleteMissing(p)
        \/ DeleteErase(p) \/ EraseError(p) \/ DeleteMove(p) \/ MoveError(p)
        \/ DeletePurge(p) PROVE DebrisBound'
  BY <1>4 DEF Stage, Reject, CommitLock, CommitDuplicate, CommitCheck, CommitMkdir,
     CommitDerived, CommitRename, CommitChmod, CommitInsert, CommitTidy, MkdirError,
     CommitError, DeleteLock, DeleteMissing, DeleteErase, EraseError, DeleteMove,
     MoveError, DeletePurge
<1>5. ASSUME NEW p \in Procs, NEW d \in Digests, CommitCall(p, d) \/ DeleteCall(p, d)
        PROVE DebrisBound'
  BY <1>5 DEF CommitCall, DeleteCall
<1>6. ASSUME NEW d \in Digests, DeriveNext(d) PROVE DebrisBound'
  BY <1>6 DEF DeriveNext, DeriveOpen, DeriveMakedirs, DeriveClose
<1>7. CASE UNCHANGED vars
  BY <1>7 DEF vars
<1> QED
  BY <1>1, <1>2, <1>3, <1>4, <1>5, <1>6, <1>7 DEF Next, ProcNext, CommitNext, DeleteNext

\* What a caller relies on is disturbed by nobody else: the others are not past their
\* locks.
LEMMA CallStep == ASSUME StoreInv, [Next]_vars PROVE \A q \in Procs : CallInv(q)'
<1> USE DEF Call, Acquire, Return, Discard, CommitStep, At, Goto, SetDir, Spend, Limit, Released,
    disk, Locked, CommitPoints, DeletePoints, StoreInv, TypeOK,
    CallInv, RowlessPoints
<1>1. ASSUME NEW p \in Procs, Stage(p) PROVE \A q \in Procs : CallInv(q)'
  BY <1>1 DEF Stage
<1>2. ASSUME NEW p \in Procs, Reject(p) PROVE \A q \in Procs : CallInv(q)'
  BY <1>2 DEF Reject
<1>3. ASSUME NEW p \in Procs, CommitLock(p) PROVE \A q \in Procs : CallInv(q)'
  BY <1>3 DEF CommitLock
<1>4. ASSUME NEW p \in Procs, CommitDuplicate(p) PROVE \A q \in Procs : CallInv(q)'
  BY <1>4 DEF CommitDuplicate
<1>5. ASSUME NEW p \in Procs, CommitCheck(p) PROVE \A q \in Procs : CallInv(q)'
  BY <1>5 DEF CommitCheck
<1>6. ASSUME NEW p \in Procs, CommitMkdir(p) PROVE \A q \in Procs : CallInv(q)'
  BY <1>6 DEF CommitMkdir
<1>7. ASSUME NEW p \in Procs, CommitDerived(p) PROVE \A q \in Procs : CallInv(q)'
  BY <1>7 DEF CommitDerived
<1>8. ASSUME NEW p \in Procs, CommitRename(p) PROVE \A q \in Procs : CallInv(q)'
  BY <1>8 DEF CommitRename
<1>9. ASSUME NEW p \in Procs, CommitChmod(p) PROVE \A q \in Procs : CallInv(q)'
  BY <1>9 DEF CommitChmod
<1>10. ASSUME NEW p \in Procs, CommitInsert(p) PROVE \A q \in Procs : CallInv(q)'
  BY <1>10 DEF CommitInsert
<1>11. ASSUME NEW p \in Procs, CommitTidy(p) PROVE \A q \in Procs : CallInv(q)'
  BY <1>11 DEF CommitTidy
<1>12. ASSUME NEW p \in Procs, MkdirError(p) PROVE \A q \in Procs : CallInv(q)'
  BY <1>12 DEF MkdirError
<1>13. ASSUME NEW p \in Procs, CommitError(p) PROVE \A q \in Procs : CallInv(q)'
  BY <1>13 DEF CommitError
<1>14. ASSUME NEW p \in Procs, TidyError(p) PROVE \A q \in Procs : CallInv(q)'
  BY <1>14 DEF TidyError
<1>15. ASSUME NEW p \in Procs, DeleteLock(p) PROVE \A q \in Procs : CallInv(q)'
  BY <1>15 DEF DeleteLock
<1>16. ASSUME NEW p \in Procs, DeleteMissing(p) PROVE \A q \in Procs : CallInv(q)'
  BY <1>16 DEF DeleteMissing
<1>17. ASSUME NEW p \in Procs, DeleteErase(p) PROVE \A q \in Procs : CallInv(q)'
  BY <1>17 DEF DeleteErase
<1>18. ASSUME NEW p \in Procs, EraseError(p) PROVE \A q \in Procs : CallInv(q)'
  BY <1>18 DEF EraseError
<1>19. ASSUME NEW p \in Procs, DeleteMove(p) PROVE \A q \in Procs : CallInv(q)'
  BY <1>19 DEF DeleteMove
<1>20. ASSUME NEW p \in Procs, MoveError(p) PROVE \A q \in Procs : CallInv(q)'
  BY <1>20 DEF MoveError
<1>21. ASSUME NEW p \in Procs, DeletePurge(p) PROVE \A q \in Procs : CallInv(q)'
  BY <1>21 DEF DeletePurge
<1>22. ASSUME NEW p \in Procs, PurgeError(p) PROVE \A q \in Procs : CallInv(q)'
  BY <1>22 DEF PurgeError
<1>23. ASSUME NEW p \in Procs, Die(p) PROVE \A q \in Procs : CallInv(q)'
  BY <1>23 DEF Die
<1>24. ASSUME NEW p \in Procs, NEW d \in Digests, CommitCall(p, d) \/ DeleteCall(p, d)
        PROVE \A q \in Procs : CallInv(q)'
  BY <1>24 DEF CommitCall, DeleteCall
<1>25. ASSUME NEW d \in Digests, DeriveNext(d) PROVE \A q \in Procs : CallInv(q)'
  BY <1>25 DEF DeriveNext, DeriveOpen, DeriveMakedirs, DeriveClose
<1>26. CASE UNCHANGED vars
  BY <1>26 DEF vars
<1> QED
  BY <1>1, <1>2, <1>3, <1>4, <1>5, <1>6, <1>7, <1>8, <1>9, <1>10, <1>11, <1>12, <1>13,
     <1>14, <1>15, <1>16, <1>17, <1>18, <1>19, <1>20, <1>21, <1>22, <1>23, <1>24, <1>25,
     <1>26 DEF Next, ProcNext, CommitNext, DeleteNext

\* The inductive invariant holds in every reachable state.
THEOREM StoreInvariant == Spec => []StoreInv
<1>1. ASSUME StoreInv, [Next]_vars PROVE StoreInv'
  BY <1>1, TypeStep, RowStep, DebrisStep, CallStep DEF StoreInv, RowHasBundle, RowKept
<1> QED
  BY InvInit, <1>1, PTL DEF Spec

-----------------------------------------------------------------------------
(* The properties of the runs *)

\* Type correctness: in particular a caller is past its lock exactly while it
\* holds it, so no two are (Store._lock).
THEOREM StoreTypes == Spec => []TypeOK
<1>1. StoreInv => TypeOK
  BY DEF StoreInv
<1> QED
  BY StoreInvariant, <1>1, PTL

\* A row of `bundles` always has its complete, read-only directory: the order of
\* Store.commit and Store.delete around their COMMIT.
THEOREM RowsHaveBundles == Spec => []RowHasBundle
<1>1. StoreInv => RowHasBundle
  BY DEF StoreInv
<1> QED
  BY StoreInvariant, <1>1, PTL

\* No step of anybody touches the directory of a bundle that keeps its row.
THEOREM BundlesAreImmutable == Spec => BundleIsImmutable
<1>1. ASSUME StoreInv, [Next]_vars PROVE [\A d \in rows \cap rows' : dir'[d] = dir[d]]_vars
  BY <1>1, RowStep DEF RowKept
<1> QED
  BY StoreInvariant, <1>1, PTL DEF Spec, BundleIsImmutable

\* A call that is over has removed what it put under staging/, except after a
\* death or a failed removal: discard_staging is on every path.
THEOREM StagingIsCleared == Spec => []StagingIsEmpty
<1>1. StoreInv => StagingIsEmpty
  BY DEF StoreInv, StagingIsEmpty, DebrisBound, CallInv, At, TypeOK, StagedStates, CommitPoints
<1> QED
  BY StoreInvariant, <1>1, PTL

-----------------------------------------------------------------------------
(* The store implements ContentStore *)

\* What each control point has done by then.
LEMMA Effects ==
  /\ Effect("idle") = "idle" /\ Effect("tidy") = "added"
  /\ \A point \in {"move", "purge"} : Effect(point) = "removed"
  /\ \A point \in CommitPoints \ {"tidy"} : Effect(point) = "commit"
  /\ \A point \in {"delete", "erase"} : Effect(point) = "delete"
BY DEF Effect, CommitPoints

\* One caller moves: the others have done what they had done.
LEMMA Moved ==
  ASSUME TypeOK, NEW p \in Procs, NEW point, Goto(p, point)
  PROVE  /\ Op' = [Op EXCEPT ![p] = Effect(point)]
         /\ Op[p] = Effect(pc[p])
         /\ Effect(point) = Effect(pc[p]) => Op' = Op
BY DEF TypeOK, Goto, Op

\* Every step of a caller is a step of ContentStore or changes nothing it sees.
LEMMA RefineStep == ASSUME StoreInv, [Next]_vars PROVE [Abstract!StoreNext]_(Abstract!storeVars)
<1> USE Effects DEF Call, Acquire, Return, CommitStep, At, disk, CommitPoints, StoreInv, CallInv,
    RowlessPoints, Abstract!storeVars
<1>1. ASSUME NEW p \in Procs, Stage(p) \/ CommitLock(p) \/ CommitCheck(p)
        \/ CommitMkdir(p) \/ CommitDerived(p) \/ CommitRename(p) \/ CommitChmod(p)
        \/ DeleteLock(p) \/ DeleteMove(p) PROVE UNCHANGED Abstract!storeVars
  BY <1>1, Moved DEF Stage, CommitLock, CommitCheck, CommitMkdir, CommitDerived,
     CommitRename, CommitChmod, DeleteLock, DeleteMove
<1>2. ASSUME NEW p \in Procs, CommitInsert(p) PROVE Abstract!Add(p)
  BY <1>2, Moved DEF CommitInsert, Abstract!Add
<1>3. ASSUME NEW p \in Procs, CommitTidy(p) PROVE Abstract!Created(p)
  BY <1>3, Moved DEF CommitTidy, Abstract!Created, Abstract!Reply
<1>4. ASSUME NEW p \in Procs, CommitDuplicate(p) PROVE Abstract!Duplicate(p)
  BY <1>4, Moved DEF CommitDuplicate, Abstract!Duplicate, Abstract!Reply
<1>5. ASSUME NEW p \in Procs, DeleteErase(p) PROVE Abstract!Remove(p)
  BY <1>5, Moved DEF DeleteErase, Abstract!Remove
<1>6. ASSUME NEW p \in Procs, DeletePurge(p) PROVE Abstract!Deleted(p)
  BY <1>6, Moved DEF DeletePurge, Abstract!Deleted, Abstract!Reply
<1>7. ASSUME NEW p \in Procs, DeleteMissing(p) PROVE Abstract!Missing(p)
  BY <1>7, Moved DEF DeleteMissing, Abstract!Missing, Abstract!Reply
<1>8. ASSUME NEW p \in Procs, Reject(p) \/ MkdirError(p) \/ CommitError(p)
        \/ TidyError(p) \/ EraseError(p) \/ MoveError(p) \/ PurgeError(p)
        PROVE Abstract!Fails(p)
  BY <1>8, Moved DEF Reject, MkdirError, CommitError, TidyError, EraseError, MoveError,
     PurgeError, Abstract!Fails, Abstract!Reply
<1>9. ASSUME NEW p \in Procs, Die(p) PROVE Abstract!Fails(p)
  <2>1. Op[p] # "idle"
    <3>1. pc[p] \in CommitPoints \cup DeletePoints
      BY <1>9 DEF Die, TypeOK
    <3>2. Effect(pc[p]) # "idle"
      BY <3>1 DEF DeletePoints
    <3> QED BY <3>2 DEF Op
  <2>2. answer' = [answer EXCEPT ![p] = "none"]
    BY <1>9 DEF Die, TypeOK
  <2>3. Op' = [Op EXCEPT ![p] = "idle"] /\ UNCHANGED <<rows, want>>
    BY <1>9, Moved DEF Die
  <2>4. Abstract!Reply(p, "none")
    BY <2>2, <2>3 DEF Abstract!Reply
  <2> QED
    BY <2>1, <2>4 DEF Abstract!Fails
<1>10. ASSUME NEW p \in Procs, NEW d \in Digests, CommitCall(p, d)
        PROVE Abstract!Ask(p, "commit", d)
  BY <1>10, Moved DEF CommitCall, Abstract!Ask
<1>11. ASSUME NEW p \in Procs, NEW d \in Digests, DeleteCall(p, d)
        PROVE Abstract!Ask(p, "delete", d)
  BY <1>11, Moved DEF DeleteCall, Abstract!Ask
<1>12. ASSUME NEW d \in Digests, DeriveNext(d) PROVE UNCHANGED Abstract!storeVars
  BY <1>12 DEF DeriveNext, DeriveOpen, DeriveMakedirs, DeriveClose, Op
<1>13. CASE UNCHANGED vars
  BY <1>13 DEF vars, Op
<1> HIDE DEF Abstract!storeVars
<1> QED
  BY <1>1, <1>2, <1>3, <1>4, <1>5, <1>6, <1>7, <1>8, <1>9, <1>10, <1>11, <1>12, <1>13
     DEF Next, ProcNext, CommitNext, DeleteNext, Abstract!StoreNext

\* Commit and delete take effect at one instant between call and answer: every
\* behaviour of the store, seen through its rows and its answers, is one of
\* ContentStore.
THEOREM Refinement == Spec => IsContentStore
<1>1. Init => Abstract!StoreInit
  BY Effects DEF Init, Op, Abstract!StoreInit
<1> QED
  BY <1>1, StoreInvariant, RefineStep, PTL DEF Spec, IsContentStore, Abstract!StoreSpec
=============================================================================
