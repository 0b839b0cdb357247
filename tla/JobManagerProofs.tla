-------------------------- MODULE JobManagerProofs --------------------------
(* Machine-checked proofs about JobManager, for every set of keys, bundles  *)
(* and workers and every bound.                                             *)
EXTENDS JobManager, SequenceTheorems, TLAPS

\* Which workers hold a job, and which of them still have it in the active map.
Holding == WorkerPoints \ {"off", "idle", "gone"}
WorkerHoldsJob ==
  \A w \in Workers : IF pc[w] \in Holding THEN cur[w] \in Inserted ELSE cur[w] = NoJob
HeldNotQueued ==
  \A w \in Workers : cur[w] # NoJob =>
    /\ active[cur[w]] # "queued"
    /\ pc[w] \in {"begin", "spawn", "attach", "loop", "poll"} => IsActive(cur[w])
\* A worker that ends a job knows how it ended.
OutcomeKnown ==
  \A w \in Workers :
    /\ pc[w] = "end" => outcome[w] # "none"
    /\ pc[w] = "write" => outcome[w] \in {"done"} \cup JobReasons
\* The active map and the dedup map agree.
ActiveIsIndexed ==
  \A j \in Jobs : IsActive(j) => j \in Inserted /\ byKey[key[j]] = j
InsertedHasRow == \A j \in Inserted : Present(j)
LiveIsFollowed ==
  \A j \in Jobs : Live(j) => IsActive(j) /\ \E w \in Workers : Runs(w, j)

IInv ==
  /\ TypeOK
  /\ WorkerHoldsJob
  /\ HeldNotQueued
  /\ OutcomeKnown
  /\ ActiveIsIndexed
  /\ InsertedHasRow
  /\ LiveIsFollowed
  /\ OneRunnerPerJob

-----------------------------------------------------------------------------
(* Type correctness *)

\* The manager of a server that has never run is well typed.
LEMMA TypeInit == Init => TypeOK
<1> SUFFICES ASSUME Init PROVE TypeOK
  OBVIOUS
<1>1. used \in [DOMAIN Budget -> Nat]
  BY DEF Init
<1>2. key \in Seq(Keys) /\ Len(key) <= MaxJobs /\ lazyQ \in Seq(Jobs) /\ eagerQ \in Seq(Jobs)
  BY BoundsAssumption DEF Init
<1>3. row \in [Jobs -> Rows] /\ child \in [Jobs -> ChildStates]
      /\ pipe \in [Jobs -> Seq(Messages)]
  BY DEF Init, NoRow, Rows, RowStatuses, ChildStates
<1> QED
  BY <1>1, <1>2, <1>3 DEF Init, TypeOK, ActiveStatuses, WorkerPoints, Outcomes, NoJob

\* Inserting a job keeps every variable it touches well typed.
LEMMA EnqueueType ==
  ASSUME TypeOK, NEW k \in Keys, NEW kind, NEW force, Enqueue(k, kind, force)
  PROVE  /\ lazyQ' \in Seq(Jobs) /\ eagerQ' \in Seq(Jobs) /\ asked' \subseteq Jobs
         /\ active' \in [Jobs -> ActiveStatuses]
         /\ byKey' \in [Keys -> Jobs \cup {NoJob}]
         /\ key' \in Seq(Keys) /\ Len(key') <= MaxJobs
         /\ row' \in [Jobs -> Rows]
         /\ pc' \in [Workers -> WorkerPoints]
<1> DEFINE j == Len(key) + 1
<1>1. j \in Jobs
  <2>1. Len(key) \in Nat /\ Len(key) < MaxJobs
    BY DEF TypeOK, Enqueue
  <2> QED BY <2>1, BoundsAssumption DEF Jobs
<1>2. Promoted(k, kind) \in Seq(Jobs)
  BY DEF Promoted, Promotes, TypeOK, NoJob
<1>3. lazyQ' \in Seq(Jobs) /\ eagerQ' \in Seq(Jobs) /\ asked' \subseteq Jobs
  BY <1>1, <1>2 DEF Enqueue, TypeOK
<1>4. active' \in [Jobs -> ActiveStatuses] /\ byKey' \in [Keys -> Jobs \cup {NoJob}]
  BY <1>1 DEF Enqueue, TypeOK, ActiveStatuses, Pending
<1>5. key' \in Seq(Keys) /\ Len(key') <= MaxJobs
  BY BoundsAssumption DEF Enqueue, TypeOK
<1>6. row' \in [Jobs -> Rows]
  BY <1>1 DEF Enqueue, TypeOK, Rows, RowStatuses
<1>7. pc' \in [Workers -> WorkerPoints]
  BY DEF Enqueue, TypeOK, WorkerPoints
<1> QED BY <1>3, <1>4, <1>5, <1>6, <1>7

\* Spending from a budget keeps the account well typed.
LEMMA SpendType ==
  ASSUME TypeOK, NEW b \in {"requests", "cancels", "stops", "errors"}, Spend(b)
  PROVE  used' \in [DOMAIN Budget -> Nat]
<1>1. b \in DOMAIN Budget
  BY DEF Budget
<1> QED BY <1>1 DEF TypeOK, Spend

\* What is left after the end of the process is well typed.
LEMMA ForgetType ==
  ASSUME TypeOK, NEW S, Forget(S), used' \in [DOMAIN Budget -> Nat],
         UNCHANGED <<key, row, cached>>
  PROVE  TypeOK'
<1>1. child' \in [Jobs -> ChildStates] /\ pipe' \in [Jobs -> Seq(Messages)]
  BY DEF Forget, TypeOK, ChildStates, LiveStates
<1>2. /\ active' \in [Jobs -> ActiveStatuses]
      /\ cancelled' \in [Jobs -> BOOLEAN] /\ attached' \in [Jobs -> BOOLEAN]
      /\ byKey' \in [Keys -> Jobs \cup {NoJob}]
  BY DEF Forget, ActiveStatuses
<1>3. /\ pc' \in [Workers -> WorkerPoints] /\ cur' \in [Workers -> Jobs \cup {NoJob}]
      /\ outcome' \in [Workers -> Outcomes] /\ rescued' \in [Workers -> BOOLEAN]
  BY DEF Forget, WorkerPoints, Outcomes
<1>4. lazyQ' \in Seq(Jobs) /\ eagerQ' \in Seq(Jobs) /\ asked' \subseteq Jobs
  BY DEF Forget
<1> QED BY <1>1, <1>2, <1>3, <1>4 DEF Forget, TypeOK

\* _drop keeps the maps well typed.
LEMMA DropsType ==
  ASSUME TypeOK, NEW j \in Jobs, Drops(j)
  PROVE  /\ active' \in [Jobs -> ActiveStatuses] /\ attached' \in [Jobs -> BOOLEAN]
         /\ byKey' \in [Keys -> Jobs \cup {NoJob}]
BY DEF Drops, TypeOK, ActiveStatuses

\* A row stays a row when its status, or status and reason, is written.
LEMMA RowType ==
  ASSUME TypeOK, NEW j \in Jobs, NEW status \in {"queued", "running", "done"},
         NEW reason \in JobReasons
  PROVE  Marked(j, status) \in Rows /\ Failed(j, reason) \in Rows /\ row[j] \in Rows
BY DEF TypeOK, Marked, Failed, Rows, RowStatuses

\* The failed write of a row leaves the worker's own state well typed.
LEMMA WriteErrorType ==
  ASSUME TypeOK, NEW w \in Workers, NEW p \in WorkerPoints, WriteError(w, p)
  PROVE  /\ pc' \in [Workers -> WorkerPoints] /\ outcome' \in [Workers -> Outcomes]
         /\ rescued' \in [Workers -> BOOLEAN] /\ used' \in [DOMAIN Budget -> Nat]
         /\ row' = row
<1>1. Spend("errors")
  BY DEF WriteError
<1>2. used' \in [DOMAIN Budget -> Nat]
  BY <1>1, SpendType
<1> QED BY <1>2 DEF WriteError, TypeOK, Goto, Resolve, Outcomes, JobReasons

\* The write of a row leaves the table and the worker's point well typed.
LEMMA RecordType ==
  ASSUME TypeOK, NEW w \in Workers, NEW p \in WorkerPoints, NEW r \in Rows, Record(w, r, p)
  PROVE  /\ pc' \in [Workers -> WorkerPoints] /\ row' \in [Jobs -> Rows]
         /\ UNCHANGED <<outcome, rescued, used>>
BY DEF Record, TypeOK, Goto

\* The jobs inserted are an initial part of all the jobs there can be.
LEMMA InsertedType == TypeOK => Inserted = 1..Len(key) /\ Inserted \subseteq Jobs
BY BoundsAssumption DEF TypeOK, Inserted, Jobs

\* The queue is only ever shortened by a worker.
LEMMA PopType ==
  ASSUME TypeOK, NEW i \in Nat, PopThrough(i)
  PROVE  lazyQ' \in Seq(Jobs) /\ eagerQ' \in Seq(Jobs) /\ asked' \subseteq Jobs
<1>1. \A q \in Seq(Jobs), m \in Nat : SubSeq(q, m + 1, Len(q)) \in Seq(Jobs)
  BY SubSeqProperties
<1>2. i > Len(lazyQ) => i - Len(lazyQ) \in Nat
  BY DEF TypeOK
<1> QED BY <1>1, <1>2 DEF PopThrough, TypeOK

\* Every heap entry is a job.
LEMMA HeapType ==
  ASSUME TypeOK, NEW i \in 1..Len(Heap)
  PROVE  Heap[i] \in Jobs
<1>1. Heap \in Seq(Jobs)
  BY DEF Heap, TypeOK
<1> QED BY <1>1

\* The routes keep the manager well typed.
LEMMA RequestType ==
  ASSUME TypeOK, RequestNext
  PROVE  TypeOK'
<1>1. PICK k \in Keys : Get(k) \/ Retry(k) \/ CommitHook(k)
  BY DEF RequestNext
<1>2. PICK kind \in {"lazy", "eager"}, force \in BOOLEAN : Submit(k, kind, force)
  BY <1>1 DEF Get, Retry, CommitHook
<1>3. CASE Join(k, kind)
  <2>1. Promoted(k, kind) \in Seq(Jobs) /\ (Promotes(k, kind) => byKey[k] \in Jobs)
    BY DEF Promoted, Promotes, TypeOK, NoJob
  <2>2. lazyQ' \in Seq(Jobs) /\ asked' \subseteq Jobs
    BY <1>3, <2>1 DEF Join, TypeOK
  <2> QED BY <1>3, <2>2 DEF Join, TypeOK, life, mem, kids, wk
<1>4. CASE Enqueue(k, kind, force) /\ Spend("requests") /\ UNCHANGED life
  <2>1. used' \in [DOMAIN Budget -> Nat]
    BY <1>4, SpendType
  <2> QED BY <1>4, <2>1, EnqueueType DEF Enqueue, TypeOK, life, kids
<1> QED BY <1>2, <1>3, <1>4 DEF Submit

\* cancel_bundle keeps the manager well typed.
LEMMA CancelType ==
  ASSUME TypeOK, CancelNext
  PROVE  TypeOK'
<1>1. PICK d \in Digests : CancelBundle(d) \/ CancelReturn(d) \/ CancelTimeout(d)
  BY DEF CancelNext
<1>2. CASE CancelBundle(d)
  <2>1. used' \in [DOMAIN Budget -> Nat]
    BY <1>2, SpendType DEF CancelBundle
  <2>2. /\ active' \in [Jobs -> ActiveStatuses] /\ cancelled' \in [Jobs -> BOOLEAN]
        /\ byKey' \in [Keys -> Jobs \cup {NoJob}] /\ child' \in [Jobs -> ChildStates]
    BY <1>2 DEF CancelBundle, TypeOK, ActiveStatuses, ChildStates, LiveStates
  <2> QED BY <1>2, <2>1, <2>2 DEF CancelBundle, TypeOK, life, queue, wk
<1>3. CASE CancelReturn(d) \/ CancelTimeout(d)
  BY <1>3 DEF CancelReturn, CancelTimeout, TypeOK, life, queue, mem, kids, wk
<1> QED BY <1>1, <1>2, <1>3

\* A shutdown, complete or not, writes values of the right types.
LEMMA StopsType ==
  ASSUME TypeOK, NEW hit, NEW recorded, NEW killed, Stops(hit, recorded, killed),
         used' \in [DOMAIN Budget -> Nat]
  PROVE  TypeOK'
<1>1. row' \in [Jobs -> Rows]
  <2> "restart" \in JobReasons
    BY DEF JobReasons
  <2> QED BY RowType DEF Stops
<1>2. /\ active' \in [Jobs -> ActiveStatuses] /\ cancelled' \in [Jobs -> BOOLEAN]
      /\ child' \in [Jobs -> ChildStates]
  BY DEF Stops, TypeOK, ActiveStatuses, Terminal, ChildStates, LiveStates
<1> QED BY <1>1, <1>2 DEF Stops, TypeOK, queue, wk

\* Start, recovery, shutdown and the end of the process keep it well typed.
LEMMA ServerType ==
  ASSUME TypeOK, ServerNext
  PROVE  TypeOK'
<1>1. CASE Shutdown
  <2>1. used' \in [DOMAIN Budget -> Nat]
    BY <1>1, SpendType DEF Shutdown
  <2> QED BY <1>1, <2>1, StopsType DEF Shutdown
<1>9. CASE ShutdownError
  <2>1. used' \in [DOMAIN Budget -> Nat]
    <3>1. {"stops", "errors"} \subseteq DOMAIN Budget
      BY DEF Budget
    <3>2. used' = [used EXCEPT !.stops = @ + 1, !.errors = @ + 1]
      BY <1>9 DEF ShutdownError
    <3>3. /\ used \in [DOMAIN Budget -> Nat]
          /\ used.stops + 1 \in Nat /\ used.errors + 1 \in Nat
      BY <3>1 DEF TypeOK
    <3> HIDE DEF Budget
    <3> QED BY <3>1, <3>2, <3>3
  <2>2. \E hit, recorded, killed \in SUBSET Inserted : Stops(hit, recorded, killed)
    BY <1>9 DEF ShutdownError, ToStop, ToKill
  <2> QED BY <2>1, <2>2, StopsType
<1>2. CASE Exit
  <2>1. used' \in [DOMAIN Budget -> Nat]
    BY <1>2 DEF Exit, TypeOK
  <2> QED BY <1>2, <2>1, ForgetType DEF Exit
<1>3. CASE Crash
  <2>1. used' \in [DOMAIN Budget -> Nat]
    BY <1>3, SpendType DEF Crash
  <2> QED BY <1>3, <2>1, ForgetType DEF Crash
<1>4. CASE Start
  <2>1. row' \in [Jobs -> Rows]
    <3> "restart" \in JobReasons
      BY DEF JobReasons
    <3> QED BY <1>4, RowType DEF Start
  <2> QED BY <1>4, <2>1 DEF Start, TypeOK, queue, mem, kids, wk
<1>5. CASE Ready
  BY <1>5 DEF Ready, TypeOK, queue, mem, kids, wk
<1>6. ASSUME NEW k \in Keys, RecoverCached(k) PROVE TypeOK'
  BY <1>6 DEF RecoverCached, TypeOK, queue, mem, kids, wk
<1>7. ASSUME NEW k \in Keys, RecoverSubmit(k) PROVE TypeOK'
  BY <1>7, EnqueueType DEF RecoverSubmit, Enqueue, TypeOK, kids
<1>8. ASSUME NEW d \in Digests, RecoverError(d) PROVE TypeOK'
  <2>1. used' \in [DOMAIN Budget -> Nat]
    BY <1>8, SpendType DEF RecoverError
  <2> QED BY <1>8, <2>1 DEF RecoverError, TypeOK, queue, mem, kids, wk
<1> QED BY <1>1, <1>2, <1>3, <1>4, <1>5, <1>6, <1>7, <1>8, <1>9 DEF ServerNext, RecoverNext

\* Every step of a worker keeps it well typed.
LEMMA WorkerType ==
  ASSUME TypeOK, WorkerHoldsJob, OutcomeKnown, NEW w \in Workers, WorkerNext(w)
  PROVE  TypeOK'
<1>0. Inserted \subseteq Jobs /\ (pc[w] \in Holding => cur[w] \in Jobs)
  BY InsertedType DEF WorkerHoldsJob
<1>1. CASE Pick(w)
  <2>1. PICK i \in 1..Len(Heap) :
          /\ PopThrough(i)
          /\ cur' = [cur EXCEPT ![w] = Heap[i]]
          /\ active' = [active EXCEPT ![Heap[i]] = "running"]
    BY <1>1 DEF Pick
  <2>2. Heap[i] \in Jobs
    BY HeapType
  <2>3. lazyQ' \in Seq(Jobs) /\ eagerQ' \in Seq(Jobs) /\ asked' \subseteq Jobs
    BY <2>1, PopType
  <2>4. cur' \in [Workers -> Jobs \cup {NoJob}] /\ active' \in [Jobs -> ActiveStatuses]
    BY <2>1, <2>2 DEF TypeOK, ActiveStatuses, Pending
  <2>5. pc' \in [Workers -> WorkerPoints]
    BY <1>1 DEF Pick, TypeOK, Goto, WorkerPoints
  <2> QED BY <1>1, <2>3, <2>4, <2>5 DEF Pick, TypeOK, life, kids
<1>2. CASE DrainHeap(w)
  BY <1>2 DEF DrainHeap, TypeOK, life, mem, kids, wk
<1>3. CASE Begin(w)
  <2>1. cur[w] \in Jobs
    BY <1>0, <1>3 DEF Begin, Holding, WorkerPoints
  <2>2. Marked(cur[w], "running") \in Rows
    <3>1. "error" \in JobReasons
      BY DEF JobReasons
    <3> QED BY <2>1, <3>1, RowType
  <2>3. "spawn" \in WorkerPoints /\ "end" \in WorkerPoints
    BY DEF WorkerPoints
  <2>4. CASE Record(w, Marked(cur[w], "running"), "spawn")
    BY <1>3, <2>2, <2>3, <2>4, RecordType DEF Begin, TypeOK, life, queue, mem, kids
  <2>5. CASE WriteError(w, "end")
    BY <1>3, <2>3, <2>5, WriteErrorType DEF Begin, TypeOK, life, queue, mem, kids
  <2> QED BY <1>3, <2>4, <2>5 DEF Begin
<1>4. CASE RecvStage(w)
  <2>1. cur[w] \in Jobs
    BY <1>0, <1>4 DEF RecvStage, Receives, Holding, WorkerPoints
  <2>2. row[cur[w]] \in Rows /\ pipe' \in [Jobs -> Seq(Messages)]
    BY <1>4, <2>1 DEF RecvStage, Receives, TypeOK
  <2>3. "loop" \in WorkerPoints /\ "end" \in WorkerPoints
    BY DEF WorkerPoints
  <2>4. CASE Record(w, row[cur[w]], "loop")
    BY <1>4, <2>2, <2>3, <2>4, RecordType DEF RecvStage, TypeOK, life, queue, mem
  <2>5. CASE WriteError(w, "end")
    BY <1>4, <2>2, <2>3, <2>5, WriteErrorType DEF RecvStage, TypeOK, life, queue, mem
  <2> QED BY <1>4, <2>4, <2>5 DEF RecvStage
<1>5. CASE Write(w)
  <2>1. cur[w] \in Jobs
    BY <1>0, <1>5 DEF Write, Holding, WorkerPoints
  <2>2. outcome[w] \in {"done"} \cup JobReasons
    BY <1>5 DEF Write, OutcomeKnown
  <2>3. Marked(cur[w], "done") \in Rows
    <3>1. "error" \in JobReasons
      BY DEF JobReasons
    <3> QED BY <2>1, <3>1, RowType
  <2>4. FinalRow(w) \in Rows
    BY <2>1, <2>2, <2>3, RowType DEF FinalRow
  <2>5. "drop" \in WorkerPoints /\ "end" \in WorkerPoints
    BY DEF WorkerPoints
  <2>6. CASE Record(w, FinalRow(w), "drop")
    BY <1>5, <2>4, <2>5, <2>6, RecordType DEF Write, TypeOK, life, queue, mem, kids
  <2>7. CASE WriteError(w, IF rescued[w] THEN "drop" ELSE "end")
    <3>1. (IF rescued[w] THEN "drop" ELSE "end") \in WorkerPoints
      BY <2>5
    <3> QED BY <1>5, <2>7, <3>1, WriteErrorType DEF Write, TypeOK, life, queue, mem, kids
  <2> QED BY <1>5, <2>6, <2>7 DEF Write
<1>6. CASE SpawnError(w)
  <2>1. cur[w] \in Jobs
    BY <1>0, <1>6 DEF SpawnError, Holding, WorkerPoints
  <2>2. used' \in [DOMAIN Budget -> Nat]
    BY <1>6, SpendType DEF SpawnError
  <2>3. /\ active' \in [Jobs -> ActiveStatuses] /\ attached' \in [Jobs -> BOOLEAN]
        /\ byKey' \in [Keys -> Jobs \cup {NoJob}]
    BY <1>6, <2>1, DropsType DEF SpawnError
  <2>4. /\ pc' \in [Workers -> WorkerPoints] /\ outcome' \in [Workers -> Outcomes]
        /\ rescued' \in [Workers -> BOOLEAN]
    BY <1>6 DEF SpawnError, TypeOK, Goto, Resolve, WorkerPoints, Outcomes, JobReasons
  <2> QED BY <1>6, <2>2, <2>3, <2>4 DEF SpawnError, TypeOK, life, queue, kids
<1>14. CASE PipeError(w)
  <2>1. "end" \in WorkerPoints
    BY DEF WorkerPoints
  <2> QED BY <1>14, <2>1, WriteErrorType DEF PipeError, TypeOK, life, queue, mem, kids
<1>7. CASE Drop(w)
  <2>1. cur[w] \in Jobs
    BY <1>0, <1>7 DEF Drop, Holding, WorkerPoints
  <2>2. /\ active' \in [Jobs -> ActiveStatuses] /\ attached' \in [Jobs -> BOOLEAN]
        /\ byKey' \in [Keys -> Jobs \cup {NoJob}]
    BY <1>7, <2>1, DropsType DEF Drop
  <2>3. pc' \in [Workers -> WorkerPoints] /\ outcome' \in [Workers -> Outcomes]
    BY <1>7 DEF Drop, TypeOK, Goto, Resolve, WorkerPoints, Outcomes
  <2>5. rescued' \in [Workers -> BOOLEAN]
    BY <1>7 DEF Drop, TypeOK
  <2>4. cur' \in [Workers -> Jobs \cup {NoJob}]
    BY <1>7 DEF Drop, TypeOK
  <2>6. pipe' \in [Jobs -> Seq(Messages)]
    <3>1. <<>> \in Seq(Messages)
      OBVIOUS
    <3> QED BY <1>7, <3>1 DEF Drop, TypeOK
  <2> QED BY <1>7, <2>2, <2>3, <2>4, <2>5, <2>6 DEF Drop, TypeOK, life, queue
<1>8. CASE EndChild(w)
  <2>1. outcome' \in [Workers -> Outcomes] /\ pc' \in [Workers -> WorkerPoints]
    BY <1>8 DEF EndChild, TypeOK, Recorded, Goto, Resolve, Outcomes, JobReasons, WorkerPoints
  <2>2. child' \in [Jobs -> ChildStates] /\ active' \in [Jobs -> ActiveStatuses]
    BY <1>8 DEF EndChild, KilledChild, Ended, TypeOK, ChildStates, ActiveStatuses, Terminal
  <2> QED BY <1>8, <2>1, <2>2 DEF EndChild, TypeOK, life, queue
<1>9. ASSUME NEW m \in Messages, RecvFinal(w, m) PROVE TypeOK'
  <2>1. m \in Outcomes /\ "end" \in WorkerPoints
    BY <1>9 DEF RecvFinal, Messages, Outcomes, JobReasons, WorkerPoints
  <2>2. pipe' \in [Jobs -> Seq(Messages)]
    <3>1. cur[w] \in Jobs
      BY <1>0, <1>9 DEF RecvFinal, Receives, Holding, WorkerPoints
    <3> QED BY <1>9, <3>1 DEF RecvFinal, Receives, TypeOK
  <2> QED BY <1>9, <2>1, <2>2 DEF RecvFinal, TypeOK, Goto, Resolve, life, queue, mem
<1>10. CASE Spawn(w)
  BY <1>10 DEF Spawn, TypeOK, Goto, WorkerPoints, ChildStates, LiveStates, life, queue, mem
<1>11. CASE Attach(w)
  <2>1. attached' \in [Jobs -> BOOLEAN] /\ pc' \in [Workers -> WorkerPoints]
    BY <1>11 DEF Attach, TypeOK, Goto, WorkerPoints, IsActive
  <2> QED BY <1>11, <2>1 DEF Attach, TypeOK, life, queue, kids
<1>12. CASE CheckStopped(w) \/ CheckDeadline(w) \/ RecvEof(w)
  <2>1. outcome' \in [Workers -> Outcomes] /\ pc' \in [Workers -> WorkerPoints]
    BY <1>12 DEF CheckStopped, CheckDeadline, RecvEof, TypeOK, Goto, Resolve, WorkerPoints,
                 Outcomes, JobReasons
  <2> QED BY <1>12, <2>1 DEF CheckStopped, CheckDeadline, RecvEof, TypeOK, life, queue, mem, kids
<1>13. CASE CheckOk(w) \/ PollTimeout(w) \/ Leave(w)
  <2>1. pc' \in [Workers -> WorkerPoints]
    BY <1>13 DEF CheckOk, PollTimeout, Leave, TypeOK, Goto, WorkerPoints
  <2> QED BY <1>13, <2>1 DEF CheckOk, PollTimeout, Leave, TypeOK, life, queue, mem, kids
<1> QED
  BY <1>1, <1>2, <1>3, <1>4, <1>5, <1>6, <1>7, <1>8, <1>9, <1>10, <1>11, <1>12, <1>13,
     <1>14 DEF WorkerNext, WorkerStep

\* Every step of a child keeps it well typed.
LEMMA ChildType ==
  ASSUME TypeOK, NEW j \in Inserted, ChildNext(j)
  PROVE  TypeOK'
<1>1. j \in Jobs /\ key[j] \in Keys
  BY InsertedType DEF TypeOK, Inserted
<1>2. child' \in [Jobs -> ChildStates]
  BY DEF ChildNext, ChildStart, ChildDerive, ChildReport, ChildFail, ChildExit, ChildCrash, OrphanEnds,
         ChildStep, TypeOK, ChildStates, LiveStates
<1>3. pipe' \in [Jobs -> Seq(Messages)]
  <2>1. \A m \in Messages : Sends(j, m) => pipe' \in [Jobs -> Seq(Messages)]
    BY <1>1 DEF Sends, TypeOK
  <2>2. {"stage", "done", "error"} \subseteq Messages
    BY DEF Messages
  <2> QED BY <2>1, <2>2 DEF ChildNext, ChildStart, ChildDerive, ChildReport, ChildFail, ChildExit,
             ChildCrash, OrphanEnds, TypeOK
<1>4. cached' \subseteq Keys
  BY <1>1 DEF ChildNext, ChildStart, ChildDerive, ChildReport, ChildFail, ChildExit, ChildCrash,
              OrphanEnds, TypeOK
<1> QED BY <1>2, <1>3, <1>4 DEF ChildNext, TypeOK, life, queue, mem, wk

\* Type correctness is inductive by itself.
LEMMA TypeNext ==
  ASSUME TypeOK, WorkerHoldsJob, OutcomeKnown, [Next]_vars
  PROVE  TypeOK'
<1>1. CASE UNCHANGED vars
  BY <1>1 DEF vars, life, queue, mem, kids, wk, TypeOK
<1> QED BY <1>1, RequestType, CancelType, WorkerType, ChildType, ServerType DEF Next

-----------------------------------------------------------------------------
(* The inductive invariant *)

\* The inductive invariant holds before the first start.
LEMMA InvInit == Init => IInv
<1> SUFFICES ASSUME Init PROVE IInv
  OBVIOUS
<1>1. TypeOK
  BY TypeInit
<1>2. WorkerHoldsJob /\ HeldNotQueued /\ OutcomeKnown /\ OneRunnerPerJob
  BY DEF Init, WorkerHoldsJob, HeldNotQueued, OutcomeKnown, OneRunnerPerJob, Holding, NoJob
<1>3. ActiveIsIndexed /\ LiveIsFollowed
  BY DEF Init, ActiveIsIndexed, LiveIsFollowed, IsActive, Live, LiveStates
<1>4. InsertedHasRow
  BY DEF Init, InsertedHasRow, Inserted
<1> QED BY <1>1, <1>2, <1>3, <1>4 DEF IInv

\* The part of the invariant that is not about types.
Sound ==
  /\ WorkerHoldsJob /\ HeldNotQueued /\ OutcomeKnown /\ ActiveIsIndexed
  /\ InsertedHasRow /\ LiveIsFollowed /\ OneRunnerPerJob

\* What the other lemmas take from the invariant, in the form they use.
LEMMA Facts ==
  ASSUME IInv
  PROVE  /\ TypeOK /\ Sound
         /\ Inserted = 1..Len(key) /\ Inserted \subseteq Jobs
         /\ \A w \in Workers : cur[w] # NoJob => pc[w] \in Holding /\ cur[w] \in Inserted
         /\ \A w \in Workers : pc[w] \in Holding => cur[w] # NoJob /\ cur[w] \in Inserted
<1>1. TypeOK /\ Sound /\ Inserted = 1..Len(key) /\ Inserted \subseteq Jobs
  BY InsertedType DEF IInv, Sound
<1> QED BY <1>1 DEF Sound, WorkerHoldsJob, NoJob, Jobs

\* The rows that exist go on existing.
LEMMA RowStays ==
  ASSUME IInv, NEW w \in Workers, NEW p, NEW r \in Rows, Record(w, r, p),
         r.status # "absent", UNCHANGED key
  PROVE  InsertedHasRow'
BY Facts DEF Sound, InsertedHasRow, Present, Record, TypeOK, Inserted

Early == {"begin", "spawn", "attach", "loop", "poll"}
Follows == {"attach", "loop", "poll", "end"}

\* A worker step that moves the worker between points at which it holds its
\* job, and touches neither the maps, nor the children, nor its job.
LEMMA QuietStep ==
  ASSUME IInv, NEW w \in Workers, NEW p \in Holding,
         UNCHANGED <<active, byKey, key, child, cur>>,
         pc' = [pc EXCEPT ![w] = p], pc[w] \in Holding,
         p \in Early => pc[w] \in Early,
         pc[w] \in Follows => p \in Follows
  PROVE  /\ WorkerHoldsJob' /\ HeldNotQueued' /\ ActiveIsIndexed'
         /\ LiveIsFollowed' /\ OneRunnerPerJob'
<1>1. TypeOK /\ Sound
  BY Facts
<1>2. WorkerHoldsJob'
  BY <1>1 DEF Sound, WorkerHoldsJob, TypeOK, Inserted
<1>3. HeldNotQueued'
  BY <1>1 DEF Sound, HeldNotQueued, TypeOK, IsActive, Early
<1>4. ActiveIsIndexed' /\ OneRunnerPerJob'
  BY <1>1 DEF Sound, ActiveIsIndexed, OneRunnerPerJob, IsActive, Inserted
<1>5. LiveIsFollowed'
  <2> SUFFICES ASSUME NEW j \in Jobs, Live(j)'
               PROVE  IsActive(j)' /\ \E v \in Workers : Runs(v, j)'
    BY DEF LiveIsFollowed
  <2>1. IsActive(j) /\ \E v \in Workers : Runs(v, j)
    BY <1>1 DEF Sound, LiveIsFollowed, Live
  <2>2. \A v \in Workers : Runs(v, j) => Runs(v, j)'
    BY <1>1 DEF Runs, TypeOK, Follows
  <2> QED BY <2>1, <2>2 DEF IsActive
<1> QED BY <1>2, <1>3, <1>4, <1>5

\* What a step leaves of OutcomeKnown, when it sets the outcome of one worker.
LEMMA OutcomeStep ==
  ASSUME IInv, NEW w \in Workers, NEW p, NEW o,
         pc' = [pc EXCEPT ![w] = p], outcome' = [outcome EXCEPT ![w] = o],
         p = "end" => o # "none",
         p = "write" => o \in {"done"} \cup JobReasons
  PROVE  OutcomeKnown'
BY DEF IInv, OutcomeKnown, TypeOK

\* A failed write changes no row and gives the worker an outcome.
LEMMA WriteErrorStep ==
  ASSUME IInv, NEW w \in Workers, NEW p \in {"end", "drop"}, WriteError(w, p), UNCHANGED key
  PROVE  OutcomeKnown' /\ InsertedHasRow' /\ pc' = [pc EXCEPT ![w] = p]
<1>1. pc' = [pc EXCEPT ![w] = p] /\ outcome' = [outcome EXCEPT ![w] = "error"] /\ row' = row
  BY DEF WriteError, Goto, Resolve
<1>2. OutcomeKnown'
  BY <1>1, OutcomeStep
<1> QED BY <1>1, <1>2 DEF IInv, InsertedHasRow, Present, Inserted

\* A write moves the worker on and leaves every job with its row.
LEMMA RecordStep ==
  ASSUME IInv, NEW w \in Workers, NEW p \in {"spawn", "loop", "drop"}, NEW r \in Rows,
         Record(w, r, p), r.status # "absent", UNCHANGED key
  PROVE  OutcomeKnown' /\ InsertedHasRow' /\ pc' = [pc EXCEPT ![w] = p]
<1>1. pc' = [pc EXCEPT ![w] = p] /\ outcome' = outcome
  BY DEF Record, Goto
<1>2. OutcomeKnown'
  BY <1>1 DEF IInv, OutcomeKnown, TypeOK
<1> QED BY <1>1, <1>2, RowStays

\* Writing the row of a job that has one leaves it with one.
LEMMA HeldRow ==
  ASSUME IInv, NEW w \in Workers, pc[w] \in Holding
  PROVE  /\ Marked(cur[w], "running") \in Rows /\ Marked(cur[w], "running").status # "absent"
         /\ row[cur[w]] \in Rows /\ row[cur[w]].status # "absent"
         /\ pc[w] = "write" => FinalRow(w) \in Rows /\ FinalRow(w).status # "absent"
<1>1. TypeOK /\ cur[w] \in Jobs /\ Present(cur[w])
  BY Facts DEF Sound, InsertedHasRow
<1>2. pc[w] = "write" => outcome[w] \in {"done"} \cup JobReasons
  BY DEF IInv, OutcomeKnown
<1>3. "error" \in JobReasons
  BY DEF JobReasons
<1>4. /\ Marked(cur[w], "running") \in Rows /\ Marked(cur[w], "done") \in Rows
      /\ row[cur[w]] \in Rows /\ \A r \in JobReasons : Failed(cur[w], r) \in Rows
  BY <1>1, <1>3, RowType
<1>5. /\ Marked(cur[w], "running").status # "absent"
      /\ Marked(cur[w], "done").status # "absent"
      /\ \A r \in JobReasons : Failed(cur[w], r).status # "absent"
  BY <1>1, <1>4 DEF Marked, Failed, Present, Rows
<1> QED BY <1>1, <1>2, <1>4, <1>5 DEF FinalRow, Present

\* The worker steps that leave the maps and the children alone are sound.
LEMMA QuietWorker ==
  ASSUME IInv, NEW w \in Workers,
         \/ Begin(w) \/ PipeError(w) \/ RecvStage(w) \/ Write(w)
         \/ Attach(w) \/ CheckStopped(w) \/ CheckDeadline(w) \/ CheckOk(w)
         \/ PollTimeout(w) \/ RecvEof(w) \/ \E m \in Messages : RecvFinal(w, m)
  PROVE  Sound'
<1> USE DEF mem, kids, Early, Follows, Holding, WorkerPoints
<1>1. CASE Begin(w)
  <2>1. UNCHANGED <<active, byKey, key, child, cur>> /\ pc[w] = "begin"
    BY <1>1 DEF Begin
  <2>2. \E p \in {"spawn", "end"} : pc' = [pc EXCEPT ![w] = p]
    BY <1>1 DEF Begin, Record, WriteError, Goto
  <2>3. OutcomeKnown' /\ InsertedHasRow'
    BY <1>1, <2>1, HeldRow, RecordStep, WriteErrorStep DEF Begin
  <2> QED BY <2>1, <2>2, <2>3, QuietStep DEF Sound
<1>2. CASE RecvStage(w)
  <2>1. UNCHANGED <<active, byKey, key, child, cur>> /\ pc[w] = "poll"
    BY <1>2 DEF RecvStage, Receives
  <2>2. \E p \in {"loop", "end"} : pc' = [pc EXCEPT ![w] = p]
    BY <1>2 DEF RecvStage, Record, WriteError, Goto
  <2>3. OutcomeKnown' /\ InsertedHasRow'
    BY <1>2, <2>1, HeldRow, RecordStep, WriteErrorStep DEF RecvStage
  <2> QED BY <2>1, <2>2, <2>3, QuietStep DEF Sound
<1>3. CASE Write(w)
  <2>1. UNCHANGED <<active, byKey, key, child, cur>> /\ pc[w] = "write"
    BY <1>3 DEF Write
  <2>2. \E p \in {"drop", "end"} : pc' = [pc EXCEPT ![w] = p]
    BY <1>3 DEF Write, Record, WriteError, Goto
  <2>3. (IF rescued[w] THEN "drop" ELSE "end") \in {"end", "drop"}
    OBVIOUS
  <2>4. OutcomeKnown' /\ InsertedHasRow'
    BY <1>3, <2>1, <2>3, HeldRow, RecordStep, WriteErrorStep DEF Write
  <2> QED BY <2>1, <2>2, <2>4, QuietStep DEF Sound
<1>5. CASE PipeError(w)
  <2>1. UNCHANGED <<active, byKey, key, child, cur>> /\ pc[w] = "spawn"
    BY <1>5 DEF PipeError
  <2>2. \E p \in {"end"} : pc' = [pc EXCEPT ![w] = p]
    BY <1>5 DEF PipeError, WriteError, Goto
  <2>3. OutcomeKnown' /\ InsertedHasRow'
    BY <1>5, <2>1, WriteErrorStep DEF PipeError
  <2> QED BY <2>1, <2>2, <2>3, QuietStep DEF Sound
<1>4. CASE Attach(w) \/ CheckStopped(w) \/ CheckDeadline(w) \/ CheckOk(w) \/ PollTimeout(w)
           \/ RecvEof(w) \/ \E m \in Messages : RecvFinal(w, m)
  <2>1. UNCHANGED <<active, byKey, key, row, child, cur>> /\ pc[w] \in {"attach", "loop", "poll"}
    BY <1>4 DEF Attach, CheckStopped, CheckDeadline, CheckOk, PollTimeout, RecvEof,
                RecvFinal, Receives
  <2>2. PICK p \in {"loop", "poll", "end"}, o \in Outcomes \cup {outcome[w]} :
          /\ pc' = [pc EXCEPT ![w] = p]
          /\ outcome' = [outcome EXCEPT ![w] = o]
          /\ p = "end" => o # "none"
    <3>1. outcome = [outcome EXCEPT ![w] = outcome[w]]
      BY Facts DEF TypeOK
    <3>2. CASE Attach(w) \/ CheckOk(w) \/ PollTimeout(w)
      BY <3>1, <3>2 DEF Attach, CheckOk, PollTimeout, Goto
    <3>3. CASE CheckStopped(w) \/ CheckDeadline(w) \/ RecvEof(w)
      BY <3>3 DEF CheckStopped, CheckDeadline, RecvEof, Goto, Resolve, Outcomes, JobReasons
    <3>4. CASE \E m \in Messages : RecvFinal(w, m)
      BY <3>4 DEF RecvFinal, Goto, Resolve, Outcomes, JobReasons, Messages
    <3> QED BY <1>4, <3>2, <3>3, <3>4
  <2>3. OutcomeKnown'
    BY <2>2, OutcomeStep
  <2>4. InsertedHasRow'
    BY <2>1, Facts DEF Sound, InsertedHasRow, Present, Inserted
  <2> QED BY <2>1, <2>2, <2>3, <2>4, QuietStep DEF Sound
<1> QED BY <1>1, <1>2, <1>3, <1>4, <1>5

\* A queued job is in no worker's hands: it is picked once.
LEMMA PickStep ==
  ASSUME IInv, NEW w \in Workers, Pick(w)
  PROVE  Sound'
<1>1. PICK i \in 1..Len(Heap) :
        /\ active[Heap[i]] = "queued"
        /\ cur' = [cur EXCEPT ![w] = Heap[i]]
        /\ active' = [active EXCEPT ![Heap[i]] = "running"]
  BY DEF Pick, FirstRunnable, Runnable
<1> DEFINE j == Heap[i]
<1>2. TypeOK /\ Sound /\ j \in Jobs /\ j \in Inserted /\ pc[w] = "idle"
  BY <1>1, Facts, HeapType DEF Sound, ActiveIsIndexed, IsActive, Pick
<1>3. /\ pc' = [pc EXCEPT ![w] = "begin"]
      /\ UNCHANGED <<byKey, key, row, child, outcome>>
  BY DEF Pick, Goto, kids
<1>4. \A v \in Workers : cur[v] # j /\ (cur[v] = NoJob => v = w \/ pc[v] \notin Holding)
  BY <1>1, <1>2, Facts DEF Sound, HeldNotQueued, NoJob, Jobs
<1>5. WorkerHoldsJob'
  BY <1>1, <1>2, <1>3 DEF Sound, WorkerHoldsJob, TypeOK, Inserted, Holding, WorkerPoints
<1>6. HeldNotQueued'
  BY <1>1, <1>2, <1>3, <1>4 DEF Sound, HeldNotQueued, TypeOK, IsActive
<1>7. OutcomeKnown'
  BY <1>2, <1>3 DEF Sound, OutcomeKnown, TypeOK
<1>8. ActiveIsIndexed' /\ InsertedHasRow'
  BY <1>1, <1>2, <1>3
     DEF Sound, ActiveIsIndexed, InsertedHasRow, TypeOK, IsActive, Present, Inserted
<1>9. OneRunnerPerJob'
  BY <1>1, <1>2, <1>4 DEF Sound, OneRunnerPerJob, TypeOK
<1>10. LiveIsFollowed'
  <2> SUFFICES ASSUME NEW h \in Jobs, Live(h)'
               PROVE  IsActive(h)' /\ \E v \in Workers : Runs(v, h)'
    BY DEF LiveIsFollowed
  <2>1. IsActive(h) /\ \E v \in Workers : Runs(v, h)
    BY <1>2, <1>3 DEF Sound, LiveIsFollowed, Live
  <2>2. \A v \in Workers : Runs(v, h) => v # w /\ Runs(v, h)'
    BY <1>1, <1>2, <1>3 DEF Runs, TypeOK
  <2> QED BY <1>1, <1>2, <2>1, <2>2 DEF IsActive, TypeOK
<1> QED BY <1>5, <1>6, <1>7, <1>8, <1>9, <1>10 DEF Sound

\* A child starts under a worker that follows it.
LEMMA SpawnStep ==
  ASSUME IInv, NEW w \in Workers, Spawn(w)
  PROVE  Sound'
<1>1. /\ TypeOK /\ Sound /\ cur[w] \in Jobs /\ pc[w] = "spawn" /\ IsActive(cur[w])
  BY Facts DEF Spawn, Holding, WorkerPoints, Sound, HeldNotQueued
<1>2. /\ pc' = [pc EXCEPT ![w] = "attach"]
      /\ child' = [child EXCEPT ![cur[w]] = "starting"]
      /\ UNCHANGED <<active, byKey, key, row, cur, outcome>>
  BY DEF Spawn, Goto, mem
<1>3. WorkerHoldsJob' /\ HeldNotQueued' /\ OutcomeKnown' /\ OneRunnerPerJob'
  BY <1>1, <1>2 DEF Sound, WorkerHoldsJob, HeldNotQueued, OutcomeKnown, OneRunnerPerJob,
                    TypeOK, IsActive, Inserted, Holding, WorkerPoints
<1>4. ActiveIsIndexed' /\ InsertedHasRow'
  BY <1>1, <1>2 DEF Sound, ActiveIsIndexed, InsertedHasRow, IsActive, Present, Inserted
<1>5. LiveIsFollowed'
  <2> SUFFICES ASSUME NEW h \in Jobs, Live(h)'
               PROVE  IsActive(h)' /\ \E v \in Workers : Runs(v, h)'
    BY DEF LiveIsFollowed
  <2>1. CASE h = cur[w]
    BY <1>1, <1>2, <2>1 DEF Runs, TypeOK, IsActive
  <2>2. CASE h # cur[w]
    <3>1. IsActive(h) /\ \E v \in Workers : Runs(v, h)
      BY <1>1, <1>2, <2>2 DEF Sound, LiveIsFollowed, Live, TypeOK
    <3>2. \A v \in Workers : Runs(v, h) => Runs(v, h)'
      BY <1>1, <1>2, <2>2 DEF Runs, TypeOK
    <3> QED BY <1>2, <3>1, <3>2 DEF IsActive
  <2> QED BY <2>1, <2>2
<1> QED BY <1>3, <1>4, <1>5 DEF Sound

\* Ending the child comes before anything that lets go of the job.
LEMMA EndChildStep ==
  ASSUME IInv, NEW w \in Workers, EndChild(w)
  PROVE  Sound'
<1>1. /\ TypeOK /\ Sound /\ cur[w] \in Jobs /\ pc[w] = "end"
  BY Facts DEF EndChild, Holding, WorkerPoints
<1>2. /\ UNCHANGED <<byKey, key, row, cur>>
      /\ child' = [child EXCEPT ![cur[w]] = IF @ \in LiveStates THEN "dead" ELSE @]
      /\ outcome' = [outcome EXCEPT ![w] = Recorded(w)]
  BY DEF EndChild, KilledChild, Ended, Resolve
<1>3. PICK p \in {"drop", "write"}, a \in ActiveStatuses :
        /\ pc' = [pc EXCEPT ![w] = p]
        /\ active' = [active EXCEPT ![cur[w]] = a]
        /\ a = "none" <=> ~IsActive(cur[w])
        /\ a # "queued"
        /\ p = "write" => Recorded(w) # "cancelled"
  <2>1. CASE Recorded(w) = "cancelled"
    <3>1. pc' = [pc EXCEPT ![w] = "drop"] /\ active' = [active EXCEPT ![cur[w]] = active[cur[w]]]
      BY <1>1, <2>1 DEF EndChild, Goto, TypeOK
    <3>2. active[cur[w]] \in ActiveStatuses /\ active[cur[w]] # "queued"
      BY <1>1 DEF Sound, HeldNotQueued, TypeOK, NoJob, Jobs
    <3> QED BY <2>1, <3>1, <3>2 DEF IsActive
  <2>2. CASE Recorded(w) # "cancelled"
    <3> DEFINE a == IF ~IsActive(cur[w]) THEN "none"
                    ELSE IF outcome[w] = "done" THEN "done" ELSE "failed"
    <3>1. pc' = [pc EXCEPT ![w] = "write"] /\ active' = [active EXCEPT ![cur[w]] = a]
      BY <2>2 DEF EndChild, Goto
    <3>2. /\ a \in ActiveStatuses /\ a # "queued"
          /\ a = "none" <=> ~IsActive(cur[w])
      BY DEF ActiveStatuses, Terminal
    <3> QED BY <2>2, <3>1, <3>2
  <2> QED BY <2>1, <2>2
<1>4. WorkerHoldsJob' /\ OneRunnerPerJob'
  BY <1>1, <1>2, <1>3 DEF Sound, WorkerHoldsJob, OneRunnerPerJob, TypeOK, Inserted, Holding,
                          WorkerPoints
<1>5. HeldNotQueued'
  BY <1>1, <1>2, <1>3 DEF Sound, HeldNotQueued, OneRunnerPerJob, TypeOK, IsActive
<1>6. OutcomeKnown'
  <2>1. Recorded(w) = "cancelled" \/ Recorded(w) \in {"done"} \cup JobReasons
    BY <1>1 DEF Recorded, Sound, OutcomeKnown, TypeOK, Outcomes, JobReasons
  <2> QED BY <1>2, <1>3, <2>1, OutcomeStep
<1>7. ActiveIsIndexed'
  BY <1>1, <1>2, <1>3 DEF Sound, ActiveIsIndexed, IsActive, TypeOK, Inserted
<1>8. InsertedHasRow'
  BY <1>1, <1>2 DEF Sound, InsertedHasRow, Present, Inserted
<1>9. LiveIsFollowed'
  <2> SUFFICES ASSUME NEW h \in Jobs, Live(h)'
               PROVE  IsActive(h)' /\ \E v \in Workers : Runs(v, h)'
    BY DEF LiveIsFollowed
  <2>1. h # cur[w] /\ Live(h)
    BY <1>1, <1>2 DEF Live, LiveStates, TypeOK
  <2>2. IsActive(h) /\ \E v \in Workers : Runs(v, h)
    BY <1>1, <2>1 DEF Sound, LiveIsFollowed
  <2>3. \A v \in Workers : Runs(v, h) => Runs(v, h)'
    BY <1>1, <1>2, <1>3, <2>1 DEF Runs, TypeOK
  <2> QED BY <1>1, <1>3, <2>1, <2>2, <2>3 DEF IsActive, TypeOK
<1> QED BY <1>4, <1>5, <1>6, <1>7, <1>8, <1>9 DEF Sound

\* What _drop does to the maps: job j leaves them, and nothing else changes,
\* because the entry of its key is its own.
LEMMA DropsStep ==
  ASSUME IInv, NEW j \in Jobs, Drops(j), UNCHANGED key
  PROVE  /\ ActiveIsIndexed'
         /\ active' = [active EXCEPT ![j] = "none"]
<1>1. TypeOK /\ Sound /\ active' = [active EXCEPT ![j] = "none"]
  BY Facts DEF Drops
<1>2. \A i \in Jobs : IsActive(i)' => i # j /\ IsActive(i)
  BY <1>1 DEF IsActive, TypeOK
<1>3. \A i \in Jobs : IsActive(i) /\ IsActive(j) /\ i # j => key[i] # key[j]
  BY <1>1 DEF Sound, ActiveIsIndexed
<1>4. ASSUME NEW i \in Jobs, IsActive(i)' PROVE i \in Inserted /\ byKey'[key[i]] = i
  <2>1. i # j /\ i \in Inserted /\ byKey[key[i]] = i /\ key[i] \in Keys
    BY <1>1, <1>2, <1>4 DEF Sound, ActiveIsIndexed, TypeOK, Inserted
  <2> QED BY <1>1, <1>2, <1>3, <1>4, <2>1 DEF Drops, TypeOK
<1> QED BY <1>1, <1>4 DEF ActiveIsIndexed, Inserted

\* Dropping the job of a worker that has no live child.
LEMMA LetGo ==
  ASSUME IInv, NEW w \in Workers, pc[w] \in {"spawn", "drop"}, Drops(cur[w]),
         UNCHANGED <<key, row, child>>,
         NEW p \in {"end", "idle"}, pc' = [pc EXCEPT ![w] = p],
         cur' = [cur EXCEPT ![w] = IF p = "end" THEN @ ELSE NoJob]
  PROVE  /\ WorkerHoldsJob' /\ HeldNotQueued' /\ ActiveIsIndexed' /\ InsertedHasRow'
         /\ LiveIsFollowed' /\ OneRunnerPerJob'
<1>1. TypeOK /\ Sound /\ cur[w] \in Jobs
  BY Facts DEF Holding, WorkerPoints
<1>2. ActiveIsIndexed' /\ active' = [active EXCEPT ![cur[w]] = "none"]
  BY <1>1, DropsStep
<1>3. WorkerHoldsJob' /\ OneRunnerPerJob' /\ InsertedHasRow'
  BY <1>1 DEF Sound, WorkerHoldsJob, OneRunnerPerJob, InsertedHasRow, TypeOK, Present, Inserted,
              Holding, WorkerPoints
<1>4. HeldNotQueued'
  <2> SUFFICES ASSUME NEW v \in Workers, cur'[v] # NoJob
               PROVE  /\ active'[cur'[v]] # "queued"
                      /\ pc'[v] \in Early => IsActive(cur[v])'
    BY <1>1, <1>3 DEF HeldNotQueued, IsActive, Early, TypeOK
  <2>1. CASE v = w
    BY <1>1, <1>2, <2>1 DEF TypeOK, Early
  <2>2. CASE v # w
    <3>1. cur[v] # cur[w] /\ cur'[v] = cur[v] /\ pc'[v] = pc[v] /\ cur[v] # NoJob
      BY <1>1, <2>2 DEF Sound, OneRunnerPerJob, TypeOK, NoJob, Jobs
    <3>2. active'[cur[v]] = active[cur[v]]
      BY <1>1, <1>2, <3>1 DEF TypeOK
    <3> QED BY <1>1, <3>1, <3>2 DEF Sound, HeldNotQueued, IsActive, Early
  <2> QED BY <2>1, <2>2
<1>5. LiveIsFollowed'
  <2> SUFFICES ASSUME NEW h \in Jobs, Live(h)'
               PROVE  IsActive(h)' /\ \E v \in Workers : Runs(v, h)'
    BY DEF LiveIsFollowed
  <2>1. IsActive(h) /\ \E v \in Workers : Runs(v, h)
    BY <1>1 DEF Sound, LiveIsFollowed, Live
  <2>2. h # cur[w]
    BY <1>1, <2>1 DEF Sound, OneRunnerPerJob, Runs, NoJob, Jobs
  <2>3. \A v \in Workers : Runs(v, h) => Runs(v, h)'
    BY <1>1, <2>2 DEF Runs, TypeOK
  <2> QED BY <1>1, <1>2, <2>1, <2>2, <2>3 DEF IsActive, TypeOK
<1> QED BY <1>2, <1>3, <1>4, <1>5

\* The finally block, and the error of process.start(), are sound.
LEMMA DropStep ==
  ASSUME IInv, NEW w \in Workers, Drop(w) \/ SpawnError(w)
  PROVE  Sound'
<1>1. PICK p \in {"end", "idle"}, o \in Outcomes :
        /\ pc[w] \in {"spawn", "drop"} /\ Drops(cur[w])
        /\ pc' = [pc EXCEPT ![w] = p]
        /\ outcome' = [outcome EXCEPT ![w] = o] /\ (p = "end" => o # "none")
        /\ cur' = [cur EXCEPT ![w] = IF p = "end" THEN @ ELSE NoJob]
        /\ UNCHANGED <<key, row, child>>
  <2>1. CASE Drop(w)
    BY <2>1 DEF Drop, Goto, Resolve, Outcomes
  <2>2. CASE SpawnError(w)
    <3>1. cur = [cur EXCEPT ![w] = cur[w]]
      BY Facts DEF TypeOK
    <3> QED BY <2>2, <3>1 DEF SpawnError, Goto, Resolve, kids, Outcomes, JobReasons
  <2> QED BY <2>1, <2>2
<1>2. OutcomeKnown'
  BY <1>1, OutcomeStep
<1> QED BY <1>1, <1>2, LetGo DEF Sound

\* A worker without a job that drains the heap or leaves is sound.
LEMMA IdleStep ==
  ASSUME IInv, NEW w \in Workers, DrainHeap(w) \/ Leave(w)
  PROVE  Sound'
<1>1. UNCHANGED <<active, byKey, key, row, child, cur, outcome>> /\ pc[w] = "idle"
  BY DEF DrainHeap, Leave, mem, kids, wk
<1>2. pc' = pc \/ pc' = [pc EXCEPT ![w] = "gone"]
  BY DEF DrainHeap, Leave, Goto, wk
<1>3. \A v \in Workers : pc'[v] = pc[v] \/ (v = w /\ pc'[v] = "gone")
  BY <1>2, Facts DEF TypeOK
<1>4. \A v \in Workers, h \in Jobs : Runs(v, h) => Runs(v, h)'
  BY <1>1, <1>3 DEF Runs
<1> QED
  BY <1>1, <1>3, <1>4, Facts
     DEF Sound, WorkerHoldsJob, HeldNotQueued, OutcomeKnown, ActiveIsIndexed, InsertedHasRow,
         LiveIsFollowed, OneRunnerPerJob, IsActive, Present, Live, Inserted, Holding, WorkerPoints

\* Every step of a worker is sound.
LEMMA WorkerStepSound ==
  ASSUME IInv, NEW w \in Workers, WorkerNext(w)
  PROVE  Sound'
BY PickStep, SpawnStep, EndChildStep, DropStep, IdleStep, QuietWorker DEF WorkerNext, WorkerStep

\* A new job: submit inserts one only when no job of its key is active.
LEMMA EnqueueStep ==
  ASSUME IInv, NEW k \in Keys, NEW kind, NEW force, Enqueue(k, kind, force)
  PROVE  Sound'
<1> DEFINE j == Len(key) + 1
<1>1. /\ TypeOK /\ Sound /\ Inserted = 1..Len(key) /\ Inserted \subseteq Jobs
      /\ \A w \in Workers : cur[w] # NoJob => cur[w] \in Inserted
  BY Facts
<1>2. j \in Jobs /\ j \notin Inserted
  <2>1. Len(key) \in Nat /\ Len(key) < MaxJobs
    BY <1>1 DEF TypeOK, Enqueue
  <2> QED BY <1>1, <2>1, BoundsAssumption DEF Jobs
<1>3. /\ key' = Append(key, k) /\ Inserted' = Inserted \cup {j}
      /\ key'[j] = k /\ \A i \in Inserted : key'[i] = key[i]
  BY <1>1 DEF Enqueue, TypeOK, Inserted
<1>4. /\ active' = [active EXCEPT ![j] = "queued"] /\ byKey' = [byKey EXCEPT ![k] = j]
      /\ row' = [row EXCEPT ![j] = [status |-> "queued", reason |-> "none"]]
      /\ UNCHANGED <<child, cur, outcome>>
  BY DEF Enqueue, kids
<1>5. \A w \in Workers : pc'[w] = pc[w] \/ (pc[w] = "off" /\ pc'[w] = "idle")
  BY DEF Enqueue
<1>6. \A i \in Jobs : IsActive(i) => i \in Inserted /\ key[i] # k
  BY <1>1 DEF Enqueue, Joinable, Sound, ActiveIsIndexed, InsertedHasRow, NoJob, Jobs
<1>7. WorkerHoldsJob' /\ OutcomeKnown' /\ OneRunnerPerJob'
  BY <1>1, <1>3, <1>4, <1>5
     DEF Sound, WorkerHoldsJob, OutcomeKnown, OneRunnerPerJob, Holding, WorkerPoints
<1>8. HeldNotQueued'
  BY <1>1, <1>2, <1>4, <1>5 DEF Sound, HeldNotQueued, IsActive, TypeOK
<1>9. ActiveIsIndexed'
  <2> SUFFICES ASSUME NEW i \in Jobs, IsActive(i)' PROVE i \in Inserted' /\ byKey'[key'[i]] = i
    BY DEF ActiveIsIndexed
  <2>1. CASE i = j
    BY <1>3, <1>4, <2>1, <1>1 DEF TypeOK
  <2>2. CASE i # j
    <3>1. IsActive(i)
      BY <1>1, <1>4, <2>2 DEF IsActive, TypeOK
    <3>2. i \in Inserted /\ key[i] # k /\ key'[i] = key[i] /\ byKey[key[i]] = i
      BY <1>1, <1>3, <1>6, <3>1 DEF Sound, ActiveIsIndexed
    <3> QED BY <1>1, <1>3, <1>4, <3>2 DEF TypeOK
  <2> QED BY <2>1, <2>2
<1>10. InsertedHasRow'
  BY <1>1, <1>2, <1>3, <1>4 DEF Sound, InsertedHasRow, Present, TypeOK
<1>11. LiveIsFollowed'
  <2> SUFFICES ASSUME NEW h \in Jobs, Live(h)'
               PROVE  IsActive(h)' /\ \E v \in Workers : Runs(v, h)'
    BY DEF LiveIsFollowed
  <2>1. IsActive(h) /\ \E v \in Workers : Runs(v, h)
    BY <1>1, <1>4 DEF Sound, LiveIsFollowed, Live
  <2>2. \A v \in Workers : Runs(v, h) => Runs(v, h)'
    BY <1>4, <1>5 DEF Runs
  <2> QED BY <1>1, <1>4, <2>1, <2>2 DEF IsActive, TypeOK
<1> QED BY <1>7, <1>8, <1>9, <1>10, <1>11 DEF Sound

\* A step that leaves alone everything the invariant speaks of.
LEMMA FrameStep ==
  ASSUME IInv, UNCHANGED <<active, byKey, key, row, child, pc, cur, outcome>>
  PROVE  Sound'
BY Facts DEF Sound, WorkerHoldsJob, HeldNotQueued, OutcomeKnown, ActiveIsIndexed, InsertedHasRow,
   LiveIsFollowed, OneRunnerPerJob, IsActive, Present, Live, Runs, Inserted

\* A step that only ends children and rewrites rows.
LEMMA FewerChildren ==
  ASSUME IInv, UNCHANGED <<active, byKey, key, pc, cur, outcome>>,
         \A j \in Jobs : Live(j)' => Live(j),
         \A j \in Inserted : Present(j) => Present(j)'
  PROVE  Sound'
BY Facts DEF Sound, WorkerHoldsJob, HeldNotQueued, OutcomeKnown, ActiveIsIndexed, InsertedHasRow,
   LiveIsFollowed, OneRunnerPerJob, IsActive, Runs, Inserted

\* submit is sound, whichever route or hook calls it.
LEMMA RequestStep ==
  ASSUME IInv, RequestNext
  PROVE  Sound'
<1>1. PICK k \in Keys, kind \in {"lazy", "eager"}, force \in BOOLEAN : Submit(k, kind, force)
  BY DEF RequestNext, Get, Retry, CommitHook
<1>2. CASE Join(k, kind)
  BY <1>2, FrameStep DEF Join, mem, kids, wk
<1>3. CASE Enqueue(k, kind, force)
  BY <1>3, EnqueueStep
<1> QED BY <1>1, <1>2, <1>3 DEF Submit

\* cancel_bundle drops queued jobs only, and no worker holds one of these.
LEMMA CancelStep ==
  ASSUME IInv, CancelNext
  PROVE  Sound'
<1>1. PICK d \in Digests : CancelBundle(d) \/ CancelReturn(d) \/ CancelTimeout(d)
  BY DEF CancelNext
<1>2. CASE CancelReturn(d) \/ CancelTimeout(d)
  BY <1>2, FrameStep DEF CancelReturn, CancelTimeout, mem, kids, wk
<1>3. CASE CancelBundle(d)
  <2>1. PICK out :
          /\ \A j \in out : j \in Jobs /\ active[j] = "queued"
          /\ active' = [j \in Jobs |-> IF j \in out THEN "none" ELSE active[j]]
          /\ byKey' = [k \in Keys |-> IF \E j \in out : key[j] = k THEN NoJob ELSE byKey[k]]
    <3> DEFINE out == {j \in {i \in JobsOf(d) : active[i] \in Pending} : active[j] = "queued"}
    <3>1. \A j \in out : j \in Jobs /\ active[j] = "queued"
      BY Facts DEF JobsOf
    <3> QED BY <1>3, <3>1 DEF CancelBundle
  <2>2. /\ UNCHANGED <<key, row, pc, cur, outcome>>
        /\ \A j \in Jobs : Live(j)' => Live(j)
    BY <1>3 DEF CancelBundle, wk, Live, LiveStates
  <2>3. /\ TypeOK /\ Sound
        /\ \A w \in Workers : cur[w] # NoJob => cur[w] \in Jobs /\ cur[w] \notin out
    BY <2>1, Facts DEF Sound, HeldNotQueued
  <2>4. WorkerHoldsJob' /\ OutcomeKnown' /\ OneRunnerPerJob' /\ InsertedHasRow'
    BY <2>2, <2>3 DEF Sound, WorkerHoldsJob, OutcomeKnown, OneRunnerPerJob, InsertedHasRow,
                      Present, Inserted
  <2>5. HeldNotQueued'
    BY <2>1, <2>2, <2>3 DEF Sound, HeldNotQueued, IsActive
  <2>6. ActiveIsIndexed'
    <3> SUFFICES ASSUME NEW i \in Jobs, IsActive(i)' PROVE i \in Inserted /\ byKey'[key[i]] = i
      BY <2>2 DEF ActiveIsIndexed, Inserted
    <3>1. i \notin out /\ IsActive(i)
      BY <2>1 DEF IsActive
    <3>2. i \in Inserted /\ byKey[key[i]] = i /\ key[i] \in Keys
      BY <2>3, <3>1 DEF Sound, ActiveIsIndexed, TypeOK, Inserted
    <3>3. \A j \in out : key[j] # key[i]
      BY <2>1, <2>3, <3>1, <3>2 DEF Sound, ActiveIsIndexed, IsActive
    <3> QED BY <2>1, <3>2, <3>3
  <2>7. LiveIsFollowed'
    <3> SUFFICES ASSUME NEW h \in Jobs, Live(h)'
                 PROVE  IsActive(h)' /\ \E v \in Workers : Runs(v, h)'
      BY DEF LiveIsFollowed
    <3>1. IsActive(h) /\ \E v \in Workers : Runs(v, h)
      BY <2>2, <2>3 DEF Sound, LiveIsFollowed
    <3>2. h \notin out
      BY <2>3, <3>1 DEF Runs, NoJob, Jobs
    <3> QED BY <2>1, <2>2, <3>1, <3>2 DEF Runs, IsActive
  <2> QED BY <2>4, <2>5, <2>6, <2>7 DEF Sound
<1> QED BY <1>1, <1>2, <1>3

\* A child can only end or go on: it is never alive without its worker.
LEMMA ChildStepSound ==
  ASSUME IInv, NEW j \in Inserted, ChildNext(j)
  PROVE  Sound'
<1>1. UNCHANGED <<active, byKey, key, row, pc, cur, outcome>> /\ j \in Jobs
  BY Facts DEF ChildNext, mem, wk
<1>2. \A i \in Jobs : Live(i)' => Live(i)
  <2>1. PICK from \in LiveStates \cup {"orphan"}, to \in ChildStates :
          ChildStep(j, from, to) /\ (from = "orphan" => to = "dead")
    BY DEF ChildNext, ChildStart, ChildDerive, ChildReport, ChildFail, ChildExit, ChildCrash, OrphanEnds,
           ChildStates, LiveStates
  <2> QED BY <1>1, <2>1, Facts DEF ChildStep, Live, LiveStates, TypeOK
<1> QED BY <1>1, <1>2, FewerChildren DEF Present

\* When the process ends, nothing it kept in memory refers to a job any more.
LEMMA ForgetStep ==
  ASSUME IInv, NEW S, Forget(S), UNCHANGED <<key, row>>
  PROVE  Sound'
<1>1. \A j \in Jobs : ~IsActive(j)' /\ ~Live(j)'
  BY DEF Forget, IsActive, Live, LiveStates
<1>2. \A w \in Workers : pc'[w] = "off" /\ cur'[w] = NoJob
  BY DEF Forget
<1>3. InsertedHasRow'
  BY Facts DEF Sound, InsertedHasRow, Present, Inserted
<1> QED
  BY <1>1, <1>2, <1>3
     DEF Sound, WorkerHoldsJob, HeldNotQueued, OutcomeKnown, ActiveIsIndexed, LiveIsFollowed,
         OneRunnerPerJob, Holding, NoJob

\* A shutdown, complete or not, only fails active jobs and kills children.
LEMMA StopsStep ==
  ASSUME IInv, NEW hit \in SUBSET ToStop, NEW recorded, NEW killed, Stops(hit, recorded, killed)
  PROVE  Sound'
<1>0. TypeOK /\ Sound /\ Inserted \subseteq Jobs
  BY Facts
<1>1. /\ UNCHANGED <<byKey, key, pc, cur, outcome>>
      /\ \A j \in Jobs : Live(j)' => Live(j)
  BY DEF Stops, wk, Live, LiveStates
<1>2. \A j \in Jobs : active'[j] = active[j] \/ (IsActive(j) /\ active'[j] = "failed")
  BY DEF Stops, ToStop, Pending, IsActive
<1>3. \A j \in Inserted : Present(j) => Present(j)'
  BY <1>0 DEF Stops, Present, Failed, TypeOK, Rows
<1>4. WorkerHoldsJob' /\ OutcomeKnown' /\ OneRunnerPerJob' /\ InsertedHasRow'
  BY <1>0, <1>1, <1>3 DEF Sound, WorkerHoldsJob, OutcomeKnown, OneRunnerPerJob, InsertedHasRow,
                          Inserted
<1>5. HeldNotQueued' /\ ActiveIsIndexed' /\ LiveIsFollowed'
  BY <1>0, <1>1, <1>2, Facts DEF Sound, HeldNotQueued, ActiveIsIndexed, LiveIsFollowed, IsActive,
                          Runs, Inserted
<1> QED BY <1>4, <1>5 DEF Sound

\* Start, recovery, shutdown and the end of the process are sound.
LEMMA ServerStep ==
  ASSUME IInv, ServerNext
  PROVE  Sound'
<1>0. TypeOK /\ Sound /\ Inserted \subseteq Jobs
  BY Facts
<1>1. CASE Shutdown \/ ShutdownError
  <2>1. \E hit, recorded, killed \in SUBSET Inserted :
          hit \subseteq ToStop /\ Stops(hit, recorded, killed)
    <3>1. CASE Shutdown
      BY <3>1 DEF Shutdown, ToStop, ToKill
    <3>2. CASE ShutdownError
      BY <3>2 DEF ShutdownError, ToStop, ToKill
    <3> QED BY <1>1, <3>1, <3>2
  <2> QED BY <2>1, StopsStep
<1>2. CASE Exit \/ Crash
  BY <1>2, ForgetStep DEF Exit, Crash
<1>3. CASE Start
  <2>1. \A j \in Inserted : Present(j) => Present(j)'
    BY <1>0, <1>3 DEF Start, Present, Failed, TypeOK, Rows
  <2> QED BY <1>3, <2>1, FewerChildren DEF Start, mem, kids, wk, Live
<1>4. CASE Ready
  BY <1>4, FrameStep DEF Ready, mem, kids, wk
<1>5. ASSUME NEW k \in Keys, RecoverCached(k) PROVE Sound'
  BY <1>5, FrameStep DEF RecoverCached, mem, kids, wk
<1>6. ASSUME NEW k \in Keys, RecoverSubmit(k) PROVE Sound'
  BY <1>6, EnqueueStep DEF RecoverSubmit
<1>7. ASSUME NEW d \in Digests, RecoverError(d) PROVE Sound'
  BY <1>7, FrameStep DEF RecoverError, mem, kids, wk
<1> QED BY <1>1, <1>2, <1>3, <1>4, <1>5, <1>6, <1>7 DEF ServerNext, RecoverNext

\* The invariant is inductive.
LEMMA InvNext == IInv /\ [Next]_vars => IInv'
<1> SUFFICES ASSUME IInv, [Next]_vars PROVE IInv'
  OBVIOUS
<1>1. TypeOK'
  BY TypeNext DEF IInv
<1>2. Sound'
  <2>1. CASE UNCHANGED vars
    BY <2>1, FrameStep DEF vars, mem, kids, wk
  <2> QED BY <2>1, RequestStep, CancelStep, WorkerStepSound, ChildStepSound, ServerStep DEF Next
<1> QED BY <1>1, <1>2 DEF IInv, Sound

-----------------------------------------------------------------------------
(* The order of the heap *)

\* Entries of the lazy part are of jobs that a lazy request waits for, and a
\* job that is waited for has such an entry as long as it is queued.
WaitedIsQueued ==
  /\ asked \subseteq Inserted
  /\ \A n \in 1..Len(lazyQ) : lazyQ[n] \in asked
  /\ \A i \in asked : active[i] = "queued" => \E n \in 1..Len(lazyQ) : lazyQ[n] = i

\* A step that inserts and queues nothing and starts nothing.
Idles ==
  /\ Inserted' = Inserted
  /\ \A j \in Jobs : /\ active'[j] = "queued" => active[j] = "queued"
                     /\ ~Starts(j)

\* Such a step keeps the order of the heap when it leaves the heap alone.
LEMMA IdleOrder ==
  ASSUME IInv, WaitedIsQueued, Idles, UNCHANGED queue
  PROVE  WaitedIsQueued'
BY Facts DEF WaitedIsQueued, Idles, queue

\* What is appended to the lazy part has been asked for.
LEMMA AppendOrder ==
  ASSUME TypeOK, WaitedIsQueued, NEW j \in Jobs, j \in Inserted',
         Inserted \subseteq Inserted',
         lazyQ' = Append(lazyQ, j), asked' = asked \cup {j},
         \A i \in asked : active'[i] = "queued" /\ i # j => active[i] = "queued"
  PROVE  WaitedIsQueued'
<1>1. /\ Len(lazyQ) \in Nat /\ Len(lazyQ') = Len(lazyQ) + 1 /\ lazyQ'[Len(lazyQ) + 1] = j
      /\ \A n \in 1..Len(lazyQ) : lazyQ'[n] = lazyQ[n]
  BY DEF TypeOK
<1>2. 1..Len(lazyQ') = 1..Len(lazyQ) \cup {Len(lazyQ) + 1}
  BY <1>1
<1>3. asked' \subseteq Inserted' /\ \A n \in 1..Len(lazyQ') : lazyQ'[n] \in asked'
  BY <1>1, <1>2 DEF WaitedIsQueued
<1>4. \A i \in asked' : active'[i] = "queued" => \E n \in 1..Len(lazyQ') : lazyQ'[n] = i
  BY <1>1, <1>2 DEF WaitedIsQueued
<1> QED BY <1>3, <1>4 DEF WaitedIsQueued

\* A second lazy request for a queued job puts it into the lazy part.
LEMMA JoinOrder ==
  ASSUME IInv, WaitedIsQueued, NEW k \in Keys, NEW kind, Join(k, kind)
  PROVE  WaitedIsQueued' /\ \A j \in Jobs : ~Starts(j)
<1>1. UNCHANGED <<active, key>> /\ TypeOK /\ Sound
  BY Facts DEF Join, mem
<1>2. CASE Promotes(k, kind)
  <2>1. byKey[k] \in Jobs /\ byKey[k] \in Inserted
    BY <1>1, <1>2 DEF Promotes, TypeOK, NoJob, Sound, ActiveIsIndexed, IsActive
  <2> QED BY <1>1, <1>2, <2>1, AppendOrder DEF Join, Promoted, Inserted, Starts
<1>3. CASE ~Promotes(k, kind)
  BY <1>1, <1>3 DEF Join, Promoted, WaitedIsQueued, Inserted, Starts
<1> QED BY <1>2, <1>3

\* A new job of a lazy request is behind the entries of the lazy part; that of
\* an eager one is not waited for.
LEMMA EnqueueOrder ==
  ASSUME IInv, WaitedIsQueued, NEW k \in Keys, NEW kind, NEW force, Enqueue(k, kind, force)
  PROVE  WaitedIsQueued' /\ \A j \in Jobs : ~Starts(j)
<1> DEFINE j == Len(key) + 1
<1>1. /\ TypeOK /\ Sound /\ Inserted = 1..Len(key) /\ Inserted \subseteq Jobs
      /\ Len(key) \in Nat /\ j \in Jobs /\ j \notin Inserted
  <2>1. TypeOK /\ Sound /\ Inserted = 1..Len(key) /\ Inserted \subseteq Jobs
    BY Facts
  <2>2. Len(key) \in Nat /\ Len(key) < MaxJobs
    BY <2>1 DEF TypeOK, Enqueue
  <2> QED BY <2>1, <2>2, BoundsAssumption DEF Jobs
<1>2. Inserted' = Inserted \cup {j} /\ active' = [active EXCEPT ![j] = "queued"]
  BY <1>1 DEF Enqueue, TypeOK, Inserted
<1>3. \A i \in Jobs : ~Starts(i)
  BY <1>1, <1>2 DEF Starts, TypeOK
<1>4. Promoted(k, kind) = lazyQ
  BY <1>1 DEF Promoted, Promotes, Enqueue, Joinable, Sound, ActiveIsIndexed, InsertedHasRow,
              IsActive, TypeOK, NoJob
<1>5. \A i \in asked : i # j /\ (active'[i] = "queued" => active[i] = "queued")
  BY <1>1, <1>2 DEF WaitedIsQueued, TypeOK
<1>6. CASE kind = "lazy"
  <2>1. lazyQ' = Append(lazyQ, j) /\ asked' = asked \cup {j}
    BY <1>4, <1>6 DEF Enqueue
  <2> QED BY <1>1, <1>2, <1>3, <1>5, <2>1, AppendOrder
<1>7. CASE kind # "lazy"
  <2>1. UNCHANGED <<lazyQ, asked>>
    BY <1>7 DEF Enqueue
  <2> QED BY <1>2, <1>3, <1>5, <2>1 DEF WaitedIsQueued
<1> QED BY <1>6, <1>7

\* A worker takes the first queued job of the heap: one that is waited for, if
\* any is. The entries before it are stale.
LEMMA PickOrder ==
  ASSUME IInv, WaitedIsQueued, NEW w \in Workers, Pick(w)
  PROVE  /\ WaitedIsQueued'
         /\ \A i, j \in Inserted : Starts(j) /\ active[i] = "queued" /\ i \in asked => j \in asked
<1>1. PICK p \in 1..Len(Heap) :
        /\ FirstRunnable(p) /\ PopThrough(p)
        /\ active' = [active EXCEPT ![Heap[p]] = "running"]
  BY DEF Pick
<1>2. TypeOK /\ Heap[p] \in Jobs /\ Inserted \subseteq Jobs /\ UNCHANGED key
  BY <1>1, Facts, HeapType DEF Pick
<1>3. Len(lazyQ) \in Nat /\ \A n \in 1..Len(lazyQ) : n \in 1..Len(Heap) /\ Heap[n] = lazyQ[n]
  BY <1>2 DEF Heap, TypeOK
<1>4. \A n \in 1..Len(lazyQ) : active[lazyQ[n]] = "queued" => p <= n
  BY <1>1, <1>3 DEF FirstRunnable, Runnable
<1>5. \A j \in Jobs : (active'[j] = "queued" => active[j] = "queued" /\ j # Heap[p])
                      /\ (Starts(j) => j = Heap[p])
  BY <1>1, <1>2 DEF Starts, TypeOK
<1>6. ASSUME NEW i \in asked, active[i] = "queued" PROVE Heap[p] \in asked
  BY <1>1, <1>3, <1>4, <1>6 DEF WaitedIsQueued
<1>7. /\ Len(lazyQ') = IF p <= Len(lazyQ) THEN Len(lazyQ) - p ELSE 0
      /\ \A n \in 1..Len(lazyQ') : lazyQ'[n] = lazyQ[n + p]
  <2>1. lazyQ' = SubSeq(lazyQ, p + 1, Len(lazyQ)) /\ p \in Nat /\ lazyQ \in Seq(Jobs)
    BY <1>1, <1>2 DEF PopThrough, TypeOK
  <2>2. CASE p <= Len(lazyQ)
    BY <1>3, <2>1, <2>2, SubSeqProperties
  <2>3. CASE p > Len(lazyQ)
    <3>1. lazyQ' = <<>>
      BY <1>3, <2>1, <2>3, SubSeqProperties
    <3> QED BY <2>3, <3>1
  <2> QED BY <1>3, <2>1, <2>2, <2>3
<1>8. \A n \in 1..Len(lazyQ') : lazyQ'[n] \in asked
  BY <1>3, <1>7 DEF WaitedIsQueued
<1>9. ASSUME NEW i \in asked, active'[i] = "queued" PROVE \E n \in 1..Len(lazyQ') : lazyQ'[n] = i
  <2>1. i \in Jobs /\ active[i] = "queued" /\ i # Heap[p]
    BY <1>2, <1>5, <1>9 DEF WaitedIsQueued
  <2>2. PICK n \in 1..Len(lazyQ) : lazyQ[n] = i
    BY <2>1 DEF WaitedIsQueued
  <2>3. p < n
    BY <1>1, <1>3, <1>4, <2>1, <2>2
  <2>4. n - p \in 1..Len(lazyQ') /\ lazyQ'[n - p] = i
    BY <1>3, <1>7, <2>2, <2>3
  <2> QED BY <2>4
<1>10. UNCHANGED asked
  BY <1>1 DEF PopThrough
<1>11. WaitedIsQueued'
  BY <1>2, <1>8, <1>9, <1>10 DEF WaitedIsQueued, Inserted
<1> QED BY <1>2, <1>5, <1>6, <1>11

\* The other steps of a worker queue and start nothing.
LEMMA WorkerOrder ==
  ASSUME IInv, WaitedIsQueued, NEW w \in Workers, WorkerNext(w), ~Pick(w)
  PROVE  WaitedIsQueued' /\ \A j \in Jobs : ~Starts(j)
<1>0. TypeOK /\ UNCHANGED key
  BY Facts DEF WorkerNext, WorkerStep, DrainHeap, Leave, Begin, Spawn, Attach, CheckStopped, CheckOk,
       PollTimeout, RecvEof, RecvStage, RecvFinal, EndChild, Write, Drop, CheckDeadline, PipeError,
           SpawnError
<1>1. CASE DrainHeap(w)
  <2>1. UNCHANGED <<active, asked>> /\ lazyQ' = <<>>
    BY <1>1 DEF DrainHeap, mem
  <2>2. Len(lazyQ) \in Nat /\ \A n \in 1..Len(lazyQ) : n \in 1..Len(Heap) /\ Heap[n] = lazyQ[n]
    BY <1>0 DEF Heap, TypeOK
  <2>3. \A n \in 1..Len(lazyQ) : active[lazyQ[n]] # "queued"
    BY <1>1, <2>2 DEF DrainHeap, Runnable
  <2> QED BY <1>0, <2>1, <2>3 DEF WaitedIsQueued, Starts, Inserted
<1>2. CASE ~DrainHeap(w)
  <2>1. UNCHANGED queue
    BY <1>2 DEF WorkerNext, WorkerStep, Leave, Begin, Spawn, Attach, CheckStopped, CheckOk,
       PollTimeout, RecvEof, RecvStage, RecvFinal, EndChild, Write, Drop, CheckDeadline, PipeError,
           SpawnError
  <2>2. \/ UNCHANGED active
        \/ active' = [active EXCEPT ![cur[w]] = "none"]
        \/ \E s \in {"none", "done", "failed"} : active' = [active EXCEPT ![cur[w]] = s]
    <3>1. CASE EndChild(w)
      BY <3>1 DEF EndChild
    <3>2. CASE Drop(w) \/ SpawnError(w)
      BY <3>2 DEF Drop, SpawnError, Drops
    <3> QED
      BY <1>2, <3>1, <3>2 DEF WorkerNext, WorkerStep, Leave, Begin, Spawn, Attach, CheckStopped,
          CheckOk,
         PollTimeout, RecvEof, RecvStage, RecvFinal, Write, CheckDeadline, PipeError, mem
  <2>3. Idles
    BY <1>0, <2>2 DEF Idles, Starts, TypeOK, Inserted
  <2> QED BY <2>1, <2>3, IdleOrder DEF Idles
<1> QED BY <1>1, <1>2

\* Cancelling, the children and the server queue and start nothing, except for
\* the eager jobs of recover().
LEMMA OtherOrder ==
  ASSUME IInv, WaitedIsQueued,
      CancelNext \/ (\E j \in Inserted : ChildNext(j)) \/ ServerNext \/ UNCHANGED vars
  PROVE  WaitedIsQueued' /\ \A j \in Jobs : ~Starts(j)
<1>0. TypeOK /\ Inserted \subseteq Jobs
  BY Facts
<1>1. ASSUME UNCHANGED <<queue, key, active>> PROVE WaitedIsQueued' /\ \A j \in Jobs : ~Starts(j)
  BY <1>1, IdleOrder DEF Idles, Inserted, Starts
<1>2. CASE CancelNext
  <2>1. PICK d \in Digests : CancelBundle(d) \/ CancelReturn(d) \/ CancelTimeout(d)
    BY <1>2 DEF CancelNext
  <2>2. CASE CancelReturn(d) \/ CancelTimeout(d)
    BY <1>1, <2>2 DEF CancelReturn, CancelTimeout, mem
  <2>3. CASE CancelBundle(d)
    <3>1. UNCHANGED <<queue, key>> /\ \A j \in Jobs : active'[j] \in {active[j], "none"}
      BY <2>3 DEF CancelBundle
    <3>2. Idles
      BY <3>1 DEF Idles, Inserted, Starts
    <3> QED BY <3>1, <3>2, IdleOrder DEF Idles
  <2> QED BY <2>1, <2>2, <2>3
<1>3. ASSUME NEW j \in Inserted, ChildNext(j) PROVE WaitedIsQueued' /\ \A i \in Jobs : ~Starts(i)
  BY <1>1, <1>3 DEF ChildNext, mem
<1>4. CASE ServerNext
  <2>1. CASE Shutdown \/ ShutdownError
    <3>1. UNCHANGED <<queue, key>> /\ \A j \in Jobs : active'[j] \in {active[j], "failed"}
      BY <2>1 DEF Shutdown, ShutdownError, Stops
    <3>2. Idles
      BY <3>1 DEF Idles, Inserted, Starts
    <3> QED BY <3>1, <3>2, IdleOrder DEF Idles
  <2>2. CASE Exit \/ Crash
    <3>1. lazyQ' = <<>> /\ asked' = {} /\ active' = [j \in Jobs |-> "none"]
      BY <2>2 DEF Exit, Crash, Forget
    <3> QED BY <3>1 DEF WaitedIsQueued, Starts
  <2>3. CASE Start \/ Ready
    BY <1>1, <2>3 DEF Start, Ready, mem
  <2>4. ASSUME NEW k \in Keys, RecoverCached(k) PROVE WaitedIsQueued' /\ \A j \in Jobs : ~Starts(j)
    BY <1>1, <2>4 DEF RecoverCached, mem
  <2>5. ASSUME NEW k \in Keys, RecoverSubmit(k) PROVE WaitedIsQueued' /\ \A j \in Jobs : ~Starts(j)
    BY <2>5, EnqueueOrder DEF RecoverSubmit
  <2>6. ASSUME NEW d \in Digests, RecoverError(d) PROVE WaitedIsQueued' /\ \A j \in Jobs : ~Starts(j)
    BY <1>1, <2>6 DEF RecoverError, mem
  <2> QED BY <1>4, <2>1, <2>2, <2>3, <2>4, <2>5, <2>6 DEF ServerNext, RecoverNext
<1>5. CASE UNCHANGED vars
  BY <1>1, <1>5 DEF vars, mem
<1> QED BY <1>2, <1>3, <1>4, <1>5

\* Every step keeps the order of the heap and starts what is waited for first.
LEMMA OrderNext ==
  ASSUME IInv, WaitedIsQueued, [Next]_vars
  PROVE  /\ WaitedIsQueued'
         /\ \A i, j \in Inserted : Starts(j) /\ active[i] = "queued" /\ i \in asked => j \in asked
<1>0. Inserted \subseteq Jobs
  BY Facts
<1>1. CASE RequestNext
  <2>1. PICK k \in Keys, kind \in {"lazy", "eager"}, force \in BOOLEAN : Submit(k, kind, force)
    BY <1>1 DEF RequestNext, Get, Retry, CommitHook
  <2> QED BY <1>0, <2>1, JoinOrder, EnqueueOrder DEF Submit
<1>2. ASSUME NEW w \in Workers, WorkerNext(w)
      PROVE  /\ WaitedIsQueued'
             /\ \A i, j \in Inserted : Starts(j) /\ active[i] = "queued" /\ i \in asked => j \in asked
  BY <1>0, <1>2, PickOrder, WorkerOrder
<1> QED BY <1>0, <1>1, <1>2, OtherOrder DEF Next

-----------------------------------------------------------------------------
(* The theorems *)

\* The inductive invariant holds in every reachable state: the job maps agree
\* with each other, and every live child is an active job in a worker's hands.
THEOREM Invariant == Spec => []IInv
BY InvInit, InvNext, PTL DEF Spec

\* Type correctness of every reachable state.
THEOREM TypeCorrect == Spec => []TypeOK
<1>1. IInv => TypeOK
  BY DEF IInv
<1> QED BY <1>1, Invariant, PTL

\* No two workers ever execute one job, however often it was promoted.
THEOREM OneRunner == Spec => []OneRunnerPerJob
<1>1. IInv => OneRunnerPerJob
  BY DEF IInv
<1> QED BY <1>1, Invariant, PTL

\* No more children are alive than there are worker threads: each has its own.
THEOREM EveryChildHasAWorker == Spec => []ChildHasWorker
<1>1. IInv => ChildHasWorker
  BY DEF IInv, LiveIsFollowed, ChildHasWorker
<1> QED BY <1>1, Invariant, PTL

\* Deduplication: one server never has two live children for one key.
THEOREM Deduplication == Spec => []OneChildPerKey
<1>1. IInv => OneChildPerKey
  BY Facts DEF Sound, LiveIsFollowed, ActiveIsIndexed, OneChildPerKey
<1> QED BY <1>1, Invariant, PTL

\* A job no lazy request waits for never starts before one such a request waits
\* for, also when that request came after the eager submission (submit, _push).
THEOREM LazyGoesFirst == Spec => LazyFirst
<1>1. Init => WaitedIsQueued
  BY DEF Init, WaitedIsQueued
<1>2. IInv /\ WaitedIsQueued /\ [Next]_vars => WaitedIsQueued'
  BY OrderNext
<1>3. IInv /\ WaitedIsQueued /\ [Next]_vars =>
        [\A i, j \in Inserted : Starts(j) /\ active[i] = "queued" /\ i \in asked => j \in asked]_vars
  BY OrderNext
<1> QED BY <1>1, <1>2, <1>3, Invariant, PTL DEF Spec, LazyFirst

-----------------------------------------------------------------------------
(* The rows of the jobs table *)

\* What its promises need more than IInv: that no row is stranded, final rows
\* are kept, a clean shutdown leaves no unfinished row, and a cancellation that
\* was not cut short leaves no child.

\* What a worker that ends its job, or lets go of it, knows of it.
EndsForAReason ==
  \A w \in Workers :
    /\ rescued[w] => used.errors >= 1
    /\ pc[w] = "end" /\ outcome[w] = "cancelled" => cancelled[cur[w]]
    /\ pc[w] = "write" => active[cur[w]] \notin Pending
    /\ pc[w] = "drop" => \/ row[cur[w]].status \in Terminal
                         \/ cancelled[cur[w]] \/ used.errors >= 2
\* A job with a final row is over: nobody will write its row again.
Final(j) == row[j].status = "done" \/ (row[j].status = "failed" /\ ~stopping)
FinalIsOver ==
  \A j \in Inserted :
    Final(j) => active[j] \notin Pending /\ \A w \in Workers : cur[w] = j => pc[w] = "drop"
\* A process that is down has nothing in memory; one that stops was up.
LifeCycle ==
  /\ srv = "down" => (\A j \in Jobs : ~IsActive(j)) /\ \A w \in Workers : cur[w] = NoJob
  /\ srv # "up" => ~stopping
\* Until the manager stops, a job that is over in memory is in a worker's
\* hands, and nothing is cancelled that cancel_bundle did not cancel.
BeforeStop ==
  ~stopping =>
    /\ \A j \in Jobs : active[j] \in Terminal => \E w \in Workers : cur[w] = j
    /\ used.cancels = 0 => \A j \in Jobs : ~cancelled[j]
\* With no error and no cancellation a worker lets go of finished rows only,
\* and once the manager stops the unfinished ones are in the workers' hands.
Undisturbed == used.cancels = 0 /\ used.errors = 0
CleanSoFar ==
  Undisturbed =>
    /\ \A w \in Workers : pc[w] = "drop" => row[cur[w]].status \in Terminal
    /\ stopping => \A j \in Inserted : row[j].status \in Pending => \E w \in Workers : cur[w] = j

RowFacts ==
  EndsForAReason /\ NoStrandedRow /\ FinalIsOver /\ LifeCycle /\ BeforeStop /\ CleanSoFar
RowInv == IInv /\ RowFacts

-----------------------------------------------------------------------------
(* What the cases have in common *)

\* The accounts of errors and cancellations only ever grow.
Grows ==
  /\ used.errors \in Nat /\ used'.errors \in Nat /\ used.errors <= used'.errors
  /\ used.cancels \in Nat /\ used'.cancels \in Nat /\ used.cancels <= used'.cancels

\* Spending from a budget moves its account up by one.
LEMMA SpendGrows ==
  ASSUME TypeOK, NEW b \in {"requests", "cancels", "stops", "errors"}, Spend(b)
  PROVE  /\ Grows
         /\ b = "errors" => used'.errors = used.errors + 1
         /\ b = "cancels" => used'.cancels = used.cancels + 1
<1>1. DOMAIN Budget = {"requests", "cancels", "stops", "errors"}
  BY DEF Budget
<1> HIDE DEF Budget
<1> QED BY <1>1 DEF TypeOK, Spend, Grows

\* An account that is left alone is one that grows.
LEMMA KeepGrows ==
  ASSUME TypeOK, UNCHANGED used
  PROVE  Grows
<1>1. DOMAIN Budget = {"requests", "cancels", "stops", "errors"}
  BY DEF Budget
<1> HIDE DEF Budget
<1> QED BY <1>1 DEF TypeOK, Grows

\* What the cases below use of the invariant.
LEMMA Known ==
  ASSUME RowInv
  PROVE  /\ IInv /\ RowFacts /\ TypeOK /\ Sound /\ Inserted \subseteq Jobs
         /\ \A w \in Workers : pc[w] \in Holding => cur[w] # NoJob /\ cur[w] \in Inserted
         /\ \A w \in Workers : cur[w] # NoJob => pc[w] \in Holding /\ cur[w] \in Inserted
         /\ \A v, w \in Workers : cur[v] = cur[w] /\ cur[v] # NoJob => v = w
BY Facts DEF RowInv, Sound, OneRunnerPerJob

\* A step that leaves the jobs and the workers alone.
LEMMA RowsGoOn ==
  ASSUME RowInv, Grows, UNCHANGED <<stopping, active, cancelled, key, row, pc, cur, outcome, rescued>>,
         srv' = srv \/ (srv = "recovering" /\ srv' = "up")
  PROVE  RowFacts'
<1> USE Known DEF RowFacts
<1>1. EndsForAReason'
  BY DEF EndsForAReason, Grows
<1>2. NoStrandedRow' /\ FinalIsOver'
  BY DEF NoStrandedRow, FinalIsOver, Final, IsActive, Inserted, Grows
<1>3. LifeCycle' /\ BeforeStop' /\ CleanSoFar'
  BY DEF LifeCycle, BeforeStop, CleanSoFar, Undisturbed, IsActive, Inserted, Grows
<1> QED BY <1>1, <1>2, <1>3

\* A worker goes on to a point at which it neither writes nor lets go, and at
\* most writes 'running'.
LEMMA MoveStep ==
  ASSUME RowInv, Grows, UNCHANGED <<srv, stopping, active, cancelled, key, cur>>,
         NEW w \in Workers, pc[w] # "drop", NEW p \in WorkerPoints \ {"write", "drop"},
         pc' = [pc EXCEPT ![w] = p],
         \/ row' = row
         \/ pc[w] = "begin" /\ row' = [row EXCEPT ![cur[w]] = Marked(cur[w], "running")],
         \A v \in Workers : v # w => outcome'[v] = outcome[v] /\ rescued'[v] = rescued[v],
         p = "end" /\ outcome'[w] = "cancelled" => cancelled[cur[w]],
         rescued'[w] => rescued[w] \/ used'.errors >= 1
  PROVE  RowFacts'
<1> USE Known DEF RowFacts
<1>1. \A v \in Workers : v # w => pc'[v] = pc[v]
  BY DEF TypeOK
<1>2. pc'[w] = p
  BY DEF TypeOK
<1>3. \A j \in Jobs : \/ row'[j] = row[j]
                      \/ pc[w] = "begin" /\ cur[w] = j /\ row'[j].status \in {"absent", "running"}
  BY DEF TypeOK, Marked, Present, Rows, Holding, WorkerPoints
<1>4. \A v \in Workers : v # w /\ cur[v] # NoJob => row'[cur[v]] = row[cur[v]]
  BY <1>3
<1>5. EndsForAReason'
  BY <1>1, <1>2, <1>4 DEF EndsForAReason, Grows, Holding, WorkerPoints
<1>6. NoStrandedRow'
  BY <1>3 DEF NoStrandedRow, IsActive, Inserted, Grows, Holding, WorkerPoints
<1>7. FinalIsOver'
  BY <1>1, <1>2, <1>3 DEF FinalIsOver, Final, Inserted
<1>8. LifeCycle' /\ BeforeStop'
  BY DEF LifeCycle, BeforeStop, IsActive, Grows
<1>9. CleanSoFar'
  BY <1>1, <1>2, <1>3, <1>4 DEF CleanSoFar, Undisturbed, Inserted, Grows, Holding, WorkerPoints
<1> QED BY <1>5, <1>6, <1>7, <1>8, <1>9

-----------------------------------------------------------------------------
(* The worker *)

\* A failed write costs an error.
LEMMA ErrorCosts ==
  ASSUME RowInv, NEW w \in Workers, NEW p \in WorkerPoints, WriteError(w, p)
  PROVE  /\ Grows /\ used'.errors = used.errors + 1
         /\ pc' = [pc EXCEPT ![w] = p] /\ row' = row
         /\ outcome'[w] = "error" /\ \A v \in Workers : v # w => outcome'[v] = outcome[v]
         /\ \A v \in Workers : v # w => rescued'[v] = rescued[v]
         /\ used'.errors >= 1
<1>1. Grows /\ used'.errors = used.errors + 1
  BY Known, SpendGrows DEF WriteError
<1> QED BY <1>1, Known DEF WriteError, Goto, Resolve, TypeOK, Grows

\* The steps by which a worker goes on with its job.
LEMMA MovingWorker ==
  ASSUME RowInv, NEW w \in Workers,
         \/ Begin(w) \/ PipeError(w) \/ RecvStage(w) \/ Spawn(w) \/ Leave(w)
         \/ Attach(w) \/ CheckStopped(w) \/ CheckDeadline(w) \/ CheckOk(w)
         \/ PollTimeout(w) \/ RecvEof(w) \/ \E m \in Messages : RecvFinal(w, m)
  PROVE  RowFacts'
<1> USE DEF life, mem, WorkerPoints
<1>1. CASE Begin(w) \/ PipeError(w) \/ RecvStage(w)
  <2>1. /\ UNCHANGED <<srv, stopping, active, cancelled, key, cur>>
        /\ pc[w] \in {"begin", "spawn", "poll"}
    BY <1>1 DEF Begin, PipeError, RecvStage, Receives
  <2>2. CASE WriteError(w, "end")
    BY <2>1, <2>2, ErrorCosts, MoveStep
  <2>3. CASE Begin(w) /\ Record(w, Marked(cur[w], "running"), "spawn")
    BY <2>1, <2>3, Known, KeepGrows, MoveStep DEF Record, Goto, Begin
  <2>4. CASE RecvStage(w) /\ Record(w, row[cur[w]], "loop")
    <3>1. row' = row
      BY <2>4, Known DEF Record, TypeOK
    <3> QED BY <2>1, <2>4, <3>1, Known, KeepGrows, MoveStep DEF Record, Goto
  <2> QED BY <1>1, <2>2, <2>3, <2>4 DEF Begin, PipeError, RecvStage
<1>2. CASE Spawn(w) \/ Leave(w) \/ Attach(w) \/ CheckOk(w) \/ PollTimeout(w)
  <2>1. /\ UNCHANGED <<srv, stopping, active, cancelled, key, cur, row, outcome, rescued, used>>
        /\ pc[w] # "drop"
        /\ \E p \in {"attach", "gone", "loop", "poll"} : pc' = [pc EXCEPT ![w] = p]
    BY <1>2 DEF Spawn, Leave, Attach, CheckOk, PollTimeout, Goto, wk
  <2> QED BY <2>1, Known, KeepGrows, MoveStep
<1>3. CASE \/ CheckStopped(w) \/ CheckDeadline(w) \/ RecvEof(w)
           \/ \E m \in Messages : RecvFinal(w, m)
  <2>1. /\ UNCHANGED <<srv, stopping, active, cancelled, key, cur, row, rescued, used>>
        /\ pc[w] \in {"loop", "poll"} /\ pc' = [pc EXCEPT ![w] = "end"]
        /\ \A v \in Workers : v # w => outcome'[v] = outcome[v]
    BY <1>3, Known DEF CheckStopped, CheckDeadline, RecvEof, RecvFinal, Receives, Goto, Resolve, TypeOK
  <2>2. outcome'[w] = "cancelled" => cancelled[cur[w]]
    <3>1. IsActive(cur[w])
      BY <2>1, Known DEF Sound, HeldNotQueued, Holding
    <3> QED BY <1>3, <3>1, Known DEF CheckStopped, CheckDeadline, RecvEof, RecvFinal, Resolve,
                                   StillRunning, Messages, TypeOK
  <2> QED BY <2>1, <2>2, Known, KeepGrows, MoveStep
<1> QED BY <1>1, <1>2, <1>3

\* A job that is picked is queued, so its row is not final.
LEMMA PickRows ==
  ASSUME RowInv, NEW w \in Workers, Pick(w)
  PROVE  RowFacts'
<1> USE Known DEF RowFacts
<1>1. PICK i \in 1..Len(Heap) :
        /\ active[Heap[i]] = "queued"
        /\ cur' = [cur EXCEPT ![w] = Heap[i]]
        /\ active' = [active EXCEPT ![Heap[i]] = "running"]
  BY DEF Pick, FirstRunnable, Runnable
<1> DEFINE j == Heap[i]
<1>2. j \in Jobs /\ j \in Inserted
  BY <1>1, HeapType DEF Sound, ActiveIsIndexed, IsActive
<1>3. /\ pc[w] = "idle" /\ pc' = [pc EXCEPT ![w] = "begin"] /\ cur[w] = NoJob
      /\ ~stopping /\ UNCHANGED <<srv, stopping, cancelled, key, row, outcome, rescued, used>>
  BY DEF Pick, Goto, life, Holding
<1>4. \A v \in Workers : cur[v] # j
  BY <1>1, <1>2 DEF Sound, HeldNotQueued, NoJob, Jobs
<1>5. Grows
  BY <1>3, KeepGrows
<1>6. \A v \in Workers : v # w => pc'[v] = pc[v] /\ cur'[v] = cur[v]
  BY <1>1, <1>3 DEF TypeOK
<1>7. pc'[w] = "begin" /\ cur'[w] = j /\ active'[j] = "running"
  BY <1>1, <1>2, <1>3 DEF TypeOK
<1>8. \A h \in Jobs : h # j => active'[h] = active[h]
  BY <1>1 DEF TypeOK
<1>9. EndsForAReason'
  <2>1. \A v \in Workers : v # w /\ pc[v] = "write" => active'[cur[v]] = active[cur[v]]
    BY <1>4, <1>8 DEF Holding, WorkerPoints
  <2> QED BY <1>3, <1>6, <1>7, <2>1 DEF EndsForAReason
<1>10. NoStrandedRow'
  BY <1>3, <1>6, <1>7, <1>8 DEF NoStrandedRow, IsActive, Inserted, NoJob, Jobs
<1>11. FinalIsOver'
  BY <1>1, <1>2, <1>3, <1>6, <1>7, <1>8 DEF FinalIsOver, Final, Inserted, Pending
<1>12. LifeCycle'
  BY <1>1, <1>2, <1>3 DEF LifeCycle, IsActive
<1>13. BeforeStop'
  BY <1>2, <1>3, <1>6, <1>7, <1>8 DEF BeforeStop, Terminal, NoJob, Jobs
<1>14. CleanSoFar'
  BY <1>3, <1>6, <1>7 DEF CleanSoFar, Undisturbed
<1> QED BY <1>9, <1>10, <1>11, <1>12, <1>13, <1>14

\* A worker that ends its job records it unless it was cancelled.
LEMMA EndChildRows ==
  ASSUME RowInv, NEW w \in Workers, EndChild(w)
  PROVE  RowFacts'
<1> USE Known DEF RowFacts
<1>1. /\ pc[w] = "end" /\ cur[w] \in Jobs /\ cur[w] # NoJob
      /\ UNCHANGED <<srv, stopping, cancelled, key, row, cur, rescued, used>>
      /\ \A v \in Workers : v # w => outcome'[v] = outcome[v]
  BY DEF EndChild, life, Resolve, TypeOK, Holding, WorkerPoints
<1>2. PICK p \in {"drop", "write"} :
        /\ pc' = [pc EXCEPT ![w] = p]
        /\ p = "drop" => active' = active /\ cancelled[cur[w]] /\ ~stopping
        /\ p = "write" => \E a \in {"none", "done", "failed"} :
                             active' = [active EXCEPT ![cur[w]] = a]
  <2>1. CASE Recorded(w) = "cancelled"
    BY <1>1, <2>1 DEF EndChild, Goto, Recorded, EndsForAReason
  <2>2. CASE Recorded(w) # "cancelled"
    BY <2>2 DEF EndChild, Goto
  <2> QED BY <2>1, <2>2
<1>3. Grows
  BY <1>1, KeepGrows
<1>4. \A v \in Workers : v # w => pc'[v] = pc[v] /\ cur[v] # cur[w]
  BY <1>1, <1>2 DEF TypeOK
<1>5. pc'[w] = p
  BY <1>2 DEF TypeOK
<1>6. \A h \in Jobs : h # cur[w] => active'[h] = active[h]
  BY <1>2 DEF TypeOK
<1>7. p = "write" => active'[cur[w]] \notin Pending
  BY <1>1, <1>2 DEF TypeOK, Pending
<1>8. EndsForAReason'
  <2>1. \A v \in Workers : v # w /\ pc[v] = "write" => active'[cur[v]] = active[cur[v]]
    BY <1>4, <1>6 DEF Holding, WorkerPoints
  <2> QED BY <1>1, <1>2, <1>4, <1>5, <1>7, <2>1 DEF EndsForAReason
<1>9. NoStrandedRow'
  BY <1>1, <1>6 DEF NoStrandedRow, IsActive, Inserted
<1>10. FinalIsOver'
  BY <1>1, <1>4, <1>5, <1>6 DEF FinalIsOver, Final, Inserted
<1>11. LifeCycle' /\ BeforeStop'
  BY <1>1, <1>6 DEF LifeCycle, BeforeStop, IsActive
<1>12. CleanSoFar'
  BY <1>1, <1>2, <1>4, <1>5 DEF CleanSoFar, Undisturbed, BeforeStop, Inserted
<1> QED BY <1>8, <1>9, <1>10, <1>11, <1>12

\* The write that ends a job gives it a final row, or the worker an error.
LEMMA WriteRows ==
  ASSUME RowInv, NEW w \in Workers, Write(w)
  PROVE  RowFacts'
<1> USE Known DEF RowFacts
<1>1. /\ pc[w] = "write" /\ cur[w] \in Jobs /\ cur[w] # NoJob /\ cur[w] \in Inserted
      /\ UNCHANGED <<srv, stopping, active, cancelled, key, cur>>
  BY DEF Write, life, mem, Holding, WorkerPoints
<1>2. CASE Record(w, FinalRow(w), "drop")
  <2>1. /\ pc' = [pc EXCEPT ![w] = "drop"] /\ UNCHANGED <<outcome, rescued, used>>
        /\ row' = [row EXCEPT ![cur[w]] = FinalRow(w)] /\ Grows
    BY <1>2, KeepGrows DEF Record, Goto
  <2>2. FinalRow(w).status \in Terminal
    <3>1. Present(cur[w]) /\ row[cur[w]] \in Rows
      BY <1>1 DEF Sound, InsertedHasRow, TypeOK
    <3> QED BY <3>1 DEF FinalRow, Marked, Failed, Rows, Terminal
  <2>3. \A v \in Workers : v # w => pc'[v] = pc[v] /\ cur[v] # cur[w]
    BY <1>1, <2>1 DEF TypeOK
  <2>4. pc'[w] = "drop" /\ row'[cur[w]].status \in Terminal
    BY <1>1, <2>1, <2>2 DEF TypeOK
  <2>5. \A h \in Jobs : h # cur[w] => row'[h] = row[h]
    BY <2>1 DEF TypeOK
  <2>6. \A v \in Workers : v # w /\ pc[v] = "drop" => row'[cur[v]] = row[cur[v]]
    BY <2>3, <2>5 DEF Holding, WorkerPoints
  <2>7. EndsForAReason' /\ CleanSoFar'
    BY <1>1, <2>1, <2>3, <2>4, <2>5, <2>6
       DEF EndsForAReason, CleanSoFar, Undisturbed, Inserted, Terminal, Pending
  <2>8. NoStrandedRow'
    BY <1>1, <2>1, <2>4, <2>5 DEF NoStrandedRow, IsActive, Inserted, Terminal, Pending
  <2>9. FinalIsOver'
    BY <1>1, <2>3, <2>4, <2>5 DEF FinalIsOver, Final, Inserted, EndsForAReason
  <2>10. LifeCycle' /\ BeforeStop'
    BY <1>1, <2>1 DEF LifeCycle, BeforeStop, IsActive
  <2> QED BY <2>7, <2>8, <2>9, <2>10
<1>3. CASE WriteError(w, "end")
  BY <1>1, <1>3, ErrorCosts, MoveStep DEF WorkerPoints
<1>4. CASE WriteError(w, "drop") /\ rescued[w]
  <2>1. /\ Grows /\ used'.errors >= 2 /\ used'.errors >= 1
        /\ pc' = [pc EXCEPT ![w] = "drop"] /\ row' = row
        /\ \A v \in Workers : v # w => outcome'[v] = outcome[v] /\ rescued'[v] = rescued[v]
    <3>1. "drop" \in WorkerPoints /\ used.errors >= 1
      BY <1>4 DEF EndsForAReason, WorkerPoints
    <3> QED BY <1>4, <3>1, ErrorCosts DEF Grows
  <2>2. \A v \in Workers : v # w => pc'[v] = pc[v]
    BY <2>1 DEF TypeOK
  <2>3. pc'[w] = "drop"
    BY <2>1 DEF TypeOK
  <2>4. EndsForAReason'
    BY <1>1, <2>1, <2>2, <2>3 DEF EndsForAReason, Grows
  <2>5. NoStrandedRow' /\ CleanSoFar'
    BY <2>1 DEF NoStrandedRow, CleanSoFar, Undisturbed, Grows
  <2>6. FinalIsOver'
    BY <1>1, <2>1, <2>2, <2>3 DEF FinalIsOver, Final, Inserted
  <2>7. LifeCycle' /\ BeforeStop'
    BY <1>1, <2>1 DEF LifeCycle, BeforeStop, IsActive, Grows
  <2> QED BY <2>4, <2>5, <2>6, <2>7
<1> QED BY <1>2, <1>3, <1>4 DEF Write

\* _drop takes the job out of the maps: its row is final, or nobody's fault.
LEMMA DropRows ==
  ASSUME RowInv, NEW w \in Workers, Drop(w) \/ SpawnError(w)
  PROVE  RowFacts'
<1> USE Known DEF RowFacts
<1>1. /\ pc[w] \in {"drop", "spawn"} /\ cur[w] \in Jobs /\ cur[w] # NoJob /\ cur[w] \in Inserted
      /\ UNCHANGED <<srv, stopping, cancelled, key, row>>
      /\ active' = [active EXCEPT ![cur[w]] = "none"]
      /\ \A v \in Workers : v # w => /\ outcome'[v] = outcome[v] /\ rescued'[v] = rescued[v]
                                     /\ cur'[v] = cur[v] /\ pc'[v] = pc[v]
  BY DEF Drop, SpawnError, Drops, Goto, Resolve, TypeOK, life, kids, Holding, WorkerPoints
<1>2. \A h \in Jobs : h # cur[w] => active'[h] = active[h]
  BY <1>1 DEF TypeOK
<1>3. active'[cur[w]] = "none"
  BY <1>1 DEF TypeOK
<1>4. \A v \in Workers : v # w => cur[v] # cur[w]
  BY <1>1
<1>5. \A v \in Workers : v # w /\ pc[v] = "write" => active'[cur[v]] = active[cur[v]]
  BY <1>2, <1>4 DEF Holding, WorkerPoints
<1>6. CASE Drop(w)
  <2>1. /\ pc[w] = "drop" /\ pc'[w] = "idle" /\ cur'[w] = NoJob /\ ~rescued'[w] /\ UNCHANGED used
    BY <1>6 DEF Drop, Goto, TypeOK
  <2>2. Grows
    BY <2>1, KeepGrows
  <2>3. EndsForAReason'
    BY <1>1, <1>5, <2>1 DEF EndsForAReason
  <2>4. NoStrandedRow'
    <3> SUFFICES ASSUME srv # "down", used.errors <= 1, NEW j \in Inserted, row[j].status \in Pending
                 PROVE  IsActive(j)' \/ cancelled[j] \/ \E v \in Workers : cur'[v] = j
      BY <1>1, <2>1 DEF NoStrandedRow, Inserted
    <3>1. CASE j = cur[w]
      BY <1>1, <2>1, <2>2, <3>1 DEF EndsForAReason, Pending, Terminal, Grows
    <3>2. CASE j # cur[w]
      BY <1>1, <1>2, <3>2 DEF NoStrandedRow, IsActive
    <3> QED BY <3>1, <3>2
  <2>5. FinalIsOver'
    BY <1>1, <1>2, <1>3, <2>1 DEF FinalIsOver, Final, Inserted, Pending, NoJob, Jobs
  <2>6. LifeCycle'
    BY <1>1, <1>2, <1>3, <2>1 DEF LifeCycle, IsActive
  <2>7. BeforeStop'
    BY <1>1, <1>2, <1>3, <2>1 DEF BeforeStop, Terminal
  <2>8. CleanSoFar'
    BY <1>1, <2>1 DEF CleanSoFar, Undisturbed, Inserted, Pending, Terminal
  <2> QED BY <2>3, <2>4, <2>5, <2>6, <2>7, <2>8
<1>7. CASE SpawnError(w)
  <2>1. pc[w] = "spawn" /\ pc'[w] = "end" /\ UNCHANGED cur /\ outcome'[w] = "error"
    BY <1>7 DEF SpawnError, Goto, Resolve, TypeOK
  <2>2. Grows /\ used'.errors >= 1
    BY <1>7, SpendGrows DEF SpawnError, Grows
  <2>3. EndsForAReason'
    BY <1>1, <1>5, <2>1, <2>2 DEF EndsForAReason, Grows
  <2>4. NoStrandedRow'
    BY <1>1, <1>2, <2>1, <2>2 DEF NoStrandedRow, IsActive, Inserted, Grows
  <2>5. FinalIsOver'
    BY <1>1, <1>2, <2>1 DEF FinalIsOver, Final, Inserted
  <2>6. LifeCycle'
    BY <1>1, <1>2, <1>3, <2>1 DEF LifeCycle, IsActive
  <2>7. BeforeStop'
    BY <1>1, <1>2, <1>3, <2>1, <2>2 DEF BeforeStop, Terminal, Grows
  <2>8. CleanSoFar'
    BY <2>2 DEF CleanSoFar, Undisturbed
  <2> QED BY <2>3, <2>4, <2>5, <2>6, <2>7, <2>8
<1> QED BY <1>6, <1>7

\* Every step of a worker keeps what is said of the rows.
LEMMA WorkerRows ==
  ASSUME RowInv, NEW w \in Workers, WorkerNext(w)
  PROVE  RowFacts'
<1>1. CASE DrainHeap(w)
  BY <1>1, Known, KeepGrows, RowsGoOn DEF DrainHeap, life, mem, kids, wk
<1> QED BY <1>1, MovingWorker, PickRows, EndChildRows, WriteRows, DropRows DEF WorkerNext, WorkerStep

-----------------------------------------------------------------------------
(* The routes, the children and the process *)

\* A new job has a queued row and is active.
LEMMA EnqueueRows ==
  ASSUME RowInv, Grows, NEW k \in Keys, NEW kind, NEW force, Enqueue(k, kind, force),
         ~stopping, srv # "down", UNCHANGED <<srv, stopping>>
  PROVE  RowFacts'
<1> USE Known DEF RowFacts
<1> DEFINE j == Len(key) + 1
<1>1. Inserted = 1..Len(key) /\ Inserted \subseteq Jobs
  BY Facts
<1>2. j \in Jobs /\ j \notin Inserted
  <2>1. Len(key) \in Nat /\ Len(key) < MaxJobs
    BY DEF TypeOK, Enqueue
  <2> QED BY <1>1, <2>1, BoundsAssumption DEF Jobs
<1>3. key' = Append(key, k) /\ Inserted' = Inserted \cup {j}
  BY <1>1 DEF Enqueue, TypeOK, Inserted
<1>4. /\ active' = [active EXCEPT ![j] = "queued"]
      /\ row' = [row EXCEPT ![j] = [status |-> "queued", reason |-> "none"]]
      /\ UNCHANGED <<cancelled, cur, outcome, rescued>>
      /\ \A w \in Workers : pc'[w] = pc[w] \/ (pc[w] = "off" /\ pc'[w] = "idle")
  BY DEF Enqueue
<1>5. active'[j] = "queued" /\ row'[j].status = "queued"
  BY <1>2, <1>4 DEF TypeOK
<1>6. \A h \in Jobs : h # j => active'[h] = active[h] /\ row'[h] = row[h]
  BY <1>4 DEF TypeOK
<1>7. \A w \in Workers : cur[w] # j
  BY <1>2 DEF NoJob, Jobs
<1>8. \A w \in Workers : pc[w] \in Holding => active'[cur[w]] = active[cur[w]]
          /\ row'[cur[w]] = row[cur[w]]
  BY <1>2, <1>6
<1>9. EndsForAReason'
  BY <1>4, <1>8 DEF EndsForAReason, Grows, Holding, WorkerPoints
<1>10. NoStrandedRow'
  <2> SUFFICES ASSUME srv' # "down", used'.errors <= 1, NEW h \in Inserted', row'[h].status \in Pending
               PROVE  IsActive(h)' \/ cancelled'[h] \/ \E w \in Workers : cur'[w] = h
    BY DEF NoStrandedRow
  <2> HIDE DEF j
  <2>1. CASE h = j
    BY <1>5, <2>1 DEF IsActive
  <2>2. CASE h # j
    <3>1. h \in Inserted /\ row'[h] = row[h] /\ active'[h] = active[h]
      BY <1>1, <1>3, <1>6, <2>2
    <3>2. used.errors <= 1
      BY DEF Grows
    <3>3. IsActive(h) \/ cancelled[h] \/ \E w \in Workers : cur[w] = h
      BY <3>1, <3>2 DEF NoStrandedRow
    <3> QED BY <1>4, <3>1, <3>3 DEF IsActive
  <2> QED BY <2>1, <2>2
<1>11. FinalIsOver'
  BY <1>1, <1>3, <1>4, <1>5, <1>6 DEF FinalIsOver, Final
<1>12. LifeCycle' /\ BeforeStop'
  BY <1>4, <1>5, <1>6 DEF LifeCycle, BeforeStop, IsActive, Terminal, Grows
<1>13. CleanSoFar'
  BY <1>4, <1>8 DEF CleanSoFar, Undisturbed, Grows, Holding, WorkerPoints
<1> QED BY <1>9, <1>10, <1>11, <1>12, <1>13

\* The routes submit only while the server serves.
LEMMA RequestRows ==
  ASSUME RowInv, RequestNext
  PROVE  RowFacts'
<1>1. PICK k \in Keys, kind \in {"lazy", "eager"}, force \in BOOLEAN :
        Serving /\ Submit(k, kind, force)
  BY DEF RequestNext, Get, Retry, CommitHook
<1>2. CASE Join(k, kind)
  BY <1>2, Known, KeepGrows, RowsGoOn DEF Join, life, mem, kids, wk
<1>3. CASE Enqueue(k, kind, force) /\ Spend("requests") /\ UNCHANGED life
  BY <1>1, <1>3, Known, SpendGrows, EnqueueRows DEF Serving, life
<1> QED BY <1>1, <1>2, <1>3 DEF Submit

\* cancel_bundle drops the queued jobs it has cancelled.
LEMMA CancelRows ==
  ASSUME RowInv, CancelNext
  PROVE  RowFacts'
<1> USE Known DEF RowFacts
<1>1. PICK d \in Digests : CancelBundle(d) \/ CancelReturn(d) \/ CancelTimeout(d)
  BY DEF CancelNext
<1>2. CASE CancelReturn(d) \/ CancelTimeout(d)
  BY <1>2, KeepGrows, RowsGoOn DEF CancelReturn, CancelTimeout, life, queue, mem, kids, wk
<1>3. CASE CancelBundle(d)
  <2>1. /\ Grows /\ used'.cancels = used.cancels + 1 /\ used'.cancels # 0
        /\ UNCHANGED <<srv, stopping, key, row, pc, cur, outcome, rescued>>
    BY <1>3, SpendGrows DEF CancelBundle, Grows, life, wk
  <2>2. \A j \in Jobs : /\ cancelled[j] => cancelled'[j]
                        /\ active'[j] = active[j] \/ (cancelled'[j] /\ active'[j] = "none")
    BY <1>3 DEF CancelBundle
  <2>3. \A w \in Workers : pc[w] \in Holding /\ cancelled[cur[w]] => cancelled'[cur[w]]
    BY <2>2
  <2>4. EndsForAReason'
    BY <2>1, <2>2, <2>3 DEF EndsForAReason, Grows, Holding, WorkerPoints, Pending
  <2>5. NoStrandedRow'
    BY <2>1, <2>2 DEF NoStrandedRow, IsActive, Inserted, Grows
  <2>6. FinalIsOver'
    BY <2>1, <2>2 DEF FinalIsOver, Final, Inserted, Pending
  <2>7. LifeCycle' /\ BeforeStop' /\ CleanSoFar'
    BY <2>1, <2>2 DEF LifeCycle, BeforeStop, CleanSoFar, Undisturbed, IsActive, Terminal
  <2> QED BY <2>4, <2>5, <2>6, <2>7
<1> QED BY <1>1, <1>2, <1>3

\* A child writes no row.
LEMMA ChildRows ==
  ASSUME RowInv, NEW j \in Inserted, ChildNext(j)
  PROVE  RowFacts'
BY Known, KeepGrows, RowsGoOn DEF ChildNext, life, queue, mem, wk

\* What is over stays over when the process ends.
LEMMA ForgetRows ==
  ASSUME RowInv, NEW S, Forget(S), Grows, UNCHANGED <<key, row>>
  PROVE  RowFacts'
<1> USE DEF RowFacts
<1>1. /\ \A j \in Jobs : active'[j] = "none" /\ ~cancelled'[j]
      /\ \A w \in Workers : pc'[w] = "off" /\ cur'[w] = NoJob /\ ~rescued'[w]
      /\ srv' = "down" /\ ~stopping'
  BY DEF Forget
<1>2. EndsForAReason' /\ NoStrandedRow' /\ LifeCycle' /\ BeforeStop' /\ CleanSoFar'
  BY <1>1 DEF EndsForAReason, NoStrandedRow, LifeCycle, BeforeStop, CleanSoFar, IsActive, Terminal
<1>3. FinalIsOver'
  BY <1>1, Known DEF FinalIsOver, Inserted, Pending, NoJob, Jobs
<1> QED BY <1>2, <1>3

\* A shutdown fails the rows of the jobs it stops, all of them unless a write
\* of a row fails.
LEMMA StopsRows ==
  ASSUME RowInv, Grows, Serving,
         NEW hit \in SUBSET ToStop, NEW recorded \in SUBSET ToStop, NEW killed,
         Stops(hit, recorded, killed), recorded = ToStop \/ used'.errors >= 1
  PROVE  RowFacts'
<1> USE Known DEF RowFacts
<1>1. /\ UNCHANGED <<srv, key, pc, cur, outcome, rescued>>
      /\ stopping' /\ ~stopping /\ srv = "up"
  BY DEF Stops, Serving, wk
<1>2. \A j \in Jobs : /\ cancelled[j] => cancelled'[j]
                      /\ active'[j] = active[j] \/ (active[j] \in Pending /\ active'[j] = "failed")
  BY DEF Stops, ToStop
<1>3. \A j \in Jobs : \/ row'[j] = row[j] /\ j \notin recorded
                      \/ j \in recorded /\ row'[j].status = "failed"
  <2>1. \A j \in recorded : Present(j) /\ row[j] \in Rows /\ j \in Jobs
    BY DEF ToStop, Sound, InsertedHasRow, TypeOK
  <2> QED BY <2>1 DEF Stops, Failed, Rows
<1>4. \A w \in Workers : pc[w] \in Holding =>
        /\ cancelled[cur[w]] => cancelled'[cur[w]]
        /\ row[cur[w]].status \in Terminal => row'[cur[w]].status \in Terminal
  BY <1>2, <1>3 DEF Terminal
<1>5. EndsForAReason'
  BY <1>1, <1>2, <1>4 DEF EndsForAReason, Grows, Holding, WorkerPoints, Pending
<1>6. NoStrandedRow'
  BY <1>1, <1>2, <1>3 DEF NoStrandedRow, IsActive, Inserted, Grows, Pending
<1>7. FinalIsOver'
  <2> SUFFICES ASSUME NEW j \in Inserted, row'[j].status = "done"
               PROVE  active'[j] \notin Pending /\ \A w \in Workers : cur[w] = j => pc[w] = "drop"
    BY <1>1 DEF FinalIsOver, Final, Inserted
  <2>1. row[j].status = "done"
    BY <1>3
  <2> QED BY <1>2, <2>1 DEF FinalIsOver, Final, Pending
<1>8. LifeCycle' /\ BeforeStop'
  BY <1>1 DEF LifeCycle, BeforeStop
<1>9. CleanSoFar'
  <2> SUFFICES ASSUME Undisturbed'
               PROVE  /\ \A w \in Workers : pc[w] = "drop" => row'[cur[w]].status \in Terminal
                      /\ \A j \in Inserted : row'[j].status \in Pending => \E w \in Workers : cur[w] = j
    BY <1>1 DEF CleanSoFar, Inserted
  <2>1. Undisturbed /\ used.errors <= 1 /\ recorded = ToStop
    BY DEF Undisturbed, Grows
  <2>2. \A w \in Workers : pc[w] = "drop" => row'[cur[w]].status \in Terminal
    BY <1>4, <2>1 DEF CleanSoFar, Holding, WorkerPoints
  <2>3. ASSUME NEW j \in Inserted, row'[j].status \in Pending
        PROVE  \E w \in Workers : cur[w] = j
    <3>1. row[j].status \in Pending /\ active[j] \notin Pending
      BY <1>3, <2>1, <2>3 DEF ToStop, Pending
    <3>2. IsActive(j) \/ cancelled[j] \/ \E w \in Workers : cur[w] = j
      BY <1>1, <2>1, <3>1 DEF NoStrandedRow
    <3>3. ~cancelled[j]
      BY <1>1, <2>1 DEF BeforeStop, Undisturbed
    <3>4. IsActive(j) => active[j] \in Terminal
      BY <3>1 DEF IsActive, TypeOK, ActiveStatuses
    <3> QED BY <1>1, <3>2, <3>3, <3>4 DEF BeforeStop
  <2> QED BY <2>2, <2>3
<1> QED BY <1>5, <1>6, <1>7, <1>8, <1>9

\* recover() fails the rows of a process that has nothing in memory.
LEMMA StartRows ==
  ASSUME RowInv, Start
  PROVE  RowFacts'
<1> USE Known DEF RowFacts
<1>1. /\ srv = "down" /\ srv' = "recovering" /\ ~stopping /\ ~stopping' /\ Grows
      /\ UNCHANGED <<active, cancelled, key, pc, cur, outcome, rescued, used>>
  BY KeepGrows DEF Start, LifeCycle, mem, wk
<1>2. (\A j \in Jobs : ~IsActive(j)) /\ \A w \in Workers : cur[w] = NoJob /\ pc[w] \notin Holding
  BY <1>1 DEF LifeCycle
<1>3. \A j \in Inserted : row'[j].status \notin Pending
  <2>1. ASSUME NEW j \in Inserted PROVE row[j] \in Rows /\ Present(j)
    BY DEF TypeOK, Sound, InsertedHasRow
  <2> QED BY <2>1 DEF Start, Failed, Rows, Pending
<1>4. EndsForAReason' /\ FinalIsOver'
  BY <1>1, <1>2 DEF EndsForAReason, FinalIsOver, IsActive, Inserted, Holding, WorkerPoints, Pending,
                    NoJob, Jobs
<1>5. NoStrandedRow' /\ CleanSoFar'
  BY <1>1, <1>2, <1>3 DEF NoStrandedRow, CleanSoFar, Inserted, Holding, WorkerPoints
<1>6. LifeCycle' /\ BeforeStop'
  BY <1>1 DEF LifeCycle, BeforeStop
<1> QED BY <1>4, <1>5, <1>6

\* Start, recovery, shutdown and the end of the process keep what is said of
\* the rows.
LEMMA ServerRows ==
  ASSUME RowInv, ServerNext
  PROVE  RowFacts'
<1>1. CASE Shutdown
  BY <1>1, Known, SpendGrows, StopsRows DEF Shutdown
<1>2. CASE ShutdownError
  <2>1. Grows /\ used'.errors >= 1
    <3>1. DOMAIN Budget = {"requests", "cancels", "stops", "errors"}
      BY DEF Budget
    <3>2. used' = [used EXCEPT !.stops = @ + 1, !.errors = @ + 1]
      BY <1>2 DEF ShutdownError
    <3> HIDE DEF Budget
    <3>3. used \in [{"requests", "cancels", "stops", "errors"} -> Nat]
      BY <3>1, Known DEF TypeOK
    <3>4. used'.errors = used.errors + 1 /\ used'.cancels = used.cancels
      BY <3>2, <3>3
    <3> QED BY <3>3, <3>4 DEF Grows
  <2>2. \E hit, recorded \in SUBSET ToStop, killed \in SUBSET Inserted : Stops(hit, recorded, killed)
    BY <1>2 DEF ShutdownError, ToStop, ToKill
  <2> QED BY <1>2, <2>1, <2>2, StopsRows DEF ShutdownError
<1>3. CASE Exit \/ Crash
  BY <1>3, Known, KeepGrows, SpendGrows, ForgetRows DEF Exit, Crash
<1>4. CASE Start
  BY <1>4, StartRows
<1>5. CASE Ready \/ \E k \in Keys : RecoverCached(k)
  BY <1>5, Known, KeepGrows, RowsGoOn DEF Ready, RecoverCached, mem, kids, wk
<1>6. ASSUME NEW k \in Keys, RecoverSubmit(k) PROVE RowFacts'
  BY <1>6, Known, KeepGrows, EnqueueRows DEF RecoverSubmit, RowFacts, LifeCycle
<1>7. ASSUME NEW d \in Digests, RecoverError(d) PROVE RowFacts'
  BY <1>7, Known, SpendGrows, RowsGoOn DEF RecoverError, mem, kids, wk
<1> QED BY <1>1, <1>2, <1>3, <1>4, <1>5, <1>6, <1>7 DEF ServerNext, RecoverNext

\* Nothing is said of the rows that the initial states do not satisfy.
LEMMA RowsInit == Init => RowFacts
<1> SUFFICES ASSUME Init PROVE RowFacts
  OBVIOUS
<1>1. EndsForAReason /\ NoStrandedRow /\ LifeCycle /\ CleanSoFar
  BY DEF Init, EndsForAReason, NoStrandedRow, LifeCycle, CleanSoFar, IsActive
<1>2. FinalIsOver /\ BeforeStop
  BY DEF Init, FinalIsOver, BeforeStop, Inserted, Terminal
<1> QED BY <1>1, <1>2 DEF RowFacts

\* The invariant about the rows is inductive.
LEMMA RowsNext == RowInv /\ [Next]_vars => RowInv'
<1> SUFFICES ASSUME RowInv, [Next]_vars PROVE RowInv'
  OBVIOUS
<1>1. IInv'
  BY InvNext DEF RowInv
<1>2. RowFacts'
  <2>1. CASE UNCHANGED vars
    BY <2>1, Known, KeepGrows, RowsGoOn DEF vars, life, mem, wk
  <2> QED BY <2>1, RequestRows, CancelRows, WorkerRows, ChildRows, ServerRows DEF Next
<1> QED BY <1>1, <1>2 DEF RowInv

\* No step writes the row of a job that is over.
LEMMA FinalRowStays ==
  ASSUME RowInv, [Next]_vars, NEW j \in Inserted, Final(j)
  PROVE  row'[j] = row[j]
<1> USE Known DEF RowFacts
<1>1. j \in Jobs /\ active[j] \notin Pending /\ \A w \in Workers : cur[w] = j => pc[w] = "drop"
  BY DEF FinalIsOver
<1>2. ASSUME NEW w \in Workers, WorkerNext(w) PROVE row'[j] = row[j]
  <2>1. CASE Begin(w) \/ PipeError(w) \/ RecvStage(w) \/ Write(w)
    <3>1. pc[w] # "drop" /\ (row' = row \/ \E r : row' = [row EXCEPT ![cur[w]] = r])
      BY <2>1 DEF Begin, PipeError, RecvStage, Receives, Write, Record, WriteError
    <3> QED BY <1>1, <3>1 DEF TypeOK
  <2>2. CASE ~(Begin(w) \/ PipeError(w) \/ RecvStage(w) \/ Write(w))
    <3>1. \/ Pick(w) \/ DrainHeap(w) \/ Leave(w) \/ Spawn(w) \/ Attach(w) \/ CheckStopped(w)
          \/ CheckOk(w) \/ PollTimeout(w) \/ RecvEof(w) \/ (\E m \in Messages : RecvFinal(w, m))
          \/ EndChild(w) \/ Drop(w) \/ CheckDeadline(w) \/ SpawnError(w)
      BY <1>2, <2>2 DEF WorkerNext, WorkerStep
    <3> QED BY <3>1 DEF Pick, DrainHeap, Leave, Spawn, Attach, CheckStopped, CheckOk, PollTimeout,
                        RecvEof, RecvFinal, EndChild, Drop, CheckDeadline, SpawnError
  <2> QED BY <2>1, <2>2
<1>3. ASSUME NEW k \in Keys, NEW kind, NEW force, Enqueue(k, kind, force) PROVE row'[j] = row[j]
  <2>1. j # Len(key) + 1
    BY Facts DEF TypeOK
  <2> QED BY <1>3, <2>1 DEF Enqueue, TypeOK
<1>4. CASE RequestNext
  BY <1>3, <1>4 DEF RequestNext, Get, Retry, CommitHook, Submit, Join
<1>5. CASE CancelNext
  BY <1>5 DEF CancelNext, CancelBundle, CancelReturn, CancelTimeout
<1>6. ASSUME NEW i \in Inserted, ChildNext(i) PROVE row'[j] = row[j]
  BY <1>6 DEF ChildNext
<1>7. CASE ServerNext
  <2>1. ASSUME Shutdown \/ ShutdownError PROVE row'[j] = row[j]
    <3>1. j \notin ToStop
      BY <1>1 DEF ToStop
    <3> QED BY <1>1, <2>1, <3>1 DEF Shutdown, ShutdownError, Stops
  <2>2. CASE Start
    BY <1>1, <2>2 DEF Start, Final, Pending
  <2> QED BY <1>3, <1>7, <2>1, <2>2 DEF ServerNext, RecoverNext, Exit, Crash, Ready, RecoverCached,
       RecoverSubmit, RecoverError
<1>8. CASE UNCHANGED vars
  BY <1>8 DEF vars
<1> QED BY <1>2, <1>4, <1>5, <1>6, <1>7, <1>8 DEF Next

-----------------------------------------------------------------------------
(* The children of a manager that is not stopping *)

\* A live child belongs to a running job, and so will the one that is next.
LiveRuns ==
  ~stopping =>
    /\ \A w \in Workers : pc[w] \in {"begin", "spawn"} => active[cur[w]] = "running"
    /\ \A j \in Jobs : Live(j) => active[j] = "running"

\* A worker takes a queued job, and kills the child before the job is over.
LEMMA WorkerLive ==
  ASSUME IInv, LiveRuns, NEW w \in Workers, WorkerNext(w)
  PROVE  LiveRuns'
<1>0. /\ TypeOK /\ Sound /\ Inserted \subseteq Jobs
      /\ \A v \in Workers : pc[v] \in Holding => cur[v] # NoJob /\ cur[v] \in Inserted
  BY Facts
<1> USE DEF LiveRuns
<1>1. CASE Pick(w)
  <2>1. PICK i \in 1..Len(Heap) : /\ active[Heap[i]] = "queued"
                                  /\ cur' = [cur EXCEPT ![w] = Heap[i]]
                                  /\ active' = [active EXCEPT ![Heap[i]] = "running"]
    BY <1>1 DEF Pick, FirstRunnable, Runnable
  <2>2. Heap[i] \in Jobs
    BY <1>0, HeapType
  <2>3. \A j \in Jobs : active'[j] = active[j] \/ active'[j] = "running"
    BY <1>0, <2>1 DEF TypeOK
  <2>4. \A v \in Workers : v # w => pc'[v] = pc[v] /\ cur'[v] = cur[v]
    BY <1>0, <1>1, <2>1 DEF Pick, Goto, TypeOK
  <2>5. active'[cur'[w]] = "running"
    BY <1>0, <2>1, <2>2 DEF TypeOK
  <2> QED BY <1>0, <1>1, <2>3, <2>4, <2>5 DEF Pick, life, kids, Live, Holding, WorkerPoints
<1>2. CASE Spawn(w)
  <2>1. \A j \in Jobs : Live(j)' => Live(j) \/ j = cur[w]
    BY <1>0, <1>2 DEF Spawn, Live, TypeOK
  <2> QED BY <1>0, <1>2, <2>1 DEF Spawn, life, mem, Goto, TypeOK
<1>3. CASE EndChild(w)
  <2>1. /\ \A j \in Jobs : Live(j)' => Live(j) /\ j # cur[w]
        /\ \A j \in Jobs : j # cur[w] => active'[j] = active[j]
        /\ \A v \in Workers : pc'[v] \in {"begin", "spawn"} => v # w /\ pc'[v] = pc[v]
        /\ UNCHANGED <<stopping, cur>> /\ pc[w] = "end"
    BY <1>0, <1>3 DEF EndChild, KilledChild, Ended, Live, LiveStates, Goto, life, TypeOK
  <2>2. \A v \in Workers : v # w /\ pc[v] \in Holding => cur[v] # cur[w]
    BY <1>0, <2>1 DEF Sound, OneRunnerPerJob
  <2> QED BY <1>0, <2>1, <2>2 DEF Holding, WorkerPoints
<1>4. CASE Drop(w) \/ SpawnError(w)
  <2>1. /\ \A j \in Jobs : j # cur[w] => active'[j] = active[j]
        /\ \A v \in Workers : pc'[v] \in {"begin", "spawn"} => v # w /\ pc'[v] = pc[v]
            /\ cur'[v] = cur[v]
        /\ UNCHANGED <<stopping, child>> /\ pc[w] \in {"spawn", "drop"}
    BY <1>0, <1>4 DEF Drop, SpawnError, Drops, Goto, life, kids, TypeOK
  <2>2. \A v \in Workers : v # w /\ pc[v] \in Holding => cur[v] # cur[w]
    BY <1>0, <2>1 DEF Sound, OneRunnerPerJob, Holding, WorkerPoints
  <2>3. ~Live(cur[w])
    <3>1. cur[w] \in Jobs
      BY <1>0, <2>1 DEF Holding, WorkerPoints
    <3> QED BY <1>0, <2>1, <3>1 DEF Sound, LiveIsFollowed, OneRunnerPerJob, Runs, Holding, WorkerPoints
  <2> QED BY <1>0, <2>1, <2>2, <2>3 DEF Live, Holding, WorkerPoints
<1>5. CASE ~(Pick(w) \/ Spawn(w) \/ EndChild(w) \/ Drop(w) \/ SpawnError(w))
  <2>1. CASE Begin(w)
    BY <1>0, <2>1 DEF Begin, Record, WriteError, Goto, life, mem, kids, Live, TypeOK
  <2>2. CASE ~Begin(w)
    <3>1. /\ UNCHANGED <<stopping, active, child, cur>>
          /\ \E p \in WorkerPoints \ {"begin", "spawn"} : pc' = [pc EXCEPT ![w] = p]
      <4>1. CASE DrainHeap(w)
        <5>1. pc[w] = "idle" /\ pc' = [pc EXCEPT ![w] = "idle"]
          BY <1>0, <4>1 DEF DrainHeap, wk, TypeOK
        <5> QED BY <4>1, <5>1 DEF DrainHeap, life, mem, kids, wk, WorkerPoints
      <4>2. CASE RecvStage(w) \/ Write(w) \/ PipeError(w)
        BY <4>2 DEF RecvStage, Write, PipeError, Record, WriteError, Goto, life, mem, kids, WorkerPoints
      <4>3. CASE \/ Leave(w) \/ Attach(w) \/ CheckOk(w) \/ PollTimeout(w)
                 \/ CheckStopped(w) \/ CheckDeadline(w) \/ RecvEof(w) \/ \E m \in Messages :
                     RecvFinal(w, m)
        BY <4>3 DEF Leave, Attach, CheckOk, PollTimeout, CheckStopped, CheckDeadline, RecvEof,
            RecvFinal,
                    Goto, life, mem, kids, WorkerPoints
      <4> QED BY <1>5, <2>2, <4>1, <4>2, <4>3 DEF WorkerNext, WorkerStep
    <3> QED BY <1>0, <3>1 DEF Live, TypeOK
  <2> QED BY <2>1, <2>2
<1> QED BY <1>1, <1>2, <1>3, <1>4, <1>5

\* Nobody else starts a child, or ends a running job without stopping.
LEMMA LiveRunsNext ==
  ASSUME IInv, RowFacts, LiveRuns, [Next]_vars
  PROVE  LiveRuns'
<1>0. /\ TypeOK /\ Sound /\ Inserted \subseteq Jobs
      /\ \A v \in Workers : pc[v] \in Holding => cur[v] # NoJob /\ cur[v] \in Inserted
  BY Facts
<1> USE DEF LiveRuns
<1>1. ASSUME UNCHANGED <<stopping, active, pc, cur>>, \A j \in Jobs : Live(j)' => Live(j)
      PROVE  LiveRuns'
  BY <1>1
<1>2. ASSUME NEW k \in Keys, NEW kind, NEW force, Enqueue(k, kind, force), UNCHANGED stopping
      PROVE  LiveRuns'
  <2> DEFINE i == Len(key) + 1
  <2>1. /\ \A j \in Jobs : j # i => active'[j] = active[j]
        /\ \A v \in Workers : pc'[v] = pc[v] \/ pc'[v] = "idle"
        /\ UNCHANGED <<child, cur>>
    BY <1>0, <1>2 DEF Enqueue, kids, TypeOK
  <2>2. i \notin Inserted
    BY Facts DEF TypeOK
  <2>3. \A j \in Jobs : Live(j) => j \in Inserted
    BY <1>0 DEF Sound, LiveIsFollowed, ActiveIsIndexed
  <2> QED BY <1>0, <1>2, <2>1, <2>2, <2>3 DEF Live, Holding, WorkerPoints
<1>3. CASE RequestNext
  <2>1. PICK k \in Keys, kind \in {"lazy", "eager"}, force \in BOOLEAN : Submit(k, kind, force)
    BY <1>3 DEF RequestNext, Get, Retry, CommitHook
  <2> QED BY <1>1, <1>2, <2>1 DEF Submit, Join, life, mem, kids, wk, Live
<1>4. CASE CancelNext
  <2>1. PICK d \in Digests : CancelBundle(d) \/ CancelReturn(d) \/ CancelTimeout(d)
    BY <1>4 DEF CancelNext
  <2>2. CASE CancelReturn(d) \/ CancelTimeout(d)
    BY <1>1, <2>2 DEF CancelReturn, CancelTimeout, life, mem, kids, wk, Live
  <2>3. CASE CancelBundle(d)
    <3>1. /\ \A j \in Jobs : active[j] = "running" => active'[j] = "running"
          /\ \A j \in Jobs : Live(j)' => Live(j)
          /\ UNCHANGED <<stopping, pc, cur>>
      BY <2>3 DEF CancelBundle, life, wk, Live, LiveStates
    <3> QED BY <1>0, <3>1 DEF Holding, WorkerPoints
  <2> QED BY <2>1, <2>2, <2>3
<1>5. ASSUME NEW j \in Inserted, ChildNext(j) PROVE LiveRuns'
  <2>1. PICK from \in LiveStates \cup {"orphan"}, to \in ChildStates :
          ChildStep(j, from, to) /\ (from = "orphan" => to = "dead")
    BY <1>5 DEF ChildNext, ChildStart, ChildDerive, ChildReport, ChildFail, ChildExit, ChildCrash, OrphanEnds,
           ChildStates, LiveStates
  <2>2. \A i \in Jobs : Live(i)' => Live(i)
    BY <1>0, <2>1 DEF ChildStep, Live, LiveStates, TypeOK
  <2> QED BY <1>1, <1>5, <2>2 DEF ChildNext, life, mem, wk
<1>6. CASE ServerNext
  <2>1. CASE Shutdown \/ ShutdownError
    BY <2>1 DEF Shutdown, ShutdownError, Stops
  <2>2. CASE Exit \/ Crash
    BY <2>2 DEF Exit, Crash, Forget, Live, LiveStates
  <2>3. CASE Start \/ Ready
    BY <1>1, <2>3 DEF Start, Ready, mem, kids, wk, Live
  <2>4. ASSUME NEW k \in Keys, RecoverCached(k) \/ RecoverSubmit(k) PROVE LiveRuns'
    BY <1>1, <1>2, <2>4 DEF RecoverCached, RecoverSubmit, mem, kids, wk, Live
  <2>5. ASSUME NEW d \in Digests, RecoverError(d) PROVE LiveRuns'
    BY <1>1, <2>5 DEF RecoverError, mem, kids, wk, Live
  <2> QED BY <1>6, <2>1, <2>2, <2>3, <2>4, <2>5 DEF ServerNext, RecoverNext
<1>7. CASE UNCHANGED vars
  BY <1>1, <1>7 DEF vars, life, mem, kids, wk, Live
<1> QED BY <1>3, <1>4, <1>5, <1>6, <1>7, WorkerLive DEF Next

-----------------------------------------------------------------------------
(* The theorems about the rows *)

\* What is said of the rows holds in every reachable state.
THEOREM RowInvariant == Spec => []RowInv
<1>1. Init => RowInv
  BY InvInit, RowsInit DEF RowInv
<1> QED BY <1>1, RowsNext, PTL DEF Spec

\* While the server is up, an unfinished row belongs to a job that somebody
\* will finish or has cancelled, unless two writes have failed.
THEOREM RowsAreNotStranded == Spec => []NoStrandedRow
<1>1. RowInv => NoStrandedRow
  BY DEF RowInv, RowFacts
<1> QED BY <1>1, RowInvariant, PTL

\* A shutdown that could join its workers leaves no unfinished row behind,
\* unless a write failed or a bundle was being deleted.
THEOREM ShutdownIsClean == Spec => []CleanShutdown
<1>1. RowInv => CleanShutdown
  <2> SUFFICES ASSUME RowInv, stopping, used.cancels = 0, used.errors = 0,
                      \A w \in Workers : pc[w] \in {"off", "gone"},
                      NEW j \in Inserted, row[j].status \in Pending
               PROVE  FALSE
    BY DEF CleanShutdown
  <2>1. PICK w \in Workers : cur[w] = j
    BY DEF RowInv, RowFacts, CleanSoFar, Undisturbed
  <2> QED BY <2>1, Known DEF Holding, NoJob, Jobs
<1> QED BY <1>1, RowInvariant, PTL

\* A finished row is written again by nobody, except by a shutdown that fails it.
THEOREM FinalRowsStay == Spec => FinalRowsKept
<1> DEFINE Kept == \A j \in Inserted :
                     /\ row[j].status = "done" => row'[j] = row[j]
                     /\ row[j].status = "failed" /\ ~stopping => row'[j] = row[j]
<1>1. RowInv /\ [Next]_vars => [Kept]_vars
  BY FinalRowStays DEF Final
<1>2. Spec => [][Kept]_vars
  BY <1>1, RowInvariant, PTL DEF Spec
<1> QED BY <1>2 DEF FinalRowsKept

\* When cancel_bundle returns before its time is up, no live child is left of
\* a job of the bundle.
THEOREM CancelIsComplete == Spec => CancelLeavesNoChild
<1> DEFINE NoChild(d) == srv' = "up" /\ ~stopping /\ Stopped(d) => \A j \in JobsOf(d) : ~Live(j)
<1>1. Init => LiveRuns
  BY DEF Init, LiveRuns, Live, LiveStates
<1>2. RowInv /\ LiveRuns /\ [Next]_vars => LiveRuns'
  BY LiveRunsNext DEF RowInv
<1>3. Spec => []LiveRuns
  BY <1>1, <1>2, RowInvariant, PTL DEF Spec
<1>4. RowInv /\ LiveRuns /\ [Next]_vars => [\A d \in cancelling \ cancelling' : NoChild(d)]_vars
  BY Known DEF LiveRuns, Stopped, JobsOf
<1>5. Spec => [][\A d \in cancelling \ cancelling' : NoChild(d)]_vars
  BY <1>3, <1>4, RowInvariant, PTL DEF Spec
<1> QED BY <1>5 DEF CancelLeavesNoChild
=============================================================================
