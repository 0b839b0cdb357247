------------------------- MODULE ViewerServerProofs -------------------------
(* Machine-checked proofs about ViewerServer: with bundles deleted and       *)
(* uploaded again at any time, a live child has a worker that follows it and *)
(* an unfinished row has somebody who will finish or delete it. For every set *)
(* of keys, bundles and workers and every bound.                             *)
(*                                                                          *)
(* A deletion takes the rows of jobs that may still be active, so that the   *)
(* invariant of JobManagerProofs does not hold here: the dedup map may name   *)
(* another job of the key, and an inserted job may have no row. Core is what  *)
(* is left of it.                                                            *)
EXTENDS ViewerServer, JobManagerProofs

ActiveIsInserted == \A j \in Jobs : IsActive(j) => j \in Inserted
Core ==
  /\ TypeOK
  /\ WorkerHoldsJob
  /\ HeldNotQueued
  /\ OutcomeKnown
  /\ ActiveIsInserted
  /\ LiveIsFollowed
  /\ OneRunnerPerJob

HttpTypes ==
  /\ stored \subseteq Digests
  /\ deletion \in [Digests -> {"none", "cancelling", "deleting"}]
  /\ requests \subseteq Keys \X {"get", "retry"}
  /\ hooks \subseteq EagerKeys

\* The bundle of job j is being deleted.
Doomed(j) == deletion[DigestOf[key[j]]] # "none"
CancelledIsInserted == \A j \in Jobs : cancelled[j] => j \in Inserted
\* Until the manager stops, only a deletion cancels, and it takes the rows.
CancelledIsDoomed == ~stopping => \A j \in Inserted : cancelled[j] /\ Present(j) => Doomed(j)
\* What a worker that ends its job, or lets go of it, knows of it.
WorkerKnows ==
  \A w \in Workers :
    /\ rescued[w] => used.errors >= 1
    /\ pc[w] = "end" /\ outcome[w] = "cancelled" => cancelled[cur[w]]
    /\ pc[w] = "drop" /\ row[cur[w]].status \in Pending => Doomed(cur[w]) \/ used.errors >= 2
FailedHasReason == \A j \in Jobs : row[j].status = "failed" => row[j].reason # "none"
RowPart ==
  /\ CancelledIsInserted /\ CancelledIsDoomed /\ WorkerKnows /\ FailedHasReason /\ RowsAreOwned

ServerInv == Core /\ HttpTypes /\ RowPart

-----------------------------------------------------------------------------
(* What the cases have in common *)

\* What they take from the invariant.
LEMMA CoreKnown ==
  ASSUME Core
  PROVE  /\ TypeOK /\ Inserted = 1..Len(key) /\ Inserted \subseteq Jobs
         /\ \A w \in Workers : cur[w] # NoJob => pc[w] \in Holding /\ cur[w] \in Inserted
         /\ \A w \in Workers : pc[w] \in Holding => cur[w] # NoJob /\ cur[w] \in Inserted
         /\ \A v, w \in Workers : cur[v] = cur[w] /\ cur[v] # NoJob => v = w
         /\ \A j \in Inserted : key[j] \in Keys /\ DigestOf[key[j]] \in Digests
<1>1. TypeOK /\ Inserted = 1..Len(key) /\ Inserted \subseteq Jobs
  BY InsertedType DEF Core
<1>2. \A j \in Inserted : key[j] \in Keys /\ DigestOf[key[j]] \in Digests
  BY <1>1, KeysAssumption DEF TypeOK
<1> QED BY <1>1, <1>2 DEF Core, WorkerHoldsJob, OneRunnerPerJob, NoJob, Jobs

\* The account of errors only ever grows.
ErrorsGrow == used.errors \in Nat /\ used'.errors \in Nat /\ used.errors <= used'.errors
LEMMA SpendErrors ==
  ASSUME TypeOK, NEW b \in {"requests", "cancels", "stops", "errors"}, Spend(b)
  PROVE  ErrorsGrow /\ (b = "errors" => used'.errors = used.errors + 1)
<1>1. DOMAIN Budget = {"requests", "cancels", "stops", "errors"}
  BY DEF Budget
<1> HIDE DEF Budget
<1> QED BY <1>1 DEF TypeOK, Spend, ErrorsGrow
LEMMA KeepErrors ==
  ASSUME TypeOK, UNCHANGED used
  PROVE  ErrorsGrow
<1>1. DOMAIN Budget = {"requests", "cancels", "stops", "errors"}
  BY DEF Budget
<1> HIDE DEF Budget
<1> QED BY <1>1 DEF TypeOK, ErrorsGrow

\* A step that leaves the jobs and the workers alone, and ends no deletion.
LEMMA CalmCore ==
  ASSUME Core, TypeOK', UNCHANGED <<active, key, child, pc, cur, outcome>>
  PROVE  Core'
BY DEF Core, WorkerHoldsJob, HeldNotQueued, OutcomeKnown, ActiveIsInserted, LiveIsFollowed,
       OneRunnerPerJob, IsActive, Live, Runs, Inserted
LEMMA CalmRows ==
  ASSUME Core, RowPart, ErrorsGrow, srv' # "down" => srv # "down",
         UNCHANGED <<stopping, active, cancelled, key, row, pc, cur, outcome, rescued>>,
         \A d \in Digests : deletion[d] # "none" => deletion'[d] # "none"
  PROVE  RowPart'
<1>1. \A j \in Inserted : Doomed(j) => Doomed(j)'
  BY CoreKnown DEF Doomed
<1> QED
  BY <1>1, CoreKnown
     DEF RowPart, CancelledIsInserted, CancelledIsDoomed, WorkerKnows, FailedHasReason, RowsAreOwned,
         IsActive, Present, Inserted, Doomed, ErrorsGrow, Holding, WorkerPoints

-----------------------------------------------------------------------------
(* The worker *)

\* A worker goes on to another point at which it holds its job.
LEMMA MoveCore ==
  ASSUME Core, NEW w \in Workers, pc[w] \in Holding, NEW p \in Holding,
         pc' = [pc EXCEPT ![w] = p], UNCHANGED <<key, cur>>,
         \A i \in Jobs : i # cur[w] => active'[i] = active[i] /\ (Live(i)' => Live(i)),
         active'[cur[w]] # "queued", p \in Early => IsActive(cur[w])',
         Live(cur[w])' => IsActive(cur[w])' /\ p \in Follows
  PROVE  WorkerHoldsJob' /\ HeldNotQueued' /\ ActiveIsInserted' /\ LiveIsFollowed' /\ OneRunnerPerJob'
<1> USE CoreKnown
<1>1. \A v \in Workers : v # w => pc'[v] = pc[v] /\ (cur[v] # NoJob => cur[v] # cur[w])
  BY DEF TypeOK
<1>2. pc'[w] = p /\ cur[w] \in Jobs /\ cur[w] \in Inserted /\ cur[w] # NoJob
  BY DEF TypeOK
<1>3. WorkerHoldsJob'
  BY <1>1, <1>2 DEF Core, WorkerHoldsJob, Inserted
<1>4. HeldNotQueued'
  <2> SUFFICES ASSUME NEW v \in Workers, cur[v] # NoJob
               PROVE  active'[cur[v]] # "queued" /\ (pc'[v] \in Early => IsActive(cur[v])')
    BY DEF HeldNotQueued, Early, IsActive
  <2>1. CASE v = w
    BY <1>2, <2>1 DEF IsActive
  <2>2. CASE v # w
    BY <1>1, <2>2 DEF Core, HeldNotQueued, IsActive, Early
  <2> QED BY <2>1, <2>2
<1>5. ActiveIsInserted' /\ OneRunnerPerJob'
  BY <1>2 DEF Core, ActiveIsInserted, OneRunnerPerJob, IsActive, Inserted
<1>6. LiveIsFollowed'
  <2> SUFFICES ASSUME NEW j \in Jobs, Live(j)'
               PROVE  IsActive(j)' /\ \E v \in Workers : Runs(v, j)'
    BY DEF LiveIsFollowed
  <2>1. CASE j = cur[w]
    BY <1>2, <2>1 DEF Runs, Follows
  <2>2. CASE j # cur[w]
    <3>1. IsActive(j) /\ \E v \in Workers : Runs(v, j)
      BY <2>2 DEF Core, LiveIsFollowed
    <3>2. \A v \in Workers : Runs(v, j) => Runs(v, j)'
      BY <1>1, <2>2 DEF Runs
    <3> QED BY <2>2, <3>1, <3>2 DEF IsActive
  <2> QED BY <2>1, <2>2
<1> QED BY <1>3, <1>4, <1>5, <1>6

\* A worker that follows no child yet, or no more, has none that lives.
LEMMA LiveIsOwn ==
  ASSUME Core, NEW w \in Workers, pc[w] \in Holding, Live(cur[w])
  PROVE  IsActive(cur[w]) /\ pc[w] \in Follows
<1>1. PICK v \in Workers : Runs(v, cur[w])
  BY CoreKnown DEF Core, LiveIsFollowed
<1>2. v = w
  BY <1>1, CoreKnown DEF Runs
<1> QED BY <1>1, <1>2, CoreKnown DEF Core, LiveIsFollowed, Runs, Follows

\* The outcome of one worker is set.
LEMMA OutcomeMove ==
  ASSUME Core, NEW w \in Workers, NEW p, NEW o,
         pc' = [pc EXCEPT ![w] = p], outcome' = [outcome EXCEPT ![w] = o],
         p = "end" => o # "none",
         p = "write" => o \in {"done"} \cup JobReasons
  PROVE  OutcomeKnown'
BY DEF Core, OutcomeKnown, TypeOK

\* What a move does to rows, when it writes at most the row of its own job.
LEMMA MoveRows ==
  ASSUME Core, RowPart, ErrorsGrow, NEW w \in Workers, pc[w] \in Holding, NEW p \in WorkerPoints,
         pc' = [pc EXCEPT ![w] = p], UNCHANGED <<srv, stopping, cancelled, key, cur, deletion>>,
         \A i \in Jobs : i # cur[w] => row'[i] = row[i] /\ active'[i] = active[i],
         Present(cur[w])' => Present(cur[w]),
         row'[cur[w]].status = "failed" => row'[cur[w]].reason # "none",
         \A v \in Workers : v # w => outcome'[v] = outcome[v] /\ rescued'[v] = rescued[v],
         rescued'[w] => used'.errors >= 1,
         p = "end" /\ outcome'[w] = "cancelled" => cancelled[cur[w]],
         p = "drop" /\ row'[cur[w]].status \in Pending => Doomed(cur[w]) \/ used'.errors >= 2
  PROVE  RowPart'
<1> USE CoreKnown DEF RowPart
<1>1. \A v \in Workers : v # w => pc'[v] = pc[v] /\ (cur[v] # NoJob => cur[v] # cur[w])
  BY DEF TypeOK
<1>2. pc'[w] = p /\ cur[w] \in Jobs /\ cur[w] \in Inserted /\ cur[w] # NoJob
  BY DEF TypeOK
<1>3. CancelledIsInserted' /\ CancelledIsDoomed'
  BY <1>2 DEF CancelledIsInserted, CancelledIsDoomed, Present, Doomed, Inserted
<1>4. WorkerKnows'
  <2> SUFFICES ASSUME NEW v \in Workers
               PROVE  /\ rescued'[v] => used'.errors >= 1
                      /\ pc'[v] = "end" /\ outcome'[v] = "cancelled" => cancelled[cur[v]]
                      /\ pc'[v] = "drop" /\ row'[cur[v]].status \in Pending =>
                           Doomed(cur[v]) \/ used'.errors >= 2
    BY DEF WorkerKnows, Doomed
  <2>1. CASE v = w
    BY <1>2, <2>1
  <2>2. CASE v # w
    <3>1. pc[v] = "drop" => row'[cur[v]] = row[cur[v]]
      BY <1>1, <2>2 DEF Holding, WorkerPoints
    <3> QED BY <1>1, <2>2, <3>1 DEF WorkerKnows, ErrorsGrow
  <2> QED BY <2>1, <2>2
<1>5. FailedHasReason'
  BY DEF FailedHasReason
<1>6. RowsAreOwned'
  BY <1>2 DEF RowsAreOwned, IsActive, Inserted, ErrorsGrow
<1> QED BY <1>3, <1>4, <1>5, <1>6

\* A failed write costs an error and goes to a handler.
LEMMA ErrorMove ==
  ASSUME Core, NEW w \in Workers, NEW p \in {"end", "drop"}, WriteError(w, p)
  PROVE  /\ ErrorsGrow /\ used'.errors = used.errors + 1 /\ used'.errors >= 1
         /\ pc' = [pc EXCEPT ![w] = p] /\ row' = row
         /\ outcome' = [outcome EXCEPT ![w] = "error"] /\ outcome'[w] = "error"
         /\ \A v \in Workers : v # w => outcome'[v] = outcome[v] /\ rescued'[v] = rescued[v]
<1>1. ErrorsGrow /\ used'.errors = used.errors + 1
  BY CoreKnown, SpendErrors DEF WriteError
<1> QED BY <1>1, CoreKnown DEF WriteError, Goto, Resolve, TypeOK, ErrorsGrow

\* A step that touches neither the maps nor the children.
LEMMA QuietMove ==
  ASSUME Core, RowPart, TypeOK', ErrorsGrow, NEW w \in Workers, pc[w] \in Holding, NEW p \in Holding,
         pc' = [pc EXCEPT ![w] = p], p \in Early => pc[w] \in Early, pc[w] \in Follows => p \in Follows,
         UNCHANGED <<srv, stopping, active, cancelled, key, child, cur, deletion>>,
         \A i \in Jobs : i # cur[w] => row'[i] = row[i],
         Present(cur[w])' => Present(cur[w]),
         row'[cur[w]].status = "failed" => row'[cur[w]].reason # "none",
         NEW o, outcome' = [outcome EXCEPT ![w] = o],
         p = "end" => o # "none", p = "write" => o \in {"done"} \cup JobReasons,
         p = "end" /\ o = "cancelled" => cancelled[cur[w]],
         \A v \in Workers : v # w => rescued'[v] = rescued[v],
         rescued'[w] => used'.errors >= 1,
         p = "drop" /\ row'[cur[w]].status \in Pending => Doomed(cur[w]) \/ used'.errors >= 2
  PROVE  Core' /\ RowPart'
<1> USE CoreKnown
<1>1. active[cur[w]] # "queued" /\ (pc[w] \in Early => IsActive(cur[w]))
  BY DEF Core, HeldNotQueued, Early
<1>2. Live(cur[w])' => IsActive(cur[w])' /\ p \in Follows
  BY LiveIsOwn DEF Live, IsActive
<1>3. WorkerHoldsJob' /\ HeldNotQueued' /\ ActiveIsInserted' /\ LiveIsFollowed' /\ OneRunnerPerJob'
  BY <1>1, <1>2, MoveCore DEF Live, IsActive
<1>4. OutcomeKnown'
  BY OutcomeMove
<1>5. outcome'[w] = o /\ (\A v \in Workers : v # w => outcome'[v] = outcome[v]) /\ p \in WorkerPoints
  BY DEF TypeOK, Holding
<1>6. RowPart'
  BY <1>5, MoveRows
<1> QED BY <1>3, <1>4, <1>6 DEF Core

\* The writes of a row, which may fail.
LEMMA WritingWorker ==
  ASSUME Core, RowPart, NEW w \in Workers, Begin(w) \/ PipeError(w) \/ RecvStage(w) \/ Write(w),
         UNCHANGED http
  PROVE  Core' /\ RowPart'
<1> USE CoreKnown DEF http
<1>1. TypeOK'
  BY WorkerType DEF Core, WorkerNext, WorkerStep
<1>2. /\ UNCHANGED <<srv, stopping, active, cancelled, key, child, cur, deletion>>
      /\ pc[w] \in {"begin", "spawn", "poll", "write"}
  BY DEF Begin, PipeError, RecvStage, Write, Receives, life, mem, kids
<1>3. pc[w] \in Holding /\ cur[w] \in Jobs /\ cur[w] \in Inserted
  BY <1>2 DEF Holding, WorkerPoints
<1>4. /\ row[cur[w]].status = "failed" => row[cur[w]].reason # "none"
      /\ row[cur[w]] \in Rows /\ (rescued[w] => used.errors >= 1)
  BY <1>3 DEF RowPart, FailedHasReason, WorkerKnows, TypeOK
<1>5. CASE WriteError(w, "end")
  <2>1. "end" \in Holding /\ "end" \notin Early /\ "end" \in Follows
        /\ (Present(cur[w])' => Present(cur[w]))
    BY <1>2, <1>5, ErrorMove DEF Holding, WorkerPoints, Early, Follows, Present
  <2>2. /\ ErrorsGrow /\ used'.errors >= 1 /\ pc' = [pc EXCEPT ![w] = "end"] /\ row' = row
        /\ outcome' = [outcome EXCEPT ![w] = "error"]
        /\ \A v \in Workers : v # w => rescued'[v] = rescued[v]
    BY <1>5, ErrorMove
  <2> QED BY <1>1, <1>2, <1>3, <1>4, <2>1, <2>2, QuietMove
<1>6. CASE WriteError(w, "drop") /\ rescued[w] /\ pc[w] = "write"
  <2>1. used'.errors >= 2
    BY <1>4, <1>6, ErrorMove DEF ErrorsGrow
  <2>2. /\ "drop" \in Holding /\ "drop" \notin Early /\ pc[w] \notin Follows
        /\ (Present(cur[w])' => Present(cur[w]))
    BY <1>2, <1>6, ErrorMove DEF Holding, WorkerPoints, Early, Follows, Present
  <2>3. /\ ErrorsGrow /\ used'.errors >= 1 /\ pc' = [pc EXCEPT ![w] = "drop"] /\ row' = row
        /\ outcome' = [outcome EXCEPT ![w] = "error"]
        /\ \A v \in Workers : v # w => rescued'[v] = rescued[v]
    BY <1>6, ErrorMove
  <2> QED BY <1>1, <1>2, <1>3, <1>4, <2>1, <2>2, <2>3, QuietMove
<1>7. UNCHANGED outcome => outcome' = [outcome EXCEPT ![w] = outcome[w]]
  BY DEF TypeOK
<1>8. CASE pc[w] = "begin" /\ Record(w, Marked(cur[w], "running"), "spawn")
  <2>1. row' = [row EXCEPT ![cur[w]] = Marked(cur[w], "running")] /\ pc' = [pc EXCEPT ![w] = "spawn"]
    BY <1>8 DEF Record, Goto
  <2>7. UNCHANGED <<outcome, rescued, used>>
    BY <1>8 DEF Record
  <2>2. \A i \in Jobs : i # cur[w] => row'[i] = row[i]
    BY <2>1 DEF TypeOK
  <2>3. row'[cur[w]] = Marked(cur[w], "running")
    BY <1>3, <2>1 DEF TypeOK
  <2>4. (Present(cur[w])' => Present(cur[w])) /\ row'[cur[w]].status # "failed"
    BY <1>2, <1>4, <2>3 DEF Present, Marked, Rows
  <2>5. "spawn" \in Holding /\ pc[w] \in Early /\ pc[w] \notin Follows /\ ErrorsGrow
    BY <1>8, <2>1, <2>7, KeepErrors DEF Holding, WorkerPoints, Early, Follows
  <2>6. (rescued'[w] => used'.errors >= 1) /\ \A v \in Workers : v # w => rescued'[v] = rescued[v]
    BY <1>4, <2>7
  <2>8. PICK o \in Outcomes : outcome' = [outcome EXCEPT ![w] = o]
    BY <1>7, <2>7 DEF TypeOK
  <2> QED BY <1>1, <1>2, <1>3, <2>8, <2>1, <2>2, <2>4, <2>5, <2>6, QuietMove
<1>9. CASE pc[w] = "poll" /\ Record(w, row[cur[w]], "loop")
  <2>1. row' = row /\ pc' = [pc EXCEPT ![w] = "loop"]
    BY <1>3, <1>9 DEF Record, Goto, TypeOK
  <2>7. UNCHANGED <<outcome, rescued, used>>
    BY <1>9 DEF Record
  <2>2. "loop" \in Holding /\ pc[w] \in Early /\ "loop" \in Follows /\ ErrorsGrow
        /\ (Present(cur[w])' => Present(cur[w]))
    BY <1>2, <1>9, <2>1, <2>7, KeepErrors DEF Holding, WorkerPoints, Early, Follows, Present
  <2>3. (rescued'[w] => used'.errors >= 1) /\ \A v \in Workers : v # w => rescued'[v] = rescued[v]
    BY <1>4, <2>7
  <2>8. PICK o \in Outcomes : outcome' = [outcome EXCEPT ![w] = o]
    BY <1>7, <2>7 DEF TypeOK
  <2> QED BY <1>1, <1>2, <1>3, <1>4, <2>8, <2>1, <2>2, <2>3, QuietMove
<1>10. CASE pc[w] = "write" /\ Record(w, FinalRow(w), "drop")
  <2>1. row' = [row EXCEPT ![cur[w]] = FinalRow(w)] /\ pc' = [pc EXCEPT ![w] = "drop"]
    BY <1>10 DEF Record, Goto
  <2>7. UNCHANGED <<outcome, rescued, used>>
    BY <1>10 DEF Record
  <2>2. \A i \in Jobs : i # cur[w] => row'[i] = row[i]
    BY <2>1 DEF TypeOK
  <2>3. row'[cur[w]] = FinalRow(w) /\ outcome[w] \in {"done"} \cup JobReasons
    BY <1>3, <1>10, <2>1 DEF TypeOK, Core, OutcomeKnown
  <2>4. /\ Present(cur[w])' => Present(cur[w])
        /\ row'[cur[w]].status \notin Pending
        /\ row'[cur[w]].status = "failed" => row'[cur[w]].reason # "none"
    BY <1>2, <1>4, <2>3 DEF Present, FinalRow, Marked, Failed, Rows, Pending, JobReasons
  <2>5. "drop" \in Holding /\ "drop" \notin Early /\ pc[w] \notin Follows /\ ErrorsGrow
    BY <1>10, <2>1, <2>7, KeepErrors DEF Holding, WorkerPoints, Early, Follows
  <2>6. (rescued'[w] => used'.errors >= 1) /\ \A v \in Workers : v # w => rescued'[v] = rescued[v]
    BY <1>4, <2>7
  <2>8. PICK o \in Outcomes : outcome' = [outcome EXCEPT ![w] = o]
    BY <1>7, <2>7 DEF TypeOK
  <2> QED BY <1>1, <1>2, <1>3, <2>8, <2>1, <2>2, <2>4, <2>5, <2>6, QuietMove
<1> QED BY <1>5, <1>6, <1>8, <1>9, <1>10 DEF Begin, PipeError, RecvStage, Write, Receives

\* The steps that write nothing and go on.
LEMMA ReadingWorker ==
  ASSUME Core, RowPart, NEW w \in Workers, UNCHANGED http,
         \/ Attach(w) \/ CheckStopped(w) \/ CheckDeadline(w) \/ CheckOk(w)
         \/ PollTimeout(w) \/ RecvEof(w) \/ \E m \in Messages : RecvFinal(w, m)
  PROVE  Core' /\ RowPart'
<1> USE CoreKnown DEF http
<1>1. TypeOK'
  BY WorkerType DEF Core, WorkerNext, WorkerStep
<1>2. /\ UNCHANGED <<srv, stopping, active, cancelled, key, row, child, cur, rescued, used, deletion>>
      /\ pc[w] \in {"attach", "loop", "poll"}
  BY
     DEF Attach, CheckStopped, CheckDeadline, CheckOk, PollTimeout, RecvEof, RecvFinal, Receives,
         life, mem, kids
<1>3. pc[w] \in Holding /\ cur[w] \in Jobs /\ IsActive(cur[w])
  BY <1>2 DEF Holding, WorkerPoints, Core, HeldNotQueued
<1>4. /\ row[cur[w]].status = "failed" => row[cur[w]].reason # "none"
      /\ rescued[w] => used.errors >= 1
  BY <1>3 DEF RowPart, FailedHasReason, WorkerKnows
<1>5. PICK p \in {"loop", "poll", "end"}, o \in Outcomes :
        /\ pc' = [pc EXCEPT ![w] = p]
        /\ outcome' = [outcome EXCEPT ![w] = o]
        /\ p = "end" => o # "none"
        /\ p = "end" /\ o = "cancelled" => cancelled[cur[w]]
  <2>1. outcome = [outcome EXCEPT ![w] = outcome[w]] /\ outcome[w] \in Outcomes
    BY DEF TypeOK
  <2>2. CASE Attach(w) \/ CheckOk(w) \/ PollTimeout(w)
    BY <2>1, <2>2 DEF Attach, CheckOk, PollTimeout, Goto
  <2>3. CASE CheckStopped(w)
    BY <1>3, <2>3 DEF CheckStopped, StillRunning, Goto, Resolve, Outcomes
  <2>4. CASE CheckDeadline(w) \/ RecvEof(w)
    BY <2>4 DEF CheckDeadline, RecvEof, Goto, Resolve, Outcomes, JobReasons
  <2>5. CASE \E m \in Messages : RecvFinal(w, m)
    BY <2>5 DEF RecvFinal, Goto, Resolve, Outcomes, JobReasons, Messages
  <2> QED BY <2>2, <2>3, <2>4, <2>5
<1> QED BY <1>1, <1>2, <1>3, <1>4, <1>5, KeepErrors, QuietMove
           DEF Holding, WorkerPoints, Early, Follows, Present

\* A child starts under its worker, or fails to and the job is dropped; or it
\* is ended, before anything lets go of the job.
LEMMA ChildWorker ==
  ASSUME Core, RowPart, NEW w \in Workers, Spawn(w) \/ SpawnError(w) \/ EndChild(w), UNCHANGED http
  PROVE  Core' /\ RowPart'
<1> USE CoreKnown DEF http
<1>1. TypeOK'
  BY WorkerType DEF Core, WorkerNext, WorkerStep
<1>2. /\ UNCHANGED <<srv, stopping, cancelled, key, row, cur, deletion>>
      /\ pc[w] \in {"spawn", "end"}
  BY DEF Spawn, SpawnError, EndChild, life, mem, kids
<1>3. pc[w] \in Holding /\ cur[w] \in Jobs /\ cur[w] \in Inserted
  BY <1>2 DEF Holding, WorkerPoints
<1>4. /\ row[cur[w]].status = "failed" => row[cur[w]].reason # "none"
      /\ rescued[w] => used.errors >= 1
      /\ active[cur[w]] # "queued"
  BY <1>3 DEF RowPart, FailedHasReason, WorkerKnows, Core, HeldNotQueued
<1>5. CASE Spawn(w)
  <2>1. /\ pc' = [pc EXCEPT ![w] = "attach"] /\ child' = [child EXCEPT ![cur[w]] = "starting"]
        /\ UNCHANGED <<active, outcome, rescued, used>> /\ IsActive(cur[w])
    BY <1>3, <1>5 DEF Spawn, Goto, mem, Core, HeldNotQueued
  <2>2. \A i \in Jobs : i # cur[w] => (Live(i)' => Live(i))
    BY <2>1 DEF Live, TypeOK
  <2>3. WorkerHoldsJob' /\ HeldNotQueued' /\ ActiveIsInserted' /\ LiveIsFollowed' /\ OneRunnerPerJob'
    BY <1>2, <1>3, <1>4, <2>1, <2>2, MoveCore DEF IsActive, Holding, WorkerPoints, Follows
  <2>4. OutcomeKnown'
    BY <2>1 DEF Core, OutcomeKnown, TypeOK
  <2>5. RowPart'
    BY <1>2, <1>3, <1>4, <2>1, KeepErrors, MoveRows DEF WorkerPoints, Present
  <2> QED BY <1>1, <2>3, <2>4, <2>5 DEF Core
<1>6. CASE SpawnError(w)
  <2>1. /\ pc' = [pc EXCEPT ![w] = "end"] /\ outcome' = [outcome EXCEPT ![w] = "error"]
        /\ UNCHANGED child /\ active' = [active EXCEPT ![cur[w]] = "none"] /\ pc[w] = "spawn"
        /\ rescued' = [rescued EXCEPT ![w] = TRUE] /\ Spend("errors")
    BY <1>6 DEF SpawnError, Goto, Resolve, Drops, kids
  <2>2. ErrorsGrow /\ used'.errors >= 1
    BY <2>1, SpendErrors DEF ErrorsGrow
  <2>3. /\ \A i \in Jobs : i # cur[w] => active'[i] = active[i] /\ (Live(i)' => Live(i))
        /\ active'[cur[w]] = "none"
    BY <1>3, <2>1 DEF Live, TypeOK
  <2>4. ~Live(cur[w])'
    <3>1. ~Live(cur[w])
      BY <1>3, <2>1, LiveIsOwn DEF Follows
    <3> QED BY <1>2, <2>1, <3>1 DEF Live
  <2>5. WorkerHoldsJob' /\ HeldNotQueued' /\ ActiveIsInserted' /\ LiveIsFollowed' /\ OneRunnerPerJob'
    BY <1>2, <1>3, <2>1, <2>3, <2>4, MoveCore DEF Holding, WorkerPoints, Early
  <2>6. OutcomeKnown'
    BY <2>1, OutcomeMove
  <2>7. outcome'[w] = "error"
        /\ \A v \in Workers : v # w => outcome'[v] = outcome[v] /\ rescued'[v] = rescued[v]
    BY <2>1 DEF TypeOK
  <2>8. RowPart'
    BY <1>2, <1>3, <1>4, <2>1, <2>2, <2>3, <2>7, MoveRows DEF WorkerPoints, Present
  <2> QED BY <1>1, <2>5, <2>6, <2>8 DEF Core
<1>7. CASE EndChild(w)
  <2>1. /\ pc[w] = "end" /\ UNCHANGED <<rescued, used>>
        /\ child' = [child EXCEPT ![cur[w]] = IF @ \in LiveStates THEN "dead" ELSE @]
        /\ outcome' = [outcome EXCEPT ![w] = Recorded(w)]
    BY <1>7 DEF EndChild, KilledChild, Ended, Resolve
  <2>2. PICK p \in {"drop", "write"} :
          /\ pc' = [pc EXCEPT ![w] = p]
          /\ p = "drop" => Recorded(w) = "cancelled" /\ active' = active
          /\ p = "write" => Recorded(w) # "cancelled" /\ \E a \in {"none", "done", "failed"} :
                               active' = [active EXCEPT ![cur[w]] = a]
    BY <1>7 DEF EndChild, Goto
  <2>3. /\ \A i \in Jobs : i # cur[w] => active'[i] = active[i] /\ (Live(i)' => Live(i))
        /\ active'[cur[w]] # "queued" /\ ~Live(cur[w])'
    <3>1. child'[cur[w]] \notin LiveStates /\ \A i \in Jobs : i # cur[w] => child'[i] = child[i]
      BY <1>3, <2>1 DEF LiveStates, TypeOK
    <3>2. active'[cur[w]] # "queued" /\ \A i \in Jobs : i # cur[w] => active'[i] = active[i]
      BY <1>3, <1>4, <2>2 DEF TypeOK
    <3> QED BY <1>2, <3>1, <3>2 DEF Live
  <2>4. WorkerHoldsJob' /\ HeldNotQueued' /\ ActiveIsInserted' /\ LiveIsFollowed' /\ OneRunnerPerJob'
    BY <1>2, <1>3, <2>2, <2>3, MoveCore DEF Holding, WorkerPoints, Early
  <2>5. Recorded(w) = "cancelled" \/ Recorded(w) \in {"done"} \cup JobReasons
    BY <2>1 DEF Recorded, Core, OutcomeKnown, TypeOK, Outcomes, JobReasons
  <2>6. OutcomeKnown'
    BY <2>1, <2>2, <2>5, OutcomeMove
  <2>7. p = "drop" /\ row[cur[w]].status \in Pending => Doomed(cur[w])
    <3> SUFFICES ASSUME p = "drop", row[cur[w]].status \in Pending PROVE Doomed(cur[w])
      OBVIOUS
    <3>1. outcome[w] = "cancelled" /\ ~stopping
      BY <2>2 DEF Recorded
    <3>2. cancelled[cur[w]] /\ Present(cur[w])
      BY <2>1, <3>1 DEF RowPart, WorkerKnows, Present, Pending
    <3> QED BY <1>3, <3>1, <3>2 DEF RowPart, CancelledIsDoomed
  <2>8. \A v \in Workers : v # w => outcome'[v] = outcome[v]
    BY <2>1 DEF TypeOK
  <2>9. RowPart'
    BY <1>2, <1>3, <1>4, <2>1, <2>2, <2>3, <2>7, <2>8, KeepErrors, MoveRows DEF WorkerPoints, Present
  <2> QED BY <1>1, <2>4, <2>6, <2>9 DEF Core
<1> QED BY <1>5, <1>6, <1>7

\* The finally block: a row that is left unfinished is about to be deleted.
LEMMA DropServer ==
  ASSUME Core, RowPart, NEW w \in Workers, Drop(w), UNCHANGED http
  PROVE  Core' /\ RowPart'
<1> USE CoreKnown DEF http
<1>1. TypeOK'
  BY WorkerType DEF Core, WorkerNext, WorkerStep
<1>2. /\ pc[w] = "drop" /\ pc' = [pc EXCEPT ![w] = "idle"] /\ outcome' = [outcome EXCEPT ![w] = "none"]
      /\ cur' = [cur EXCEPT ![w] = NoJob] /\ rescued' = [rescued EXCEPT ![w] = FALSE]
      /\ active' = [active EXCEPT ![cur[w]] = "none"]
      /\ UNCHANGED <<srv, stopping, cancelled, key, row, child, used, deletion>>
  BY DEF Drop, Drops, Goto, Resolve, life
<1>3. pc[w] \in Holding /\ cur[w] \in Jobs /\ cur[w] \in Inserted /\ cur[w] # NoJob
  BY <1>2 DEF Holding, WorkerPoints
<1>4. \A v \in Workers : v # w => /\ pc'[v] = pc[v] /\ cur'[v] = cur[v]
                                  /\ outcome'[v] = outcome[v] /\ rescued'[v] = rescued[v]
                                  /\ (cur[v] # NoJob => cur[v] # cur[w])
  BY <1>2, <1>3 DEF TypeOK
<1>5. pc'[w] = "idle" /\ cur'[w] = NoJob /\ outcome'[w] = "none" /\ rescued'[w] = FALSE
  BY <1>2 DEF TypeOK
<1>6. active'[cur[w]] = "none" /\ \A i \in Jobs : i # cur[w] => active'[i] = active[i]
  BY <1>2, <1>3 DEF TypeOK
<1>7. WorkerHoldsJob' /\ OneRunnerPerJob' /\ OutcomeKnown'
  BY <1>2, <1>4, <1>5 DEF Core, WorkerHoldsJob, OneRunnerPerJob, OutcomeKnown, Inserted, Holding
<1>8. HeldNotQueued'
  <2> SUFFICES ASSUME NEW v \in Workers, cur'[v] # NoJob
               PROVE  active'[cur'[v]] # "queued" /\ (pc'[v] \in Early => IsActive(cur[v])')
    BY DEF HeldNotQueued, Early, IsActive
  <2>1. v # w /\ cur[v] # NoJob /\ cur[v] # cur[w] /\ cur'[v] = cur[v] /\ pc'[v] = pc[v]
    BY <1>4, <1>5
  <2>2. active'[cur[v]] = active[cur[v]]
    BY <1>6, <2>1
  <2> QED BY <2>1, <2>2 DEF Core, HeldNotQueued, IsActive, Early
<1>9. ActiveIsInserted'
  BY <1>2, <1>6 DEF Core, ActiveIsInserted, IsActive, Inserted
<1>10. LiveIsFollowed'
  <2> SUFFICES ASSUME NEW j \in Jobs, Live(j)'
               PROVE  IsActive(j)' /\ \E v \in Workers : Runs(v, j)'
    BY DEF LiveIsFollowed
  <2>1. Live(j) /\ j # cur[w]
    <3>1. Live(j)
      BY <1>2 DEF Live
    <3> QED BY <1>2, <1>3, <3>1, LiveIsOwn DEF Follows
  <2>2. IsActive(j) /\ \E v \in Workers : Runs(v, j)
    BY <2>1 DEF Core, LiveIsFollowed
  <2>3. \A v \in Workers : Runs(v, j) => Runs(v, j)'
    BY <1>3, <1>4, <2>1 DEF Runs
  <2> QED BY <1>6, <2>1, <2>2, <2>3 DEF IsActive
<1>11. ErrorsGrow
  BY <1>2, KeepErrors
<1>12. CancelledIsInserted' /\ CancelledIsDoomed' /\ FailedHasReason'
  BY <1>2
     DEF RowPart, CancelledIsInserted, CancelledIsDoomed, FailedHasReason, Present, Doomed, Inserted
<1>13. WorkerKnows'
  BY <1>2, <1>4, <1>5 DEF RowPart, WorkerKnows, Doomed
<1>14. RowsAreOwned'
  <2>1. row[cur[w]].status \in Pending => Doomed(cur[w]) \/ used.errors >= 2
    BY <1>2 DEF RowPart, WorkerKnows
  <2>2. used.errors >= 2 => ~(used.errors <= 1)
    BY <1>11 DEF ErrorsGrow
  <2> QED BY <1>2, <1>3, <1>4, <1>6, <2>1, <2>2
             DEF RowPart, RowsAreOwned, IsActive, Inserted, Doomed, NoJob, Jobs
<1> QED BY <1>1, <1>7, <1>8, <1>9, <1>10, <1>12, <1>13, <1>14 DEF Core, RowPart

\* A queued job is in no worker's hands: it is picked once.
LEMMA PickServer ==
  ASSUME Core, RowPart, NEW w \in Workers, Pick(w), UNCHANGED http
  PROVE  Core' /\ RowPart'
<1> USE CoreKnown DEF http
<1>1. TypeOK'
  BY WorkerType DEF Core, WorkerNext, WorkerStep
<1>2. PICK i \in 1..Len(Heap) :
        /\ active[Heap[i]] = "queued"
        /\ cur' = [cur EXCEPT ![w] = Heap[i]]
        /\ active' = [active EXCEPT ![Heap[i]] = "running"]
  BY DEF Pick, FirstRunnable, Runnable
<1> DEFINE j == Heap[i]
<1>3. j \in Jobs /\ j \in Inserted /\ j # NoJob
  BY <1>2, HeapType DEF Core, ActiveIsInserted, IsActive, NoJob, Jobs
<1>4. /\ pc[w] = "idle" /\ cur[w] = NoJob /\ pc' = [pc EXCEPT ![w] = "begin"]
      /\ UNCHANGED <<srv, stopping, cancelled, key, row, child, outcome, rescued, used, deletion>>
  BY DEF Pick, Goto, life, kids, Holding
<1>5. \A v \in Workers : cur[v] # j
  BY <1>2, <1>3 DEF Core, HeldNotQueued
<1> HIDE DEF j
<1>6. \A v \in Workers : v # w => pc'[v] = pc[v] /\ cur'[v] = cur[v]
  BY <1>2, <1>4 DEF TypeOK
<1>7. pc'[w] = "begin" /\ cur'[w] = j
  BY <1>2, <1>4 DEF TypeOK, j
<1>8. active'[j] = "running" /\ \A h \in Jobs : h # j => active'[h] = active[h]
  BY <1>2, <1>3 DEF TypeOK, j
<1>9. WorkerHoldsJob' /\ OneRunnerPerJob' /\ OutcomeKnown'
  BY <1>3, <1>4, <1>5, <1>6, <1>7
     DEF Core, WorkerHoldsJob, OneRunnerPerJob, OutcomeKnown, Inserted, Holding, WorkerPoints
<1>10. HeldNotQueued'
  <2> SUFFICES ASSUME NEW v \in Workers, cur'[v] # NoJob
               PROVE  active'[cur'[v]] # "queued" /\ (pc'[v] \in Early => active'[cur'[v]] # "none")
    BY DEF HeldNotQueued, Early, IsActive
  <2>1. CASE v = w
    BY <1>7, <1>8, <2>1
  <2>2. CASE v # w
    <3>1. cur'[v] = cur[v] /\ pc'[v] = pc[v] /\ active'[cur[v]] = active[cur[v]]
      BY <1>5, <1>6, <1>8, <2>2
    <3> QED BY <3>1 DEF Core, HeldNotQueued, IsActive, Early
  <2> QED BY <2>1, <2>2
<1>11. ActiveIsInserted'
  BY <1>3, <1>4, <1>8 DEF Core, ActiveIsInserted, IsActive, Inserted
<1>12. LiveIsFollowed'
  <2> SUFFICES ASSUME NEW h \in Jobs, Live(h)'
               PROVE  IsActive(h)' /\ \E v \in Workers : Runs(v, h)'
    BY DEF LiveIsFollowed
  <2>1. IsActive(h) /\ \E v \in Workers : Runs(v, h)
    BY <1>4 DEF Core, LiveIsFollowed, Live
  <2>2. \A v \in Workers : Runs(v, h) => Runs(v, h)'
    BY <1>4, <1>6 DEF Runs
  <2> QED BY <1>8, <2>1, <2>2 DEF IsActive
<1>13. CancelledIsInserted' /\ CancelledIsDoomed' /\ FailedHasReason'
  BY <1>4
     DEF RowPart, CancelledIsInserted, CancelledIsDoomed, FailedHasReason, Present, Doomed, Inserted
<1>14. WorkerKnows'
  BY <1>4, <1>6, <1>7 DEF RowPart, WorkerKnows, Doomed
<1>15. RowsAreOwned'
  BY <1>3, <1>4, <1>6, <1>7, <1>8 DEF RowPart, RowsAreOwned, IsActive, Inserted, NoJob, Jobs
<1> QED BY <1>1, <1>9, <1>10, <1>11, <1>12, <1>13, <1>14, <1>15 DEF Core, RowPart

\* A worker without a job drains the heap or leaves.
LEMMA IdleServer ==
  ASSUME Core, RowPart, NEW w \in Workers, DrainHeap(w) \/ Leave(w), UNCHANGED http
  PROVE  Core' /\ RowPart'
<1> USE CoreKnown DEF http
<1>1. TypeOK'
  BY WorkerType DEF Core, WorkerNext, WorkerStep
<1>2. /\ UNCHANGED <<srv, stopping, active, cancelled, key, row, child, cur, outcome, rescued,
                     used, deletion>>
      /\ pc[w] = "idle" /\ (pc' = pc \/ pc' = [pc EXCEPT ![w] = "gone"])
  BY DEF DrainHeap, Leave, Goto, life, mem, kids, wk
<1>3. \A v \in Workers : pc'[v] = pc[v] \/ (v = w /\ pc'[v] = "gone")
  BY <1>2 DEF TypeOK
<1>4. \A v \in Workers, h \in Jobs : Runs(v, h) => Runs(v, h)'
  BY <1>2, <1>3 DEF Runs
<1>5. Core'
  BY <1>1, <1>2, <1>3, <1>4
     DEF Core, WorkerHoldsJob, HeldNotQueued, OutcomeKnown, ActiveIsInserted, LiveIsFollowed,
         OneRunnerPerJob, IsActive, Live, Inserted, Holding, WorkerPoints
<1>6. RowPart'
  BY <1>2, <1>3
     DEF RowPart, CancelledIsInserted, CancelledIsDoomed, WorkerKnows, FailedHasReason, RowsAreOwned,
         IsActive, Present, Inserted, Doomed
<1> QED BY <1>5, <1>6

LEMMA WorkerServer ==
  ASSUME Core, RowPart, NEW w \in Workers, WorkerNext(w), UNCHANGED http
  PROVE  Core' /\ RowPart'
BY WritingWorker, ReadingWorker, ChildWorker, DropServer, PickServer, IdleServer
   DEF WorkerNext, WorkerStep

\* A child can only end or go on.
LEMMA ChildServer ==
  ASSUME Core, RowPart, NEW j \in Inserted, ChildNext(j), UNCHANGED http
  PROVE  Core' /\ RowPart'
<1> USE CoreKnown DEF http
<1>1. TypeOK'
  BY ChildType
<1>2. UNCHANGED <<srv, stopping, active, cancelled, key, row, pc, cur, outcome, rescued, used,
                  deletion>>
  BY DEF ChildNext, life, mem, wk
<1>3. \A i \in Jobs : Live(i)' => Live(i)
  <2>1. PICK from \in LiveStates \cup {"orphan"}, to \in ChildStates :
          ChildStep(j, from, to) /\ (from = "orphan" => to = "dead")
    BY DEF ChildNext, ChildStart, ChildDerive, ChildReport, ChildFail, ChildExit, ChildCrash, OrphanEnds,
           ChildStates, LiveStates
  <2> QED BY <2>1 DEF ChildStep, Live, LiveStates, TypeOK
<1>4. Core'
  BY <1>1, <1>2, <1>3
     DEF Core, WorkerHoldsJob, HeldNotQueued, OutcomeKnown, ActiveIsInserted, LiveIsFollowed,
         OneRunnerPerJob, IsActive, Runs, Inserted
<1>5. RowPart'
  BY <1>2, KeepErrors, CalmRows
<1> QED BY <1>4, <1>5

-----------------------------------------------------------------------------
(* The routes and the hook *)

\* submit inserts a job of its own, or joins one and leaves the jobs alone.
LEMMA SubmitServer ==
  ASSUME Core, RowPart, TypeOK', ErrorsGrow, NEW k \in Keys, NEW kind, NEW force,
         Enqueue(k, kind, force), UNCHANGED <<srv, stopping>>,
         UNCHANGED deletion
  PROVE  Core' /\ RowPart'
<1> USE CoreKnown
<1> DEFINE j == Len(key) + 1
<1>1. j \in Jobs /\ j \notin Inserted /\ j # NoJob
  <2>1. Len(key) \in Nat /\ Len(key) < MaxJobs
    BY DEF TypeOK, Enqueue
  <2> QED BY <2>1, BoundsAssumption DEF Jobs, NoJob
<1>2. /\ key' = Append(key, k) /\ Inserted' = Inserted \cup {j}
      /\ key'[j] = k /\ \A i \in Inserted : key'[i] = key[i]
  BY DEF Enqueue, TypeOK, Inserted
<1>3. /\ active'[j] = "queued" /\ \A i \in Jobs : i # j => active'[i] = active[i]
      /\ row'[j].status = "queued" /\ \A i \in Jobs : i # j => row'[i] = row[i]
  BY <1>1 DEF Enqueue, TypeOK
<1>4. /\ UNCHANGED <<child, cur, outcome, cancelled, rescued>>
      /\ \A w \in Workers : pc'[w] = pc[w] \/ (pc[w] = "off" /\ pc'[w] = "idle")
  BY DEF Enqueue, kids
<1> HIDE DEF j
<1>5. \A w \in Workers : cur[w] # j
  BY <1>1
<1>6. WorkerHoldsJob' /\ OutcomeKnown' /\ OneRunnerPerJob'
  BY <1>2, <1>4 DEF Core, WorkerHoldsJob, OutcomeKnown, OneRunnerPerJob, Holding, WorkerPoints
<1>7. HeldNotQueued'
  BY <1>1, <1>3, <1>4, <1>5 DEF Core, HeldNotQueued, IsActive
<1>8. ActiveIsInserted'
  BY <1>2, <1>3 DEF Core, ActiveIsInserted, IsActive
<1>9. LiveIsFollowed'
  <2> SUFFICES ASSUME NEW h \in Jobs, Live(h)'
               PROVE  IsActive(h)' /\ \E v \in Workers : Runs(v, h)'
    BY DEF LiveIsFollowed
  <2>1. IsActive(h) /\ \E v \in Workers : Runs(v, h)
    BY <1>4 DEF Core, LiveIsFollowed, Live
  <2>2. \A v \in Workers : Runs(v, h) => Runs(v, h)'
    BY <1>4 DEF Runs
  <2> QED BY <1>3, <2>1, <2>2 DEF IsActive
<1>10. \A i \in Inserted : i # j /\ i \in Jobs /\ (Doomed(i)' <=> Doomed(i))
  BY <1>1, <1>2 DEF Doomed
<1>11. CancelledIsInserted' /\ ~cancelled[j]
  BY <1>1, <1>2, <1>4 DEF RowPart, CancelledIsInserted
<1>12. CancelledIsDoomed'
  BY <1>2, <1>3, <1>4, <1>10, <1>11 DEF RowPart, CancelledIsDoomed, Present
<1>13. WorkerKnows'
  <2> SUFFICES ASSUME NEW w \in Workers
               PROVE  /\ rescued[w] => used'.errors >= 1
                      /\ pc'[w] = "end" /\ outcome[w] = "cancelled" => cancelled[cur[w]]
                      /\ pc'[w] = "drop" /\ row'[cur[w]].status \in Pending =>
                           Doomed(cur[w])' \/ used'.errors >= 2
    BY <1>4 DEF WorkerKnows, Doomed
  <2>1. pc'[w] = "drop" => pc[w] = "drop" /\ cur[w] \in Inserted /\ row'[cur[w]] = row[cur[w]]
    BY <1>3, <1>4, <1>10 DEF Holding, WorkerPoints
  <2> QED BY <1>4, <1>10, <2>1 DEF RowPart, WorkerKnows, ErrorsGrow
<1>14. FailedHasReason'
  BY <1>3 DEF RowPart, FailedHasReason
<1>15. RowsAreOwned'
  <2> SUFFICES ASSUME srv # "down", used'.errors <= 1, NEW i \in Inserted', row'[i].status \in Pending
               PROVE  IsActive(i)' \/ (\E w \in Workers : cur[w] = i) \/ Doomed(i)'
    BY <1>4 DEF RowsAreOwned, Doomed
  <2>1. CASE i = j
    BY <1>3, <2>1 DEF IsActive
  <2>2. CASE i # j
    <3>1. i \in Inserted /\ row[i].status \in Pending /\ used.errors <= 1
      BY <1>2, <1>3, <1>10, <2>2 DEF ErrorsGrow
    <3> QED BY <1>3, <1>10, <2>2, <3>1 DEF RowPart, RowsAreOwned, IsActive, Doomed
  <2> QED BY <2>1, <2>2
<1> QED BY <1>6, <1>7, <1>8, <1>9, <1>11, <1>12, <1>13, <1>14, <1>15 DEF Core, RowPart

\* A step that leaves the jobs and the workers alone.
LEMMA CalmStep ==
  ASSUME Core, RowPart, TypeOK', ErrorsGrow, srv' # "down" => srv # "down",
         UNCHANGED <<stopping, active, cancelled, key, row, child, pc, cur, outcome, rescued>>,
         \A d \in Digests : deletion[d] # "none" => deletion'[d] # "none"
  PROVE  Core' /\ RowPart'
BY CalmCore, CalmRows

\* A request that is answered, and the hook.
LEMMA AnswerServer ==
  ASSUME Core, RowPart, NEW k \in Keys, NEW kind \in {"lazy", "eager"}, NEW force \in BOOLEAN,
         Submit(k, kind, force), UNCHANGED deletion
  PROVE  Core' /\ RowPart'
<1> USE CoreKnown
<1>1. CASE Join(k, kind)
  <2>1. /\ UNCHANGED <<srv, stopping, active, cancelled, key, row, child, pc, cur, outcome,
                       rescued, used>>
        /\ ErrorsGrow
    BY <1>1, KeepErrors DEF Join, life, mem, kids, wk
  <2>2. Promoted(k, kind) \in Seq(Jobs) /\ (Promotes(k, kind) => byKey[k] \in Jobs)
    BY DEF Promoted, Promotes, TypeOK, NoJob
  <2>3. TypeOK'
    <3>1. lazyQ' \in Seq(Jobs) /\ asked' \subseteq Jobs
      BY <1>1, <2>2 DEF Join, TypeOK
    <3> QED BY <1>1, <3>1 DEF Join, TypeOK, life, mem, kids, wk
  <2> QED BY <2>1, <2>3, CalmStep
<1>2. CASE Enqueue(k, kind, force) /\ Spend("requests") /\ UNCHANGED life
  <2>1. used' \in [DOMAIN Budget -> Nat] /\ ErrorsGrow
    BY <1>2, SpendType, SpendErrors
  <2>2. TypeOK'
    BY <1>2, <2>1, EnqueueType DEF Enqueue, TypeOK, life, kids
  <2> QED BY <1>2, <2>1, <2>2, SubmitServer DEF life
<1> QED BY <1>1, <1>2 DEF Submit

\* What leaves the job manager alone, but for its cache.
LEMMA CacheServer ==
  ASSUME Core, RowPart, cached' \subseteq Keys,
         UNCHANGED <<life, queue, mem, key, row, kids, wk, cancelling, used, deletion>>
  PROVE  Core' /\ RowPart'
<1>1. TypeOK' /\ ErrorsGrow
  BY CoreKnown, KeepErrors DEF TypeOK, life, queue, mem, kids, wk
<1> QED BY <1>1, CalmStep DEF life, mem, kids, wk

-----------------------------------------------------------------------------
(* The deletion of a bundle *)

\* A deletion drops the queued jobs of its bundle, kills the running ones, and
\* owes their rows a removal from then on.
LEMMA DeleteCancelServer ==
  ASSUME ServerInv, NEW d \in Digests, DeleteCancel(d)
  PROVE  Core' /\ RowPart'
<1> USE CoreKnown DEF ServerInv
<1>1. TypeOK' /\ CancelBundle(d)
  BY CancelType DEF DeleteCancel, CancelNext
<1>2. ErrorsGrow
  BY <1>1, SpendErrors DEF CancelBundle
<1>3. /\ UNCHANGED <<srv, stopping, key, row, pc, cur, outcome, rescued>>
      /\ \A j \in Jobs : Live(j)' => Live(j)
  BY <1>1 DEF CancelBundle, life, wk, Live, LiveStates
<1> DEFINE hit == {j \in JobsOf(d) : active[j] \in Pending}
<1>4. /\ \A j \in Jobs : cancelled'[j] = (cancelled[j] \/ j \in hit)
      /\ \A j \in Jobs : active'[j] = IF j \in hit /\ active[j] = "queued" THEN "none" ELSE active[j]
  BY <1>1 DEF CancelBundle
<1>5. \A j \in hit : j \in Inserted /\ DigestOf[key[j]] = d
  BY DEF JobsOf
<1> HIDE DEF hit
<1>6. \A e \in Digests : deletion'[e] = IF e = d THEN "cancelling" ELSE deletion[e]
  BY DEF DeleteCancel, HttpTypes
<1>7. \A j \in Inserted : /\ Doomed(j) => Doomed(j)'
                          /\ DigestOf[key[j]] = d => Doomed(j)'
  BY <1>3, <1>6 DEF Doomed
<1>8. WorkerHoldsJob' /\ OutcomeKnown' /\ OneRunnerPerJob'
  BY <1>3 DEF Core, WorkerHoldsJob, OutcomeKnown, OneRunnerPerJob, Inserted
<1>9. HeldNotQueued'
  <2>1. \A w \in Workers : cur[w] # NoJob => active'[cur[w]] = active[cur[w]]
    BY <1>4 DEF Core, HeldNotQueued
  <2> QED BY <1>3, <2>1 DEF Core, HeldNotQueued, IsActive
<1>10. ActiveIsInserted'
  BY <1>3, <1>4 DEF Core, ActiveIsInserted, IsActive, Inserted
<1>11. LiveIsFollowed'
  <2> SUFFICES ASSUME NEW h \in Jobs, Live(h)'
               PROVE  IsActive(h)' /\ \E w \in Workers : Runs(w, h)'
    BY DEF LiveIsFollowed
  <2>1. IsActive(h) /\ \E w \in Workers : Runs(w, h)
    BY <1>3 DEF Core, LiveIsFollowed
  <2>2. active[h] # "queued"
    BY <2>1 DEF Core, HeldNotQueued, Runs, NoJob, Jobs
  <2> QED BY <1>3, <1>4, <2>1, <2>2 DEF Runs, IsActive
<1>12. CancelledIsInserted' /\ CancelledIsDoomed'
  BY <1>3, <1>4, <1>5, <1>7 DEF RowPart, CancelledIsInserted, CancelledIsDoomed, Present, Inserted
<1>13. WorkerKnows'
  <2> SUFFICES ASSUME NEW w \in Workers
               PROVE  /\ rescued[w] => used'.errors >= 1
                      /\ pc[w] = "end" /\ outcome[w] = "cancelled" => cancelled'[cur[w]]
                      /\ pc[w] = "drop" /\ row[cur[w]].status \in Pending =>
                           Doomed(cur[w])' \/ used'.errors >= 2
    BY <1>3 DEF WorkerKnows, Doomed
  <2>1. pc[w] \in {"end", "drop"} => cur[w] \in Inserted /\ cur[w] \in Jobs
    BY DEF Holding, WorkerPoints
  <2>2. pc[w] = "drop" => (Doomed(cur[w]) => Doomed(cur[w])')
    BY <1>3, <1>7, <2>1 DEF Doomed
  <2>3. used'.errors >= used.errors
    BY <1>2 DEF ErrorsGrow
  <2>4. pc[w] = "end" /\ outcome[w] = "cancelled" => cancelled'[cur[w]]
    BY <1>4, <2>1 DEF RowPart, WorkerKnows
  <2>5. pc[w] = "drop" /\ row[cur[w]].status \in Pending => Doomed(cur[w])' \/ used.errors >= 2
    BY <2>2 DEF RowPart, WorkerKnows
  <2> QED BY <1>2, <2>3, <2>4, <2>5 DEF RowPart, WorkerKnows, ErrorsGrow
<1>14. FailedHasReason'
  BY <1>3 DEF RowPart, FailedHasReason
<1>15. RowsAreOwned'
  <2> SUFFICES ASSUME srv # "down", used'.errors <= 1, NEW i \in Inserted, row[i].status \in Pending
               PROVE  IsActive(i)' \/ (\E w \in Workers : cur[w] = i) \/ Doomed(i)'
    BY <1>3 DEF RowsAreOwned, Doomed, Inserted
  <2>1. IsActive(i) \/ (\E w \in Workers : cur[w] = i) \/ Doomed(i)
    BY <1>2 DEF RowPart, RowsAreOwned, Doomed, ErrorsGrow
  <2> QED BY <1>4, <1>5, <1>7, <2>1 DEF IsActive
<1> QED BY <1>1, <1>8, <1>9, <1>10, <1>11, <1>12, <1>13, <1>14, <1>15 DEF Core, RowPart

\* cancel_bundle returns, with or without every worker stopped.
LEMMA DeleteWaitedServer ==
  ASSUME ServerInv, NEW d \in Digests, DeleteWaited(d)
  PROVE  Core' /\ RowPart'
<1>1. TypeOK'
  BY CoreKnown, CancelType DEF ServerInv, DeleteWaited, CancelNext
<1>2. /\ UNCHANGED <<srv, stopping, active, cancelled, key, row, child, pc, cur, outcome,
                     rescued, used>>
      /\ deletion' = [deletion EXCEPT ![d] = "deleting"]
  BY DEF DeleteWaited, CancelReturn, CancelTimeout, life, mem, kids, wk
<1>3. \A e \in Digests : deletion[e] # "none" => deletion'[e] # "none"
  BY <1>2 DEF ServerInv, HttpTypes
<1> QED BY <1>1, <1>2, <1>3, CoreKnown, KeepErrors, CalmStep DEF ServerInv

\* The rows of the bundle go, those of jobs that are still active as well.
LEMMA DeleteRowsServer ==
  ASSUME ServerInv, NEW d \in Digests, DeleteRows(d)
  PROVE  Core' /\ RowPart'
<1> USE CoreKnown DEF ServerInv
<1>1. /\ UNCHANGED <<srv, stopping, active, cancelled, key, child, pc, cur, outcome, rescued, used>>
      /\ cached' \subseteq cached
      /\ row' = [j \in Jobs |-> IF j \in JobsOf(d) THEN NoRow ELSE row[j]]
  BY DEF DeleteRows, life, mem, kids, wk
<1>2. TypeOK'
  <2>1. row' \in [Jobs -> Rows]
    BY <1>1 DEF TypeOK, NoRow, Rows, RowStatuses
  <2> QED BY <1>1, <2>1 DEF DeleteRows, TypeOK, life, queue, mem, kids, wk
<1>3. Core'
  BY <1>1, <1>2, CalmCore
<1>4. \A e \in Digests : deletion'[e] = IF e = d THEN "none" ELSE deletion[e]
  BY DEF DeleteRows, HttpTypes
<1>5. \A j \in Inserted : \/ DigestOf[key[j]] = d /\ row'[j] = NoRow
                          \/ row'[j] = row[j] /\ (Doomed(j)' <=> Doomed(j))
  BY <1>1, <1>4 DEF JobsOf, Doomed
<1>6. NoRow.status \notin Pending /\ NoRow.status = "absent" /\ NoRow.status # "failed"
  BY DEF NoRow, Pending
<1>7. CancelledIsInserted' /\ CancelledIsDoomed'
  BY <1>1, <1>5, <1>6 DEF RowPart, CancelledIsInserted, CancelledIsDoomed, Present, Inserted
<1>8. WorkerKnows'
  <2> SUFFICES ASSUME NEW w \in Workers, pc[w] = "drop", row'[cur[w]].status \in Pending
               PROVE  Doomed(cur[w])' \/ used.errors >= 2
    BY <1>1 DEF RowPart, WorkerKnows, Doomed
  <2>1. cur[w] \in Inserted
    BY DEF Holding, WorkerPoints
  <2>2. row'[cur[w]] = row[cur[w]] /\ (deletion'[DigestOf[key'[cur[w]]]] # "none" <=> Doomed(cur[w]))
    BY <1>5, <1>6, <2>1 DEF Doomed
  <2> QED BY <1>1, <2>2 DEF RowPart, WorkerKnows, Doomed
<1>9. FailedHasReason'
  BY <1>1, <1>6 DEF RowPart, FailedHasReason
<1>10. RowsAreOwned'
  BY <1>1, <1>5, <1>6 DEF RowPart, RowsAreOwned, IsActive, Inserted, Doomed
<1> QED BY <1>3, <1>7, <1>8, <1>9, <1>10 DEF RowPart

-----------------------------------------------------------------------------
(* The server process *)

\* A shutdown, complete or not: from then on a cancelled job is recorded as
\* restarted, whoever cancelled it.
LEMMA StopServer ==
  ASSUME Core, RowPart, Shutdown \/ ShutdownError, UNCHANGED http
  PROVE  Core' /\ RowPart'
<1> USE CoreKnown DEF http
<1>1. TypeOK'
  BY ServerType DEF ServerNext
<1>2. PICK hit \in SUBSET ToStop : \E recorded \in SUBSET hit, killed \in SUBSET Inserted :
        Stops(hit, recorded, killed)
  <2>1. CASE Shutdown
    BY <2>1 DEF Shutdown, ToStop, ToKill
  <2>2. CASE ShutdownError
    <3>1. PICK last \in ToStop :
            Stops((1..(last - 1) \cup {last}) \cap ToStop, 1..(last - 1) \cap ToStop,
                  1..(last - 1) \cap ToKill)
      BY <2>2 DEF ShutdownError
    <3> QED BY <3>1 DEF ToKill
  <2> QED BY <2>1, <2>2
<1>3. PICK recorded \in SUBSET hit : \E killed \in SUBSET Inserted : Stops(hit, recorded, killed)
  BY <1>2
<1>4. /\ UNCHANGED <<srv, key, pc, cur, outcome, rescued, deletion>> /\ stopping'
      /\ \A j \in Jobs : cancelled'[j] = (cancelled[j] \/ j \in hit)
      /\ \A j \in Jobs : active'[j] = IF j \in hit THEN "failed" ELSE active[j]
      /\ \A j \in Jobs : row'[j] = IF j \in recorded THEN Failed(j, "restart") ELSE row[j]
      /\ \A j \in Jobs : Live(j)' => Live(j)
  BY <1>3 DEF Stops, wk, Live, LiveStates
<1>5. \A j \in hit : j \in Inserted /\ IsActive(j)
  BY DEF ToStop, Pending, IsActive
<1>6. \A j \in Jobs : active'[j] = active[j] \/ (IsActive(j) /\ active'[j] = "failed")
  BY <1>4, <1>5
<1>7. ErrorsGrow
  <2>1. CASE Shutdown
    BY <2>1, SpendErrors DEF Shutdown
  <2>2. CASE ShutdownError
    <3>1. {"stops", "errors"} \subseteq DOMAIN Budget
      BY DEF Budget
    <3>2. used' = [used EXCEPT !.stops = @ + 1, !.errors = @ + 1]
      BY <2>2 DEF ShutdownError
    <3> HIDE DEF Budget
    <3> QED BY <3>1, <3>2 DEF TypeOK, ErrorsGrow
  <2> QED BY <2>1, <2>2
<1>8. WorkerHoldsJob' /\ OutcomeKnown' /\ OneRunnerPerJob'
  BY <1>4 DEF Core, WorkerHoldsJob, OutcomeKnown, OneRunnerPerJob, Inserted
<1>9. HeldNotQueued' /\ ActiveIsInserted' /\ LiveIsFollowed'
  BY <1>4, <1>6 DEF Core, HeldNotQueued, ActiveIsInserted, LiveIsFollowed, IsActive, Runs, Inserted
<1>10. CancelledIsInserted' /\ CancelledIsDoomed'
  BY <1>4, <1>5 DEF RowPart, CancelledIsInserted, CancelledIsDoomed, Inserted
<1>11. \A j \in Jobs : row'[j] = row[j] \/ (row'[j].status = "failed" /\ row'[j].reason = "restart")
  <2>1. \A j \in Jobs : Present(j) =>
          Failed(j, "restart").status = "failed" /\ Failed(j, "restart").reason = "restart"
    BY DEF Failed, TypeOK, Rows
  <2>2. \A j \in Jobs : ~Present(j) => Failed(j, "restart") = row[j]
    BY DEF Failed
  <2> QED BY <1>4, <2>1, <2>2
<1>12. FailedHasReason'
  BY <1>11 DEF RowPart, FailedHasReason
<1>13. \A j \in Jobs : row'[j].status \in Pending => row'[j] = row[j]
  BY <1>11 DEF Pending
<1>14. WorkerKnows'
  <2> SUFFICES ASSUME NEW w \in Workers
               PROVE  /\ rescued[w] => used'.errors >= 1
                      /\ pc[w] = "end" /\ outcome[w] = "cancelled" => cancelled'[cur[w]]
                      /\ pc[w] = "drop" /\ row'[cur[w]].status \in Pending =>
                           Doomed(cur[w]) \/ used'.errors >= 2
    BY <1>4 DEF WorkerKnows, Doomed
  <2>1. pc[w] \in {"end", "drop"} => cur[w] \in Jobs
    BY DEF Holding, WorkerPoints
  <2>2. used'.errors >= used.errors
    BY <1>7 DEF ErrorsGrow
  <2>3. pc[w] = "end" /\ outcome[w] = "cancelled" => cancelled'[cur[w]]
    BY <1>4, <2>1 DEF RowPart, WorkerKnows
  <2>4. pc[w] = "drop" /\ row'[cur[w]].status \in Pending => Doomed(cur[w]) \/ used.errors >= 2
    BY <1>13, <2>1 DEF RowPart, WorkerKnows
  <2> QED BY <1>7, <2>2, <2>3, <2>4 DEF RowPart, WorkerKnows, ErrorsGrow
<1>15. RowsAreOwned'
  <2> SUFFICES ASSUME srv # "down", used'.errors <= 1, NEW i \in Inserted, row'[i].status \in Pending
               PROVE  IsActive(i)' \/ (\E w \in Workers : cur[w] = i) \/ Doomed(i)
    BY <1>4 DEF RowsAreOwned, Doomed, Inserted
  <2>1. IsActive(i) \/ (\E w \in Workers : cur[w] = i) \/ Doomed(i)
    BY <1>7, <1>13 DEF RowPart, RowsAreOwned, Doomed, ErrorsGrow
  <2> QED BY <1>6, <2>1 DEF IsActive
<1> QED BY <1>1, <1>8, <1>9, <1>10, <1>12, <1>14, <1>15 DEF Core, RowPart

\* The process ends: what is left are rows, and nobody owes them anything.
LEMMA EndServer ==
  ASSUME Core, RowPart, Exit \/ Crash
  PROVE  Core' /\ RowPart'
<1> USE CoreKnown
<1>1. TypeOK'
  BY ServerType DEF ServerNext
<1>2. PICK survivors : Forget(survivors)
  BY DEF Exit, Crash
<1>3. \A j \in Jobs : ~IsActive(j)' /\ ~Live(j)' /\ ~cancelled'[j]
  BY <1>2 DEF Forget, IsActive, Live, LiveStates
<1>4. /\ srv' = "down" /\ UNCHANGED <<key, row>>
      /\ \A w \in Workers : pc'[w] = "off" /\ cur'[w] = NoJob /\ ~rescued'[w]
  BY <1>2 DEF Exit, Crash, Forget
<1>5. Core'
  BY <1>1, <1>3, <1>4
     DEF Core, WorkerHoldsJob, HeldNotQueued, OutcomeKnown, ActiveIsInserted, LiveIsFollowed,
         OneRunnerPerJob, Holding, NoJob
<1>6. RowPart'
  BY <1>3, <1>4, InsertedType
     DEF RowPart, CancelledIsInserted, CancelledIsDoomed, WorkerKnows, FailedHasReason, RowsAreOwned,
         Inserted
<1> QED BY <1>5, <1>6

\* recover() begins by failing what the last process left unfinished.
LEMMA StartServer ==
  ASSUME Core, RowPart, Start, UNCHANGED http
  PROVE  Core' /\ RowPart'
<1> USE CoreKnown DEF http
<1>1. TypeOK'
  BY ServerType DEF ServerNext, RecoverNext
<1>2. UNCHANGED <<stopping, active, cancelled, key, child, pc, cur, outcome, rescued, used, deletion>>
  BY DEF Start, mem, kids, wk
<1>3. \A j \in Jobs : row'[j] = IF row[j].status \in Pending THEN Failed(j, "restart") ELSE row[j]
  BY DEF Start
<1>4. \A j \in Jobs : /\ row'[j].status \notin Pending
                      /\ row'[j].status = "failed" => row'[j].reason # "none"
                      /\ Present(j)' => Present(j)
  <2>1. \A j \in Jobs : row[j].status \in Pending =>
          /\ Failed(j, "restart").status = "failed" /\ Failed(j, "restart").reason = "restart"
          /\ Present(j)
    BY DEF Failed, Present, Pending, TypeOK, Rows
  <2>2. "failed" \notin Pending
    BY DEF Pending
  <2> QED BY <1>3, <2>1, <2>2 DEF RowPart, FailedHasReason, Present
<1>5. Core'
  BY <1>1, <1>2, CalmCore
<1>6. RowPart'
  <2>1. CancelledIsInserted' /\ CancelledIsDoomed'
    BY <1>2, <1>4 DEF RowPart, CancelledIsInserted, CancelledIsDoomed, Present, Inserted, Doomed
  <2>2. WorkerKnows'
    BY <1>2, <1>4 DEF RowPart, WorkerKnows, Doomed, Holding, WorkerPoints
  <2>3. FailedHasReason' /\ RowsAreOwned'
    BY <1>2, <1>4 DEF FailedHasReason, RowsAreOwned, Inserted
  <2> QED BY <2>1, <2>2, <2>3 DEF RowPart
<1> QED BY <1>5, <1>6

\* The rest of the start: eager keys are looked at, then the routes answer.
LEMMA RecoverServer ==
  ASSUME Core, RowPart,
         \/ Ready \/ (\E k \in Keys : RecoverCached(k) \/ RecoverSubmit(k))
         \/ \E d \in Digests : RecoverError(d),
         UNCHANGED http
  PROVE  Core' /\ RowPart'
<1> USE CoreKnown DEF http
<1>1. TypeOK'
  BY ServerType DEF ServerNext, RecoverNext
<1>2. CASE Ready \/ \E k \in Keys : RecoverCached(k)
  <2>1. /\ UNCHANGED <<stopping, active, cancelled, key, row, child, pc, cur, outcome, rescued,
                       used, deletion>>
        /\ srv # "down"
    BY <1>2 DEF Ready, RecoverCached, mem, kids, wk
  <2> QED BY <1>1, <2>1, KeepErrors, CalmStep
<1>3. CASE \E k \in Keys : RecoverSubmit(k)
  <2>1. PICK k \in Keys : RecoverSubmit(k)
    BY <1>3
  <2>2. Enqueue(k, "eager", TRUE) /\ UNCHANGED <<srv, stopping, used, deletion>>
    BY <2>1 DEF RecoverSubmit
  <2> QED BY <1>1, <2>2, KeepErrors, SubmitServer
<1>4. CASE \E d \in Digests : RecoverError(d)
  <2>1. /\ UNCHANGED <<srv, stopping, active, cancelled, key, row, child, pc, cur, outcome,
                       rescued, deletion>>
        /\ Spend("errors")
    BY <1>4 DEF RecoverError, mem, kids, wk
  <2> QED BY <1>1, <2>1, SpendErrors, CalmStep
<1> QED BY <1>2, <1>3, <1>4

-----------------------------------------------------------------------------
(* The invariant *)

\* It holds before the first start.
LEMMA ServerInvInit == ServerInit => ServerInv
<1> SUFFICES ASSUME ServerInit PROVE ServerInv
  OBVIOUS
<1> USE DEF ServerInit
<1>1. TypeOK
  BY TypeInit
<1>2. Core
  BY <1>1 DEF Init, Core, WorkerHoldsJob, HeldNotQueued, OutcomeKnown, ActiveIsInserted, LiveIsFollowed,
              OneRunnerPerJob, IsActive, Live, LiveStates, Holding, NoJob
<1>3. HttpTypes
  BY DEF HttpTypes
<1>4. RowPart
  BY
     DEF Init, RowPart, CancelledIsInserted, CancelledIsDoomed, WorkerKnows, FailedHasReason,
         RowsAreOwned, NoRow, Inserted
<1> QED BY <1>2, <1>3, <1>4 DEF ServerInv

\* A route or the hook takes a step.
LEMMA RouteServer ==
  ASSUME ServerInv, RouteNext
  PROVE  ServerInv'
<1> USE DEF ServerInv
<1>1. ASSUME NEW k \in Keys, PrepareGet(k) \/ PrepareRetry(k) PROVE ServerInv'
  <2>1. UNCHANGED <<vars, stored, deletion, hooks>> /\ requests' \subseteq Keys \X {"get", "retry"}
    BY <1>1 DEF PrepareGet, PrepareRetry, HttpTypes
  <2>2. Core' /\ RowPart'
    BY <2>1, CoreKnown, CacheServer DEF vars, TypeOK
  <2> QED BY <2>1, <2>2 DEF HttpTypes
<1>2. ASSUME NEW k \in Keys, AnswerGet(k) \/ AnswerRetry(k) PROVE ServerInv'
  <2>1. UNCHANGED <<stored, deletion, hooks>> /\ requests' \subseteq requests
    BY <1>2 DEF AnswerGet, AnswerRetry
  <2>2. CASE UNCHANGED vars
    <3>1. Core' /\ RowPart'
      BY <2>1, <2>2, CoreKnown, CacheServer DEF vars, TypeOK
    <3> QED BY <2>1, <3>1 DEF HttpTypes
  <2>3. CASE \E force \in BOOLEAN : Submit(k, "lazy", force)
    <3>1. Core' /\ RowPart'
      BY <2>1, <2>3, AnswerServer
    <3> QED BY <2>1, <3>1 DEF HttpTypes
  <2> QED BY <1>2, <2>2, <2>3 DEF AnswerGet, AnswerRetry, Get, Retry
<1>3. ASSUME NEW k \in EagerKeys, Hook(k) PROVE ServerInv'
  <2>1. UNCHANGED <<stored, deletion, requests>> /\ hooks' \subseteq hooks /\ k \in Keys
    BY <1>3, KeysAssumption DEF Hook
  <2>2. CASE UNCHANGED vars
    <3>1. Core' /\ RowPart'
      BY <2>1, <2>2, CoreKnown, CacheServer DEF vars, TypeOK
    <3> QED BY <2>1, <3>1 DEF HttpTypes
  <2>3. CASE Submit(k, "eager", FALSE)
    <3>1. Core' /\ RowPart'
      BY <2>1, <2>3, AnswerServer
    <3> QED BY <2>1, <3>1 DEF HttpTypes
  <2> QED BY <1>3, <2>2, <2>3 DEF Hook
<1>4. ASSUME NEW d \in Digests, Upload(d) PROVE ServerInv'
  <2>1. /\ UNCHANGED <<life, queue, mem, key, row, kids, wk, cancelling, used, deletion, requests>>
        /\ cached' \subseteq cached
        /\ stored' \subseteq stored \cup {d} /\ hooks' \subseteq hooks \cup EagerKeys
    BY <1>4 DEF Upload
  <2>2. Core' /\ RowPart'
    BY <2>1, CoreKnown, CacheServer DEF TypeOK
  <2> QED BY <2>1, <2>2 DEF HttpTypes
<1>5. ASSUME NEW d \in Digests, DeleteCancel(d) \/ DeleteWaited(d) \/ DeleteRows(d) PROVE ServerInv'
  <2>1. Core' /\ RowPart'
    BY <1>5, DeleteCancelServer, DeleteWaitedServer, DeleteRowsServer
  <2>2. /\ stored' \subseteq stored /\ UNCHANGED <<requests, hooks>>
        /\ \E s \in {"none", "cancelling", "deleting"} : deletion' = [deletion EXCEPT ![d] = s]
    BY <1>5 DEF DeleteCancel, DeleteWaited, DeleteRows
  <2> QED BY <2>1, <2>2 DEF HttpTypes
<1> QED BY <1>1, <1>2, <1>3, <1>4, <1>5 DEF RouteNext

\* The server starts, recovers, is shut down or ends.
LEMMA ProcessServer ==
  ASSUME ServerInv, ProcessNext
  PROVE  ServerInv'
<1> USE DEF ServerInv
<1>1. UNCHANGED http => HttpTypes'
  BY DEF http, HttpTypes
<1>2. CASE (Start \/ Shutdown \/ ShutdownError) /\ UNCHANGED http
  BY <1>1, <1>2, StartServer, StopServer
<1>3. CASE (Exit \/ Crash) /\ EndRequests
  <2>1. HttpTypes'
    BY <1>3 DEF EndRequests, HttpTypes
  <2> QED BY <1>3, <2>1, EndServer
<1>4. CASE Ready /\ UNCHANGED http
  BY <1>1, <1>4, RecoverServer
<1>5. ASSUME NEW k \in Keys, RecoverAbsent(k) PROVE ServerInv'
  <2>1. /\ UNCHANGED <<srv, stopping, active, cancelled, key, row, child, pc, cur, outcome,
                       rescued, used, http>>
        /\ todo' \subseteq todo /\ UNCHANGED <<queue, mem, kids, wk, cancelling, cached>>
    BY <1>5 DEF RecoverAbsent, mem, kids, wk
  <2>2. TypeOK' /\ ErrorsGrow
    BY <2>1, CoreKnown, KeepErrors DEF TypeOK, queue, mem, kids, wk
  <2>3. UNCHANGED deletion
    BY <2>1 DEF http
  <2> QED BY <1>1, <2>1, <2>2, <2>3, CalmStep
<1>6. ASSUME NEW k \in Keys, RecoverStored(k) PROVE ServerInv'
  BY <1>1, <1>6, RecoverServer DEF RecoverStored
<1>7. CASE (\E d \in Digests : RecoverError(d)) /\ UNCHANGED http
  BY <1>1, <1>7, RecoverServer
<1> QED BY <1>2, <1>3, <1>4, <1>5, <1>6, <1>7 DEF ProcessNext

\* The invariant is inductive.
LEMMA ServerInvNext == ServerInv /\ [RouteNext \/ JobNext \/ ProcessNext]_serverVars => ServerInv'
<1> SUFFICES ASSUME ServerInv, [RouteNext \/ JobNext \/ ProcessNext]_serverVars PROVE ServerInv'
  OBVIOUS
<1>1. UNCHANGED http => HttpTypes'
  BY DEF ServerInv, http, HttpTypes
<1>2. CASE JobNext
  BY <1>1, <1>2, WorkerServer, ChildServer DEF JobNext, ServerInv
<1>3. CASE UNCHANGED serverVars
  <2>1. Core' /\ RowPart'
    BY <1>3, CoreKnown, CacheServer DEF ServerInv, serverVars, vars, http, TypeOK
  <2> QED BY <1>1, <1>3, <2>1 DEF ServerInv, serverVars
<1> QED BY <1>2, <1>3, RouteServer, ProcessServer

-----------------------------------------------------------------------------
(* The theorems *)

\* The inductive invariant of the server with its routes: in every reachable
\* state the workers, the active map and the children agree, and until the
\* manager stops a cancelled job with a row belongs to a bundle being deleted.
THEOREM ServerInvariant == ServerSpec => []ServerInv
BY ServerInvInit, ServerInvNext, PTL DEF ServerSpec

\* Type correctness of every reachable state, and no failed row without the
\* reason its columns promise.
THEOREM ServerTypes == ServerSpec => []ServerTypeOK
<1>1. ServerInv => ServerTypeOK
  BY DEF ServerInv, Core, HttpTypes, RowPart, FailedHasReason, ServerTypeOK
<1> QED BY <1>1, ServerInvariant, PTL

\* While the server is up, somebody will finish or remove every queued or
\* running row, whatever is uploaded, asked for, retried and deleted.
THEOREM RowsHaveOwners == ServerSpec => []RowsAreOwned
<1>1. ServerInv => RowsAreOwned
  BY DEF ServerInv, RowPart
<1> QED BY <1>1, ServerInvariant, PTL

\* No more children than worker threads, also when a bundle is deleted under
\* its jobs, whose rows are then gone.
THEOREM ServerChildHasAWorker == ServerSpec => []ChildHasWorker
<1>1. ServerInv => ChildHasWorker
  BY DEF ServerInv, Core, LiveIsFollowed, ChildHasWorker
<1> QED BY <1>1, ServerInvariant, PTL
=============================================================================
