----------------------------- MODULE JobManager -----------------------------
(***************************************************************************)
(* The in-process job manager of the viewer (plateau_rt/viewer/jobs.py)    *)
(* with the things it drives: the worker threads, the spawn children they  *)
(* follow over a pipe, the rows of the SQLite table `jobs`, and the life   *)
(* of the server process around it (start-up recovery, shutdown, crash).   *)
(*                                                                         *)
(* One action is one critical section of JobManager._cond, one write of a  *)
(* jobs row outside that lock, one step of a child, or one clock event.    *)
(*                                                                         *)
(* Abstracted: a dedup key (digest, member, deriver, params_key) is an     *)
(* element of Keys; the n-th job ever inserted is the number n, so the     *)
(* ORDER BY created_at, rowid of the code is the order of the numbers (the *)
(* wall clock is taken to be monotonic); a derived row with its files is   *)
(* membership in `cached`; messages keep their type and reason only.       *)
(* Deleting the rows of a bundle is not an action here: see ViewerServer.  *)
(***************************************************************************)
EXTENDS Integers, Sequences, FiniteSets

CONSTANTS
  Keys,            \* dedup keys of the stored bundles
  EagerKeys,       \* those a bundle's eager derivers need
  Digests,         \* bundle digests
  DigestOf,        \* the bundle of each key
  Workers,         \* max_concurrent_derives worker threads
  MaxJobs,         \* bound: jobs ever inserted
  MaxRequests,     \* bound: those of them that the routes insert
  MaxQueue,        \* bound: entries in the lazy part of the heap
  MaxCancels,      \* bound: calls of cancel_bundle
  MaxStops,        \* bound: shutdowns and kills of the server process
  MaxErrors        \* bound: failed writes of a jobs row, failed starts of a child

ASSUME KeysAssumption ==
  /\ EagerKeys \subseteq Keys
  /\ DigestOf \in [Keys -> Digests]
\* How often each thing that could happen for ever may happen.
Budget == [requests |-> MaxRequests, cancels |-> MaxCancels, stops |-> MaxStops,
           errors |-> MaxErrors]
ASSUME BoundsAssumption ==
  /\ MaxJobs \in Nat /\ MaxQueue \in Nat
  /\ Budget \in [{"requests", "cancels", "stops", "errors"} -> Nat]

VARIABLES
  srv,         \* server process: "down", "recovering" (create_app) or "up"
  todo,        \* eager keys recover() has still to look at
  stopping,    \* _shutdown
  lazyQ,       \* heap entries of priority LAZY_PRIORITY, oldest first
  eagerQ,      \* heap entries of priority EAGER_PRIORITY, oldest first
  active,      \* _active[j].status, or "none" when j is not in _active
  cancelled,   \* _ActiveJob.cancelled (kept after the entry is dropped)
  attached,    \* _ActiveJob.process is set
  byKey,       \* _by_key, 0 for no entry
  key,         \* key[j]: the dedup key of the j-th job inserted
  row,         \* the jobs table
  child,       \* the spawn child of each job
  pipe,        \* messages a child has sent and its worker has not read
  pc,          \* control point of each worker thread
  cur,         \* the job a worker executes, 0 for none
  outcome,     \* what the worker is about to record for its job
  rescued,     \* the worker is in an exception handler
  cancelling,  \* digests some thread is in cancel_bundle for
  cached,      \* keys with a valid result in the derived cache
  used,        \* how much of each budget is spent
  asked        \* auxiliary: jobs a lazy submit has returned while they were queued

life  == <<srv, todo, stopping>>
queue == <<lazyQ, eagerQ, asked>>
mem   == <<active, cancelled, attached, byKey>>
kids  == <<child, pipe>>
wk    == <<pc, cur, outcome, rescued>>
vars  == <<life, queue, mem, key, row, kids, wk, cancelling, cached, used>>

-----------------------------------------------------------------------------
Jobs == 1..MaxJobs
NoJob == 0
Inserted == DOMAIN key

\* "error" stands for "memory_limit" too: nothing tells the two apart.
JobReasons == {"timeout", "restart", "error", "crashed"}
RowStatuses == {"absent", "queued", "running", "done", "failed"}
Pending == {"queued", "running"}
Terminal == {"done", "failed"}
ActiveStatuses == Pending \cup Terminal \cup {"none"}
Rows == [status : RowStatuses, reason : JobReasons \cup {"none"}]
NoRow == [status |-> "absent", reason |-> "none"]

LiveStates == {"starting", "deriving", "reporting", "reported"}
ChildStates == LiveStates \cup {"none", "dead", "orphan"}
Messages == {"stage", "done", "error"}
WorkerPoints == {"off", "idle", "begin", "spawn", "attach", "loop", "poll",
                 "end", "write", "drop", "gone"}
Outcomes == {"none", "done", "cancelled"} \cup JobReasons

\* UPDATE jobs ... WHERE job_id = j: nothing happens when the row is gone.
Present(j) == row[j].status # "absent"
\* Mutant: status and reason swapped in the UPDATE.
FailedSwapped(j, r) == [row[j] EXCEPT !.status = r, !.reason = "failed"]
Failed(j, r) == IF Present(j) THEN [row[j] EXCEPT !.status = "failed", !.reason = r]
                              ELSE row[j]
Marked(j, status) == IF Present(j) THEN [row[j] EXCEPT !.status = status] ELSE row[j]

\* The newest row of a key, NoJob when it has none.
RowsOf(k) == {j \in Inserted : key[j] = k /\ Present(j)}
Latest(k) == IF RowsOf(k) = {} THEN NoJob ELSE CHOOSE j \in RowsOf(k) : \A i \in RowsOf(k) : i <= j
Sticky(k) == /\ Latest(k) # NoJob
             /\ row[Latest(k)].status = "failed"
             /\ row[Latest(k)].reason # "restart"

IsActive(j) == active[j] # "none"
JobsOf(d) == {j \in Inserted : DigestOf[key[j]] = d}

TypeOK ==
  /\ srv \in {"down", "recovering", "up"} /\ todo \subseteq EagerKeys
  /\ stopping \in BOOLEAN /\ used \in [DOMAIN Budget -> Nat]
  /\ lazyQ \in Seq(Jobs) /\ eagerQ \in Seq(Jobs) /\ asked \subseteq Jobs
  /\ active \in [Jobs -> ActiveStatuses]
  /\ cancelled \in [Jobs -> BOOLEAN] /\ attached \in [Jobs -> BOOLEAN]
  /\ byKey \in [Keys -> Jobs \cup {NoJob}]
  /\ key \in Seq(Keys) /\ Len(key) <= MaxJobs
  /\ row \in [Jobs -> Rows]
  /\ child \in [Jobs -> ChildStates] /\ pipe \in [Jobs -> Seq(Messages)]
  /\ pc \in [Workers -> WorkerPoints] /\ cur \in [Workers -> Jobs \cup {NoJob}]
  /\ outcome \in [Workers -> Outcomes]
  /\ rescued \in [Workers -> BOOLEAN]
  /\ cancelling \subseteq Digests /\ cached \subseteq Keys

Init ==
  /\ srv = "down" /\ todo = {} /\ stopping = FALSE /\ used = [b \in DOMAIN Budget |-> 0]
  /\ lazyQ = <<>> /\ eagerQ = <<>> /\ asked = {}
  /\ active = [j \in Jobs |-> "none"]
  /\ cancelled = [j \in Jobs |-> FALSE] /\ attached = [j \in Jobs |-> FALSE]
  /\ byKey = [k \in Keys |-> NoJob]
  /\ key = <<>> /\ row = [j \in Jobs |-> NoRow]
  /\ child = [j \in Jobs |-> "none"] /\ pipe = [j \in Jobs |-> <<>>]
  /\ pc = [w \in Workers |-> "off"] /\ cur = [w \in Workers |-> NoJob]
  /\ outcome = [w \in Workers |-> "none"]
  /\ rescued = [w \in Workers |-> FALSE]
  /\ cancelling = {} /\ cached = {}

Spend(b) == used[b] < Budget[b] /\ used' = [used EXCEPT ![b] = @ + 1]

-----------------------------------------------------------------------------
(* submit() and its callers *)

\* A second request for a key whose job is active joins that job; a lazy one
\* also puts a queued job into the lazy part of the heap.
Promotes(k, kind) == kind = "lazy" /\ byKey[k] # NoJob /\ active[byKey[k]] = "queued"
\* Mutant: a lazy request does not push the queued job again.
NotPromoted(k, kind) == lazyQ
Promoted(k, kind) == IF Promotes(k, kind) THEN Append(lazyQ, byKey[k]) ELSE lazyQ
\* Mutant: only a queued job is joined.
JoinsQueuedOnly(k) == byKey[k] # NoJob /\ active[byKey[k]] = "queued" /\ Present(byKey[k])
Joinable(k) == byKey[k] # NoJob /\ IsActive(byKey[k]) /\ Present(byKey[k])

Join(k, kind) ==
  /\ Joinable(k)
  /\ Promotes(k, kind) => Len(lazyQ) < MaxQueue
  /\ lazyQ' = Promoted(k, kind)
  /\ asked' = IF Promotes(k, kind) THEN asked \cup {byKey[k]} ELSE asked
  /\ UNCHANGED <<life, eagerQ, mem, key, row, kids, wk, cancelling, cached, used>>

\* Otherwise a new row is inserted, unless the newest one is a sticky failure.
Enqueue(k, kind, force) ==
  /\ ~Joinable(k)
  /\ force \/ ~Sticky(k)
  /\ Len(key) < MaxJobs
  /\ LET j == Len(key) + 1 IN
     /\ key' = Append(key, k)
     /\ row' = [row EXCEPT ![j] = [status |-> "queued", reason |-> "none"]]
     /\ active' = [active EXCEPT ![j] = "queued"]
     /\ byKey' = [byKey EXCEPT ![k] = j]
     /\ lazyQ' = IF kind = "lazy" THEN Append(Promoted(k, kind), j) ELSE lazyQ
     /\ asked' = IF kind = "lazy" THEN asked \cup {j} ELSE asked
     /\ eagerQ' = IF kind = "eager" THEN Append(eagerQ, j) ELSE eagerQ
     /\ pc' = IF \A w \in Workers : pc[w] = "off" THEN [w \in Workers |-> "idle"] ELSE pc
  /\ UNCHANGED <<cancelled, attached, kids, cur, outcome, rescued,
                 cancelling, cached>>

Submit(k, kind, force) ==
  \/ Join(k, kind)
  \/ Enqueue(k, kind, force) /\ Spend("requests") /\ UNCHANGED life

Serving == srv = "up" /\ ~stopping

\* GET derived and POST retry looked at the cache (and at the newest row)
\* before they call submit, so neither answer need still be true here.
Get(k) == Serving /\ Submit(k, "lazy", FALSE)
Retry(k) == Serving /\ Submit(k, "lazy", TRUE)
\* The bundle-committed hook: submit_eager skips what is cached.
CommitHook(k) == Serving /\ k \in EagerKeys \ cached /\ Submit(k, "eager", FALSE)

-----------------------------------------------------------------------------
(* cancel_bundle() *)

CancelBundle(d) ==
  LET hit == {j \in JobsOf(d) : active[j] \in Pending}
      out == {j \in hit : active[j] = "queued"}
      killed == {j \in hit \ out : attached[j] /\ child[j] \in LiveStates}
  IN /\ Serving /\ Spend("cancels")
     /\ d \notin cancelling
     /\ cancelling' = cancelling \cup {d}
     /\ cancelled' = [j \in Jobs |-> cancelled[j] \/ j \in hit]
     /\ active' = [j \in Jobs |-> IF j \in out THEN "none" ELSE active[j]]
     /\ byKey' = [k \in Keys |-> IF \E j \in out : key[j] = k THEN NoJob ELSE byKey[k]]
     /\ child' = [j \in Jobs |-> IF j \in killed THEN "dead" ELSE child[j]]
     /\ UNCHANGED <<life, queue, attached, key, row, pipe, wk, cached>>

\* _wait_bundle_cancelled returns once nothing of the bundle runs ...
Stopped(d) == \A j \in JobsOf(d) : active[j] # "running"
CancelReturn(d) ==
  /\ d \in cancelling /\ Stopped(d)
  /\ cancelling' = cancelling \ {d}
  /\ UNCHANGED <<life, queue, mem, key, row, kids, wk, cached, used>>
\* ... or when KILL_JOIN_TIMEOUT_S is over.
CancelTimeout(d) ==
  /\ d \in cancelling /\ ~Stopped(d)
  /\ cancelling' = cancelling \ {d}
  /\ UNCHANGED <<life, queue, mem, key, row, kids, wk, cached, used>>

-----------------------------------------------------------------------------
(* _worker() and _execute(): one thread following one job *)

\* The worker moves to point p; what else it keeps is said by the action.
Goto(w, p) == pc' = [pc EXCEPT ![w] = p]
Resolve(w, result) == outcome' = [outcome EXCEPT ![w] = result]

\* Heap order: lazy entries first, oldest first within a priority.
Heap == lazyQ \o eagerQ
\* Mutant: _pop_queued does not look at the status.
RunsAnyActive(i) == IsActive(Heap[i])
Runnable(i) == active[Heap[i]] = "queued"
FirstRunnable(i) == Runnable(i) /\ \A h \in 1..(i - 1) : ~Runnable(h)
\* Popping entry i takes every stale entry before it as well.
PopThrough(i) ==
  /\ UNCHANGED asked
  /\ lazyQ' = SubSeq(lazyQ, i + 1, Len(lazyQ))
  /\ eagerQ' = IF i <= Len(lazyQ) THEN eagerQ
               ELSE SubSeq(eagerQ, i - Len(lazyQ) + 1, Len(eagerQ))

Pick(w) ==
  /\ pc[w] = "idle" /\ ~stopping
  /\ \E i \in 1..Len(Heap) :
       /\ FirstRunnable(i)
       /\ PopThrough(i)
       /\ cur' = [cur EXCEPT ![w] = Heap[i]]
       /\ active' = [active EXCEPT ![Heap[i]] = "running"]
  /\ Goto(w, "begin")
  /\ UNCHANGED <<life, cancelled, attached, byKey, key, row, kids, outcome,
                 rescued, cancelling, cached, used>>

\* Nothing in the heap is runnable: the stale entries are gone, the thread waits.
DrainHeap(w) ==
  /\ pc[w] = "idle" /\ ~stopping
  /\ Heap # <<>> /\ \A i \in 1..Len(Heap) : ~Runnable(i)
  /\ lazyQ' = <<>> /\ eagerQ' = <<>> /\ UNCHANGED asked
  /\ UNCHANGED <<life, mem, key, row, kids, wk, cancelling, cached, used>>

Leave(w) ==
  /\ pc[w] = "idle" /\ stopping
  /\ Goto(w, "gone")
  /\ UNCHANGED <<life, queue, mem, key, row, kids, cur, outcome, rescued,
                 cancelling, cached, used>>

\* A write of the row of the worker's job. When it fails, the job is recorded
\* as failed by the exception handler; when that write fails too, it is not.
Record(w, newRow, next) ==
  /\ row' = [row EXCEPT ![cur[w]] = newRow]
  /\ Goto(w, next)
  /\ UNCHANGED <<outcome, rescued, used>>
WriteError(w, handler) ==
  /\ Spend("errors")
  /\ Goto(w, handler) /\ Resolve(w, "error")
  /\ rescued' = [rescued EXCEPT ![w] = TRUE]
  /\ UNCHANGED row

\* The write of 'running' comes before the try block: _worker handles its error.
\* Mutant: _worker drops the job without _fail.
BeginUnrecorded(w) ==
  /\ pc[w] = "begin"
  /\ \/ Record(w, Marked(cur[w], "running"), "spawn")
     \/ WriteError(w, "drop")
  /\ UNCHANGED <<life, queue, mem, key, kids, cur, cancelling, cached>>
Begin(w) ==
  /\ pc[w] = "begin"
  /\ \/ Record(w, Marked(cur[w], "running"), "spawn")
     \/ WriteError(w, "end")
  /\ UNCHANGED <<life, queue, mem, key, kids, cur, cancelling, cached>>

Spawn(w) ==
  /\ pc[w] = "spawn"
  /\ child' = [child EXCEPT ![cur[w]] = "starting"]
  /\ Goto(w, "attach")
  /\ UNCHANGED <<life, queue, mem, key, row, pipe, cur, outcome, rescued,
                 cancelling, cached, used>>

Drops(j) ==
  /\ attached' = [attached EXCEPT ![j] = FALSE]
  /\ active' = [active EXCEPT ![j] = "none"]
  /\ byKey' = IF IsActive(j) THEN [byKey EXCEPT ![key[j]] = NoJob] ELSE byKey

\* process.start() raised. The handler's join of the unstarted process raises
\* as well, so the finally block drops the job before _worker records "error".
SpawnError(w) ==
  /\ pc[w] = "spawn" /\ Spend("errors")
  /\ Drops(cur[w])
  /\ Goto(w, "end") /\ Resolve(w, "error")
  /\ rescued' = [rescued EXCEPT ![w] = TRUE]
  /\ UNCHANGED <<life, queue, cancelled, key, row, kids, cur,
                 cancelling, cached>>

\* There is no pipe or process to begin with: the handler records "error" and
\* the job is dropped after that.
PipeError(w) ==
  /\ pc[w] = "spawn" /\ WriteError(w, "end")
  /\ UNCHANGED <<life, queue, mem, key, kids, cur, cancelling, cached>>

Attach(w) ==
  /\ pc[w] = "attach"
  /\ attached' = [attached EXCEPT ![cur[w]] = IsActive(cur[w])]
  /\ Goto(w, "loop")
  /\ UNCHANGED <<life, queue, active, cancelled, byKey, key, row, kids, cur,
                 outcome, rescued, cancelling, cached, used>>

\* Head of the loop: _running, then the deadline, then poll.
StillRunning(j) == IsActive(j) /\ ~cancelled[j]
CheckStopped(w) ==
  /\ pc[w] = "loop" /\ ~StillRunning(cur[w])
  /\ Goto(w, "end") /\ Resolve(w, "cancelled")
  /\ UNCHANGED <<life, queue, mem, key, row, kids, cur, rescued, cancelling, cached, used>>
\* The clock is not modelled: the deadline may have passed at any check.
CheckDeadline(w) ==
  /\ pc[w] = "loop" /\ StillRunning(cur[w])
  /\ Goto(w, "end") /\ Resolve(w, "timeout")
  /\ UNCHANGED <<life, queue, mem, key, row, kids, cur, rescued, cancelling, cached, used>>
CheckOk(w) ==
  /\ pc[w] = "loop" /\ StillRunning(cur[w])
  /\ Goto(w, "poll")
  /\ UNCHANGED <<life, queue, mem, key, row, kids, cur, outcome, rescued, cancelling, cached,
                 used>>

Closed(j) == child[j] = "dead"
\* Mutant: recv() without poll(0.05) before it.
BlocksInRecv(w) == FALSE /\ UNCHANGED vars
PollTimeout(w) ==
  /\ pc[w] = "poll"
  /\ pipe[cur[w]] = <<>> /\ ~Closed(cur[w])
  /\ Goto(w, "loop")
  /\ UNCHANGED <<life, queue, mem, key, row, kids, cur, outcome, rescued,
                 cancelling, cached, used>>

\* EOFError: the pipe is closed and empty.
RecvEof(w) ==
  /\ pc[w] = "poll"
  /\ pipe[cur[w]] = <<>> /\ Closed(cur[w])
  /\ Goto(w, "end") /\ Resolve(w, "crashed")
  /\ UNCHANGED <<life, queue, mem, key, row, kids, cur, rescued,
                 cancelling, cached, used>>

Receives(w, m) ==
  /\ pc[w] = "poll"
  /\ pipe[cur[w]] # <<>> /\ Head(pipe[cur[w]]) = m
  /\ pipe' = [pipe EXCEPT ![cur[w]] = Tail(@)]

RecvStage(w) ==
  /\ Receives(w, "stage")
  /\ \/ Record(w, row[cur[w]], "loop")
     \/ WriteError(w, "end")
  /\ UNCHANGED <<life, queue, mem, key, child, cur, cancelling, cached>>

RecvFinal(w, m) ==
  /\ m # "stage" /\ Receives(w, m)
  /\ Goto(w, "end") /\ Resolve(w, m)
  /\ UNCHANGED <<life, queue, mem, key, row, child, cur, rescued,
                 cancelling, cached, used>>

\* _kill or _reap, then the status in memory (_done, _fail): the child is dead
\* and joined afterwards. A cancelled job is recorded only when the manager is
\* shutting down.
\* Mutant: no 'restart' for a job cancelled by shutdown.
RecordedAsIs(w) == outcome[w]
Recorded(w) == IF outcome[w] = "cancelled" /\ stopping THEN "restart" ELSE outcome[w]
Ended(j) == [child EXCEPT ![j] = IF @ \in LiveStates THEN "dead" ELSE @]
\* Mutants: a child is left running on timeout; on cancellation.
NoKillOnTimeout(w) == IF outcome[w] = "timeout" THEN child ELSE Ended(cur[w])
NoKillOnCancel(w) == IF outcome[w] = "cancelled" THEN child ELSE Ended(cur[w])
KilledChild(w) == Ended(cur[w])
EndChild(w) ==
  /\ pc[w] = "end"
  /\ child' = KilledChild(w)
  /\ Resolve(w, Recorded(w))
  /\ IF Recorded(w) = "cancelled" THEN Goto(w, "drop") /\ UNCHANGED active
     ELSE /\ Goto(w, "write")
          /\ active' = [active EXCEPT ![cur[w]] = IF ~IsActive(cur[w]) THEN "none"
                          ELSE IF outcome[w] = "done" THEN "done" ELSE "failed"]
  /\ UNCHANGED <<life, queue, cancelled, attached, byKey, key, row, pipe, cur, rescued,
                 cancelling, cached, used>>

FinalRow(w) == IF outcome[w] = "done" THEN Marked(cur[w], "done")
                                      ELSE Failed(cur[w], outcome[w])
Write(w) ==
  /\ pc[w] = "write"
  /\ \/ Record(w, FinalRow(w), "drop")
     \/ WriteError(w, IF rescued[w] THEN "drop" ELSE "end")
  /\ UNCHANGED <<life, queue, mem, key, kids, cur, cancelling, cached>>

\* The finally block: the pipe is closed and the job leaves the active maps.
Drop(w) ==
  /\ pc[w] = "drop"
  /\ Drops(cur[w])
  /\ pipe' = [pipe EXCEPT ![cur[w]] = <<>>]
  /\ Goto(w, "idle") /\ Resolve(w, "none")
  /\ cur' = [cur EXCEPT ![w] = NoJob]
  /\ rescued' = [rescued EXCEPT ![w] = FALSE]
  /\ UNCHANGED <<life, queue, cancelled, key, row, child, cancelling, cached, used>>

-----------------------------------------------------------------------------
(* _child_main(): the spawn child of job j *)

ChildStep(j, from, to) == child[j] = from /\ child' = [child EXCEPT ![j] = to]
Sends(j, m) == pipe' = [pipe EXCEPT ![j] = Append(@, m)]

ChildStart(j) == ChildStep(j, "starting", "deriving") /\ Sends(j, "stage") /\ UNCHANGED cached
\* get_or_derive returned: the result is in the cache, the parent does not know yet.
ChildDerive(j) ==
  ChildStep(j, "deriving", "reporting") /\ cached' = cached \cup {key[j]} /\ UNCHANGED pipe
ChildReport(j) == ChildStep(j, "reporting", "reported") /\ Sends(j, "done") /\ UNCHANGED cached
ChildFail(j) ==
  /\ \E from \in {"starting", "deriving"} : ChildStep(j, from, "reported")
  /\ Sends(j, "error")
  /\ UNCHANGED cached
\* The final message may be read, and acted on, while the child still runs:
\* _reap then joins it, and kills it when it overruns.
ChildExit(j) == ChildStep(j, "reported", "dead") /\ UNCHANGED <<pipe, cached>>
\* A signal or the kernel ends the child without a final message.
ChildCrash(j) ==
  (\E from \in LiveStates : ChildStep(j, from, "dead")) /\ UNCHANGED <<pipe, cached>>
\* The child of a killed server finds its pipe broken, before or after it derived.
OrphanEnds(j) ==
  /\ ChildStep(j, "orphan", "dead")
  /\ cached' \in {cached, cached \cup {key[j]}}
  /\ UNCHANGED pipe

ChildNext(j) ==
  /\ \/ ChildStart(j) \/ ChildDerive(j) \/ ChildReport(j) \/ ChildFail(j)
     \/ ChildExit(j) \/ ChildCrash(j) \/ OrphanEnds(j)
  /\ UNCHANGED <<life, queue, mem, key, row, wk, cancelling, used>>

-----------------------------------------------------------------------------
(* The server process: shutdown(), exit, kill, and recover() at the next start *)

\* One pass under the lock: every queued or running job is failed as restarted
\* in memory and in its row, and the children known by then are killed.
ToStop == {j \in Inserted : active[j] \in Pending}
ToKill == {j \in Inserted : IsActive(j) /\ attached[j] /\ child[j] \in LiveStates}
Stops(hit, recorded, killed) ==
  /\ stopping' = TRUE
  /\ cancelled' = [j \in Jobs |-> cancelled[j] \/ j \in hit]
  /\ active' = [j \in Jobs |-> IF j \in hit THEN "failed" ELSE active[j]]
  /\ row' = [j \in Jobs |-> IF j \in recorded THEN Failed(j, "restart") ELSE row[j]]
  /\ child' = [j \in Jobs |-> IF j \in killed THEN "dead" ELSE child[j]]
  /\ UNCHANGED <<srv, todo, queue, attached, byKey, key, pipe, wk, cancelling, cached>>
Shutdown == Serving /\ Spend("stops") /\ Stops(ToStop, ToStop, ToKill)
\* A row cannot be written: the pass ends there, in the order of the insertions,
\* and the workers are not joined.
ShutdownError ==
  /\ Serving
  /\ used.stops < MaxStops /\ used.errors < MaxErrors
  /\ used' = [used EXCEPT !.stops = @ + 1, !.errors = @ + 1]
  /\ \E last \in ToStop :
       LET before == 1..(last - 1)
       IN  Stops((before \cup {last}) \cap ToStop, before \cap ToStop, before \cap ToKill)

\* What a process keeps in memory is gone; `survivors` of its children live on.
Forget(survivors) ==
  /\ srv' = "down" /\ todo' = {} /\ stopping' = FALSE
  /\ lazyQ' = <<>> /\ eagerQ' = <<>> /\ asked' = {}
  /\ active' = [j \in Jobs |-> "none"]
  /\ cancelled' = [j \in Jobs |-> FALSE] /\ attached' = [j \in Jobs |-> FALSE]
  /\ byKey' = [k \in Keys |-> NoJob]
  /\ child' = [j \in Jobs |-> IF j \in survivors THEN "orphan"
                              ELSE IF child[j] \in LiveStates THEN "dead" ELSE child[j]]
  /\ pipe' = [j \in Jobs |-> <<>>]
  /\ pc' = [w \in Workers |-> "off"] /\ cur' = [w \in Workers |-> NoJob]
  /\ outcome' = [w \in Workers |-> "none"]
  /\ rescued' = [w \in Workers |-> FALSE]
  /\ cancelling' = {}

\* After shutdown the process ends whether or not every worker was joined
\* within its timeout; multiprocessing then terminates the daemonic children.
Exit ==
  /\ srv = "up" /\ stopping
  /\ Forget({})
  /\ UNCHANGED <<key, row, cached, used>>

\* SIGKILL or a power cut. A child that has begun to derive may survive the
\* former; one that has not ends at its first send on the broken pipe, and one
\* that has derived has nothing left to do.
Crash ==
  /\ srv # "down" /\ Spend("stops")
  /\ \E survivors \in SUBSET {j \in Inserted : child[j] = "deriving"} : Forget(survivors)
  /\ UNCHANGED <<key, row, cached>>

\* create_app: recover() first fails what the last process left behind ...
\* Mutants: recover() without its WHERE; without submit_eager.
StartFailsAll ==
  /\ srv = "down"
  /\ srv' = "recovering" /\ todo' = EagerKeys
  /\ row' = [j \in Jobs |-> Failed(j, "restart")]
  /\ UNCHANGED <<stopping, queue, mem, key, kids, wk, cancelling, cached, used>>
StartOnlyFails ==
  /\ srv = "down"
  /\ srv' = "recovering" /\ todo' = {}
  /\ row' = [j \in Jobs |-> IF row[j].status \in Pending THEN Failed(j, "restart") ELSE row[j]]
  /\ UNCHANGED <<stopping, queue, mem, key, kids, wk, cancelling, cached, used>>
Start ==
  /\ srv = "down"
  /\ srv' = "recovering" /\ todo' = EagerKeys
  /\ row' = [j \in Jobs |-> IF row[j].status \in Pending THEN Failed(j, "restart") ELSE row[j]]
  /\ UNCHANGED <<stopping, queue, mem, key, kids, wk, cancelling, cached, used>>

\* ... then queues every eager key that is not cached, sticky or not ...
RecoverCached(k) ==
  /\ srv = "recovering" /\ k \in todo \cap cached
  /\ todo' = todo \ {k}
  /\ UNCHANGED <<srv, stopping, queue, mem, key, row, kids, wk, cancelling, cached,
                 used>>
RecoverSubmit(k) ==
  /\ srv = "recovering" /\ k \in todo \ cached
  /\ todo' = todo \ {k}
  /\ Enqueue(k, "eager", TRUE)
  /\ UNCHANGED <<srv, stopping, used>>
\* ... an error costs the bundle its remaining keys ...
RecoverError(d) ==
  LET mine == {k \in todo : DigestOf[k] = d} IN
  /\ srv = "recovering" /\ mine # {}
  /\ Spend("errors")
  /\ todo' = todo \ mine
  /\ UNCHANGED <<srv, stopping, queue, mem, key, row, kids, wk, cancelling, cached>>
\* ... and the routes answer once recover() has returned.
Ready ==
  /\ srv = "recovering" /\ todo = {}
  /\ srv' = "up"
  /\ UNCHANGED <<todo, stopping, queue, mem, key, row, kids, wk, cancelling, cached,
                 used>>

-----------------------------------------------------------------------------
RequestNext == \E k \in Keys : Get(k) \/ Retry(k) \/ CommitHook(k)
CancelNext == \E d \in Digests : CancelBundle(d) \/ CancelReturn(d) \/ CancelTimeout(d)

\* The steps of worker w that need no decision of anybody else.
WorkerStep(w) ==
  \/ Pick(w) \/ DrainHeap(w) \/ Leave(w) \/ Begin(w) \/ Spawn(w) \/ Attach(w)
  \/ CheckStopped(w) \/ CheckOk(w) \/ PollTimeout(w) \/ RecvEof(w) \/ RecvStage(w)
  \/ (\E m \in Messages : RecvFinal(w, m))
  \/ EndChild(w) \/ Write(w) \/ Drop(w)
WorkerNext(w) == WorkerStep(w) \/ CheckDeadline(w) \/ PipeError(w) \/ SpawnError(w)

\* The rest of recover(), once a process was started.
RecoverNext ==
  \/ Ready
  \/ \E k \in Keys : RecoverCached(k) \/ RecoverSubmit(k)

ServerNext ==
  \/ Shutdown \/ ShutdownError \/ Exit \/ Crash \/ Start \/ RecoverNext
  \/ \E d \in Digests : RecoverError(d)

Next ==
  \/ RequestNext
  \/ CancelNext
  \/ \E w \in Workers : WorkerNext(w)
  \/ \E j \in Inserted : ChildNext(j)
  \/ ServerNext

Spec == Init /\ [][Next]_vars

\* Worker threads are scheduled; a deadline looked at again and again is found
\* to have passed; recover() runs through once the server was started, and a
\* process that was shut down ends. Nothing starts the server: no file of the
\* repository does so after an exit or a crash. Nothing is assumed of a child: it
\* may hang for ever.
Fairness ==
  /\ \A w \in Workers : WF_vars(WorkerStep(w)) /\ SF_vars(CheckDeadline(w))
  /\ WF_vars(RecoverNext) /\ WF_vars(Exit)
  /\ \A d \in Digests : WF_vars(CancelReturn(d) \/ CancelTimeout(d))
FairSpec == Spec /\ Fairness

-----------------------------------------------------------------------------
(* What the job manager promises *)

Live(j) == child[j] \in LiveStates
Runs(w, j) == cur[w] = j /\ pc[w] \in {"attach", "loop", "poll", "end"}

\* "Running the same request again returns the active job instead of starting
\* a second one": two children of one server never derive the same key.
OneChildPerKey == \A i, j \in Inserted : Live(i) /\ Live(j) /\ key[i] = key[j] => i = j

\* Every child has a worker that follows it, so no more children are alive
\* than there are worker threads, whatever was killed, cancelled or timed out.
ChildHasWorker == \A j \in Jobs : Live(j) => \E w \in Workers : Runs(w, j)

\* A promoted job has two heap entries: no two workers execute one job.
OneRunnerPerJob == \A v, w \in Workers : cur[v] = cur[w] /\ cur[v] # NoJob => v = w

\* A job no lazy request waits for never starts before one such a request
\* waits for, even when the lazy request came after the eager submission.
Starts(j) == active[j] = "queued" /\ active'[j] = "running"
LazyFirst ==
  [][\A i, j \in Inserted :
       Starts(j) /\ active[i] = "queued" /\ i \in asked => j \in asked]_vars

\* While the server is up, every queued or running row belongs to a job that
\* is still in the active map or in the hands of a worker, or was cancelled.
\* One error on the way to the end of a job is not enough to strand its row.
NoStrandedRow ==
  srv # "down" /\ used.errors <= 1 =>
    \A j \in Inserted : row[j].status \in Pending =>
      IsActive(j) \/ cancelled[j] \/ \E w \in Workers : cur[w] = j

\* A job that is done stays done, and one that failed stays failed with its
\* reason, unless the manager is shutting down.
FinalRowsKept ==
  [][\A j \in Inserted :
       /\ row[j].status = "done" => row'[j] = row[j]
       /\ row[j].status = "failed" /\ ~stopping => row'[j] = row[j]]_vars

\* A shutdown that could join its workers leaves no queued or running row,
\* also when a worker was about to write 'running' as the shutdown came. (The
\* rows of cancelled jobs are for the deletion of their bundle to remove.)
CleanShutdown ==
  stopping /\ used.cancels = 0 /\ used.errors = 0 /\ (\A w \in Workers : pc[w] \in {"off", "gone"}) =>
    \A j \in Inserted : row[j].status \notin Pending

\* When cancel_bundle returns before its time is up, no child that this server
\* started reads or writes the bundle any more.
CancelLeavesNoChild ==
  [][\A d \in cancelling \ cancelling' :
       srv' = "up" /\ ~stopping /\ Stopped(d) => \A j \in JobsOf(d) : ~Live(j)]_vars

\* shutdown: "fail active ones as restarted". What it has failed as restarted
\* is not recorded as crashed by the worker that sees the killed child's EOF.
RestartNotRelabelled ==
  [][\A j \in Inserted :
       row[j] = [status |-> "failed", reason |-> "restart"] =>
         row'[j] # [status |-> "failed", reason |-> "crashed"]]_vars

\* Every job of a server that keeps running ends, although children may hang and
\* one thing may go wrong, and so does every row that a server before it left
\* queued or running. (A cancellation leaves the rows of its bundle for the
\* deletion to remove; where it does not come, the row must end.)
JobsFinish ==
  \A j \in Jobs :
    (j \in Inserted /\ row[j].status \in Pending /\ srv # "down")
      ~> (row[j].status \in Terminal \/ used.cancels > 0 \/ srv = "down")

\* "a missing eager derivation is queued again for every stored bundle": after
\* a start of the server each eager key gets a result or an answer of its own,
\* unless an error cost its bundle the recovery or the server stops before.
Answered(k) == k \in cached \/ Sticky(k)
EagerRecovered ==
  \A k \in EagerKeys :
    (srv = "recovering") ~> (Answered(k) \/ used.errors > 0 \/ srv = "down")
=============================================================================
