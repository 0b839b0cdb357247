---------------------------- MODULE OverviewPanel ----------------------------
(***************************************************************************)
(* The overview panel (plateau_rt/viewer/static/js/panels/overview.js) and *)
(* the derivation helpers it calls (js/api.js: derive, pollJob,            *)
(* retryDerive, fetchDerivedJson).  The panel's host, context and rows are *)
(* variables of the module, shared by one mount after the other, while the *)
(* promise chains of an earlier mount may still be running.                *)
(*                                                                         *)
(* Of the server a request sees only `jobs`: what it has of the overview   *)
(* of each bundle. "lost" is a finished job whose result is not valid any  *)
(* more, "gone" a deleted bundle. An abort rejects every pending request   *)
(* of its signal at once, so the calls of an unmounted panel end with it,  *)
(* but for the one request that has no signal.                             *)
(***************************************************************************)
EXTENDS Naturals

CONSTANTS Digests, Selections, NoContent, MaxLosses  \* MaxLosses: bound

VARIABLES
  jobs,     \* what the server has: see above
  host,     \* the mount whose element is the host, or 0
  content,  \* what the host shows
  marked,   \* the selection that its rows mark, as a set
  calls,    \* the promise chains of load and of the Retry button
  losses

JobStates == {"none", "active", "cached", "failed", "lost", "gone"}
Contents == {NoContent, "loading", "error", "retryable", "retrying"} \cup Digests
CallPoints == {"get", "post", "poll", "sleep", "file"}
\* nextPollDelay, in milliseconds; Math.round rounds a half up.
NextPollDelay(previous) ==
  IF previous = 0 THEN 500
  ELSE LET next == (3 * previous + 1) \div 2 IN IF next > 5000 THEN 5000 ELSE next
Delays == {0, 500, 750, 1125, 1688, 2532, 3798, 5000}

Calls ==
  [mount : Nat, digest : Digests, retry : BOOLEAN, pc : CallPoints, round : 0..3, delay : Delays]
OverviewTypeOK ==
  /\ jobs \in [Digests -> JobStates] /\ host \in Nat
  /\ content \in Contents /\ (host = 0 => content = NoContent) /\ marked \subseteq Selections
  /\ calls \subseteq Calls

OverviewInit ==
  /\ jobs \in [Digests -> {"none", "cached"}] /\ host = 0 /\ content = NoContent
  /\ marked = {} /\ calls = {} /\ losses = 0

-----------------------------------------------------------------------------
(* mount, update, unmount *)

NewCall(mount, d, retry) ==
  [mount |-> mount, digest |-> d, retry |-> retry, pc |-> IF retry THEN "post" ELSE "get",
   round |-> IF retry THEN 0 ELSE 1, delay |-> 0]
OverviewMount(mount, d) ==
  /\ host' = mount /\ content' = "loading" /\ marked' = {}
  /\ calls' = calls \cup {NewCall(mount, d, FALSE)}
  /\ UNCHANGED <<jobs, losses>>
\* The abort, and what it leaves: the file of a retry is fetched without a signal.
Unsignalled(c) == c.retry /\ c.pc = "file"
\* Mutant: the host is kept.
KeepsHost ==
  /\ content' = NoContent /\ marked' = {}
  /\ calls' = {c \in calls : c.mount # host \/ Unsignalled(c)} /\ UNCHANGED <<jobs, host, losses>>
OverviewUnmount ==
  /\ host' = 0 /\ content' = NoContent /\ marked' = {}
  /\ calls' = {c \in calls : c.mount # host \/ Unsignalled(c)}
  /\ UNCHANGED <<jobs, losses>>
OverviewUpdate(s) ==
  /\ marked' = (IF content \in Digests THEN {s} ELSE marked)
  /\ UNCHANGED <<jobs, host, content, calls, losses>>

-----------------------------------------------------------------------------
(* Answers *)

Continue(c, pc) == calls' = (calls \ {c}) \cup {[c EXCEPT !.pc = pc]}
Queue(d) == jobs' = [jobs EXCEPT ![d] = IF @ \in {"none", "lost"} THEN "active" ELSE @]
\* The call is over: it shows something, unless its signal is aborted.
Aborted(c) == c.mount # host
\* Mutant: whoever is mounted by now shows it.
ShowAnyway(c, what, s) ==
  /\ content' = (IF host = 0 THEN content ELSE what)
  /\ marked' = (IF host # 0 THEN s ELSE marked)
ShowUnlessAborted(c, what, s) ==
  IF Aborted(c) THEN UNCHANGED <<content, marked>>
  ELSE content' = what /\ marked' = s
End(c, what, s) == calls' = calls \ {c} /\ ShowUnlessAborted(c, what, s) /\ UNCHANGED <<host, losses>>
\* An error of a load is shown in place of the loading view; one of a retry is
\* added to the view with its button.
Fails(c, reason) ==
  End(c, IF c.retry \/ reason = "derive_failed" THEN "retryable" ELSE "error", {})

GetDerived(c) ==
  /\ c.pc = "get" /\ jobs[c.digest] # "gone"
  /\ IF jobs[c.digest] = "cached" THEN Continue(c, "file") ELSE Continue(c, "poll")
  /\ Queue(c.digest) /\ UNCHANGED <<host, content, marked, losses>>
\* POST retry: "conflict" when the result is there, which goes on as a derive.
PostRetry(c) ==
  /\ c.pc = "post" /\ jobs[c.digest] # "gone"
  /\ IF jobs[c.digest] = "cached"
     THEN calls' = (calls \ {c}) \cup {[c EXCEPT !.pc = "get", !.round = 1]} /\ UNCHANGED jobs
     ELSE Continue(c, "poll") /\ jobs' = [jobs EXCEPT ![c.digest] = "active"]
  /\ UNCHANGED <<host, content, marked, losses>>
\* onStatus redraws the loading view at each answer.
PollActive(c) ==
  /\ c.pc = "poll" /\ jobs[c.digest] = "active"
  /\ calls' = (calls \ {c}) \cup {[c EXCEPT !.pc = "sleep", !.delay = NextPollDelay(@)]}
  /\ content' = (IF c.retry THEN content ELSE "loading")
  /\ UNCHANGED <<jobs, host, marked, losses>>
PollDone(c) ==
  /\ c.pc = "poll" /\ jobs[c.digest] = "cached" /\ Continue(c, "file")
  /\ UNCHANGED <<jobs, host, content, marked, losses>>
\* Mutant: only "done" ends the polling.
FailedIsPending(c) ==
  /\ c.pc = "poll" /\ jobs[c.digest] = "failed" /\ Continue(c, "sleep")
  /\ UNCHANGED <<jobs, host, content, marked, losses>>
PollFailed(c) == c.pc = "poll" /\ jobs[c.digest] = "failed" /\ Fails(c, "derive_failed") /\ UNCHANGED jobs
\* The job is done but has no result: derive asks three times, after a retry's own job.
PollLost(c) ==
  /\ c.pc = "poll" /\ jobs[c.digest] = "lost" /\ UNCHANGED jobs
  /\ IF c.round < 3
     THEN /\ calls' = (calls \ {c}) \cup {[c EXCEPT !.pc = "get", !.delay = 0, !.round = @ + 1]}
          /\ UNCHANGED <<host, content, marked, losses>>
     ELSE Fails(c, "http")
Wake(c) ==
  /\ c.pc = "sleep" /\ Continue(c, "poll")
  /\ UNCHANGED <<jobs, host, content, marked, losses>>
File(c, s) == c.pc = "file" /\ jobs[c.digest] = "cached" /\ End(c, c.digest, {s}) /\ UNCHANGED jobs
\* The network, or a server that has no such bundle, job or file any more.
RequestError(c) == c.pc # "sleep" /\ Fails(c, "network") /\ UNCHANGED jobs

Retry(d) ==
  /\ content = "retryable" /\ content' = "retrying"
  /\ calls' = calls \cup {NewCall(host, d, TRUE)}
  /\ UNCHANGED <<jobs, host, marked, losses>>

\* The server
JobEnds(d) ==
  /\ jobs[d] = "active" /\ \E r \in {"cached", "failed"} : jobs' = [jobs EXCEPT ![d] = r]
  /\ UNCHANGED <<host, content, marked, calls, losses>>
ResultLost(d) ==
  /\ jobs[d] = "cached" /\ losses < MaxLosses /\ losses' = losses + 1
  /\ \E r \in {"lost", "gone"} : jobs' = [jobs EXCEPT ![d] = r]
  /\ UNCHANGED <<host, content, marked, calls>>

AnswerCall(c, s) ==
  \/ GetDerived(c) \/ PostRetry(c) \/ PollActive(c) \/ PollDone(c) \/ PollFailed(c)
  \/ PollLost(c) \/ Wake(c) \/ File(c, s) \/ RequestError(c)
ServerNext == \E d \in Digests : JobEnds(d) \/ ResultLost(d)
=============================================================================
