---------------------------- MODULE ContentStore ----------------------------
(* What the viewer's bundle store promises its callers: a set of digests    *)
(* that each commit and each delete changes at one instant between call and *)
(* answer. A call that fails or dies may have taken effect, or may not.     *)
CONSTANTS Procs, Digests

VARIABLES
  stored,   \* the bundles there are
  op,       \* "idle", "commit", "delete", or what the call has done by now
  want,     \* the digest each call is about
  answer    \* the answer to the last call

storeVars == <<stored, op, want, answer>>
Answers == {"none", "created", "duplicate", "deleted", "missing", "error"}

StoreInit ==
  /\ stored = {}
  /\ op = [p \in Procs |-> "idle"]
  /\ want \in [Procs -> Digests]
  /\ answer = [p \in Procs |-> "none"]

Ask(p, what, d) ==
  /\ op[p] = "idle"
  /\ op' = [op EXCEPT ![p] = what] /\ want' = [want EXCEPT ![p] = d]
  /\ answer' = [answer EXCEPT ![p] = "none"]
  /\ UNCHANGED stored

Reply(p, result) ==
  /\ op' = [op EXCEPT ![p] = "idle"] /\ answer' = [answer EXCEPT ![p] = result]
  /\ UNCHANGED <<stored, want>>

\* The instant at which a call takes effect.
Add(p) ==
  /\ op[p] = "commit" /\ want[p] \notin stored
  /\ stored' = stored \cup {want[p]} /\ op' = [op EXCEPT ![p] = "added"]
  /\ UNCHANGED <<want, answer>>
Remove(p) ==
  /\ op[p] = "delete"
  /\ stored' = stored \ {want[p]} /\ op' = [op EXCEPT ![p] = "removed"]
  /\ UNCHANGED <<want, answer>>

\* "created" to the one call that added the bundle, "duplicate" while it is there.
Created(p) == op[p] = "added" /\ Reply(p, "created")
Duplicate(p) == op[p] = "commit" /\ want[p] \in stored /\ Reply(p, "duplicate")
Deleted(p) == op[p] = "removed" /\ Reply(p, "deleted")
Missing(p) == op[p] = "delete" /\ want[p] \notin stored /\ Reply(p, "missing")
Fails(p) == op[p] # "idle" /\ \E result \in {"error", "none"} : Reply(p, result)

StoreNext ==
  \E p \in Procs :
    \/ \E d \in Digests : Ask(p, "commit", d) \/ Ask(p, "delete", d)
    \/ Add(p) \/ Remove(p)
    \/ Created(p) \/ Duplicate(p) \/ Deleted(p) \/ Missing(p) \/ Fails(p)

StoreSpec == StoreInit /\ [][StoreNext]_storeVars
=============================================================================
