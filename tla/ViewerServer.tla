---------------------------- MODULE ViewerServer ----------------------------
(***************************************************************************)
(* The HTTP routes of the viewer over the job manager: uploads, lazy       *)
(* derive requests, retries and bundle deletion, each as the separate      *)
(* steps the handlers take. A handler reads the store or the jobs table,   *)
(* gives up the processor (a thread, an await), and acts on what it read.  *)
(*                                                                         *)
(* Composes JobManager; the store behind it is the set of bundles that     *)
(* have a row (BundleStore models commit and delete in their steps), and   *)
(* every handler runs on the one event loop or its thread pool.            *)
(* One deletion of a bundle is in flight at a time.                        *)
(***************************************************************************)
EXTENDS JobManager

VARIABLES
  stored,      \* digests with a row in `bundles`
  deletion,    \* delete_bundle of each digest: "none", "cancelling", "deleting"
  requests,    \* derive and retry requests that have been checked, not submitted
  hooks        \* eager keys the bundle-committed hook has still to look at

http == <<stored, deletion, requests, hooks>>
serverVars == <<vars, http>>

KeysOf(d) == {k \in Keys : DigestOf[k] = d}
Available(k) == DigestOf[k] \in stored
Hit(k) == Available(k) /\ k \in cached

ServerTypeOK ==
  /\ TypeOK
  /\ stored \subseteq Digests
  /\ deletion \in [Digests -> {"none", "cancelling", "deleting"}]
  /\ requests \subseteq Keys \X {"get", "retry"}
  /\ hooks \subseteq EagerKeys
  \* A row is in a state its columns allow.
  /\ \A j \in Jobs : row[j].status = "failed" => row[j].reason # "none"

ServerInit ==
  /\ Init
  /\ stored \in {{}, Digests}
  /\ deletion = [d \in Digests |-> "none"]
  /\ requests = {} /\ hooks = {}

-----------------------------------------------------------------------------
(* Derive and retry requests *)

\* _prepare_request and lookup_cached: the bundle is there, the result is not.
PrepareGet(k) ==
  /\ Serving /\ Available(k) /\ ~Hit(k)
  /\ requests' = requests \cup {<<k, "get">>}
  /\ UNCHANGED <<vars, stored, deletion, hooks>>
\* The retry route also wants the newest job to have failed, restart or not. For
\* a key with no job left it asks for a failed row in `derived` (not kept here):
\* a child that outlived the deletion of its bundle can have written one since.
FailedRowLeft(k) == Latest(k) = NoJob /\ \E j \in Inserted : key[j] = k
PrepareRetry(k) ==
  /\ Serving /\ Available(k) /\ ~Hit(k)
  /\ FailedRowLeft(k) \/ (Latest(k) # NoJob /\ row[Latest(k)].status = "failed")
  /\ requests' = requests \cup {<<k, "retry">>}
  /\ UNCHANGED <<vars, stored, deletion, hooks>>

\* submit: nobody looks at the bundle again.
AnswerGet(k) ==
  /\ <<k, "get">> \in requests
  /\ Get(k) \/ (~Joinable(k) /\ Sticky(k) /\ UNCHANGED vars)
  /\ requests' = requests \ {<<k, "get">>}
  /\ UNCHANGED <<stored, deletion, hooks>>
AnswerRetry(k) ==
  /\ <<k, "retry">> \in requests
  /\ Retry(k)
  /\ requests' = requests \ {<<k, "retry">>}
  /\ UNCHANGED <<stored, deletion, hooks>>

-----------------------------------------------------------------------------
(* Upload and its hook *)

\* Committing a new digest replaces whatever was left in its directory.
Upload(d) ==
  /\ Serving /\ d \notin stored
  /\ stored' = stored \cup {d}
  /\ cached' = cached \ KeysOf(d)
  /\ hooks' = hooks \cup (EagerKeys \cap KeysOf(d))
  /\ UNCHANGED <<life, queue, mem, key, row, kids, wk, cancelling, used, deletion, requests>>

\* submit_eager: a hit is skipped, a sticky failure is left as it is.
Hook(k) ==
  /\ Serving /\ k \in hooks
  /\ \/ ~Hit(k) /\ Submit(k, "eager", FALSE)
     \/ (Hit(k) \/ (~Joinable(k) /\ Sticky(k))) /\ UNCHANGED vars
  /\ hooks' = hooks \ {k}
  /\ UNCHANGED <<stored, deletion, requests>>

-----------------------------------------------------------------------------
(* delete_bundle: cancel the jobs, wait, delete the rows and the files *)

DeleteCancel(d) ==
  /\ d \in stored /\ deletion[d] = "none"
  /\ CancelBundle(d)
  /\ deletion' = [deletion EXCEPT ![d] = "cancelling"]
  /\ UNCHANGED <<stored, requests, hooks>>
DeleteWaited(d) ==
  /\ CancelReturn(d) \/ CancelTimeout(d)
  /\ deletion' = [deletion EXCEPT ![d] = "deleting"]
  /\ UNCHANGED <<stored, requests, hooks>>
\* Mutant: store.delete without its DELETE FROM jobs.
KeepsJobRows(d) ==
  /\ deletion[d] = "deleting"
  /\ stored' = stored \ {d} /\ cached' = cached \ KeysOf(d)
  /\ deletion' = [deletion EXCEPT ![d] = "none"]
  /\ UNCHANGED <<life, queue, mem, key, row, kids, wk, cancelling, used, requests, hooks>>
DeleteRows(d) ==
  /\ deletion[d] = "deleting"
  /\ stored' = stored \ {d} /\ cached' = cached \ KeysOf(d)
  /\ row' = [j \in Jobs |-> IF j \in JobsOf(d) THEN NoRow ELSE row[j]]
  /\ deletion' = [deletion EXCEPT ![d] = "none"]
  /\ UNCHANGED <<life, queue, mem, key, kids, wk, cancelling, used, requests, hooks>>

-----------------------------------------------------------------------------
(* The server process *)

\* recover() goes through the stored bundles only.
RecoverAbsent(k) ==
  /\ srv = "recovering" /\ k \in todo /\ ~Available(k)
  /\ todo' = todo \ {k}
  /\ UNCHANGED <<srv, stopping, queue, mem, key, row, kids, wk, cancelling, cached, used, http>>
RecoverStored(k) == Available(k) /\ (RecoverCached(k) \/ RecoverSubmit(k)) /\ UNCHANGED http

\* The requests in flight end with the process.
EndRequests ==
  /\ deletion' = [d \in Digests |-> "none"]
  /\ requests' = {} /\ hooks' = {}
  /\ UNCHANGED stored
ProcessNext ==
  \/ (Start \/ Ready \/ Shutdown \/ ShutdownError) /\ UNCHANGED http
  \/ (Exit \/ Crash) /\ EndRequests
  \/ \E k \in Keys : RecoverAbsent(k) \/ RecoverStored(k)
  \/ (\E d \in Digests : RecoverError(d)) /\ UNCHANGED http

RouteNext ==
  \/ \E k \in Keys : PrepareGet(k) \/ PrepareRetry(k) \/ AnswerGet(k) \/ AnswerRetry(k)
  \/ \E k \in EagerKeys : Hook(k)
  \/ \E d \in Digests : Upload(d) \/ DeleteCancel(d) \/ DeleteWaited(d) \/ DeleteRows(d)

JobNext ==
  /\ \/ \E w \in Workers : WorkerNext(w)
     \/ \E j \in Inserted : ChildNext(j)
  /\ UNCHANGED http

ServerSpec == ServerInit /\ [][RouteNext \/ JobNext \/ ProcessNext]_serverVars

-----------------------------------------------------------------------------
(* What holds of the server, and what its documentation says of it *)

\* With bundles deleted and uploaded again at any time: while the server is up,
\* a queued or running row belongs to an active job or to a worker's job, or is
\* about to be deleted with its bundle. (Two errors can strand a row.)
RowsAreOwned ==
  srv # "down" /\ used.errors <= 1 =>
    \A j \in Inserted : row[j].status \in Pending =>
      \/ IsActive(j) \/ \E w \in Workers : cur[w] = j
      \/ deletion[DigestOf[key[j]]] # "none"

\* "Running the same request again returns the active job instead of starting
\* a second one": also when the bundle was deleted and uploaded in between, no
\* two jobs that nobody has cancelled are active for one key.
SameRequestSameJob ==
  \A i, j \in Inserted :
    key[i] = key[j] /\ IsActive(i) /\ IsActive(j) /\ ~cancelled[i] /\ ~cancelled[j] => i = j
=============================================================================
