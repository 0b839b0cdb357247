---------------------------- MODULE BundlesPanel -----------------------------
(***************************************************************************)
(* The home panel (plateau_rt/viewer/static/js/panels/bundles.js): the list *)
(* of bundles with the status of their derivations, which are polled until *)
(* they are complete, deletion and upload. One mount after the other uses  *)
(* the same variables of the module; reloads, polls, deletions and uploads *)
(* are promise chains that go on beside each other.                        *)
(*                                                                         *)
(* A table is the number of the reload that built it; the rows of a table  *)
(* are there at once and asked about in any order. The server is the       *)
(* set of stored bundles with the state of their derivations; it reads its *)
(* list at one instant, and the answer comes later.                        *)
(***************************************************************************)
EXTENDS Naturals, FiniteSets

CONSTANTS
  Bundles,
  MaxCommands, MaxMounts  \* bounds: deletions, chosen files and uploads; mounts

ASSUME PanelAssumption == MaxCommands \in Nat /\ MaxMounts \in Nat \ {0}

VARIABLES
  server,     \* state of each bundle on the server
  homeMount,  \* the mount whose controller is current, or 0
  mounts,     \* how many there were
  list,       \* what the list shows
  cells,      \* the status texts of the table that is shown
  reloads,    \* reloadListInto and renderRows under way
  timer,      \* the scheduled refresh: a table and its pending rows, or NoTimer
  polls,      \* refreshes under way
  deletes, uploads,
  file, inputOff, canStart,  \* a file is chosen; its input is disabled; the upload button is enabled
  reloadCount, commands
panelVars == <<list, cells, reloads, timer, polls, file, inputOff, canStart, reloadCount>>
homeVars == <<server, homeMount, mounts, panelVars, deletes, uploads, commands>>

NoTimer == [table |-> 0, mount |-> 0, pending |-> {}]
ServerStates == {"absent", "progress", "complete", "failed"}
CellTexts == {"none", "loading", "unavailable", "progress", "complete", "failed"}
Lists == {"none", "loading", "empty", "error", "table"}
ShowsTable(n) == list = [shows |-> "table", table |-> n]
\* Mutant: what is shown is put beside the table.
KeepsTable(shows) == [shows |-> shows, table |-> 1]
Listing(shows) == [shows |-> shows, table |-> 0]

BundlesTypeOK ==
  /\ server \in [Bundles -> ServerStates] /\ homeMount \in 0..mounts /\ mounts \in 0..MaxMounts
  /\ list \in [shows : Lists, table : 0..reloadCount]
  /\ (list.shows = "table") = (list.table # 0)
  /\ cells \in [Bundles -> CellTexts]
  /\ reloads \subseteq [id : 1..reloadCount, mount : 1..mounts, pc : {"asked", "answered", "rows"},
                        left : SUBSET Bundles, pending : SUBSET Bundles]
  /\ timer \in [table : 0..reloadCount, mount : 0..mounts, pending : SUBSET Bundles]
  /\ polls \subseteq [table : 0..reloadCount, mount : 1..mounts, left : SUBSET Bundles, still : SUBSET Bundles]
  /\ deletes \subseteq [digest : Bundles, pc : {"asked", "deleted"}]
  /\ uploads \subseteq [digest : Bundles, mount : 1..mounts, pc : {"asked", "stored"}]
  /\ file \in BOOLEAN /\ inputOff \in BOOLEAN /\ canStart \in BOOLEAN
  /\ reloadCount \in Nat /\ commands \in 0..MaxCommands

\* The page opens at home: the panel is mounted and its first list asked for.
BundlesInit ==
  /\ server \in [Bundles -> {"absent", "progress", "complete"}] /\ homeMount = 1 /\ mounts = 1
  /\ list = Listing("loading") /\ cells = [b \in Bundles |-> "none"]
  /\ reloads = {[id |-> 1, mount |-> 1, pc |-> "asked", left |-> {}, pending |-> {}]}
  /\ timer = NoTimer /\ polls = {} /\ deletes = {} /\ uploads = {}
  /\ file = FALSE /\ inputOff = FALSE /\ canStart = FALSE /\ reloadCount = 1 /\ commands = 0

-----------------------------------------------------------------------------
(* reloadListInto, with renderRows *)

Idle == UNCHANGED <<server, homeMount, mounts, deletes, uploads, commands>>
\* Up to its request, of the current mount: stopRefresh, the loading view.
Reload(mount) ==
  /\ reloadCount' = reloadCount + 1
  /\ timer' = NoTimer /\ list' = Listing("loading")
  /\ reloads' = reloads \cup {[id |-> reloadCount + 1, mount |-> mount, pc |-> "asked",
                               left |-> {}, pending |-> {}]}
\* Mutant: nobody looks at the signal after an await.
NeverAborts(t) == FALSE
Aborts(t) == t.mount # homeMount

NextReload(r, s) == reloads' = (reloads \ {r}) \cup {s}
ListServed(r) ==
  /\ r.pc = "asked" /\ ~Aborts(r)
  /\ NextReload(r, [r EXCEPT !.pc = "answered", !.left = {b \in Bundles : server[b] # "absent"}])
  /\ Idle /\ UNCHANGED <<list, cells, timer, polls, file, inputOff, canStart, reloadCount>>
ListShown(r) ==
  /\ r.pc = "answered" /\ ~Aborts(r)
  /\ cells' = [b \in Bundles |-> IF b \in r.left THEN "loading" ELSE "none"]
  /\ IF r.left = {} THEN list' = Listing("empty") /\ reloads' = reloads \ {r}
     ELSE list' = [shows |-> "table", table |-> r.id] /\ NextReload(r, [r EXCEPT !.pc = "rows"])
  /\ Idle /\ UNCHANGED <<timer, polls, file, inputOff, canStart, reloadCount>>
\* Mutant: the loading view stays.
FailsSilently(r) ==
  /\ r.pc \in {"asked", "answered"} /\ ~Aborts(r) /\ reloads' = reloads \ {r}
  /\ Idle /\ UNCHANGED <<list, cells, timer, polls, file, inputOff, canStart, reloadCount>>
ListFails(r) ==
  /\ r.pc \in {"asked", "answered"} /\ ~Aborts(r)
  /\ list' = Listing("error") /\ reloads' = reloads \ {r}
  /\ Idle /\ UNCHANGED <<cells, timer, polls, file, inputOff, canStart, reloadCount>>
ReloadAborted(r) ==
  /\ Aborts(r) /\ reloads' = reloads \ {r}
  /\ Idle /\ UNCHANGED <<list, cells, timer, polls, file, inputOff, canStart, reloadCount>>

\* A status as it is shown and whether its bundle is asked for again.
Answers(b) == (IF server[b] = "absent" THEN {} ELSE {server[b]}) \cup {"unavailable"}
NeedsRefresh(text) == text = "progress"
ShowCell(table, b, text) == cells' = IF ShowsTable(table) THEN [cells EXCEPT ![b] = text] ELSE cells
\* scheduleRefresh, from a task of a mount, replaces what was scheduled.
ScheduleRefresh(t, table, pending) ==
  timer' = IF homeMount = 0 \/ pending = {} THEN NoTimer
           ELSE [table |-> table, mount |-> t.mount, pending |-> pending]
Row(r) ==
  /\ r.pc = "rows" /\ ~Aborts(r)
  /\ \E b \in r.left : \E text \in Answers(b) :
       LET left == r.left \ {b}
           pending == IF NeedsRefresh(text) THEN r.pending \cup {b} ELSE r.pending
       IN  /\ ShowCell(r.id, b, text)
           /\ IF left # {}
              THEN NextReload(r, [r EXCEPT !.left = left, !.pending = pending]) /\ UNCHANGED timer
              ELSE /\ reloads' = reloads \ {r}
                   /\ IF pending = {} THEN UNCHANGED timer ELSE ScheduleRefresh(r, r.id, pending)
  /\ Idle /\ UNCHANGED <<list, polls, file, inputOff, canStart, reloadCount>>

-----------------------------------------------------------------------------
(* The refresh of pending statuses *)

TimerFires ==
  /\ timer # NoTimer /\ timer' = NoTimer
  /\ polls' = IF homeMount = 0 THEN polls
              ELSE polls \cup {[table |-> timer.table, mount |-> homeMount, left |-> timer.pending, still |-> {}]}
  /\ Idle /\ UNCHANGED <<list, cells, reloads, file, inputOff, canStart, reloadCount>>
\* An unavailable status is asked for again.
Poll(p) ==
  /\ ~Aborts(p)
  /\ \E b \in p.left : \E text \in Answers(b) :
       LET left == p.left \ {b}
           again == NeedsRefresh(text) \/ text = "unavailable"
           still == IF again THEN p.still \cup {b} ELSE p.still
       IN  /\ IF text = "unavailable" THEN UNCHANGED cells ELSE ShowCell(p.table, b, text)
           /\ IF left # {}
              THEN /\ polls' = (polls \ {p}) \cup {[p EXCEPT !.left = left, !.still = still]}
                   /\ UNCHANGED timer
              ELSE /\ polls' = polls \ {p}
                   /\ IF still = {} THEN UNCHANGED timer ELSE ScheduleRefresh(p, p.table, still)
  /\ Idle /\ UNCHANGED <<list, reloads, file, inputOff, canStart, reloadCount>>
PollAborted(p) ==
  /\ Aborts(p) /\ polls' = polls \ {p}
  /\ Idle /\ UNCHANGED <<list, cells, reloads, timer, file, inputOff, canStart, reloadCount>>

-----------------------------------------------------------------------------
(* Deletion and upload *)

Command == commands < MaxCommands /\ commands' = commands + 1
Delete(b) ==
  /\ Command /\ list.shows = "table" /\ cells[b] # "none"
  /\ deletes' = deletes \cup {[digest |-> b, pc |-> "asked"]}
  /\ UNCHANGED <<server, homeMount, mounts, panelVars, uploads>>
Deleted(t) ==
  /\ t.pc = "asked" /\ server[t.digest] # "absent"
  /\ server' = [server EXCEPT ![t.digest] = "absent"]
  /\ deletes' = (deletes \ {t}) \cup {[t EXCEPT !.pc = "deleted"]}
  /\ UNCHANGED <<homeMount, mounts, panelVars, uploads, commands>>
\* The request has no signal: another mount may be there, or none, when the
\* confirmation fails on the missing list.
DeleteDone(t) ==
  /\ t.pc = "deleted" /\ deletes' = deletes \ {t}
  /\ IF homeMount = 0 THEN UNCHANGED panelVars
     ELSE Reload(homeMount) /\ UNCHANGED <<cells, polls, file, inputOff, canStart>>
  /\ UNCHANGED <<server, homeMount, mounts, uploads, commands>>
DeleteFails(t) ==
  /\ deletes' = deletes \ {t}
  /\ list' = IF homeMount = 0 THEN list ELSE Listing("error")
  /\ UNCHANGED <<server, homeMount, mounts, cells, reloads, timer, polls, file, inputOff, canStart,
                 reloadCount, uploads, commands>>

\* A file from the input, which is disabled when an upload begins until one ends, or from
\* the drop zone, which never is. A choice in the input may also be taken back.
Choose ==
  /\ homeMount # 0 /\ Command /\ ~canStart
  /\ file' = TRUE /\ canStart' = TRUE
  /\ UNCHANGED <<server, homeMount, mounts, list, cells, reloads, timer, polls, inputOff, reloadCount,
                 deletes, uploads>>
Unchoose ==
  /\ homeMount # 0 /\ Command /\ ~inputOff /\ file
  /\ file' = FALSE /\ canStart' = FALSE
  /\ UNCHANGED <<server, homeMount, mounts, list, cells, reloads, timer, polls, inputOff, reloadCount,
                 deletes, uploads>>
StartUpload(b) ==
  /\ homeMount # 0 /\ Command /\ canStart
  /\ canStart' = FALSE /\ inputOff' = TRUE
  /\ uploads' = uploads \cup {[digest |-> b, mount |-> homeMount, pc |-> "asked"]}
  /\ UNCHANGED <<server, homeMount, mounts, list, cells, reloads, timer, polls, file, reloadCount, deletes>>
Uploaded(u) ==
  /\ u.pc = "asked"
  /\ server' = IF server[u.digest] = "absent" THEN [server EXCEPT ![u.digest] = "progress"] ELSE server
  /\ uploads' = (uploads \ {u}) \cup {[u EXCEPT !.pc = "stored"]}
  /\ UNCHANGED <<homeMount, mounts, panelVars, deletes, commands>>
UploadDone(u) ==
  /\ u.pc = "stored" /\ ~Aborts(u) /\ uploads' = uploads \ {u} /\ inputOff' = FALSE /\ canStart' = file
  /\ Reload(homeMount) /\ UNCHANGED <<server, homeMount, mounts, cells, polls, file, deletes, commands>>
\* Mutant: the button stays disabled after an error.
ForgetsButton(u) ==
  /\ ~Aborts(u) /\ uploads' = uploads \ {u}
  /\ UNCHANGED <<server, homeMount, mounts, panelVars, deletes, commands>>
UploadFails(u) ==
  /\ ~Aborts(u) /\ uploads' = uploads \ {u} /\ inputOff' = FALSE /\ canStart' = file
  /\ UNCHANGED <<server, homeMount, mounts, list, cells, reloads, timer, polls, file, reloadCount,
                 deletes, commands>>
UploadAborted(u) ==
  /\ Aborts(u) /\ uploads' = uploads \ {u}
  /\ UNCHANGED <<server, homeMount, mounts, panelVars, deletes, commands>>

-----------------------------------------------------------------------------
(* mount and unmount *)

BundlesMount ==
  /\ homeMount = 0 /\ mounts < MaxMounts
  /\ mounts' = mounts + 1 /\ homeMount' = mounts' /\ Reload(mounts')
  /\ cells' = [b \in Bundles |-> "none"] /\ file' = FALSE /\ inputOff' = FALSE /\ canStart' = FALSE
  /\ UNCHANGED <<server, polls, deletes, uploads, commands>>
\* stopRefresh, the abort, and the module's references to the element.
Leave ==
  /\ homeMount # 0 /\ homeMount' = 0 /\ list' = Listing("none") /\ cells' = [b \in Bundles |-> "none"]
  /\ file' = FALSE /\ inputOff' = FALSE /\ canStart' = FALSE
  /\ UNCHANGED <<server, mounts, reloads, polls, reloadCount, deletes, uploads, commands>>
BundlesUnmount == Leave /\ timer' = NoTimer

\* The server's derivations end.
Derived(b) ==
  /\ server[b] = "progress" /\ \E s \in {"complete", "failed"} : server' = [server EXCEPT ![b] = s]
  /\ UNCHANGED <<homeMount, mounts, panelVars, deletes, uploads, commands>>

ReloadNext == \E r \in reloads : ListServed(r) \/ ListShown(r) \/ ListFails(r) \/ ReloadAborted(r) \/ Row(r)
PollNext == TimerFires \/ \E p \in polls : Poll(p) \/ PollAborted(p)
CommandNext ==
  \/ \E b \in Bundles : Delete(b) \/ StartUpload(b)
  \/ \E t \in deletes : Deleted(t) \/ DeleteDone(t) \/ DeleteFails(t)
  \/ \E u \in uploads : Uploaded(u) \/ UploadDone(u) \/ UploadFails(u) \/ UploadAborted(u)
  \/ Choose \/ Unchoose
BundlesNext ==
  \/ BundlesMount \/ BundlesUnmount \/ ReloadNext \/ PollNext \/ CommandNext
  \/ \E b \in Bundles : Derived(b)
\* A request is answered, fails or is aborted; a command or a visit is the user's.
BundlesFairness == WF_homeVars(ReloadNext) /\ WF_homeVars(PollNext)
BundlesSpec == BundlesInit /\ [][BundlesNext]_homeVars /\ BundlesFairness

-----------------------------------------------------------------------------
(* What the user sees *)

\* A refresh of the list is only scheduled by and for the mounted panel.
TimerIsMounted == timer # NoTimer => homeMount # 0 /\ timer.mount = homeMount
\* With a file chosen and no upload under way, another one can be started.
ButtonComesBack ==
  homeMount # 0 /\ file /\ (\A u \in uploads : u.mount # homeMount) => canStart
\* A list that loads is shown, or fails, or is left.
ListSettles == list.shows = "loading" ~> list.shows # "loading"

\* "Refresh the statuses of incomplete bundles": as long as the list shows a
\* bundle in progress, somebody is going to ask again for the table it is in.
Watched(n) == \/ timer.table = n
              \/ \E p \in polls : p.table = n /\ p.mount = homeMount
              \/ \E r \in reloads : r.mount = homeMount
PollsWhatIsShown ==
  list.shows = "table" /\ (\E b \in Bundles : cells[b] = "progress") => Watched(list.table)
=============================================================================
