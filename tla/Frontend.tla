------------------------------- MODULE Frontend -------------------------------
(***************************************************************************)
(* The page: the router with the overview panel it mounts and unmounts. A  *)
(* step of the router that leaves the panel unmounts it in the same run of *)
(* the page's thread; a step that changes the selection updates the        *)
(* mounted panel. Answers to requests of a panel that was left come        *)
(* between all of them. The home panel is BundlesPanel.                    *)
(***************************************************************************)
EXTENDS AppRouter

CONSTANTS MaxLosses, NoContent

VARIABLES jobs, host, content, marked, calls, losses
overviewVars == <<jobs, host, content, marked, calls, losses>>
frontendVars == <<routerVars, overviewVars>>

ASSUME FrontendAssumption ==
  /\ {NoContent, "loading", "error", "retryable", "retrying"} \cap Stored = {}
  /\ NoContent \notin {"loading", "error", "retryable", "retrying"}

Selections == States
O == INSTANCE OverviewPanel WITH Digests <- Stored

FrontendTypeOK ==
  /\ RouterTypeOK /\ O!OverviewTypeOK
  /\ host = (IF mounted.panel = "overview" THEN mounted.gen ELSE 0)

FrontendInit == RouterInit /\ O!OverviewInit

-----------------------------------------------------------------------------
(* What a step of the router does to the panels *)

OverviewFollows ==
  IF mounted' # mounted
  THEN IF mounted'.panel = "overview" THEN O!OverviewMount(mounted'.gen, mounted'.route.digest)
       ELSE IF mounted.panel = "overview" THEN O!OverviewUnmount ELSE UNCHANGED overviewVars
  ELSE IF mounted.panel = "overview" /\ sel' # sel THEN O!OverviewUpdate(sel')
  ELSE UNCHANGED overviewVars
UserStep == UserNext /\ OverviewFollows
HashStep == HashChange /\ OverviewFollows
AnswerStep == AnswerNext /\ OverviewFollows
\* A click on a row of the overview.
RowClick ==
  /\ content \in Stored /\ \E v \in Values.view : Select([sel EXCEPT !.view = v])
  /\ OverviewFollows
RetryClick == O!Retry(mounted.route.digest) /\ UNCHANGED routerVars
CallStep == (\E c \in calls : O!AnswerCall(c, sel)) /\ UNCHANGED routerVars
ServerStep == O!ServerNext /\ UNCHANGED routerVars

FrontendNext == UserStep \/ HashStep \/ AnswerStep \/ RowClick \/ RetryClick \/ CallStep \/ ServerStep
\* The event loop runs what is queued and every request is answered or fails;
\* the server's derivations end. Nothing is assumed of the user.
FrontendFairness ==
  /\ WF_frontendVars(HashStep) /\ WF_frontendVars(AnswerStep) /\ WF_frontendVars(CallStep)
  /\ \A d \in Stored : WF_frontendVars(O!JobEnds(d) /\ UNCHANGED routerVars)
FrontendSpec == FrontendInit /\ [][FrontendNext]_frontendVars /\ FrontendFairness

-----------------------------------------------------------------------------
(* What the user sees *)

\* An overview that is shown is the one of the bundle in the route, with the
\* selection of the location, whoever's answers are still coming.
OverviewIsRoutes ==
  content \in Stored => mounted.panel = "overview" /\ content = mounted.route.digest /\ marked = {sel}
\* A panel ends its loading, or is left.
OverviewSettles == content \in {"loading", "retrying"} ~> content \notin {"loading", "retrying"}
=============================================================================
