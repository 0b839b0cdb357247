------------------------------ MODULE AppRouter ------------------------------
(***************************************************************************)
(* The router of the viewer's page (plateau_rt/viewer/static/js/app.js)    *)
(* over the hash store: a render unmounts the panel, aborts the request of *)
(* the render before it and, for a bundle, asks the server for the bundle; *)
(* the answer may come when the user is already somewhere else. The page   *)
(* has one thread: an action is what runs until the next await.            *)
(***************************************************************************)
EXTENDS HashStore

CONSTANTS
  Hashes,      \* the hashes a user opens
  Stored,      \* the bundles the server has
  Members,     \* the sequence of members of each bundle, [id, kind]
  PanelsOf,    \* panelsForKind: the sequence of panels of each kind
  MaxActions   \* bound on the navigations of the user

Nobody == [panel |-> NoValue, gen |-> 0, route |-> Home]
ASSUME RouterAssumption ==
  /\ \A h \in Hashes : \A f \in DOMAIN h.query : h.query[f] \in Texts[f]
  /\ Stored \subseteq Digests /\ MaxActions \in Nat
  /\ Members \in [Digests -> Seq([id : MemberIds, kind : DOMAIN PanelsOf])]
  /\ \A k \in DOMAIN PanelsOf : PanelsOf[k] \in Seq(PanelIds)

VARIABLES
  generation, controller,  \* controller: the generation of the pending request, or 0
  aborted,                 \* the generations whose signal is aborted
  fetches,                 \* the requests for bundles that are not answered
  mounted,                 \* the mounted panel, or Nobody
  main,                    \* what the page shows
  actions

storeVars == <<loc, route, sel, events>>
renderVars == <<generation, controller, aborted, fetches, mounted, main>>
routerVars == <<storeVars, renderVars, actions>>

Routes == {Home} \cup {InvalidRoute(h) : h \in Hashes}
          \cup {Bundle(d, m, p) : d \in Digests, m \in MemberIds \cup {NoValue}, p \in PanelIds \cup {NoValue}}
Shows == {"blank", "loading", "home", "invalid", "unregistered", "error", "unknown", "empty", "panel"}
View(shows, r, notice) == [shows |-> shows, of |-> r, notice |-> notice]

RouterTypeOK ==
  /\ route \in Routes /\ sel \in States /\ events \in Nat
  /\ generation \in Nat /\ controller \in 0..generation /\ aborted \subseteq 1..generation
  /\ \A f \in fetches : f.gen \in 1..generation /\ f.route \in Routes
  /\ mounted.gen \in 0..generation /\ mounted.route \in Routes
  /\ main.shows \in Shows /\ main.of \in Routes /\ main.notice \in BOOLEAN

-----------------------------------------------------------------------------
(* render: everything up to the first await *)

MountedAs(panel, gen, r) == [panel |-> panel, gen |-> gen, route |-> r]
AbortCurrent == IF controller = 0 THEN aborted ELSE aborted \cup {controller}
\* unmountCurrent, then the view of route r, opened by a link of version v;
\* `left` are the requests that are not answered.
Shown(r, v, left) ==
  LET gen == generation + 1
  IN  /\ generation' = gen
      /\ IF r.name = "bundle"
         THEN /\ controller' = gen /\ mounted' = Nobody /\ main' = View("loading", r, FALSE)
              /\ fetches' = left \cup {[gen |-> gen, route |-> r, version |-> v]}
         ELSE /\ controller' = 0 /\ fetches' = left
              /\ IF r.name = "home"
                 THEN main' = View("home", r, v # 1) /\ mounted' = MountedAs("bundles", gen, r)
                 ELSE main' = View("invalid", r, FALSE) /\ mounted' = Nobody
Render(r, v) == aborted' = AbortCurrent /\ Shown(r, v, fetches)
RenderIfNew == IF route' # route THEN Render(route', Parse(loc').version) ELSE UNCHANGED renderVars

\* init: syncFromLocation renders unless the page starts at home; then init
\* renders, and the request of the first render is aborted.
RouterInit ==
  \E h \in Hashes :
    LET at == Parse(h)
        first == at.route.name # "home"
        gen == IF first THEN 2 ELSE 1
        r == at.route
    IN  /\ loc = h /\ route = r /\ sel = at.state /\ events = 0 /\ actions = 0
        /\ generation = gen /\ aborted = (IF r.name = "bundle" THEN {1} ELSE {})
        /\ controller = (IF r.name = "bundle" THEN gen ELSE 0)
        /\ fetches = (IF r.name = "bundle"
                      THEN {[gen |-> m, route |-> r, version |-> at.version] : m \in 1..gen} ELSE {})
        /\ mounted = (IF r.name = "home" THEN MountedAs("bundles", gen, r) ELSE Nobody)
        /\ main = View(CASE r.name = "home" -> "home" [] r.name = "invalid" -> "invalid"
                         [] OTHER -> "loading", r, FALSE)

-----------------------------------------------------------------------------
(* The user *)

Act == actions < MaxActions /\ actions' = actions + 1
\* A link, the address bar, back and forward: the event comes later.
Follow(h) ==
  /\ Act /\ h # loc /\ Locate(h) /\ UNCHANGED <<route, sel, renderVars>>
HashChange == events > 0 /\ events' = events - 1 /\ Sync /\ RenderIfNew /\ UNCHANGED <<actions>>
NavigateTo(r, s, replace) == Navigate(r, s, replace) /\ RenderIfNew
ShowsHeader == main.shows = "panel" \/ (main.shows = "empty" /\ Members[main.of.digest] # <<>>)
ChooseMember ==
  /\ Act /\ ShowsHeader /\ Len(Members[main.of.digest]) > 1
  /\ \E n \in DOMAIN Members[main.of.digest] :
       NavigateTo(Bundle(main.of.digest, Members[main.of.digest][n].id, NoValue), Default, FALSE)
KindOf(d, m) == LET n == CHOOSE i \in DOMAIN Members[d] : Members[d][i].id = m IN Members[d][n].kind
ChooseTab ==
  /\ Act /\ main.shows = "panel"
  /\ LET tabs == PanelsOf[KindOf(main.of.digest, main.of.member)]
     IN  \E n \in DOMAIN tabs : NavigateTo([main.of EXCEPT !.panel = tabs[n]], sel, FALSE)
\* A panel's store.set, which no bound counts.
Select(s) == Set(s) /\ UNCHANGED <<renderVars, actions>>

-----------------------------------------------------------------------------
(* renderBundle after its await *)

\* Mutant: an answer is used whenever it comes.
AnyAnswer(f) == TRUE
Awaited(f) == f.gen = generation /\ f.gen \notin aborted
Late(f) == ~Awaited(f) /\ fetches' = fetches \ {f}
           /\ UNCHANGED <<storeVars, generation, controller, aborted, mounted, main, actions>>
Answered(f, view) ==
  /\ Awaited(f) /\ fetches' = fetches \ {f} /\ controller' = 0 /\ main' = view
  /\ UNCHANGED <<storeVars, generation, aborted, mounted, actions>>
Unregistered(f) == f.route.digest \notin Stored /\ Answered(f, View("unregistered", f.route, FALSE))
RequestFails(f) == Answered(f, View("error", f.route, FALSE))

HasPanel(m) == PanelsOf[m.kind] # <<>>
\* The member a route means: its own, or the first one that has a panel.
Chosen(r) ==
  LET ms == Members[r.digest]
      at == {n \in DOMAIN ms : IF r.member # NoValue THEN ms[n].id = r.member ELSE HasPanel(ms[n])}
  IN  IF at # {} THEN {ms[CHOOSE n \in at : \A m \in at : n <= m]}
      ELSE IF r.member = NoValue /\ ms # <<>> THEN {ms[1]} ELSE {}
PanelOf(r, m) ==
  LET ps == PanelsOf[m.kind]
  IN  IF \E n \in DOMAIN ps : ps[n] = r.panel THEN r.panel
      ELSE IF ps = <<>> THEN NoValue ELSE ps[1]
Canonical(r) == LET m == CHOOSE c \in Chosen(r) : TRUE IN Bundle(r.digest, m.id, PanelOf(r, m))
Found(f) == f.route.digest \in Stored /\ Awaited(f)
NoMember(f) ==
  /\ Found(f) /\ Chosen(f.route) = {}
  /\ Answered(f, View(IF f.route.member # NoValue THEN "unknown" ELSE "empty", f.route, FALSE))
\* The rest of the route is filled in, and rendered again.
Redirect(f) ==
  /\ Found(f) /\ Chosen(f.route) # {} /\ Canonical(f.route) # f.route
  /\ Navigate(Canonical(f.route), sel, TRUE)
  /\ UNCHANGED <<aborted, actions>>
  /\ Shown(route', Parse(loc').version, fetches \ {f})
NoPanel(f) ==
  /\ Found(f) /\ Chosen(f.route) # {} /\ Canonical(f.route) = f.route /\ f.route.panel = NoValue
  /\ Answered(f, View("empty", f.route, f.version # 1))
Mount(f) ==
  /\ Found(f) /\ Chosen(f.route) # {} /\ Canonical(f.route) = f.route /\ f.route.panel # NoValue
  /\ fetches' = fetches \ {f} /\ controller' = 0
  /\ mounted' = MountedAs(f.route.panel, f.gen, f.route)
  /\ main' = View("panel", f.route, f.version # 1)
  /\ UNCHANGED <<storeVars, generation, aborted, actions>>

AnswerNext ==
  \E f \in fetches : \/ Late(f) \/ Unregistered(f) \/ RequestFails(f) \/ NoMember(f)
                     \/ Redirect(f) \/ NoPanel(f) \/ Mount(f)
UserNext == \/ \E h \in Hashes : Follow(h)
            \/ ChooseMember \/ ChooseTab
RouterNext == UserNext \/ HashChange \/ AnswerNext

-----------------------------------------------------------------------------
(* What the router promises *)

Settled == events = 0 /\ ~\E f \in fetches : Awaited(f)
\* The page, the store and the location agree once nothing is under way,
\* whatever came late: the route is the location's, what is shown is the
\* route's, and the mounted panel is the one that is shown.
Fits(r) ==
  CASE r.name = "home" -> main.shows = "home"
    [] r.name = "invalid" -> main.shows = "invalid"
    [] OTHER -> main.shows \notin {"home", "invalid", "blank", "loading"}
PageIsLocation ==
  Settled =>
    /\ Parse(loc).route = route /\ Parse(loc).state = sel
    /\ main.of = route /\ Fits(route)
    /\ mounted.panel # NoValue => mounted.route = route /\ main.shows \in {"home", "panel"}
=============================================================================
