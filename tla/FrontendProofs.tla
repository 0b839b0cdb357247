---------------------------- MODULE FrontendProofs ----------------------------
(***************************************************************************)
(* Proofs about the page, for any names, bundles, hashes and bounds: its   *)
(* types, that a page at rest is what the location says, and that a shown  *)
(* overview is always that of the route.                                   *)
(*                                                                         *)
(* The invariant has five parts. The store is what the location says when  *)
(* no event is queued. The signals of renders that are over are aborted,   *)
(* that of the last one never is. At most one request counts, that of the  *)
(* last render of a bundle, and it is there as long as the page is         *)
(* loading. What is shown is of the route. What is mounted is of the route *)
(* and of the last render. The overview adds that a call is made by the    *)
(* mounted panel or shows nothing, under a number of its own.              *)
(*                                                                         *)
(* About the home panel, for any bundles and any number of mounts and      *)
(* commands: its types, whose refresh is scheduled, and that an upload can *)
(* be started when none is under way.                                      *)
(***************************************************************************)
EXTENDS Frontend, BundlesPanel, SequenceTheorems, WellFoundedInduction, TLAPS

-----------------------------------------------------------------------------
(* Hashes: what is written reads back *)

\* A segment is absent, no name, or one of the names that are looked for.
LEMMA PartIsName ==
  ASSUME NEW path, NEW n, NEW names
  PROVE  Part(path, n, names) \in names \cup {NoValue, Invalid}
BY DEF Part, Decoded

\* The value a field has when the hash does not mention it.
LEMMA DefaultIsValue == ASSUME NEW f \in Fields PROVE Default[f] \in Values[f]
<1>1. CASE f = "view" BY <1>1 DEF Default, Fields, Values
<1>2. CASE f = "hemisphere" BY <1>2 DEF Default, Fields, Values
<1>3. CASE f = "path" BY <1>3 DEF Default, Fields, Values
<1>4. CASE f = "pixel" BY <1>4 DEF Default, Fields, Values
<1> QED BY <1>1, <1>2, <1>3, <1>4 DEF Fields

\* The values that a query means are values of the store.
LEMMA ParsedStateIsState ==
  ASSUME NEW query, \A f \in DOMAIN query : query[f] \in Texts[f]
  PROVE  ParsedState(query) \in States
<1>1. ASSUME NEW f \in Fields, f \in DOMAIN query
      PROVE  Value(f, query[f]) \in Values[f] \cup {Invalid}
  <2>1. CASE f = "view" BY <2>1, <1>1 DEF Value, Values, Texts
  <2>2. CASE f = "hemisphere" BY <2>2, <1>1 DEF Value, Values, Texts
  <2>3. CASE f = "path" BY <2>3, <1>1 DEF Value, Values, Texts, Ints
  <2>4. CASE f = "pixel" BY <2>4, <1>1 DEF Value, Values, Texts
  <2> QED BY <2>1, <2>2, <2>3, <2>4 DEF Fields
<1>2. ASSUME NEW f \in Fields PROVE ParsedState(query)[f] \in Values[f]
  BY <1>1, DefaultIsValue DEF ParsedState
<1>3. ParsedState(query) \in [Fields -> UNION {Values[f] : f \in Fields}]
  BY <1>2 DEF ParsedState
<1> QED BY <1>2, <1>3 DEF States

\* The state of a hash without a query.
LEMMA DefaultIsState == Default \in States
BY DefaultIsValue DEF States, Default

\* Any hash of the address bar is a route and a state.
LEMMA ParseIsRoute ==
  ASSUME NEW h \in Hashes
  PROVE  Parse(h).route \in Routes /\ Parse(h).state \in States
<1> DEFINE d == Part(h.path, 2, Digests)
           m == Part(h.path, 3, MemberIds)
           p == Part(h.path, 4, PanelIds)
<1>1. d \in Digests \cup {NoValue, Invalid} /\ m \in MemberIds \cup {NoValue, Invalid}
      /\ p \in PanelIds \cup {NoValue, Invalid}
  BY PartIsName
<1>2. CASE Len(h.path) < 2 \/ h.path[1] # "b"
  BY <1>2, DefaultIsState DEF Parse, Routes
<1>3. CASE ~(Len(h.path) < 2 \/ h.path[1] # "b") /\ (Len(h.path) > 4 \/ Invalid \in {d, m, p})
  BY <1>3, DefaultIsState DEF Parse, Routes
<1>4. CASE ~(Len(h.path) < 2 \/ h.path[1] # "b") /\ ~(Len(h.path) > 4 \/ Invalid \in {d, m, p})
  <2>1. d # NoValue
    BY <1>4, HashAssumption DEF Part, Decoded, Names
  <2>2. Bundle(d, m, p) \in Routes
    BY <1>1, <1>4, <2>1 DEF Routes
  <2>3. Parse(h).route = Bundle(d, m, p) /\ Parse(h).state = ParsedState(h.query)
    BY <1>4 DEF Parse
  <2> QED BY <2>2, <2>3, ParsedStateIsState, RouterAssumption
<1> QED BY <1>2, <1>3, <1>4

\* A state, field by field.
LEMMA StateIsFunction ==
  ASSUME NEW s \in States
  PROVE  s = [f \in Fields |-> s[f]] /\ \A f \in Fields : s[f] \in Values[f]
BY DEF States

\* The query that navigate and set write reads back as the state it was written
\* from: what is left out is what the reader fills in.
LEMMA WrittenState ==
  ASSUME NEW s \in States, NEW r, r.name # "home"
  PROVE  ParsedState(Format(r, s).query) = s
<1> DEFINE q == Format(r, s).query
<1>1. q = [p \in {f \in Fields : s[f] # Default[f]} \cup {"v"} |-> IF p = "v" THEN "1" ELSE s[p]]
  BY DEF Format
<1>2. ASSUME NEW f \in Fields PROVE f \in DOMAIN q <=> s[f] # Default[f]
  BY <1>1, <1>2 DEF Fields
<1>3. ASSUME NEW f \in Fields, s[f] # Default[f] PROVE q[f] = s[f]
  BY <1>1, <1>3 DEF Fields
<1>4. ASSUME NEW f \in Fields, s[f] # Default[f] PROVE Value(f, s[f]) = s[f] /\ s[f] # Invalid
  <2>0. s[f] \in Values[f] BY StateIsFunction
  <2>1. CASE f = "view" BY <2>0, <2>1, <1>4 DEF Value, Values, Default, NoValue, Invalid
  <2>2. CASE f = "hemisphere" BY <2>0, <2>2, <1>4 DEF Value, Values, Default, Invalid
  <2>3. CASE f = "path" BY <2>0, <2>3, <1>4 DEF Value, Values, Default, Ints, NoValue, Invalid
  <2>4. CASE f = "pixel" BY <2>0, <2>4, <1>4 DEF Value, Values, Default, NoValue, Invalid
  <2> QED BY <2>1, <2>2, <2>3, <2>4 DEF Fields
<1> HIDE DEF q
<1>5. ASSUME NEW f \in Fields
      PROVE  (IF f \in DOMAIN q /\ Value(f, q[f]) # Invalid THEN Value(f, q[f]) ELSE Default[f]) = s[f]
  BY <1>2, <1>3, <1>4
<1>6. ParsedState(q) = [f \in Fields |-> s[f]]
  BY <1>5 DEF ParsedState
<1> QED BY <1>6, StateIsFunction DEF q

\* The hash that navigate and set write for a bundle reads back as its route and
\* its state, whatever the names (state.js: formatHash, then parseHash).
THEOREM WrittenRoute ==
  ASSUME NEW d \in Digests, NEW m \in MemberIds, NEW p \in PanelIds \cup {NoValue}, NEW s \in States
  PROVE  Parse(Format(Bundle(d, m, p), s)).route = Bundle(d, m, p)
         /\ Parse(Format(Bundle(d, m, p), s)).state = s
<1> DEFINE r == Bundle(d, m, p)
           path == Format(r, s).path
<1>1. m # NoValue /\ d # Invalid /\ m # Invalid /\ p # Invalid
  BY HashAssumption DEF Names, NoValue, Invalid
<1>2. path = <<"b", d>> \o (IF p = NoValue THEN <<m>> ELSE <<m>> \o <<p>>)
  <2>1. <<m>> \o <<>> = <<m>>
    OBVIOUS
  <2> QED BY <1>1, <2>1 DEF Format, Bundle
<1> HIDE DEF path
<1> DEFINE S == {"b", d, m, p}
<1>6. <<"b", d>> \in Seq(S) /\ <<m>> \in Seq(S) /\ <<p>> \in Seq(S)
  OBVIOUS
<1>7. /\ Len(path) = IF p = NoValue THEN 3 ELSE 4
      /\ path[1] = "b" /\ path[2] = d /\ path[3] = m /\ (p # NoValue => path[4] = p)
  <2>1. <<m>> \o <<p>> \in Seq(S) /\ Len(<<m>> \o <<p>>) = 2
        /\ (<<m>> \o <<p>>)[1] = m /\ (<<m>> \o <<p>>)[2] = p
    BY <1>6, ConcatProperties
  <2>2. CASE p = NoValue BY <1>2, <1>6, <2>2, ConcatProperties
  <2>3. CASE p # NoValue BY <1>2, <1>6, <2>1, <2>3, ConcatProperties
  <2> QED BY <2>2, <2>3
<1>3. path[1] = "b" /\ Part(path, 2, Digests) = d /\ Part(path, 3, MemberIds) = m
      /\ Part(path, 4, PanelIds) = p
  BY <1>1, <1>7, HashAssumption DEF Part, Decoded, Names
<1>4. Parse(Format(r, s)).route = Bundle(d, m, p)
      /\ Parse(Format(r, s)).state = ParsedState(Format(r, s).query)
  <2> DEFINE h == Format(r, s)
  <2>1. h.path = path
    BY DEF path
  <2> HIDE DEF h
  <2>2. Part(h.path, 2, Digests) = d /\ Part(h.path, 3, MemberIds) = m
        /\ Part(h.path, 4, PanelIds) = p /\ h.path[1] = "b"
    BY <1>3, <2>1
  <2>3. ~(Len(h.path) < 2) /\ ~(Len(h.path) > 4)
    <3>1. Len(path) = 3 \/ Len(path) = 4
      BY <1>7
    <3>2. Len(h.path) = Len(path)
      BY <2>1
    <3>3. \A k : k = 3 \/ k = 4 => ~(k < 2) /\ ~(k > 4)
      OBVIOUS
    <3> QED BY <3>1, <3>2, <3>3
  <2>4. ~(Invalid \in {d, m, p})
    BY <1>1
  <2>5. Parse(h).route = Bundle(d, m, p) /\ Parse(h).state = ParsedState(h.query)
    BY <2>2, <2>3, <2>4 DEF Parse
  <2> QED BY <2>5 DEF h
<1>5. r.name # "home" BY DEF Bundle
<1> QED BY <1>4, <1>5, WrittenState

-----------------------------------------------------------------------------
(* The store and the location *)

\* The store: it agrees with the location unless an event is queued.
HashInv ==
  /\ Parse(loc).route \in Routes /\ Parse(loc).state \in States
  /\ route \in Routes /\ sel \in States /\ events \in Nat
  /\ events = 0 => Parse(loc).route = route /\ Parse(loc).state = sel

\* After navigate the store is what the location says.
LEMMA Navigated ==
  ASSUME HashInv, NEW d \in Digests, NEW m \in MemberIds, NEW p \in PanelIds \cup {NoValue},
         NEW s \in States, NEW replace, Navigate(Bundle(d, m, p), s, replace)
  PROVE  HashInv' /\ route' = Bundle(d, m, p) /\ sel' = s
<1>1. loc' = Format(Bundle(d, m, p), s) /\ route' = Bundle(d, m, p) /\ sel' = s
  BY DEF Navigate, Locate, Replace
<1>2. events' \in Nat
  BY DEF Navigate, Locate, Replace, HashInv
<1>3. Bundle(d, m, p) \in Routes
  BY DEF Routes
<1>4. Parse(loc').route = route' /\ Parse(loc').state = sel'
  BY <1>1, WrittenRoute
<1> QED BY <1>1, <1>2, <1>3, <1>4 DEF HashInv

\* After set on a bundle the store is what the location says.
LEMMA Selected ==
  ASSUME HashInv, NEW d \in Digests, NEW m \in MemberIds, NEW p \in PanelIds \cup {NoValue},
         route = Bundle(d, m, p), NEW s \in States, Set(s)
  PROVE  HashInv' /\ route' = route /\ sel' = s
<1>1. loc' = Format(Bundle(d, m, p), s) /\ route' = route /\ sel' = s /\ events' = events
  BY DEF Set, Replace
<1>4. Parse(loc').route = route' /\ Parse(loc').state = sel'
  BY <1>1, WrittenRoute
<1> QED BY <1>1, <1>4 DEF HashInv

\* A link moves the location and queues the event that the store has yet to see.
LEMMA Followed ==
  ASSUME HashInv, NEW h \in Hashes, Follow(h)
  PROVE  HashInv' /\ route' = route /\ sel' = sel
<1>1. loc' = h /\ events' = events + 1 /\ route' = route /\ sel' = sel
  BY DEF Follow, Locate
<1> QED BY <1>1, ParseIsRoute DEF HashInv

\* After the event the store is what the location says.
LEMMA Synced ==
  ASSUME HashInv, HashChange
  PROVE  HashInv' /\ route' \in Routes
BY DEF HashInv, HashChange, Sync

-----------------------------------------------------------------------------
(* Members and panels of a bundle *)

\* A set of positions that is not empty has a first one.
LEMMA LeastPosition ==
  ASSUME NEW S, S \subseteq Nat, S # {}
  PROVE  \E n \in S : \A k \in S : n <= k
<1>1. PICK n \in S : \A k \in S : ~(<<k, n>> \in OpToRel(<, Nat))
  BY WFMin, NatLessThanWellFounded
<1>2. \A k \in S : ~(k < n)
  BY <1>1 DEF OpToRel
<1> QED BY <1>2

\* The chosen member is one of the bundle's.
LEMMA ChosenIsMember ==
  ASSUME NEW r, r.digest \in Digests, NEW m \in Chosen(r)
  PROVE  /\ \E n \in DOMAIN Members[r.digest] : m = Members[r.digest][n]
         /\ m.id \in MemberIds /\ m.kind \in DOMAIN PanelsOf
<1> DEFINE ms == Members[r.digest]
           at == {n \in DOMAIN ms : IF r.member # NoValue THEN ms[n].id = r.member ELSE HasPanel(ms[n])}
           T == [id : MemberIds, kind : DOMAIN PanelsOf]
<1>1. ms \in Seq(T)
  BY RouterAssumption
<1> HIDE DEF T
<1>2. DOMAIN ms \subseteq Nat /\ (ms # <<>> => 1 \in DOMAIN ms) /\ \A n \in DOMAIN ms : ms[n] \in T
  BY <1>1, LenProperties, EmptySeq
<1>3. \E n \in DOMAIN ms : m = ms[n]
  <2>1. CASE at # {}
    <3>1. at \subseteq Nat
      BY <1>2
    <3>2. \E n \in at : \A k \in at : n <= k
      BY <2>1, <3>1, LeastPosition
    <3>3. m = ms[CHOOSE n \in at : \A k \in at : n <= k]
      BY <2>1 DEF Chosen
    <3> QED BY <3>2, <3>3
  <2>2. CASE at = {}
    BY <2>2, <1>2 DEF Chosen
  <2> QED BY <2>1, <2>2
<1> QED BY <1>2, <1>3 DEF T

\* The panel of a route: one of its member, or none.
LEMMA PanelIsKnown ==
  ASSUME NEW r, NEW m, m.kind \in DOMAIN PanelsOf
  PROVE  PanelOf(r, m) \in PanelIds \cup {NoValue}
<1> DEFINE ps == PanelsOf[m.kind]
<1>1. ps \in Seq(PanelIds)
  BY RouterAssumption
<1>2. (ps # <<>> => 1 \in DOMAIN ps) /\ \A n \in DOMAIN ps : ps[n] \in PanelIds
  BY <1>1, LenProperties, EmptySeq
<1> QED BY <1>2 DEF PanelOf

\* The route a bundle is redirected to names a member of the bundle.
LEMMA CanonicalRoute ==
  ASSUME NEW r, r.digest \in Digests, Chosen(r) # {}
  PROVE  \E n \in DOMAIN Members[r.digest] :
           \E p \in PanelIds \cup {NoValue} :
             /\ Members[r.digest][n].id \in MemberIds
             /\ Canonical(r) = Bundle(r.digest, Members[r.digest][n].id, p)
<1> DEFINE m == CHOOSE c \in Chosen(r) : TRUE
<1>1. m \in Chosen(r)
  OBVIOUS
<1> HIDE DEF m
<1>2. Canonical(r) = Bundle(r.digest, m.id, PanelOf(r, m))
  BY DEF Canonical, m
<1> QED BY <1>1, <1>2, ChosenIsMember, PanelIsKnown

-----------------------------------------------------------------------------
(* The page *)

\* A route that a panel can be mounted for.
Complete(r) ==
  /\ r.name = "bundle" /\ r.digest \in Stored /\ r.panel \in PanelIds
  /\ r.member \in MemberIds
  /\ \E n \in DOMAIN Members[r.digest] : Members[r.digest][n].id = r.member
\* The request of the last render.
Asked(f) == f.gen = generation
FetchInv ==
  /\ \A f \in fetches : f.gen \in 1..generation /\ f.route \in Routes /\ f.route.name = "bundle"
  /\ \A f \in fetches : Asked(f) => f.route = route /\ main.shows = "loading"
  /\ \A f, g \in fetches : f.gen = g.gen => f = g
SignalInv ==
  /\ generation \in Nat \ {0} /\ controller \in 0..generation
  /\ aborted \subseteq 1..(generation - 1)
MainInv ==
  /\ main.of = route /\ main.notice \in BOOLEAN
  /\ route.name = "home" => main.shows = "home"
  /\ route.name = "invalid" => main.shows = "invalid"
  /\ route.name = "bundle" =>
       main.shows \in {"loading", "unregistered", "error", "unknown", "empty", "panel"}
  /\ main.shows = "loading" => \E f \in fetches : Asked(f)
  /\ main.shows = "panel" => Complete(route)
MountInv ==
  \/ mounted = Nobody
  \/ /\ mounted.gen = generation /\ mounted.route = route
     /\ \/ main.shows = "home" /\ mounted.panel = "bundles"
        \/ main.shows = "panel" /\ mounted.panel = route.panel
RouterInv == HashInv /\ SignalInv /\ FetchInv /\ MainInv /\ MountInv

\* What a step of the router does to the panel.
Stays == UNCHANGED <<mounted, generation>>
Leaves ==
  /\ generation' = generation + 1 /\ mounted'.panel # "overview"
  /\ mounted' = mounted => mounted = Nobody
Mounts ==
  /\ mounted = Nobody /\ mounted'.panel # NoValue /\ generation' = generation
  /\ mounted'.gen = generation /\ mounted'.route.digest \in Stored

\* What the names of routes say of their fields.
LEMMA RouteNames ==
  ASSUME NEW r \in Routes
  PROVE  /\ r.name \in {"home", "invalid", "bundle"}
         /\ r.name = "bundle" =>
              \E d \in Digests, m \in MemberIds \cup {NoValue}, p \in PanelIds \cup {NoValue} :
                r = Bundle(d, m, p) /\ r.digest = d /\ r.member = m /\ r.panel = p
BY DEF Routes, Home, InvalidRoute, Bundle

\* A render: no request of an earlier one is asked for any more, the panel is gone,
\* and a bundle has one request of its own.
LEMMA ShownStep ==
  ASSUME RouterInv, NEW r \in Routes, NEW v, NEW left, left \subseteq fetches,
         Shown(r, v, left), route' = r, aborted' \subseteq 1..generation
  PROVE  SignalInv' /\ FetchInv' /\ MainInv' /\ MountInv' /\ Leaves
<1> DEFINE new == [gen |-> generation + 1, route |-> r, version |-> v]
<1>0. generation \in Nat /\ generation' = generation + 1
  BY DEF Shown, RouterInv, SignalInv
<1>1. \A f \in left : f.gen \in 1..generation /\ f.route \in Routes /\ f.route.name = "bundle"
  BY DEF RouterInv, FetchInv
<1>2. \A f, g \in left : f.gen = g.gen => f = g
  BY DEF RouterInv, FetchInv
<1>3. \A f \in left : f.gen # generation + 1
  BY <1>0, <1>1
<1>4. mounted = Nobody \/ mounted.gen = generation
  BY DEF RouterInv, MountInv
<1>5. SignalInv'
  <2>1. controller' \in {0, generation'}
    BY <1>0 DEF Shown
  <2>2. generation' - 1 = generation
    BY <1>0
  <2> QED BY <1>0, <2>1, <2>2 DEF SignalInv
<1>6. CASE r.name = "bundle"
  <2>1. mounted' = Nobody /\ main' = View("loading", r, FALSE) /\ fetches' = left \cup {new}
    BY <1>6 DEF Shown
  <2>2. FetchInv'
    BY <2>1, <1>0, <1>1, <1>2, <1>3, <1>6 DEF FetchInv, Asked, View
  <2>3. MainInv'
    <3>1. \E f \in fetches' : f.gen = generation'
      <4>1. new \in fetches' /\ new.gen = generation'
        BY <2>1, <1>0
      <4> QED BY <4>1
    <3>2. main'.of = r /\ main'.shows = "loading" /\ main'.notice = FALSE
      BY <2>1 DEF View
    <3> QED BY <3>1, <3>2, <1>6 DEF MainInv, Asked
  <2> QED BY <1>0, <1>5, <2>1, <2>2, <2>3 DEF MountInv, Leaves, Nobody, NoValue
<1>7. CASE r.name # "bundle"
  <2>0. r.name \in {"home", "invalid"}
    BY <1>7, RouteNames
  <2>1. fetches' = left
    BY <1>7 DEF Shown
  <2>2. FetchInv'
    BY <2>1, <1>0, <1>1, <1>2, <1>3 DEF FetchInv, Asked
  <2>3. CASE r.name = "home"
    <3>1. main' = View("home", r, v # 1) /\ mounted' = MountedAs("bundles", generation + 1, r)
      BY <2>3 DEF Shown
    <3>2. MainInv'
      BY <3>1, <2>3 DEF MainInv, View
    <3>3. mounted' # mounted
      BY <3>1, <1>0, <1>4 DEF MountedAs, Nobody, NoValue
    <3> QED BY <1>0, <1>5, <2>2, <3>1, <3>2, <3>3 DEF MountInv, Leaves, MountedAs, View
  <2>4. CASE r.name = "invalid"
    <3>1. main' = View("invalid", r, FALSE) /\ mounted' = Nobody
      BY <2>4 DEF Shown
    <3>2. MainInv'
      BY <3>1, <2>4 DEF MainInv, View
    <3> QED BY <1>0, <1>5, <2>2, <3>1, <3>2 DEF MountInv, Leaves, Nobody, NoValue
  <2> QED BY <2>0, <2>3, <2>4
<1> QED BY <1>6, <1>7

ViewInv == SignalInv /\ FetchInv /\ MainInv /\ MountInv
PanelStep == Stays \/ Leaves \/ Mounts

\* A step that leaves the page and the route alone.
LEMMA ViewUnchanged ==
  ASSUME ViewInv, UNCHANGED <<renderVars, route>>
  PROVE  ViewInv' /\ Stays
BY DEF ViewInv, SignalInv, FetchInv, MainInv, MountInv, Asked, Complete, Stays, renderVars

\* The page is rendered exactly when the route changes.
LEMMA RenderIfNewStep ==
  ASSUME RouterInv, route' \in Routes, RenderIfNew
  PROVE  ViewInv' /\ (Leaves \/ (Stays /\ route' = route))
<1>1. CASE route' # route
  <2>1. aborted' = AbortCurrent /\ Shown(route', Parse(loc').version, fetches)
    BY <1>1 DEF RenderIfNew, Render
  <2>2. aborted' \subseteq 1..generation
    BY <2>1 DEF AbortCurrent, RouterInv, SignalInv
  <2>3. PICK r \in Routes : r = route'
    OBVIOUS
  <2>4. PICK v : v = Parse(loc').version
    OBVIOUS
  <2>5. Shown(r, v, fetches) /\ fetches \subseteq fetches /\ route' = r
    BY <2>1, <2>3, <2>4
  <2> QED BY <2>2, <2>5, ShownStep DEF ViewInv
<1>2. CASE route' = route
  BY <1>2, ViewUnchanged DEF RenderIfNew, ViewInv, RouterInv
<1> QED BY <1>1, <1>2

\* The header with the members is that of the bundle in the route.
LEMMA HeaderRoute ==
  ASSUME RouterInv, ShowsHeader
  PROVE  route.name = "bundle" /\ main.of = route /\ route.digest \in Digests
<1>1. route.name \in {"home", "invalid", "bundle"} /\ main.of = route
  BY RouteNames DEF RouterInv, HashInv, MainInv
<1>2. route.name = "bundle"
  BY <1>1 DEF RouterInv, MainInv, ShowsHeader
<1> QED BY <1>1, <1>2, RouteNames DEF RouterInv, HashInv

\* Members of bundles have ids and kinds.
LEMMA MembersAreKnown ==
  ASSUME NEW d \in Digests, NEW n \in DOMAIN Members[d]
  PROVE  Members[d][n].id \in MemberIds /\ Members[d][n].kind \in DOMAIN PanelsOf
<1> DEFINE T == [id : MemberIds, kind : DOMAIN PanelsOf]
<1>1. Members[d] \in Seq(T)
  BY RouterAssumption
<1> HIDE DEF T
<1>2. Members[d][n] \in T
  BY <1>1, LenProperties
<1> QED BY <1>2 DEF T

\* Another member of the bundle.
LEMMA ChooseMemberStep ==
  ASSUME RouterInv, ChooseMember PROVE RouterInv' /\ PanelStep
<1>1. main.of.digest \in Digests
  BY HeaderRoute DEF ChooseMember
<1>2. PICK n \in DOMAIN Members[main.of.digest] :
        NavigateTo(Bundle(main.of.digest, Members[main.of.digest][n].id, NoValue), Default, FALSE)
  BY DEF ChooseMember
<1>3. Members[main.of.digest][n].id \in MemberIds
  BY <1>1, MembersAreKnown
<1>4. HashInv' /\ route' \in Routes
  BY <1>1, <1>2, <1>3, Navigated, DefaultIsState DEF NavigateTo, RouterInv, HashInv
<1>5. RenderIfNew
  BY <1>2 DEF NavigateTo
<1> QED BY <1>4, <1>5, RenderIfNewStep DEF RouterInv, ViewInv, PanelStep

\* Another panel of the member.
LEMMA ChooseTabStep ==
  ASSUME RouterInv, ChooseTab PROVE RouterInv' /\ PanelStep
<1> DEFINE d == route.digest
           m == route.member
           k == KindOf(d, m)
<1>1. main.of = route /\ Complete(route) /\ route \in Routes /\ sel \in States
  BY DEF ChooseTab, RouterInv, MainInv, HashInv
<1>2. d \in Digests /\ m \in MemberIds /\ route = Bundle(d, m, route.panel)
  BY <1>1, RouteNames, RouterAssumption DEF Complete
<1>3. PICK n \in DOMAIN PanelsOf[k] : NavigateTo([main.of EXCEPT !.panel = PanelsOf[k][n]], sel, FALSE)
  BY <1>1 DEF ChooseTab
<1>4. k \in DOMAIN PanelsOf
  <2>1. \E i \in DOMAIN Members[d] : Members[d][i].id = m
    BY <1>1 DEF Complete
  <2> QED BY <1>2, <2>1, MembersAreKnown DEF KindOf
<1>5. PanelsOf[k][n] \in PanelIds
  <2>1. PanelsOf[k] \in Seq(PanelIds)
    BY <1>4, RouterAssumption
  <2> QED BY <2>1, <1>3, LenProperties
<1>6. [main.of EXCEPT !.panel = PanelsOf[k][n]] = Bundle(d, m, PanelsOf[k][n])
  BY <1>1, <1>2 DEF Bundle
<1>7. HashInv' /\ route' \in Routes
  <2>1. Navigate(Bundle(d, m, PanelsOf[k][n]), sel, FALSE)
    BY <1>3, <1>6 DEF NavigateTo
  <2>2. HashInv'
    BY <1>1, <1>2, <1>5, <2>1, Navigated DEF RouterInv
  <2> QED BY <2>2 DEF HashInv
<1>8. RenderIfNew
  BY <1>3 DEF NavigateTo
<1> QED BY <1>7, <1>8, RenderIfNewStep DEF RouterInv, ViewInv, PanelStep

\* The steps of the user.
LEMMA UserStepKeeps ==
  ASSUME RouterInv, UserNext PROVE RouterInv' /\ PanelStep
<1>1. ASSUME NEW h \in Hashes, Follow(h) PROVE RouterInv' /\ PanelStep
  <2>1. HashInv' /\ UNCHANGED <<renderVars, route>>
    BY <1>1, Followed DEF RouterInv, Follow
  <2> QED BY <2>1, ViewUnchanged DEF RouterInv, ViewInv, PanelStep
<1> QED BY <1>1, ChooseMemberStep, ChooseTabStep DEF UserNext

\* The hashchange event.
LEMMA HashChangeStep ==
  ASSUME RouterInv, HashChange PROVE RouterInv' /\ PanelStep
<1>1. HashInv' /\ route' \in Routes
  BY Synced DEF RouterInv
<1>2. RenderIfNew
  BY DEF HashChange
<1> QED BY <1>1, <1>2, RenderIfNewStep DEF RouterInv, ViewInv, PanelStep

-----------------------------------------------------------------------------
(* Answers *)

\* A step that leaves the store alone.
LEMMA HashUnchanged == ASSUME HashInv, UNCHANGED storeVars PROVE HashInv'
BY DEF HashInv, storeVars

\* The one answer that counts is the one the page waits for: of the route it is at,
\* while nothing is mounted; every other one is late.
LEMMA AwaitedFetch ==
  ASSUME RouterInv, NEW f \in fetches, Awaited(f)
  PROVE  /\ f.route = route /\ main.shows = "loading" /\ mounted = Nobody
         /\ route.name = "bundle" /\ route \in Routes /\ route.digest \in Digests
         /\ \A g \in fetches \ {f} : g.gen # generation
<1>1. f.gen = generation
  BY DEF Awaited
<1>2. f.route = route /\ main.shows = "loading" /\ f.route.name = "bundle" /\ route \in Routes
  BY <1>1 DEF RouterInv, FetchInv, HashInv, Asked
<1>3. mounted = Nobody
  BY <1>2 DEF RouterInv, MountInv
<1>4. \A g \in fetches \ {f} : g.gen # generation
  BY <1>1 DEF RouterInv, FetchInv
<1> QED BY <1>2, <1>3, <1>4, RouteNames

\* With that answer nothing is waited for.
LEMMA FewerFetches ==
  ASSUME RouterInv, NEW f \in fetches, fetches' = fetches \ {f}, Awaited(f),
         UNCHANGED <<generation, route>>
  PROVE  FetchInv'
<1>1. \A g \in fetches' : g.gen # generation
  BY AwaitedFetch
<1> QED BY <1>1 DEF RouterInv, FetchInv, Asked

\* The answers that show a message.
LEMMA AnsweredStep ==
  ASSUME RouterInv, NEW f \in fetches, NEW shows, NEW notice \in BOOLEAN,
         shows \in {"unregistered", "error", "unknown", "empty"},
         Answered(f, View(shows, f.route, notice))
  PROVE  RouterInv' /\ PanelStep
<1>1. f.route = route /\ mounted = Nobody /\ route.name = "bundle"
  BY AwaitedFetch DEF Answered
<1>2. UNCHANGED <<storeVars, route, generation, aborted, mounted>> /\ controller' = 0
      /\ main' = View(shows, f.route, notice)
  BY DEF Answered, storeVars
<1>3. FetchInv'
  BY <1>2, FewerFetches DEF Answered
<1>4. SignalInv'
  BY <1>2 DEF RouterInv, SignalInv
<1>5. MainInv'
  BY <1>1, <1>2 DEF MainInv, View
<1>6. MountInv'
  BY <1>1, <1>2 DEF MountInv
<1> QED BY <1>2, <1>3, <1>4, <1>5, <1>6, HashUnchanged DEF RouterInv, PanelStep, Stays

\* A late answer changes nothing but the requests.
LEMMA LateStep ==
  ASSUME RouterInv, NEW f \in fetches, Late(f) PROVE RouterInv' /\ PanelStep
<1>1. UNCHANGED <<storeVars, route, generation, controller, aborted, mounted, main>>
      /\ fetches' = fetches \ {f}
  BY DEF Late, storeVars
<1>2. f.gen # generation
  BY DEF Late, Awaited, RouterInv, FetchInv, SignalInv
<1>3. FetchInv' /\ SignalInv' /\ MountInv'
  BY <1>1 DEF RouterInv, FetchInv, SignalInv, MountInv, Asked
<1>4. MainInv'
  BY <1>1, <1>2 DEF RouterInv, MainInv, Asked, Complete
<1> QED BY <1>1, <1>3, <1>4, HashUnchanged DEF RouterInv, PanelStep, Stays

\* The answer that fills in the rest of the route.
LEMMA RedirectStep ==
  ASSUME RouterInv, NEW f \in fetches, Redirect(f) PROVE RouterInv' /\ PanelStep
<1>1. f.route = route /\ route.digest \in Digests /\ Chosen(route) # {}
  BY AwaitedFetch DEF Redirect, Found
<1>2. PICK n \in DOMAIN Members[route.digest] :
        \E p \in PanelIds \cup {NoValue} :
          /\ Members[route.digest][n].id \in MemberIds
          /\ Canonical(route) = Bundle(route.digest, Members[route.digest][n].id, p)
  BY <1>1, CanonicalRoute
<1>3. PICK p \in PanelIds \cup {NoValue} :
          /\ Members[route.digest][n].id \in MemberIds
          /\ Canonical(route) = Bundle(route.digest, Members[route.digest][n].id, p)
  BY <1>2
<1>4. PICK m \in MemberIds : m = Members[route.digest][n].id
  BY <1>3
<1>5. PICK d \in Digests : d = route.digest
  BY <1>1
<1>6. PICK s \in States : s = sel
  BY DEF RouterInv, HashInv
<1>7. Navigate(Bundle(d, m, p), s, TRUE)
  BY <1>1, <1>3, <1>4, <1>5, <1>6 DEF Redirect
<1>8. HashInv'
  BY <1>7, Navigated DEF RouterInv
<1>9. PICK r \in Routes : r = route'
  BY <1>8 DEF HashInv
<1>10. PICK v : v = Parse(loc').version
  OBVIOUS
<1>11. Shown(r, v, fetches \ {f}) /\ aborted' \subseteq 1..generation
  BY <1>9, <1>10 DEF Redirect, RouterInv, SignalInv
<1>12. PICK left : left = fetches \ {f}
  OBVIOUS
<1> QED BY <1>8, <1>9, <1>11, <1>12, ShownStep DEF RouterInv, PanelStep

\* The answer that mounts a panel.
LEMMA MountStep ==
  ASSUME RouterInv, NEW f \in fetches, Mount(f) PROVE RouterInv' /\ PanelStep
<1>1. /\ f.route = route /\ mounted = Nobody /\ route.name = "bundle"
      /\ route.digest \in Digests /\ route \in Routes
  BY AwaitedFetch DEF Mount, Found
<1>2. /\ UNCHANGED <<storeVars, route, generation, aborted>> /\ controller' = 0
      /\ main' = View("panel", f.route, f.version # 1) /\ f.gen = generation
      /\ mounted' = MountedAs(f.route.panel, f.gen, f.route)
  BY DEF Mount, storeVars, Found, Awaited
<1>3. FetchInv'
  BY <1>2, FewerFetches DEF Mount, Found
<1>4. SignalInv'
  BY <1>2 DEF RouterInv, SignalInv
<1>5. Complete(route)
  <2>1. /\ route.digest \in Stored /\ Chosen(route) # {} /\ Canonical(route) = route
        /\ route.panel # NoValue
    BY <1>1 DEF Mount, Found
  <2>2. PICK n \in DOMAIN Members[route.digest] :
          \E p \in PanelIds \cup {NoValue} :
            /\ Members[route.digest][n].id \in MemberIds
            /\ route = Bundle(route.digest, Members[route.digest][n].id, p)
    BY <1>1, <2>1, CanonicalRoute
  <2>3. route.member = Members[route.digest][n].id /\ route.member \in MemberIds
    BY <2>2 DEF Bundle
  <2>4. route.panel \in PanelIds
    BY <1>1, <2>1, RouteNames
  <2> QED BY <1>1, <2>1, <2>3, <2>4 DEF Complete
<1>6. MainInv'
  BY <1>1, <1>2, <1>5 DEF MainInv, View, Complete
<1>7. MountInv'
  BY <1>1, <1>2 DEF MountInv, MountedAs, View
<1>8. Mounts
  BY <1>1, <1>2, <1>5 DEF Mounts, MountedAs, Complete, Mount
<1> QED BY <1>2, <1>3, <1>4, <1>6, <1>7, <1>8, HashUnchanged DEF RouterInv, PanelStep

\* The answers.
LEMMA AnswerKeeps ==
  ASSUME RouterInv, AnswerNext PROVE RouterInv' /\ PanelStep
<1>1. PICK f \in fetches : \/ Late(f) \/ Unregistered(f) \/ RequestFails(f) \/ NoMember(f)
                           \/ Redirect(f) \/ NoPanel(f) \/ Mount(f)
  BY DEF AnswerNext
<1>2. CASE Unregistered(f) \/ RequestFails(f)
  BY <1>2, AnsweredStep DEF Unregistered, RequestFails
<1>3. CASE NoMember(f)
  BY <1>3, AnsweredStep DEF NoMember
<1>4. CASE NoPanel(f)
  BY <1>4, AnsweredStep DEF NoPanel
<1> QED BY <1>1, <1>2, <1>3, <1>4, LateStep, RedirectStep, MountStep

\* A click on a row of the overview.
LEMMA SelectKeeps ==
  ASSUME RouterInv, NEW s \in States, Select(s), main.shows = "panel"
  PROVE  RouterInv' /\ Stays
<1>1. route \in Routes /\ Complete(route)
  BY DEF RouterInv, HashInv, MainInv
<1>2. \E d \in Digests, m \in MemberIds, p \in PanelIds \cup {NoValue} : route = Bundle(d, m, p)
  <2>1. route.name = "bundle" /\ route.member \in MemberIds
    BY <1>1 DEF Complete
  <2> QED BY <1>1, <2>1, RouteNames
<1>3. HashInv' /\ route' = route
  BY <1>2, Selected DEF Select, RouterInv
<1>4. ViewInv' /\ Stays
  BY <1>3, ViewUnchanged DEF RouterInv, ViewInv, Select
<1> QED BY <1>3, <1>4 DEF RouterInv, ViewInv

-----------------------------------------------------------------------------
(* The overview panel *)

\* A call is of the mounted panel or shows nothing, and no later panel has its number.
CallInv(c) ==
  /\ c.mount \in 1..generation
  /\ c.mount = host \/ O!Unsignalled(c)
  /\ c.mount = generation => mounted.panel = "overview"
  /\ c.mount = host => c.digest = mounted.route.digest
\* What is shown is of the mounted panel.
OverviewInv ==
  /\ O!OverviewTypeOK
  /\ host = (IF mounted.panel = "overview" THEN mounted.gen ELSE 0)
  /\ \A c \in calls : CallInv(c)
  /\ content \in Stored => content = mounted.route.digest /\ marked = {sel} /\ host # 0

\* A mounted overview is that of the route, and the bundle is stored.
LEMMA MountedOverview ==
  ASSUME RouterInv, mounted.panel = "overview"
  PROVE  /\ mounted.gen = generation /\ mounted.route = route /\ mounted.route.digest \in Stored
         /\ main.shows = "panel" /\ generation \in Nat \ {0}
<1>1. mounted # Nobody /\ mounted.panel # "bundles"
  BY DEF Nobody, NoValue
<1> QED BY <1>1 DEF RouterInv, MountInv, MainInv, Complete, SignalInv

\* The router leaves the panel where it is: a new selection is marked.
LEMMA OverviewStays ==
  ASSUME RouterInv, OverviewInv, Stays, RouterInv', OverviewFollows
  PROVE  OverviewInv'
<1>1. sel' \in States /\ mounted' = mounted /\ generation' = generation
  BY DEF RouterInv, HashInv, Stays
<1>2. CASE mounted.panel = "overview" /\ sel' # sel
  <2>1. O!OverviewUpdate(sel')
    BY <1>1, <1>2 DEF OverviewFollows
  <2> QED BY <1>1, <2>1 DEF OverviewInv, O!OverviewTypeOK, O!OverviewUpdate, CallInv, Selections,
          O!Unsignalled, O!Calls, O!Contents, O!JobStates
<1>3. CASE ~(mounted.panel = "overview" /\ sel' # sel)
  <2>1. UNCHANGED overviewVars
    BY <1>1, <1>3 DEF OverviewFollows
  <2>2. content \in Stored => mounted.panel = "overview"
    BY DEF OverviewInv
  <2>3. content \in Stored => sel' = sel
    BY <1>3, <2>2
  <2> QED BY <1>1, <2>1, <2>3 DEF OverviewInv, O!OverviewTypeOK, CallInv, overviewVars,
          O!Unsignalled
<1> QED BY <1>2, <1>3

\* The page is rendered: the calls of the panel end, but for the file of a retry.
LEMMA OverviewLeaves ==
  ASSUME RouterInv, OverviewInv, Leaves, OverviewFollows
  PROVE  OverviewInv'
<1>0. generation \in Nat /\ generation' = generation + 1 /\ mounted'.panel # "overview"
  BY DEF RouterInv, SignalInv, Leaves
<1>1. CASE mounted.panel = "overview"
  <2>1. mounted' # mounted
    BY <1>1 DEF Leaves, Nobody, NoValue
  <2>2. O!OverviewUnmount
    BY <1>0, <1>1, <2>1 DEF OverviewFollows
  <2>3. host' = 0 /\ content' = NoContent /\ marked' = {} /\ jobs' = jobs
        /\ calls' = {c \in calls : c.mount # host \/ O!Unsignalled(c)}
    BY <2>2 DEF O!OverviewUnmount
  <2>4. \A c \in calls' : CallInv(c)'
    BY <1>0, <2>3 DEF OverviewInv, CallInv, O!Unsignalled
  <2>5. O!OverviewTypeOK'
    BY <2>3 DEF OverviewInv, O!OverviewTypeOK, O!Contents
  <2>6. content' \notin Stored
    BY <2>3, FrontendAssumption
  <2> QED BY <1>0, <2>3, <2>4, <2>5, <2>6 DEF OverviewInv
<1>2. CASE mounted.panel # "overview"
  <2>1. UNCHANGED overviewVars
    BY <1>0, <1>2 DEF OverviewFollows
  <2>2. \A c \in calls' : CallInv(c)'
    BY <1>0, <1>2, <2>1 DEF OverviewInv, CallInv, O!Unsignalled, overviewVars
  <2>3. O!OverviewTypeOK' /\ host' = 0 /\ content' \notin Stored
    BY <1>2, <2>1, FrontendAssumption DEF OverviewInv, O!OverviewTypeOK, overviewVars
  <2> QED BY <1>0, <2>2, <2>3 DEF OverviewInv
<1> QED BY <1>1, <1>2

\* A panel is mounted under a number that no call has.
LEMMA OverviewMounts ==
  ASSUME RouterInv, OverviewInv, Mounts, OverviewFollows
  PROVE  OverviewInv'
<1>0. /\ generation \in Nat \ {0} /\ generation' = generation /\ mounted.panel # "overview"
      /\ mounted' # mounted /\ mounted'.gen = generation /\ mounted'.route.digest \in Stored
  BY DEF RouterInv, SignalInv, Mounts, Nobody, NoValue
<1>1. host = 0 /\ content = NoContent /\ \A c \in calls : c.mount # generation /\ c.mount # 0
  BY <1>0 DEF OverviewInv, CallInv, O!OverviewTypeOK
<1>2. CASE mounted'.panel = "overview"
  <2> DEFINE new == O!NewCall(generation, mounted'.route.digest, FALSE)
  <2>1. O!OverviewMount(generation, mounted'.route.digest)
    BY <1>0, <1>2 DEF OverviewFollows
  <2>2. host' = generation /\ content' = "loading" /\ marked' = {} /\ jobs' = jobs
        /\ calls' = calls \cup {new}
    BY <2>1 DEF O!OverviewMount
  <2>3. new \in O!Calls /\ new.mount = generation /\ new.digest = mounted'.route.digest
    BY <1>0 DEF O!NewCall, O!Calls, O!CallPoints, O!Delays
  <2> HIDE DEF new
  <2>4. \A c \in calls' : CallInv(c)'
    BY <1>0, <1>1, <1>2, <2>2, <2>3 DEF OverviewInv, CallInv, O!Unsignalled
  <2>5. O!OverviewTypeOK'
    BY <1>0, <2>2, <2>3 DEF OverviewInv, O!OverviewTypeOK, O!Contents
  <2>6. content' \notin Stored
    BY <2>2, FrontendAssumption
  <2> QED BY <1>0, <1>2, <2>2, <2>4, <2>5, <2>6 DEF OverviewInv
<1>3. CASE mounted'.panel # "overview"
  <2>1. UNCHANGED overviewVars
    BY <1>0, <1>3 DEF OverviewFollows
  <2>2. \A c \in calls' : CallInv(c)'
    BY <1>0, <1>1, <2>1 DEF OverviewInv, CallInv, O!Unsignalled, overviewVars
  <2>3. O!OverviewTypeOK' /\ host' = 0 /\ content' \notin Stored
    BY <1>1, <2>1, FrontendAssumption DEF OverviewInv, O!OverviewTypeOK, overviewVars
  <2> QED BY <1>3, <2>2, <2>3 DEF OverviewInv
<1> QED BY <1>2, <1>3

\* A call of the mounted panel goes on.
LEMMA CallContinues ==
  ASSUME OverviewInv, UNCHANGED routerVars, NEW c \in calls, c.mount = host, NEW new \in O!Calls,
         new.mount = c.mount, new.digest = c.digest, calls' = (calls \ {c}) \cup {new},
         UNCHANGED <<host, marked>>, jobs' \in [Stored -> O!JobStates],
         content' \in {content, "loading"}
  PROVE  OverviewInv'
<1>1. UNCHANGED <<generation, mounted, sel>>
  BY DEF routerVars, renderVars, storeVars
<1>2. \A e \in calls' : CallInv(e)'
  BY <1>1 DEF OverviewInv, CallInv, O!Unsignalled
<1>3. host # 0
  BY DEF OverviewInv, CallInv
<1>4. "loading" \notin Stored
  BY FrontendAssumption
<1>5. O!OverviewTypeOK'
  BY <1>3 DEF OverviewInv, O!OverviewTypeOK, O!Contents
<1> QED BY <1>1, <1>2, <1>3, <1>4, <1>5 DEF OverviewInv

\* A call ends, and shows something only in the panel that made it.
LEMMA CallEnds ==
  ASSUME OverviewInv, UNCHANGED routerVars, NEW c \in calls, NEW what \in O!Contents,
         NEW s \in SUBSET States,
         what \in Stored => what = c.digest /\ s = {sel}, O!End(c, what, s), jobs' = jobs
  PROVE  OverviewInv'
<1>1. UNCHANGED <<generation, mounted, sel, host>> /\ calls' = calls \ {c}
  BY DEF routerVars, renderVars, storeVars, O!End
<1>2. \A e \in calls' : CallInv(e)'
  BY <1>1 DEF OverviewInv, CallInv, O!Unsignalled
<1>3. CASE c.mount # host
  <2>1. UNCHANGED <<content, marked>>
    BY <1>3 DEF O!End, O!ShowUnlessAborted, O!Aborted
  <2> QED BY <1>1, <1>2, <2>1 DEF OverviewInv, O!OverviewTypeOK
<1>4. CASE c.mount = host
  <2>1. content' = what /\ marked' = s
    BY <1>4 DEF O!End, O!ShowUnlessAborted, O!Aborted
  <2>2. host # 0 /\ c.digest = mounted.route.digest
    BY <1>4 DEF OverviewInv, CallInv
  <2>3. O!OverviewTypeOK'
    BY <1>1, <2>1, <2>2 DEF OverviewInv, O!OverviewTypeOK, Selections
  <2> QED BY <1>1, <1>2, <2>1, <2>2, <2>3 DEF OverviewInv
<1> QED BY <1>3, <1>4

\* A call fails.
LEMMA CallFails ==
  ASSUME OverviewInv, UNCHANGED routerVars, NEW c \in calls, NEW reason, O!Fails(c, reason),
         jobs' = jobs
  PROVE  OverviewInv'
<1> DEFINE what == IF c.retry \/ reason = "derive_failed" THEN "retryable" ELSE "error"
<1>1. O!End(c, what, {})
  BY DEF O!Fails
<1>2. what \in O!Contents /\ what \notin Stored
  BY FrontendAssumption DEF O!Contents
<1> HIDE DEF what
<1> QED BY <1>1, <1>2, CallEnds

\* The delays between two polls.
LEMMA DelayIsDelay == ASSUME NEW n \in O!Delays PROVE O!NextPollDelay(n) \in O!Delays
BY DEF O!Delays, O!NextPollDelay

\* Of the calls of panels that were left only the file of a retry is still answered.
LEMMA CallIsMounted ==
  ASSUME OverviewInv, NEW c \in calls, c.pc # "file" PROVE c.mount = host
BY DEF OverviewInv, CallInv, O!Unsignalled

\* The answers of the server to the calls of a panel.
LEMMA CallKeeps ==
  ASSUME OverviewInv, UNCHANGED routerVars, sel \in States, NEW c \in calls, O!AnswerCall(c, sel)
  PROVE  OverviewInv'
<1>0. c \in O!Calls /\ c.digest \in Stored /\ jobs \in [Stored -> O!JobStates]
  BY DEF OverviewInv, O!OverviewTypeOK, O!Calls
<1>1. ASSUME NEW pc \in O!CallPoints
      PROVE  /\ [c EXCEPT !.pc = pc] \in O!Calls
             /\ [c EXCEPT !.pc = pc].mount = c.mount /\ [c EXCEPT !.pc = pc].digest = c.digest
  BY <1>0 DEF O!Calls
<1>2. CASE O!GetDerived(c)
  <2>1. c.mount = host
    BY <1>2, CallIsMounted DEF O!GetDerived
  <2>2. jobs' \in [Stored -> O!JobStates]
    BY <1>0, <1>2 DEF O!GetDerived, O!Queue, O!JobStates
  <2>3. \E pc \in O!CallPoints : calls' = (calls \ {c}) \cup {[c EXCEPT !.pc = pc]}
    BY <1>2 DEF O!GetDerived, O!Continue, O!CallPoints
  <2>4. UNCHANGED <<host, content, marked>>
    BY <1>2 DEF O!GetDerived
  <2> QED BY <1>1, <2>1, <2>2, <2>3, <2>4, CallContinues
<1>3. CASE O!PostRetry(c)
  <2>1. c.mount = host
    BY <1>3, CallIsMounted DEF O!PostRetry
  <2>2. jobs' \in [Stored -> O!JobStates]
    BY <1>0, <1>3 DEF O!PostRetry, O!JobStates
  <2>3. [c EXCEPT !.pc = "get", !.round = 1] \in O!Calls
        /\ [c EXCEPT !.pc = "get", !.round = 1].mount = c.mount
        /\ [c EXCEPT !.pc = "get", !.round = 1].digest = c.digest
    <3>1. "get" \in O!CallPoints /\ 1 \in 0..3
      BY DEF O!CallPoints
    <3> QED BY <1>0, <3>1 DEF O!Calls
  <2>4. "poll" \in O!CallPoints
    BY DEF O!CallPoints
  <2>5. \E new \in O!Calls : /\ calls' = (calls \ {c}) \cup {new}
                             /\ new.mount = c.mount /\ new.digest = c.digest
    BY <1>1, <1>3, <2>3, <2>4 DEF O!PostRetry, O!Continue
  <2>6. UNCHANGED <<host, content, marked>>
    BY <1>3 DEF O!PostRetry
  <2> QED BY <2>1, <2>2, <2>5, <2>6, CallContinues
<1>4. CASE O!PollActive(c)
  <2>1. c.mount = host
    BY <1>4, CallIsMounted DEF O!PollActive
  <2> DEFINE new == [c EXCEPT !.pc = "sleep", !.delay = O!NextPollDelay(@)]
  <2>2. new \in O!Calls /\ new.mount = c.mount /\ new.digest = c.digest
    <3>1. c.delay \in O!Delays
      BY <1>0 DEF O!Calls
    <3>2. O!NextPollDelay(c.delay) \in O!Delays
      BY <3>1, DelayIsDelay
    <3> QED BY <1>0, <3>2 DEF O!Calls, O!CallPoints
  <2>3. calls' = (calls \ {c}) \cup {new} /\ UNCHANGED <<host, marked, jobs>>
        /\ content' \in {content, "loading"}
    BY <1>4 DEF O!PollActive
  <2> HIDE DEF new
  <2> QED BY <1>0, <2>1, <2>2, <2>3, CallContinues
<1>5. CASE O!PollDone(c) \/ O!Wake(c)
  <2>1. c.mount = host
    BY <1>5, CallIsMounted DEF O!PollDone, O!Wake
  <2>2. \E pc \in O!CallPoints : calls' = (calls \ {c}) \cup {[c EXCEPT !.pc = pc]}
    BY <1>5 DEF O!PollDone, O!Wake, O!Continue, O!CallPoints
  <2>3. UNCHANGED <<host, content, marked, jobs>>
    BY <1>5 DEF O!PollDone, O!Wake
  <2> QED BY <1>0, <1>1, <2>1, <2>2, <2>3, CallContinues
<1>6. CASE O!PollFailed(c)
  BY <1>6, CallFails DEF O!PollFailed
<1>7. CASE O!PollLost(c)
  <2>1. c.mount = host /\ jobs' = jobs
    BY <1>7, CallIsMounted DEF O!PollLost
  <2>2. CASE c.round < 3
    <3> DEFINE new == [c EXCEPT !.pc = "get", !.delay = 0, !.round = @ + 1]
    <3>1. new \in O!Calls /\ new.mount = c.mount /\ new.digest = c.digest
      <4>1. c.round + 1 \in 0..3
        BY <1>0, <2>2 DEF O!Calls
      <4>2. "get" \in O!CallPoints /\ 0 \in O!Delays
        BY DEF O!CallPoints, O!Delays
      <4> QED BY <1>0, <4>1, <4>2 DEF O!Calls
    <3>2. calls' = (calls \ {c}) \cup {new} /\ UNCHANGED <<host, marked, content>>
      BY <1>7, <2>2 DEF O!PollLost
    <3> HIDE DEF new
    <3> QED BY <1>0, <2>1, <3>1, <3>2, CallContinues
  <2>3. CASE ~(c.round < 3)
    BY <1>7, <2>1, <2>3, CallFails DEF O!PollLost
  <2> QED BY <2>2, <2>3
<1>8. CASE O!File(c, sel)
  <2>1. O!End(c, c.digest, {sel}) /\ jobs' = jobs
    BY <1>8 DEF O!File
  <2>2. PICK what \in Stored : what = c.digest
    BY <1>0
  <2>3. PICK s \in SUBSET States : s = {sel}
    OBVIOUS
  <2>4. what \in O!Contents
    BY DEF O!Contents
  <2> QED BY <2>1, <2>2, <2>3, <2>4, CallEnds
<1>9. CASE O!RequestError(c)
  BY <1>9, CallFails DEF O!RequestError
<1> QED BY <1>2, <1>3, <1>4, <1>5, <1>6, <1>7, <1>8, <1>9 DEF O!AnswerCall

\* The Retry button.
LEMMA RetryKeeps ==
  ASSUME RouterInv, OverviewInv, RetryClick PROVE OverviewInv'
<1>1. UNCHANGED <<generation, mounted, sel, jobs, host, marked>> /\ content' = "retrying"
      /\ calls' = calls \cup {O!NewCall(host, mounted.route.digest, TRUE)} /\ content = "retryable"
  BY DEF RetryClick, routerVars, renderVars, storeVars, O!Retry
<1>2. host # 0
  BY <1>1, FrontendAssumption DEF OverviewInv, O!OverviewTypeOK
<1>3. mounted.panel = "overview" /\ host = generation /\ generation \in Nat \ {0}
      /\ mounted.route.digest \in Stored
  BY <1>2, MountedOverview DEF OverviewInv
<1>4. PICK new \in O!Calls : /\ new = O!NewCall(host, mounted.route.digest, TRUE)
                             /\ new.mount = host /\ new.digest = mounted.route.digest
  <2> DEFINE it == O!NewCall(host, mounted.route.digest, TRUE)
  <2>1. it \in O!Calls /\ it.mount = host /\ it.digest = mounted.route.digest
    BY <1>3 DEF O!NewCall, O!Calls, O!CallPoints, O!Delays
  <2> HIDE DEF it
  <2>2. it = O!NewCall(host, mounted.route.digest, TRUE)
    BY DEF it
  <2> QED BY <2>1, <2>2
<1>8. calls' = calls \cup {new}
  BY <1>1, <1>4
<1>5. \A c \in calls' : CallInv(c)'
  <2>1. CallInv(new)'
    <3>1. /\ new.mount = generation' /\ generation' \in 1..generation' /\ new.mount = host'
          /\ mounted'.panel = "overview" /\ new.digest = mounted'.route.digest
      <4>1. generation' = generation /\ mounted' = mounted /\ host' = host
        BY <1>1
      <4>2. generation \in 1..generation
        BY <1>3
      <4> QED BY <1>3, <1>4, <4>1, <4>2
    <3> QED BY <3>1 DEF CallInv
  <2>2. ASSUME NEW c \in calls PROVE CallInv(c)'
    BY <1>1 DEF OverviewInv, CallInv, O!Unsignalled
  <2> QED BY <1>8, <2>1, <2>2
<1>6. O!OverviewTypeOK'
  BY <1>1, <1>2, <1>4, <1>8 DEF OverviewInv, O!OverviewTypeOK, O!Contents
<1>7. "retrying" \notin Stored
  BY FrontendAssumption
<1> QED BY <1>1, <1>5, <1>6, <1>7 DEF OverviewInv

\* The server changes nothing of the page.
LEMMA ServerKeeps ==
  ASSUME OverviewInv, ServerStep PROVE OverviewInv'
<1>1. UNCHANGED <<generation, mounted, sel, host, content, marked, calls>>
  BY DEF ServerStep, routerVars, renderVars, storeVars, O!ServerNext, O!JobEnds, O!ResultLost
<1>2. jobs' \in [Stored -> O!JobStates]
  BY DEF ServerStep, O!ServerNext, O!JobEnds, O!ResultLost, OverviewInv, O!OverviewTypeOK, O!JobStates
<1> QED BY <1>1, <1>2 DEF OverviewInv, O!OverviewTypeOK, CallInv, O!Unsignalled

-----------------------------------------------------------------------------
(* The invariant and what follows from it *)

FrontendInv == RouterInv /\ OverviewInv

\* The page opens at any hash; the request of the first of two renders is aborted.
LEMMA InitRouter == RouterInit => RouterInv
<1> SUFFICES ASSUME RouterInit PROVE RouterInv
  OBVIOUS
<1>1. PICK h \in Hashes :
    LET at == Parse(h)
        first == at.route.name # "home"
        gen == IF first THEN 2 ELSE 1
        r == at.route
    IN  /\ loc = h /\ route = r /\ sel = at.state /\ events = 0 /\ actions = 0
        /\ generation = gen /\ aborted = (IF r.name = "bundle" THEN {1} ELSE {})
        /\ controller = (IF r.name = "bundle" THEN gen ELSE 0)
        /\ fetches = (IF r.name = "bundle"
                      THEN {[gen |-> m, route |-> r, version |-> at.version] : m \in 1..gen} ELSE {})
        /\ mounted = (IF r.name = "home" THEN MountedAs("bundles", gen, r) ELSE Nobody)
        /\ main = View(CASE r.name = "home" -> "home" [] r.name = "invalid" -> "invalid"
                         [] OTHER -> "loading", r, FALSE)
  BY DEF RouterInit
<1>2. HashInv
  BY <1>1, ParseIsRoute DEF HashInv
<1>3. route.name \in {"home", "invalid", "bundle"} /\ main.of = route /\ main.notice = FALSE
  BY <1>1, <1>2, RouteNames DEF HashInv, View
<1>4. CASE route.name = "bundle"
  <2>1. /\ generation = 2 /\ aborted = {1} /\ controller = 2 /\ mounted = Nobody
        /\ main.shows = "loading"
        /\ fetches = {[gen |-> m, route |-> route, version |-> Parse(h).version] : m \in 1..2}
    BY <1>1, <1>4 DEF View
  <2>2. SignalInv
    BY <2>1 DEF SignalInv
  <2>3. FetchInv
    BY <1>2, <1>4, <2>1 DEF FetchInv, HashInv, Asked
  <2>4. \E f \in fetches : f.gen = generation
    <3>1. [gen |-> 2, route |-> route, version |-> Parse(h).version] \in fetches
      BY <2>1
    <3> QED BY <2>1, <3>1
  <2>5. MainInv /\ MountInv
    BY <1>3, <1>4, <2>1, <2>4 DEF MainInv, MountInv, Asked
  <2> QED BY <1>2, <2>2, <2>3, <2>5 DEF RouterInv
<1>5. CASE route.name # "bundle"
  <2>1. /\ generation \in {1, 2} /\ aborted = {} /\ controller = 0 /\ fetches = {}
        /\ main.shows = route.name
        /\ mounted = (IF route.name = "home" THEN MountedAs("bundles", generation, route) ELSE Nobody)
    BY <1>1, <1>3, <1>5 DEF View
  <2>2. SignalInv /\ FetchInv
    BY <2>1 DEF SignalInv, FetchInv
  <2>3. MainInv
    BY <1>3, <1>5, <2>1 DEF MainInv
  <2>4. MountInv
    BY <1>3, <1>5, <2>1 DEF MountInv, MountedAs
  <2> QED BY <1>2, <2>2, <2>3, <2>4 DEF RouterInv
<1> QED BY <1>4, <1>5

\* It opens without a mounted overview.
LEMMA InitOverview == RouterInv /\ O!OverviewInit => OverviewInv \/ mounted.panel = "overview"
BY FrontendAssumption DEF O!OverviewInit, OverviewInv, O!OverviewTypeOK, O!JobStates, O!Contents

\* Every step of the page keeps the invariant.
LEMMA FrontendStep == FrontendInv /\ [FrontendNext]_frontendVars => FrontendInv'
<1> SUFFICES ASSUME RouterInv, OverviewInv, [FrontendNext]_frontendVars PROVE RouterInv' /\ OverviewInv'
  BY DEF FrontendInv
<1>1. ASSUME RouterInv', PanelStep, OverviewFollows PROVE OverviewInv'
  BY <1>1, OverviewStays, OverviewLeaves, OverviewMounts DEF PanelStep
<1>2. ASSUME UNCHANGED routerVars PROVE RouterInv'
  <2>1. UNCHANGED <<storeVars, renderVars, route>>
    BY <1>2 DEF routerVars, storeVars
  <2> QED BY <2>1, HashUnchanged, ViewUnchanged DEF RouterInv, ViewInv
<1>3. CASE UserStep
  BY <1>1, <1>3, UserStepKeeps DEF UserStep
<1>4. CASE HashStep
  BY <1>1, <1>4, HashChangeStep DEF HashStep
<1>5. CASE AnswerStep
  BY <1>1, <1>5, AnswerKeeps DEF AnswerStep
<1>6. CASE RowClick
  <2>1. content \in Stored /\ OverviewFollows /\ sel \in States
    BY <1>6 DEF RowClick, RouterInv, HashInv
  <2>2. PICK v \in Values.view : Select([sel EXCEPT !.view = v])
    BY <1>6 DEF RowClick
  <2>3. [sel EXCEPT !.view = v] \in States
    BY <2>1, <2>2 DEF States, Fields
  <2>4. mounted.panel = "overview"
    BY <2>1 DEF OverviewInv
  <2>5. main.shows = "panel"
    BY <2>4, MountedOverview
  <2>6. RouterInv' /\ Stays
    BY <2>2, <2>3, <2>5, SelectKeeps
  <2> QED BY <1>1, <2>1, <2>6 DEF PanelStep
<1>7. CASE RetryClick
  BY <1>2, <1>7, RetryKeeps DEF RetryClick
<1>8. CASE CallStep
  <2>1. PICK c \in calls : O!AnswerCall(c, sel)
    BY <1>8 DEF CallStep
  <2> QED BY <1>2, <1>8, <2>1, CallKeeps DEF CallStep, RouterInv, HashInv
<1>9. CASE ServerStep
  BY <1>2, <1>9, ServerKeeps DEF ServerStep
<1>10. CASE UNCHANGED frontendVars
  <2>1. UNCHANGED routerVars /\ UNCHANGED overviewVars
    BY <1>10 DEF frontendVars
  <2>2. UNCHANGED <<generation, mounted, sel>>
    BY <2>1 DEF routerVars, renderVars, storeVars
  <2>3. OverviewInv'
    BY <2>1, <2>2 DEF OverviewInv, O!OverviewTypeOK, CallInv, overviewVars, O!Unsignalled
  <2> QED BY <1>2, <2>1, <2>3
<1> QED BY <1>3, <1>4, <1>5, <1>6, <1>7, <1>8, <1>9, <1>10 DEF FrontendNext

\* The inductive invariant of the page, for every hash, name and bundle, and any
\* number of navigations, answers and losses.
THEOREM FrontendInvariant == FrontendSpec => []FrontendInv
<1>1. FrontendInit => FrontendInv
  <2>1. RouterInv => mounted.panel # "overview" \/ main.shows = "panel"
    BY MountedOverview
  <2>2. RouterInit => main.shows # "panel"
    BY DEF RouterInit, View
  <2> QED BY <2>1, <2>2, InitRouter, InitOverview DEF FrontendInit, FrontendInv
<1> QED BY <1>1, FrontendStep, PTL DEF FrontendSpec

\* The types of the page, its router and its panel.
THEOREM FrontendTypes == FrontendSpec => []FrontendTypeOK
<1>1. ASSUME FrontendInv PROVE FrontendTypeOK
  <2> USE <1>1 DEF FrontendInv
  <2>1. route.name \in {"home", "invalid", "bundle"}
    BY RouteNames DEF RouterInv, HashInv
  <2>2. main.shows \in Shows
    BY <2>1 DEF RouterInv, MainInv, Shows
  <2>3. route \in Routes /\ sel \in States /\ events \in Nat
    BY DEF RouterInv, HashInv
  <2>4. mounted.gen \in 0..generation /\ mounted.route \in Routes
    <3>1. generation \in 0..generation /\ 0 \in 0..generation
      BY DEF RouterInv, SignalInv
    <3>2. Nobody.gen = 0 /\ Nobody.route \in Routes
      BY DEF Nobody, Routes
    <3> QED BY <2>3, <3>1, <3>2 DEF RouterInv, MountInv
  <2>5. RouterTypeOK
    BY <2>2, <2>3, <2>4 DEF RouterInv, SignalInv, FetchInv, MainInv, RouterTypeOK
  <2> QED BY <2>5 DEF FrontendTypeOK, OverviewInv
<1> QED BY <1>1, FrontendInvariant, PTL

\* Once nothing is under way, the location, the store and the page agree, in
\* whatever order answers and events came (app.js: render, renderBundle).
THEOREM PageFollowsLocation == FrontendSpec => []PageIsLocation
<1>1. ASSUME FrontendInv PROVE PageIsLocation
  <2> SUFFICES ASSUME Settled
               PROVE  /\ Parse(loc).route = route /\ Parse(loc).state = sel
                      /\ main.of = route /\ Fits(route)
                      /\ mounted.panel # NoValue =>
                           mounted.route = route /\ main.shows \in {"home", "panel"}
    BY DEF PageIsLocation
  <2> USE <1>1 DEF FrontendInv
  <2>1. Parse(loc).route = route /\ Parse(loc).state = sel
    BY DEF RouterInv, HashInv, Settled
  <2>2. main.shows # "loading"
    <3>1. \A f \in fetches : Asked(f) => Awaited(f)
      BY DEF RouterInv, SignalInv, Asked, Awaited
    <3> QED BY <3>1 DEF Settled, RouterInv, MainInv
  <2>3. main.of = route /\ Fits(route)
    <3>1. route.name \in {"home", "invalid", "bundle"}
      BY RouteNames DEF RouterInv, HashInv
    <3> QED BY <2>2, <3>1 DEF Fits, RouterInv, MainInv
  <2>4. mounted.panel # NoValue => mounted.route = route /\ main.shows \in {"home", "panel"}
    BY DEF RouterInv, MountInv, Nobody
  <2> QED BY <2>1, <2>3, <2>4
<1> QED BY <1>1, FrontendInvariant, PTL

\* At every instant an overview that is shown is that of the bundle in the route,
\* and its rows mark the selection of the store (overview.js: load, update).
THEOREM OverviewFollowsRoute == FrontendSpec => []OverviewIsRoutes
<1>1. ASSUME FrontendInv PROVE OverviewIsRoutes
  BY <1>1 DEF FrontendInv, OverviewInv, OverviewIsRoutes
<1> QED BY <1>1, FrontendInvariant, PTL
-----------------------------------------------------------------------------
(* The home panel *)

\* What is proved together: each part keeps the next.
PanelInv == BundlesTypeOK /\ TimerIsMounted /\ ButtonComesBack

\* What the type invariant says of the chains and of the timer.
ReloadRecords == [id : 1..reloadCount, mount : 1..mounts, pc : {"asked", "answered", "rows"},
                  left : SUBSET Bundles, pending : SUBSET Bundles]
PollRecords == [table : 0..reloadCount, mount : 1..mounts, left : SUBSET Bundles, still : SUBSET Bundles]
UploadRecords == [digest : Bundles, mount : 1..mounts, pc : {"asked", "stored"}]
TimerRecords == [table : 0..reloadCount, mount : 0..mounts, pending : SUBSET Bundles]

\* The records of the chains, with a field changed.
LEMMA ReloadChanged ==
  ASSUME BundlesTypeOK, NEW r \in reloads, NEW left \in SUBSET Bundles, NEW pending \in SUBSET Bundles
  PROVE  /\ [r EXCEPT !.pc = "answered", !.left = left] \in ReloadRecords
             /\ [r EXCEPT !.pc = "rows"] \in ReloadRecords
             /\ [r EXCEPT !.left = left, !.pending = pending] \in ReloadRecords
BY DEF BundlesTypeOK, ReloadRecords, PollRecords, UploadRecords, TimerRecords

LEMMA PollChanged ==
  ASSUME BundlesTypeOK, NEW p \in polls, NEW left \in SUBSET Bundles, NEW still \in SUBSET Bundles
  PROVE  [p EXCEPT !.left = left, !.still = still]
           \in PollRecords
BY DEF BundlesTypeOK, ReloadRecords, PollRecords, UploadRecords, TimerRecords

LEMMA CommandChanged ==
  ASSUME BundlesTypeOK
  PROVE  /\ \A t \in deletes : [t EXCEPT !.pc = "deleted"] \in [digest : Bundles, pc : {"asked", "deleted"}]
         /\ \A u \in uploads : [u EXCEPT !.pc = "stored"]
                                 \in UploadRecords
BY DEF BundlesTypeOK, ReloadRecords, PollRecords, UploadRecords, TimerRecords

\* The page opens with the home panel.
LEMMA PanelInit == BundlesInit => PanelInv
<1> SUFFICES ASSUME BundlesInit PROVE PanelInv
  OBVIOUS
<1>1. MaxMounts \in Nat /\ MaxCommands \in Nat /\ 1 <= MaxMounts
  BY PanelAssumption
<1>2. reloads \subseteq ReloadRecords
  BY DEF BundlesInit, ReloadRecords
<1>3. /\ server \in [Bundles -> ServerStates] /\ homeMount \in 0..mounts /\ mounts \in 0..MaxMounts
      /\ cells \in [Bundles -> CellTexts] /\ commands \in 0..MaxCommands
  BY <1>1 DEF BundlesInit, ServerStates, CellTexts
<1>4. list \in [shows : Lists, table : 0..reloadCount] /\ (list.shows = "table") = (list.table # 0)
  BY DEF BundlesInit, Lists, Listing
<1>5. timer \in TimerRecords
  BY DEF BundlesInit, NoTimer, TimerRecords
<1>6. BundlesTypeOK
  BY <1>2, <1>3, <1>4, <1>5
  DEF BundlesInit, BundlesTypeOK, ReloadRecords, PollRecords, UploadRecords, TimerRecords
<1> QED BY <1>6 DEF BundlesInit, PanelInv, TimerIsMounted, ButtonComesBack

-----------------------------------------------------------------------------
(* Reloads and polls *)

\* A step of a reload or a poll, which leaves the server, the mounts and the
\* commands alone.
LEMMA ChainStep ==
  ASSUME PanelInv, Idle, UNCHANGED <<file, inputOff, canStart, reloadCount>>,
         list' \in [shows : Lists, table : 0..reloadCount], (list'.shows = "table") = (list'.table # 0),
         cells' \in [Bundles -> CellTexts],
         reloads' \subseteq ReloadRecords,
         polls' \subseteq PollRecords,
         timer' \in TimerRecords,
         timer' # NoTimer => homeMount # 0 /\ timer'.mount = homeMount
  PROVE  PanelInv'
<1>1. BundlesTypeOK'
  BY DEF PanelInv, BundlesTypeOK, Idle, ReloadRecords, PollRecords, UploadRecords, TimerRecords
<1>2. TimerIsMounted' /\ ButtonComesBack'
  BY DEF PanelInv, TimerIsMounted, ButtonComesBack, Idle
<1> QED BY <1>1, <1>2 DEF PanelInv

\* What a task of the mounted panel schedules.
LEMMA Scheduled ==
  ASSUME PanelInv, NEW t, ~Aborts(t), t.mount \in 1..mounts, NEW table \in 0..reloadCount,
         NEW pending \in SUBSET Bundles, ScheduleRefresh(t, table, pending)
  PROVE  /\ timer' \in TimerRecords
         /\ timer' # NoTimer => homeMount # 0 /\ timer'.mount = homeMount
<1>1. NoTimer \in TimerRecords
  BY DEF NoTimer, PanelInv, BundlesTypeOK, ReloadRecords, PollRecords, UploadRecords, TimerRecords
<1>2. CASE homeMount = 0 \/ pending = {}
  BY <1>1, <1>2 DEF ScheduleRefresh
<1>3. CASE homeMount # 0 /\ pending # {}
  BY <1>3 DEF ScheduleRefresh, Aborts, TimerRecords
<1> QED BY <1>2, <1>3

\* A status that is shown is a text.
LEMMA RowShown ==
  ASSUME BundlesTypeOK, NEW b \in Bundles, NEW text \in Answers(b), NEW table, ShowCell(table, b, text)
  PROVE  cells' \in [Bundles -> CellTexts]
<1>1. text \in CellTexts
  BY DEF Answers, BundlesTypeOK, ServerStates, CellTexts
<1> QED BY <1>1 DEF ShowCell, BundlesTypeOK, ReloadRecords, PollRecords, UploadRecords, TimerRecords

LEMMA ReloadSteps == PanelInv /\ ReloadNext => PanelInv'
<1> SUFFICES ASSUME PanelInv, NEW r \in reloads,
                    ListServed(r) \/ ListShown(r) \/ ListFails(r) \/ ReloadAborted(r) \/ Row(r)
             PROVE  PanelInv'
  BY DEF ReloadNext
<1> USE DEF PanelInv
<1>0. /\ r.id \in 1..reloadCount /\ r.mount \in 1..mounts /\ r.left \subseteq Bundles /\ r.pending \subseteq Bundles
      /\ reloadCount \in Nat /\ reloads \subseteq ReloadRecords /\ BundlesTypeOK
      /\ timer \in TimerRecords /\ (timer # NoTimer => homeMount # 0 /\ timer.mount = homeMount)
  BY DEF TimerIsMounted, BundlesTypeOK, ReloadRecords, PollRecords, UploadRecords, TimerRecords
<1>1. CASE ListServed(r)
  <2>1. {b \in Bundles : server[b] # "absent"} \in SUBSET Bundles
    OBVIOUS
  <2>2. reloads' \subseteq ReloadRecords
    BY <1>0, <1>1, <2>1, ReloadChanged DEF ListServed, NextReload
  <2> QED BY <1>1, <2>2, ChainStep
          DEF ListServed, BundlesTypeOK, TimerIsMounted, ReloadRecords, PollRecords, UploadRecords, TimerRecords
<1>2. CASE ListShown(r)
  <2>1. cells' \in [Bundles -> CellTexts]
    BY <1>2 DEF ListShown, CellTexts
  <2>2. reloads' \subseteq ReloadRecords
    BY <1>0, <1>2, ReloadChanged DEF ListShown, NextReload
  <2>3. list' \in [shows : Lists, table : 0..reloadCount] /\ (list'.shows = "table") = (list'.table # 0)
    BY <1>0, <1>2 DEF ListShown, Listing, Lists
  <2> QED BY <1>2, <2>1, <2>2, <2>3, ChainStep
          DEF ListShown, BundlesTypeOK, TimerIsMounted, ReloadRecords, PollRecords, UploadRecords, TimerRecords
<1>3. CASE ListFails(r)
  <2>1. list' \in [shows : Lists, table : 0..reloadCount] /\ (list'.shows = "table") = (list'.table # 0)
    BY <1>0, <1>3 DEF ListFails, Listing, Lists
  <2> QED BY <1>3, <2>1, ChainStep
          DEF ListFails, BundlesTypeOK, TimerIsMounted, ReloadRecords, PollRecords, UploadRecords, TimerRecords
<1>4. CASE ReloadAborted(r)
  BY <1>4, ChainStep
  DEF ReloadAborted, BundlesTypeOK, TimerIsMounted, ReloadRecords, PollRecords, UploadRecords, TimerRecords
<1>5. CASE Row(r)
  <2>0. PICK b \in r.left : \E text \in Answers(b) :
          LET left == r.left \ {b}
              pending == IF NeedsRefresh(text) THEN r.pending \cup {b} ELSE r.pending
          IN  /\ ShowCell(r.id, b, text)
              /\ IF left # {}
                 THEN NextReload(r, [r EXCEPT !.left = left, !.pending = pending]) /\ UNCHANGED timer
                 ELSE /\ reloads' = reloads \ {r}
                      /\ IF pending = {} THEN UNCHANGED timer ELSE ScheduleRefresh(r, r.id, pending)
    BY <1>5 DEF Row
  <2>1. PICK text \in Answers(b) :
          LET left == r.left \ {b}
              pending == IF NeedsRefresh(text) THEN r.pending \cup {b} ELSE r.pending
          IN  /\ ShowCell(r.id, b, text)
              /\ IF left # {}
                 THEN NextReload(r, [r EXCEPT !.left = left, !.pending = pending]) /\ UNCHANGED timer
                 ELSE /\ reloads' = reloads \ {r}
                      /\ IF pending = {} THEN UNCHANGED timer ELSE ScheduleRefresh(r, r.id, pending)
    BY <2>0
  <2> DEFINE left == r.left \ {b}
             pending == IF NeedsRefresh(text) THEN r.pending \cup {b} ELSE r.pending
  <2>2. left \in SUBSET Bundles /\ pending \in SUBSET Bundles
    BY <1>0
  <2>3. \/ NextReload(r, [r EXCEPT !.left = left, !.pending = pending]) /\ UNCHANGED timer
        \/ reloads' = reloads \ {r} /\ (UNCHANGED timer \/ ScheduleRefresh(r, r.id, pending))
    BY <2>1
  <2> HIDE DEF left, pending
  <2>4. reloads' \subseteq ReloadRecords
    <3>1. [r EXCEPT !.left = left, !.pending = pending] \in ReloadRecords
      BY <1>0, <2>2, ReloadChanged
    <3>2. reloads' \subseteq reloads \cup {[r EXCEPT !.left = left, !.pending = pending]}
      BY <2>3 DEF NextReload
    <3> QED BY <1>0, <3>1, <3>2
  <2>5. /\ timer' \in TimerRecords
        /\ timer' # NoTimer => homeMount # 0 /\ timer'.mount = homeMount
    <3>1. ~Aborts(r)
      BY <1>5 DEF Row
    <3>2. r.id \in 0..reloadCount
      BY <1>0
    <3> QED BY <1>0, <2>2, <2>3, <3>1, <3>2, Scheduled
  <2>6. cells' \in [Bundles -> CellTexts]
    BY <1>0, <2>1, RowShown
  <2> QED BY <1>5, <2>4, <2>5, <2>6, ChainStep
          DEF Row, BundlesTypeOK, ReloadRecords, PollRecords, UploadRecords, TimerRecords
<1> QED BY <1>1, <1>2, <1>3, <1>4, <1>5

LEMMA PollSteps == PanelInv /\ PollNext => PanelInv'
<1> SUFFICES ASSUME PanelInv, PollNext PROVE PanelInv'
  OBVIOUS
<1> USE DEF PanelInv
<1>1. CASE TimerFires
  <2>1. NoTimer \in TimerRecords
    BY DEF NoTimer, BundlesTypeOK, ReloadRecords, PollRecords, UploadRecords, TimerRecords
  <2>2. polls' \subseteq PollRecords
    <3>1. homeMount # 0 => homeMount \in 1..mounts
      BY DEF BundlesTypeOK, ReloadRecords, PollRecords, UploadRecords, TimerRecords
    <3>2. timer.table \in 0..reloadCount /\ timer.pending \in SUBSET Bundles
      BY DEF BundlesTypeOK, ReloadRecords, PollRecords, UploadRecords, TimerRecords
    <3> QED BY <1>1, <3>1, <3>2
            DEF TimerFires, BundlesTypeOK, ReloadRecords, PollRecords, UploadRecords, TimerRecords
  <2> QED BY <1>1, <2>1, <2>2, ChainStep
          DEF TimerFires, BundlesTypeOK, ReloadRecords, PollRecords, UploadRecords, TimerRecords
<1>2. ASSUME NEW p \in polls, Poll(p)
      PROVE  PanelInv'
  <2>0. /\ p.table \in 0..reloadCount /\ p.mount \in 1..mounts /\ p.left \subseteq Bundles /\ p.still \subseteq Bundles
        /\ polls \subseteq PollRecords /\ BundlesTypeOK
        /\ timer \in TimerRecords /\ (timer # NoTimer => homeMount # 0 /\ timer.mount = homeMount)
    BY DEF TimerIsMounted, BundlesTypeOK, ReloadRecords, PollRecords, UploadRecords, TimerRecords
  <2>a. PICK b \in p.left : \E text \in Answers(b) :
          LET left == p.left \ {b}
              again == NeedsRefresh(text) \/ text = "unavailable"
              still == IF again THEN p.still \cup {b} ELSE p.still
          IN  /\ IF text = "unavailable" THEN UNCHANGED cells ELSE ShowCell(p.table, b, text)
              /\ IF left # {}
                 THEN /\ polls' = (polls \ {p}) \cup {[p EXCEPT !.left = left, !.still = still]}
                      /\ UNCHANGED timer
                 ELSE /\ polls' = polls \ {p}
                      /\ IF still = {} THEN UNCHANGED timer ELSE ScheduleRefresh(p, p.table, still)
    BY <1>2 DEF Poll
  <2>1. PICK text \in Answers(b) :
          LET left == p.left \ {b}
              again == NeedsRefresh(text) \/ text = "unavailable"
              still == IF again THEN p.still \cup {b} ELSE p.still
          IN  /\ IF text = "unavailable" THEN UNCHANGED cells ELSE ShowCell(p.table, b, text)
              /\ IF left # {}
                 THEN /\ polls' = (polls \ {p}) \cup {[p EXCEPT !.left = left, !.still = still]}
                      /\ UNCHANGED timer
                 ELSE /\ polls' = polls \ {p}
                      /\ IF still = {} THEN UNCHANGED timer ELSE ScheduleRefresh(p, p.table, still)
    BY <2>a
  <2> DEFINE left == p.left \ {b}
             still == IF NeedsRefresh(text) \/ text = "unavailable" THEN p.still \cup {b} ELSE p.still
  <2>2. left \in SUBSET Bundles /\ still \in SUBSET Bundles
    BY <2>0
  <2>3. \/ polls' = (polls \ {p}) \cup {[p EXCEPT !.left = left, !.still = still]} /\ UNCHANGED timer
        \/ polls' = polls \ {p} /\ (UNCHANGED timer \/ ScheduleRefresh(p, p.table, still))
    BY <2>1
  <2> HIDE DEF left, still
  <2>4. polls' \subseteq PollRecords
    <3>1. [p EXCEPT !.left = left, !.still = still] \in PollRecords
      BY <2>0, <2>2, PollChanged
    <3>2. polls' \subseteq polls \cup {[p EXCEPT !.left = left, !.still = still]}
      BY <2>3
    <3> QED BY <2>0, <3>1, <3>2
  <2>5. /\ timer' \in TimerRecords
        /\ timer' # NoTimer => homeMount # 0 /\ timer'.mount = homeMount
    <3>1. ~Aborts(p)
      BY <1>2 DEF Poll
    <3> QED BY <2>0, <2>2, <2>3, <3>1, Scheduled
  <2>6. cells' \in [Bundles -> CellTexts]
    BY <2>0, <2>1, RowShown DEF BundlesTypeOK, ReloadRecords, PollRecords, UploadRecords, TimerRecords
  <2> QED BY <1>2, <2>4, <2>5, <2>6, ChainStep
          DEF Poll, BundlesTypeOK, ReloadRecords, PollRecords, UploadRecords, TimerRecords
<1>3. ASSUME NEW p \in polls, PollAborted(p)
      PROVE  PanelInv'
  BY <1>3, ChainStep
  DEF PollAborted, BundlesTypeOK, TimerIsMounted, ReloadRecords, PollRecords, UploadRecords, TimerRecords
<1> QED BY <1>1, <1>2, <1>3 DEF PollNext

-----------------------------------------------------------------------------
(* Commands and mounts *)

\* What is asked for when the list is reloaded, by the mounted panel.
LEMMA Reloaded ==
  ASSUME BundlesTypeOK, NEW mount \in Nat \ {0}, Reload(mount), mounts' \in Nat, mount <= mounts', mounts <= mounts'
  PROVE  /\ reloadCount' \in Nat /\ reloadCount <= reloadCount' /\ timer' = NoTimer
         /\ list' \in [shows : Lists, table : 0..reloadCount'] /\ (list'.shows = "table") = (list'.table # 0)
         /\ reloads' \subseteq ReloadRecords'
<1>1. reloadCount' = reloadCount + 1 /\ reloadCount \in Nat /\ mounts \in Nat
  BY DEF Reload, BundlesTypeOK, ReloadRecords, PollRecords, UploadRecords, TimerRecords
<1>2. list' = Listing("loading") /\ timer' = NoTimer
  BY DEF Reload
<1>3. [id |-> reloadCount + 1, mount |-> mount, pc |-> "asked", left |-> {}, pending |-> {}]
        \in ReloadRecords'
  <2>1. reloadCount + 1 \in 1..reloadCount' /\ mount \in 1..mounts'
    BY <1>1
  <2> QED BY <2>1 DEF ReloadRecords
<1>4. ASSUME NEW r \in reloads
      PROVE  r \in ReloadRecords'
  <2>1. 1..reloadCount \subseteq 1..reloadCount' /\ 1..mounts \subseteq 1..mounts'
    BY <1>1
  <2>2. r \in ReloadRecords
    BY DEF BundlesTypeOK, ReloadRecords, PollRecords, UploadRecords, TimerRecords
  <2> QED BY <2>1, <2>2 DEF ReloadRecords
<1>5. list' \in [shows : Lists, table : 0..reloadCount'] /\ (list'.shows = "table") = (list'.table # 0)
  BY <1>1, <1>2 DEF Listing, Lists
<1>6. reloads' \subseteq ReloadRecords'
  BY <1>3, <1>4 DEF Reload
<1> QED BY <1>1, <1>2, <1>5, <1>6

\* A number of reloads or mounts that grows leaves what has been typed typed.
LEMMA Grown ==
  ASSUME BundlesTypeOK, reloadCount' \in Nat, reloadCount <= reloadCount', mounts' \in Nat, mounts <= mounts'
  PROVE  /\ polls \subseteq PollRecords'
         /\ uploads \subseteq UploadRecords'
         /\ NoTimer \in TimerRecords'
<1>1. reloadCount \in Nat /\ mounts \in Nat
  BY DEF BundlesTypeOK, ReloadRecords, PollRecords, UploadRecords, TimerRecords
<1>2. 0..reloadCount \subseteq 0..reloadCount' /\ 1..mounts \subseteq 1..mounts'
  BY <1>1
<1>3. ASSUME NEW p \in polls
      PROVE  p \in PollRecords'
  <2>1. p \in PollRecords
    BY DEF BundlesTypeOK, ReloadRecords, PollRecords, UploadRecords, TimerRecords
  <2> QED BY <1>2, <2>1 DEF PollRecords, UploadRecords
<1>4. ASSUME NEW u \in uploads
      PROVE  u \in UploadRecords'
  <2>1. u \in UploadRecords
    BY DEF BundlesTypeOK, ReloadRecords, PollRecords, UploadRecords, TimerRecords
  <2> QED BY <1>2, <2>1 DEF PollRecords, UploadRecords
<1>5. NoTimer \in TimerRecords'
  BY <1>1 DEF NoTimer, TimerRecords
<1> QED BY <1>3, <1>4, <1>5

LEMMA DeleteSteps ==
  ASSUME PanelInv
  PROVE  /\ \A b \in Bundles : Delete(b) => PanelInv'
         /\ \A t \in deletes : Deleted(t) \/ DeleteDone(t) \/ DeleteFails(t) => PanelInv'
<1> USE DEF PanelInv
<1>0. MaxCommands \in Nat /\ commands \in Nat
  BY PanelAssumption DEF BundlesTypeOK, ReloadRecords, PollRecords, UploadRecords, TimerRecords
<1>1. ASSUME NEW b \in Bundles, Delete(b)
      PROVE  PanelInv'
  <2>1. commands' \in 0..MaxCommands
    BY <1>0, <1>1 DEF Delete, Command
  <2>2. deletes' \subseteq [digest : Bundles, pc : {"asked", "deleted"}]
    BY <1>1 DEF Delete, BundlesTypeOK, ReloadRecords, PollRecords, UploadRecords, TimerRecords
  <2>3. BundlesTypeOK'
    BY <1>1, <2>1, <2>2
    DEF Delete, panelVars, BundlesTypeOK, ReloadRecords, PollRecords, UploadRecords, TimerRecords
  <2> QED BY <1>1, <2>3 DEF Delete, panelVars, TimerIsMounted, ButtonComesBack
<1>2. ASSUME NEW t \in deletes, Deleted(t)
      PROVE  PanelInv'
  <2>1. server' \in [Bundles -> ServerStates]
    BY <1>2 DEF Deleted, BundlesTypeOK, ServerStates
  <2>2. deletes' \subseteq [digest : Bundles, pc : {"asked", "deleted"}]
    BY <1>2, CommandChanged
    DEF Deleted, BundlesTypeOK, ReloadRecords, PollRecords, UploadRecords, TimerRecords
  <2>3. BundlesTypeOK'
    BY <1>2, <2>1, <2>2
    DEF Deleted, panelVars, BundlesTypeOK, ReloadRecords, PollRecords, UploadRecords, TimerRecords
  <2> QED BY <1>2, <2>3 DEF Deleted, panelVars, TimerIsMounted, ButtonComesBack
<1>3. ASSUME NEW t \in deletes, DeleteDone(t)
      PROVE  PanelInv'
  <2>1. CASE homeMount = 0
    <3>1. BundlesTypeOK'
      BY <1>3, <2>1
      DEF DeleteDone, panelVars, BundlesTypeOK, ReloadRecords, PollRecords, UploadRecords, TimerRecords
    <3> QED BY <1>3, <2>1, <3>1 DEF DeleteDone, panelVars, TimerIsMounted, ButtonComesBack
  <2>2. CASE homeMount # 0
    <3>1. homeMount \in Nat \ {0} /\ homeMount <= mounts' /\ mounts' \in Nat /\ mounts <= mounts' /\ Reload(homeMount)
      BY <1>3, <2>2
      DEF DeleteDone, BundlesTypeOK, ReloadRecords, PollRecords, UploadRecords, TimerRecords
    <3>2. UNCHANGED <<server, homeMount, mounts, cells, polls, file, inputOff, canStart, uploads,
                   commands>> /\ deletes' \subseteq deletes
      BY <1>3, <2>2 DEF DeleteDone
    <3>3. BundlesTypeOK'
      BY <3>1, <3>2, Reloaded, Grown
      DEF BundlesTypeOK, ReloadRecords, PollRecords, UploadRecords, TimerRecords
    <3>4. timer' = NoTimer
      BY <3>1, Reloaded
    <3> QED BY <3>2, <3>3, <3>4 DEF TimerIsMounted, ButtonComesBack, NoTimer
  <2> QED BY <2>1, <2>2
<1>4. ASSUME NEW t \in deletes, DeleteFails(t)
      PROVE  PanelInv'
  <2>1. list' \in [shows : Lists, table : 0..reloadCount] /\ (list'.shows = "table") = (list'.table # 0)
    BY <1>4 DEF DeleteFails, BundlesTypeOK, Listing, Lists
  <2>2. BundlesTypeOK'
    BY <1>4, <2>1
    DEF DeleteFails, BundlesTypeOK, ReloadRecords, PollRecords, UploadRecords, TimerRecords
  <2> QED BY <1>4, <2>2 DEF DeleteFails, TimerIsMounted, ButtonComesBack
<1> QED BY <1>1, <1>2, <1>3, <1>4

LEMMA UploadSteps ==
  ASSUME PanelInv
  PROVE  /\ Choose \/ Unchoose => PanelInv'
         /\ \A b \in Bundles : StartUpload(b) => PanelInv'
         /\ \A u \in uploads : Uploaded(u) \/ UploadDone(u) \/ UploadFails(u) \/ UploadAborted(u) => PanelInv'
<1> USE DEF PanelInv
<1>0. MaxCommands \in Nat /\ commands \in Nat
  BY PanelAssumption DEF BundlesTypeOK, ReloadRecords, PollRecords, UploadRecords, TimerRecords
<1>1. ASSUME Choose \/ Unchoose
      PROVE  PanelInv'
  <2>1. commands' \in 0..MaxCommands
    BY <1>0, <1>1 DEF Choose, Unchoose, Command
  <2>2. BundlesTypeOK'
    BY <1>1, <2>1 DEF Choose, Unchoose, BundlesTypeOK, ReloadRecords, PollRecords, UploadRecords, TimerRecords
  <2> QED BY <1>1, <2>2 DEF Choose, Unchoose, TimerIsMounted, ButtonComesBack
<1>2. ASSUME NEW b \in Bundles, StartUpload(b)
      PROVE  PanelInv'
  <2>1. commands' \in 0..MaxCommands
    BY <1>0, <1>2 DEF StartUpload, Command
  <2>2. [digest |-> b, mount |-> homeMount, pc |-> "asked"] \in UploadRecords
    BY <1>2 DEF StartUpload, BundlesTypeOK, ReloadRecords, PollRecords, UploadRecords, TimerRecords
  <2>3. uploads' = uploads \cup {[digest |-> b, mount |-> homeMount, pc |-> "asked"]}
    BY <1>2 DEF StartUpload
  <2>4. BundlesTypeOK'
    BY <1>2, <2>1, <2>2, <2>3
    DEF StartUpload, BundlesTypeOK, ReloadRecords, PollRecords, UploadRecords, TimerRecords
  <2>5. \E u \in uploads' : u.mount = homeMount'
    <3>1. [digest |-> b, mount |-> homeMount, pc |-> "asked"].mount = homeMount /\ homeMount' = homeMount
      BY <1>2 DEF StartUpload
    <3> QED BY <2>3, <3>1
  <2> QED BY <1>2, <2>4, <2>5 DEF StartUpload, TimerIsMounted, ButtonComesBack
<1>3. ASSUME NEW u \in uploads, Uploaded(u)
      PROVE  PanelInv'
  <2>1. server' \in [Bundles -> ServerStates]
    BY <1>3 DEF Uploaded, BundlesTypeOK, ServerStates
  <2>2. uploads' \subseteq UploadRecords
    BY <1>3, CommandChanged
    DEF Uploaded, BundlesTypeOK, ReloadRecords, PollRecords, UploadRecords, TimerRecords
  <2>3. BundlesTypeOK'
    BY <1>3, <2>1, <2>2
    DEF Uploaded, panelVars, BundlesTypeOK, ReloadRecords, PollRecords, UploadRecords, TimerRecords
  <2>4. \A v \in uploads : \E w \in uploads' : w.mount = v.mount
    <3>1. uploads' = (uploads \ {u}) \cup {[u EXCEPT !.pc = "stored"]} /\ [u EXCEPT !.pc = "stored"].mount = u.mount
      BY <1>3 DEF Uploaded, BundlesTypeOK, ReloadRecords, PollRecords, UploadRecords, TimerRecords
    <3> QED BY <3>1
  <2> QED BY <1>3, <2>3, <2>4 DEF Uploaded, panelVars, TimerIsMounted, ButtonComesBack
<1>4. ASSUME NEW u \in uploads, UploadDone(u)
      PROVE  PanelInv'
  <2>1. homeMount \in Nat \ {0} /\ homeMount <= mounts' /\ mounts' \in Nat /\ mounts <= mounts' /\ Reload(homeMount)
    BY <1>4
    DEF UploadDone, Aborts, BundlesTypeOK, ReloadRecords, PollRecords, UploadRecords, TimerRecords
  <2>2. UNCHANGED <<server, homeMount, mounts, cells, polls, file, deletes, commands>>
        /\ uploads' \subseteq uploads /\ inputOff' = FALSE /\ canStart' = file
    BY <1>4 DEF UploadDone
  <2>3. BundlesTypeOK'
    BY <2>1, <2>2, Reloaded, Grown
    DEF BundlesTypeOK, ReloadRecords, PollRecords, UploadRecords, TimerRecords
  <2>4. timer' = NoTimer
    BY <2>1, Reloaded
  <2> QED BY <2>2, <2>3, <2>4 DEF TimerIsMounted, ButtonComesBack, NoTimer
<1>5. ASSUME NEW u \in uploads, UploadFails(u)
      PROVE  PanelInv'
  <2>1. BundlesTypeOK'
    BY <1>5 DEF UploadFails, BundlesTypeOK, ReloadRecords, PollRecords, UploadRecords, TimerRecords
  <2> QED BY <1>5, <2>1 DEF UploadFails, TimerIsMounted, ButtonComesBack
<1>6. ASSUME NEW u \in uploads, UploadAborted(u)
      PROVE  PanelInv'
  <2>1. BundlesTypeOK'
    BY <1>6
    DEF UploadAborted, panelVars, BundlesTypeOK, ReloadRecords, PollRecords, UploadRecords, TimerRecords
  \* An upload that is aborted belongs to another mount.
  <2>2. \A v \in uploads : v.mount = homeMount => v \in uploads'
    BY <1>6 DEF UploadAborted, Aborts
  <2> QED BY <1>6, <2>1, <2>2 DEF UploadAborted, panelVars, TimerIsMounted, ButtonComesBack
<1> QED BY <1>1, <1>2, <1>3, <1>4, <1>5, <1>6

LEMMA MountSteps == PanelInv /\ (BundlesMount \/ BundlesUnmount \/ \E b \in Bundles : Derived(b)) => PanelInv'
<1> SUFFICES ASSUME PanelInv, BundlesMount \/ BundlesUnmount \/ \E b \in Bundles : Derived(b)
             PROVE  PanelInv'
  OBVIOUS
<1> USE DEF PanelInv
<1>0. mounts \in Nat /\ MaxMounts \in Nat /\ homeMount \in 0..mounts
  BY PanelAssumption DEF BundlesTypeOK, ReloadRecords, PollRecords, UploadRecords, TimerRecords
<1>1. CASE BundlesMount
  <2>1. /\ mounts' = mounts + 1 /\ homeMount' = mounts' /\ Reload(mounts') /\ mounts < MaxMounts
        /\ cells' = [b \in Bundles |-> "none"] /\ file' = FALSE /\ inputOff' = FALSE /\ canStart' = FALSE
        /\ UNCHANGED <<server, polls, deletes, uploads, commands>>
    BY <1>1 DEF BundlesMount
  <2>2. mounts' \in Nat \ {0} /\ mounts <= mounts' /\ mounts' \in 0..MaxMounts /\ homeMount' \in 0..mounts'
    BY <1>0, <2>1
  <2>3. cells' \in [Bundles -> CellTexts]
    BY <2>1 DEF CellTexts
  <2>a. /\ reloadCount' \in Nat /\ reloadCount <= reloadCount' /\ timer' = NoTimer
        /\ list' \in [shows : Lists, table : 0..reloadCount'] /\ (list'.shows = "table") = (list'.table # 0)
        /\ reloads' \subseteq ReloadRecords'
    BY <2>1, <2>2, Reloaded
  <2>b. polls \subseteq PollRecords' /\ uploads \subseteq UploadRecords' /\ NoTimer \in TimerRecords'
    BY <2>1, <2>2, <2>a, Grown
  <2>4. BundlesTypeOK'
    BY <2>1, <2>2, <2>3, <2>a, <2>b
    DEF BundlesTypeOK, ReloadRecords, PollRecords, UploadRecords, TimerRecords
  <2>5. timer' = NoTimer
    BY <2>1 DEF Reload
  <2> QED BY <2>1, <2>4, <2>5 DEF TimerIsMounted, ButtonComesBack, NoTimer
<1>2. CASE BundlesUnmount
  <2>1. NoTimer \in TimerRecords
    BY DEF NoTimer, BundlesTypeOK, ReloadRecords, PollRecords, UploadRecords, TimerRecords
  <2>2. list' \in [shows : Lists, table : 0..reloadCount] /\ (list'.shows = "table") = (list'.table # 0)
    BY <1>2
    DEF BundlesUnmount, Leave, Listing, Lists, BundlesTypeOK, ReloadRecords, PollRecords, UploadRecords, TimerRecords
  <2>3. cells' \in [Bundles -> CellTexts] /\ homeMount' \in 0..mounts
    BY <1>0, <1>2 DEF BundlesUnmount, Leave, CellTexts
  <2>4. BundlesTypeOK'
    BY <1>2, <2>1, <2>2, <2>3
    DEF BundlesUnmount, Leave, BundlesTypeOK, ReloadRecords, PollRecords, UploadRecords, TimerRecords
  <2> QED BY <1>2, <2>4 DEF BundlesUnmount, Leave, TimerIsMounted, ButtonComesBack
<1>3. ASSUME NEW b \in Bundles, Derived(b)
      PROVE  PanelInv'
  <2>1. server' \in [Bundles -> ServerStates]
    BY <1>3 DEF Derived, BundlesTypeOK, ServerStates
  <2>2. BundlesTypeOK'
    BY <1>3, <2>1
    DEF Derived, panelVars, BundlesTypeOK, ReloadRecords, PollRecords, UploadRecords, TimerRecords
  <2> QED BY <1>3, <2>2 DEF Derived, panelVars, TimerIsMounted, ButtonComesBack
<1> QED BY <1>1, <1>2, <1>3

LEMMA HomeStep == PanelInv /\ [BundlesNext]_homeVars => PanelInv'
<1> SUFFICES ASSUME PanelInv, [BundlesNext]_homeVars PROVE PanelInv'
  OBVIOUS
<1>1. CASE ReloadNext
  BY <1>1, ReloadSteps
<1>2. CASE PollNext
  BY <1>2, PollSteps
<1>3. CASE CommandNext
  BY <1>3, DeleteSteps, UploadSteps DEF CommandNext
<1>4. CASE BundlesMount \/ BundlesUnmount \/ \E b \in Bundles : Derived(b)
  BY <1>4, MountSteps
<1>5. CASE UNCHANGED homeVars
  <2>1. BundlesTypeOK'
    BY <1>5
    DEF homeVars, panelVars, PanelInv, BundlesTypeOK, ReloadRecords, PollRecords, UploadRecords, TimerRecords
  <2> QED BY <1>5, <2>1 DEF homeVars, panelVars, PanelInv, TimerIsMounted, ButtonComesBack
<1> QED BY <1>1, <1>2, <1>3, <1>4, <1>5 DEF BundlesNext

-----------------------------------------------------------------------------
(* Theorems *)

\* The home panel keeps its types, schedules only for the mount that is shown
\* and gives the upload button back, however its promise chains are ordered.
THEOREM PanelInvariant == BundlesSpec => []PanelInv
<1>1. BundlesInit => PanelInv
  BY PanelInit
<1>2. PanelInv /\ [BundlesNext]_homeVars => PanelInv'
  BY HomeStep
<1> QED BY <1>1, <1>2, PTL DEF BundlesSpec

\* The list, its table, the chains and the timer of bundles.js keep their forms.
THEOREM PanelTypes == BundlesSpec => []BundlesTypeOK
<1>1. PanelInv => BundlesTypeOK
  BY DEF PanelInv
<1> QED BY <1>1, PanelInvariant, PTL

\* scheduleRefresh of bundles.js: no timer outlives the mount it was set by,
\* although a reload or a poll of an earlier mount may still be under way.
THEOREM RefreshIsMounted == BundlesSpec => []TimerIsMounted
<1>1. PanelInv => TimerIsMounted
  BY DEF PanelInv
<1> QED BY <1>1, PanelInvariant, PTL

\* startUpload of bundles.js: whatever ended the uploads of this mount, the
\* button is enabled again as soon as none is left and a file is chosen.
THEOREM UploadComesBack == BundlesSpec => []ButtonComesBack
<1>1. PanelInv => ButtonComesBack
  BY DEF PanelInv
<1> QED BY <1>1, PanelInvariant, PTL
=============================================================================
