------------------------------ MODULE HashStore ------------------------------
(***************************************************************************)
(* The location hash of the viewer's page and the store that is backed by  *)
(* it (plateau_rt/viewer/static/js/state.js): parsing, formatting, and the *)
(* store's set, navigate and syncFromLocation.                             *)
(*                                                                         *)
(* A hash is its path, split at "/" and without the leading empty segment, *)
(* and its query, a function from some parameters to texts. A text is a    *)
(* member of a small set; Decoded gives what decodeURIComponent and the    *)
(* patterns make of a segment, Value what validValue makes of a parameter. *)
(* The four kinds of fields are kept, one field of each. Integers from     *)
(* 10^21, which JavaScript writes with an exponent, are left out; an       *)
(* integer and a pixel are their shortest texts.                           *)
(***************************************************************************)
EXTENDS Naturals, Sequences, FiniteSets

CONSTANTS
  Digests, MemberIds, PanelIds,  \* sets of strings
  Spelled                        \* other spellings of names, percent-encoded

VARIABLES loc, route, sel, events

NoValue == "null"
Invalid == "undefined"

-----------------------------------------------------------------------------
(* Texts *)

Names == Digests \cup MemberIds \cup PanelIds
\* Null and undefined are no strings, and no name has a character that is decoded.
ASSUME HashAssumption ==
  /\ NoValue \notin Names /\ Invalid \notin Names
  /\ Names \cap DOMAIN Spelled = {}
\* DIGEST_RE, MEMBER_RE and PANEL_RE after decodeSegment.
Decoded(segment, names) ==
  LET name == IF segment \in DOMAIN Spelled THEN Spelled[segment] ELSE segment
  IN  IF name \in names THEN name ELSE Invalid

Fields == {"view", "hemisphere", "path", "pixel"}
Default == [f \in Fields |-> IF f = "hemisphere" THEN "front" ELSE NoValue]
\* What an integer's text stands for; leading zeros are dropped by Number().
Ints == [t \in {"0", "7", "07"} |-> IF t = "0" THEN "0" ELSE "7"]
Values ==
  [view |-> {NoValue, "v1"}, hemisphere |-> {"front", "back"},
   path |-> {NoValue, "0", "7"}, pixel |-> {NoValue, "0,7"}]
Texts ==
  [view |-> {"v1", ""}, hemisphere |-> {"front", "back", "up"}, path |-> {"0", "07", "-1"},
   pixel |-> {"0,7", "0,07", "7"}, v |-> {"1", "2", "x"}]
\* validValue of a text.
Value(f, text) ==
  CASE f = "view" -> IF text = "" THEN Invalid ELSE text
    [] f = "hemisphere" -> IF text \in {"front", "back"} THEN text ELSE Invalid
    [] f = "path" -> IF text \in DOMAIN Ints THEN Ints[text] ELSE Invalid
    [] f = "pixel" -> IF text \in {"0,7", "0,07"} THEN "0,7" ELSE Invalid
Home == [name |-> "home"]
InvalidRoute(hash) == [name |-> "invalid", hash |-> hash]
Bundle(d, m, p) == [name |-> "bundle", digest |-> d, member |-> m, panel |-> p]
States == {s \in [Fields -> UNION {Values[f] : f \in Fields}] : \A f \in Fields : s[f] \in Values[f]}

-----------------------------------------------------------------------------
(* parseHash and formatHash *)

EmptyHash == [path |-> <<>>, query |-> <<>>]
\* The one form in which navigate and set write a route and a state.
Format(r, s) ==
  IF r.name = "home" THEN EmptyHash
  ELSE [path |-> <<"b", r.digest>>
                 \o (IF r.member = NoValue THEN <<>>
                     ELSE <<r.member>> \o (IF r.panel = NoValue THEN <<>> ELSE <<r.panel>>)),
        query |-> LET shown == {f \in Fields : s[f] # Default[f]}
                  IN  [p \in shown \cup {"v"} |-> IF p = "v" THEN "1" ELSE s[p]]]

ParsedState(query) ==
  [f \in Fields |->
     IF f \in DOMAIN query /\ Value(f, query[f]) # Invalid THEN Value(f, query[f]) ELSE Default[f]]
ParsedVersion(query) == IF "v" \in DOMAIN query /\ query["v"] = "2" THEN 2 ELSE 1
\* The segment at position n, or what an absent one counts as.
Part(path, n, names) == IF Len(path) < n THEN NoValue ELSE Decoded(path[n], names)
Parse(hash) ==
  LET path == hash.path
      d == Part(path, 2, Digests)
      m == Part(path, 3, MemberIds)
      p == Part(path, 4, PanelIds)
      none(r) == [route |-> r, state |-> Default, version |-> 1]
  IN  IF Len(path) < 2 \/ path[1] # "b" THEN none(Home)
      ELSE IF Len(path) > 4 \/ Invalid \in {d, m, p} THEN none(InvalidRoute(hash))
      ELSE [route |-> Bundle(d, m, p), state |-> ParsedState(hash.query),
            version |-> ParsedVersion(hash.query)]

-----------------------------------------------------------------------------
(* The store: loc is the page's hash, events the hashchange events that are queued *)

\* location.hash = h queues an event when it changes something; replaceState never does.
Locate(h) == loc' = h /\ events' = IF h = loc THEN events ELSE events + 1
Replace(h) == loc' = h /\ UNCHANGED events

Changed(s, t) == {f \in Fields : s[f] # t[f]}
\* set: the caller's values have been coerced.
Set(s) == Changed(sel, s) # {} /\ sel' = s /\ Replace(Format(route, s)) /\ UNCHANGED route
\* navigate, when the route or the state changes.
Navigate(r, s, replace) ==
  /\ r # route \/ Changed(sel, s) # {}
  /\ route' = r /\ sel' = s
  /\ IF replace THEN Replace(Format(r, s)) ELSE Locate(Format(r, s))
\* The handler of hashchange, and the first call of init.
Sync == route' = Parse(loc).route /\ sel' = Parse(loc).state /\ UNCHANGED loc
=============================================================================
