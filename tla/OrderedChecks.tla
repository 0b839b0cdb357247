---------------------------- MODULE OrderedChecks ----------------------------
(* A handler that checks one thing after the other and raises the first fault *)
(* it finds is a sequence of pairs <<condition, reason>> in that order.       *)
EXTENDS Naturals, Sequences, FiniteSets

NoFault == "none"
First(checks) ==
  LET hits == {n \in DOMAIN checks : checks[n][1]}
  IN  IF hits = {} THEN NoFault ELSE checks[CHOOSE n \in hits : \A m \in hits : n <= m][2]
\* The first fault of a sequence of outcomes.
FirstOf(outcomes) == First([n \in DOMAIN outcomes |-> <<outcomes[n] # NoFault, outcomes[n]>>])
\* A sequence, whatever it is one of.
IsSeq(s) == s \in Seq({s[n] : n \in DOMAIN s})
\* The elements of a set in an order that is the same every time.
Arranged(S) ==
  LET list[s \in SUBSET S] ==
        IF s = {} THEN <<>> ELSE LET x == CHOOSE y \in s : TRUE IN Append(list[s \ {x}], x)
  IN  list[S]
=============================================================================
