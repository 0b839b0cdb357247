--------------------------------- MODULE Json ---------------------------------
(* JSON values as Python sees them. A text is a sequence of components, split  *)
(* at "/", the empty text <<"">>; numbers keep their type, and NaN and Infinity, *)
(* which json.loads reads, are values of their own. Integers that no float can *)
(* hold are left out.                                                         *)
EXTENDS OrderedChecks

Null == [t |-> "null"]
NaN == [t |-> "nan"]
Infinity == [t |-> "inf"]
Bool(b) == [t |-> "bool", b |-> b]
Whole(n) == [t |-> "int", n |-> n]
Float(n) == [t |-> "float", n |-> n]
Str(path) == [t |-> "str", s |-> path]
List(items) == [t |-> "list", l |-> items]
Map(fields) == [t |-> "map", m |-> fields]

IsMap(j) == j.t = "map"
IsStr(j) == j.t = "str"
IsText(j) == IsStr(j) /\ j.s # <<"">>
IsInt(j) == j.t = "int"
IsNumber(j) == j.t \in {"int", "float"}   \* finite, and no bool
Missing(j) == j = Null
Truthy(j) ==
  CASE IsNumber(j) -> j.n # 0 [] j.t = "bool" -> j.b [] IsStr(j) -> j.s # <<"">> [] j.t = "null" -> FALSE
    [] j.t = "list" -> j.l # <<>> [] IsMap(j) -> DOMAIN j.m # {} [] OTHER -> TRUE
\* Python's == with an integer: True is 1 and 2.0 is 2.
Equals(j, n) == (IsNumber(j) /\ j.n = n) \/ (j.t = "bool" /\ n = IF j.b THEN 1 ELSE 0)
Has(j, k) == IsMap(j) /\ k \in DOMAIN j.m
Get(j, k) == IF Has(j, k) THEN j.m[k] ELSE Null
Put(j, k, value) == Map([x \in DOMAIN j.m \cup {k} |-> IF x = k THEN value ELSE j.m[x]])
Keys(j) == IF IsMap(j) THEN DOMAIN j.m ELSE {}
Items(j) == IF j.t = "list" THEN j.l ELSE <<>>
IsListOf(j, IsOne(_)) == j.t = "list" /\ \A n \in DOMAIN j.l : IsOne(j.l[n])
\* Values with all that is in them: lists and texts are sequences, and a text has a component.
AreWhole(values) ==
  \A j \in values :
    /\ IsMap(j) => j = Map(j.m) /\ \A k \in DOMAIN j.m : j.m[k] \in values
    /\ j.t = "list" => j = List(j.l) /\ j.l \in Seq(values)
    /\ IsStr(j) => j = Str(j.s) /\ IsSeq(j.s) /\ j.s # <<>>
IsVector(j) == IsListOf(j, IsNumber) /\ Len(j.l) = 3
=============================================================================
