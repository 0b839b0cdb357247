---------------------------- MODULE DeriveParams -----------------------------
(***************************************************************************)
(* What a deriver declares and what is asked of it                         *)
(* (plateau_rt/viewer/derive/__init__.py and prepare and _items of         *)
(* jobs.py): from the texts of a request to typed values, canonical texts  *)
(* and the key that names the job and the cached result.                   *)
(*                                                                         *)
(* A deriver is [kinds, params, eager, space], where space is what its       *)
(* param_space returns for the member, or how it fails.                    *)
(* A number is a whole number of ticks, `Unit` ticks to 1; a float is       *)
(* written with `FloatDigits` significant digits (12 in the code), and the      *)
(* floats of the grid of a parameter may be `slip` ticks off (0 is exact). *)
(***************************************************************************)
EXTENDS Integers, Sequences, FiniteSets
LOCAL INSTANCE FiniteSetsExt
LOCAL INSTANCE SequencesExt

CONSTANTS
  Unit, FloatDigits,
  Tolerance,    \* 1e-9, in ticks
  MaxKeyChars   \* MAX_KEY_CHARS

\* A text: a number in one of its spellings, or a word of some (encoded) length.
Shortest == "shortest"
Number(n, spelling) == [t |-> "number", n |-> n, as |-> spelling]
Word(w, chars) == [t |-> "word", w |-> w, chars |-> chars]
NotText == [t |-> "other"]
\* A bound of a parameter: none, an int, a float, or anything else (NaN, a bool, a text).
NoBound == [t |-> "none"]
IntBound(n) == [t |-> "int", n |-> n * Unit]
FloatBound(n) == [t |-> "float", n |-> n]
OddBound == [t |-> "odd"]

Abs(n) == IF n < 0 THEN -n ELSE n
\* round(a / b), to even when it is halfway.
Rounded(a, b) ==
  LET q == a \div b
      twice == 2 * (a % b)
  IN  IF twice < b \/ (twice = b /\ q % 2 = 0) THEN q ELSE q + 1
\* format(x, ".12g"): the last digit that is written stands for so many ticks.
LastDigit(x) == 10 ^ (CHOOSE k \in 0..6 : Abs(x) < 10 ^ (k + FloatDigits) /\ (k = 0 \/ Abs(x) >= 10 ^ (k + FloatDigits - 1)))
Written(x) == Rounded(x, LastDigit(x)) * LastDigit(x)

-----------------------------------------------------------------------------
(* Declarations *)

RangeKinds == {"int", "float"}
SpaceKinds == {"enum", "view", "bs", "member_link"}
EnumIsValid(p) ==
  /\ p.values # <<>> /\ \A n \in DOMAIN p.values : p.values[n].t = "word" /\ p.values[n].chars > 0
  /\ IsInjective(p.values)
  /\ {p.min, p.max, p.step} = {NoBound}
IntIsValid(p) ==
  /\ p.min.t = "int" /\ p.max.t = "int" /\ p.min.n <= p.max.n
  /\ p.values = <<>> /\ p.step = NoBound
\* Steps from the minimum to the maximum, to the nearest.
LastStep(p) == Rounded(p.max.n - p.min.n, p.step.n)
StepDivides(p) == Unit * Abs(p.max.n - p.min.n - LastStep(p) * p.step.n) <= Tolerance * p.step.n
FloatIsValid(p) ==
  /\ {p.min.t, p.max.t, p.step.t} \subseteq {"int", "float"}
  /\ p.step.n > 0 /\ p.min.n <= p.max.n /\ StepDivides(p)
  /\ p.values = <<>>
ParamIsValid(p) ==
  CASE p.kind = "enum" -> EnumIsValid(p)
    [] p.kind = "int" -> IntIsValid(p)
    [] p.kind = "float" -> FloatIsValid(p)
    [] OTHER -> p.values = <<>> /\ {p.min, p.max, p.step} = {NoBound}
NamesOf(d) == {d.params[n].name : n \in DOMAIN d.params}
HasRange(d) == \E n \in DOMAIN d.params : d.params[n].kind \in RangeKinds
DeriverIsValid(d) ==
  /\ d.kinds # {}
  /\ \A n \in DOMAIN d.params : ParamIsValid(d.params[n])
  /\ Cardinality(NamesOf(d)) = Len(d.params)
  /\ d.eager => ~HasRange(d)
ParamOf(d, name) == d.params[CHOOSE n \in DOMAIN d.params : d.params[n].name = name]

-----------------------------------------------------------------------------
(* Requests *)

IsInteger(text) == text.t = "number" /\ text.n % Unit = 0
Within(p, n) == p.min.n <= n /\ n <= p.max.n
Snapped(p, n) ==
  LET q == Rounded(n - p.min.n, p.step.n)
  IN  p.min.n + q * p.step.n + IF q = 0 THEN 0 ELSE p.slip
Slack(p) == Tolerance * (IF p.step.n > Unit THEN p.step.n ELSE Unit)
OnStep(p, n) == Unit * Abs(Snapped(p, n) - n) <= Slack(p)
ValueIsValid(p, text) ==
  CASE p.kind = "int" -> IsInteger(text) /\ Within(p, text.n)
    [] p.kind = "float" -> text.t = "number" /\ Within(p, text.n) /\ OnStep(p, text.n)
    [] p.kind = "enum" -> \E n \in DOMAIN p.values : p.values[n] = text
    [] OTHER -> text # NotText
Canonical(p, text) ==
  CASE p.kind = "int" -> Number(text.n, Shortest)
    [] p.kind = "float" -> Number(Written(Snapped(p, text.n)), Shortest)
    [] OTHER -> text
\* Mutant: the number that was asked for, not the one on the step.
AsAsked(p, text) == IF p.kind \in RangeKinds THEN text.n ELSE text
\* The value a deriver gets: a float is read back from its text.
Typed(p, text) == IF p.kind \in RangeKinds THEN Canonical(p, text).n ELSE text
\* params_key: name=value pairs, sorted, with a comma between them.
Chars(text) == IF text.t = "word" THEN text.chars ELSE 1
KeyChars(canonical) ==
  MapThenSumSet(LAMBDA x : Chars(canonical[x]) + 3, DOMAIN canonical) - 1
InSpace(d, canonical) ==
  [x \in {y \in DOMAIN canonical : ParamOf(d, y).kind \in SpaceKinds} |-> canonical[x]] \in d.space.combinations

Refused(fault) == [fault |-> fault]
Accepted(typed, canonical) == [fault |-> "none", typed |-> typed, canonical |-> canonical]
\* validate_params, and the kind of the member, which prepare looks at before.
Prepare(d, kind, request) ==
  LET canonical == [x \in NamesOf(d) |-> Canonical(ParamOf(d, x), request[x])]
      typed == [x \in NamesOf(d) |-> Typed(ParamOf(d, x), request[x])]
  IN  IF kind \notin d.kinds THEN Refused("not_found")
      ELSE IF DOMAIN request # NamesOf(d) THEN Refused("bad_params")
      ELSE IF \E x \in NamesOf(d) : ~ValueIsValid(ParamOf(d, x), request[x]) THEN Refused("bad_params")
      ELSE IF d.space.fault # "none" THEN Refused(d.space.fault)
      ELSE IF ~InSpace(d, canonical) THEN Refused("bad_params")
      ELSE IF KeyChars(canonical) > MaxKeyChars THEN Refused("bad_params")
      ELSE Accepted(typed, canonical)

\* eager_items or lazy_items of one member: what the derive command goes through.
ItemsOf(d, kind) ==
  IF kind \notin d.kinds THEN {}
  ELSE IF ~d.eager /\ HasRange(d) THEN {Refused("skipped")}
  ELSE IF d.space.fault # "none" THEN {Refused(d.space.fault)}
  ELSE {Prepare(d, kind, request) : request \in d.space.combinations}

\* The digits that are written can tell the steps apart, and the written ends of
\* the range are in it; otherwise a canonical text may not be accepted again.
IsFine(p) ==
  p.kind = "float" =>
    LET digit == LastDigit(IF Abs(p.min.n) > Abs(p.max.n) THEN p.min.n ELSE p.max.n)
    IN  /\ 2 * (Abs(p.slip) + digit) <= p.step.n /\ Unit * digit <= Slack(p)
        /\ \A n \in {p.min.n, p.max.n} : Within(p, Written(Snapped(p, n)))
=============================================================================
