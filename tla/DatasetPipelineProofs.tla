------------------------ MODULE DatasetPipelineProofs ------------------------
(***************************************************************************)
(* Proofs about DatasetPipeline, for any setups, variants and datasets of  *)
(* an earlier time: what the commands leave, wherever they die, are        *)
(* finitely many files, at paths, and what can be read of them is whole,   *)
(* with sequences for its lists and for the parts of its texts. A manifest *)
(* that the commands write is made of the one they read, and the ids in    *)
(* the names of files come from it; so an invariant needs all of that,     *)
(* and what a reading makes sure of. The last sections are about any       *)
(* bundle: its paths, and what validation makes sure of its members.       *)
(***************************************************************************)
EXTENDS DatasetPipeline, SafeExtractProofs
LOCAL INSTANCE SequencesExt

-----------------------------------------------------------------------------
(* Lists of sets, and sequences of sequences *)

\* The list of a set, with an element chosen at its end.
ListStep(g, s) == IF s = {} THEN <<>> ELSE Append(g[s \ {CHOOSE x \in s : TRUE}], CHOOSE x \in s : TRUE)
ListsOf(S) == CHOOSE g : g = [s \in SUBSET S |-> ListStep(g, s)]
\* The list that the model takes is this one.
LEMMA ListIs == \A S : Arranged(S) = ListsOf(S)[S]
BY DEF Arranged, ListsOf, ListStep

\* There is such a list of all subsets of a finite set.
LEMMA ListIsDefined ==
  ASSUME NEW S, IsFiniteSet(S)
  PROVE  \A s \in SUBSET S : ListsOf(S)[s] = ListStep(ListsOf(S), s)
<1> DEFINE Up(n) == {s \in SUBSET S : Cardinality(s) <= n}
           Good(n) == \E g : g = [s \in Up(n) |-> ListStep(g, s)]
           Bad == {n \in Nat : ~Good(n)}
<1>1. \A s \in SUBSET S : IsFiniteSet(s) /\ Cardinality(s) \in Nat /\ Cardinality(s) <= Cardinality(S)
  BY FS_Subset, FS_CardinalityType
<1>2. Bad = {}
  <2> SUFFICES ASSUME Bad # {} PROVE FALSE
    OBVIOUS
  <2>1. PICK m \in Nat : ~Good(m) /\ \A n \in Nat : ~Good(n) => m <= n
    <3>1. Bad \subseteq Nat
      OBVIOUS
    <3>2. PICK m \in Bad : \A n \in Bad : m <= n
      <4> HIDE DEF Bad
      <4> QED
        BY <3>1, LeastNat
    <3> QED
      BY <3>2
  <2>2. PICK g : \A s \in SUBSET S : Cardinality(s) < m => g[s] = ListStep(g, s)
    <3>1. CASE m = 0
      BY <1>1, <3>1
    <3>2. CASE m # 0
      <4>1. m - 1 \in Nat /\ ~(m <= m - 1)
        BY <3>2
      <4>2. Good(m - 1)
        BY <2>1, <4>1
      <4>3. PICK g : g = [s \in Up(m - 1) |-> ListStep(g, s)]
        BY <4>2
      <4>4. ASSUME NEW s \in SUBSET S, Cardinality(s) < m PROVE g[s] = ListStep(g, s)
        <5>1. s \in Up(m - 1)
          BY <1>1, <4>4
        <5> QED
          BY <4>3, <5>1
      <4> QED
        BY <4>4
    <3> QED
      BY <3>1, <3>2
  <2> DEFINE h == [s \in Up(m) |-> ListStep(g, s)]
  <2>3. ASSUME NEW s \in Up(m) PROVE ListStep(g, s) = ListStep(h, s)
    <3>1. CASE s = {}
      BY <3>1 DEF ListStep
    <3>2. CASE s # {}
      <4>1. PICK c \in s : c = CHOOSE x \in s : TRUE
        BY <3>2
      <4>2. s \ {c} \in SUBSET S /\ Cardinality(s \ {c}) < m /\ s \ {c} \in Up(m)
        BY <1>1, OneLess
      <4>3. h[s \ {c}] = g[s \ {c}]
        BY <2>2, <4>2
      <4> HIDE DEF h
      <4> QED
        BY <3>2, <4>1, <4>3 DEF ListStep
    <3> QED
      BY <3>1, <3>2
  <2>4. h = [s \in Up(m) |-> ListStep(h, s)]
    <3>1. PICK k : k = h
      OBVIOUS
    <3> QED
      BY <2>3, <3>1
  <2> QED
    BY <2>1, <2>4
<1>3. PICK n \in Nat : n = Cardinality(S)
  BY FS_CardinalityType
<1>4. Up(n) = SUBSET S
  BY <1>1, <1>3
<1>5. Good(n)
  BY <1>2
<1>6. \E g : g = [s \in SUBSET S |-> ListStep(g, s)]
  BY <1>4, <1>5
<1> DEFINE f == ListsOf(S)
<1>7. f = [s \in SUBSET S |-> ListStep(f, s)]
  BY <1>6 DEF ListsOf
<1> HIDE DEF f
<1>8. \A s \in SUBSET S : f[s] = ListStep(f, s)
  BY <1>7
<1> QED
  BY <1>8 DEF f

\* An element more at the end of a sequence.
LEMMA OneAppended ==
  ASSUME NEW s, IsSeq(s), NEW x
  PROVE  IsSeq(Append(s, x)) /\ Range(Append(s, x)) = Range(s) \cup {x}
<1> DEFINE T == Range(s) \cup {x}
<1>1. s \in Seq(T)
  BY DEF IsSeq, Range
<1>2. /\ Append(s, x) \in Seq(T) /\ DOMAIN s = 1..Len(s) /\ Len(s) \in Nat
      /\ DOMAIN Append(s, x) = 1..(Len(s) + 1)
      /\ \A n \in 1..Len(s) : Append(s, x)[n] = s[n]
      /\ Append(s, x)[Len(s) + 1] = x
  BY <1>1
<1>3. IsSeq(Append(s, x))
  BY <1>2, SeqIsSeq
<1>4. Range(Append(s, x)) \subseteq T
  BY <1>2 DEF Range
<1>5. PICK l \in Nat : l = Len(s)
  BY <1>2
<1>6. l + 1 \in 1..(l + 1) /\ \A n \in 1..l : n \in 1..(l + 1)
  OBVIOUS
<1>7. T \subseteq Range(Append(s, x))
  BY <1>2, <1>5, <1>6 DEF Range
<1> QED
  BY <1>3, <1>4, <1>7

\* The elements of a finite set in some order are a sequence of all of them.
LEMMA ArrangedIs ==
  ASSUME NEW S, IsFiniteSet(S)
  PROVE  IsSeq(Arranged(S)) /\ Range(Arranged(S)) = S
<1> DEFINE L == ListsOf(S)
           Bad == {s \in SUBSET S : ~(IsSeq(L[s]) /\ Range(L[s]) = s)}
<1>1. \A s \in SUBSET S : L[s] = ListStep(L, s)
  BY ListIsDefined
<1>2. Bad = {}
  <2> SUFFICES ASSUME Bad # {} PROVE FALSE
    OBVIOUS
  <2>1. \A s \in Bad : IsFiniteSet(s)
    BY FS_Subset
  <2>2. PICK s \in Bad : \A y \in Bad : Cardinality(s) <= Cardinality(y)
    <3> HIDE DEF Bad
    <3> QED
      BY <2>1, FewestElements
  <2>3. s \in SUBSET S /\ ~(IsSeq(L[s]) /\ Range(L[s]) = s)
    OBVIOUS
  <2>4. s # {}
    <3>1. IsSeq(<<>>) /\ Range(<<>>) = {}
      BY DEF IsSeq, Range
    <3> QED
      BY <1>1, <2>3, <3>1 DEF ListStep
  <2>5. PICK c \in s : c = CHOOSE x \in s : TRUE
    BY <2>4
  <2>6. L[s] = Append(L[s \ {c}], c)
    BY <1>1, <2>3, <2>4, <2>5 DEF ListStep
  <2>7. s \ {c} \in SUBSET S /\ ~(Cardinality(s) <= Cardinality(s \ {c}))
    <3>1. IsFiniteSet(s) /\ s \ {c} \in SUBSET S
      BY <2>1, <2>3
    <3>2. Cardinality(s \ {c}) < Cardinality(s) /\ Cardinality(s) \in Nat /\ Cardinality(s \ {c}) \in Nat
      BY <3>1, OneLess, FS_Subset, FS_CardinalityType
    <3> QED
      BY <3>1, <3>2
  <2>8. IsSeq(L[s \ {c}]) /\ Range(L[s \ {c}]) = s \ {c}
    BY <2>2, <2>7
  <2>9. PICK l : l = L[s \ {c}]
    OBVIOUS
  <2>10. IsSeq(Append(l, c)) /\ Range(Append(l, c)) = Range(l) \cup {c}
    BY <2>8, <2>9, OneAppended
  <2>11. (s \ {c}) \cup {c} = s
    OBVIOUS
  <2> QED
    BY <2>3, <2>6, <2>8, <2>9, <2>10, <2>11
<1>3. S \in SUBSET S /\ S \notin Bad
  BY <1>2
<1> QED
  BY <1>3, ListIs

\* Two sequences in a row, and a single element.
LEMMA Joined ==
  ASSUME NEW p, NEW q, IsSeq(p), IsSeq(q)
  PROVE  IsSeq(p \o q) /\ Range(p \o q) = Range(p) \cup Range(q)
<1> DEFINE T == Range(p) \cup Range(q)
<1>1. p \in Seq(T) /\ q \in Seq(T)
  BY DEF IsSeq, Range
<1>2. PICK k : k = Len(p)
  OBVIOUS
<1>3. PICK l : l = Len(q)
  OBVIOUS
<1>4. PICK y : y = p \o q
  OBVIOUS
<1>5. /\ y \in Seq(T) /\ Len(y) = k + l
      /\ \A n \in 1..(k + l) : y[n] = IF n <= k THEN p[n] ELSE q[n - k]
  <2>1. /\ p \o q \in Seq(T) /\ Len(p \o q) = Len(p) + Len(q)
        /\ \A n \in 1..(Len(p) + Len(q)) : (p \o q)[n] = IF n <= Len(p) THEN p[n] ELSE q[n - Len(p)]
    BY ONLY <1>1, ConcatProperties
  <2> QED
    BY ONLY <1>2, <1>3, <1>4, <2>1
<1>6. k \in Nat /\ l \in Nat /\ DOMAIN p = 1..k /\ DOMAIN q = 1..l
  BY <1>2, <1>3, SeqParts
<1>7. IsSeq(y) /\ DOMAIN y = 1..(k + l)
  BY <1>5, <1>6, SeqIsSeq, SeqParts
<1>8. ASSUME NEW n \in 1..k PROVE p[n] \in {y[m] : m \in 1..(k + l)}
  <2>1. n \in 1..(k + l) /\ n <= k
    BY <1>6
  <2> QED
    BY <1>5, <2>1
<1>9. ASSUME NEW n \in 1..l PROVE q[n] \in {y[m] : m \in 1..(k + l)}
  <2>1. k + n \in 1..(k + l) /\ ~(k + n <= k) /\ (k + n) - k = n
    BY <1>6
  <2>2. y[k + n] = q[n]
    BY <1>5, <2>1
  <2> QED
    BY <2>1, <2>2
<1>10. ASSUME NEW n \in 1..(k + l) PROVE y[n] \in {p[m] : m \in 1..k} \cup {q[m] : m \in 1..l}
  <2>1. CASE n <= k
    <3>1. n \in 1..k
      BY <1>6, <2>1
    <3> QED
      BY <1>5, <2>1, <3>1
  <2>2. CASE ~(n <= k)
    <3>1. n - k \in 1..l
      BY <1>6, <2>2
    <3> QED
      BY <1>5, <2>2, <3>1
  <2> QED
    BY <2>1, <2>2
<1>11. Range(p) = {p[m] : m \in 1..k} /\ Range(q) = {q[m] : m \in 1..l} /\ Range(y) = {y[m] : m \in 1..(k + l)}
  BY <1>6, <1>7 DEF Range
<1>12. Range(y) = Range(p) \cup Range(q)
  BY ONLY <1>8, <1>9, <1>10, <1>11
<1> QED
  BY <1>4, <1>7, <1>12

\* A function of the positions of a sequence is one.
LEMMA SameLength ==
  ASSUME NEW s, IsSeq(s), NEW t, t = [n \in DOMAIN s |-> t[n]]
  PROVE  IsSeq(t)
<1>1. DOMAIN s = 1..Len(s) /\ Len(s) \in Nat
  BY SeqParts
<1> QED
  BY <1>1, FunctionIsSeq

\* The parts of a sequence up to a position, one after the other.
FlatStep(s, g, i) == IF i = 1 THEN s[i] ELSE g[i - 1] \o s[i]
Flat(s, l) == CHOOSE g : g = [i \in 1..l |-> FlatStep(s, g, i)]

\* There is such a sequence up to each position.
LEMMA FlatIsDefined ==
  ASSUME NEW s, NEW l \in Nat
  PROVE  \A i \in 1..l : Flat(s, l)[i] = FlatStep(s, Flat(s, l), i)
<1> DEFINE Good(n) == \E g : g = [i \in 1..n |-> FlatStep(s, g, i)]
           Bad == {n \in Nat : ~Good(n)}
<1>1. Bad = {}
  <2> SUFFICES ASSUME Bad # {} PROVE FALSE
    OBVIOUS
  <2>1. PICK m \in Nat : ~Good(m) /\ \A n \in Nat : ~Good(n) => m <= n
    <3>1. Bad \subseteq Nat
      OBVIOUS
    <3>2. PICK m \in Bad : \A n \in Bad : m <= n
      <4> HIDE DEF Bad
      <4> QED
        BY <3>1, LeastNat
    <3> QED
      BY <3>2
  <2>2. m # 0
    <3>1. \A i \in 1..0 : FALSE
      OBVIOUS
    <3>2. <<>> = [i \in 1..0 |-> FlatStep(s, <<>>, i)]
      BY <3>1
    <3> QED
      BY <2>1, <3>2
  <2>3. m - 1 \in Nat /\ ~(m <= m - 1)
    BY <2>2
  <2>4. PICK g : g = [i \in 1..(m - 1) |-> FlatStep(s, g, i)]
    BY <2>1, <2>3
  <2> DEFINE h == [i \in 1..m |-> FlatStep(s, g, i)]
  <2>5. ASSUME NEW i \in 1..m PROVE FlatStep(s, g, i) = FlatStep(s, h, i)
    <3>1. CASE i = 1
      BY <3>1 DEF FlatStep
    <3>2. CASE i # 1
      <4>1. i - 1 \in 1..(m - 1) /\ i - 1 \in 1..m
        BY <3>2
      <4>2. h[i - 1] = g[i - 1]
        BY <2>4, <4>1
      <4> HIDE DEF h
      <4> QED
        BY <3>2, <4>2 DEF FlatStep
    <3> QED
      BY <3>1, <3>2
  <2>6. h = [i \in 1..m |-> FlatStep(s, h, i)]
    <3>1. PICK k : k = h
      OBVIOUS
    <3> QED
      BY <2>5, <3>1
  <2> QED
    BY <2>1, <2>6
<1>2. Good(l)
  BY <1>1
<1> DEFINE f == Flat(s, l)
<1>3. f = [i \in 1..l |-> FlatStep(s, f, i)]
  BY <1>2 DEF Flat
<1> HIDE DEF f
<1>4. \A i \in 1..l : f[i] = FlatStep(s, f, i)
  BY <1>3
<1> QED
  BY <1>4 DEF f

\* A sequence of sequences made flat is a sequence of what is in them.
LEMMA FlattenIs ==
  ASSUME NEW s, IsSeq(s), \A i \in DOMAIN s : IsSeq(s[i])
  PROVE  IsSeq(FlattenSeq(s)) /\ Range(FlattenSeq(s)) \subseteq UNION {Range(s[i]) : i \in DOMAIN s}
<1>1. PICK l \in Nat : l = Len(s)
  BY SeqParts
<1>2. DOMAIN s = 1..l
  BY <1>1, SeqParts
<1> DEFINE T == UNION {Range(s[i]) : i \in DOMAIN s}
<1>3. CASE l = 0
  <2>1. FlattenSeq(s) = s
    BY <1>1, <1>3 DEF FlattenSeq
  <2>2. DOMAIN s = {}
    BY <1>2, <1>3
  <2> QED
    BY <2>1, <2>2 DEF Range
<1>4. CASE l # 0
  <2> DEFINE f == Flat(s, l)
             Bad == {i \in 1..l : ~(IsSeq(f[i]) /\ Range(f[i]) \subseteq T)}
  <2>1. FlattenSeq(s) = f[l]
    BY <1>1, <1>4 DEF FlattenSeq, Flat, FlatStep
  <2>2. \A i \in 1..l : f[i] = FlatStep(s, f, i)
    BY FlatIsDefined
  <2> HIDE DEF f
  <2>3. Bad = {}
    <3> SUFFICES ASSUME Bad # {} PROVE FALSE
      OBVIOUS
    <3>1. PICK m \in Bad : \A n \in Bad : m <= n
      <4>1. Bad \subseteq Nat
        OBVIOUS
      <4> HIDE DEF Bad
      <4> QED
        BY <4>1, LeastNat
    <3>2. m \in 1..l /\ ~(IsSeq(f[m]) /\ Range(f[m]) \subseteq T)
      OBVIOUS
    <3>3. IsSeq(s[m]) /\ Range(s[m]) \subseteq T
      BY <1>2, <3>2
    <3>4. CASE m = 1
      BY <2>2, <3>2, <3>3, <3>4 DEF FlatStep
    <3>5. CASE m # 1
      <4>1. m - 1 \in 1..l /\ ~(m <= m - 1)
        BY <3>2, <3>5
      <4>2. IsSeq(f[m - 1]) /\ Range(f[m - 1]) \subseteq T
        BY <3>1, <4>1
      <4>3. f[m] = f[m - 1] \o s[m]
        BY <2>2, <3>2, <3>5 DEF FlatStep
      <4>4. PICK p : p = f[m - 1]
        OBVIOUS
      <4>5. PICK q : q = s[m]
        OBVIOUS
      <4>6. IsSeq(p \o q) /\ Range(p \o q) = Range(p) \cup Range(q)
        BY <3>3, <4>2, <4>4, <4>5, Joined
      <4> QED
        BY ONLY <3>2, <3>3, <4>2, <4>3, <4>4, <4>5, <4>6
    <3> QED
      BY <3>4, <3>5
  <2>4. l \in 1..l /\ l \notin Bad
    BY <1>4, <2>3
  <2> QED
    BY <2>1, <2>4
<1> QED
  BY <1>3, <1>4

\* A path is its parent with one more component, and its prefixes are paths.
LEMMA PathParts ==
  ASSUME NEW p, IsPath(p)
  PROVE  /\ IsSeq(p) /\ Len(p) \in Nat \ {0}
         /\ IsSeq(Parent(p)) /\ Append(Parent(p), p[Len(p)]) = p
         /\ \A n \in 1..Len(p) : IsPath(SubSeq(p, 1, n)) /\ Len(SubSeq(p, 1, n)) = n
<1>1. IsSeq(p) /\ p # <<>>
  BY DEF IsPath
<1>2. PICK l : l = Len(p)
  OBVIOUS
<1>3. l \in Nat \ {0} /\ DOMAIN p = 1..l
  <2>1. l \in Nat /\ DOMAIN p = 1..l /\ p = [n \in 1..l |-> p[n]]
    BY <1>1, <1>2, SeqParts
  <2>2. l # 0
    <3> SUFFICES ASSUME l = 0 PROVE FALSE
      OBVIOUS
    <3>1. DOMAIN p = DOMAIN <<>> /\ Len(p) = Len(<<>>) /\ IsSeq(<<>>) /\ \A i \in 1..0 : FALSE
      BY <1>2, <2>1 DEF IsSeq
    <3>2. p = <<>>
      BY <1>1, <1>2, <3>1, SameSeq
    <3> QED
      BY <1>1, <3>2
  <2> QED
    BY <2>1, <2>2
<1>4. ASSUME NEW n \in 1..l
      PROVE  /\ IsSeq(SubSeq(p, 1, n)) /\ Len(SubSeq(p, 1, n)) = n
             /\ \A i \in 1..n : SubSeq(p, 1, n)[i] = p[i]
  BY <1>1, <1>2, Prefix
<1>5. IsSeq(Parent(p)) /\ Len(Parent(p)) = l - 1 /\ \A i \in 1..(l - 1) : Parent(p)[i] = p[i]
  <2>1. CASE l = 1
    <3>1. p \in Seq({p[n] : n \in DOMAIN p})
      BY <1>1 DEF IsSeq
    <3>2. Parent(p) = <<>>
      BY <1>2, <2>1, <3>1 DEF Parent
    <3>3. IsSeq(<<>>) /\ Len(<<>>) = 0
      BY DEF IsSeq
    <3> QED
      BY <2>1, <3>2, <3>3
  <2>2. CASE l # 1
    <3>1. l - 1 \in 1..l
      BY <1>3, <2>2
    <3> QED
      BY <1>2, <1>4, <3>1 DEF Parent
  <2> QED
    BY <2>1, <2>2
<1>6. PICK d : d = Parent(p)
  OBVIOUS
<1>7. IsSeq(d)
  BY <1>5, <1>6
<1>8. PICK q : q = Append(d, p[l])
  OBVIOUS
<1>9. IsSeq(q) /\ Len(q) = l /\ q[l] = p[l] /\ \A i \in 1..(l - 1) : q[i] = p[i]
  <2>1. IsSeq(q) /\ Len(q) = Len(d) + 1 /\ q[Len(d) + 1] = p[l] /\ \A i \in 1..Len(d) : q[i] = d[i]
    BY <1>7, <1>8, Longer
  <2>2. Len(d) = l - 1 /\ (l - 1) + 1 = l
    BY <1>3, <1>5, <1>6
  <2> QED
    BY <1>5, <1>6, <2>1, <2>2
<1>10. \A i \in 1..l : i \in 1..(l - 1) \/ i = l
  BY <1>3
<1>11. q = p
  BY <1>1, <1>2, <1>3, <1>9, <1>10, SameSeq
<1>13. \A n \in 1..l : SubSeq(p, 1, n) # <<>>
  <2>1. \A n \in 1..l : n # 0
    OBVIOUS
  <2> QED
    BY <1>4, <2>1
<1> QED
  BY <1>1, <1>2, <1>3, <1>4, <1>5, <1>6, <1>8, <1>11, <1>13 DEF IsPath

\* The directories above a path are those above its parent, and the parent.
LEMMA AboveParent ==
  ASSUME NEW p, IsPath(p), NEW n \in 1..(Len(p) - 1)
  PROVE  /\ IsPath(SubSeq(p, 1, n))
         /\ \/ Parent(SubSeq(p, 1, n)) = <<>>
            \/ \E m \in 1..(Len(p) - 1) : Parent(SubSeq(p, 1, n)) = SubSeq(p, 1, m)
<1>1. PICK l : l = Len(p)
  OBVIOUS
<1>2. l \in Nat \ {0} /\ n \in 1..l /\ n \in 1..(l - 1) /\ n \in Nat
  BY <1>1, PathParts
<1>3. PICK d : d = SubSeq(p, 1, n)
  OBVIOUS
<1>4. IsPath(d) /\ Len(d) = n
  BY <1>1, <1>2, <1>3, PathParts
<1>5. IsSeq(p) /\ IsSeq(d)
  BY <1>4 DEF IsPath
<1>6. CASE n = 1
  <2>1. d \in Seq({d[i] : i \in DOMAIN d})
    BY <1>5 DEF IsSeq
  <2>2. Parent(d) = <<>>
    BY <1>4, <2>1, <1>6 DEF Parent
  <2> QED
    BY <1>3, <1>4, <2>2
<1>7. CASE n # 1
  <2>1. n - 1 \in 1..n /\ n - 1 \in 1..(l - 1) /\ n - 1 \in 1..l
    BY <1>2, <1>7
  <2>2. PICK a : a = SubSeq(d, 1, n - 1)
    OBVIOUS
  <2>3. PICK b : b = SubSeq(p, 1, n - 1)
    OBVIOUS
  <2>5. IsSeq(a) /\ Len(a) = n - 1 /\ \A i \in 1..(n - 1) : a[i] = d[i]
    BY <1>4, <1>5, <2>1, <2>2, Prefix
  <2>6. IsSeq(b) /\ Len(b) = n - 1 /\ \A i \in 1..(n - 1) : b[i] = p[i]
    BY <1>1, <1>5, <2>1, <2>3, Prefix
  <2>7. \A i \in 1..n : d[i] = p[i]
    BY <1>1, <1>2, <1>3, <1>5, Prefix
  <2>8. \A i \in 1..(n - 1) : i \in 1..n
    BY <1>2
  <2>9. a = b
    BY <2>5, <2>6, <2>7, <2>8, SameSeq
  <2>10. Parent(d) = a
    BY <1>4, <2>2 DEF Parent
  <2> QED
    BY <1>1, <1>3, <1>4, <2>1, <2>3, <2>9, <2>10
<1> QED
  BY <1>6, <1>7

\* A sequence of one is a path.
LEMMA OneIsSeq == ASSUME NEW x PROVE IsSeq(<<x>>) /\ IsPath(<<x>>)
<1>1. <<x>> \in Seq({x}) /\ <<x>> # <<>>
  OBVIOUS
<1> QED
  BY <1>1, SeqIsSeq DEF IsPath

-----------------------------------------------------------------------------
(* JSON values with all that is in them *)

IsWhole(j) == \E values : AreWhole(values) /\ j \in values
Hull(j) == CHOOSE values : AreWhole(values) /\ j \in values

\* Whole values of one set and of many.
LEMMA HullIs == \A j : IsWhole(j) => AreWhole(Hull(j)) /\ j \in Hull(j)
BY DEF IsWhole, Hull

\* What a set of whole values says of one of them.
WholeIn(j, values) ==
  /\ IsMap(j) => j = Map(j.m) /\ \A k \in DOMAIN j.m : j.m[k] \in values
  /\ j.t = "list" => j = List(j.l) /\ j.l \in Seq(values)
  /\ IsStr(j) => j = Str(j.s) /\ IsSeq(j.s) /\ j.s # <<>>

LEMMA WholeOne == ASSUME NEW V PROVE AreWhole(V) <=> \A j \in V : WholeIn(j, V)
BY DEF AreWhole, WholeIn

LEMMA WholeInMore ==
  ASSUME NEW V, NEW W, V \subseteq W, NEW j, WholeIn(j, V)
  PROVE  WholeIn(j, W)
<1>1. ASSUME j.t = "list" PROVE j = List(j.l) /\ j.l \in Seq(W)
  <2>1. PICK s : s = j.l
    OBVIOUS
  <2>2. s \in Seq(V)
    BY <1>1, <2>1 DEF WholeIn
  <2>3. s \in Seq(W)
    BY ONLY <2>2, V \subseteq W
  <2> QED
    BY <1>1, <2>1, <2>3 DEF WholeIn
<1> QED
  BY <1>1 DEF WholeIn

\* A value is whole when what is in it is.
LEMMA WholeOf ==
  ASSUME NEW T, \A x \in T : IsWhole(x), NEW j, WholeIn(j, T)
  PROVE  IsWhole(j)
<1>1. PICK V : V = UNION {Hull(x) : x \in T}
  OBVIOUS
<1>2. T \subseteq V
  BY <1>1, HullIs
<1>3. PICK W : W = V \cup {j}
  OBVIOUS
<1>4. T \subseteq W /\ j \in W
  BY <1>2, <1>3
<1>5. WholeIn(j, W)
  BY <1>4, WholeInMore
<1>6. ASSUME NEW y \in V PROVE WholeIn(y, W)
  <2>1. PICK x \in T : y \in Hull(x)
    BY <1>1
  <2>2. AreWhole(Hull(x))
    BY HullIs
  <2>3. PICK H : H = Hull(x)
    OBVIOUS
  <2>4. WholeIn(y, H)
    BY <2>1, <2>2, <2>3, WholeOne
  <2>5. H \subseteq W
    BY <1>1, <1>3, <2>3
  <2> QED
    BY <2>4, <2>5, WholeInMore
<1>7. AreWhole(W)
  BY <1>3, <1>5, <1>6, WholeOne
<1> QED
  BY <1>4, <1>7 DEF IsWhole

\* The parts of a whole value.
LEMMA WholeParts ==
  ASSUME NEW j, IsWhole(j)
  PROVE  /\ IsMap(j) => j = Map(j.m) /\ \A k \in DOMAIN j.m : IsWhole(j.m[k])
         /\ j.t = "list" => j = List(j.l) /\ IsSeq(j.l) /\ \A n \in DOMAIN j.l : IsWhole(j.l[n])
         /\ IsStr(j) => j = Str(j.s) /\ IsPath(j.s)
<1>1. PICK V : AreWhole(V) /\ j \in V
  BY DEF IsWhole
<1>2. WholeIn(j, V)
  BY <1>1, WholeOne
<1>3. \A x \in V : IsWhole(x)
  BY <1>1 DEF IsWhole
<1>4. ASSUME j.t = "list" PROVE j = List(j.l) /\ IsSeq(j.l) /\ \A n \in DOMAIN j.l : IsWhole(j.l[n])
  <2>1. PICK s : s = j.l
    OBVIOUS
  <2>2. s \in Seq(V) /\ j = List(j.l)
    BY <1>2, <1>4, <2>1 DEF WholeIn
  <2>3. IsSeq(s) /\ \A n \in DOMAIN s : s[n] \in V
    BY <2>2, SeqIsSeq
  <2> QED
    BY <1>3, <2>1, <2>2, <2>3
<1>5. IsMap(j) => j = Map(j.m) /\ \A k \in DOMAIN j.m : IsWhole(j.m[k])
  BY <1>2, <1>3 DEF WholeIn
<1>6. IsStr(j) => j = Str(j.s) /\ IsPath(j.s)
  BY <1>2 DEF WholeIn, IsPath
<1> QED
  BY <1>4, <1>5, <1>6

\* How whole values are made.
LEMMA WholeMap == ASSUME NEW f, \A k \in DOMAIN f : IsWhole(f[k]) PROVE IsWhole(Map(f))
<1>1. PICK T : T = {f[k] : k \in DOMAIN f}
  OBVIOUS
<1>2. \A x \in T : IsWhole(x)
  BY <1>1
<1>3. Map(f).t = "map" /\ Map(f).m = f
  BY DEF Map
<1>4. WholeIn(Map(f), T)
  BY <1>1, <1>3 DEF WholeIn, IsMap, IsStr
<1> QED
  BY <1>2, <1>4, WholeOf

LEMMA WholeList == ASSUME NEW s, IsSeq(s), \A n \in DOMAIN s : IsWhole(s[n]) PROVE IsWhole(List(s))
<1>1. PICK T : T = {s[n] : n \in DOMAIN s}
  OBVIOUS
<1>2. \A x \in T : IsWhole(x)
  BY <1>1
<1>3. List(s).t = "list" /\ List(s).l = s
  BY DEF List
<1>4. s \in Seq(T)
  BY <1>1 DEF IsSeq
<1>5. WholeIn(List(s), T)
  BY <1>3, <1>4 DEF WholeIn, IsMap, IsStr
<1> QED
  BY <1>2, <1>5, WholeOf

LEMMA WholeStr == ASSUME NEW p, IsPath(p) PROVE IsWhole(Str(p))
<1>1. Str(p).t = "str" /\ Str(p).s = p
  BY DEF Str
<1>2. WholeIn(Str(p), {})
  BY <1>1 DEF WholeIn, IsMap, IsStr, IsPath
<1> QED
  BY <1>2, WholeOf

LEMMA WholeAtom == ASSUME NEW j, j.t \notin {"map", "list", "str"} PROVE IsWhole(j)
<1>1. WholeIn(j, {})
  BY DEF WholeIn, IsMap, IsStr
<1> QED
  BY <1>1, WholeOf

LEMMA WholeText == \A x : IsWhole(Text(x))
<1> SUFFICES ASSUME NEW x PROVE IsWhole(Text(x))
  OBVIOUS
<1>1. PICK p : p = <<x>>
  OBVIOUS
<1>2. IsWhole(Str(p))
  BY <1>1, OneIsSeq, WholeStr
<1> QED
  BY <1>1, <1>2 DEF Text

LEMMA WholeVector == ASSUME NEW x, IsWhole(x) PROVE IsWhole(VectorOf(x))
<1>1. PICK s : s = <<x, Float(2), Float(3)>>
  OBVIOUS
<1>2. s = [n \in 1..3 |-> s[n]] /\ s[1] = x /\ s[2] = Float(2) /\ s[3] = Float(3) /\ 3 \in Nat
  BY <1>1
<1>3. IsSeq(s)
  BY <1>2, FunctionIsSeq
<1>4. \A n \in DOMAIN s : s[n] = x \/ s[n] = Float(2) \/ s[n] = Float(3)
  BY <1>2
<1>5. IsWhole(Float(2)) /\ IsWhole(Float(3))
  <2>1. Float(2).t = "float" /\ Float(3).t = "float"
    BY DEF Float
  <2> QED
    BY <2>1, WholeAtom
<1>6. IsWhole(List(s))
  BY <1>3, <1>4, <1>5, WholeList
<1> QED
  BY <1>1, <1>6 DEF VectorOf

LEMMA WholeNumbers ==
  IsWhole(Null) /\ IsWhole(Vector) /\ \A x : IsWhole(Whole(x)) /\ IsWhole(Float(x)) /\ IsWhole(Bool(x))
<1>1. ASSUME NEW x PROVE IsWhole(Whole(x)) /\ IsWhole(Float(x)) /\ IsWhole(Bool(x))
  <2>1. Whole(x).t = "int" /\ Float(x).t = "float" /\ Bool(x).t = "bool"
    BY DEF Whole, Float, Bool
  <2> QED
    BY <2>1, WholeAtom
<1>2. IsWhole(Null)
  BY WholeAtom DEF Null
<1>3. IsWhole(Vector)
  BY <1>1, WholeVector DEF Vector
<1> QED
  BY <1>1, <1>2, <1>3

\* A field and an item of a whole value; a map with another field, and with more of them.
LEMMA WholeGet == ASSUME NEW j, IsWhole(j), NEW k PROVE IsWhole(Get(j, k))
BY WholeParts, WholeNumbers DEF Get, Has

LEMMA WholeItems ==
  ASSUME NEW j, IsWhole(j)
  PROVE  IsSeq(Items(j)) /\ \A n \in DOMAIN Items(j) : IsWhole(Items(j)[n])
<1>1. CASE j.t = "list"
  BY <1>1, WholeParts DEF Items
<1>2. CASE j.t # "list"
  <2>1. Items(j) = <<>> /\ IsSeq(<<>>) /\ DOMAIN <<>> = {}
    BY <1>2 DEF Items, IsSeq
  <2> QED
    BY <2>1
<1> QED
  BY <1>1, <1>2

LEMMA WholePut ==
  ASSUME NEW j, IsWhole(j), IsMap(j), NEW k, NEW value, IsWhole(value)
  PROVE  IsWhole(Put(j, k, value))
<1>1. PICK f : f = [x \in DOMAIN j.m \cup {k} |-> IF x = k THEN value ELSE j.m[x]]
  OBVIOUS
<1>2. \A x \in DOMAIN j.m : IsWhole(j.m[x])
  BY WholeParts
<1>3. \A x \in DOMAIN f : IsWhole(f[x])
  BY <1>1, <1>2
<1>4. Put(j, k, value) = Map(f)
  BY <1>1 DEF Put
<1> QED
  BY <1>3, <1>4, WholeMap

LEMMA WholeMerge ==
  ASSUME NEW j, IsWhole(j), IsMap(j), NEW more, \A k \in DOMAIN more : IsWhole(more[k])
  PROVE  IsWhole(Merge(j, more))
<1>1. PICK f : f = [k \in DOMAIN j.m \cup DOMAIN more |-> IF k \in DOMAIN more THEN more[k] ELSE j.m[k]]
  OBVIOUS
<1>2. \A x \in DOMAIN j.m : IsWhole(j.m[x])
  BY WholeParts
<1>3. \A x \in DOMAIN f : IsWhole(f[x])
  BY <1>1, <1>2
<1>4. Merge(j, more) = Map(f)
  BY <1>1 DEF Merge
<1> QED
  BY <1>3, <1>4, WholeMap

-----------------------------------------------------------------------------
(* What the commands write *)

\* The JSON in a content is whole, unless it is the manifest of a partial, which is not
\* looked into; and so are the names of files in a scene.
IsOfPartial(j) == Get(j, "schema_version") = Whole(1) /\ Has(j, "source_dataset")
IsSound(content) ==
  /\ content.is = "json" => IsWhole(content.json) \/ IsOfPartial(content.json)
  /\ content.is = "xml" => \A n \in DOMAIN content.shapes : IsWhole(content.shapes[n].filename)
GoodSave(w) == IsPath(w.path) /\ IsSound(w.content)
Saves(s) == IsSeq(s) /\ \A w \in Range(s) : GoodSave(w)
AreFiles(files) == IsFiniteSet(DOMAIN files) /\ \A p \in DOMAIN files : IsPath(p)
HasSound(files) == \A p \in DOMAIN files : IsSound(files[p])
PipelineInv ==
  /\ AreFiles(scene) /\ AreFiles(dataset) /\ AreFiles(partial) /\ HasSound(dataset) /\ HasSound(partial)
  /\ Saves(writes)

\* Lists of writes, joined, are one; and with one more write.
LEMMA SavesJoined == ASSUME NEW p, NEW q, Saves(p), Saves(q) PROVE Saves(p \o q)
BY Joined DEF Saves

LEMMA SavesAppended == ASSUME NEW p, Saves(p), NEW w, GoodSave(w) PROVE Saves(Append(p, w))
BY OneAppended DEF Saves

\* A list of one good write, and of none.
LEMMA SavesOne == ASSUME NEW w, GoodSave(w) PROVE Saves(<<w>>)
<1>1. <<w>> \in Seq({w}) /\ DOMAIN <<w>> = {1} /\ <<w>>[1] = w
  OBVIOUS
<1> QED
  BY <1>1, SeqIsSeq DEF Saves, Range

LEMMA SavesNone == Saves(<<>>)
BY DEF Saves, IsSeq, Range

\* What may raise is one, or none.
LEMMA SavesCheck == ASSUME NEW P PROVE Saves(Check(P))
<1>1. GoodSave(Raise)
  BY OneIsSeq DEF Raise, GoodSave, Save, IsSound
<1> QED
  BY <1>1, SavesOne, SavesNone DEF Check

\* Parts of saves make saves.
LEMMA SavesFlat ==
  ASSUME NEW s, IsSeq(s), \A i \in DOMAIN s : Saves(s[i])
  PROVE  Saves(FlattenSeq(s))
<1>1. IsSeq(FlattenSeq(s)) /\ Range(FlattenSeq(s)) \subseteq UNION {Range(s[i]) : i \in DOMAIN s}
  BY FlattenIs DEF Saves
<1>2. \A i \in DOMAIN s : \A w \in Range(s[i]) : GoodSave(w)
  BY DEF Saves
<1> QED
  BY <1>1, <1>2 DEF Saves

\* One save for each element of a sequence.
LEMMA SavesEach ==
  ASSUME NEW s, IsSeq(s), NEW t, t = [n \in DOMAIN s |-> t[n]], \A n \in DOMAIN s : GoodSave(t[n])
  PROVE  Saves(t)
BY SameLength DEF Saves, Range

\* The same of a number of positions.
LEMMA SavesTo ==
  ASSUME NEW l \in Nat, NEW t, t = [n \in 1..l |-> t[n]], \A n \in 1..l : Saves(t[n])
  PROVE  Saves(FlattenSeq(t))
BY FunctionIsSeq, SavesFlat

\* A file in a directory; and the directories of a dataset.
LEMMA FileIn == ASSUME NEW d, IsSeq(d), NEW x PROVE IsPath(Append(d, x))
<1>1. IsSeq(Append(d, x)) /\ Len(Append(d, x)) = Len(d) + 1 /\ Len(d) \in Nat
  BY Longer, SeqParts
<1>2. Append(d, x) # <<>>
  <2>1. Len(<<>>) = 0 /\ Len(d) + 1 # 0
    BY <1>1
  <2> QED
    BY <1>1, <2>1
<1> QED
  BY <1>1, <1>2 DEF IsPath

\* The directories of views and pairs are sequences.
LEMMA DirectoriesAre ==
  ASSUME NEW view, IsSeq(view)
  PROVE  /\ IsSeq(ViewDir(view)) /\ IsSeq(RfDir(view))
         /\ \A bs : IsSeq(bs) => IsSeq(PairDir(view, bs))
<1>1. IsSeq(<<"views">>) /\ IsSeq(<<"rf">>)
  BY OneIsSeq
<1>2. PICK d : d = ViewDir(view)
  OBVIOUS
<1>3. IsSeq(d)
  BY <1>1, <1>2, Joined DEF ViewDir
<1>4. PICK r : r = RfDir(view)
  OBVIOUS
<1>5. IsSeq(r)
  BY <1>1, <1>2, <1>3, <1>4, Joined DEF RfDir
<1>6. \A bs : IsSeq(bs) => IsSeq(r \o bs)
  BY <1>5, Joined
<1> QED
  BY <1>2, <1>3, <1>4, <1>5, <1>6 DEF PairDir

\* What is sound: what holds no values, JSON that is whole, and what is removed.
LEMMA PlainIsSound ==
  /\ \A content : content.is \notin {"json", "xml"} => IsSound(content)
  /\ \A j : IsWhole(j) => IsSound(JsonFile(j))
  /\ IsSound(Blob) /\ IsSound(Removed) /\ IsSound(JsonFile(Map(<<>>)))
  /\ \A shape : IsSound(Real(shape)) /\ IsSound(Complex(shape)) /\ IsSound(NpzFile(TRUE))
<1>1. \A content : content.is \notin {"json", "xml"} => IsSound(content)
  BY DEF IsSound
<1>2. \A j : IsWhole(j) => IsSound(JsonFile(j))
  BY DEF IsSound, JsonFile
<1>3. IsSound(Blob) /\ IsSound(Removed)
  BY <1>1 DEF Blob, Removed
<1>4. \A shape : IsSound(Real(shape)) /\ IsSound(Complex(shape)) /\ IsSound(NpzFile(TRUE))
  BY <1>1 DEF Real, Complex, NpyFile, NpzFile
<1>5. IsWhole(Map(<<>>))
  <2>1. DOMAIN <<>> = {}
    OBVIOUS
  <2> QED
    BY <2>1, WholeMap
<1> QED
  BY <1>1, <1>2, <1>3, <1>4, <1>5

-----------------------------------------------------------------------------
(* Manifests: what a reading makes sure of, and what is written after it *)

\* No fault among some is no fault in any of them.
LEMMA NoFaultOfAny ==
  ASSUME NEW l \in Nat, NEW outcomes, DOMAIN outcomes = 1..l, FirstOf(outcomes) = NoFault
  PROVE  \A n \in 1..l : outcomes[n] = NoFault
<1>1. PICK c : c = [n \in DOMAIN outcomes |-> <<outcomes[n] # NoFault, outcomes[n]>>]
  OBVIOUS
<1>2. First(c) = NoFault
  BY <1>1 DEF FirstOf
<1>3. DOMAIN c = 1..l /\ \A n \in 1..l : c[n][1] = (outcomes[n] # NoFault) /\ c[n][2] = outcomes[n]
  BY <1>1
<1>4. \/ First(c) = NoFault /\ \A n \in 1..l : ~c[n][1]
      \/ \E n \in 1..l : /\ c[n][1] /\ First(c) = c[n][2]
                         /\ \A m \in 1..l : c[m][1] => n <= m
  BY <1>3, FirstIsLeast
<1> QED
  BY <1>2, <1>3, <1>4

\* A manifest without faults has all its parts in order.
LEMMA NoManifestFault ==
  ASSUME NEW j, ManifestFault(j) = NoFault
  PROVE  HeadIsValid(j) /\ StationsAreValid(j) /\ ViewsAreValid(j) /\ PathsAreValid(j)
<1>1. HeadIsValid(j)
  BY DEF ManifestFault, Invalid, NoFault
<1>2. StationsAreValid(j)
  BY <1>1 DEF ManifestFault, Invalid, NoFault
<1>3. PICK o : o = <<BsIdsFault(j), Invalid(ViewsAreValid(j)), Invalid(PathsAreValid(j))>>
  OBVIOUS
<1>4. FirstOf(o) = NoFault
  BY <1>1, <1>2, <1>3 DEF ManifestFault, Invalid, NoFault
<1>5. /\ DOMAIN o = 1..3 /\ 2 \in 1..3 /\ 3 \in 1..3 /\ 3 \in Nat
      /\ o[2] = Invalid(ViewsAreValid(j)) /\ o[3] = Invalid(PathsAreValid(j))
  BY <1>3
<1>6. o[2] = NoFault /\ o[3] = NoFault
  BY <1>4, <1>5, NoFaultOfAny
<1>7. ViewsAreValid(j) /\ PathsAreValid(j)
  BY <1>5, <1>6 DEF Invalid, NoFault
<1> QED
  BY <1>1, <1>2, <1>7

\* A manifest that was read: its views and, in version 3, their entries of stations
\* are maps whose ids are texts.
IsNamedMap(e, k) == IsMap(e) /\ IsStr(Get(e, k)) /\ IsSeq(Get(e, k).s)
ViewIsRead(j, v) ==
  /\ IsNamedMap(v, "view_id") /\ IsSeq(Items(Get(v, "bs")))
  /\ SchemaVersion(j) = 3 => \A i \in DOMAIN Items(Get(v, "bs")) : IsNamedMap(Items(Get(v, "bs"))[i], "bs_id")
ManifestIsRead(j) ==
  /\ IsMap(j) /\ IsSeq(Items(Get(j, "views")))
  /\ \A n \in DOMAIN Items(Get(j, "views")) : ViewIsRead(j, Items(Get(j, "views"))[n])

\* A view, and a manifest, that are valid and have sequences for lists and texts are read as such.
LEMMA ViewReadOf ==
  ASSUME NEW j, NEW v, StationsAreValid(j), ViewIsValid(j, v), IsWhole(v)
  PROVE  ViewIsRead(j, v)
<1>1. IsStr(Get(v, "view_id"))
  BY DEF ViewIsValid, PoseIsValid, IsText
<1>2. IsMap(v)
  BY <1>1 DEF Get, Has, IsStr, Null
<1>3. PICK bs : bs = Items(Get(v, "bs"))
  OBVIOUS
<1>5. IsSeq(bs) /\ \A i \in DOMAIN bs : IsWhole(bs[i])
  BY <1>3, WholeGet, WholeItems
<1>6. \A e, k : IsWhole(e) /\ IsStr(Get(e, k)) => IsSeq(Get(e, k).s)
  BY WholeGet, WholeParts DEF IsPath
<1>4. ASSUME SchemaVersion(j) = 3, NEW i \in DOMAIN bs PROVE IsNamedMap(bs[i], "bs_id")
  <2>1. [n \in DOMAIN bs |-> Get(bs[n], "bs_id")] = Stations(j)
    BY <1>3, <1>4 DEF ViewIsValid
  <2>2. IsMap(bs[i])
    BY <1>3, <1>4 DEF ViewIsValid, EntryIsValid
  <2>3. PICK l : l = Items(Get(j, "base_stations"))
    OBVIOUS
  <2>4. Stations(j) = [n \in DOMAIN l |-> Get(l[n], "bs_id")]
    BY <1>4, <2>3 DEF Stations
  <2>5. i \in DOMAIN l /\ Get(bs[i], "bs_id") = Get(l[i], "bs_id")
    BY <2>1, <2>4
  <2>6. IsStr(Get(l[i], "bs_id"))
    BY <1>4, <2>3, <2>5 DEF StationsAreValid, StationIsValid, IsText
  <2> QED
    BY <1>3, <1>4, <1>5, <1>6, <2>2, <2>5, <2>6 DEF IsNamedMap
<1> QED
  BY <1>1, <1>2, <1>3, <1>4, <1>5, <1>6 DEF ViewIsRead, IsNamedMap

LEMMA ManifestReadOf ==
  ASSUME NEW j, ManifestFault(j) = NoFault, IsWhole(j)
  PROVE  ManifestIsRead(j)
<1>1. HeadIsValid(j) /\ StationsAreValid(j) /\ ViewsAreValid(j)
  BY NoManifestFault
<1>2. PICK views : views = Items(Get(j, "views"))
  OBVIOUS
<1>3. IsMap(j)
  BY <1>1 DEF HeadIsValid
<1>4. IsSeq(views) /\ \A n \in DOMAIN views : IsWhole(views[n])
  BY <1>2, WholeGet, WholeItems
<1>5. ASSUME NEW n \in DOMAIN views PROVE ViewIsRead(j, views[n])
  <2>1. ViewIsValid(j, views[n])
    BY <1>1, <1>2 DEF ViewsAreValid
  <2> QED
    BY <1>1, <1>4, <2>1, ViewReadOf
<1> QED
  BY <1>2, <1>3, <1>4, <1>5 DEF ManifestIsRead

\* What the parser makes of it: views and entries are sequences, with paths for ids.
ParsedIsNamed(p) ==
  /\ IsSeq(p.views)
  /\ \A n \in DOMAIN p.views :
       /\ IsSeq(p.views[n].id.s) /\ IsSeq(p.views[n].bs)
       /\ \A i \in DOMAIN p.views[n].bs : IsSeq(p.views[n].bs[i].id.s)

\* What is read has the ids that are there, in sequences of their parts.
LEMMA ViewOfRead ==
  ASSUME NEW j, NEW v, ViewIsRead(j, v)
  PROVE  IsSeq(View(j, v).id.s) /\ IsSeq(View(j, v).bs) /\ \A i \in DOMAIN View(j, v).bs : IsSeq(View(j, v).bs[i].id.s)
<1>1. View(j, v).id = Get(v, "view_id") /\ View(j, v).bs = BsEntries(j, v)
  BY DEF View
<1>2. IsSeq(Get(v, "view_id").s)
  BY DEF ViewIsRead, IsNamedMap
<1>3. CASE SchemaVersion(j) = 3
  <2>1. PICK bs : bs = Items(Get(v, "bs"))
    OBVIOUS
  <2>2. PICK e : e = BsEntries(j, v)
    OBVIOUS
  <2>3. e = [n \in DOMAIN bs |-> [id |-> Get(bs[n], "bs_id"), energy |-> Get(bs[n], "hemisphere_energy").m,
                                  artifacts |-> Paths(Get(bs[n], "artifacts"), Keys(Get(bs[n], "artifacts")))]]
    BY <1>3, <2>1, <2>2 DEF BsEntries
  <2>4. IsSeq(bs) /\ \A i \in DOMAIN bs : IsSeq(Get(bs[i], "bs_id").s)
    BY <1>3, <2>1 DEF ViewIsRead, IsNamedMap
  <2>5. DOMAIN e = DOMAIN bs /\ \A i \in DOMAIN bs : e[i].id = Get(bs[i], "bs_id")
    BY <2>3
  <2>6. e = [n \in DOMAIN bs |-> e[n]]
    BY <2>3
  <2>7. IsSeq(e)
    BY <2>4, <2>6, SameLength
  <2> QED
    BY <1>1, <1>2, <2>2, <2>4, <2>5, <2>7
<1>4. CASE SchemaVersion(j) # 3
  <2>1. Stations(j)[1] = Str(<<"bs_000">>)
    BY <1>4 DEF Stations
  <2>2. PICK x : /\ BsEntries(j, v) = <<x>> /\ x.id = Stations(j)[1]
    BY <1>4 DEF BsEntries
  <2>3. IsSeq(BsEntries(j, v)) /\ DOMAIN BsEntries(j, v) = {1} /\ BsEntries(j, v)[1] = x
    BY <2>2, OneIsSeq
  <2>4. x.id.s = <<"bs_000">> /\ IsSeq(<<"bs_000">>)
    BY <2>1, <2>2, OneIsSeq DEF Str
  <2> QED
    BY <1>1, <1>2, <2>3, <2>4
<1> QED
  BY <1>3, <1>4

\* The same of the manifest as a whole.
LEMMA ParsedOfRead ==
  ASSUME NEW j, ManifestIsRead(j)
  PROVE  /\ ParsedIsNamed(Parsed(j)) /\ DOMAIN Parsed(j).views = DOMAIN Items(Get(j, "views"))
         /\ Parsed(j).version = SchemaVersion(j)
<1>1. PICK l : l = Items(Get(j, "views"))
  OBVIOUS
<1>2. PICK views : views = Parsed(j).views
  OBVIOUS
<1>3. views = [n \in DOMAIN l |-> View(j, l[n])] /\ Parsed(j).version = SchemaVersion(j)
  BY <1>1, <1>2 DEF Parsed
<1>4. views = [n \in DOMAIN l |-> views[n]] /\ DOMAIN views = DOMAIN l
  BY <1>3
<1>5. IsSeq(l) /\ \A n \in DOMAIN l : ViewIsRead(j, l[n])
  BY <1>1 DEF ManifestIsRead
<1>6. IsSeq(views)
  BY <1>4, <1>5, SameLength
<1>7. ASSUME NEW n \in DOMAIN views
      PROVE  IsSeq(views[n].id.s) /\ IsSeq(views[n].bs) /\ \A i \in DOMAIN views[n].bs : IsSeq(views[n].bs[i].id.s)
  <2>1. ViewIsRead(j, l[n]) /\ views[n] = View(j, l[n])
    BY <1>3, <1>5
  <2> QED
    BY <2>1, ViewOfRead
<1> QED
  BY <1>1, <1>2, <1>3, <1>4, <1>6, <1>7 DEF ParsedIsNamed

\* The directories of a dataset have components.
LEMMA JoinedIsPath == ASSUME NEW p, IsPath(p), NEW q, IsSeq(q) PROVE IsPath(p \o q)
<1>1. IsSeq(p) /\ Len(p) \in Nat \ {0}
  BY PathParts DEF IsPath
<1>2. PICK y : y = p \o q
  OBVIOUS
<1>3. IsSeq(y)
  BY <1>1, <1>2, Joined
<1>4. Len(y) = Len(p) + Len(q)
  <2> DEFINE T == Range(p) \cup Range(q)
  <2>1. p \in Seq(T) /\ q \in Seq(T)
    BY <1>1 DEF IsSeq, Range
  <2>2. Len(p \o q) = Len(p) + Len(q)
    BY ONLY <2>1, ConcatProperties
  <2> QED
    BY <1>2, <2>2
<1>5. Len(q) \in Nat
  BY SeqParts
<1>6. Len(y) # 0
  BY <1>1, <1>4, <1>5
<1>7. y # <<>>
  <2>1. Len(<<>>) = 0
    OBVIOUS
  <2> QED
    BY <1>6, <2>1
<1> QED
  BY <1>2, <1>3, <1>7 DEF IsPath

\* The directories of views and pairs are paths, wherever the ids come from.
LEMMA DirectoriesArePaths ==
  ASSUME NEW view, IsSeq(view)
  PROVE  /\ IsPath(ViewDir(view)) /\ IsPath(RfDir(view))
         /\ \A bs : IsSeq(bs) => IsPath(PairDir(view, bs))
<1>1. IsPath(<<"views">>) /\ IsSeq(<<"rf">>)
  BY OneIsSeq
<1>2. PICK d : d = ViewDir(view)
  OBVIOUS
<1>3. IsPath(d)
  BY <1>1, <1>2, JoinedIsPath DEF ViewDir
<1>4. PICK r : r = RfDir(view)
  OBVIOUS
<1>5. IsPath(r)
  BY <1>1, <1>2, <1>3, <1>4, JoinedIsPath DEF RfDir
<1>6. \A bs : IsSeq(bs) => IsPath(r \o bs)
  BY <1>5, JoinedIsPath
<1> QED
  BY <1>2, <1>3, <1>4, <1>5, <1>6 DEF PairDir

\* Ids of base stations and views.
LEMMA IdsAre == \A n \in 1..2 : IsPath(BsId(n)) /\ IsPath(ViewId(n))
<1> SUFFICES ASSUME NEW n \in 1..2 PROVE IsPath(BsId(n)) /\ IsPath(ViewId(n))
  OBVIOUS
<1>1. n = 1 \/ n = 2
  OBVIOUS
<1>2. \E x : BsId(n) = <<x>>
  <2>1. BsId(1) = <<"bs_000">> /\ BsId(2) = <<"bs_001">>
    BY DEF BsId
  <2> QED
    BY <1>1, <2>1
<1>3. \E x : ViewId(n) = <<x>>
  <2>1. ViewId(1) = <<"ue_000000">> /\ ViewId(2) = <<"ue_000001">>
    BY DEF ViewId
  <2> QED
    BY <1>1, <2>1
<1> QED
  BY <1>2, <1>3, OneIsSeq

\* The manifest of a new dataset, with the numbers of its setup.
IsAFloat(x) == x.t \in {"float", "nan", "inf"}
IsSetup(c) ==
  /\ c.stations \in 0..2 /\ c.views \in 0..2 /\ c.bins \in Nat
  /\ IsAFloat(c.carrier) /\ IsAFloat(c.bandwidth) /\ IsAFloat(c.radius)
LEMMA FloatIsWhole ==
  ASSUME NEW x, IsAFloat(x)
  PROVE  IsWhole(x) /\ IsWhole(VectorOf(x)) /\ \A n : IsWhole(Shifted(x, n))
<1>1. IsWhole(x)
  BY WholeAtom DEF IsAFloat
<1> QED
  BY <1>1, WholeVector, WholeNumbers DEF Shifted

LEMMA PairEntryIsWhole ==
  ASSUME NEW c, IsAFloat(c.radius), NEW view, IsSeq(view), NEW bs, IsPath(bs)
  PROVE  IsWhole(PairEntry(c, view, bs))
<1>1. IsWhole(Map([front |-> Float(2), back |-> Float(1)]))
  <2>1. PICK f : f = [front |-> Float(2), back |-> Float(1)]
    OBVIOUS
  <2>2. \A k \in DOMAIN f : f[k] = Float(2) \/ f[k] = Float(1)
    BY <2>1
  <2>3. IsWhole(Map(f))
    BY <2>2, WholeMap, WholeNumbers
  <2> QED
    BY <2>1, <2>3
<1>2. IsWhole(Map([k \in DOMAIN PairFiles |-> Str(Append(PairDir(view, bs), PairFiles[k]))]))
  <2>1. PICK f : f = [k \in DOMAIN PairFiles |-> Str(Append(PairDir(view, bs), PairFiles[k]))]
    OBVIOUS
  <2>2. IsSeq(PairDir(view, bs))
    BY DirectoriesAre DEF IsPath
  <2>3. \A k \in DOMAIN f : IsWhole(f[k])
    BY <2>1, <2>2, FileIn, WholeStr
  <2> QED
    BY <2>1, <2>3, WholeMap
<1>3. PICK e, a : /\ e = Map([front |-> Float(2), back |-> Float(1)])
                  /\ a = Map([k \in DOMAIN PairFiles |-> Str(Append(PairDir(view, bs), PairFiles[k]))])
  OBVIOUS
<1>4. PICK s, v, b : s = Str(bs) /\ v = VectorOf(c.radius) /\ b = Bool(TRUE)
  OBVIOUS
<1>5. PICK f : f = [bs_id |-> s, bs_direction_local |-> v, bs_in_front_hemisphere |-> b,
                    hemisphere_energy |-> e, artifacts |-> a]
  OBVIOUS
<1>6. \A k \in DOMAIN f : f[k] = s \/ f[k] = v \/ f[k] = b \/ f[k] = e \/ f[k] = a
  BY ONLY <1>5
<1>7. \A k \in DOMAIN f : IsWhole(f[k])
  BY <1>1, <1>2, <1>3, <1>4, <1>6, FloatIsWhole, WholeNumbers, WholeStr
<1>8. IsWhole(Map(f))
  BY <1>7, WholeMap
<1> QED
  BY <1>3, <1>4, <1>5, <1>8 DEF PairEntry

\* A list of whole values, one for each position.
LEMMA WholeListTo ==
  ASSUME NEW l \in Nat, NEW t, t = [n \in 1..l |-> t[n]], \A n \in 1..l : IsWhole(t[n])
  PROVE  IsWhole(List(t))
BY FunctionIsSeq, WholeList

LEMMA ViewEntryIsWhole ==
  ASSUME NEW c, IsSetup(c), NEW view, IsPath(view)
  PROVE  IsWhole(ViewEntry(c, view))
<1>1. PICK bs : bs = [n \in 1..c.stations |-> PairEntry(c, view, BsId(n))]
  OBVIOUS
<1>2. IsWhole(List(bs))
  <2>1. c.stations \in Nat /\ bs = [n \in 1..c.stations |-> bs[n]] /\ \A n \in 1..c.stations : n \in 1..2
    BY <1>1 DEF IsSetup
  <2>2. \A n \in 1..c.stations : IsWhole(bs[n])
    BY <1>1, <2>1, IdsAre, PairEntryIsWhole DEF IsPath, IsSetup
  <2> QED
    BY <2>1, <2>2, WholeListTo
<1>3. IsWhole(Str(Pose(view))) /\ IsWhole(Str(Aperture(view)))
  BY DirectoriesAre, FileIn, WholeStr DEF Pose, Aperture, IsPath
<1>4. PICK g : g = [pose |-> Str(Pose(view)), aperture_cfr |-> Str(Aperture(view))]
  OBVIOUS
<1>5. IsWhole(Map(g))
  <2>1. \A k \in DOMAIN g : g[k] = Str(Pose(view)) \/ g[k] = Str(Aperture(view))
    BY <1>4
  <2> QED
    BY <1>3, <2>1, WholeMap
<1>6. PICK x, y, r : x = List(bs) /\ y = Map(g) /\ r = VectorOf(c.radius)
  OBVIOUS
<1>7. PICK f : f = [view_id |-> Str(view), position_m |-> r, look_at_m |-> Vector, orientation_rad |-> r,
                    artifacts |-> y, bs |-> x]
  OBVIOUS
<1>8. \A k \in DOMAIN f : f[k] = Str(view) \/ f[k] = r \/ f[k] = Vector \/ f[k] = x \/ f[k] = y
  BY <1>7
<1>9. IsWhole(Map(f))
  <2>1. IsWhole(r)
    BY <1>6, FloatIsWhole DEF IsSetup
  <2> QED
    BY <1>2, <1>5, <1>6, <1>8, <2>1, WholeMap, WholeNumbers, WholeStr
<1> QED
  BY <1>1, <1>4, <1>6, <1>7, <1>9 DEF ViewEntry

\* The parts of the manifest that multiview writes.
LEMMA ConfigIsWhole ==
  ASSUME NEW c, IsSetup(c)
  PROVE  IsWhole(Map([carrier_frequency_hz |-> c.carrier, bandwidth_hz |-> c.bandwidth,
                      num_frequency_bins |-> Whole(c.bins), rx_rows |-> Whole(c.rows),
                      rx_cols |-> Whole(c.cols), synthetic_array |-> Bool(TRUE)]))
<1>1. PICK g, w, n, x, y, b : /\ g = c.carrier /\ w = c.bandwidth /\ n = Whole(c.bins)
                              /\ x = Whole(c.rows) /\ y = Whole(c.cols) /\ b = Bool(TRUE)
  OBVIOUS
<1>2. IsWhole(g) /\ IsWhole(w) /\ IsWhole(n) /\ IsWhole(x) /\ IsWhole(y) /\ IsWhole(b)
  BY <1>1, FloatIsWhole, WholeNumbers DEF IsSetup
<1>3. PICK f : f = [carrier_frequency_hz |-> g, bandwidth_hz |-> w, num_frequency_bins |-> n,
                    rx_rows |-> x, rx_cols |-> y, synthetic_array |-> b]
  OBVIOUS
<1>4. \A k \in DOMAIN f : f[k] = g \/ f[k] = w \/ f[k] = n \/ f[k] = x \/ f[k] = y \/ f[k] = b
  BY ONLY <1>3
<1>5. IsWhole(Map(f))
  BY <1>2, <1>4, WholeMap
<1> QED
  BY <1>1, <1>3, <1>5

LEMMA StationIsWhole ==
  ASSUME NEW id, IsWhole(id), NEW n
  PROVE  IsWhole(Map([bs_id |-> id, index |-> Whole(n - 1), position_m |-> Vector, look_at_m |-> Vector]))
<1>1. PICK f : f = [bs_id |-> id, index |-> Whole(n - 1), position_m |-> Vector, look_at_m |-> Vector]
  OBVIOUS
<1>2. \A k \in DOMAIN f : f[k] = id \/ f[k] = Whole(n - 1) \/ f[k] = Vector
  BY <1>1
<1>3. IsWhole(Map(f))
  BY <1>2, WholeMap, WholeNumbers
<1> QED
  BY <1>1, <1>3

LEMMA ObservationIsWhole ==
  ASSUME NEW ids, IsWhole(List(ids))
  PROVE  IsWhole(Map([axis_order |-> List([n \in 1..5 |-> Text(ApertureAxes(3)[n])]),
                      bs_ids |-> List(ids), hemispheres |-> List(<<Text("front"), Text("back")>>)]))
<1>1. IsWhole(List([n \in 1..5 |-> Text(ApertureAxes(3)[n])]))
  <2>1. PICK t : t = [n \in 1..5 |-> Text(ApertureAxes(3)[n])]
    OBVIOUS
  <2>2. t = [n \in 1..5 |-> t[n]] /\ 5 \in Nat /\ \A n \in 1..5 : IsWhole(t[n])
    BY <2>1, WholeText
  <2>3. IsWhole(List(t))
    BY <2>2, WholeListTo
  <2> QED
    BY <2>1, <2>3
<1>2. IsWhole(List(<<Text("front"), Text("back")>>))
  <2>1. PICK t : t = <<Text("front"), Text("back")>>
    OBVIOUS
  <2>2. t = [n \in 1..2 |-> t[n]] /\ 2 \in Nat /\ \A n \in 1..2 : t[n] = Text("front") \/ t[n] = Text("back")
    BY <2>1
  <2>3. IsWhole(List(t))
    BY <2>2, WholeListTo, WholeText
  <2> QED
    BY <2>1, <2>3
<1>3. PICK x, y, z : /\ x = List([n \in 1..5 |-> Text(ApertureAxes(3)[n])]) /\ y = List(ids)
                     /\ z = List(<<Text("front"), Text("back")>>)
  OBVIOUS
<1>4. PICK f : f = [axis_order |-> x, bs_ids |-> y, hemispheres |-> z]
  OBVIOUS
<1>5. \A k \in DOMAIN f : f[k] = x \/ f[k] = y \/ f[k] = z
  BY <1>4
<1>6. IsWhole(Map(f))
  BY <1>1, <1>2, <1>3, <1>5, WholeMap
<1> QED
  BY <1>3, <1>4, <1>6

\* A map of one field, or of two.
LEMMA WholeTwo == ASSUME NEW f, NEW x, NEW y, \A k \in DOMAIN f : f[k] = x \/ f[k] = y, IsWhole(x), IsWhole(y) PROVE IsWhole(Map(f))
BY WholeMap

\* The manifest that multiview writes is whole.
LEMMA MultiviewIsWhole ==
  ASSUME NEW c, IsSetup(c)
  PROVE  IsWhole(MultiviewManifest(c))
<1>0. c.stations \in 0..2 /\ c.views \in 0..2 /\ c.bins \in Nat
  BY DEF IsSetup
<1>1. PICK ids : ids = [n \in 1..c.stations |-> Str(BsId(n))]
  OBVIOUS
<1>2. \A n \in 1..c.stations : IsWhole(ids[n])
  <2>1. \A n \in 1..c.stations : n \in 1..2
    BY <1>0
  <2> QED
    BY <1>1, <2>1, IdsAre, WholeStr
<1>3. IsWhole(List(ids))
  <2>1. ids = [n \in 1..c.stations |-> ids[n]] /\ c.stations \in Nat
    BY <1>0, <1>1
  <2> QED
    BY <1>2, <2>1, WholeListTo
<1>4. PICK config : config = Map([carrier_frequency_hz |-> c.carrier, bandwidth_hz |-> c.bandwidth,
                                  num_frequency_bins |-> Whole(c.bins), rx_rows |-> Whole(c.rows),
                                  rx_cols |-> Whole(c.cols), synthetic_array |-> Bool(TRUE)])
  OBVIOUS
<1>5. IsWhole(config)
  BY <1>4, ConfigIsWhole
<1>6. PICK offsets, frequencies : /\ offsets = [n \in 1..c.bins |-> Float(n)]
                                  /\ frequencies = [n \in 1..c.bins |-> Shifted(c.carrier, n)]
  OBVIOUS
<1>7. IsWhole(List(offsets)) /\ IsWhole(List(frequencies))
  <2>1. \A n \in 1..c.bins : IsWhole(offsets[n]) /\ IsWhole(frequencies[n])
    BY <1>6, FloatIsWhole, WholeNumbers DEF IsSetup
  <2>2. offsets = [n \in 1..c.bins |-> offsets[n]] /\ frequencies = [n \in 1..c.bins |-> frequencies[n]]
    BY <1>6
  <2> QED
    BY <1>0, <2>1, <2>2, WholeListTo
<1>8. PICK stations : stations = [n \in 1..c.stations |-> Map([bs_id |-> ids[n], index |-> Whole(n - 1),
                                                               position_m |-> Vector, look_at_m |-> Vector])]
  OBVIOUS
<1>9. IsWhole(List(stations))
  <2>1. stations = [n \in 1..c.stations |-> stations[n]] /\ c.stations \in Nat
    BY <1>0, <1>8
  <2>2. \A n \in 1..c.stations : IsWhole(stations[n])
    BY <1>2, <1>8, StationIsWhole
  <2> QED
    BY <2>1, <2>2, WholeListTo
<1>10. PICK observation : observation = Map([axis_order |-> List([n \in 1..5 |-> Text(ApertureAxes(3)[n])]),
                                             bs_ids |-> List(ids), hemispheres |-> List(<<Text("front"), Text("back")>>)])
  OBVIOUS
<1>11. IsWhole(observation)
  BY <1>3, <1>10, ObservationIsWhole
<1>12. PICK camera : camera = Map([ray_directions |-> Text("camera_model.npz")])
  OBVIOUS
<1>13. IsWhole(camera)
  <2>1. PICK f, x : x = Text("camera_model.npz") /\ f = [ray_directions |-> x]
    OBVIOUS
  <2>2. \A k \in DOMAIN f : f[k] = x
    BY <2>1
  <2> QED
    BY <1>12, <2>1, <2>2, WholeMap, WholeText
<1>14. PICK views : views = [n \in 1..c.views |-> ViewEntry(c, ViewId(n))]
  OBVIOUS
<1>15. IsWhole(List(views))
  <2>1. \A n \in 1..c.views : n \in 1..2
    BY <1>0
  <2>2. \A n \in 1..c.views : IsWhole(views[n])
    BY <1>14, <2>1, IdsAre, ViewEntryIsWhole
  <2>3. views = [n \in 1..c.views |-> views[n]] /\ c.views \in Nat
    BY <1>0, <1>14
  <2> QED
    BY <2>2, <2>3, WholeListTo
<1>16. PICK lo, lf, ls, lv : lo = List(offsets) /\ lf = List(frequencies) /\ ls = List(stations) /\ lv = List(views)
  OBVIOUS
<1>17. PICK m, s, g, q : /\ m = Text("multibs_multiue_rf_camera_dataset") /\ s = Text("scene.xml")
                         /\ g = Text("path_geometry_gt.npz") /\ q = Text("path_schema.json")
  OBVIOUS
<1>18. PICK f : f = [schema_version |-> Whole(3), mode |-> m, source_scene |-> s, config |-> config,
                     frequency_offsets_hz |-> lo, absolute_frequencies_hz |-> lf,
                     delay_resolution_s |-> Float(1), unambiguous_delay_s |-> Float(2),
                     base_stations |-> ls, raw_observation |-> observation, camera_model |-> camera,
                     path_geometry_gt |-> g, path_schema |-> q, views |-> lv]
  OBVIOUS
<1>19. \A k \in DOMAIN f : \/ f[k] = Whole(3) \/ f[k] = m \/ f[k] = s \/ f[k] = config \/ f[k] = lo \/ f[k] = lf
                           \/ f[k] = Float(1) \/ f[k] = Float(2) \/ f[k] = ls \/ f[k] = observation
                           \/ f[k] = camera \/ f[k] = g \/ f[k] = q \/ f[k] = lv
  BY <1>18
<1>20. IsWhole(m) /\ IsWhole(s) /\ IsWhole(g) /\ IsWhole(q)
  BY <1>17, WholeText
<1>21. IsWhole(lo) /\ IsWhole(lf) /\ IsWhole(ls) /\ IsWhole(lv)
  BY <1>7, <1>9, <1>15, <1>16
<1>22. \A k \in DOMAIN f : IsWhole(f[k])
  BY <1>5, <1>11, <1>13, <1>19, <1>20, <1>21, WholeNumbers
<1>23. IsWhole(Map(f))
  BY <1>22, WholeMap
<1>24. MultiviewManifest(c) = Map(f)
  BY ONLY <1>1, <1>4, <1>6, <1>8, <1>10, <1>12, <1>14, <1>16, <1>17, <1>18 DEF MultiviewManifest
<1> QED
  BY <1>23, <1>24

\* The views of a manifest that was read, after each was changed, and another field.
LEMMA PatchedIsWhole ==
  ASSUME ManifestIsRead(Manifest), IsWhole(Manifest), NEW views,
         views = [n \in DOMAIN Items(Get(Manifest, "views")) |-> views[n]], \A n \in DOMAIN views : IsWhole(views[n])
  PROVE  IsWhole(Put(Manifest, "views", List(views))) /\ IsMap(Put(Manifest, "views", List(views)))
<1>1. IsSeq(Items(Get(Manifest, "views"))) /\ IsMap(Manifest)
  BY DEF ManifestIsRead
<1>2. IsSeq(views)
  BY <1>1, SameLength
<1>3. IsWhole(List(views))
  BY <1>2, WholeList
<1>4. IsMap(Put(Manifest, "views", List(views)))
  BY DEF Put, IsMap, Map
<1> QED
  BY <1>1, <1>3, <1>4, WholePut

\* The artifacts of a view and, in version 3, of its entries are maps.
LEMMA ArtifactsAreMaps ==
  ASSUME NEW j, ManifestFault(j) = NoFault, NEW n \in DOMAIN Items(Get(j, "views"))
  PROVE  LET v == Items(Get(j, "views"))[n]
         IN  /\ IsMap(Get(v, "artifacts"))
             /\ SchemaVersion(j) = 3 => \A i \in DOMAIN Items(Get(v, "bs")) : IsMap(Get(Items(Get(v, "bs"))[i], "artifacts"))
<1>1. PICK v : v = Items(Get(j, "views"))[n]
  OBVIOUS
<1>2. ViewIsValid(j, v)
  BY <1>1, NoManifestFault DEF ViewsAreValid
<1>3. IsMap(Get(v, "artifacts"))
  BY <1>2 DEF ViewIsValid, PoseIsValid, IsArtifacts
<1>4. ASSUME SchemaVersion(j) = 3, NEW i \in DOMAIN Items(Get(v, "bs"))
      PROVE  IsMap(Get(Items(Get(v, "bs"))[i], "artifacts"))
  BY <1>2, <1>4 DEF ViewIsValid, IsArtifacts
<1> QED
  BY <1>1, <1>3, <1>4

\* The manifests that optical and observe write are whole when the one they read is.
LEMMA OpticalIsWhole ==
  ASSUME ManifestFault(Manifest) = NoFault, ManifestIsRead(Manifest), IsWhole(Manifest)
  PROVE  IsWhole(OpticalManifest)
<1>1. PICK l : l = Items(Get(Manifest, "views"))
  OBVIOUS
<1>2. PICK p : p = Parsed(Manifest).views
  OBVIOUS
<1> DEFINE more(n) == [k \in DOMAIN OpticalFiles |-> Str(OpticalFile(p[n], k))]
<1>3. PICK views : views = [n \in DOMAIN l |-> Put(l[n], "artifacts", Merge(Get(l[n], "artifacts"), more(n)))]
  OBVIOUS
<1>4. PICK tr : tr = Map([pinhole |-> Map([transforms |-> Text("transforms.json")])])
  OBVIOUS
<1>5. OpticalManifest = Put(Put(Manifest, "views", List(views)), "optical_reference", tr)
  BY <1>1, <1>2, <1>3, <1>4 DEF OpticalManifest, PatchViews
<1>6. ASSUME NEW n \in DOMAIN views PROVE IsWhole(views[n])
  <2>1. n \in DOMAIN l /\ views[n] = Put(l[n], "artifacts", Merge(Get(l[n], "artifacts"), more(n)))
    BY <1>3
  <2>2. IsWhole(l[n]) /\ IsMap(l[n])
    BY <1>1, <2>1, WholeGet, WholeItems DEF ManifestIsRead, ViewIsRead, IsNamedMap
  <2>3. IsWhole(Get(l[n], "artifacts")) /\ IsMap(Get(l[n], "artifacts"))
    BY <1>1, <2>1, <2>2, WholeGet, ArtifactsAreMaps
  <2>4. PICK f : f = more(n)
    OBVIOUS
  <2>5. \A k \in DOMAIN f : IsWhole(f[k])
    <3>1. ASSUME NEW k \in DOMAIN OpticalFiles PROVE IsWhole(Str(OpticalFile(p[n], k)))
      <4>1. n \in DOMAIN p /\ IsSeq(p[n].id.s)
        BY <1>1, <1>2, <2>1, ParsedOfRead DEF ParsedIsNamed
      <4>2. PICK d, o : d = ViewDir(p[n].id.s) /\ o = <<"optical", OpticalFiles[k]>>
        OBVIOUS
      <4>3. IsSeq(o)
        <5>1. o = [i \in 1..2 |-> o[i]] /\ 2 \in Nat
          BY <4>2
        <5> QED
          BY <5>1, FunctionIsSeq
      <4>4. IsPath(d \o o)
        BY <4>1, <4>2, <4>3, DirectoriesArePaths, JoinedIsPath
      <4> QED
        BY <4>2, <4>4, WholeStr DEF OpticalFile
    <3> QED
      BY <2>4, <3>1
  <2>6. IsWhole(Merge(Get(l[n], "artifacts"), f))
    BY <2>3, <2>5, WholeMerge
  <2> QED
    BY <2>1, <2>2, <2>4, <2>6, WholePut
<1> HIDE DEF more
<1>7. views = [n \in DOMAIN l |-> views[n]]
  BY <1>3
<1>8. IsWhole(Put(Manifest, "views", List(views))) /\ IsMap(Put(Manifest, "views", List(views)))
  BY <1>1, <1>6, <1>7, PatchedIsWhole
<1>9. IsWhole(tr)
  <2>1. PICK x, f : x = Text("transforms.json") /\ f = [transforms |-> x]
    OBVIOUS
  <2>2. IsWhole(Map(f))
    BY <2>1, WholeMap, WholeText
  <2>3. PICK y, g : y = Map(f) /\ g = [pinhole |-> y]
    OBVIOUS
  <2>4. IsWhole(Map(g))
    BY <2>2, <2>3, WholeMap
  <2> QED
    BY <1>4, <2>1, <2>3, <2>4
<1> QED
  BY <1>5, <1>8, <1>9, WholePut

\* The file of an observation is at a path.
LEMMA ObservedFileIsPath ==
  ASSUME NEW v, IsSeq(v.id.s), NEW e, IsSeq(e.id.s), NEW name, NEW f
  PROVE  IsPath(ObservedFile(v, e, name, f))
<1>1. PICK r : r = RfDir(v.id.s)
  OBVIOUS
<1>2. IsPath(r)
  BY <1>1, DirectoriesArePaths
<1>3. PICK b : b = e.id.s
  OBVIOUS
<1>4. IsPath(r \o b)
  BY <1>2, <1>3, JoinedIsPath
<1>5. PICK o : o = <<"observed", name>>
  OBVIOUS
<1>6. IsSeq(o)
  <2>1. o = [k \in 1..2 |-> o[k]] /\ 2 \in Nat
    BY <1>5
  <2> QED
    BY <2>1, FunctionIsSeq
<1>7. PICK d : d = r \o b
  OBVIOUS
<1>8. IsPath(d \o o)
  BY <1>4, <1>6, <1>7, JoinedIsPath
<1>9. ObservedFile(v, e, name, f) = Append(r \o b \o o, f)
  BY <1>1, <1>3, <1>5 DEF ObservedFile
<1> QED
  BY <1>7, <1>8, <1>9, FileIn DEF IsPath

LEMMA ObservedIsWhole ==
  ASSUME ManifestFault(Manifest) = NoFault, ManifestIsRead(Manifest), IsWhole(Manifest), SchemaVersion(Manifest) = 3, NEW name
  PROVE  IsWhole(ObservedManifest(name))
<1> DEFINE key(kind) == "observed." \o name \o kind
           file(v, e, f) == Str(ObservedFile(v, e, name, f))
           pair(entry, v, e) ==
             Put(entry, "artifacts",
                 Put(Put(Get(entry, "artifacts"), key(".aperture_cfr"), file(v, e, "aperture_cfr.npy")),
                     key(".impairment_gt"), file(v, e, "impairment_gt.json")))
           new(view, v) == [i \in DOMAIN Items(Get(view, "bs")) |-> pair(Items(Get(view, "bs"))[i], v, v.bs[i])]
<1>1. PICK l : l = Items(Get(Manifest, "views"))
  OBVIOUS
<1>2. PICK p : p = Parsed(Manifest).views
  OBVIOUS
<1>3. PICK views : views = [n \in DOMAIN l |-> Put(l[n], "bs", List(new(l[n], p[n])))]
  OBVIOUS
<1>4. PICK before : before = IF IsMap(Get(Manifest, "observations")) THEN Get(Manifest, "observations") ELSE Map(<<>>)
  OBVIOUS
<1>5. ObservedManifest(name) = Put(Put(Manifest, "views", List(views)), "observations", Put(before, name, Map(<<>>)))
  BY <1>1, <1>2, <1>3, <1>4 DEF ObservedManifest, PatchViews
<1>6. ASSUME NEW entry, IsMap(entry), IsWhole(entry), IsMap(Get(entry, "artifacts")), IsWhole(Get(entry, "artifacts")),
             NEW v, IsSeq(v.id.s), NEW e, IsSeq(e.id.s)
      PROVE  IsWhole(pair(entry, v, e))
  <2>1. PICK x, y : x = file(v, e, "aperture_cfr.npy") /\ y = file(v, e, "impairment_gt.json")
    OBVIOUS
  <2>2. IsWhole(x) /\ IsWhole(y)
    BY <1>6, <2>1, ObservedFileIsPath, WholeStr
  <2>3. PICK a, b, j : a = key(".aperture_cfr") /\ b = key(".impairment_gt") /\ j = Get(entry, "artifacts")
    OBVIOUS
  <2>4. IsWhole(Put(j, a, x)) /\ IsMap(Put(j, a, x))
    <3>1. \A value : IsMap(Put(j, a, value))
      BY DEF Put, IsMap, Map
    <3> QED
      BY <1>6, <2>2, <2>3, <3>1, WholePut
  <2>5. IsWhole(Put(Put(j, a, x), b, y))
    BY <2>2, <2>4, WholePut
  <2>6. IsWhole(Put(entry, "artifacts", Put(Put(j, a, x), b, y)))
    BY <1>6, <2>5, WholePut
  <2> QED
    BY <2>1, <2>3, <2>6
<1> HIDE DEF pair
<1>7. ASSUME NEW n \in DOMAIN views PROVE IsWhole(views[n])
  <2>1. PICK v, q : v = l[n] /\ q = p[n]
    OBVIOUS
  <2>2. n \in DOMAIN l /\ views[n] = Put(v, "bs", List(new(v, q)))
    BY <1>3, <2>1
  <2>3. IsWhole(v) /\ IsMap(v) /\ ViewIsRead(Manifest, v)
    BY <1>1, <2>1, <2>2, WholeGet, WholeItems DEF ManifestIsRead, ViewIsRead, IsNamedMap
  <2>4. PICK bs : bs = Items(Get(v, "bs"))
    OBVIOUS
  <2>5. IsSeq(bs) /\ \A i \in DOMAIN bs : IsMap(bs[i]) /\ IsWhole(bs[i])
    BY <2>3, <2>4, WholeGet, WholeItems DEF ViewIsRead, IsNamedMap
  <2>6. \A i \in DOMAIN bs : IsMap(Get(bs[i], "artifacts")) /\ IsWhole(Get(bs[i], "artifacts"))
    BY <1>1, <2>1, <2>2, <2>4, <2>5, ArtifactsAreMaps, WholeGet
  <2>7. IsSeq(q.id.s) /\ DOMAIN q.bs = DOMAIN bs /\ \A i \in DOMAIN bs : IsSeq(q.bs[i].id.s)
    <3>1. n \in DOMAIN p /\ ParsedIsNamed(Parsed(Manifest))
      BY <1>1, <1>2, <2>2, ParsedOfRead
    <3>2. q = View(Manifest, v)
      BY <1>1, <1>2, <2>1, <2>2 DEF Parsed
    <3>3. DOMAIN q.bs = DOMAIN bs
      BY <2>4, <3>2 DEF View, BsEntries
    <3> QED
      BY <1>2, <2>1, <3>1, <3>3 DEF ParsedIsNamed
  <2>8. PICK w : w = new(v, q)
    OBVIOUS
  <2>9. DOMAIN w = DOMAIN bs /\ w = [i \in DOMAIN bs |-> w[i]] /\ \A i \in DOMAIN bs : w[i] = pair(bs[i], q, q.bs[i])
    BY <2>4, <2>8
  <2>10. ASSUME NEW i \in DOMAIN bs PROVE IsWhole(w[i])
    BY <1>6, <2>5, <2>6, <2>7, <2>9
  <2>11. IsSeq(w)
    BY <2>5, <2>9, SameLength
  <2>12. IsWhole(List(w))
    BY <2>9, <2>10, <2>11, WholeList
  <2> QED
    BY <2>2, <2>3, <2>8, <2>12, WholePut
<1>8. views = [n \in DOMAIN l |-> views[n]]
  BY <1>3
<1>9. IsWhole(Put(Manifest, "views", List(views))) /\ IsMap(Put(Manifest, "views", List(views)))
  BY <1>1, <1>7, <1>8, PatchedIsWhole
<1>10. IsWhole(Map(<<>>)) /\ IsMap(Map(<<>>))
  <2>1. DOMAIN <<>> = {}
    OBVIOUS
  <2> QED
    BY <2>1, WholeMap DEF IsMap, Map
<1>11. IsWhole(before) /\ IsMap(before)
  BY <1>4, <1>10, WholeGet
<1>12. IsWhole(Put(before, name, Map(<<>>)))
  BY <1>10, <1>11, WholePut
<1> QED
  BY <1>5, <1>9, <1>12, WholePut

-----------------------------------------------------------------------------
(* The steps of the commands *)

\* A sound file may be saved anywhere.
LEMMA PlainSave ==
  ASSUME NEW path, IsPath(path), NEW content, IsSound(content)
  PROVE  GoodSave(Save(path, content))
BY DEF GoodSave, Save

\* Whatever is saved in a directory of a view or a pair.
LEMMA SaveInDirectory ==
  ASSUME NEW d, IsPath(d), NEW x, NEW content, IsSound(content)
  PROVE  GoodSave(Save(Append(d, x), content))
BY FileIn, PlainSave DEF IsPath

\* Two saves.
LEMMA SavesTwo == ASSUME NEW x, GoodSave(x), NEW y, GoodSave(y) PROVE Saves(<<x, y>>)
<1>1. PICK u : u = <<x, y>>
  OBVIOUS
<1>2. u = [k \in 1..2 |-> u[k]] /\ u[1] = x /\ u[2] = y /\ DOMAIN u = 1..2 /\ 2 \in Nat
  BY <1>1
<1>3. IsSeq(u)
  BY <1>2, FunctionIsSeq
<1>4. \A w \in Range(u) : w = x \/ w = y
  BY <1>2 DEF Range
<1> QED
  BY <1>1, <1>3, <1>4 DEF Saves

\* A set of six is finite.
LEMMA SixAreFinite ==
  ASSUME NEW a, NEW b, NEW c, NEW d, NEW e, NEW f
  PROVE  IsFiniteSet({a, b, c, d, e, f}) /\ IsFiniteSet({a, b, c, d, e})
<1>1. \A S, x : IsFiniteSet(S) => IsFiniteSet(S \cup {x})
  BY FS_AddElement
<1>2. IsFiniteSet({} \cup {a})
  BY <1>1, FS_EmptySet
<1>3. IsFiniteSet({a, b})
  <2>1. {a, b} = ({} \cup {a}) \cup {b}
    OBVIOUS
  <2> QED
    BY <1>1, <1>2, <2>1
<1>4. IsFiniteSet({a, b, c})
  <2>1. {a, b, c} = {a, b} \cup {c}
    OBVIOUS
  <2> QED
    BY <1>1, <1>3, <2>1
<1>5. IsFiniteSet({a, b, c, d})
  <2>1. {a, b, c, d} = {a, b, c} \cup {d}
    OBVIOUS
  <2> QED
    BY <1>1, <1>4, <2>1
<1>6. IsFiniteSet({a, b, c, d, e})
  <2>1. {a, b, c, d, e} = {a, b, c, d} \cup {e}
    OBVIOUS
  <2> QED
    BY <1>1, <1>5, <2>1
<1>7. {a, b, c, d, e, f} = {a, b, c, d, e} \cup {f}
  OBVIOUS
<1> QED
  BY <1>1, <1>6, <1>7

\* The files of a pair, and of a view, are good writes.
LEMMA PairWritesAreSaves ==
  ASSUME NEW view, IsSeq(view), NEW bs, IsSeq(bs)
  PROVE  Saves(PairWrites(view, bs))
<1>1. PICK keys : keys = Arranged(DOMAIN PairFiles)
  OBVIOUS
<1>2. IsSeq(keys)
  <2>1. DOMAIN PairFiles = {"angular_cfr_center", "angular_power_center", "phase_valid_mask", "dominant_delay_s",
                            "dominant_delay_power", "debug_power_png"}
    BY DEF PairFiles
  <2>2. PICK a, b, c, d, e, f : DOMAIN PairFiles = {a, b, c, d, e, f}
    BY <2>1
  <2>3. IsFiniteSet(DOMAIN PairFiles)
    <3>1. IsFiniteSet({a, b, c, d, e, f})
      BY SixAreFinite
    <3> QED
      BY <2>2, <3>1
  <2> QED
    BY <1>1, <2>3, ArrangedIs
<1>3. PICK t : t = PairWrites(view, bs)
  OBVIOUS
<1>4. t = [n \in DOMAIN keys |-> Save(Append(PairDir(view, bs), PairFiles[keys[n]]),
                                  IF keys[n] = "debug_power_png" THEN Blob ELSE Real(<<2, 2>>))]
  BY <1>1, <1>3 DEF PairWrites
<1>5. t = [n \in DOMAIN keys |-> t[n]]
  BY <1>4
<1>6. IsPath(PairDir(view, bs))
  BY DirectoriesArePaths
<1>7. ASSUME NEW n \in DOMAIN keys PROVE GoodSave(t[n])
  <2>1. PICK content : content = IF keys[n] = "debug_power_png" THEN Blob ELSE Real(<<2, 2>>)
    OBVIOUS
  <2>2. IsSound(content)
    BY <2>1, PlainIsSound
  <2> QED
    BY <1>4, <1>6, <2>1, <2>2, SaveInDirectory
<1> QED
  BY <1>2, <1>3, <1>5, <1>7, SavesEach

LEMMA ViewWritesAreSaves ==
  ASSUME NEW c, IsSetup(c), NEW view, IsSeq(view)
  PROVE  Saves(ViewWrites(c, view))
<1>0. c.stations \in 0..2 /\ IsWhole(VectorOf(c.radius))
  BY FloatIsWhole DEF IsSetup
<1>1. PICK d : d = ViewDir(view)
  OBVIOUS
<1>2. PICK r : r = RfDir(view)
  OBVIOUS
<1>3. IsPath(d) /\ IsPath(r)
  BY <1>1, <1>2, DirectoriesArePaths
<1>4. \A content : IsSound(content) => GoodSave(Save(Pose(view), content)) /\ GoodSave(Save(Aperture(view), content))
  BY <1>1, <1>2, <1>3, SaveInDirectory DEF Pose, Aperture
<1>5. PICK x, y : /\ x = Save(Pose(view), JsonFile(Map([position_m |-> VectorOf(c.radius)])))
                  /\ y = Save(Aperture(view), Complex(<<c.stations, 2, c.rows, c.cols, c.bins>>))
  OBVIOUS
<1>6. Saves(<<x, y>>)
  <2>1. PICK q : q = VectorOf(c.radius)
    OBVIOUS
  <2>2. PICK f : f = [position_m |-> q]
    OBVIOUS
  <2>3. \A k \in DOMAIN f : f[k] = q
    BY <2>2
  <2>4. IsWhole(Map(f))
    BY <1>0, <2>1, <2>3, WholeMap
  <2>5. GoodSave(x) /\ GoodSave(y)
    BY <1>4, <1>5, <2>1, <2>2, <2>4, PlainIsSound
  <2> QED
    BY <2>5, SavesTwo
<1> DEFINE ofPair(n) == Check(IsNumber(c.bandwidth)) \o PairWrites(view, BsId(n)) \o Check(<<view, BsId(n)>> \notin c.meets)
<1>7. PICK t : t = [n \in 1..c.stations |-> ofPair(n)]
  OBVIOUS
<1>8. \A n \in 1..c.stations : Saves(t[n])
  <2> SUFFICES ASSUME NEW n \in 1..c.stations PROVE Saves(t[n])
    OBVIOUS
  <2>1. n \in 1..2 /\ t[n] = ofPair(n)
    BY <1>0, <1>7
  <2>2. Saves(PairWrites(view, BsId(n)))
    BY <2>1, IdsAre, PairWritesAreSaves DEF IsPath
  <2>3. PICK a, b, d1 : /\ a = Check(IsNumber(c.bandwidth)) /\ b = PairWrites(view, BsId(n))
                        /\ d1 = Check(<<view, BsId(n)>> \notin c.meets)
    OBVIOUS
  <2>4. Saves(a \o b \o d1)
    BY <2>2, <2>3, SavesCheck, SavesJoined
  <2> QED
    BY <2>1, <2>3, <2>4
<1> HIDE DEF ofPair
<1>9. c.stations \in Nat /\ t = [n \in 1..c.stations |-> t[n]]
  BY <1>0, <1>7
<1>10. Saves(FlattenSeq(t))
  BY <1>8, <1>9, SavesTo
<1>11. PICK u, v : u = <<x, y>> /\ v = FlattenSeq(t)
  OBVIOUS
<1>12. Saves(u \o v)
  BY <1>6, <1>10, <1>11, SavesJoined
<1> QED
  BY <1>5, <1>7, <1>11, <1>12 DEF ViewWrites, ofPair

\* A whole manifest is a good write.
LEMMA ManifestIsSave == ASSUME NEW j, IsWhole(j) PROVE GoodSave(Save(ManifestOfDataset, JsonFile(j)))
BY OneIsSeq, PlainIsSound, PlainSave DEF ManifestOfDataset

\* Files with the manifest after them are good writes.
LEMMA ManifestLastIsSaves ==
  ASSUME NEW files, Saves(files), NEW j, IsWhole(j)
  PROVE  Saves(ManifestLast(files, j))
BY ManifestIsSave, SavesAppended DEF ManifestLast

\* A file beside the manifest.
LEMMA SaveBeside ==
  ASSUME NEW x, NEW content, IsSound(content)
  PROVE  GoodSave(Save(<<x>>, content))
BY OneIsSeq, PlainSave

\* What multiview writes is good, for any setup.
LEMMA MultiviewIsSaves ==
  ASSUME NEW c, IsSetup(c)
  PROVE  Saves(MultiviewWrites(c))
<1>0. c.views \in 0..2
  BY DEF IsSetup
<1>1. PICK x, y, z : /\ x = Save(<<"camera_model.npz">>, NpzFile(TRUE))
                     /\ y = Save(<<"path_geometry_gt.npz">>, NpzFile(TRUE))
                     /\ z = Save(<<"path_schema.json">>, JsonFile(Map(<<>>)))
  OBVIOUS
<1>3. GoodSave(x) /\ GoodSave(y) /\ GoodSave(z)
  BY <1>1, PlainIsSound, SaveBeside
<1>4. PICK u : u = <<x, y, z>>
  OBVIOUS
<1>5. Saves(u)
  <2>1. u = [n \in 1..3 |-> u[n]] /\ u[1] = x /\ u[2] = y /\ u[3] = z /\ 3 \in Nat
    BY <1>4
  <2>2. IsSeq(u)
    BY <2>1, FunctionIsSeq
  <2>3. \A w \in Range(u) : w = x \/ w = y \/ w = z
    BY <2>1 DEF Range
  <2> QED
    BY <1>3, <2>2, <2>3 DEF Saves
<1>6. PICK t : t = [n \in 1..c.views |-> ViewWrites(c, ViewId(n))]
  OBVIOUS
<1>7. \A n \in 1..c.views : Saves(t[n])
  <2> SUFFICES ASSUME NEW n \in 1..c.views PROVE Saves(t[n])
    OBVIOUS
  <2>1. n \in 1..2 /\ t[n] = ViewWrites(c, ViewId(n))
    BY <1>0, <1>6
  <2> QED
    BY <2>1, IdsAre, ViewWritesAreSaves DEF IsPath
<1>8. c.views \in Nat /\ t = [n \in 1..c.views |-> t[n]]
  BY <1>0, <1>6
<1>9. PICK v : v = FlattenSeq(t)
  OBVIOUS
<1>10. Saves(v)
  BY <1>7, <1>8, <1>9, SavesTo
<1>11. Saves(u \o v)
  BY <1>5, <1>10, SavesJoined
<1>12. Saves(ManifestLast(u \o v, MultiviewManifest(c)))
  BY <1>11, MultiviewIsWhole, ManifestLastIsSaves
<1>13. MultiviewWrites(c) = ManifestLast(u \o v, MultiviewManifest(c))
  BY <1>1, <1>4, <1>6, <1>9 DEF MultiviewWrites
<1> QED
  BY <1>12, <1>13

\* What observe writes is good when the manifest it read had names.
LEMMA ObserveIsSaves ==
  ASSUME NEW p, ParsedIsNamed(p), NEW name
  PROVE  Saves(ObserveWrites(p, name))
<1> DEFINE file(n, i, f) == ObservedFile(p.views[n], p.views[n].bs[i], name, f)
           part(n, i) == << Save(file(n, i, "aperture_cfr.npy"), Complex(<<p.rows, p.cols, p.bins>>)),
                            Save(file(n, i, "impairment_gt.json"), JsonFile(Map(<<>>))) >>
           ofView(n) == FlattenSeq([i \in DOMAIN p.views[n].bs |-> part(n, i)])
<1>1. ASSUME NEW n \in DOMAIN p.views, NEW i \in DOMAIN p.views[n].bs, NEW f, NEW content, IsSound(content)
      PROVE  GoodSave(Save(file(n, i, f), content))
  <2>1. IsSeq(p.views[n].id.s) /\ IsSeq(p.views[n].bs[i].id.s)
    BY DEF ParsedIsNamed
  <2> QED
    BY <1>1, <2>1, ObservedFileIsPath, PlainSave
<1>2. ASSUME NEW n \in DOMAIN p.views, NEW i \in DOMAIN p.views[n].bs PROVE Saves(part(n, i))
  <2>1. PICK x, y : part(n, i) = <<x, y>> /\ GoodSave(x) /\ GoodSave(y)
    BY <1>1, PlainIsSound
  <2> HIDE DEF part
  <2> QED
    BY <2>1, SavesTwo
<1> HIDE DEF part
<1>3. ASSUME NEW n \in DOMAIN p.views PROVE Saves(ofView(n))
  <2>1. PICK t : t = [i \in DOMAIN p.views[n].bs |-> part(n, i)]
    OBVIOUS
  <2>2. IsSeq(p.views[n].bs)
    BY DEF ParsedIsNamed
  <2>3. t = [i \in DOMAIN p.views[n].bs |-> t[i]] /\ DOMAIN t = DOMAIN p.views[n].bs
    BY <2>1
  <2>4. IsSeq(t)
    BY <2>2, <2>3, SameLength
  <2>5. \A i \in DOMAIN t : Saves(t[i])
    BY <1>2, <2>1, <2>3
  <2> QED
    BY <2>1, <2>4, <2>5, SavesFlat
<1> HIDE DEF ofView
<1>4. PICK t : t = [n \in DOMAIN p.views |-> ofView(n)]
  OBVIOUS
<1>5. t = [n \in DOMAIN p.views |-> t[n]] /\ DOMAIN t = DOMAIN p.views
  BY <1>4
<1>6. IsSeq(t)
  BY <1>5, SameLength DEF ParsedIsNamed
<1>7. \A n \in DOMAIN t : Saves(t[n])
  BY <1>3, <1>4, <1>5
<1>8. Saves(FlattenSeq(t))
  BY <1>6, <1>7, SavesFlat
<1>9. ObserveWrites(p, name) = FlattenSeq(t)
  BY <1>4 DEF ObserveWrites, ofView, part
<1> QED
  BY <1>8, <1>9

\* What optical writes is good when the manifest it read had names.
LEMMA OpticalIsSaves ==
  ASSUME NEW p, ParsedIsNamed(p)
  PROVE  Saves(OpticalWrites(p))
<1>1. PICK keys : keys = Arranged(DOMAIN OpticalFiles)
  OBVIOUS
<1>2. IsSeq(keys)
  <2>1. DOMAIN OpticalFiles = {"optical_pinhole_rgba", "optical_pinhole_depth_m", "optical_pinhole_range_m",
                               "optical_hemisphere_rgba", "optical_hemisphere_range_m"}
    BY DEF OpticalFiles
  <2>2. PICK a, b, c, d, e : DOMAIN OpticalFiles = {a, b, c, d, e}
    BY <2>1
  <2>3. IsFiniteSet(DOMAIN OpticalFiles)
    <3>1. IsFiniteSet({a, b, c, d, e})
      BY SixAreFinite
    <3> QED
      BY <2>2, <3>1
  <2> QED
    BY <1>1, <2>3, ArrangedIs
<1> DEFINE content(n, i) == IF SuffixOf(OpticalFile(p.views[n], keys[i])) = ".npy" THEN Real(<<2, 2>>) ELSE Blob
           part(n) == [i \in DOMAIN keys |-> Save(OpticalFile(p.views[n], keys[i]), content(n, i))]
           ofView(n) == Check(AtPath(p.views[n].artifacts["pose"]).is = "json") \o part(n)
<1>3. ASSUME NEW n \in DOMAIN p.views PROVE Saves(part(n))
  <2>1. ASSUME NEW i \in DOMAIN keys PROVE GoodSave(part(n)[i])
    <3>1. PICK v, f : v = p.views[n] /\ f = OpticalFiles[keys[i]]
      OBVIOUS
    <3>2. IsPath(ViewDir(v.id.s))
      BY <3>1, DirectoriesArePaths DEF ParsedIsNamed
    <3>3. PICK d : d = ViewDir(v.id.s)
      OBVIOUS
    <3>4. PICK o : o = <<"optical", f>>
      OBVIOUS
    <3>5. IsSeq(o)
      <4>1. o = [k \in 1..2 |-> o[k]] /\ 2 \in Nat
        BY <3>4
      <4> QED
        BY <4>1, FunctionIsSeq
    <3>6. PICK y : y = d \o o
      OBVIOUS
    <3>7. IsPath(y)
      BY <3>2, <3>3, <3>5, <3>6, JoinedIsPath
    <3>8. IsSound(content(n, i))
      BY PlainIsSound
    <3>9. OpticalFile(p.views[n], keys[i]) = y
      BY <3>1, <3>3, <3>4, <3>6 DEF OpticalFile
    <3>10. GoodSave(Save(y, content(n, i)))
      BY <3>7, <3>8, PlainSave
    <3> HIDE DEF content
    <3> QED
      BY <3>9, <3>10
  <2>2. PICK t : t = part(n)
    OBVIOUS
  <2> HIDE DEF content
  <2>3. t = [i \in DOMAIN keys |-> t[i]]
    BY <2>2
  <2>4. \A i \in DOMAIN keys : GoodSave(t[i])
    BY <2>1, <2>2
  <2> QED
    BY <1>2, <2>2, <2>3, <2>4, SavesEach
<1> HIDE DEF part
<1>10. ASSUME NEW n \in DOMAIN p.views PROVE Saves(ofView(n))
  BY <1>3, SavesCheck, SavesJoined
<1> HIDE DEF ofView
<1>4. PICK t : t = [n \in DOMAIN p.views |-> ofView(n)]
  OBVIOUS
<1>5. t = [n \in DOMAIN p.views |-> t[n]] /\ DOMAIN t = DOMAIN p.views
  BY <1>4
<1>6. IsSeq(t)
  BY <1>5, SameLength DEF ParsedIsNamed
<1>7. \A n \in DOMAIN t : Saves(t[n])
  BY <1>4, <1>5, <1>10
<1>8. Saves(FlattenSeq(t))
  BY <1>6, <1>7, SavesFlat
<1>9. OpticalWrites(p) = FlattenSeq(t)
  BY <1>1, <1>4 DEF OpticalWrites, ofView, part, content
<1> QED
  BY <1>8, <1>9

\* What a new partial removes is there.
LEMMA RemovalsAreSaves ==
  ASSUME AreFiles(partial)
  PROVE  Saves(Removals)
<1> DEFINE V == {x \in DOMAIN partial : x[1] = "views"}
           there(x) == IF x \in DOMAIN partial THEN <<x>> ELSE <<>>
<1>1. IsFiniteSet(V)
  BY FS_Subset DEF AreFiles
<1>2. PICK a : a = Arranged(V)
  OBVIOUS
<1>3. IsSeq(a) /\ Range(a) = V
  BY <1>1, <1>2, ArrangedIs
<1> DEFINE Listed1(s) == IsSeq(s) /\ Range(s) \subseteq DOMAIN partial
<1>4. ASSUME NEW x PROVE Listed1(there(x))
  <2>1. CASE x \in DOMAIN partial
    <3>1. IsSeq(<<x>>) /\ Range(<<x>>) = {x}
      BY OneIsSeq DEF Range
    <3> QED
      BY <2>1, <3>1
  <2>2. CASE x \notin DOMAIN partial
    <3>1. IsSeq(<<>>) /\ Range(<<>>) = {}
      BY DEF IsSeq, Range
    <3> QED
      BY <2>2, <3>1
  <2> QED
    BY <2>1, <2>2
<1>5. PICK b, c : b = there(<<"element_mask.npy">>) /\ c = there(ManifestOfPartial)
  OBVIOUS
<1>6. Listed1(b) /\ Listed1(c)
  BY <1>4, <1>5
<1>7. PICK old : old = b \o c \o a
  OBVIOUS
<1>8. Listed1(old)
  <2>1. IsSeq(b \o c) /\ Range(b \o c) \subseteq DOMAIN partial
    BY <1>6, Joined
  <2>2. PICK d : d = b \o c
    OBVIOUS
  <2>3. IsSeq(d \o a) /\ Range(d \o a) \subseteq DOMAIN partial
    BY <1>3, <2>1, <2>2, Joined
  <2> QED
    BY <1>7, <2>2, <2>3
<1>9. Removals = [n \in DOMAIN old |-> Save(old[n], Removed)]
  BY <1>2, <1>5, <1>7 DEF Removals
<1>10. PICK t : t = Removals
  OBVIOUS
<1>11. t = [n \in DOMAIN old |-> t[n]]
  BY <1>9, <1>10
<1>12. ASSUME NEW n \in DOMAIN old PROVE GoodSave(t[n])
  <2>1. old[n] \in DOMAIN partial
    BY <1>8 DEF Range
  <2>2. IsPath(old[n])
    BY <2>1 DEF AreFiles
  <2> QED
    BY <1>9, <1>10, <2>2, PlainIsSound, PlainSave
<1> QED
  BY <1>8, <1>10, <1>11, <1>12, SavesEach

\* A view has finitely many files of each summary.
LEMMA ViewFilesAreFinite == \A summary \in Summaries : IsFiniteSet(DOMAIN ViewFiles(summary))
<1>1. DOMAIN ViewFiles("none") = {"aperture_cfr"} /\ DOMAIN ViewFiles("delay") = {}
      /\ DOMAIN ViewFiles("power") = {"element_power", "hemisphere_power"}
  BY DEF ViewFiles
<1>2. \A a, b : IsFiniteSet({a, b}) /\ IsFiniteSet({a}) /\ IsFiniteSet({})
  <2> SUFFICES ASSUME NEW a, NEW b PROVE IsFiniteSet({a, b}) /\ IsFiniteSet({a}) /\ IsFiniteSet({})
    OBVIOUS
  <2>1. IsFiniteSet({a, b, a, b, a, b}) /\ IsFiniteSet({a, a, a, a, a, a})
    BY SixAreFinite
  <2>2. {a, b, a, b, a, b} = {a, b} /\ {a, a, a, a, a, a} = {a}
    OBVIOUS
  <2> QED
    BY <2>1, <2>2, FS_EmptySet
<1>3. PICK x : x = "aperture_cfr"
  OBVIOUS
<1>4. PICK y, z : y = "element_power" /\ z = "hemisphere_power"
  OBVIOUS
<1>5. IsFiniteSet({x}) /\ IsFiniteSet({y, z}) /\ IsFiniteSet({})
  BY <1>2
<1>6. IsFiniteSet(DOMAIN ViewFiles("none")) /\ IsFiniteSet(DOMAIN ViewFiles("delay"))
      /\ IsFiniteSet(DOMAIN ViewFiles("power"))
  BY <1>1, <1>3, <1>4, <1>5
<1> QED
  BY <1>6 DEF Summaries

\* What partial writes of a view is good.
LEMMA PartialViewIsSaves ==
  ASSUME NEW p, ParsedIsNamed(p), NEW n \in DOMAIN p.views, NEW summary \in Summaries
  PROVE  Saves(PartialViewWrites(p, p.views[n], summary))
<1>1. PICK v : v = p.views[n]
  OBVIOUS
<1>2. IsSeq(v.id.s) /\ IsSeq(v.bs) /\ \A i \in DOMAIN v.bs : IsSeq(v.bs[i].id.s)
  BY <1>1 DEF ParsedIsNamed
<1>3. PICK keys : keys = Arranged(DOMAIN ViewFiles(summary))
  OBVIOUS
<1>4. IsSeq(keys)
  BY <1>3, ViewFilesAreFinite, ArrangedIs
<1>5. PICK t : t = [i \in DOMAIN keys |-> Save(Append(RfDir(v.id.s), ViewFiles(summary)[keys[i]]), Complex(<<1>>))]
  OBVIOUS
<1>6. Saves(t)
  <2>1. t = [i \in DOMAIN keys |-> t[i]]
    BY <1>5
  <2>2. IsPath(RfDir(v.id.s))
    BY <1>2, DirectoriesArePaths
  <2>3. \A i \in DOMAIN keys : GoodSave(t[i])
    BY <1>5, <2>2, PlainIsSound, SaveInDirectory
  <2> QED
    BY <1>4, <2>1, <2>3, SavesEach
<1>7. PICK u : u = IF summary = "delay"
                   THEN [i \in DOMAIN v.bs |-> Save(DelayFile(v, v.bs[i]), JsonFile(Map(<<>>)))] ELSE <<>>
  OBVIOUS
<1>8. Saves(u)
  <2>1. CASE summary = "delay"
    <3>1. u = [i \in DOMAIN v.bs |-> u[i]]
      BY <1>7, <2>1
    <3>2. ASSUME NEW i \in DOMAIN v.bs PROVE GoodSave(u[i])
      <4>1. u[i] = Save(DelayFile(v, v.bs[i]), JsonFile(Map(<<>>)))
        BY <1>7, <2>1
      <4>2. PICK d : d = PairDir(v.id.s, v.bs[i].id.s)
        OBVIOUS
      <4>3. IsPath(d)
        BY <1>2, <4>2, DirectoriesArePaths
      <4>4. DelayFile(v, v.bs[i]) = Append(d, "dominant_delay.json")
        BY <4>2 DEF DelayFile, PairDir
      <4> QED
        BY <4>1, <4>3, <4>4, PlainIsSound, SaveInDirectory
    <3> QED
      BY <1>2, <3>1, <3>2, SavesEach
  <2>2. CASE summary # "delay"
    BY <1>7, <2>2, SavesNone
  <2> QED
    BY <2>1, <2>2
<1>9. PICK c : c = Check(Loads(p, v))
  OBVIOUS
<1>10. PartialViewWrites(p, v, summary) = c \o t \o u
  BY <1>3, <1>5, <1>7, <1>9 DEF PartialViewWrites
<1>11. Saves(c \o t \o u)
  BY <1>6, <1>8, <1>9, SavesCheck, SavesJoined
<1> QED
  BY <1>1, <1>10, <1>11

-----------------------------------------------------------------------------
(* The steps of the pipeline *)

\* A manifest that is sound and has no fault is none of a partial.
LEMMA ReadIsWhole ==
  ASSUME NEW c, c.is = "json", IsSound(c), ManifestFault(c.json) = NoFault
  PROVE  IsWhole(c.json)
<1>1. SchemaVersion(c.json) # 0
  BY NoManifestFault DEF HeadIsValid
<1>2. Get(c.json, "schema_version") # Whole(1)
  BY <1>1 DEF SchemaVersion, Equals, IsNumber, Whole
<1> QED
  BY <1>2 DEF IsSound, IsOfPartial

\* The manifest of a dataset is whole.
LEMMA ManifestIsWhole ==
  ASSUME HasSound(dataset), ManifestFault(Manifest) = NoFault
  PROVE  IsWhole(Manifest) /\ ManifestIsRead(Manifest)
<1>1. PICK c : c = Content(AsTree(dataset), ManifestOfDataset)
  OBVIOUS
<1>2. Manifest = IF c.is = "json" THEN c.json ELSE [t |-> "none"]
  BY <1>1 DEF Manifest, JsonAt
<1>3. IsMap(Manifest)
  BY NoManifestFault DEF HeadIsValid
<1>4. c.is = "json" /\ Manifest = c.json
  BY <1>2, <1>3 DEF IsMap
<1>5. ManifestOfDataset \in DOMAIN dataset /\ c = dataset[ManifestOfDataset]
  BY <1>1, <1>4 DEF Content, IsFile, AsTree, Blob
<1>6. IsWhole(Manifest)
  BY <1>4, <1>5, ReadIsWhole DEF HasSound
<1> QED
  BY <1>6, ManifestReadOf

\* What a command is about to write.
LEMMA RunKeeps ==
  ASSUME PipelineInv, NEW what, NEW steps, Saves(steps), Run(what, steps)
  PROVE  PipelineInv'
BY DEF PipelineInv, Run

\* A sequence of sequences, each of one element or of none.
LEMMA FlatIsSeq ==
  ASSUME NEW s, IsSeq(s), NEW t, t = [n \in DOMAIN s |-> t[n]], \A n \in DOMAIN s : IsSeq(t[n])
  PROVE  IsSeq(FlattenSeq(t))
<1>1. IsSeq(t) /\ \A n \in DOMAIN t : IsSeq(t[n])
  BY SameLength
<1> QED
  BY <1>1, FlattenIs

LEMMA NoneIsSeq == IsSeq(<<>>)
BY DEF IsSeq

\* The meshes of a city with lists are a sequence.
LEMMA SurfacesAreSeq ==
  ASSUME NEW o, IsSeq(o.geometry), \A i \in DOMAIN o.geometry : IsSeq(o.geometry[i].corners)
  PROVE  IsSeq(SurfacesOf(o))
<1>1. ASSUME NEW g, IsSeq(g.corners) PROVE IsSeq(ExtractSurfaces(o, g))
  <2> DEFINE x(n) == [part |-> PartOf[g.surfaces[g.values[n]]],
                      material |-> MaterialOf(o, PartOf[g.surfaces[g.values[n]]]), corners |-> g.corners[n]]
             t == [n \in DOMAIN g.corners |-> IF IsKept(g, n) THEN <<x(n)>> ELSE <<>>]
  <2>1. ExtractSurfaces(o, g) = FlattenSeq(t)
    BY DEF ExtractSurfaces
  <2>2. \A n \in DOMAIN g.corners : IsSeq(t[n])
    BY OneIsSeq, NoneIsSeq
  <2> HIDE DEF x
  <2>3. IsSeq(FlattenSeq(t))
    BY <1>1, <2>2, FlatIsSeq
  <2> QED
    BY <2>1, <2>3
<1> DEFINE t == [k \in DOMAIN o.geometry |->
                   IF o.geometry[k].type \in GeometryTypes THEN ExtractSurfaces(o, o.geometry[k]) ELSE <<>>]
<1>2. \A k \in DOMAIN o.geometry : IsSeq(t[k])
  BY <1>1, NoneIsSeq
<1>3. IsSeq(FlattenSeq(t))
  BY <1>2, FlatIsSeq
<1> QED
  BY <1>3 DEF SurfacesOf

LEMMA BuildingMeshesAreSeq == ASSUME NEW o, IsSeq(SurfacesOf(o)) PROVE IsSeq(BuildingMeshes(o))
<1> DEFINE s == SurfacesOf(o)
           isFirst(n) == \A i \in 1..(n - 1) : s[i].part # s[n].part
           hasMesh(n) == \E i \in DOMAIN s : s[i].part = s[n].part /\ s[i].corners >= 3
           x(n) == Mesh(o.id \o "_" \o s[n].part, s[n].material)
           t == [n \in DOMAIN s |-> IF isFirst(n) /\ hasMesh(n) THEN <<x(n)>> ELSE <<>>]
<1>1. BuildingMeshes(o) = FlattenSeq(t)
  BY DEF BuildingMeshes
<1> HIDE DEF isFirst, hasMesh, x, s
<1>2. \A n \in DOMAIN s : IsSeq(t[n])
  BY OneIsSeq, NoneIsSeq
<1>3. IsSeq(s)
  BY DEF s
<1>4. IsSeq(FlattenSeq(t))
  BY <1>2, <1>3, FlatIsSeq
<1> QED
  BY <1>1, <1>4

LEMMA MeshesAreSeq == ASSUME NEW city, HasLists(city), NEW ground PROVE IsSeq(Meshes(city, ground))
<1> DEFINE t == [k \in DOMAIN city.objects |->
                   IF city.objects[k].type \in BuildingTypes THEN BuildingMeshes(city.objects[k]) ELSE <<>>]
<1>1. \A k \in DOMAIN city.objects : IsSeq(t[k])
  BY SurfacesAreSeq, BuildingMeshesAreSeq, NoneIsSeq DEF HasLists
<1>2. PICK f : f = FlattenSeq(t)
  OBVIOUS
<1>3. IsSeq(f)
  BY <1>1, <1>2, FlatIsSeq DEF HasLists
<1>4. PICK g : g = IF ground > 0 THEN <<GroundPlane>> ELSE <<>>
  OBVIOUS
<1>5. IsSeq(g)
  BY <1>4, OneIsSeq, NoneIsSeq
<1>6. Meshes(city, ground) = f \o g
  BY <1>2, <1>4 DEF Meshes
<1> QED
  BY <1>3, <1>5, <1>6, Joined

\* What build writes, one after the other: a mesh each, the scene, the manifest.
LEMMA CityWritesAre ==
  ASSUME NEW city, HasLists(city), NEW ground
  PROVE  LET m == Meshes(city, ground)
             w == CityWrites(city, ground)
         IN  /\ IsSeq(m) /\ IsSeq(w) /\ Len(w) = Len(m) + 2
             /\ \A n \in DOMAIN m : w[n] = Save(MeshFile(m[n]), Blob)
             /\ w[Len(m) + 1] = Save(XmlPath(city), SceneXml(m))
             /\ w[Len(m) + 2] = Save(<<"manifest.json">>, JsonFile(SceneManifest(city, m, ground)))
<1>1. PICK m : m = Meshes(city, ground)
  OBVIOUS
<1>2. IsSeq(m)
  BY <1>1, MeshesAreSeq
<1>3. PICK x, y : x = Save(XmlPath(city), SceneXml(m)) /\ y = Save(<<"manifest.json">>, JsonFile(SceneManifest(city, m, ground)))
  OBVIOUS
<1>4. PICK l \in Nat : l = Len(m)
  BY <1>2, SeqParts
<1>5. DOMAIN m = 1..l
  BY <1>2, <1>4, SeqParts
<1>6. PICK a : a = MeshWrites(m)
  OBVIOUS
<1>7. a = [n \in 1..l |-> a[n]] /\ \A n \in 1..l : a[n] = Save(MeshFile(m[n]), Blob)
  BY <1>5, <1>6 DEF MeshWrites
<1>8. IsSeq(a) /\ Len(a) = l
  BY <1>7, FunctionIsSeq
<1>9. PICK b : b = Append(a, x)
  OBVIOUS
<1>10. IsSeq(b) /\ Len(b) = l + 1 /\ b[l + 1] = x /\ \A n \in 1..l : b[n] = a[n]
  BY <1>8, <1>9, Longer
<1>11. PICK c : c = Append(b, y)
  OBVIOUS
<1>12. IsSeq(c) /\ Len(c) = (l + 1) + 1 /\ c[(l + 1) + 1] = y /\ \A n \in 1..(l + 1) : c[n] = b[n]
  BY <1>10, <1>11, Longer
<1>13. c = CityWrites(city, ground)
  BY <1>1, <1>3, <1>6, <1>9, <1>11 DEF CityWrites, SceneLast
<1>14. (l + 1) + 1 = l + 2 /\ l + 1 \in 1..(l + 1) /\ \A n \in 1..l : n \in 1..(l + 1)
  OBVIOUS
<1>15. Len(c) = l + 2 /\ c[l + 2] = y /\ c[l + 1] = x /\ \A n \in 1..l : c[n] = Save(MeshFile(m[n]), Blob)
  BY <1>7, <1>10, <1>12, <1>14
<1> QED
  BY <1>1, <1>2, <1>3, <1>4, <1>5, <1>12, <1>13, <1>15

\* Each command begins with good writes.
LEMMA MultiviewKeeps ==
  ASSUME PipelineInv, NEW c \in Setups, Multiview(c)
  PROVE  PipelineInv'
<1>1. IsSetup(c)
  BY PipelineAssumption DEF IsSetup, IsAFloat
<1>2. PICK w : w = MultiviewWrites(c)
  OBVIOUS
<1>3. Saves(w) /\ Run("multiview", w)
  BY <1>1, <1>2, MultiviewIsSaves DEF Multiview
<1> QED
  BY <1>3, RunKeeps

LEMMA SceneManifestIsWhole == ASSUME NEW city, NEW meshes, NEW ground PROVE IsWhole(SceneManifest(city, meshes, ground))
<1>1. ASSUME NEW x PROVE IsWhole(Str(<<x>>))
  BY OneIsSeq, WholeStr
<1>2. PICK ids : ids = {meshes[n].id : n \in DOMAIN meshes}
  OBVIOUS
<1> DEFINE material(id) == MaterialMap[meshes[CHOOSE n \in DOMAIN meshes : meshes[n].id = id].material]
<1>3. PICK mapping : mapping = [id \in ids |-> Str(<<material(id)>>)]
  OBVIOUS
<1>4. IsWhole(Map(mapping))
  <2>1. \A id \in DOMAIN mapping : IsWhole(mapping[id])
    BY <1>1, <1>3
  <2> QED
    BY <2>1, WholeMap
<1>5. PICK x, y : x = Str(XmlPath(city)) /\ y = Whole(Len(meshes))
  OBVIOUS
<1>6. PICK g : g = [xml_file |-> x, mesh_count |-> y]
  OBVIOUS
<1>7. IsWhole(Map(g))
  <2>1. \A k \in DOMAIN g : g[k] = x \/ g[k] = y
    BY <1>6
  <2>2. IsWhole(x) /\ IsWhole(y)
    BY <1>1, <1>5, WholeNumbers DEF XmlPath
  <2> QED
    BY <2>1, <2>2, WholeMap
<1>8. PICK u, v, s : u = Map(g) /\ v = Map(mapping) /\ s = Str(<<city.stem>>)
  OBVIOUS
<1>9. PICK f : f = [scene_id |-> s, outputs |-> u, material_mapping |-> v]
  OBVIOUS
<1>10. IsWhole(Map(f)) /\ IsMap(Map(f))
  <2>1. \A k \in DOMAIN f : f[k] = s \/ f[k] = u \/ f[k] = v
    BY <1>9
  <2> QED
    BY <1>1, <1>4, <1>7, <1>8, <2>1, WholeMap DEF IsMap, Map
<1>11. PICK z : z = Map([size_m |-> Float(ground)])
  OBVIOUS
<1>12. IsWhole(z)
  <2>1. PICK n : n = Float(ground)
    OBVIOUS
  <2>2. PICK h : h = [size_m |-> n]
    OBVIOUS
  <2>3. IsWhole(Map(h))
    BY <2>1, <2>2, WholeMap, WholeNumbers
  <2> QED
    BY <1>11, <2>1, <2>2, <2>3
<1>13. SceneManifest(city, meshes, ground) = IF ground > 0 THEN Put(Map(f), "ground_plane", z) ELSE Map(f)
  BY <1>2, <1>3, <1>5, <1>6, <1>8, <1>9, <1>11 DEF SceneManifest
<1> QED
  BY <1>10, <1>12, <1>13, WholePut

LEMMA BuildKeeps ==
  ASSUME PipelineInv, NEW city \in Cities, NEW ground \in Grounds, Build(city, ground)
  PROVE  PipelineInv'
<1>1. HasLists(city)
  BY SceneAssumption
<1>2. PICK m, w : m = Meshes(city, ground) /\ w = CityWrites(city, ground)
  OBVIOUS
<1>3. /\ IsSeq(m) /\ IsSeq(w) /\ Len(w) = Len(m) + 2
      /\ \A n \in DOMAIN m : w[n] = Save(MeshFile(m[n]), Blob)
      /\ w[Len(m) + 1] = Save(XmlPath(city), SceneXml(m))
      /\ w[Len(m) + 2] = Save(<<"manifest.json">>, JsonFile(SceneManifest(city, m, ground)))
  BY <1>1, <1>2, CityWritesAre
<1>4. ASSUME NEW n \in DOMAIN m PROVE GoodSave(w[n])
  <2>1. IsPath(MeshFile(m[n]))
    BY OneIsSeq DEF MeshFile
  <2> QED
    BY <1>3, <2>1, PlainIsSound, PlainSave
<1>5. GoodSave(w[Len(m) + 1])
  <2>1. IsPath(XmlPath(city))
    BY OneIsSeq DEF XmlPath
  <2>2. IsSound(SceneXml(m))
    <3>1. SceneXml(m).is = "xml" /\ DOMAIN SceneXml(m).shapes = DOMAIN m
          /\ \A n \in DOMAIN m : SceneXml(m).shapes[n].filename = Str(MeshFile(m[n]))
      BY DEF SceneXml, XmlFile
    <3>2. \A n \in DOMAIN m : IsWhole(Str(MeshFile(m[n])))
      BY OneIsSeq, WholeStr DEF MeshFile
    <3> QED
      BY <3>1, <3>2 DEF IsSound
  <2> QED
    BY <1>3, <2>1, <2>2, PlainSave
<1>6. GoodSave(w[Len(m) + 2])
  <2> QED
    BY <1>3, SceneManifestIsWhole, PlainIsSound, SaveBeside
<1>7. PICK l \in Nat : l = Len(m) /\ DOMAIN m = 1..l
  BY <1>3, SeqParts
<1>8. DOMAIN w = 1..(l + 2)
  BY <1>3, <1>7, SeqParts
<1>9. \A n \in 1..(l + 2) : n \in 1..l \/ n = l + 1 \/ n = l + 2
  OBVIOUS
<1>10. \A n \in DOMAIN w : GoodSave(w[n])
  BY <1>4, <1>5, <1>6, <1>7, <1>8, <1>9
<1>11. Saves(w)
  BY <1>3, <1>10 DEF Saves, Range
<1>12. Run("build", w)
  BY <1>2 DEF Build
<1> QED
  BY <1>11, <1>12, RunKeeps

LEMMA ObserveKeeps ==
  ASSUME PipelineInv, NEW name, Observe(name)
  PROVE  PipelineInv'
<1>1. ManifestFault(Manifest) = NoFault /\ Parsed(Manifest).version = 3
      /\ Run("observe", ManifestLast(ObserveWrites(Parsed(Manifest), name)
                                      \o Check(Has(Manifest, "observations") => IsMap(Get(Manifest, "observations"))),
                                      ObservedManifest(name)))
  BY DEF Observe, CanRead
<1>2. IsWhole(Manifest) /\ ManifestIsRead(Manifest)
  BY <1>1, ManifestIsWhole DEF PipelineInv
<1>3. ParsedIsNamed(Parsed(Manifest)) /\ SchemaVersion(Manifest) = 3
  BY <1>1, <1>2, ParsedOfRead
<1>4. PICK p : p = Parsed(Manifest)
  OBVIOUS
<1>5. Saves(ObserveWrites(p, name)) /\ IsWhole(ObservedManifest(name))
  BY <1>1, <1>2, <1>3, <1>4, ObserveIsSaves, ObservedIsWhole
<1>6. PICK c : c = Check(Has(Manifest, "observations") => IsMap(Get(Manifest, "observations")))
  OBVIOUS
<1>7. PICK w : w = ManifestLast(ObserveWrites(p, name) \o c, ObservedManifest(name))
  OBVIOUS
<1>8. Saves(ObserveWrites(p, name) \o c)
  BY <1>5, <1>6, SavesCheck, SavesJoined
<1>9. Saves(w)
  BY <1>5, <1>7, <1>8, ManifestLastIsSaves
<1>10. Run("observe", w)
  BY <1>1, <1>4, <1>6, <1>7
<1> QED
  BY <1>9, <1>10, RunKeeps

LEMMA OpticalKeeps == ASSUME PipelineInv, Optical PROVE PipelineInv'
<1>1. PICK t : t = Save(<<"transforms.json">>, JsonFile(Map(<<>>)))
  OBVIOUS
<1>2. ManifestFault(Manifest) = NoFault
      /\ Run("optical", ManifestLast(Append(OpticalWrites(Parsed(Manifest)), t), OpticalManifest))
  BY <1>1 DEF Optical, CanRead
<1>3. IsWhole(Manifest) /\ ManifestIsRead(Manifest)
  BY <1>2, ManifestIsWhole DEF PipelineInv
<1>4. PICK p : p = Parsed(Manifest)
  OBVIOUS
<1>5. ParsedIsNamed(p) /\ IsWhole(OpticalManifest)
  BY <1>2, <1>3, <1>4, ParsedOfRead, OpticalIsWhole
<1>6. GoodSave(t)
  BY <1>1, PlainIsSound, SaveBeside
<1>7. PICK u : u = OpticalWrites(p)
  OBVIOUS
<1>8. Saves(Append(u, t))
  BY <1>5, <1>6, <1>7, OpticalIsSaves, SavesAppended
<1>9. PICK w : w = ManifestLast(Append(u, t), OpticalManifest)
  OBVIOUS
<1>10. Saves(w)
  BY <1>5, <1>8, <1>9, ManifestLastIsSaves
<1>11. Run("optical", w)
  BY <1>2, <1>4, <1>7, <1>9
<1> QED
  BY <1>10, <1>11, RunKeeps

\* All that partial removes and writes is good.
LEMMA PartialIsSaves ==
  ASSUME AreFiles(partial), NEW p, ParsedIsNamed(p), NEW kept, NEW summary \in Summaries,
         NEW content, IsSound(content), NEW j, IsOfPartial(j), NEW P
  PROVE  Saves(Removals \o <<Save(<<"element_mask.npy">>, content)>>
               \o Check(P)
               \o FlattenSeq([n \in DOMAIN p.views |->
                     IF n \in kept THEN PartialViewWrites(p, p.views[n], summary) ELSE <<>>])
               \o <<Save(ManifestOfPartial, JsonFile(j))>>)
<1>1. PICK r, x, y : r = Removals /\ x = Save(<<"element_mask.npy">>, content) /\ y = Save(ManifestOfPartial, JsonFile(j))
  OBVIOUS
<1>2. Saves(r)
  BY <1>1, RemovalsAreSaves
<1>3. GoodSave(x) /\ GoodSave(y)
  <2>1. IsSound(JsonFile(j))
    BY DEF IsSound, JsonFile
  <2> QED
    BY <1>1, <2>1, SaveBeside DEF ManifestOfPartial
<1>4. PICK t : t = [n \in DOMAIN p.views |->
                     IF n \in kept THEN PartialViewWrites(p, p.views[n], summary) ELSE <<>>]
  OBVIOUS
<1>5. t = [n \in DOMAIN p.views |-> t[n]] /\ DOMAIN t = DOMAIN p.views
  BY <1>4
<1>6. IsSeq(t)
  BY <1>5, SameLength DEF ParsedIsNamed
<1>7. ASSUME NEW n \in DOMAIN t PROVE Saves(t[n])
  <2>1. n \in DOMAIN p.views
    BY <1>5
  <2>2. Saves(PartialViewWrites(p, p.views[n], summary))
    BY <2>1, PartialViewIsSaves
  <2> QED
    BY <1>4, <2>1, <2>2, SavesNone
<1>8. PICK f : f = FlattenSeq(t)
  OBVIOUS
<1>9. Saves(f)
  BY <1>6, <1>7, <1>8, SavesFlat
<1>10. PICK u, v : u = <<x>> /\ v = <<y>>
  OBVIOUS
<1>11. Saves(u) /\ Saves(v)
  BY <1>3, <1>10, SavesOne
<1>12. PICK a : a = r \o u
  OBVIOUS
<1>13. Saves(a)
  BY <1>2, <1>11, <1>12, SavesJoined
<1>14. PICK c, b : c = Check(P) /\ b = a \o c \o f
  OBVIOUS
<1>15. Saves(b)
  BY <1>9, <1>13, <1>14, SavesCheck, SavesJoined
<1>16. Saves(b \o v)
  BY <1>11, <1>15, SavesJoined
<1> QED
  BY <1>1, <1>4, <1>8, <1>10, <1>12, <1>14, <1>16

LEMMA PartialKeeps ==
  ASSUME PipelineInv, NEW kept, NEW band, NEW summary \in Summaries, NEW overwrite,
         BuildPartial(kept, band, summary, overwrite)
  PROVE  PipelineInv'
<1>1. PICK p : p = Parsed(Manifest)
  OBVIOUS
<1>2. ManifestFault(Manifest) = NoFault
  BY DEF BuildPartial, CanRead
<1>3. ParsedIsNamed(p)
  BY <1>1, <1>2, ManifestIsWhole, ParsedOfRead DEF PipelineInv
<1> DEFINE front == <<"front">> \in {p.hemispheres[n] : n \in DOMAIN p.hemispheres}
<1>4. PICK content, j : IsSound(content) /\ IsOfPartial(j) /\
        Run("partial", Removals \o <<Save(<<"element_mask.npy">>, content)>>
                       \o Check(front)
                       \o FlattenSeq([n \in DOMAIN p.views |->
                            IF n \in kept THEN PartialViewWrites(p, p.views[n], summary) ELSE <<>>])
                       \o <<Save(ManifestOfPartial, JsonFile(j))>>)
  <2>1. \A s : IsOfPartial(NewPartial(p, s, summary))
    BY DEF NewPartial, IsOfPartial, Get, Has, IsMap, Map
  <2> QED
    BY <1>1, <2>1, PlainIsSound DEF BuildPartial
<1> HIDE DEF front
<1>5. PICK w : w = Removals \o <<Save(<<"element_mask.npy">>, content)>>
                   \o Check(front)
                   \o FlattenSeq([n \in DOMAIN p.views |->
                        IF n \in kept THEN PartialViewWrites(p, p.views[n], summary) ELSE <<>>])
                   \o <<Save(ManifestOfPartial, JsonFile(j))>>
  OBVIOUS
<1>6. Saves(w)
  BY <1>3, <1>4, <1>5, PartialIsSaves DEF PipelineInv
<1>7. Run("partial", w)
  BY <1>4, <1>5
<1> QED
  BY <1>6, <1>7, RunKeeps

\* A file more or less.
LEMMA WithKeeps ==
  ASSUME NEW files, AreFiles(files), NEW path, IsPath(path), NEW content
  PROVE  /\ AreFiles(With(files, path, content))
         /\ HasSound(files) /\ IsSound(content) => HasSound(With(files, path, content))
<1>1. PICK w : w = With(files, path, content)
  OBVIOUS
<1>2. IsFiniteSet(DOMAIN files \ {path}) /\ IsFiniteSet(DOMAIN files \cup {path})
  BY FS_Subset, FS_AddElement DEF AreFiles
<1>3. CASE content = Removed
  <2>1. DOMAIN w = DOMAIN files \ {path} /\ \A p \in DOMAIN w : w[p] = files[p]
    BY <1>1, <1>3 DEF With
  <2>2. AreFiles(w)
    BY <1>2, <2>1 DEF AreFiles
  <2> QED
    BY <1>1, <2>1, <2>2 DEF HasSound
<1>4. CASE content # Removed
  <2>1. DOMAIN w = DOMAIN files \cup {path} /\ \A p \in DOMAIN w : w[p] = IF p = path THEN content ELSE files[p]
    BY <1>1, <1>4 DEF With
  <2>2. AreFiles(w)
    BY <1>2, <2>1 DEF AreFiles
  <2> QED
    BY <1>1, <2>1, <2>2 DEF HasSound
<1> QED
  BY <1>3, <1>4

\* A good content left at a path leaves both directories good.
LEMMA LeaveKeeps ==
  ASSUME PipelineInv, NEW path, IsPath(path), NEW content, IsSound(content),
         Leave(path, content), Saves(writes')
  PROVE  PipelineInv'
<1>1. AreFiles(With(scene, path, content)) /\ AreFiles(With(partial, path, content)) /\ HasSound(With(partial, path, content))
  BY WithKeeps DEF PipelineInv
<1>2. AreFiles(With(dataset, path, content)) /\ HasSound(With(dataset, path, content))
  BY WithKeeps DEF PipelineInv
<1>3. AreFiles(scene')
  BY <1>1 DEF Leave, PipelineInv
<1>4. AreFiles(dataset') /\ HasSound(dataset')
  BY <1>2 DEF Leave, PipelineInv
<1>5. AreFiles(partial') /\ HasSound(partial')
  BY <1>1 DEF Leave, PipelineInv
<1> QED
  BY <1>3, <1>4, <1>5 DEF PipelineInv

\* The next save, and those after it.
LEMMA NextSave ==
  ASSUME NEW s, Saves(s), s # <<>>
  PROVE  GoodSave(Head(s)) /\ Saves(Tail(s))
<1>1. s \in Seq(Range(s))
  BY DEF Saves, IsSeq, Range
<1>2. Head(s) \in Range(s) /\ Tail(s) \in Seq(Range(s))
  BY ONLY <1>1, s # <<>>, HeadTailProperties
<1>3. IsSeq(Tail(s))
  BY <1>2, SeqIsSeq
<1>4. Range(Tail(s)) \subseteq Range(s)
  <2>1. PICK t : t = Tail(s)
    OBVIOUS
  <2>2. \A n \in DOMAIN t : t[n] \in Range(s)
    BY <1>2, <2>1
  <2> QED
    BY <2>1, <2>2 DEF Range
<1> QED
  BY <1>2, <1>3, <1>4 DEF Saves

\* The writes that are left are good, and what dies between them leaves a half that is no manifest.
LEMMA WriteKeeps == ASSUME PipelineInv, Write PROVE PipelineInv'
<1>1. writes # <<>> /\ writes' = Tail(writes) /\ Leave(Head(writes).path, Head(writes).content)
  BY DEF Write, Idle
<1>2. GoodSave(Head(writes)) /\ Saves(writes')
  BY <1>1, NextSave DEF PipelineInv
<1>3. PICK path, content : path = Head(writes).path /\ content = Head(writes).content
  OBVIOUS
<1>4. IsPath(path) /\ IsSound(content) /\ Leave(path, content)
  BY <1>1, <1>2, <1>3 DEF GoodSave
<1> QED
  BY <1>2, <1>4, LeaveKeeps

LEMMA DieKeeps == ASSUME PipelineInv, Die PROVE PipelineInv'
<1>1. writes # <<>> /\ writes' = <<>>
  BY DEF Die, Idle
<1>2. Saves(writes')
  BY <1>1, SavesNone
<1>3. CASE UNCHANGED <<scene, dataset, partial>>
  BY <1>2, <1>3 DEF PipelineInv
<1>4. CASE ~UNCHANGED <<scene, dataset, partial>>
  <2>1. PICK half \in Halves(Head(writes).content) : Leave(Head(writes).path, half)
    BY <1>4 DEF Die
  <2>2. half.is \notin {"json", "xml"}
    BY <2>1 DEF Halves, Blob, NpyFile
  <2>3. IsPath(Head(writes).path)
    BY <1>1, NextSave DEF PipelineInv, GoodSave
  <2>4. IsSound(half)
    BY <2>2, PlainIsSound
  <2> QED
    BY <1>2, <2>1, <2>3, <2>4, LeaveKeeps
<1> QED
  BY <1>3, <1>4

LEMMA AbortKeeps == ASSUME PipelineInv, Abort PROVE PipelineInv'
BY SavesNone DEF Abort, PipelineInv

\* What can be read is sound.
LEMMA ReadableIsSound == ASSUME NEW content, IsReadable(content) PROVE IsSound(content)
<1>1. \A j \in JsonValues : IsWhole(j)
  BY PipelineAssumption DEF IsWhole
<1> QED
  BY <1>1 DEF IsReadable, IsSound

\* The two directories have sound files at paths.
LEMMA PipelineBegins == ASSUME PipelineInit PROVE PipelineInv
<1>1. AreFiles(<<>>) /\ HasSound(<<>>)
  BY FS_EmptySet DEF AreFiles, HasSound
<1>2. AreFiles(dataset) /\ HasSound(dataset)
  <2>1. \A files \in Earlier : AreFiles(files) /\ HasSound(files)
    BY PipelineAssumption, ReadableIsSound DEF AreFiles, HasSound
  <2> QED
    BY <1>1, <2>1 DEF PipelineInit
<1>3. AreFiles(scene)
  BY <1>1, SceneAssumption DEF PipelineInit, AreFiles
<1> QED
  BY <1>1, <1>2, <1>3, SavesNone DEF PipelineInit, PipelineInv

\* Every step of the commands keeps that.
LEMMA PipelineKeeps == ASSUME PipelineInv, PipelineNext PROVE PipelineInv'
BY BuildKeeps, MultiviewKeeps, ObserveKeeps, OpticalKeeps, PartialKeeps, WriteKeeps, DieKeeps, AbortKeeps
   DEF PipelineNext, BuildCommand, MultiviewCommand, ObserveCommand, OpticalCommand, PartialCommand

\* Whatever commands ran and wherever they died, the directories have finitely many
\* files, at paths, and what can be read of them is whole: the lists and the texts in
\* it are sequences (the commands of the data set pipeline).
THEOREM PipelineIsWhole == PipelineInit /\ [][PipelineNext]_pipelineVars => []PipelineInv
<1>1. PipelineInv /\ UNCHANGED pipelineVars => PipelineInv'
  BY DEF pipelineVars, PipelineInv, AreFiles, HasSound, Saves
<1> QED
  BY <1>1, PipelineBegins, PipelineKeeps, PTL

-----------------------------------------------------------------------------
(* A scene is never ahead of its meshes *)

\* A shape of the scene at a path names one of some files, or needs none; and a content
\* at a path, if it is a scene, has shapes like that.
HasFile(path, shape, F) ==
  IF Missing(shape.filename) THEN shape.type \notin {"ply", "obj", "serialized"}
  ELSE /\ IsText(shape.filename) /\ Resolve(shape.filename.s) # Unsafe
       /\ ShapeFile(Member("m", "scene", path, Null, Null), shape) \in F
ReadWith(path, content, F) ==
  content.is = "xml" => \A n \in DOMAIN content.shapes : HasFile(path, content.shapes[n], F)
Before(w, n) == {w[k].path : k \in 1..(n - 1)}
\* What is left to write removes nothing, and a scene comes after the files that it names.
InOrder(w, F) ==
  \A n \in DOMAIN w : w[n].content # Removed /\ ReadWith(w[n].path, w[n].content, F \cup Before(w, n))
SceneInv ==
  /\ \A path \in DOMAIN scene : ReadWith(path, scene[path], DOMAIN scene)
  /\ command = "build" => InOrder(writes, DOMAIN scene)

\* More files do no harm, and with the files of a directory a scene there is valid.
LEMMA ReadWithMore ==
  ASSUME NEW path, NEW content, NEW F, NEW G, F \subseteq G, ReadWith(path, content, F)
  PROVE  ReadWith(path, content, G)
BY DEF ReadWith, HasFile

LEMMA ReadIsValid ==
  ASSUME NEW files
  PROVE  AreRead(files) <=> \A path \in DOMAIN files : ReadWith(path, files[path], DOMAIN files)
<1>1. ASSUME NEW path \in DOMAIN files, files[path].is = "xml"
      PROVE  MemberFault(AsTree(files), Member("m", "scene", path, Null, Null)) = NoFault
             <=> ReadWith(path, files[path], DOMAIN files)
  <2>1. PICK t : t = AsTree(files)
    OBVIOUS
  <2>2. PICK m : m = Member("m", "scene", path, Null, Null)
    OBVIOUS
  <2>3. t.files = files /\ m.kind = "scene" /\ m.path = path
    BY <2>1, <2>2 DEF AsTree, Member
  <2>4. Shapes(t, m) = files[path].shapes
    BY <2>3 DEF Shapes, Content, IsFile
  <2>5. MemberFault(t, m) = SceneFault(t, m)
    BY <2>3 DEF MemberFault
  <2>6. SceneFault(t, m) = NoFault
        <=> \A n \in DOMAIN files[path].shapes : ShapeIsValid(t, m, files[path].shapes[n])
    BY <2>4 DEF SceneFault, Invalid, NoFault
  <2>7. ASSUME NEW shape PROVE ShapeIsValid(t, m, shape) <=> HasFile(path, shape, DOMAIN files)
    BY <2>2, <2>3 DEF ShapeIsValid, HasFile, IsFile
  <2> QED
    BY <1>1, <2>1, <2>2, <2>5, <2>6, <2>7 DEF ReadWith
<1>2. ASSUME NEW path \in DOMAIN files, files[path].is # "xml" PROVE ReadWith(path, files[path], DOMAIN files)
  BY <1>2 DEF ReadWith
<1> QED
  BY <1>1, <1>2 DEF AreRead

\* A scene that build writes names its meshes, which it wrote before.
LEMMA BuildIsInOrder ==
  ASSUME NEW city \in Cities, CanParse(city), NEW ground \in Grounds, NEW F
  PROVE  InOrder(CityWrites(city, ground), F)
<1>1. HasLists(city) /\ \A n \in DOMAIN Meshes(city, ground) :
        Resolve(MeshFile(Meshes(city, ground)[n])) = MeshFile(Meshes(city, ground)[n])
        /\ MeshFile(Meshes(city, ground)[n]) # Unsafe /\ MeshFile(Meshes(city, ground)[n]) # <<"">>
  BY SceneAssumption
<1>2. PICK m, w : m = Meshes(city, ground) /\ w = CityWrites(city, ground)
  OBVIOUS
<1>3. /\ IsSeq(m) /\ IsSeq(w) /\ Len(w) = Len(m) + 2
      /\ \A n \in DOMAIN m : w[n] = Save(MeshFile(m[n]), Blob)
      /\ w[Len(m) + 1] = Save(XmlPath(city), SceneXml(m))
      /\ w[Len(m) + 2] = Save(<<"manifest.json">>, JsonFile(SceneManifest(city, m, ground)))
  BY <1>1, <1>2, CityWritesAre
<1>4. PICK l \in Nat : l = Len(m) /\ DOMAIN m = 1..l
  BY <1>3, SeqParts
<1>5. DOMAIN w = 1..(l + 2)
  BY <1>3, <1>4, SeqParts
<1>6. \A n \in 1..(l + 2) : n \in 1..l \/ n = l + 1 \/ n = l + 2
  OBVIOUS
<1>7. ASSUME NEW n \in 1..l
      PROVE  w[n].content # Removed /\ ReadWith(w[n].path, w[n].content, F \cup Before(w, n))
  <2>1. w[n] = Save(MeshFile(m[n]), Blob)
    BY <1>3, <1>4
  <2>2. w[n].content = Blob /\ Blob.is = "blob" /\ Removed.is = "removed"
    BY <2>1 DEF Save, Blob, Removed
  <2> QED
    BY <2>1, <2>2 DEF ReadWith
<1>8. w[l + 2].content # Removed /\ ReadWith(w[l + 2].path, w[l + 2].content, F \cup Before(w, l + 2))
  <2>1. w[l + 2].content = JsonFile(SceneManifest(city, m, ground))
    BY <1>3, <1>4 DEF Save
  <2>2. w[l + 2].content.is = "json" /\ Removed.is = "removed"
    BY <2>1 DEF JsonFile, Removed
  <2> QED
    BY <2>2 DEF ReadWith
<1>9. w[l + 1].content # Removed /\ ReadWith(w[l + 1].path, w[l + 1].content, F \cup Before(w, l + 1))
  <2>1. w[l + 1].content = SceneXml(m) /\ w[l + 1].path = XmlPath(city)
    BY <1>3, <1>4 DEF Save
  <2>2. SceneXml(m).is = "xml" /\ Removed.is = "removed" /\ DOMAIN SceneXml(m).shapes = 1..l
        /\ \A n \in 1..l : SceneXml(m).shapes[n].filename = Str(MeshFile(m[n]))
    BY <1>4 DEF SceneXml, XmlFile, Removed
  <2>3. ASSUME NEW n \in 1..l PROVE HasFile(XmlPath(city), SceneXml(m).shapes[n], F \cup Before(w, l + 1))
    <3>1. PICK shape : shape = SceneXml(m).shapes[n]
      OBVIOUS
    <3>2. PICK file : file = MeshFile(m[n])
      OBVIOUS
    <3>3. shape.filename = Str(file)
      BY <2>2, <3>1, <3>2
    <3>4. Resolve(file) = file /\ file # Unsafe /\ file # <<"">>
      BY <1>1, <1>2, <1>4, <3>2
    <3>5. ~Missing(shape.filename) /\ IsText(shape.filename) /\ shape.filename.s = file
      <4>1. Str(file).t = "str" /\ Str(file).s = file /\ Null.t = "null"
        BY DEF Str, Null
      <4> QED
        BY <3>3, <3>4, <4>1 DEF Missing, IsText, IsStr, Str
    <3>6. Parent(XmlPath(city)) \o file = file
      <4>1. PICK x : XmlPath(city) = <<x>>
        BY DEF XmlPath
      <4>2. PICK y : file = <<y>>
        BY <3>2 DEF MeshFile
      <4>3. PICK p : p = <<x>>
        OBVIOUS
      <4>4. Len(p) = 1 /\ SubSeq(p, 1, 0) = <<>> /\ <<>> \o <<y>> = <<y>>
        BY <4>3
      <4>5. Parent(p) = SubSeq(p, 1, 0)
        BY ONLY <4>4 DEF Parent
      <4> QED
        BY <4>1, <4>2, <4>3, <4>4, <4>5
    <3>7. ShapeFile(Member("m", "scene", XmlPath(city), Null, Null), shape) = file
      BY <3>4, <3>5, <3>6 DEF ShapeFile, Member
    <3>8. file \in Before(w, l + 1)
      <4>1. w[n] = Save(file, Blob) /\ (l + 1) - 1 = l
        BY <1>3, <1>4, <3>2
      <4>2. w[n].path = file
        BY <4>1 DEF Save
      <4> QED
        BY <4>1, <4>2 DEF Before
    <3> QED
      BY <3>1, <3>4, <3>5, <3>7, <3>8 DEF HasFile
  <2> QED
    BY <2>1, <2>2, <2>3 DEF ReadWith
<1> QED
  BY <1>2, <1>5, <1>6, <1>7, <1>8, <1>9 DEF InOrder

\* The first of the writes, and where those after it are.
LEMMA AfterTheFirst ==
  ASSUME NEW w, IsSeq(w), w # <<>>
  PROVE  /\ 1 \in DOMAIN w /\ Head(w) = w[1]
         /\ \A n \in DOMAIN Tail(w) : n + 1 \in DOMAIN w /\ Tail(w)[n] = w[n + 1]
                                      /\ Before(w, n + 1) = {w[1].path} \cup Before(Tail(w), n)
<1>1. PICK l \in Nat : l = Len(w) /\ DOMAIN w = 1..l
  BY SeqParts
<1>2. w \in Seq(Range(w))
  BY DEF IsSeq, Range
<1>3. PICK t : t = Tail(w)
  OBVIOUS
<1>4. /\ l # 0 /\ Head(w) = w[1] /\ Len(t) = l - 1 /\ DOMAIN t = 1..(l - 1)
      /\ \A n \in 1..(l - 1) : t[n] = w[n + 1]
  BY ONLY <1>1, <1>2, <1>3, w # <<>>, HeadTailProperties, ElementOfSeq
<1>5. ASSUME NEW n \in 1..(l - 1)
      PROVE  n + 1 \in 1..l /\ Before(w, n + 1) = {w[1].path} \cup Before(t, n)
  <2>1. n + 1 \in 1..l /\ (n + 1) - 1 = n /\ 1 \in 1..n
    OBVIOUS
  <2>2. ASSUME NEW k \in 1..n PROVE w[k].path \in {w[1].path} \cup {t[i].path : i \in 1..(n - 1)}
    <3>1. CASE k = 1
      BY <3>1
    <3>2. CASE k # 1
      <4>1. k - 1 \in 1..(n - 1) /\ k - 1 \in 1..(l - 1) /\ (k - 1) + 1 = k
        BY <3>2
      <4> QED
        BY <1>4, <4>1
    <3> QED
      BY <3>1, <3>2
  <2>3. ASSUME NEW i \in 1..(n - 1) PROVE t[i].path \in {w[k].path : k \in 1..n}
    <3>1. i + 1 \in 1..n /\ i \in 1..(l - 1)
      OBVIOUS
    <3> QED
      BY <1>4, <3>1
  <2> QED
    BY <2>1, <2>2, <2>3 DEF Before
<1>6. 1 \in 1..l
  BY <1>4
<1> QED
  BY <1>1, <1>3, <1>4, <1>5, <1>6

\* One file more in a scene directory.
LEMMA OneFileMore ==
  ASSUME NEW files, NEW path, NEW content, content # Removed,
         \A p \in DOMAIN files : ReadWith(p, files[p], DOMAIN files), ReadWith(path, content, DOMAIN files)
  PROVE  LET g == With(files, path, content)
         IN  DOMAIN g = DOMAIN files \cup {path} /\ \A p \in DOMAIN g : ReadWith(p, g[p], DOMAIN g)
<1>1. PICK g : g = With(files, path, content)
  OBVIOUS
<1>2. DOMAIN g = DOMAIN files \cup {path} /\ \A p \in DOMAIN g : g[p] = IF p = path THEN content ELSE files[p]
  BY <1>1 DEF With
<1>3. ASSUME NEW p \in DOMAIN g PROVE ReadWith(p, g[p], DOMAIN files)
  BY <1>2
<1>4. \A p \in DOMAIN g : ReadWith(p, g[p], DOMAIN g)
  BY <1>2, <1>3, ReadWithMore
<1> QED
  BY <1>1, <1>2, <1>4

LEMMA SceneWriteKeeps == ASSUME PipelineInv, SceneInv, Write PROVE SceneInv'
<1>1. writes # <<>> /\ writes' = Tail(writes) /\ Leave(Head(writes).path, Head(writes).content) /\ command' = command
  BY DEF Write, Idle
<1>2. CASE command # "build"
  <2>1. Place # "scene"
    BY <1>2 DEF Place
  <2>2. scene' = scene
    BY <1>1, <2>1 DEF Leave
  <2> QED
    BY <1>1, <1>2, <2>2 DEF SceneInv
<1>3. CASE command = "build"
  <2>1. IsSeq(writes)
    BY DEF PipelineInv, Saves
  <2>2. PICK w, t, x : w = writes /\ t = Tail(writes) /\ x = writes[1]
    OBVIOUS
  <2>3. /\ 1 \in DOMAIN w /\ Head(w) = x
        /\ \A n \in DOMAIN t : n + 1 \in DOMAIN w /\ t[n] = w[n + 1] /\ Before(w, n + 1) = {x.path} \cup Before(t, n)
    BY <1>1, <2>1, <2>2, AfterTheFirst
  <2>4. InOrder(w, DOMAIN scene)
    BY <1>3, <2>2 DEF SceneInv
  <2>5. x.content # Removed /\ ReadWith(x.path, x.content, DOMAIN scene)
    <3>1. Before(w, 1) = {}
      BY DEF Before
    <3> QED
      BY <2>2, <2>3, <2>4, <3>1 DEF InOrder
  <2>6. scene' = With(scene, x.path, x.content)
    BY <1>1, <1>3, <2>2, <2>3 DEF Leave, Place
  <2>7. DOMAIN scene' = DOMAIN scene \cup {x.path} /\ \A p \in DOMAIN scene' : ReadWith(p, scene'[p], DOMAIN scene')
    BY <2>5, <2>6, OneFileMore DEF SceneInv
  <2>8. ASSUME NEW n \in DOMAIN t
        PROVE  t[n].content # Removed /\ ReadWith(t[n].path, t[n].content, DOMAIN scene' \cup Before(t, n))
    <3>1. w[n + 1].content # Removed
          /\ ReadWith(w[n + 1].path, w[n + 1].content, DOMAIN scene \cup Before(w, n + 1))
      BY <2>3, <2>4 DEF InOrder
    <3>2. DOMAIN scene \cup Before(w, n + 1) = DOMAIN scene' \cup Before(t, n)
      BY <2>3, <2>7
    <3> QED
      BY <2>3, <3>1, <3>2
  <2>9. InOrder(t, DOMAIN scene')
    BY <2>8 DEF InOrder
  <2> QED
    BY <1>1, <2>2, <2>7, <2>9 DEF SceneInv
<1> QED
  BY <1>2, <1>3

LEMMA SceneDieKeeps == ASSUME SceneInv, Die PROVE SceneInv'
<1>1. writes' = <<>> /\ command' = command
  BY DEF Die
<1>2. \A F : InOrder(<<>>, F)
  BY DEF InOrder
<1>3. CASE scene' = scene
  BY <1>1, <1>2, <1>3 DEF SceneInv
<1>4. CASE scene' # scene
  <2>1. PICK half \in Halves(Head(writes).content) : Leave(Head(writes).path, half)
    BY <1>4 DEF Die
  <2>2. half.is # "xml" /\ half # Removed
    BY <2>1 DEF Halves, Blob, NpyFile, Removed
  <2>3. PICK path : path = Head(writes).path
    OBVIOUS
  <2>4. ReadWith(path, half, DOMAIN scene)
    BY <2>2 DEF ReadWith
  <2>5. scene' = With(scene, path, half)
    BY <1>4, <2>1, <2>3 DEF Leave
  <2>6. \A p \in DOMAIN scene' : ReadWith(p, scene'[p], DOMAIN scene')
    BY <2>2, <2>4, <2>5, OneFileMore DEF SceneInv
  <2> QED
    BY <1>1, <1>2, <2>6 DEF SceneInv
<1> QED
  BY <1>3, <1>4

\* Every step of the commands keeps the scene readable.
LEMMA SceneKeeps == ASSUME PipelineInv, SceneInv, PipelineNext PROVE SceneInv'
<1>1. ASSUME NEW city \in Cities, NEW ground \in Grounds, Build(city, ground) PROVE SceneInv'
  <2>1. InOrder(CityWrites(city, ground), DOMAIN scene)
    BY <1>1, BuildIsInOrder DEF Build
  <2>2. scene' = scene /\ writes' = CityWrites(city, ground)
    BY <1>1 DEF Build, Run
  <2> QED
    BY <2>1, <2>2 DEF SceneInv
<1>2. ASSUME NEW what, NEW steps, what # "build", Run(what, steps) PROVE SceneInv'
  BY <1>2 DEF Run, SceneInv
<1>3. ASSUME NEW c, Multiview(c) PROVE SceneInv'
  BY <1>2, <1>3 DEF Multiview
<1>4. ASSUME NEW name, Observe(name) PROVE SceneInv'
  BY <1>2, <1>4 DEF Observe
<1>5. ASSUME Optical PROVE SceneInv'
  BY <1>2, <1>5 DEF Optical
<1>6. ASSUME NEW kept, NEW band, NEW summary, NEW overwrite, BuildPartial(kept, band, summary, overwrite)
      PROVE SceneInv'
  <2>1. PICK steps : Run("partial", steps)
    BY <1>6 DEF BuildPartial
  <2> QED
    BY <1>2, <2>1
<1>7. ASSUME Abort PROVE SceneInv'
  BY <1>7 DEF Abort, SceneInv, InOrder
<1> QED
  BY <1>1, <1>3, <1>4, <1>5, <1>6, <1>7, SceneWriteKeeps, SceneDieKeeps
     DEF PipelineNext, BuildCommand, MultiviewCommand, ObserveCommand, OpticalCommand, PartialCommand

\* Whatever was built, or built again, and wherever a build died, every scene that
\* can be parsed is a valid member of a bundle, with each of the files that it
\* names (SceneBuilder.run, which compiles a scene after its meshes).
THEOREM ScenesAreRead == PipelineInit /\ [][PipelineNext]_pipelineVars => []SceneIsRead
<1>1. PipelineInit => SceneInv
  <2> SUFFICES ASSUME PipelineInit PROVE SceneInv
    OBVIOUS
  <2>1. AreRead(scene)
    <3>1. \A files \in EarlierScenes : AreRead(files)
      BY SceneAssumption
    <3>2. DOMAIN <<>> = {}
      OBVIOUS
    <3>3. AreRead(<<>>)
      BY <3>2 DEF AreRead
    <3> QED
      BY <3>1, <3>3 DEF PipelineInit
  <2>2. command # "build"
    BY DEF PipelineInit
  <2> QED
    BY <2>1, <2>2, ReadIsValid DEF SceneInv
<1>2. PipelineInv /\ SceneInv /\ [PipelineNext]_pipelineVars => SceneInv'
  <2>1. SceneInv /\ UNCHANGED pipelineVars => SceneInv'
    BY DEF pipelineVars, SceneInv, InOrder, Before
  <2> QED
    BY <2>1, SceneKeeps
<1>3. SceneInv => SceneIsRead
  BY ReadIsValid DEF SceneInv, SceneIsRead
<1> QED
  BY <1>1, <1>2, <1>3, PipelineIsWhole, PTL
-----------------------------------------------------------------------------
(* Paths of a bundle *)

\* Components that say nothing, and a path up to a position without them.
Silent(c) == c \in {"", "."}
PlainStep(path, g, n) ==
  IF n = 0 THEN <<>> ELSE IF Silent(path[n]) THEN g[n - 1] ELSE Append(g[n - 1], path[n])
PlainTo(path) == CHOOSE g : g = [n \in 0..Len(path) |-> PlainStep(path, g, n)]
\* The model's is this one.
LEMMA PlainIs == \A path : Plain(path) = PlainTo(path)[Len(path)]
BY DEF Plain, PlainTo, PlainStep, Silent

\* There is such a path up to each position.
LEMMA PlainIsDefined ==
  ASSUME NEW path, IsSeq(path)
  PROVE  \A n \in 0..Len(path) : PlainTo(path)[n] = PlainStep(path, PlainTo(path), n)
<1> DEFINE Good(n) == \E g : g = [i \in 0..n |-> PlainStep(path, g, i)]
           Bad == {n \in Nat : ~Good(n)}
<1>1. Bad = {}
  <2> SUFFICES ASSUME Bad # {} PROVE FALSE
    OBVIOUS
  <2>1. PICK m \in Nat : ~Good(m) /\ \A n \in Nat : ~Good(n) => m <= n
    <3>1. Bad \subseteq Nat
      OBVIOUS
    <3>2. PICK m \in Bad : \A n \in Bad : m <= n
      <4> HIDE DEF Bad
      <4> QED
        BY <3>1, LeastNat
    <3> QED
      BY <3>2
  <2>2. m # 0
    <3>1. PICK g : g = [i \in 0..0 |-> <<>>]
      OBVIOUS
    <3>2. \A i \in 0..0 : i = 0
      OBVIOUS
    <3>3. PlainStep(path, g, 0) = <<>>
      BY DEF PlainStep
    <3>4. g = [i \in 0..0 |-> PlainStep(path, g, i)]
      BY <3>1, <3>2, <3>3
    <3> QED
      BY <2>1, <3>4
  <2>3. m - 1 \in Nat /\ ~(m <= m - 1)
    BY <2>2
  <2>4. PICK g : g = [i \in 0..(m - 1) |-> PlainStep(path, g, i)]
    BY <2>1, <2>3
  <2> DEFINE h == [i \in 0..m |-> PlainStep(path, g, i)]
  <2>5. ASSUME NEW i \in 0..m PROVE PlainStep(path, g, i) = PlainStep(path, h, i)
    <3>1. CASE i = 0
      BY <3>1 DEF PlainStep
    <3>2. CASE i # 0
      <4>1. i - 1 \in 0..(m - 1) /\ i - 1 \in 0..m
        BY <3>2
      <4>2. h[i - 1] = g[i - 1]
        BY <2>4, <4>1
      <4> HIDE DEF h
      <4> QED
        BY <3>2, <4>2 DEF PlainStep
    <3> QED
      BY <3>1, <3>2
  <2>6. h = [i \in 0..m |-> PlainStep(path, h, i)]
    <3>1. PICK k : k = h
      OBVIOUS
    <3> QED
      BY <2>5, <3>1
  <2> QED
    BY <2>1, <2>6
<1>2. Good(Len(path))
  <2>1. Len(path) \in Nat
    BY SeqParts
  <2> QED
    BY <1>1, <2>1
<1> DEFINE f == PlainTo(path)
<1>3. f = [i \in 0..Len(path) |-> PlainStep(path, f, i)]
  BY <1>2 DEF PlainTo
<1> HIDE DEF f
<1>4. \A i \in 0..Len(path) : f[i] = PlainStep(path, f, i)
  BY <1>3
<1> QED
  BY <1>4 DEF f

\* Up to each position it has components of the path.
LEMMA PlainParts ==
  ASSUME NEW path, IsSeq(path)
  PROVE  \A n \in 0..Len(path) :
           IsSeq(PlainTo(path)[n]) /\ \A c \in Range(PlainTo(path)[n]) : c \in Range(path) /\ ~Silent(c)
<1>1. PICK l \in Nat : l = Len(path)
  BY SeqParts
<1>2. PICK f : f = PlainTo(path)
  OBVIOUS
<1>3. \A n \in 0..l : f[n] = PlainStep(path, f, n)
  BY <1>1, <1>2, PlainIsDefined
<1> DEFINE R == {c \in Range(path) : ~Silent(c)}
           Bad == {n \in 0..l : ~(IsSeq(f[n]) /\ Range(f[n]) \subseteq R)}
<1>4. Bad = {}
  <2> SUFFICES ASSUME Bad # {} PROVE FALSE
    OBVIOUS
  <2>1. PICK m \in Bad : \A n \in Bad : m <= n
    <3>1. Bad \subseteq Nat
      OBVIOUS
    <3> HIDE DEF Bad
    <3> QED
      BY <3>1, LeastNat
  <2>2. m \in 0..l /\ ~(IsSeq(f[m]) /\ Range(f[m]) \subseteq R)
    OBVIOUS
  <2>3. CASE m = 0
    <3>1. f[m] = <<>>
      BY <1>3, <2>2, <2>3 DEF PlainStep
    <3>2. DOMAIN <<>> = {}
      OBVIOUS
    <3>3. Range(<<>>) = {}
      BY <3>2 DEF Range
    <3> QED
      BY <2>2, <3>1, <3>3, NoneIsSeq
  <2>4. CASE m # 0
    <3>1. m - 1 \in 0..l /\ ~(m <= m - 1) /\ m \in 1..l
      <4>1. m \in 0..l
        BY <2>2
      <4> QED
        BY ONLY <1>1, <4>1, <2>4
    <3>2. PICK d : d = f[m - 1]
      OBVIOUS
    <3>3. IsSeq(d) /\ Range(d) \subseteq R
      BY <2>1, <3>1, <3>2
    <3>4. PICK x : x = path[m]
      OBVIOUS
    <3>5. f[m] = IF Silent(x) THEN d ELSE Append(d, x)
      BY <1>3, <2>2, <2>4, <3>2, <3>4 DEF PlainStep
    <3>6. x \in Range(path)
      <4>1. DOMAIN path = 1..l
        BY <1>1, SeqParts
      <4> QED
        BY <3>1, <3>4, <4>1 DEF Range
    <3>7. IsSeq(Append(d, x)) /\ Range(Append(d, x)) = Range(d) \cup {x}
      BY <3>3, OneAppended
    <3> QED
      BY <2>2, <3>3, <3>5, <3>6, <3>7
  <2> QED
    BY <2>3, <2>4
<1>5. \A n \in 0..l : IsSeq(f[n]) /\ Range(f[n]) \subseteq R
  BY <1>4
<1> QED
  BY <1>1, <1>2, <1>5

\* So it has no others, none of them empty or ".".
LEMMA PlainIsPlain ==
  ASSUME NEW path, IsSeq(path)
  PROVE  IsSeq(Plain(path)) /\ \A c \in Range(Plain(path)) : c \in Range(path) /\ ~Silent(c)
<1>1. Len(path) \in 0..Len(path)
  BY SeqParts
<1> QED
  BY <1>1, PlainIs, PlainParts
\* Two paths in a row, component by component.
LEMMA JoinedParts ==
  ASSUME NEW p, NEW q, IsSeq(p), IsSeq(q)
  PROVE  /\ IsSeq(p \o q) /\ Len(p \o q) = Len(p) + Len(q)
         /\ \A n \in 1..Len(p) : (p \o q)[n] = p[n]
         /\ \A n \in 1..Len(q) : (p \o q)[Len(p) + n] = q[n]
<1> DEFINE T == Range(p) \cup Range(q)
<1>1. p \in Seq(T) /\ q \in Seq(T)
  BY DEF IsSeq, Range
<1>2. PICK k : k = Len(p)
  OBVIOUS
<1>3. PICK l : l = Len(q)
  OBVIOUS
<1>4. PICK y : y = p \o q
  OBVIOUS
<1>5. /\ y \in Seq(T) /\ Len(y) = k + l
      /\ \A n \in 1..(k + l) : y[n] = IF n <= k THEN p[n] ELSE q[n - k]
  <2>1. /\ p \o q \in Seq(T) /\ Len(p \o q) = Len(p) + Len(q)
        /\ \A n \in 1..(Len(p) + Len(q)) : (p \o q)[n] = IF n <= Len(p) THEN p[n] ELSE q[n - Len(p)]
    BY ONLY <1>1, ConcatProperties
  <2> QED
    BY ONLY <1>2, <1>3, <1>4, <2>1
<1>6. k \in Nat /\ l \in Nat
  BY <1>2, <1>3, SeqParts
<1>7. IsSeq(y)
  BY <1>5, SeqIsSeq
<1>8. \A n \in 1..k : n \in 1..(k + l) /\ n <= k
  BY <1>6
<1>9. \A n \in 1..l : k + n \in 1..(k + l) /\ ~(k + n <= k) /\ (k + n) - k = n
  BY <1>6
<1>10. \A n \in 1..k : y[n] = p[n]
  BY <1>5, <1>8
<1>11. \A n \in 1..l : y[k + n] = q[n]
  BY <1>5, <1>9
<1> QED
  BY <1>2, <1>3, <1>4, <1>5, <1>7, <1>10, <1>11

\* A component after two paths; none after a path.
EndsAlike(p, q, x) == Append(p \o q, x) = p \o Append(q, x)
LEMMA JoinedLonger ==
  ASSUME NEW p, NEW q, IsSeq(p), IsSeq(q), NEW x
  PROVE  EndsAlike(p, q, x)
<1>1. PICK r : r = Append(q, x)
  OBVIOUS
<1>2. PICK y : y = p \o q
  OBVIOUS
<1>3. PICK z : z = Append(y, x)
  OBVIOUS
<1>4. PICK w : w = p \o r
  OBVIOUS
<1>5. PICK k : k = Len(p)
  OBVIOUS
<1>6. PICK l : l = Len(q)
  OBVIOUS
<1>7. k \in Nat /\ l \in Nat
  BY <1>5, <1>6, SeqParts
<1>8. IsSeq(r) /\ Len(r) = l + 1 /\ r[l + 1] = x /\ \A i \in 1..l : r[i] = q[i]
  BY <1>1, <1>6, Longer
<1>9. /\ IsSeq(y) /\ Len(y) = k + l /\ \A n \in 1..k : y[n] = p[n]
      /\ \A n \in 1..l : y[k + n] = q[n]
  BY <1>2, <1>5, <1>6, JoinedParts
<1>10. /\ IsSeq(w) /\ Len(w) = k + (l + 1) /\ \A n \in 1..k : w[n] = p[n]
       /\ \A n \in 1..(l + 1) : w[k + n] = r[n]
  BY <1>4, <1>5, <1>8, JoinedParts
<1>11. IsSeq(z) /\ Len(z) = (k + l) + 1 /\ z[(k + l) + 1] = x /\ \A i \in 1..(k + l) : z[i] = y[i]
  BY <1>3, <1>9, Longer
<1>12. ASSUME NEW n \in 1..((k + l) + 1) PROVE z[n] = w[n]
  <2>1. CASE n <= k
    <3>1. n \in 1..k /\ n \in 1..(k + l)
      BY <1>7, <2>1
    <3> QED
      BY <1>9, <1>10, <1>11, <3>1
  <2>2. CASE ~(n <= k) /\ n <= k + l
    <3>1. PICK i : i = n - k
      OBVIOUS
    <3>2. i \in 1..l /\ i \in 1..(l + 1) /\ k + i = n /\ n \in 1..(k + l)
      BY <1>7, <2>2, <3>1
    <3>3. z[n] = y[k + i] /\ w[n] = r[i]
      BY <1>10, <1>11, <3>2
    <3> QED
      BY <1>8, <1>9, <3>2, <3>3
  <2>3. CASE ~(n <= k + l)
    <3>1. n = (k + l) + 1 /\ n = k + (l + 1) /\ l + 1 \in 1..(l + 1)
      BY <1>7, <2>3
    <3>2. w[k + (l + 1)] = r[l + 1]
      BY <1>10, <3>1
    <3> QED
      BY <1>8, <1>11, <3>1, <3>2
  <2> QED
    BY <2>1, <2>2, <2>3
<1>13. (k + l) + 1 = k + (l + 1)
  BY <1>7
<1>14. z = w
  BY <1>10, <1>11, <1>12, <1>13, SameSeq
<1> QED
  BY <1>1, <1>2, <1>3, <1>4, <1>14 DEF EndsAlike

LEMMA JoinedNone == ASSUME NEW p, IsSeq(p) PROVE p \o <<>> = p
<1>1. PICK T : T = Range(p)
  OBVIOUS
<1>2. p \in Seq(T)
  BY <1>1 DEF IsSeq, Range
<1> QED
  BY <1>2

\* What comes after a path in a row of two.
LEMMA AfterPath ==
  ASSUME NEW p, NEW q, IsSeq(p), IsSeq(q)
  PROVE  SubSeq(p \o q, Len(p) + 1, Len(p \o q)) = q
<1>1. PICK k : k = Len(p)
  OBVIOUS
<1>2. PICK l : l = Len(q)
  OBVIOUS
<1>3. PICK y : y = p \o q
  OBVIOUS
<1>4. k \in Nat /\ l \in Nat
  BY <1>1, <1>2, SeqParts
<1>5. /\ IsSeq(y) /\ Len(y) = k + l
      /\ \A n \in 1..l : y[k + n] = q[n]
  BY <1>1, <1>2, <1>3, JoinedParts
<1>6. PICK z : z = SubSeq(y, k + 1, k + l)
  OBVIOUS
<1>7. z \in Seq(Range(y)) /\ Len(z) = l /\ \A i \in 1..l : z[i] = y[k + i]
  <2>1. PICK T : T = Range(y)
    OBVIOUS
  <2>2. y \in Seq(T)
    BY <1>5, <2>1 DEF IsSeq, Range
  <2> QED
    BY ONLY <1>4, <1>5, <1>6, <2>1, <2>2
<1>8. IsSeq(z) /\ \A i \in 1..l : z[i] = q[i]
  BY <1>5, <1>7, SeqIsSeq
<1>9. z = q
  BY <1>2, <1>7, <1>8, SameSeq
<1> QED
  BY <1>1, <1>3, <1>5, <1>6, <1>9
\* The rest of a row that begins with one more.
LEMMA TailOfJoined == ASSUME NEW x, NEW q, IsSeq(q) PROVE Tail(<<x>> \o q) = q
<1>1. PICK p : p = <<x>>
  OBVIOUS
<1>2. PICK y : y = p \o q
  OBVIOUS
<1>3. PICK l : l = Len(q)
  OBVIOUS
<1>4. IsSeq(p)
  BY <1>1, OneIsSeq
<1>5. PICK k : k = Len(p)
  OBVIOUS
<1>6. IsSeq(y) /\ Len(y) = k + l /\ \A n \in 1..l : y[k + n] = q[n]
  BY <1>2, <1>3, <1>4, <1>5, JoinedParts
<1>7. k = 1 /\ l \in Nat
  BY <1>1, <1>3, <1>5, SeqParts
<1>8. IsSeq(y) /\ Len(y) = 1 + l /\ \A n \in 1..l : y[1 + n] = q[n]
  BY ONLY <1>6, <1>7
<1>9. PICK z : z = Tail(y)
  OBVIOUS
<1>10. z \in Seq(Range(y)) /\ Len(z) = l /\ \A i \in 1..l : z[i] = y[1 + i]
  <2>1. PICK T : T = Range(y)
    OBVIOUS
  <2>2. y \in Seq(T)
    BY <1>8, <2>1 DEF IsSeq, Range
  <2>3. y # <<>>
    <3>1. Len(<<>>) = 0 /\ 1 + l # 0
      BY <1>7
    <3> QED
      BY ONLY <1>8, <3>1
  <2> QED
    BY ONLY <1>7, <1>8, <1>9, <2>1, <2>2, <2>3
<1>11. IsSeq(z) /\ \A i \in 1..l : z[i] = q[i]
  BY <1>8, <1>10, SeqIsSeq
<1>12. z = q
  BY <1>3, <1>10, <1>11, SameSeq
<1> QED
  BY <1>1, <1>2, <1>9, <1>12

\* A path all of whose components say something stays what it is, before another too.
LEMMA PlainJoined ==
  ASSUME NEW p, NEW q, IsSeq(p), IsSeq(q), \A n \in DOMAIN p : ~Silent(p[n])
  PROVE  Plain(p \o q) = p \o Plain(q)
<1>1. PICK k : k = Len(p)
  OBVIOUS
<1>2. PICK l : l = Len(q)
  OBVIOUS
<1>3. PICK y : y = p \o q
  OBVIOUS
<1>4. k \in Nat /\ l \in Nat /\ DOMAIN p = 1..k
  BY <1>1, <1>2, SeqParts
<1>5. /\ IsSeq(y) /\ Len(y) = k + l /\ \A n \in 1..k : y[n] = p[n]
      /\ \A n \in 1..l : y[k + n] = q[n]
  BY <1>1, <1>2, <1>3, JoinedParts
<1>6. PICK g : g = PlainTo(y)
  OBVIOUS
<1>7. PICK h : h = PlainTo(q)
  OBVIOUS
<1>8. \A n \in 0..(k + l) : g[n] = PlainStep(y, g, n)
  BY <1>5, <1>6, PlainIsDefined
<1>9. \A n \in 0..l : h[n] = PlainStep(q, h, n) /\ IsSeq(h[n])
  BY <1>2, <1>7, PlainIsDefined, PlainParts
<1>10. \A n \in 0..k : IsSeq(g[n]) /\ Len(g[n]) = n /\ \A i \in 1..n : g[n][i] = p[i]
  <2> DEFINE Good(n) == IsSeq(g[n]) /\ Len(g[n]) = n /\ \A i \in 1..n : g[n][i] = p[i]
             Bad == {n \in 0..k : ~Good(n)}
  <2>1. Bad = {}
    <3> SUFFICES ASSUME Bad # {} PROVE FALSE
      OBVIOUS
    <3>1. PICK m \in Bad : \A n \in Bad : m <= n
      <4>1. Bad \subseteq Nat
        OBVIOUS
      <4> HIDE DEF Bad
      <4> QED
        BY <4>1, LeastNat
    <3>2. m \in 0..k /\ ~Good(m)
      OBVIOUS
    <3>3. CASE m = 0
      <4>1. 0 \in 0..(k + l)
        BY <1>4
      <4>2. g[0] = <<>> /\ Len(<<>>) = 0
        BY <1>8, <4>1 DEF PlainStep
      <4>3. \A i \in 1..0 : FALSE
        OBVIOUS
      <4> QED
        BY <3>2, <3>3, <4>2, <4>3, NoneIsSeq
    <3>4. CASE m # 0
      <4>1. m - 1 \in 0..k /\ ~(m <= m - 1) /\ m \in 1..k /\ m \in 0..(k + l) /\ (m - 1) + 1 = m
        BY <1>4, <3>2, <3>4
      <4>2. PICK d : d = g[m - 1]
        OBVIOUS
      <4>3. m - 1 \notin Bad
        BY <3>1, <4>1
      <4>4. IsSeq(d) /\ Len(d) = m - 1 /\ \A i \in 1..(m - 1) : d[i] = p[i]
        BY <4>1, <4>2, <4>3
      <4>5. ~Silent(y[m]) /\ y[m] = p[m]
        BY <1>4, <1>5, <4>1
      <4>6. g[m] = Append(d, p[m])
        BY <1>8, <3>4, <4>1, <4>2, <4>5 DEF PlainStep
      <4>7. PICK z : z = Append(d, p[m])
        OBVIOUS
      <4>8. IsSeq(z) /\ Len(z) = m /\ z[m] = p[m] /\ \A i \in 1..(m - 1) : z[i] = d[i]
        BY <4>1, <4>4, <4>7, Longer
      <4>9. \A i \in 1..m : i \in 1..(m - 1) \/ i = m
        BY <4>1
      <4> QED
        BY <3>2, <4>4, <4>6, <4>7, <4>8, <4>9
    <3> QED
      BY <3>3, <3>4
  <2> QED
    BY <2>1
<1>11. g[k] = p
  <2>1. k \in 0..k
    BY <1>4
  <2>2. PICK z : z = g[k]
    OBVIOUS
  <2>3. IsSeq(z) /\ Len(z) = k /\ \A i \in 1..k : z[i] = p[i]
    BY <1>10, <2>1, <2>2
  <2> QED
    BY <1>1, <2>2, <2>3, SameSeq
<1>12. \A n \in 0..l : g[k + n] = p \o h[n]
  <2> DEFINE Good(n) == g[k + n] = p \o h[n]
             Bad == {n \in 0..l : ~Good(n)}
  <2>1. Bad = {}
    <3> SUFFICES ASSUME Bad # {} PROVE FALSE
      OBVIOUS
    <3>1. PICK m \in Bad : \A n \in Bad : m <= n
      <4>1. Bad \subseteq Nat
        OBVIOUS
      <4> HIDE DEF Bad
      <4> QED
        BY <4>1, LeastNat
    <3>2. /\ m \in 0..l /\ ~(g[k + m] = p \o h[m])
          /\ \A n \in 0..l : ~(m <= n) => g[k + n] = p \o h[n]
      BY <3>1
    <3> HIDE DEF Bad, Good
    <3>3. CASE m = 0
      <4>1. 0 \in 0..l /\ k + 0 = k
        BY <1>4
      <4>2. h[0] = <<>>
        BY <1>9, <4>1 DEF PlainStep
      <4>3. p \o <<>> = p
        BY JoinedNone
      <4> QED
        BY <1>11, <3>2, <3>3, <4>1, <4>2, <4>3
    <3>4. CASE m # 0
      <4>1. m - 1 \in 0..l /\ ~(m <= m - 1) /\ m \in 1..l /\ k + m \in 0..(k + l) /\ (k + m) - 1 = k + (m - 1) /\ k + m # 0
        BY <1>4, <3>2, <3>4
      <4>2. PICK d : d = h[m - 1]
        OBVIOUS
      <4>3. IsSeq(d) /\ g[k + (m - 1)] = p \o d
        BY <1>9, <3>2, <4>1, <4>2
      <4>4. y[k + m] = q[m]
        BY <1>5, <4>1
      <4>5. PICK x : x = q[m]
        OBVIOUS
      <4>6. h[m] = IF Silent(x) THEN d ELSE Append(d, x)
        BY <1>9, <3>2, <3>4, <4>2, <4>5 DEF PlainStep
      <4>7. g[k + m] = IF Silent(x) THEN p \o d ELSE Append(p \o d, x)
        BY <1>8, <4>1, <4>3, <4>4, <4>5 DEF PlainStep
      <4>8. EndsAlike(p, d, x)
        BY <4>3, JoinedLonger
      <4> QED
        BY <3>2, <4>6, <4>7, <4>8 DEF EndsAlike
    <3> QED
      BY <3>3, <3>4
  <2> QED
    BY <2>1
<1>13. l \in 0..l
  BY <1>4
<1>14. Plain(y) = g[k + l] /\ Plain(q) = h[l]
  BY <1>2, <1>5, <1>6, <1>7, PlainIs
<1> QED
  BY <1>3, <1>12, <1>13, <1>14

LEMMA PlainStays ==
  ASSUME NEW p, IsSeq(p), \A n \in DOMAIN p : ~Silent(p[n])
  PROVE  Plain(p) = p
<1>1. p \o <<>> = p /\ IsSeq(<<>>)
  BY JoinedNone, NoneIsSeq
<1>2. Plain(p \o <<>>) = p \o Plain(<<>>)
  BY <1>1, PlainJoined
<1>3. Plain(<<>>) = <<>>
  <2>1. Len(<<>>) = 0 /\ 0 \in 0..0
    OBVIOUS
  <2>2. PlainTo(<<>>)[0] = <<>>
    BY <1>1, <2>1, PlainIsDefined DEF PlainStep
  <2> QED
    BY <2>1, <2>2, PlainIs
<1> QED
  BY <1>1, <1>2, <1>3
\* A path all of whose components name something.
IsProper(p) == IsSeq(p) /\ \A n \in DOMAIN p : ~Silent(p[n]) /\ p[n] \notin UpNames
Climbs(p) == \E n \in DOMAIN p : p[n] \in UpNames
\* A text that is resolved is relative, and climbs nowhere.
LEMMA ResolvedIs ==
  ASSUME NEW path
  PROVE  /\ Resolve(path) # Unsafe => ~Climbs(path) /\ (path # <<>> => ~Absolute(path))
         /\ ~Climbs(path) /\ (path # <<>> => ~Absolute(path)) => Resolve(path) = Plain(path)
BY ZenonT(30) DEF Resolve, Climbs

\* A proper path is resolved to itself.
LEMMA ProperIsResolved ==
  ASSUME NEW p, IsProper(p)
  PROVE  p # Unsafe /\ ~Climbs(p) /\ (Absolute(p) \/ Resolve(p) = p)
<1>1. Plain(p) = p
  BY PlainStays DEF IsProper
<1>2. ~Climbs(p)
  BY DEF Climbs, IsProper
<1>3. Climbs(Unsafe)
  <2>1. 1 \in DOMAIN Unsafe /\ Unsafe[1] = ".." /\ ".." \in UpNames
    BY DEF Unsafe, UpNames
  <2> QED
    BY <2>1 DEF Climbs
<1> QED
  BY <1>1, <1>2, <1>3, ResolvedIs

\* What is resolved below a proper directory is that directory with a proper path after it.
LEMMA BelowProper ==
  ASSUME NEW dir, IsProper(dir), NEW text, IsSeq(text), ~Climbs(text)
  PROVE  Plain(dir \o text) = dir \o Plain(text) /\ IsProper(Plain(text))
<1>1. \A n \in DOMAIN dir : ~Silent(dir[n])
  BY DEF IsProper
<1>2. Plain(dir \o text) = dir \o Plain(text)
  BY <1>1, PlainJoined DEF IsProper
<1>3. IsSeq(Plain(text)) /\ \A c \in Range(Plain(text)) : c \in Range(text) /\ ~Silent(c)
  BY PlainIsPlain
<1>4. \A c \in Range(text) : c \notin UpNames
  BY DEF Range, Climbs
<1>5. \A n \in DOMAIN Plain(text) : Plain(text)[n] \in Range(Plain(text))
  BY DEF Range
<1>6. IsProper(Plain(text))
  BY <1>3, <1>4, <1>5 DEF IsProper
<1> QED
  BY <1>2, <1>6

\* A file at a proper place in a directory.
FileAt(dir, file) == \E rel : IsProper(rel) /\ file = dir \o rel
LEMMA ResolvedBelow ==
  ASSUME NEW dir, IsProper(dir), NEW text, IsSeq(text), Resolve(dir \o text) # Unsafe
  PROVE  FileAt(dir, Resolve(dir \o text))
<1>1. PICK y : y = dir \o text
  OBVIOUS
<1>2. ~Climbs(y) /\ Resolve(y) = Plain(y)
  BY <1>1, ResolvedIs
<1>3. ~Climbs(text)
  <2> SUFFICES ASSUME NEW n \in DOMAIN text, text[n] \in UpNames PROVE FALSE
    BY DEF Climbs
  <2>1. PICK k : k = Len(dir)
    OBVIOUS
  <2>2. PICK l : l = Len(text)
    OBVIOUS
  <2>3. k \in Nat /\ l \in Nat /\ n \in 1..l /\ k + n \in 1..(k + l)
    <3>1. k \in Nat /\ l \in Nat /\ n \in 1..l
      BY <2>1, <2>2, SeqParts DEF IsProper
    <3> QED
      BY <3>1
  <2>4. IsSeq(y) /\ Len(y) = k + l /\ y[k + n] = text[n]
    BY <1>1, <2>1, <2>2, <2>3, JoinedParts DEF IsProper
  <2>5. k + n \in DOMAIN y
    BY <2>3, <2>4, SeqParts
  <2> QED
    BY <1>2, <2>4, <2>5 DEF Climbs
<1>4. Plain(y) = dir \o Plain(text) /\ IsProper(Plain(text))
  BY <1>1, <1>3, BelowProper
<1> QED
  BY <1>1, <1>2, <1>4 DEF FileAt

\* So is what a dataset names, when it is not refused.
LEMMA UnderIsBelow ==
  ASSUME NEW dir, IsProper(dir), NEW text, IsSeq(text), Resolve(Under(dir, text)) # Unsafe
  PROVE  FileAt(dir, Resolve(Under(dir, text)))
<1>1. Under(dir, text) = text \/ Under(dir, text) = dir \o text
  BY DEF Under
<1>2. CASE Under(dir, text) = dir \o text
  BY <1>2, ResolvedBelow
<1>3. CASE Under(dir, text) # dir \o text
  <2>1. Under(dir, text) = text /\ Absolute(text) /\ Len(text) > 1
    BY <1>3 DEF Under, Absolute
  <2>2. text = <<>>
    BY <2>1, ResolvedIs
  <2>3. Len(<<>>) = 0 /\ ~(0 > 1)
    OBVIOUS
  <2> QED
    BY <2>1, <2>2, <2>3
<1> QED
  BY <1>2, <1>3

\* A marker in the directory, and the components of a proper path.
LEMMA OneBelow ==
  ASSUME NEW d, IsSeq(d), NEW x, ~Silent(x), x \notin UpNames
  PROVE  FileAt(d, Append(d, x))
<1>1. EndsAlike(d, <<>>, x) /\ d \o <<>> = d
  BY JoinedLonger, JoinedNone, NoneIsSeq
<1>2. PICK r : r = <<x>>
  OBVIOUS
<1>3. Append(<<>>, x) = r
  BY <1>2
<1>4. Append(d, x) = d \o r
  BY <1>1, <1>3 DEF EndsAlike
<1>5. IsSeq(r) /\ DOMAIN r = {1} /\ r[1] = x
  BY <1>2, OneIsSeq
<1>6. IsProper(r)
  BY <1>5 DEF IsProper
<1> QED
  BY <1>4, <1>6 DEF FileAt
-----------------------------------------------------------------------------
(* The files that a member names *)

\* A text of a whole value is a path.
LEMMA WholeTexts == ASSUME NEW j, IsWhole(j), IsStr(j) PROVE IsPath(j.s) /\ j = Str(j.s)
BY WholeParts

\* Artifacts that are valid are at paths.
LEMMA ArtifactsArePaths ==
  ASSUME NEW a, IsWhole(a), IsArtifacts(a), NEW keys, keys \subseteq Keys(a)
  PROVE  DOMAIN Paths(a, keys) = keys /\ \A k \in keys : IsPath(Paths(a, keys)[k])
<1>1. IsMap(a) /\ \A k \in DOMAIN a.m : IsStr(a.m[k]) /\ IsWhole(a.m[k])
  BY WholeParts DEF IsArtifacts
<1>2. Keys(a) = DOMAIN a.m
  BY <1>1 DEF Keys
<1>3. \A k \in keys : IsPath(a.m[k].s)
  BY <1>1, <1>2, WholeTexts
<1>4. PICK f : f = Paths(a, keys)
  OBVIOUS
<1>5. f = [k \in keys |-> a.m[k].s]
  BY <1>4 DEF Paths
<1>6. DOMAIN f = keys /\ \A k \in keys : f[k] = a.m[k].s
  BY <1>5
<1> QED
  BY <1>3, <1>4, <1>6

\* The artifacts of a view and of its pairs.
ViewNames(x) ==
  /\ \A k \in DOMAIN x.artifacts : IsPath(x.artifacts[k])
  /\ \A i \in DOMAIN x.bs : \A k \in DOMAIN x.bs[i].artifacts : IsPath(x.bs[i].artifacts[k])
LEMMA ViewNamesPaths ==
  ASSUME NEW j, NEW v, ViewIsValid(j, v), IsWhole(v)
  PROVE  ViewNames(View(j, v))
<1>1. PICK a : a = Get(v, "artifacts")
  OBVIOUS
<1>2. IsWhole(a) /\ IsArtifacts(a)
  BY <1>1, WholeGet DEF ViewIsValid, PoseIsValid
<1>3. PICK keys : keys = ViewKeys(j, v)
  OBVIOUS
<1>4. keys \subseteq Keys(a)
  BY <1>1, <1>3 DEF ViewKeys
<1>5. PICK x : x = View(j, v)
  OBVIOUS
<1>6. x.artifacts = Paths(a, keys) /\ x.bs = BsEntries(j, v)
  BY <1>1, <1>3, <1>5 DEF View
<1>7. \A k \in DOMAIN x.artifacts : IsPath(x.artifacts[k])
  BY <1>2, <1>4, <1>6, ArtifactsArePaths
<1>8. PICK b : b = BsEntries(j, v)
  OBVIOUS
<1>9. \A i \in DOMAIN b : \A k \in DOMAIN b[i].artifacts : IsPath(b[i].artifacts[k])
  <2>1. CASE SchemaVersion(j) = 3
    <3>1. PICK bs : bs = Items(Get(v, "bs"))
      OBVIOUS
    <3>2. b = [n \in DOMAIN bs |-> [id |-> Get(bs[n], "bs_id"), energy |-> Get(bs[n], "hemisphere_energy").m,
                                    artifacts |-> Paths(Get(bs[n], "artifacts"), Keys(Get(bs[n], "artifacts")))]]
      BY <1>8, <2>1, <3>1 DEF BsEntries
    <3>3. DOMAIN b = DOMAIN bs
      BY <3>2
    <3>4. ASSUME NEW i \in DOMAIN bs PROVE \A k \in DOMAIN b[i].artifacts : IsPath(b[i].artifacts[k])
      <4>1. PICK c : c = Get(bs[i], "artifacts")
        OBVIOUS
      <4>2. IsWhole(c)
        BY <3>1, <3>4, <4>1, WholeGet, WholeItems
      <4>3. IsArtifacts(c)
        BY <2>1, <3>1, <3>4, <4>1 DEF ViewIsValid
      <4>4. b[i].artifacts = Paths(c, Keys(c))
        BY <3>2, <3>4, <4>1
      <4> QED
        BY <4>2, <4>3, <4>4, ArtifactsArePaths
    <3> QED
      BY <3>3, <3>4
  <2>2. CASE SchemaVersion(j) # 3
    <3>1. PICK some : some = Keys(a) \cap PerBsArtifacts
      OBVIOUS
    <3>2. PICK y : b = <<y>> /\ y.artifacts = Paths(a, some)
      BY <1>1, <1>8, <2>2, <3>1 DEF BsEntries
    <3>3. some \subseteq Keys(a)
      BY <3>1
    <3>4. \A k \in DOMAIN y.artifacts : IsPath(y.artifacts[k])
      BY <1>2, <3>2, <3>3, ArtifactsArePaths
    <3>5. DOMAIN b = {1} /\ b[1] = y
      BY <3>2
    <3> QED
      BY <3>4, <3>5
  <2> QED
    BY <2>1, <2>2
<1> QED
  BY <1>5, <1>6, <1>7, <1>8, <1>9 DEF ViewNames

\* The rest of what a manifest names.
LEMMA ManifestNamesPaths ==
  ASSUME NEW j, IsWhole(j), ManifestFault(j) = NoFault
  PROVE  /\ \A n \in DOMAIN Parsed(j).views : ViewNames(Parsed(j).views[n])
         /\ IsPath(Parsed(j).camera)
         /\ \A n \in DOMAIN Parsed(j).paths : IsPath(Parsed(j).paths[n])
         /\ \A x \in Transforms(j) : IsPath(x)
<1>1. HeadIsValid(j) /\ StationsAreValid(j) /\ ViewsAreValid(j) /\ PathsAreValid(j)
  BY NoManifestFault
<1>2. PICK p : p = Parsed(j)
  OBVIOUS
<1>3. \A n \in DOMAIN p.views : ViewNames(p.views[n])
  <2>1. PICK l : l = Items(Get(j, "views"))
    OBVIOUS
  <2>2. p.views = [n \in DOMAIN l |-> View(j, l[n])]
    BY <1>2, <2>1 DEF Parsed
  <2>3. \A n \in DOMAIN l : ViewIsValid(j, l[n]) /\ IsWhole(l[n])
    BY <1>1, <2>1, WholeGet, WholeItems DEF ViewsAreValid
  <2>4. \A n \in DOMAIN l : ViewNames(View(j, l[n]))
    BY <2>3, ViewNamesPaths
  <2> QED
    BY <2>2, <2>4
<1>4. IsPath(p.camera)
  <2>1. p.camera = RayDirections(j)
    BY <1>2 DEF Parsed
  <2>2. PICK ray : ray = Get(Get(j, "camera_model"), "ray_directions")
    OBVIOUS
  <2>3. IsWhole(ray)
    BY <2>2, WholeGet
  <2>4. RayDirections(j) = IF IsStr(ray) THEN ray.s ELSE <<"camera_model.npz">>
    BY <2>2 DEF RayDirections
  <2>5. IsPath(<<"camera_model.npz">>)
    BY OneIsSeq
  <2> QED
    BY <2>1, <2>3, <2>4, <2>5, WholeTexts
<1>5. \A n \in DOMAIN p.paths : IsPath(p.paths[n])
  <2>1. p.paths = PathFiles(j)
    BY <1>2 DEF Parsed
  <2>2. PICK gt : gt = Get(j, "path_geometry_gt")
    OBVIOUS
  <2>3. PICK schema : schema = Get(j, "path_schema")
    OBVIOUS
  <2>4. CASE Missing(gt)
    <3>1. PathFiles(j) = <<>> /\ DOMAIN <<>> = {}
      BY <2>2, <2>4 DEF PathFiles
    <3> QED
      BY <2>1, <3>1
  <2>5. CASE ~Missing(gt)
    <3>1. PICK x : x = IF IsStr(gt) THEN gt.s ELSE Get(gt, "artifact").s
      OBVIOUS
    <3>2. IsPath(x)
      <4>1. IsStr(gt) \/ IsStr(Get(gt, "artifact"))
        BY <1>1, <2>2, <2>5 DEF PathsAreValid, IsText
      <4>2. IsWhole(gt) /\ IsWhole(Get(gt, "artifact"))
        BY <2>2, WholeGet
      <4> QED
        BY <3>1, <4>1, <4>2, WholeTexts
    <3>3. PICK one : one = <<x>>
      OBVIOUS
    <3>4. IsSeq(one) /\ Range(one) = {x}
      BY <3>3, OneIsSeq DEF Range
    <3>5. CASE Missing(schema)
      <4>1. PathFiles(j) = one \o <<>>
        BY <2>2, <2>3, <2>5, <3>1, <3>3, <3>5 DEF PathFiles
      <4>2. PathFiles(j) = one
        BY <3>4, <4>1, JoinedNone
      <4> QED
        BY <2>1, <3>2, <3>4, <4>2 DEF Range
    <3>6. CASE ~Missing(schema)
      <4>1. PICK y : y = schema.s
        OBVIOUS
      <4>2. PICK two : two = <<y>>
        OBVIOUS
      <4>3. IsSeq(two) /\ Range(two) = {y}
        BY <4>2, OneIsSeq DEF Range
      <4>4. PathFiles(j) = one \o two
        BY <2>2, <2>3, <2>5, <3>1, <3>3, <3>6, <4>1, <4>2 DEF PathFiles
      <4>5. IsStr(schema)
        BY <1>1, <2>3, <3>6 DEF PathsAreValid, Optional, IsText
      <4>6. IsPath(y)
        BY <2>3, <4>1, <4>5, WholeGet, WholeTexts
      <4>7. Range(one \o two) = {x, y}
        BY <3>4, <4>3, Joined
      <4> QED
        BY <2>1, <3>2, <4>4, <4>6, <4>7 DEF Range
    <3> QED
      BY <3>5, <3>6
  <2> QED
    BY <2>4, <2>5
<1>6. \A x \in Transforms(j) : IsPath(x)
  <2>1. PICK x : x = Get(Get(Get(j, "optical_reference"), "pinhole"), "transforms")
    OBVIOUS
  <2>2. IsWhole(x)
    BY <2>1, WholeGet
  <2>3. Transforms(j) = IF IsStr(x) THEN {x.s} ELSE {}
    BY <2>1 DEF Transforms
  <2> QED
    BY <2>2, <2>3, WholeTexts
<1> QED
  BY <1>2, <1>3, <1>4, <1>5, <1>6
\* The names of markers are names.
LEMMA MarkersAreNames ==
  /\ DOMAIN Markers = {"rf_dataset", "rf_partial", "tomo_run"}
  /\ Markers["rf_dataset"] = "dataset_manifest.json" /\ Markers["rf_partial"] = "partial_manifest.json"
  /\ Markers["tomo_run"] = "run_manifest.json"
  /\ \A k \in DOMAIN Markers : ~Silent(Markers[k]) /\ Markers[k] \notin UpNames
<1>1. DOMAIN Markers = {"rf_dataset", "rf_partial", "tomo_run"}
  BY DEF Markers
<1>2. /\ Markers["rf_dataset"] = "dataset_manifest.json" /\ Markers["rf_partial"] = "partial_manifest.json"
      /\ Markers["tomo_run"] = "run_manifest.json"
  BY DEF Markers
<1>3. ~Silent("dataset_manifest.json") /\ ~Silent("partial_manifest.json") /\ ~Silent("run_manifest.json")
  BY Zenon DEF Silent
<1>4. "dataset_manifest.json" # ".." /\ "partial_manifest.json" # ".." /\ "run_manifest.json" # ".."
  OBVIOUS
<1>5. \A k \in DOMAIN Markers : Markers[k] \notin UpNames
  BY <1>1, <1>2, <1>4, SlashAssumption DEF UpNames
<1> QED
  BY <1>1, <1>2, <1>3, <1>5

\* A content that is JSON is that of a file.
LEMMA JsonIsFile ==
  ASSUME NEW t, HasSound(t.files), NEW path, IsMap(JsonAt(t, path))
  PROVE  /\ IsFile(t, path) /\ t.files[path].is = "json" /\ JsonAt(t, path) = t.files[path].json
         /\ IsSound(t.files[path])
<1>1. PICK c : c = Content(t, path)
  OBVIOUS
<1>2. JsonAt(t, path) = IF c.is = "json" THEN c.json ELSE [t |-> "none"]
  BY <1>1 DEF JsonAt
<1>3. c.is = "json" /\ JsonAt(t, path) = c.json
  BY <1>2 DEF IsMap
<1>4. IsFile(t, path) /\ c = t.files[path]
  BY <1>1, <1>3 DEF Content, Blob
<1> QED
  BY <1>3, <1>4 DEF HasSound, IsFile

\* A dataset without a fault names files in its directory, all of them there.
LEMMA DatasetHasFiles ==
  ASSUME NEW t, HasSound(t.files), NEW m, IsProper(m.path), DatasetFault(t, m) = NoFault
  PROVE  /\ IsWhole(ManifestOf(t, m)) /\ ManifestFault(ManifestOf(t, m)) = NoFault
         /\ \A file \in Labeled(m, ManifestOf(t, m)).apertures \cup Labeled(m, ManifestOf(t, m)).others :
              IsFile(t, file) /\ FileAt(m.path, file)
<1>1. PICK j : j = ManifestOf(t, m)
  OBVIOUS
<1>2. ManifestFault(j) = NoFault
  BY <1>1 DEF DatasetFault
<1>3. IsWhole(j)
  <2>1. IsMap(j)
    BY <1>2, NoManifestFault DEF HeadIsValid
  <2> QED
    BY <1>1, <1>2, <2>1, JsonIsFile, ReadIsWhole DEF ManifestOf
<1>4. PICK l : l = Labeled(m, j)
  OBVIOUS
<1>5. \A a \in l.apertures \cup l.others : a # Unsafe /\ IsFile(t, a)
  BY <1>1, <1>2, <1>4 DEF DatasetFault, Invalid, NoFault
<1>6. PICK p : p = Parsed(j)
  OBVIOUS
<1>7. PICK texts : texts = {a[2] : a \in ViewArtifacts(p)} \cup {p.camera} \cup BsArtifacts(p)
                           \cup {p.paths[n] : n \in DOMAIN p.paths} \cup Transforms(j)
  OBVIOUS
<1>8. l.apertures \cup l.others \subseteq {Resolve(Under(m.path, x)) : x \in texts}
  <2>1. PICK apertures : apertures = {a \in ViewArtifacts(p) : a[1] = "aperture_cfr"}
    OBVIOUS
  <2>2. PICK others : others = {p.camera} \cup {a[2] : a \in ViewArtifacts(p) \ apertures} \cup BsArtifacts(p)
                               \cup {p.paths[n] : n \in DOMAIN p.paths} \cup Transforms(j)
    OBVIOUS
  <2>3. l = [apertures |-> {Resolve(Under(m.path, a[2])) : a \in apertures},
             others |-> {Resolve(Under(m.path, a)) : a \in others}]
    BY <1>4, <1>6, <2>1, <2>2 DEF Labeled
  <2>4. l.apertures = {Resolve(Under(m.path, a[2])) : a \in apertures}
        /\ l.others = {Resolve(Under(m.path, a)) : a \in others}
    BY <2>3
  <2>5. others \subseteq texts /\ \A a \in apertures : a[2] \in texts
    BY <1>7, <2>1, <2>2
  <2> QED
    BY <2>4, <2>5
<1>9. \A x \in texts : IsSeq(x)
  <2>1. /\ \A n \in DOMAIN p.views : ViewNames(p.views[n])
        /\ IsPath(p.camera) /\ \A n \in DOMAIN p.paths : IsPath(p.paths[n])
        /\ \A x \in Transforms(j) : IsPath(x)
    BY <1>2, <1>3, <1>6, ManifestNamesPaths
  <2>2. ASSUME NEW a \in ViewArtifacts(p) PROVE IsPath(a[2])
    <3>1. PICK n \in DOMAIN p.views : \E k \in DOMAIN p.views[n].artifacts : a = <<k, p.views[n].artifacts[k]>>
      BY <2>2 DEF ViewArtifacts
    <3>2. PICK k \in DOMAIN p.views[n].artifacts : a[2] = p.views[n].artifacts[k]
      BY <3>1
    <3> QED
      BY <2>1, <3>2 DEF ViewNames
  <2>3. ASSUME NEW a \in BsArtifacts(p) PROVE IsPath(a)
    <3>1. PICK n \in DOMAIN p.views : \E i \in DOMAIN p.views[n].bs : \E k \in DOMAIN p.views[n].bs[i].artifacts :
            a = p.views[n].bs[i].artifacts[k]
      BY <2>3 DEF BsArtifacts
    <3> QED
      BY <2>1, <3>1 DEF ViewNames
  <2> QED
    BY <1>7, <2>1, <2>2, <2>3 DEF IsPath
<1>10. \A file \in l.apertures \cup l.others : FileAt(m.path, file)
  BY <1>5, <1>8, <1>9, UnderIsBelow
<1> QED
  BY <1>1, <1>2, <1>3, <1>4, <1>5, <1>10
\* Beside a proper path that is relative, what is below is relative too.
LEMMA AbsoluteIs ==
  \A p : (Absolute(p) => Silent(p[1]) \/ p[1] \in RootNames) /\ (p[1] \in RootNames => Absolute(p))
BY Zenon DEF Absolute, Silent

LEMMA BesideIsRelative ==
  ASSUME NEW p, IsPath(p), IsProper(p), ~Absolute(p), NEW q, IsPath(q), ~Absolute(q), ~Climbs(q)
  PROVE  Resolve(Parent(p) \o q) = Plain(Parent(p) \o q) /\ FileAt(Parent(p), Plain(Parent(p) \o q))
<1>1. PICK d : d = Parent(p)
  OBVIOUS
<1>2. PICK l : l = Len(p)
  OBVIOUS
<1>3. l \in Nat \ {0} /\ IsSeq(d) /\ IsSeq(p) /\ DOMAIN p = 1..l
  BY <1>1, <1>2, PathParts, SeqParts
<1>4. p = Append(d, p[l])
  BY <1>1, <1>2, PathParts
<1>5. PICK k : k = Len(d)
  OBVIOUS
<1>6. k \in Nat /\ DOMAIN d = 1..k /\ l = k + 1 /\ \A n \in 1..k : n \in 1..l /\ d[n] = p[n]
  <2>1. PICK r : r = Append(d, p[l])
    OBVIOUS
  <2>2. Len(r) = k + 1 /\ \A i \in 1..k : r[i] = d[i]
    BY <1>3, <1>5, <2>1, Longer
  <2>3. r = p /\ k \in Nat /\ DOMAIN d = 1..k
    BY <1>3, <1>4, <1>5, <2>1, SeqParts
  <2>4. l = k + 1 /\ \A n \in 1..k : d[n] = p[n]
    BY <1>2, <2>2, <2>3
  <2>5. \A n \in 1..k : n \in 1..l
    BY <2>3, <2>4
  <2> QED
    BY <2>3, <2>4, <2>5
<1>7. IsProper(d)
  BY <1>3, <1>6 DEF IsProper
<1>8. IsSeq(q)
  BY DEF IsPath
<1>9. PICK y : y = d \o q
  OBVIOUS
<1>10. PICK h : h = Len(q)
  OBVIOUS
<1>11. /\ IsSeq(y) /\ Len(y) = k + h /\ \A n \in 1..k : y[n] = d[n]
       /\ \A n \in 1..h : y[k + n] = q[n]
  BY <1>3, <1>5, <1>8, <1>9, <1>10, JoinedParts
<1>12. h \in Nat \ {0} /\ DOMAIN q = 1..h
  BY <1>8, <1>10, PathParts, SeqParts
<1>13. ~Climbs(y)
  <2> SUFFICES ASSUME NEW n \in DOMAIN y, y[n] \in UpNames PROVE FALSE
    BY DEF Climbs
  <2>1. n \in 1..(k + h)
    BY <1>11, SeqParts
  <2>2. CASE n <= k
    <3>1. n \in 1..k
      BY <1>6, <2>1, <2>2
    <3> QED
      BY <1>6, <1>7, <1>11, <3>1 DEF IsProper
  <2>3. CASE ~(n <= k)
    <3>1. PICK i : i = n - k
      OBVIOUS
    <3>2. i \in 1..h /\ k + i = n
      BY <1>6, <1>12, <2>1, <2>3, <3>1
    <3> QED
      BY <1>11, <1>12, <3>2 DEF Climbs
  <2> QED
    BY <2>2, <2>3
<1>14. ~Absolute(y)
  <2>1. CASE k = 0
    <3>1. d = <<>>
      <4>1. Len(<<>>) = 0 /\ \A i \in 1..0 : FALSE
        OBVIOUS
      <4> QED
        BY <1>3, <1>5, <2>1, <4>1, NoneIsSeq, SameSeq
    <3>2. y = q
      <4>1. Len(y) = h /\ \A n \in 1..h : k + n = n
        BY <1>11, <1>12, <2>1
      <4>2. \A n \in 1..h : y[n] = q[n]
        BY <1>11, <4>1
      <4> QED
        BY <1>8, <1>10, <1>11, <4>1, <4>2, SameSeq
    <3> QED
      BY <3>2
  <2>2. CASE k # 0
    <3>1. 1 \in 1..k /\ 1 \in 1..l
      BY <1>6, <2>2
    <3>2. y[1] = p[1] /\ ~Silent(p[1])
      BY <1>3, <1>6, <1>11, <3>1 DEF IsProper
    <3> QED
      BY <3>2, AbsoluteIs
  <2> QED
    BY <2>1, <2>2
<1>15. Resolve(y) = Plain(y)
  BY <1>13, <1>14, ResolvedIs
<1>16. Plain(y) = d \o Plain(q) /\ IsProper(Plain(q))
  BY <1>7, <1>8, <1>9, BelowProper
<1> QED
  BY <1>1, <1>9, <1>15, <1>16 DEF FileAt

\* A scene without a fault names files beside it, all of them there.
LEMMA SceneHasFiles ==
  ASSUME NEW t, HasSound(t.files), NEW m, m.kind = "scene", IsPath(m.path), IsProper(m.path), ~Absolute(m.path),
         Content(t, m.path).is = "xml", SceneFault(t, m) = NoFault
  PROVE  \A file \in MemberFiles(t, m) : IsFile(t, file) /\ FileAt(Parent(m.path), file)
<1>1. PICK c : c = Content(t, m.path)
  OBVIOUS
<1>2. IsFile(t, m.path) /\ c = t.files[m.path] /\ c.is = "xml" /\ Shapes(t, m) = c.shapes
  BY <1>1 DEF Content, Blob, Shapes
<1>3. \A n \in DOMAIN c.shapes : ShapeIsValid(t, m, c.shapes[n]) /\ IsWhole(c.shapes[n].filename)
  BY <1>2 DEF SceneFault, Invalid, NoFault, HasSound, IsSound, IsFile
<1>4. ASSUME NEW shape, ShapeIsValid(t, m, shape), IsWhole(shape.filename), ~Missing(shape.filename)
      PROVE  IsFile(t, ShapeFile(m, shape)) /\ FileAt(Parent(m.path), ShapeFile(m, shape))
  <2>1. PICK q : q = shape.filename.s
    OBVIOUS
  <2>2. IsStr(shape.filename) /\ Resolve(q) # Unsafe /\ IsFile(t, ShapeFile(m, shape))
    BY <1>4, <2>1 DEF ShapeIsValid, IsText
  <2>3. IsPath(q)
    BY <1>4, <2>1, <2>2, WholeTexts
  <2>4. ~Climbs(q) /\ ~Absolute(q)
    BY <2>2, <2>3, ResolvedIs DEF IsPath
  <2>5. FileAt(Parent(m.path), Resolve(Parent(m.path) \o q))
    BY <2>3, <2>4, BesideIsRelative
  <2> QED
    BY <2>1, <2>2, <2>5 DEF ShapeFile
<1>5. FileAt(Parent(m.path), m.path)
  <2>1. PICK d : d = Parent(m.path)
    OBVIOUS
  <2>2. PICK p : p = m.path
    OBVIOUS
  <2>3. PICK l : l = Len(p)
    OBVIOUS
  <2>4. IsSeq(p) /\ l \in Nat \ {0} /\ IsSeq(d) /\ Append(d, p[l]) = p /\ DOMAIN p = 1..l
    BY <2>1, <2>2, <2>3, PathParts, SeqParts
  <2>5. l \in 1..l
    BY <2>4
  <2>6. ~Silent(p[l]) /\ p[l] \notin UpNames
    BY <2>2, <2>4, <2>5 DEF IsProper
  <2>7. FileAt(d, Append(d, p[l]))
    BY <2>4, <2>6, OneBelow
  <2> QED
    BY <2>1, <2>2, <2>4, <2>7
<1>6. MemberFiles(t, m) = {m.path} \cup {ShapeFile(m, s) : s \in {x \in {c.shapes[n] : n \in DOMAIN c.shapes} : ~Missing(x.filename)}}
  BY <1>2 DEF MemberFiles
<1> QED
  BY <1>2, <1>3, <1>4, <1>5, <1>6
-----------------------------------------------------------------------------
(* The members of a bundle without a fault *)

\* What detection makes sure of, member by member.
MemberPlace(m) == IF m.kind = "scene" THEN Parent(m.path) ELSE m.path
MemberIsThere(t, m) ==
  /\ m.kind \in MemberKinds /\ IsProper(m.path)
  /\ m.kind = "scene" => IsPath(m.path) /\ ~Absolute(m.path) /\ Content(t, m.path).is = "xml"
  /\ m.kind # "scene" => IsFile(t, Append(m.path, Markers[m.kind]))

\* The files of a member that is valid are there, each at a place of its own in
\* the directory of the member.
LEMMA MemberHasFiles ==
  ASSUME NEW t, HasSound(t.files), NEW m, MemberIsThere(t, m), MemberFault(t, m) = NoFault
  PROVE  /\ \A file \in MemberFiles(t, m) : IsFile(t, file) /\ FileAt(MemberPlace(m), file)
         /\ m.kind = "rf_dataset" => IsWhole(ManifestOf(t, m)) /\ ManifestFault(ManifestOf(t, m)) = NoFault
<1>1. MemberKinds = {"rf_dataset", "rf_partial", "tomo_run", "scene"}
  BY MarkersAreNames DEF MemberKinds
<1>2. CASE m.kind = "scene"
  <2>1. SceneFault(t, m) = NoFault
    BY <1>2 DEF MemberFault
  <2>2. \A file \in MemberFiles(t, m) : IsFile(t, file) /\ FileAt(Parent(m.path), file)
    BY <1>2, <2>1, SceneHasFiles DEF MemberIsThere
  <2> QED
    BY <1>2, <2>2 DEF MemberPlace
<1>3. CASE m.kind = "tomo_run"
  <2>1. MemberFault(t, m) = "unknown_kind"
    BY <1>3 DEF MemberFault
  <2> QED
    BY <2>1 DEF NoFault
<1>4. ASSUME m.kind \in {"rf_dataset", "rf_partial"}
      PROVE  IsFile(t, Append(m.path, Markers[m.kind])) /\ FileAt(m.path, Append(m.path, Markers[m.kind]))
             /\ MemberPlace(m) = m.path
  <2>1. m.kind \in DOMAIN Markers /\ m.kind # "scene"
    BY <1>4, MarkersAreNames
  <2>2. IsSeq(m.path)
    BY DEF MemberIsThere, IsProper
  <2> QED
    BY <2>1, <2>2, MarkersAreNames, OneBelow DEF MemberIsThere, MemberPlace
<1>5. CASE m.kind = "rf_partial"
  <2>1. MemberFiles(t, m) = {Append(m.path, Markers[m.kind])}
    BY <1>5 DEF MemberFiles
  <2> QED
    BY <1>4, <1>5, <2>1
<1>6. CASE m.kind = "rf_dataset"
  <2>1. DatasetFault(t, m) = NoFault
    BY <1>6 DEF MemberFault
  <2>2. PICK l : l = Labeled(m, ManifestOf(t, m))
    OBVIOUS
  <2>3. MemberFiles(t, m) = l.apertures \cup l.others \cup {Append(m.path, Markers[m.kind])}
    BY <1>6, <2>2, MarkersAreNames DEF MemberFiles
  <2>4. /\ IsWhole(ManifestOf(t, m)) /\ ManifestFault(ManifestOf(t, m)) = NoFault
        /\ \A file \in l.apertures \cup l.others : IsFile(t, file) /\ FileAt(m.path, file)
    BY <2>1, <2>2, DatasetHasFiles DEF MemberIsThere
  <2> QED
    BY <1>4, <1>6, <2>3, <2>4
<1> QED
  BY <1>1, <1>2, <1>3, <1>5, <1>6 DEF MemberIsThere

\* The checks of an entry of bundle.json that found no fault.
LEMMA EntryIsInOrder ==
  ASSUME NEW t, NEW entries, NEW n, MemberEntryFault(t, entries, n) = NoFault
  PROVE  /\ IsMap(entries[n]) /\ IdIsValid(Get(entries[n], "id"))
         /\ \A k \in 1..(n - 1) : Get(entries[k], "id") # Get(entries[n], "id")
         /\ KindOfEntry(entries[n]) \in MemberKinds /\ PathIsValid(Get(entries[n], "path"))
         /\ PathIsMember(t, KindOfEntry(entries[n]), Get(entries[n], "path").s)
<1>1. PICK e : e = entries[n]
  OBVIOUS
<1>2. PICK id : id = Get(e, "id")
  OBVIOUS
<1>3. PICK path : path = Get(e, "path")
  OBVIOUS
<1> DEFINE p1 == ~IsMap(e) \/ ~(Keys(e) \subseteq {"id", "kind", "path", "for", "source"})
           p2 == ~IdIsValid(id)
           p3 == \E k \in 1..(n - 1) : Get(entries[k], "id") = id
           p4 == KindOfEntry(e) \notin MemberKinds
           p5 == ~PathIsValid(path)
           p6 == KindOfEntry(e) \in MemberKinds /\ PathIsValid(path) /\ ~PathIsMember(t, KindOfEntry(e), path.s)
           c == << <<p1, "invalid">>, <<p2, "invalid">>, <<p3, "invalid">>, <<p4, "unknown_kind">>,
                   <<p5, "invalid">>, <<p6, "invalid">> >>
<1>4. First(c) = NoFault
  BY <1>1, <1>2, <1>3 DEF MemberEntryFault
<1> HIDE DEF p1, p2, p3, p4, p5, p6
<1>5. DOMAIN c = 1..6 /\ 6 \in Nat /\ \A k \in 1..6 : c[k][2] # NoFault
  BY DEF NoFault
<1>6. /\ c[1][1] <=> p1
      /\ c[2][1] <=> p2
      /\ c[3][1] <=> p3
      /\ c[4][1] <=> p4
      /\ c[5][1] <=> p5
      /\ c[6][1] <=> p6
  OBVIOUS
<1> HIDE DEF c
<1>7. \A k \in 1..6 : ~c[k][1]
  BY <1>4, <1>5, FirstIsLeast
<1>8. 1 \in 1..6 /\ 2 \in 1..6 /\ 3 \in 1..6 /\ 4 \in 1..6 /\ 5 \in 1..6 /\ 6 \in 1..6
  OBVIOUS
<1>9. ~p1 /\ ~p2 /\ ~p3 /\ ~p4 /\ ~p5 /\ ~p6
  BY <1>6, <1>7, <1>8
<1> QED
  BY <1>1, <1>2, <1>3, <1>9 DEF p1, p2, p3, p4, p5, p6
\* An id and a path of an entry of bundle.json.
LEMMA IdIsOne ==
  ASSUME NEW j, IsWhole(j), IdIsValid(j)
  PROVE  j = Str(<<j.s[1]>>)
<1>1. IsStr(j) /\ Len(j.s) = 1
  BY Zenon DEF IdIsValid
<1>2. j = Str(j.s) /\ IsSeq(j.s)
  BY <1>1, WholeTexts DEF IsPath
<1>3. PICK s : s = j.s
  OBVIOUS
<1>4. PICK x : x = s[1]
  OBVIOUS
<1>5. IsSeq(<<x>>) /\ Len(<<x>>) = 1 /\ <<x>>[1] = x
  BY OneIsSeq
<1>6. \A n \in 1..1 : n = 1
  OBVIOUS
<1>7. s = <<x>>
  BY <1>1, <1>2, <1>3, <1>4, <1>5, <1>6, SameSeq
<1> QED
  BY <1>2, <1>3, <1>4, <1>7

LEMMA PathIsProper ==
  ASSUME NEW j, IsWhole(j), PathIsValid(j)
  PROVE  IsPath(j.s) /\ IsProper(j.s) /\ ~Absolute(j.s)
<1>1. IsStr(j) /\ ~Absolute(j.s) /\ \A n \in DOMAIN j.s : ~Silent(j.s[n]) /\ j.s[n] \notin UpNames
  BY ZenonT(30) DEF PathIsValid, Silent, UpNames
<1>2. IsPath(j.s)
  BY <1>1, WholeTexts
<1> QED
  BY <1>1, <1>2 DEF IsProper, IsPath

\* The members that bundle.json declares.
LEMMA DeclaredIs ==
  ASSUME NEW t, NEW entries
  PROVE  /\ DOMAIN DeclaredMembers(t, entries) = DOMAIN entries
         /\ \A n \in DOMAIN entries :
              LET e == entries[n]
                  m == DeclaredMembers(t, entries)[n]
              IN  /\ m.id = Get(e, "id").s[1] /\ m.kind = KindOfEntry(e) /\ m.path = Get(e, "path").s
                  /\ m.for = Get(e, "for")
                  /\ m.source \in {Get(e, "source"), PartialSource(t, entries, Get(e, "path").s)}
<1>1. PICK f : f = [n \in DOMAIN entries |->
                      Member(Get(entries[n], "id").s[1], KindOfEntry(entries[n]), Get(entries[n], "path").s,
                             Get(entries[n], "for"),
                             IF KindOfEntry(entries[n]) = "rf_partial" /\ ~Has(entries[n], "source")
                             THEN PartialSource(t, entries, Get(entries[n], "path").s) ELSE Get(entries[n], "source"))]
  OBVIOUS
<1>2. DeclaredMembers(t, entries) = f
  BY <1>1 DEF DeclaredMembers
<1>3. \A id, kind, path, for, from :
        /\ Member(id, kind, path, for, from).id = id /\ Member(id, kind, path, for, from).kind = kind
        /\ Member(id, kind, path, for, from).path = path /\ Member(id, kind, path, for, from).for = for
        /\ Member(id, kind, path, for, from).source = from
  BY DEF Member
<1>4. DOMAIN f = DOMAIN entries
  BY <1>1
<1>5. ASSUME NEW n \in DOMAIN entries
      PROVE  /\ f[n].id = Get(entries[n], "id").s[1] /\ f[n].kind = KindOfEntry(entries[n])
             /\ f[n].path = Get(entries[n], "path").s /\ f[n].for = Get(entries[n], "for")
             /\ f[n].source \in {Get(entries[n], "source"), PartialSource(t, entries, Get(entries[n], "path").s)}
  <2>1. PICK from : from = IF KindOfEntry(entries[n]) = "rf_partial" /\ ~Has(entries[n], "source")
                               THEN PartialSource(t, entries, Get(entries[n], "path").s) ELSE Get(entries[n], "source")
    OBVIOUS
  <2>2. f[n] = Member(Get(entries[n], "id").s[1], KindOfEntry(entries[n]), Get(entries[n], "path").s,
                      Get(entries[n], "for"), from)
    BY <1>1, <2>1
  <2>3. from \in {Get(entries[n], "source"), PartialSource(t, entries, Get(entries[n], "path").s)}
    BY <2>1
  <2> QED
    BY <1>3, <2>2, <2>3
<1> QED
  BY <1>2, <1>4, <1>5

\* Members that agree: what the members of a bundle say of each other.
DatasetAmong(ms, id) == \E n \in DOMAIN ms : ms[n].kind = "rf_dataset" /\ id = Str(<<ms[n].id>>)
MembersAgree(ms) ==
  /\ \A m, n \in DOMAIN ms : m # n =>
       /\ ms[m].id # ms[n].id
       /\ "scene" \notin {ms[m].kind, ms[n].kind} => ms[m].path # ms[n].path /\ ~Inside(ms[m].path, ms[n].path)
       /\ Missing(ms[m].for) \/ ms[m].for # ms[n].for
  /\ \A n \in DOMAIN ms : /\ Missing(ms[n].for) \/ DatasetAmong(ms, ms[n].for)
                          /\ Missing(ms[n].source) \/ DatasetAmong(ms, ms[n].source)

\* Entries that are in order declare members that agree and are there.
EntriesAreValid(t, entries) ==
  /\ IsSeq(entries) /\ Separate(entries) /\ LinksAreValid(entries)
  /\ \A n \in DOMAIN entries : IsWhole(entries[n]) /\ MemberEntryFault(t, entries, n) = NoFault

LEMMA EntriesHaveIds ==
  ASSUME NEW t, NEW entries, EntriesAreValid(t, entries)
  PROVE  /\ \A n \in DOMAIN entries : /\ Get(entries[n], "id") = Str(<<Get(entries[n], "id").s[1]>>)
                                      /\ KindOfEntry(entries[n]) \in MemberKinds
         /\ \A m, n \in DOMAIN entries : m # n => Get(entries[m], "id") # Get(entries[n], "id")
<1>1. PICK l \in Nat : DOMAIN entries = 1..l
  BY SeqParts DEF EntriesAreValid
<1>2. ASSUME NEW n \in DOMAIN entries
      PROVE  /\ Get(entries[n], "id") = Str(<<Get(entries[n], "id").s[1]>>)
             /\ KindOfEntry(entries[n]) \in MemberKinds
             /\ \A k \in 1..(n - 1) : Get(entries[k], "id") # Get(entries[n], "id")
  <2>1. IsWhole(entries[n]) /\ MemberEntryFault(t, entries, n) = NoFault
    BY DEF EntriesAreValid
  <2>2. /\ IdIsValid(Get(entries[n], "id")) /\ KindOfEntry(entries[n]) \in MemberKinds
        /\ \A k \in 1..(n - 1) : Get(entries[k], "id") # Get(entries[n], "id")
    BY ONLY <2>1, EntryIsInOrder
  <2>3. IsWhole(Get(entries[n], "id"))
    BY <2>1, WholeGet
  <2> QED
    BY <2>2, <2>3, IdIsOne
<1>3. ASSUME NEW m \in DOMAIN entries, NEW n \in DOMAIN entries, m # n
      PROVE  Get(entries[m], "id") # Get(entries[n], "id")
  <2>1. m \in 1..(n - 1) \/ n \in 1..(m - 1)
    BY <1>1, <1>3
  <2> QED
    BY <1>2, <2>1
<1> QED
  BY <1>2, <1>3

LEMMA DeclaredAreThere ==
  ASSUME NEW t, NEW entries, EntriesAreValid(t, entries)
  PROVE  \A n \in DOMAIN entries : MemberIsThere(t, DeclaredMembers(t, entries)[n])
<1> SUFFICES ASSUME NEW n \in DOMAIN entries PROVE MemberIsThere(t, DeclaredMembers(t, entries)[n])
  OBVIOUS
<1>1. IsWhole(entries[n]) /\ MemberEntryFault(t, entries, n) = NoFault
  BY DEF EntriesAreValid
<1>2. PICK m : m = DeclaredMembers(t, entries)[n]
  OBVIOUS
<1>3. PICK path : path = Get(entries[n], "path")
  OBVIOUS
<1>4. /\ KindOfEntry(entries[n]) \in MemberKinds /\ PathIsValid(path)
      /\ PathIsMember(t, KindOfEntry(entries[n]), path.s)
  BY ONLY <1>1, <1>3, EntryIsInOrder
<1>5. IsPath(path.s) /\ IsProper(path.s) /\ ~Absolute(path.s)
  BY <1>1, <1>3, <1>4, WholeGet, PathIsProper
<1>6. m.kind = KindOfEntry(entries[n]) /\ m.path = path.s
  BY <1>2, <1>3, DeclaredIs
<1>7. PathIsMember(t, m.kind, m.path)
  BY <1>4, <1>6
<1>8. m.kind = "scene" => Content(t, m.path).is = "xml"
  BY Zenon, <1>7 DEF PathIsMember
<1>9. m.kind # "scene" => IsFile(t, Append(m.path, Markers[m.kind]))
  BY Zenon, <1>7 DEF PathIsMember
<1> QED
  BY <1>2, <1>4, <1>5, <1>6, <1>8, <1>9 DEF MemberIsThere

LEMMA DeclaredAgree ==
  ASSUME NEW t, NEW entries, EntriesAreValid(t, entries)
  PROVE  MembersAgree(DeclaredMembers(t, entries))
<1>1. PICK ms : ms = DeclaredMembers(t, entries)
  OBVIOUS
<1>2. PICK l \in Nat : DOMAIN entries = 1..l
  BY SeqParts DEF EntriesAreValid
<1>3. /\ DOMAIN ms = DOMAIN entries
      /\ \A n \in DOMAIN ms :
           /\ ms[n].id = Get(entries[n], "id").s[1] /\ ms[n].kind = KindOfEntry(entries[n])
           /\ ms[n].path = Get(entries[n], "path").s /\ ms[n].for = Get(entries[n], "for")
           /\ ms[n].source \in {Get(entries[n], "source"), PartialSource(t, entries, Get(entries[n], "path").s)}
  BY <1>1, DeclaredIs
<1>4. \A n \in DOMAIN ms : Get(entries[n], "id") = Str(<<ms[n].id>>)
  BY <1>3, EntriesHaveIds
<1>5. ASSUME NEW m \in DOMAIN ms, NEW n \in DOMAIN ms, m # n PROVE ms[m].id # ms[n].id
  <2>1. Get(entries[m], "id") # Get(entries[n], "id")
    BY <1>3, <1>5, EntriesHaveIds
  <2>2. Get(entries[m], "id") = Str(<<ms[m].id>>) /\ Get(entries[n], "id") = Str(<<ms[n].id>>)
    BY <1>4
  <2> QED
    BY <2>1, <2>2
<1>6. ASSUME NEW m \in DOMAIN ms, NEW n \in DOMAIN ms, m # n, ms[m].kind # "scene", ms[n].kind # "scene"
      PROVE  ms[m].path # ms[n].path /\ ~Inside(ms[m].path, ms[n].path)
  <2>1. /\ m \in {k \in DOMAIN entries : KindOfEntry(entries[k]) # "scene"}
        /\ n \in {k \in DOMAIN entries : KindOfEntry(entries[k]) # "scene"}
    BY <1>3, <1>6
  <2>2. Get(entries[m], "path").s # Get(entries[n], "path").s
        /\ ~Inside(Get(entries[m], "path").s, Get(entries[n], "path").s)
    BY <1>6, <2>1 DEF EntriesAreValid, Separate
  <2> QED
    BY <1>3, <2>2
<1>7. ASSUME NEW j, NamesDataset(entries, j) PROVE DatasetAmong(ms, j)
  BY <1>3, <1>4, <1>7 DEF NamesDataset, DatasetAmong
<1>8. \A n \in DOMAIN ms :
        /\ Has(entries[n], "for") => /\ NamesDataset(entries, Get(entries[n], "for"))
                                     /\ \A m \in 1..(n - 1) : \/ ~Has(entries[m], "for")
                                                              \/ Get(entries[m], "for") # Get(entries[n], "for")
        /\ Has(entries[n], "source") => NamesDataset(entries, Get(entries[n], "source"))
  BY <1>3 DEF EntriesAreValid, LinksAreValid
<1>9. \A j, k : Has(j, k) \/ Missing(Get(j, k))
  BY DEF Get, Missing
<1>10. ASSUME NEW n \in DOMAIN ms, NEW m \in 1..(n - 1), ms[m].for = ms[n].for PROVE Missing(ms[m].for)
  <2>1. m \in DOMAIN ms
    BY <1>2, <1>3
  <2>2. ms[n].for = Get(entries[n], "for") /\ ms[m].for = Get(entries[m], "for")
    BY <1>3, <2>1
  <2> QED
    BY <1>8, <1>9, <1>10, <2>1, <2>2
<1>11. ASSUME NEW m \in DOMAIN ms, NEW n \in DOMAIN ms, m # n PROVE Missing(ms[m].for) \/ ms[m].for # ms[n].for
  <2>1. m \in 1..(n - 1) \/ n \in 1..(m - 1)
    BY <1>2, <1>3, <1>11
  <2> QED
    BY <1>10, <2>1
<1>12. ASSUME NEW path PROVE Missing(PartialSource(t, entries, path)) \/ DatasetAmong(ms, PartialSource(t, entries, path))
  <2>1. PICK from : from = Get(JsonAt(t, Append(path, "partial_manifest.json")), "source_dataset")
    OBVIOUS
  <2>2. PICK hits : hits = {n \in DOMAIN entries : KindOfEntry(entries[n]) = "rf_dataset"
                                                   /\ Get(entries[n], "path").s = Collapsed(path \o from.s)}
    OBVIOUS
  <2>3. PartialSource(t, entries, path) = IF IsText(from) /\ ~Absolute(from.s) /\ hits # {}
                                          THEN Get(entries[CHOOSE n \in hits : TRUE], "id") ELSE Null
    BY <2>1, <2>2 DEF PartialSource
  <2>4. CASE hits # {}
    <3>1. PICK n : n = CHOOSE k \in hits : TRUE
      OBVIOUS
    <3>2. n \in hits
      BY <2>4, <3>1
    <3>3. n \in DOMAIN ms /\ ms[n].kind = "rf_dataset" /\ Get(entries[n], "id") = Str(<<ms[n].id>>)
      BY <1>3, <1>4, <2>2, <3>2
    <3> QED
      BY <2>3, <3>1, <3>3 DEF DatasetAmong, Missing
  <2>5. CASE hits = {}
    BY <2>3, <2>5 DEF Missing
  <2> QED
    BY <2>4, <2>5
<1>13. ASSUME NEW n \in DOMAIN ms PROVE Missing(ms[n].for) \/ DatasetAmong(ms, ms[n].for)
  BY <1>3, <1>7, <1>8, <1>9
<1>14. ASSUME NEW n \in DOMAIN ms PROVE Missing(ms[n].source) \/ DatasetAmong(ms, ms[n].source)
  <2>1. CASE ms[n].source = Get(entries[n], "source")
    BY <1>7, <1>8, <1>9, <2>1
  <2>2. CASE ms[n].source = PartialSource(t, entries, Get(entries[n], "path").s)
    BY <1>12, <2>2
  <2> QED
    BY <1>3, <2>1, <2>2
<1>15. \A m, n \in DOMAIN ms : m # n =>
         /\ ms[m].id # ms[n].id
         /\ "scene" \notin {ms[m].kind, ms[n].kind} => ms[m].path # ms[n].path /\ ~Inside(ms[m].path, ms[n].path)
         /\ Missing(ms[m].for) \/ ms[m].for # ms[n].for
  BY <1>5, <1>6, <1>11
<1>16. \A n \in DOMAIN ms : /\ Missing(ms[n].for) \/ DatasetAmong(ms, ms[n].for)
                            /\ Missing(ms[n].source) \/ DatasetAmong(ms, ms[n].source)
  BY <1>13, <1>14
<1> QED
  BY <1>1, <1>15, <1>16 DEF MembersAgree
\* What is in a bundle without a fault: its members agree, are there and have no fault.
LEMMA BundleJsonIsWhole ==
  ASSUME NEW t, HasSound(t.files), TopIsValid(JsonAt(t, <<"bundle.json">>))
  PROVE  IsSeq(BundleEntries(t)) /\ \A n \in DOMAIN BundleEntries(t) : IsWhole(BundleEntries(t)[n])
<1>1. PICK path : path = <<"bundle.json">>
  OBVIOUS
<1>2. PICK j : j = JsonAt(t, path)
  OBVIOUS
<1>3. IsMap(j) /\ DOMAIN j.m \subseteq {"bundle_format_version", "members", "created_by"}
  BY <1>1, <1>2 DEF TopIsValid
<1>4. t.files[path].is = "json" /\ j = t.files[path].json /\ IsSound(t.files[path])
  BY <1>2, <1>3, JsonIsFile
<1>5. ~IsOfPartial(j)
  BY <1>3 DEF IsOfPartial, Has
<1>6. IsWhole(j)
  BY <1>4, <1>5 DEF IsSound
<1>7. BundleEntries(t) = Items(Get(j, "members"))
  BY <1>1, <1>2 DEF BundleEntries
<1> QED
  BY <1>6, <1>7, WholeGet, WholeItems

LEMMA DeclaredAreEntries ==
  ASSUME NEW t, HasSound(t.files), HasBundleJson(t), DetectFault(t) = NoFault
  PROVE  EntriesAreValid(t, BundleEntries(t))
<1>1. PICK entries : entries = BundleEntries(t)
  OBVIOUS
<1>2. PICK outcomes : outcomes = [n \in DOMAIN entries |-> MemberEntryFault(t, entries, n)]
  OBVIOUS
<1>3. TopIsValid(JsonAt(t, <<"bundle.json">>))
  BY DEF DetectFault, NoFault
<1>4. DetectFault(t) = IF FirstOf(outcomes) # NoFault THEN FirstOf(outcomes)
                       ELSE Invalid(Separate(entries) /\ LinksAreValid(entries))
  BY <1>1, <1>2, <1>3 DEF DetectFault
<1>5. FirstOf(outcomes) = NoFault /\ Invalid(Separate(entries) /\ LinksAreValid(entries)) = NoFault
  BY <1>4
<1>6. Separate(entries) /\ LinksAreValid(entries)
  BY <1>5 DEF Invalid, NoFault
<1>7. IsSeq(entries) /\ \A n \in DOMAIN entries : IsWhole(entries[n])
  BY <1>1, <1>3, BundleJsonIsWhole
<1>8. PICK l \in Nat : DOMAIN entries = 1..l
  BY <1>7, SeqParts
<1>9. l \in Nat /\ DOMAIN outcomes = 1..l
  BY <1>2, <1>8
<1>10. \A n \in 1..l : outcomes[n] = NoFault
  BY <1>5, <1>9, NoFaultOfAny
<1>11. \A n \in DOMAIN entries : MemberEntryFault(t, entries, n) = NoFault
  BY <1>2, <1>8, <1>10
<1> QED
  BY <1>1, <1>6, <1>7, <1>11 DEF EntriesAreValid

LEMMA DetectedAre ==
  ASSUME NEW t, HasSound(t.files), DetectFault(t) = NoFault
  PROVE  /\ \E l \in Nat : DOMAIN Detected(t) = 1..l
         /\ MembersAgree(Detected(t)) /\ \A n \in DOMAIN Detected(t) : MemberIsThere(t, Detected(t)[n])
<1>1. CASE HasBundleJson(t)
  <2>1. PICK entries : entries = BundleEntries(t)
    OBVIOUS
  <2>2. EntriesAreValid(t, entries)
    BY <1>1, <2>1, DeclaredAreEntries
  <2>3. Detected(t) = DeclaredMembers(t, entries)
    BY <1>1, <2>1 DEF Detected
  <2>4. DOMAIN Detected(t) = DOMAIN entries
    BY <2>3, DeclaredIs
  <2>5. \E l \in Nat : DOMAIN entries = 1..l
    BY <2>2, SeqParts DEF EntriesAreValid
  <2> QED
    BY <2>2, <2>3, <2>4, <2>5, DeclaredAgree, DeclaredAreThere
<1>2. CASE ~HasBundleJson(t)
  <2>1. PICK c : c = << <<FallbackKinds(t) = {}, "unknown_kind">>, <<Cardinality(FallbackKinds(t)) > 1, "invalid">> >>
    OBVIOUS
  <2>2. First(c) = NoFault
    BY <1>2, <2>1 DEF DetectFault
  <2>3. DOMAIN c = 1..2 /\ 2 \in Nat /\ c[1][2] # NoFault /\ c[2][2] # NoFault /\ 1 \in 1..2
        /\ \A n \in 1..2 : n = 1 \/ n = 2
    BY <2>1 DEF NoFault
  <2>4. ~c[1][1]
    BY <2>2, <2>3, FirstIsLeast
  <2>5. FallbackKinds(t) # {}
    BY <2>1, <2>4
  <2>6. PICK k : k = CHOOSE x \in FallbackKinds(t) : TRUE
    OBVIOUS
  <2>7. k \in FallbackKinds(t)
    BY <2>5, <2>6
  <2>8. k \in DOMAIN Markers /\ IsFile(t, <<Markers[k]>>)
    BY <2>7 DEF FallbackKinds
  <2>9. PICK m : m = Member(FallbackIds[k], k, <<>>, Null, Null)
    OBVIOUS
  <2>10. m.kind = k /\ m.path = <<>> /\ m.for = Null /\ m.source = Null
    BY <2>9 DEF Member
  <2>11. Detected(t) = <<m>>
    BY <1>2, <2>6, <2>9 DEF Detected
  <2>12. PICK ms : ms = <<m>>
    OBVIOUS
  <2>13. DOMAIN ms = 1..1 /\ ms[1] = m /\ 1 \in Nat /\ \A n \in 1..1 : n = 1
    BY <2>12
  <2>14. MembersAgree(ms)
    BY <2>10, <2>13 DEF MembersAgree, Missing
  <2>15. IsProper(<<>>)
    <3>1. DOMAIN <<>> = {}
      OBVIOUS
    <3> QED
      BY <3>1, NoneIsSeq DEF IsProper
  <2>16. Append(<<>>, Markers[k]) = <<Markers[k]>>
    OBVIOUS
  <2>17. k \in MemberKinds /\ k # "scene"
    BY <2>8, MarkersAreNames DEF MemberKinds
  <2>18. MemberIsThere(t, m)
    BY <2>8, <2>10, <2>15, <2>16, <2>17 DEF MemberIsThere
  <2> QED
    BY <2>11, <2>12, <2>13, <2>14, <2>18
<1> QED
  BY <1>1, <1>2

\* What a bundle without a fault has.
LEMMA BundleIsThere ==
  ASSUME NEW t, HasSound(t.files), BundleFault(t) = NoFault
  PROVE  /\ MembersAgree(Detected(t))
         /\ \A n \in DOMAIN Detected(t) :
              LET m == Detected(t)[n]
              IN  /\ IsSeq(MemberPlace(m))
                  /\ \A file \in MemberFiles(t, m) : IsFile(t, file) /\ FileAt(MemberPlace(m), file)
                  /\ m.kind = "rf_dataset" => IsWhole(ManifestOf(t, m)) /\ ManifestFault(ManifestOf(t, m)) = NoFault
<1>1. PICK outcomes : outcomes = [n \in DOMAIN Detected(t) |-> MemberFault(t, Detected(t)[n])]
  OBVIOUS
<1>2. DetectFault(t) = NoFault /\ FirstOf(outcomes) = NoFault
  BY <1>1 DEF BundleFault
<1>3. /\ \E l \in Nat : DOMAIN Detected(t) = 1..l
      /\ MembersAgree(Detected(t)) /\ \A n \in DOMAIN Detected(t) : MemberIsThere(t, Detected(t)[n])
  BY <1>2, DetectedAre
<1>4. PICK l \in Nat : DOMAIN Detected(t) = 1..l
  BY <1>3
<1>5. l \in Nat /\ DOMAIN outcomes = 1..l
  BY <1>1, <1>4
<1>6. \A n \in 1..l : outcomes[n] = NoFault
  BY <1>2, <1>5, NoFaultOfAny
<1>7. \A n \in DOMAIN Detected(t) : MemberFault(t, Detected(t)[n]) = NoFault
  BY <1>1, <1>4, <1>6
<1>8. ASSUME NEW n \in DOMAIN Detected(t)
      PROVE  LET m == Detected(t)[n]
             IN  /\ IsSeq(MemberPlace(m))
                 /\ \A file \in MemberFiles(t, m) : IsFile(t, file) /\ FileAt(MemberPlace(m), file)
                 /\ m.kind = "rf_dataset" => IsWhole(ManifestOf(t, m)) /\ ManifestFault(ManifestOf(t, m)) = NoFault
  <2>1. PICK m : m = Detected(t)[n]
    OBVIOUS
  <2>2. MemberIsThere(t, m) /\ MemberFault(t, m) = NoFault
    BY <1>3, <1>7, <2>1
  <2>3. IsSeq(MemberPlace(m))
    BY <2>2, PathParts DEF MemberIsThere, MemberPlace, IsProper
  <2>4. /\ \A file \in MemberFiles(t, m) : IsFile(t, file) /\ FileAt(MemberPlace(m), file)
        /\ m.kind = "rf_dataset" => IsWhole(ManifestOf(t, m)) /\ ManifestFault(ManifestOf(t, m)) = NoFault
    BY ONLY <2>2, HasSound(t.files), MemberHasFiles
  <2> QED
    BY <2>1, <2>3, <2>4
<1> QED
  BY <1>3, <1>8
=============================================================================
