-------------------------- MODULE SafeExtractProofs --------------------------
(***************************************************************************)
(* Proofs about the steps of SafeExtract, for every archive and directory: *)
(* which of them are requested, and when, is ViewerRequests' (its theorems *)
(* are in ViewerRequestsProofs).                                           *)
(***************************************************************************)
EXTENDS SafeExtract, TLAPS, FiniteSetTheorems, SequenceTheorems

-----------------------------------------------------------------------------
(* The invariant of staging *)

\* The bounds and the source are well formed, and nothing was staged before the start.
IsArchive == source.format \in {"zip", "tar"}
Unstarted ==
  /\ pos = 0 /\ stack = <<>> /\ index = <<>> /\ explicit = {} /\ disk = <<>>
  /\ total = 0 /\ count = 0 /\ rootSeen = FALSE /\ writing = NoFile
SourceInv ==
  /\ limits.files \in Nat /\ limits.blocks \in Nat
  /\ verdict = "none" => Unstarted
  /\ verdict = "working" =>
       /\ IsArchive \/ source.format = "directory"
       /\ IsArchive => source.entries \in Seq(Entries)
  /\ writing = [path |-> writing.path, left |-> writing.left, torn |-> writing.torn]
  /\ writing # NoFile => verdict = "working"
\* One spelling of each path, and directories above each.
IsTree(d) ==
  /\ \A p \in DOMAIN d : IsSeq(p) /\ p # <<>> /\ d[p] \in {"file", "dir"}
  /\ \A p, q \in DOMAIN d : Key(p) = Key(q) => p = q
  /\ \A p \in DOMAIN d : \A a \in Ancestors(p) : a \in DOMAIN d /\ d[a] = "dir"
\* The paths of the index and those of the open file are what is on disk.
IndexPaths == {index[k].path : k \in DOMAIN index}
Opened == IF writing = NoFile THEN {} ELSE Ancestors(writing.path) \cup {writing.path}
ArchiveInv ==
  verdict = "working" /\ IsArchive =>
    /\ DOMAIN disk = IndexPaths \cup Opened
    /\ \A k \in DOMAIN index : disk[index[k].path] = index[k].kind
        /\ (index[k].kind = "file" => k \in explicit)
\* Every directory of the stack is on disk once, and has seen what is in it.
Holds(d, p) == Len(p) = Len(d) + 1 /\ \A n \in 1..Len(d) : p[n] = d[n]
FrameInv(f, d) ==
  /\ f = [path |-> f.path, left |-> f.left, seen |-> f.seen]
  /\ IsSeq(f.path) /\ (f.path = <<>> \/ (f.path \in DOMAIN d /\ d[f.path] = "dir"))
  /\ \A p \in DOMAIN d : Holds(f.path, p) => Key(<<p[Len(p)]>>) \in f.seen
DirectoryInv ==
  verdict = "working" /\ source.format = "directory" =>
    /\ IsSeq(stack)
    /\ \A n \in DOMAIN stack : FrameInv(stack[n], disk)
    /\ \A m, n \in DOMAIN stack : m # n => stack[m].path # stack[n].path
StagingInv ==
  StagingTypeOK /\ SourceInv /\ IsTree(disk) /\ ArchiveInv /\ DirectoryInv

-----------------------------------------------------------------------------
(* Least elements, and sums over finite sets *)

LOCAL W == INSTANCE WellFoundedInduction
\* A set of numbers that is not empty has a least one: what is so of every number
\* when it is so of those below it is so of all.
LEMMA LeastNat ==
  ASSUME NEW T, T \subseteq Nat, T # {}
  PROVE  \E x \in T : \A y \in T : x <= y
<1> DEFINE R == {ss \in Nat \X Nat : ss[1] < ss[2]}
<1>1. W!IsWellFoundedOn(W!OpToRel(<, Nat), Nat)
  BY W!NatLessThanWellFounded
<1>2. W!OpToRel(<, Nat) = R
  BY DEF W!OpToRel
<1>3. PICK x \in T : \A y \in T : ~(<<y, x>> \in R)
  <2> HIDE DEF R
  <2> QED
    BY <1>1, <1>2, W!WFMin
<1>4. ASSUME NEW y \in T PROVE x <= y
  <2>1. SUFFICES ASSUME y < x PROVE FALSE
    OBVIOUS
  <2>2. <<y, x>> \in R
    BY <2>1
  <2> QED
    BY <2>2, <1>3
<1> QED
  BY <1>3, <1>4

\* A set of finite sets that is not empty has one of the fewest elements: what is
\* so of every set when it is so of those with fewer elements is so of all.
LEMMA FewestElements ==
  ASSUME NEW C, C # {}, \A s \in C : IsFiniteSet(s)
  PROVE  \E s \in C : \A t \in C : Cardinality(s) <= Cardinality(t)
<1> DEFINE T == {Cardinality(s) : s \in C}
<1>1. T \subseteq Nat /\ T # {}
  BY FS_CardinalityType
<1>2. PICK n \in T : \A m \in T : n <= m
  <2> HIDE DEF T
  <2> QED
    BY <1>1, LeastNat
<1> QED
  BY <1>2

\* One element less.
LEMMA OneLess ==
  ASSUME NEW s, IsFiniteSet(s), NEW x \in s
  PROVE  /\ IsFiniteSet(s \ {x}) /\ Cardinality(s \ {x}) \in Nat /\ Cardinality(s) \in Nat
         /\ Cardinality(s \ {x}) + 1 = Cardinality(s)
<1>1. IsFiniteSet(s \ {x}) /\ Cardinality(s \ {x}) = Cardinality(s) - 1
  BY FS_RemoveElement
<1>2. Cardinality(s \ {x}) \in Nat /\ Cardinality(s) \in Nat
  BY <1>1, FS_CardinalityType
<1> QED
  BY <1>1, <1>2

\* The sum over a set, an element chosen and the sum over the others.
SumStep(w, g, s) == IF s = {} THEN 0 ELSE w[CHOOSE x \in s : TRUE] + g[s \ {CHOOSE x \in s : TRUE}]
SumsOver(w, S) == CHOOSE g : g = [s \in SUBSET S |-> SumStep(w, g, s)]
\* The sum that the model takes is this one.
LEMMA SumIs == \A w, S : SumFunctionOnSet(w, S) = SumsOver(w, S)[S]
BY DEF SumFunctionOnSet, FoldFunctionOnSet, MapThenFoldSet, SumsOver, SumStep

\* There is such a sum for all subsets of a finite set.
LEMMA SumIsDefined ==
  ASSUME NEW w, NEW S, IsFiniteSet(S)
  PROVE  \A s \in SUBSET S : SumsOver(w, S)[s] = SumStep(w, SumsOver(w, S), s)
<1> DEFINE Up(n) == {s \in SUBSET S : Cardinality(s) <= n}
           Good(n) == \E g : g = [s \in Up(n) |-> SumStep(w, g, s)]
           Bad == {n \in Nat : ~Good(n)}
<1>1. \A s \in SUBSET S : IsFiniteSet(s) /\ Cardinality(s) \in Nat /\ Cardinality(s) <= Cardinality(S)
  BY FS_Subset, FS_CardinalityType
<1>2. Bad = {}
  <2> SUFFICES ASSUME Bad # {} PROVE FALSE
    OBVIOUS
  <2>1. PICK m \in Nat : ~Good(m) /\ \A n \in Nat : ~Good(n) => m <= n
    <3>1. Bad \subseteq Nat
      OBVIOUS
    <3>2. PICK m \in Bad : \A n \in Bad : m <= n
      <4> HIDE DEF Bad
      <4> QED
        BY <3>1, LeastNat
    <3> QED
      BY <3>2
  <2>2. PICK g : \A s \in SUBSET S : Cardinality(s) < m => g[s] = SumStep(w, g, s)
    <3>1. CASE m = 0
      BY <1>1, <3>1
    <3>2. CASE m # 0
      <4>1. m - 1 \in Nat /\ ~(m <= m - 1)
        BY <3>2
      <4>2. Good(m - 1)
        BY <2>1, <4>1
      <4>3. PICK g : g = [s \in Up(m - 1) |-> SumStep(w, g, s)]
        BY <4>2
      <4>4. ASSUME NEW s \in SUBSET S, Cardinality(s) < m PROVE g[s] = SumStep(w, g, s)
        <5>1. s \in Up(m - 1)
          BY <1>1, <4>4
        <5> QED
          BY <4>3, <5>1
      <4> QED
        BY <4>4
    <3> QED
      BY <3>1, <3>2
  <2> DEFINE h == [s \in Up(m) |-> SumStep(w, g, s)]
  <2>3. ASSUME NEW s \in Up(m) PROVE SumStep(w, g, s) = SumStep(w, h, s)
    <3>1. CASE s = {}
      BY <3>1 DEF SumStep
    <3>2. CASE s # {}
      <4>1. PICK c \in s : c = CHOOSE x \in s : TRUE
        BY <3>2
      <4>2. s \ {c} \in SUBSET S /\ Cardinality(s \ {c}) < m /\ s \ {c} \in Up(m)
        BY <1>1, OneLess
      <4>3. h[s \ {c}] = g[s \ {c}]
        BY <2>2, <4>2
      <4> HIDE DEF h
      <4> QED
        BY <3>2, <4>1, <4>3 DEF SumStep
    <3> QED
      BY <3>1, <3>2
  <2>4. h = [s \in Up(m) |-> SumStep(w, h, s)]
    <3>1. PICK k : k = h
      OBVIOUS
    <3> QED
      BY <2>3, <3>1
  <2> QED
    BY <2>1, <2>4
<1>3. PICK n \in Nat : n = Cardinality(S)
  BY FS_CardinalityType
<1>4. Up(n) = SUBSET S
  BY <1>1, <1>3
<1>5. Good(n)
  BY <1>2
<1>6. \E g : g = [s \in SUBSET S |-> SumStep(w, g, s)]
  BY <1>4, <1>5
<1> DEFINE f == SumsOver(w, S)
<1>7. f = [s \in SUBSET S |-> SumStep(w, f, s)]
  BY <1>6 DEF SumsOver
<1> HIDE DEF f
<1>8. \A s \in SUBSET S : f[s] = SumStep(w, f, s)
  BY <1>7
<1> QED
  BY <1>8 DEF f

\* The sum over a subset does not depend on the set it is one of.
LEMMA SumIsLocal ==
  ASSUME NEW v, NEW w, NEW S, NEW R, IsFiniteSet(R), S \subseteq R, \A x \in S : v[x] = w[x]
  PROVE  \A s \in SUBSET S : SumsOver(v, S)[s] = SumsOver(w, R)[s]
<1> DEFINE Bad == {s \in SUBSET S : SumsOver(v, S)[s] # SumsOver(w, R)[s]}
<1>1. IsFiniteSet(S) /\ \A s \in SUBSET S : IsFiniteSet(s)
  BY FS_Subset
<1> SUFFICES ASSUME Bad # {} PROVE FALSE
  OBVIOUS
<1>2. PICK s \in Bad : \A t \in Bad : Cardinality(s) <= Cardinality(t)
  <2>1. \A t \in Bad : IsFiniteSet(t)
    BY <1>1
  <2> HIDE DEF Bad
  <2> QED
    BY <2>1, FewestElements
<1>3. s \in SUBSET S /\ s \in SUBSET R /\ SumsOver(v, S)[s] # SumsOver(w, R)[s]
  OBVIOUS
<1>4. SumsOver(v, S)[s] = SumStep(v, SumsOver(v, S), s) /\ SumsOver(w, R)[s] = SumStep(w, SumsOver(w, R), s)
  BY <1>1, <1>3, SumIsDefined
<1>5. s # {}
  BY <1>3, <1>4 DEF SumStep
<1>6. PICK c \in s : c = CHOOSE x \in s : TRUE
  BY <1>5
<1>7. s \ {c} \notin Bad
  <2>1. Cardinality(s \ {c}) + 1 = Cardinality(s) /\ Cardinality(s \ {c}) \in Nat /\ Cardinality(s) \in Nat
    BY <1>1, <1>3, OneLess
  <2>2. ~(Cardinality(s) <= Cardinality(s \ {c}))
    BY <2>1
  <2> HIDE DEF Bad
  <2> QED
    BY <1>2, <2>2
<1>8. SumsOver(v, S)[s \ {c}] = SumsOver(w, R)[s \ {c}] /\ v[c] = w[c]
  BY <1>3, <1>7
<1> QED
  BY <1>3, <1>4, <1>5, <1>6, <1>8 DEF SumStep

\* Sums of the same numbers over one set.
LEMMA SumOfSame ==
  ASSUME NEW v, NEW w, NEW S, IsFiniteSet(S), \A x \in S : v[x] = w[x]
  PROVE  SumFunctionOnSet(v, S) = SumFunctionOnSet(w, S)
BY SumIs, SumIsLocal

\* Nothing adds up to nothing.
LEMMA SumOfNone == ASSUME NEW w PROVE SumFunctionOnSet(w, {}) = 0
<1>1. SumsOver(w, {})[{}] = SumStep(w, SumsOver(w, {}), {})
  BY SumIsDefined, FS_EmptySet
<1> QED
  BY <1>1, SumIs DEF SumStep

\* Whichever element goes first.
LEMMA SumWithout ==
  ASSUME NEW w, NEW S, IsFiniteSet(S), \A x \in S : w[x] \in Nat
  PROVE  /\ SumFunctionOnSet(w, S) \in Nat
         /\ \A x \in S : SumFunctionOnSet(w, S) = w[x] + SumFunctionOnSet(w, S \ {x})
<1> DEFINE F(s) == SumFunctionOnSet(w, s)
           Good(s) == F(s) \in Nat /\ \A x \in s : F(s) = w[x] + F(s \ {x})
           Bad == {s \in SUBSET S : ~Good(s)}
<1>1. \A s \in SUBSET S : IsFiniteSet(s)
  BY FS_Subset
<1> SUFFICES ASSUME Bad # {} PROVE FALSE
  OBVIOUS
<1>2. PICK s \in Bad : \A t \in Bad : Cardinality(s) <= Cardinality(t)
  <2>1. \A t \in Bad : IsFiniteSet(t)
    BY <1>1
  <2> HIDE DEF Bad
  <2> QED
    BY <2>1, FewestElements
<1>3. s \in SUBSET S /\ ~Good(s) /\ IsFiniteSet(s)
  BY <1>1
<1>4. s # {}
  <2>1. Good({})
    BY SumOfNone
  <2> HIDE DEF Good
  <2> QED
    BY <1>3, <2>1
<1>5. PICK c \in s : c = CHOOSE x \in s : TRUE
  BY <1>4
<1>6. F(s) = w[c] + F(s \ {c})
  <2>1. SumsOver(w, s)[s] = SumStep(w, SumsOver(w, s), s)
    BY <1>3, SumIsDefined
  <2>2. SumsOver(w, s \ {c})[s \ {c}] = SumsOver(w, s)[s \ {c}]
    BY <1>3, SumIsLocal
  <2> QED
    BY <1>4, <1>5, <2>1, <2>2, SumIs DEF SumStep
<1>7. ASSUME NEW x \in s, NEW t, t \subseteq s \ {x} PROVE Good(t)
  <2>1. IsFiniteSet(s \ {x}) /\ Cardinality(s \ {x}) \in Nat /\ Cardinality(s \ {x}) + 1 = Cardinality(s)
    BY <1>3, OneLess
  <2>2. Cardinality(t) <= Cardinality(s \ {x}) /\ Cardinality(t) \in Nat
    BY <1>7, <2>1, FS_Subset, FS_CardinalityType
  <2>3. t \notin Bad
    BY <1>2, <2>1, <2>2
  <2> QED
    BY <1>3, <1>7, <2>3
<1>8. F(s) \in Nat
  BY <1>3, <1>6, <1>7
<1>9. ASSUME NEW x \in s, x # c PROVE F(s) = w[x] + F(s \ {x})
  <2> DEFINE t == s \ {c, x}
  <2>1. (s \ {c}) \ {x} = t /\ (s \ {x}) \ {c} = t /\ c \in s \ {x} /\ x \in s \ {c}
    BY <1>9
  <2>2. F(s \ {c}) = w[x] + F(t)
    BY <1>7, <2>1
  <2>3. F(s \ {x}) = w[c] + F(t)
    BY <1>7, <2>1
  <2>4. F(t) \in Nat /\ w[c] \in Nat /\ w[x] \in Nat
    BY <1>3, <1>7
  <2> QED
    BY <1>6, <2>2, <2>3, <2>4
<1> QED
  BY <1>3, <1>6, <1>8, <1>9

\* One element more.
LEMMA SumOneMore ==
  ASSUME NEW w, NEW S, IsFiniteSet(S), NEW x, x \notin S, \A y \in S \cup {x} : w[y] \in Nat
  PROVE  /\ SumFunctionOnSet(w, S) \in Nat
         /\ SumFunctionOnSet(w, S \cup {x}) = SumFunctionOnSet(w, S) + w[x]
<1>1. IsFiniteSet(S \cup {x}) /\ (S \cup {x}) \ {x} = S
  BY FS_AddElement
<1>2. SumFunctionOnSet(w, S) \in Nat
  BY SumWithout
<1>3. SumFunctionOnSet(w, S \cup {x}) = w[x] + SumFunctionOnSet(w, S)
  BY <1>1, SumWithout
<1> QED
  BY <1>2, <1>3

\* A subset has no greater sum.
LEMMA SumOfSubset ==
  ASSUME NEW w, NEW S, IsFiniteSet(S), \A x \in S : w[x] \in Nat, NEW T, T \subseteq S
  PROVE  SumFunctionOnSet(w, T) <= SumFunctionOnSet(w, S)
<1> DEFINE F(s) == SumFunctionOnSet(w, s)
           Bad == {s \in SUBSET S : T \subseteq s /\ ~(F(T) <= F(s))}
<1>1. \A s \in SUBSET S : IsFiniteSet(s) /\ F(s) \in Nat
  BY FS_Subset, SumWithout
<1> SUFFICES ASSUME Bad # {} PROVE FALSE
  OBVIOUS
<1>2. PICK s \in Bad : \A t \in Bad : Cardinality(s) <= Cardinality(t)
  <2>1. \A t \in Bad : IsFiniteSet(t)
    BY <1>1
  <2> HIDE DEF Bad
  <2> QED
    BY <2>1, FewestElements
<1>3. s \in SUBSET S /\ T \subseteq s /\ ~(F(T) <= F(s))
  OBVIOUS
<1>4. PICK x \in s : x \notin T
  BY <1>1, <1>3
<1>5. s \ {x} \notin Bad
  BY <1>1, <1>2, <1>3, OneLess
<1>6. F(T) <= F(s \ {x}) /\ F(s \ {x}) \in Nat /\ F(T) \in Nat /\ w[x] \in Nat
  BY <1>1, <1>3, <1>4, <1>5
<1>7. F(s) = w[x] + F(s \ {x})
  BY <1>1, <1>3, SumWithout
<1> QED
  BY <1>3, <1>6, <1>7

-----------------------------------------------------------------------------
(* Sequences and paths *)

\* A sequence over some set is one over the set of its own elements.
LEMMA SeqIsSeq == ASSUME NEW S, NEW s \in Seq(S) PROVE IsSeq(s)
<1>1. DOMAIN s = 1..Len(s) /\ Len(s) \in Nat /\ s = [n \in 1..Len(s) |-> s[n]]
  OBVIOUS
<1>2. s \in [1..Len(s) -> {s[n] : n \in DOMAIN s}]
  BY <1>1
<1> QED
  BY <1>1, <1>2 DEF IsSeq

\* A sequence is a function from the positions up to its length.
LEMMA SeqParts ==
  ASSUME NEW s, IsSeq(s)
  PROVE  Len(s) \in Nat /\ DOMAIN s = 1..Len(s) /\ s = [n \in 1..Len(s) |-> s[n]]
  BY DEF IsSeq

\* Sequences with the same elements are the same.
LEMMA SameSeq ==
  ASSUME NEW p, NEW q, IsSeq(p), IsSeq(q), Len(p) = Len(q), \A n \in 1..Len(p) : p[n] = q[n]
  PROVE  p = q
<1>1. p = [n \in 1..Len(p) |-> p[n]] /\ q = [n \in 1..Len(q) |-> q[n]]
  BY SeqParts
<1> QED
  BY <1>1

\* A function from the first positions is a sequence.
LEMMA FunctionIsSeq ==
  ASSUME NEW l \in Nat, NEW s, s = [n \in 1..l |-> s[n]]
  PROVE  IsSeq(s) /\ Len(s) = l
<1> DEFINE S == {s[n] : n \in DOMAIN s}
<1>1. s \in [1..l -> S]
  OBVIOUS
<1>2. s \in Seq(S) /\ Len(s) = l
  BY <1>1
<1> QED
  BY <1>2 DEF IsSeq

\* What is left of a name is a sequence: its positions are numbered anew.
LEMMA NormalizedIsSeq ==
  ASSUME NEW name \in Seq(STRING)
  PROVE  IsSeq(Normalized(name))
<1> DEFINE kept == {n \in DOMAIN name : name[n] \notin {"", "."}}
<1>0. Len(name) \in Int /\ 1 \in Int /\ DOMAIN name = 1..Len(name)
  OBVIOUS
<1>1. IsFiniteSet(1..Len(name)) /\ kept \in SUBSET (1..Len(name))
  BY <1>0, FS_Interval
<1>2. Cardinality(kept) \in Nat
  BY <1>1, FS_Subset, FS_CardinalityType
<1> DEFINE l == Cardinality(kept)
           P(k) == name[CHOOSE n \in kept : Cardinality({m \in kept : m <= n}) = k]
<1>3. Normalized(name) = [k \in 1..l |-> P(k)]
  BY DEF Normalized
<1> HIDE DEF P, l
<1> QED
  BY <1>2, <1>3, FunctionIsSeq DEF l

\* A prefix of a path.
LEMMA Prefix ==
  ASSUME NEW p, IsSeq(p), NEW n \in 1..Len(p)
  PROVE  /\ IsSeq(SubSeq(p, 1, n)) /\ Len(SubSeq(p, 1, n)) = n
         /\ \A i \in 1..n : SubSeq(p, 1, n)[i] = p[i]
<1> DEFINE S == {p[i] : i \in DOMAIN p}
<1>1. p \in Seq(S) /\ Len(p) \in Nat
  BY DEF IsSeq
<1>2. SubSeq(p, 1, n) \in Seq(S) /\ Len(SubSeq(p, 1, n)) = n
          /\ \A i \in 1..n : SubSeq(p, 1, n)[i] = p[i]
  BY <1>1
<1> QED
  BY <1>2, SeqIsSeq

\* The bytes of the first chunks of a body.
BytesTo(chunks, k) == SumFunctionOnSet(chunks, 1..k)
LEMMA BytesAre ==
  ASSUME NEW chunks \in Seq(Nat)
  PROVE  /\ BytesTo(chunks, 0) = 0 /\ SumFunction(chunks) \in Nat
         /\ SumFunction(chunks) = BytesTo(chunks, Len(chunks))
         /\ \A k \in 0..Len(chunks) :
              /\ BytesTo(chunks, k) \in Nat /\ BytesTo(chunks, k) <= SumFunction(chunks)
              /\ k < Len(chunks) => BytesTo(chunks, k + 1) = BytesTo(chunks, k) + chunks[k + 1]
         /\ \A k \in DOMAIN chunks : SumFunction(SubSeq(chunks, 1, k)) = BytesTo(chunks, k)
<1> DEFINE N == Len(chunks)
<1>1. N \in Nat /\ DOMAIN chunks = 1..N /\ \A n \in 1..N : chunks[n] \in Nat
  OBVIOUS
<1>2. ASSUME NEW k \in 0..N
      PROVE  k \in Nat /\ IsFiniteSet(1..k) /\ 1..k \subseteq 1..N /\ IsFiniteSet(1..N)
  <2>1. k \in Int /\ N \in Int /\ 1 \in Int
    BY <1>1
  <2> QED
    BY <1>1, <2>1, FS_Interval
<1>3. ASSUME NEW k \in 0..N PROVE BytesTo(chunks, k) \in Nat /\ BytesTo(chunks, k) <= BytesTo(chunks, N)
  <2>1. \A x \in 1..k : chunks[x] \in Nat
    BY <1>1, <1>2
  <2> QED
    BY <1>1, <1>2, <2>1, SumWithout, SumOfSubset DEF BytesTo
<1>4. ASSUME NEW k \in 0..N, k < N PROVE BytesTo(chunks, k + 1) = BytesTo(chunks, k) + chunks[k + 1]
  <2>1. 1..(k + 1) = (1..k) \cup {k + 1} /\ k + 1 \notin 1..k /\ k + 1 \in 1..N
    BY <1>1, <1>4
  <2>2. \A y \in (1..k) \cup {k + 1} : chunks[y] \in Nat
    BY <1>1, <1>2, <2>1
  <2>3. SumFunctionOnSet(chunks, (1..k) \cup {k + 1}) = SumFunctionOnSet(chunks, 1..k) + chunks[k + 1]
    BY ONLY <1>2, <2>1, <2>2, SumOneMore
  <2> QED
    BY ONLY <2>1, <2>3 DEF BytesTo
<1>5. BytesTo(chunks, 0) = 0
  <2>1. 1..0 = {}
    OBVIOUS
  <2> QED
    BY <2>1, SumOfNone DEF BytesTo
<1>6. SumFunction(chunks) = BytesTo(chunks, N)
  BY <1>1 DEF SumFunction, BytesTo
<1>7. ASSUME NEW k \in DOMAIN chunks PROVE SumFunction(SubSeq(chunks, 1, k)) = BytesTo(chunks, k)
  <2>1. k \in 0..N /\ k \in 1..N
    BY <1>1
  <2>2. IsSeq(chunks)
    BY SeqIsSeq
  <2>3. PICK s : s = SubSeq(chunks, 1, k)
    OBVIOUS
  <2>4. IsSeq(s) /\ Len(s) = k /\ \A i \in 1..k : s[i] = chunks[i]
    BY <2>1, <2>2, <2>3, Prefix
  <2>5. DOMAIN s = 1..k
    BY <2>4, SeqParts
  <2>6. SumFunctionOnSet(s, 1..k) = SumFunctionOnSet(chunks, 1..k)
    BY <1>2, <2>1, <2>4, SumOfSame
  <2> QED
    BY <2>3, <2>5, <2>6 DEF SumFunction, BytesTo
<1>8. 0 \in 0..N /\ N \in 0..N
  BY <1>1
<1> HIDE DEF N
<1>9. SumFunction(chunks) \in Nat
  BY <1>3, <1>6, <1>8
<1> QED
  BY <1>3, <1>4, <1>5, <1>6, <1>7, <1>9 DEF N

\* A body of which no part is too long is not too long, and the other way round.
BodyIsOver(chunks, most) == \E n \in DOMAIN chunks : SumFunction(SubSeq(chunks, 1, n)) > most
LEMMA BodyIsOverWhole ==
  ASSUME NEW chunks \in Seq(Nat), NEW most \in Nat
  PROVE  BodyIsOver(chunks, most) <=> ~(SumFunction(chunks) <= most)
<1>1. PICK N : N = Len(chunks)
  OBVIOUS
<1>2. N \in Nat /\ DOMAIN chunks = 1..N
  BY <1>1
<1>3. PICK whole : whole = SumFunction(chunks)
  OBVIOUS
<1>4. /\ BytesTo(chunks, 0) = 0 /\ whole \in Nat /\ whole = BytesTo(chunks, N)
      /\ \A k \in 0..N : BytesTo(chunks, k) \in Nat /\ BytesTo(chunks, k) <= whole
      /\ \A k \in DOMAIN chunks : SumFunction(SubSeq(chunks, 1, k)) = BytesTo(chunks, k)
  BY <1>1, <1>3, BytesAre
<1>5. ASSUME NEW n \in DOMAIN chunks, BytesTo(chunks, n) > most PROVE ~(whole <= most)
  <2>1. n \in 0..N
    BY <1>2
  <2> QED
    BY <1>4, <1>5, <2>1
<1>6. ASSUME ~(whole <= most) PROVE N \in DOMAIN chunks /\ BytesTo(chunks, N) > most
  <2>1. N # 0
    BY <1>4, <1>6
  <2> QED
    BY <1>2, <1>4, <1>6, <2>1
<1> QED
  BY <1>3, <1>4, <1>5, <1>6 DEF BodyIsOver

\* A path with one more component.
LEMMA Longer ==
  ASSUME NEW p, IsSeq(p), NEW x
  PROVE  /\ IsSeq(Append(p, x)) /\ Len(Append(p, x)) = Len(p) + 1 /\ Append(p, x)[Len(p) + 1] = x
         /\ \A i \in 1..Len(p) : Append(p, x)[i] = p[i]
<1> DEFINE S == {p[i] : i \in DOMAIN p} \cup {x}
<1>1. p \in Seq(S) /\ Len(p) \in Nat
<2>1. p \in [1..Len(p) -> S] /\ Len(p) \in Nat
  BY SeqParts
<2> QED
  BY <2>1
<1>2. /\ Append(p, x) \in Seq(S) /\ Len(Append(p, x)) = Len(p) + 1 /\ Append(p, x)[Len(p) + 1] = x
      /\ \A i \in 1..Len(p) : Append(p, x)[i] = p[i]
  BY <1>1
<1> QED
  BY <1>2, SeqIsSeq

\* A key has as many components as its path, each folded.
LEMMA KeyParts ==
  ASSUME NEW p, IsSeq(p)
  PROVE  IsSeq(Key(p)) /\ Len(Key(p)) = Len(p)
         /\ \A n \in 1..Len(p) : Key(p)[n] = IF p[n] \in DOMAIN Folded THEN Folded[p[n]] ELSE p[n]
<1>1. Len(p) \in Nat /\ DOMAIN p = 1..Len(p)
  BY SeqParts
<1> DEFINE F(n) == IF p[n] \in DOMAIN Folded THEN Folded[p[n]] ELSE p[n]
           s == [n \in 1..Len(p) |-> F(n)]
<1>2. Key(p) = s
  BY <1>1 DEF Key
<1> HIDE DEF F
<1>3. s = [n \in 1..Len(p) |-> s[n]] /\ \A n \in 1..Len(p) : s[n] = F(n)
  OBVIOUS
<1> HIDE DEF s
<1>4. IsSeq(s) /\ Len(s) = Len(p)
  BY <1>1, <1>3, FunctionIsSeq
<1> QED
  BY <1>2, <1>3, <1>4 DEF F

\* Paths of one key have as many components, and prefixes of one key.
LEMMA SameKey ==
  ASSUME NEW p, NEW q, IsSeq(p), IsSeq(q), Key(p) = Key(q)
  PROVE  /\ Len(p) = Len(q)
         /\ \A n \in 1..Len(p) : Key(SubSeq(p, 1, n)) = Key(SubSeq(q, 1, n))
<1>1. Len(p) = Len(q) /\ Len(p) \in Nat
  BY KeyParts, SeqParts
<1>2. ASSUME NEW n \in 1..Len(p) PROVE Key(SubSeq(p, 1, n)) = Key(SubSeq(q, 1, n))
  <2> DEFINE a == SubSeq(p, 1, n)
             b == SubSeq(q, 1, n)
  <2>1. IsSeq(a) /\ Len(a) = n /\ \A i \in 1..n : a[i] = p[i]
    BY Prefix
  <2>2. IsSeq(b) /\ Len(b) = n /\ \A i \in 1..n : b[i] = q[i]
    BY <1>1, Prefix
  <2> HIDE DEF a, b
  <2>3. IsSeq(Key(a)) /\ Len(Key(a)) = n /\ IsSeq(Key(b)) /\ Len(Key(b)) = n
    BY <2>1, <2>2, KeyParts
  <2>4. ASSUME NEW i \in 1..n PROVE Key(a)[i] = Key(b)[i]
    <3>1. i \in 1..Len(p) /\ i \in 1..Len(q)
      BY <1>1
    <3>2. Key(a)[i] = Key(p)[i]
      <4>1. Key(a)[i] = IF a[i] \in DOMAIN Folded THEN Folded[a[i]] ELSE a[i]
        BY <2>1, KeyParts
      <4>2. Key(p)[i] = IF p[i] \in DOMAIN Folded THEN Folded[p[i]] ELSE p[i]
        BY <3>1, KeyParts
      <4> QED
        BY <4>1, <4>2, <2>1
    <3>3. Key(b)[i] = Key(q)[i]
      <4>1. Key(b)[i] = IF b[i] \in DOMAIN Folded THEN Folded[b[i]] ELSE b[i]
        BY <2>2, KeyParts
      <4>2. Key(q)[i] = IF q[i] \in DOMAIN Folded THEN Folded[q[i]] ELSE q[i]
        BY <3>1, KeyParts
      <4> QED
        BY <4>1, <4>2, <2>2
    <3> QED
      BY <3>2, <3>3
  <2>5. Key(a) = Key(b)
    BY <2>3, <2>4, SameSeq
  <2> QED
    BY <2>5 DEF a, b
<1> QED
  BY <1>1, <1>2

\* What lies above a path is a proper prefix of it.
LEMMA AncestorParts ==
  ASSUME NEW p, IsSeq(p), NEW a \in Ancestors(p)
  PROVE  /\ IsSeq(a) /\ Len(a) \in 1..(Len(p) - 1)
         /\ a = SubSeq(p, 1, Len(a))
         /\ \A i \in 1..Len(a) : a[i] = p[i]
<1>1. PICK n \in 1..(Len(p) - 1) : a = SubSeq(p, 1, n)
  BY DEF Ancestors
<1>2. n \in 1..Len(p)
  BY SeqParts
<1> QED
  BY <1>1, <1>2, Prefix

\* What lies above something above a path lies above the path.
LEMMA AncestorOfAncestor ==
  ASSUME NEW p, IsSeq(p), NEW a \in Ancestors(p), NEW b \in Ancestors(a)
  PROVE  b \in Ancestors(p)
<1>1. IsSeq(a) /\ Len(a) \in 1..(Len(p) - 1) /\ \A i \in 1..Len(a) : a[i] = p[i]
  BY AncestorParts
<1>2. IsSeq(b) /\ Len(b) \in 1..(Len(a) - 1) /\ \A i \in 1..Len(b) : b[i] = a[i]
  BY <1>1, AncestorParts
<1> DEFINE n == Len(b)
<1>3. n \in 1..(Len(p) - 1) /\ n \in 1..Len(p) /\ Len(p) \in Nat
  BY <1>1, <1>2, SeqParts
<1>4. IsSeq(SubSeq(p, 1, n)) /\ Len(SubSeq(p, 1, n)) = n /\ \A i \in 1..n : SubSeq(p, 1, n)[i] = p[i]
  BY <1>3, Prefix
<1>5. \A i \in 1..n : b[i] = p[i]
  BY <1>1, <1>2
<1>6. b = SubSeq(p, 1, n)
  BY <1>2, <1>4, <1>5, SameSeq
<1> QED
  BY <1>3, <1>6 DEF Ancestors

\* Two prefixes of one path that have the same key are the same.
LEMMA SameKeyPrefix ==
  ASSUME NEW p, IsSeq(p), NEW a \in Ancestors(p) \cup {p}, NEW b \in Ancestors(p) \cup {p},
         Key(a) = Key(b)
  PROVE  a = b
<1>1. IsSeq(a) /\ Len(a) \in Nat /\ \A i \in 1..Len(a) : a[i] = p[i]
  BY AncestorParts, SeqParts
<1>2. IsSeq(b) /\ \A i \in 1..Len(b) : b[i] = p[i]
  BY AncestorParts, SeqParts
<1>3. Len(a) = Len(b)
  BY <1>1, <1>2, SameKey
<1> QED
  BY <1>1, <1>2, <1>3, SameSeq

\* No path lies above itself.
LEMMA NotItsAncestor ==
  ASSUME NEW p, IsSeq(p)
  PROVE  p \notin Ancestors(p)
<1> SUFFICES ASSUME p \in Ancestors(p) PROVE FALSE
  OBVIOUS
<1>1. Len(p) \in 1..(Len(p) - 1) /\ Len(p) \in Nat
  BY AncestorParts, SeqParts
<1> QED
  BY <1>1

\* What lies above a child: its directory, and what lies above that.
LEMMA AncestorsOfChild ==
  ASSUME NEW d, IsSeq(d), NEW x
  PROVE  Ancestors(Append(d, x)) \subseteq Ancestors(d) \cup ({d} \ {<<>>})
<1> DEFINE c == Append(d, x)
<1>1. IsSeq(c) /\ Len(c) = Len(d) + 1 /\ \A i \in 1..Len(d) : c[i] = d[i]
  BY Longer
<1> HIDE DEF c
<1>2. ASSUME NEW a \in Ancestors(c) PROVE a \in Ancestors(d) \cup ({d} \ {<<>>})
  <2>1. IsSeq(a) /\ Len(a) \in 1..(Len(c) - 1) /\ \A i \in 1..Len(a) : a[i] = c[i]
    BY <1>1, AncestorParts
  <2>2. Len(d) \in Nat /\ Len(a) \in 1..Len(d) /\ \A i \in 1..Len(a) : a[i] = d[i]
    BY <1>1, <2>1, SeqParts
  <2>3. CASE Len(a) = Len(d)
    <3>1. a = d
      BY <2>1, <2>2, <2>3, SameSeq
    <3>2. d # <<>>
      BY <2>2
    <3> QED
      BY <3>1, <3>2
  <2>4. CASE Len(a) # Len(d)
    <3> DEFINE n == Len(a)
    <3>1. n \in 1..(Len(d) - 1) /\ n \in 1..Len(d)
      BY <2>2, <2>4
    <3> DEFINE b == SubSeq(d, 1, n)
    <3>3. IsSeq(b) /\ Len(b) = n /\ \A i \in 1..n : b[i] = d[i]
      BY <3>1, Prefix
    <3> HIDE DEF b
    <3>4. a = b
      BY <2>1, <2>2, <3>3, SameSeq
    <3>2. a = SubSeq(d, 1, n)
      BY <3>4 DEF b
    <3> QED
      BY <3>1, <3>2 DEF Ancestors
  <2> QED
    BY <2>3, <2>4
<1> QED
  BY <1>2 DEF c

\* The fault of a handler is the one of its first check that fails, if any does.
LEMMA FirstIsLeast ==
  ASSUME NEW N \in Nat, NEW checks, DOMAIN checks = 1..N
  PROVE  \/ First(checks) = NoFault /\ \A n \in 1..N : ~checks[n][1]
         \/ \E n \in 1..N : /\ checks[n][1] /\ First(checks) = checks[n][2]
                            /\ \A m \in 1..N : checks[m][1] => n <= m
<1> DEFINE hits == {k \in DOMAIN checks : checks[k][1]}
           l == CHOOSE n \in hits : \A m \in hits : n <= m
<1>1. CASE hits = {}
  BY <1>1 DEF First
<1>2. CASE hits # {}
  <2>1. hits \subseteq Nat
    OBVIOUS
  <2>2. l \in hits /\ \A m \in hits : l <= m
    BY <1>2, <2>1, LeastNat
  <2>3. First(checks) = checks[l][2]
    BY <1>2 DEF First
  <2> QED
    BY <2>2, <2>3
<1> QED
  BY <1>1, <1>2

-----------------------------------------------------------------------------
(* The checks of an entry *)

\* The checks of an entry of an archive: what it is refused for, and what an
\* entry has passed that is not (safe_extract, in the order of the code).
LEMMA EntryChecks ==
  /\ EntryFault \in Reasons \cup {NoFault}
  /\ EntryFault = NoFault <=>
       /\ ~Unreadable(Entry) /\ ~BadName(Entry.name) /\ ~IsAbsolute(Entry.name)
           /\ ~HasDotdot(Entry.name)
       /\ \/ IsRoot /\ Entry.kind = "dir" /\ ~rootSeen
          \/ /\ ~IsRoot /\ Entry.kind \notin {"symlink", "hardlink", "device"}
             /\ ~Collides(EntryPath, Entry.kind) /\ ~(count >= limits.files)
             /\ ~Blocked(EntryPath, Entry.kind)
  /\ EntryFault = NoFault /\ ~IsRoot =>
       /\ Entry.kind \notin {"symlink", "hardlink", "device"} /\ ~Collides(EntryPath, Entry.kind)
       /\ ~(count >= limits.files) /\ ~Blocked(EntryPath, Entry.kind)
<1> DEFINE p1 == Unreadable(Entry)
           p2 == BadName(Entry.name)
           p3 == IsAbsolute(Entry.name)
           p4 == HasDotdot(Entry.name)
           p5 == IsRoot /\ Entry.kind # "dir"
           p6 == IsRoot /\ rootSeen
           p7 == IsRoot
           p8 == Entry.kind \in {"symlink", "hardlink", "device"}
           p9 == Collides(EntryPath, Entry.kind)
           p10 == count >= limits.files
           p11 == Blocked(EntryPath, Entry.kind)
           c == << <<p1, "unknown_format">>, <<p2, "bad_name">>, <<p3, "absolute">>, <<p4, "dotdot">>,
                   <<p5, "bad_name">>, <<p6, "duplicate">>, <<p7, NoFault>>, <<p8, Entry.kind>>,
                   <<p9, "duplicate">>, <<p10, "too_many_files">>, <<p11, "duplicate">> >>
<1>1. EntryFault = First(c)
  BY DEF EntryFault
<1> HIDE DEF p1, p2, p3, p4, p5, p6, p9, p10, p11
<1>2. /\ DOMAIN c = 1..11
      /\ c[1][2] = "unknown_format" /\ c[2][2] = "bad_name" /\ c[3][2] = "absolute"
          /\ c[4][2] = "dotdot"
      /\ c[5][2] = "bad_name" /\ c[6][2] = "duplicate" /\ c[7][2] = NoFault /\ c[8][2] = Entry.kind
      /\ c[9][2] = "duplicate" /\ c[10][2] = "too_many_files" /\ c[11][2] = "duplicate"
  OBVIOUS
<1>3. /\ c[1][1] <=> p1
      /\ c[2][1] <=> p2
      /\ c[3][1] <=> p3
      /\ c[4][1] <=> p4
      /\ c[5][1] <=> p5
      /\ c[6][1] <=> p6
      /\ c[7][1] <=> p7
      /\ c[8][1] <=> p8
      /\ c[9][1] <=> p9
      /\ c[10][1] <=> p10
      /\ c[11][1] <=> p11
  OBVIOUS
<1> HIDE DEF c, p7, p8
<1>4. \A n \in 1..11 : n \in {1, 2, 3, 4, 5, 6, 7, 8, 9, 10, 11}
  OBVIOUS
<1>5. \A n \in 1..11 : n # 7 /\ n # 8 => c[n][2] \in Reasons
  BY <1>2, <1>4 DEF Reasons
<1>6. p8 => c[8][2] \in Reasons
  BY <1>2 DEF p8, Reasons
<1>7. 11 \in Nat
  OBVIOUS
<1>8. \/ First(c) = NoFault /\ \A n \in 1..11 : ~c[n][1]
      \/ \E n \in 1..11 : /\ c[n][1] /\ First(c) = c[n][2]
                          /\ \A m \in 1..11 : c[m][1] => n <= m
  BY <1>2, <1>7, FirstIsLeast
<1>9. First(c) \in Reasons \cup {NoFault}
  BY <1>2, <1>3, <1>5, <1>6, <1>8
<1>10. ASSUME First(c) = NoFault, ~p7
       PROVE  ~p8 /\ ~p9 /\ ~p10 /\ ~p11
  <2>1. NoFault \notin Reasons
    BY DEF NoFault, Reasons
  <2>2. \A n \in 1..11 : ~c[n][1]
    BY <1>3, <1>5, <1>6, <1>8, <1>10, <2>1
  <2> QED
    BY <1>3, <2>2
<1>11. ASSUME First(c) = NoFault PROVE ~p1 /\ ~p2 /\ ~p3 /\ ~p4 /\ (p7 => ~p5 /\ ~p6)
  <2>1. NoFault \notin Reasons
    BY DEF NoFault, Reasons
  <2>2. \/ \A n \in 1..11 : ~c[n][1]
        \/ \A m \in 1..11 : c[m][1] => 7 <= m
    <3>1. ASSUME NEW n \in 1..11, c[n][1], First(c) = c[n][2], \A m \in 1..11 : c[m][1] => n <= m
          PROVE  n = 7
      BY <1>3, <1>5, <1>6, <1>11, <2>1, <3>1
    <3> QED
      BY <1>8, <3>1
  <2>3. ~c[1][1] /\ ~c[2][1] /\ ~c[3][1] /\ ~c[4][1] /\ (c[7][1] => ~c[5][1] /\ ~c[6][1])
    BY <2>2, 1 \in 1..11, 2 \in 1..11, 3 \in 1..11, 4 \in 1..11, 5 \in 1..11, 6 \in 1..11, 7 \in 1..11
  <2> QED
    BY <1>3, <2>3
<1>12. ASSUME ~p1, ~p2, ~p3, ~p4, p7, ~p5, ~p6 PROVE First(c) = NoFault
  <2>1. c[7][1] /\ 7 \in 1..11
    BY <1>3, <1>12
  <2>2. ASSUME NEW n \in 1..11, c[n][1], First(c) = c[n][2], \A m \in 1..11 : c[m][1] => n <= m
        PROVE  n = 7
    <3>1. n <= 7
      BY <2>1, <2>2
    <3>2. n \notin {1, 2, 3, 4, 5, 6}
      BY <1>3, <1>12, <2>2
    <3> QED
      BY <3>1, <3>2
  <2> QED
    BY <1>2, <1>8, <2>1, <2>2
<1>13. ASSUME ~p1, ~p2, ~p3, ~p4, ~p5, ~p6, ~p7, ~p8, ~p9, ~p10, ~p11 PROVE First(c) = NoFault
  <2>1. \A n \in 1..11 : ~c[n][1]
    BY <1>3, <1>4, <1>13
  <2> QED
    BY <1>8, <2>1
<1>14. First(c) = NoFault <=>
         /\ ~p1 /\ ~p2 /\ ~p3 /\ ~p4
         /\ \/ p7 /\ ~p5 /\ ~p6
            \/ ~p7 /\ ~p8 /\ ~p9 /\ ~p10 /\ ~p11
  <2>1. ~p7 => ~p5 /\ ~p6
    BY DEF p5, p6, p7
  <2> QED
    BY <1>10, <1>11, <1>12, <1>13, <2>1
<1>15. p7 => (~p5 /\ ~p6 <=> Entry.kind = "dir" /\ ~rootSeen)
  BY DEF p5, p6, p7
<1> QED
  BY <1>1, <1>9, <1>10, <1>14, <1>15 DEF p1, p2, p3, p4, p7, p8, p9, p10, p11

\* The checks of an entry of a directory (_copy_server_tree).
LEMMA ChildChecks ==
  /\ ChildFault \in Reasons \cup {NoFault}
  /\ ChildFault = NoFault <=>
       /\ Child.name \notin Unwritable /\ Key(<<Child.name>>) \notin Top.seen
       /\ Child.kind \in {"file", "dir"} /\ ~(count >= limits.files)
<1> DEFINE p1 == Child.name \in Unwritable
           p2 == Key(<<Child.name>>) \in Top.seen
           p3 == Child.kind = "symlink"
           p4 == Child.kind \in {"file", "dir"} /\ count >= limits.files
           p5 == Child.kind \notin {"file", "dir"}
           c == << <<p1, "bad_name">>, <<p2, "duplicate">>, <<p3, "symlink">>, <<p4, "too_many_files">>,
                   <<p5, "device">> >>
<1>1. ChildFault = First(c)
  BY DEF ChildFault
<1> HIDE DEF p1, p2, p3, p4, p5
<1>2. /\ DOMAIN c = 1..5
      /\ c[1][2] = "bad_name" /\ c[2][2] = "duplicate" /\ c[3][2] = "symlink"
      /\ c[4][2] = "too_many_files" /\ c[5][2] = "device"
  OBVIOUS
<1>3. /\ c[1][1] <=> p1
      /\ c[2][1] <=> p2
      /\ c[3][1] <=> p3
      /\ c[4][1] <=> p4
      /\ c[5][1] <=> p5
  OBVIOUS
<1> HIDE DEF c
<1>4. \A n \in 1..5 : n \in {1, 2, 3, 4, 5}
  OBVIOUS
<1>5. \A n \in 1..5 : c[n][2] \in Reasons
  BY <1>2, <1>4 DEF Reasons
<1>6. NoFault \notin Reasons
  BY DEF NoFault, Reasons
<1>7. 5 \in Nat
  OBVIOUS
<1>8. \/ First(c) = NoFault /\ \A n \in 1..5 : ~c[n][1]
      \/ \E n \in 1..5 : /\ c[n][1] /\ First(c) = c[n][2]
                         /\ \A m \in 1..5 : c[m][1] => n <= m
  BY <1>2, <1>7, FirstIsLeast
<1>9. First(c) \in Reasons \cup {NoFault} /\ (First(c) = NoFault <=> \A n \in 1..5 : ~c[n][1])
  BY <1>5, <1>6, <1>8
<1>10. (\A n \in 1..5 : ~c[n][1]) <=> ~p1 /\ ~p2 /\ ~p3 /\ ~p4 /\ ~p5
  <2>1. 1 \in 1..5 /\ 2 \in 1..5 /\ 3 \in 1..5 /\ 4 \in 1..5 /\ 5 \in 1..5
    OBVIOUS
  <2> QED
    BY <1>3, <1>4, <2>1
<1>11. ~p3 /\ ~p4 /\ ~p5 <=> Child.kind \in {"file", "dir"} /\ ~(count >= limits.files)
  BY DEF p3, p4, p5
<1> QED
  BY <1>1, <1>9, <1>10, <1>11 DEF p1, p2

-----------------------------------------------------------------------------
(* Disk and index *)

\* A path that goes to disk with what lies above it, and whose spelling differs
\* from that of no path that is there, leaves a tree a tree.
LEMMA TreeGrows ==
  ASSUME NEW d, IsTree(d), NEW e, IsSeq(e), e # <<>>, NEW d2, d2[e] \in {"file", "dir"},
         DOMAIN d2 = DOMAIN d \cup Ancestors(e) \cup {e},
         \A p \in DOMAIN d : d2[p] = d[p],
         \A a \in Ancestors(e) : d2[a] = "dir",
         \A p \in DOMAIN d : \A q \in Ancestors(e) \cup {e} : Key(p) = Key(q) => p = q
  PROVE  IsTree(d2)
<1>1. ASSUME NEW p \in DOMAIN d2 PROVE IsSeq(p) /\ p # <<>> /\ d2[p] \in {"file", "dir"}
  <2>1. CASE p \in DOMAIN d
    BY <2>1 DEF IsTree
  <2>2. CASE p \in Ancestors(e)
    <3>1. IsSeq(p) /\ Len(p) \in 1..(Len(e) - 1)
      BY <2>2, AncestorParts
    <3>2. Len(<<>>) = 0
      OBVIOUS
    <3> QED
      BY <2>2, <3>1, <3>2
  <2> QED
    BY <2>1, <2>2
<1>2. ASSUME NEW p \in DOMAIN d2, NEW q \in DOMAIN d2, Key(p) = Key(q) PROVE p = q
  <2>1. CASE p \in DOMAIN d /\ q \in DOMAIN d
    BY <1>2, <2>1 DEF IsTree
  <2>2. CASE p \in DOMAIN d /\ q \notin DOMAIN d
    BY <1>2, <2>2
  <2>3. CASE p \notin DOMAIN d /\ q \in DOMAIN d
    BY <1>2, <2>3
  <2>4. CASE p \notin DOMAIN d /\ q \notin DOMAIN d
    <3>1. p \in Ancestors(e) \cup {e} /\ q \in Ancestors(e) \cup {e}
      BY <2>4
    <3> QED
      BY <1>2, <3>1, SameKeyPrefix
  <2> QED
    BY <2>1, <2>2, <2>3, <2>4
<1>3. ASSUME NEW p \in DOMAIN d2, NEW a \in Ancestors(p) PROVE a \in DOMAIN d2 /\ d2[a] = "dir"
  <2>1. CASE p \in DOMAIN d
    BY <1>3, <2>1 DEF IsTree
  <2>2. CASE p \in Ancestors(e)
    BY <1>3, <2>2, AncestorOfAncestor
  <2>3. CASE p = e
    BY <1>3, <2>3
  <2> QED
    BY <2>1, <2>2, <2>3
<1> QED
  BY <1>1, <1>2, <1>3 DEF IsTree

\* What _PathIndex.add leaves: the path, what lies above it, and what was there.
LEMMA IndexGrows ==
  ASSUME NEW path, IsSeq(path), NEW kind \in {"file", "dir"}, Add(path, kind),
         \A k \in DOMAIN index : index[k].kind \in {"file", "dir"} /\ Key(index[k].path) = k,
         explicit \subseteq DOMAIN index,
         \A q \in Ancestors(path) \cup {path} : Indexed(q) => index[Key(q)].path = q
  PROVE  /\ IndexPaths' = IndexPaths \cup Ancestors(path) \cup {path}
         /\ \A k \in DOMAIN index' : index'[k].kind \in {"file", "dir"} /\ Key(index'[k].path) = k
         /\ explicit' \subseteq DOMAIN index' /\ explicit' = explicit \cup {Key(path)}
         /\ index'[Key(path)] = [path |-> path, kind |-> kind]
         /\ \A k \in DOMAIN index' :
              \/ k = Key(path)
              \/ k \in DOMAIN index /\ index'[k] = index[k]
              \/ index'[k].path \in Ancestors(path) \ IndexPaths /\ index'[k].kind = "dir"
<1> DEFINE parents == {a \in Ancestors(path) : ~Indexed(a)}
           new == {Key(a) : a \in parents \cup {path}}
           Up(k) == [path |-> CHOOSE a \in parents : Key(a) = k, kind |-> "dir"]
<1>1. /\ explicit' = explicit \cup {Key(path)}
      /\ index' = [k \in DOMAIN index \cup new |->
                     IF k = Key(path) THEN [path |-> path, kind |-> kind]
                     ELSE IF k \in DOMAIN index THEN index[k] ELSE Up(k)]
  BY DEF Add
<1> HIDE DEF Up
<1>2. /\ DOMAIN index' = DOMAIN index \cup new
      /\ index'[Key(path)] = [path |-> path, kind |-> kind]
      /\ \A k \in DOMAIN index : k # Key(path) => index'[k] = index[k]
      /\ \A k \in new \ DOMAIN index : k # Key(path) => index'[k] = Up(k)
  BY <1>1
<1>3. ASSUME NEW a \in parents
      PROVE  Key(a) \in new \ DOMAIN index /\ Key(a) # Key(path)
          /\ Up(Key(a)) = [path |-> a, kind |-> "dir"]
             /\ a \notin IndexPaths
  <2>1. Key(a) \in new \ DOMAIN index
    BY DEF Indexed
  <2>2. Key(a) # Key(path)
    BY SameKeyPrefix, NotItsAncestor
  <2>3. \A b \in parents : Key(b) = Key(a) => b = a
    BY SameKeyPrefix
  <2>4. (CHOOSE b \in parents : Key(b) = Key(a)) = a
    BY <2>3
  <2>5. a \notin IndexPaths
    BY <2>1 DEF IndexPaths
  <2> QED
    BY <2>1, <2>2, <2>4, <2>5 DEF Up
<1>4. \A a \in parents : index'[Key(a)] = [path |-> a, kind |-> "dir"] /\ Key(a) \in DOMAIN index'
  BY <1>2, <1>3
<1>5. \A k \in DOMAIN index' : k = Key(path) \/ k \in DOMAIN index \/ \E a \in parents : k = Key(a)
  BY <1>2
<1>6. ASSUME NEW k \in DOMAIN index'
      PROVE  /\ index'[k].kind \in {"file", "dir"} /\ Key(index'[k].path) = k
             /\ \/ k = Key(path)
                \/ k \in DOMAIN index /\ index'[k] = index[k]
                \/ index'[k].path \in Ancestors(path) \ IndexPaths /\ index'[k].kind = "dir"
  <2>1. CASE k = Key(path)
    BY <1>2, <2>1
  <2>2. CASE k # Key(path) /\ k \in DOMAIN index
    BY <1>2, <2>2
  <2>3. CASE \E a \in parents : k = Key(a)
    <3>1. PICK a \in parents : k = Key(a)
      BY <2>3
    <3>2. index'[k].path = a /\ index'[k].kind = "dir" /\ a \in Ancestors(path) \ IndexPaths
      BY <1>3, <1>4, <3>1
    <3> QED
      BY <3>1, <3>2
  <2> QED
    BY <1>5, <2>1, <2>2, <2>3
<1>7. IndexPaths' = IndexPaths \cup Ancestors(path) \cup {path}
  <2>1. IndexPaths' = {index'[k].path : k \in DOMAIN index'}
            /\ IndexPaths = {index[k].path : k \in DOMAIN index}
    BY DEF IndexPaths
  <2>2. ASSUME NEW k \in DOMAIN index'
            PROVE index'[k].path \in IndexPaths \cup Ancestors(path) \cup {path}
    BY <1>2, <1>6, <2>1
  <2>3. ASSUME NEW k \in DOMAIN index PROVE index[k].path \in IndexPaths'
    <3>1. CASE k = Key(path)
      <4>1. index[k].path = path
        BY <3>1 DEF Indexed
      <4> QED
        BY <1>2, <2>1, <3>1, <4>1
    <3>2. CASE k # Key(path)
      BY <1>2, <2>1, <3>2
    <3> QED
      BY <3>1, <3>2
  <2>4. path \in IndexPaths'
    BY <1>2, <2>1
  <2>5. ASSUME NEW a \in Ancestors(path) PROVE a \in IndexPaths'
    <3>1. CASE a \in parents
      <4>1. index'[Key(a)] = [path |-> a, kind |-> "dir"] /\ Key(a) \in DOMAIN index'
        BY <1>4, <3>1
      <4>2. index'[Key(a)].path = a
        BY <4>1
      <4> QED
        BY <2>1, <4>1, <4>2
    <3>2. CASE a \notin parents
      <4>1. Key(a) \in DOMAIN index /\ index[Key(a)].path = a
        BY <3>2 DEF Indexed
      <4> QED
        BY <2>3, <4>1
    <3> QED
      BY <3>1, <3>2
  <2> QED
    BY <2>1, <2>2, <2>3, <2>4, <2>5
<1>8. explicit' \subseteq DOMAIN index'
  BY <1>1, <1>2
<1> QED
  BY <1>1, <1>2, <1>6, <1>7, <1>8

-----------------------------------------------------------------------------
(* The steps of staging *)

\* A refusal empties the directory, and the index means nothing any more.
LEMMA RefuseKeeps ==
  ASSUME StagingInv, NEW reason \in Reasons, Refuse(reason)
  PROVE  StagingInv'
<1>1. /\ verdict' = reason /\ disk' = <<>> /\ writing' = NoFile
      /\ UNCHANGED <<source, limits, pos, stack, index, explicit, total, count, rootSeen>>
  BY DEF Refuse, given
<1>2. verdict' \notin {"none", "working"}
  BY <1>1 DEF Reasons
<1>3. DOMAIN disk' = {}
  BY <1>1
<1>4. StagingTypeOK'
  BY <1>1, <1>3 DEF StagingInv, StagingTypeOK, Key
<1>5. SourceInv'
  BY <1>1, <1>2 DEF StagingInv, SourceInv, NoFile
<1>6. IsTree(disk')
  BY <1>3 DEF IsTree
<1> QED
  BY <1>2, <1>4, <1>5, <1>6 DEF StagingInv, ArchiveInv, DirectoryInv

\* What the steps that leave paths alone keep.
LEMMA PathsKept ==
  ASSUME StagingInv, StagingTypeOK', SourceInv', UNCHANGED <<disk, index, explicit, stack, source>>,
         verdict' = "working" => verdict = "working" /\ Opened' = Opened
  PROVE  StagingInv'
<1>1. IsTree(disk)'
  BY DEF StagingInv
<1>2. ArchiveInv'
  <2>1. IndexPaths' = IndexPaths
    BY DEF IndexPaths
  <2>2. ASSUME verdict' = "working", IsArchive'
        PROVE  /\ verdict = "working" /\ IsArchive /\ Opened' = Opened
    BY <2>2 DEF IsArchive
  <2>3. ASSUME verdict' = "working", IsArchive'
        PROVE  DOMAIN disk' = IndexPaths' \cup Opened'
    BY <2>1, <2>2, <2>3 DEF StagingInv, ArchiveInv
  <2>4. ASSUME verdict' = "working", IsArchive', NEW k \in DOMAIN index'
        PROVE  disk'[index'[k].path] = index'[k].kind /\ (index'[k].kind = "file" => k \in explicit')
    BY <2>2, <2>4 DEF StagingInv, ArchiveInv
  <2> QED
    BY <2>3, <2>4 DEF ArchiveInv
<1>3. DirectoryInv'
  BY DEF StagingInv, DirectoryInv
<1> QED
  BY <1>1, <1>2, <1>3 DEF StagingInv

\* A block that is copied changes neither paths nor the path of the open file.
LEMMA CopyKeeps == ASSUME StagingInv, Copy PROVE StagingInv'
<1>1. /\ writing # NoFile /\ writing.left > 0 /\ total < limits.blocks
      /\ writing' = [writing EXCEPT !.left = @ - 1] /\ total' = total + 1
      /\ UNCHANGED <<source, limits, pos, stack, index, explicit, disk, count, rootSeen, verdict>>
  BY DEF Copy, given
<1>2. writing' = [path |-> writing.path, left |-> writing.left - 1, torn |-> writing.torn]
  BY <1>1 DEF StagingInv, SourceInv
<1>3. writing.path \in DOMAIN disk /\ disk[writing.path] = "file" /\ writing'.path = writing.path
  BY <1>1, <1>2 DEF StagingInv, StagingTypeOK
<1>4. writing' # NoFile
  <2>1. writing.path # <<>>
    BY <1>3 DEF StagingInv, IsTree
  <2> QED
    BY <1>3, <2>1 DEF NoFile
<1>5. StagingTypeOK'
  <2>1. total' \in 0..limits'.blocks
    BY <1>1 DEF StagingInv, StagingTypeOK, SourceInv
  <2> QED
    BY <1>1, <1>3, <2>1 DEF StagingInv, StagingTypeOK, Key
<1>6. SourceInv'
  <2>1. verdict = "working"
    BY <1>1 DEF StagingInv, SourceInv
  <2> QED
    BY <1>1, <1>2, <2>1 DEF StagingInv, SourceInv, IsArchive
<1>7. Opened' = Opened
  BY <1>1, <1>3, <1>4 DEF Opened
<1> QED
  BY <1>1, <1>5, <1>6, <1>7, PathsKept

\* The entry of the root is skipped.
LEMMA SkipRootKeeps == ASSUME StagingInv, SkipRoot PROVE StagingInv'
<1>1. /\ FromArchive /\ pos < Len(source.entries)
      /\ rootSeen' = TRUE /\ pos' = pos + 1
      /\ UNCHANGED <<source, limits, stack, index, explicit, disk, total, count, writing, verdict>>
  BY DEF SkipRoot, NextEntry, given
<1>2. StagingTypeOK'
  BY <1>1 DEF StagingInv, StagingTypeOK, Key
<1>3. SourceInv'
  BY <1>1 DEF StagingInv, SourceInv, FromArchive, IsArchive
<1>4. Opened' = Opened
  BY <1>1 DEF Opened
<1> QED
  BY <1>1, <1>2, <1>3, <1>4, PathsKept

\* The last entry is done.
LEMMA ExtractedKeeps == ASSUME StagingInv, Extracted PROVE StagingInv'
<1>1. /\ FromArchive /\ verdict' = "accepted"
      /\ UNCHANGED <<source, limits, pos, stack, index, explicit, disk, total, count, rootSeen,
          writing>>
  BY DEF Extracted, given
<1>2. StagingTypeOK'
  BY <1>1 DEF StagingInv, StagingTypeOK, Key
<1>3. SourceInv'
  BY <1>1 DEF StagingInv, SourceInv, FromArchive, IsArchive
<1> QED
  BY <1>1, <1>2, <1>3, PathsKept

\* A file of the directory was copied.
LEMMA CloseCopyKeeps == ASSUME StagingInv, CloseCopy PROVE StagingInv'
<1>1. /\ Copied /\ source.format = "directory" /\ writing' = NoFile
      /\ UNCHANGED <<source, limits, pos, stack, index, explicit, disk, total, count, rootSeen,
          verdict>>
  BY DEF CloseCopy, given
<1>2. StagingTypeOK'
  BY <1>1 DEF StagingInv, StagingTypeOK, Key
<1>3. SourceInv'
  BY <1>1 DEF StagingInv, SourceInv, Copied, IsArchive, Unstarted, NoFile
<1>4. IsTree(disk)' /\ DirectoryInv'
  BY <1>1 DEF StagingInv, DirectoryInv
<1>5. ArchiveInv'
  BY <1>1 DEF ArchiveInv, IsArchive
<1> QED
  BY <1>2, <1>3, <1>4, <1>5 DEF StagingInv

\* An entry of the archive has a name, and what is left of it is a sequence.
LEMMA EntryIsTyped ==
  ASSUME StagingInv, NextEntry
  PROVE  Entry \in Entries /\ IsSeq(EntryPath)
<1>1. source.entries \in Seq(Entries) /\ pos \in Nat /\ pos < Len(source.entries)
  BY DEF StagingInv, StagingTypeOK, SourceInv, NextEntry, FromArchive, IsArchive
<1>2. Entry \in Entries
  BY <1>1 DEF Entry
<1>3. Entry.name \in Seq(STRING)
  BY <1>2 DEF Entries
<1> QED
  BY <1>2, <1>3, NormalizedIsSeq DEF EntryPath

\* What the checks of an entry say of the directory.
LEMMA EntryFits ==
  ASSUME StagingInv, NextEntry, ~IsRoot, EntryFault = NoFault
  PROVE  /\ IsSeq(EntryPath) /\ EntryPath # <<>> /\ count < limits.files
         /\ \A p \in DOMAIN disk : \A q \in Ancestors(EntryPath) \cup {EntryPath} :
               Key(p) = Key(q) => p = q
         /\ \A a \in Ancestors(EntryPath) : a \in DOMAIN disk => disk[a] = "dir"
         /\ EntryPath \in DOMAIN disk => Entry.kind # "file" /\ disk[EntryPath] = "dir"
         /\ \A q \in Ancestors(EntryPath) \cup {EntryPath} : Indexed(q) => index[Key(q)].path = q
<1>1. ~Collides(EntryPath, Entry.kind) /\ ~(count >= limits.files) /\ ~Blocked(EntryPath, Entry.kind)
  BY EntryChecks
<1>2. IsSeq(EntryPath) /\ EntryPath # <<>>
  BY EntryIsTyped DEF IsRoot
<1>3. count < limits.files
  BY <1>1 DEF StagingInv, StagingTypeOK, SourceInv
<1>4. \A q \in Ancestors(EntryPath) \cup {EntryPath} : Indexed(q) => index[Key(q)].path = q
  BY <1>1 DEF Collides
<1>5. DOMAIN disk = IndexPaths
  BY DEF StagingInv, ArchiveInv, NextEntry, FromArchive, IsArchive, Opened
<1>6. ASSUME NEW p \in DOMAIN disk, NEW q \in Ancestors(EntryPath) \cup {EntryPath}, Key(p) = Key(q)
      PROVE  p = q
  <2>1. PICK k \in DOMAIN index : index[k].path = p
    BY <1>5 DEF IndexPaths
  <2>2. Key(p) = k
    BY <2>1 DEF StagingInv, StagingTypeOK
  <2> QED
    BY <1>4, <1>6, <2>1, <2>2 DEF Indexed
<1>7. \A a \in Ancestors(EntryPath) : a \in DOMAIN disk => disk[a] = "dir"
  BY <1>1 DEF Blocked
<1>8. EntryPath \in DOMAIN disk => Entry.kind # "file" /\ disk[EntryPath] = "dir"
  BY <1>1 DEF Blocked
<1> QED
  BY <1>2, <1>3, <1>4, <1>6, <1>7, <1>8

\* A directory of the archive: disk and index grow by the same paths.
LEMMA MakeDirectoryKeeps == ASSUME StagingInv, MakeDirectory PROVE StagingInv'
<1> DEFINE e == EntryPath
           news == Ancestors(e) \cup {e}
<1>1. /\ NextEntry /\ EntryFault = NoFault /\ ~IsRoot /\ Entry.kind = "dir"
      /\ count' = count + 1 /\ pos' = pos + 1
      /\ disk' = OnDisk(news, "dir") /\ Add(e, "dir")
      /\ UNCHANGED <<source, limits, stack, total, rootSeen, writing, verdict>>
  BY DEF MakeDirectory, given
<1>2. /\ FromArchive /\ verdict = "working" /\ IsArchive /\ writing = NoFile
          /\ source.format # "directory"
  BY <1>1 DEF NextEntry, FromArchive, IsArchive
<1>3. /\ IsSeq(e) /\ e # <<>> /\ count < limits.files
      /\ \A p \in DOMAIN disk : \A q \in news : Key(p) = Key(q) => p = q
      /\ \A a \in Ancestors(e) : a \in DOMAIN disk => disk[a] = "dir"
      /\ e \in DOMAIN disk => disk[e] = "dir"
      /\ \A q \in news : Indexed(q) => index[Key(q)].path = q
  BY <1>1, EntryFits
<1> HIDE DEF e
<1>4. /\ DOMAIN disk' = DOMAIN disk \cup Ancestors(e) \cup {e}
      /\ \A p \in DOMAIN disk : disk'[p] = disk[p]
      /\ \A q \in news : disk'[q] = "dir"
  BY <1>1, <1>3 DEF OnDisk
<1>5. IsTree(disk')
  <2>1. IsTree(disk)
    BY DEF StagingInv
  <2>2. \A a \in Ancestors(e) : disk'[a] = "dir"
    BY <1>4
  <2>3. disk'[e] \in {"file", "dir"}
    BY <1>4
  <2>4. \A p \in DOMAIN disk : \A q \in Ancestors(e) \cup {e} : Key(p) = Key(q) => p = q
    BY <1>3
  <2>5. IsSeq(e) /\ e # <<>>
    BY <1>3
  <2>6. DOMAIN disk' = DOMAIN disk \cup Ancestors(e) \cup {e} /\ \A p \in DOMAIN disk : disk'[p] = disk[p]
    BY <1>4
  <2> HIDE DEF news
  <2> QED
    BY <2>1, <2>2, <2>3, <2>4, <2>5, <2>6, TreeGrows
<1>6. /\ IndexPaths' = IndexPaths \cup Ancestors(e) \cup {e}
      /\ \A k \in DOMAIN index' : index'[k].kind \in {"file", "dir"} /\ Key(index'[k].path) = k
      /\ explicit' \subseteq DOMAIN index' /\ explicit' = explicit \cup {Key(e)}
      /\ index'[Key(e)] = [path |-> e, kind |-> "dir"]
      /\ \A k \in DOMAIN index' :
           \/ k = Key(e)
           \/ k \in DOMAIN index /\ index'[k] = index[k]
           \/ index'[k].path \in Ancestors(e) \ IndexPaths /\ index'[k].kind = "dir"
  BY <1>1, <1>3, IndexGrows DEF StagingInv, StagingTypeOK
<1>7. StagingTypeOK'
  <2>1. \A p \in DOMAIN disk' : disk'[p] \in {"file", "dir"}
    BY <1>5 DEF IsTree
  <2>2. pos' \in Nat /\ total' \in 0..limits'.blocks /\ count' \in 0..limits'.files
            /\ rootSeen' \in BOOLEAN
    BY <1>1, <1>3 DEF StagingInv, StagingTypeOK, SourceInv
  <2>3. \A k \in DOMAIN index' : Key(index[k].path)' = k
    BY <1>6 DEF Key
  <2> QED
    BY <1>1, <1>2, <1>6, <2>1, <2>2, <2>3 DEF StagingInv, StagingTypeOK
<1>8. SourceInv'
  BY <1>1, <1>2 DEF StagingInv, SourceInv, IsArchive
<1>9. ArchiveInv'
  <2>1. DOMAIN disk = IndexPaths /\ \A k \in DOMAIN index : disk[index[k].path] = index[k].kind
            /\ (index[k].kind = "file" => k \in explicit)
    BY <1>2 DEF StagingInv, ArchiveInv, Opened
  <2>2. Opened' = {}
    BY <1>1, <1>2 DEF Opened
  <2>3. ASSUME NEW k \in DOMAIN index'
        PROVE  disk'[index'[k].path] = index'[k].kind /\ (index'[k].kind = "file" => k \in explicit')
    <3>1. CASE k = Key(e)
      BY <1>4, <1>6, <3>1
    <3>2. CASE k \in DOMAIN index /\ index'[k] = index[k]
      <4>1. index[k].path \in DOMAIN disk
        BY <2>1, <3>2 DEF IndexPaths
      <4> QED
        BY <1>4, <1>6, <2>1, <3>2, <4>1
    <3>3. CASE index'[k].path \in Ancestors(e) \ IndexPaths /\ index'[k].kind = "dir"
      BY <1>4, <3>3
    <3> QED
      BY <1>6, <3>1, <3>2, <3>3
  <2> QED
    BY <1>4, <1>6, <2>1, <2>2, <2>3 DEF ArchiveInv
<1>10. DirectoryInv'
  BY <1>1, <1>2 DEF DirectoryInv
<1> QED
  BY <1>5, <1>7, <1>8, <1>9, <1>10 DEF StagingInv

\* A file of the archive is opened: the disk is ahead of the index by its path.
LEMMA OpenFileKeeps == ASSUME StagingInv, OpenFile PROVE StagingInv'
<1> DEFINE e == EntryPath
           news == Ancestors(e) \cup {e}
<1>0. PICK w : w = [path |-> e, left |-> Entry.blocks, torn |-> Entry.flaw = "data"]
  OBVIOUS
<1>1. /\ NextEntry /\ EntryFault = NoFault /\ ~IsRoot /\ Entry.kind = "file"
      /\ count' = count + 1 /\ writing' = w
      /\ disk' = [OnDisk(news, "dir") EXCEPT ![e] = "file"]
      /\ UNCHANGED <<source, limits, pos, stack, index, explicit, total, rootSeen, verdict>>
  BY <1>0 DEF OpenFile, given
<1>2. /\ FromArchive /\ verdict = "working" /\ IsArchive /\ writing = NoFile
          /\ source.format # "directory"
  BY <1>1 DEF NextEntry, FromArchive, IsArchive
<1>3. /\ IsSeq(e) /\ e # <<>> /\ count < limits.files
      /\ \A p \in DOMAIN disk : \A q \in news : Key(p) = Key(q) => p = q
      /\ \A a \in Ancestors(e) : a \in DOMAIN disk => disk[a] = "dir"
      /\ e \notin DOMAIN disk
  BY <1>1, EntryFits
<1>w. w.path = e /\ w # NoFile /\ w = [path |-> w.path, left |-> w.left, torn |-> w.torn]
  BY <1>0, <1>3 DEF NoFile
<1>n. e \notin Ancestors(e)
  BY <1>3, NotItsAncestor
<1> HIDE DEF e
<1>4. /\ DOMAIN disk' = DOMAIN disk \cup Ancestors(e) \cup {e}
      /\ \A p \in DOMAIN disk : disk'[p] = disk[p]
      /\ \A q \in Ancestors(e) : disk'[q] = "dir"
      /\ disk'[e] = "file"
  BY <1>1, <1>3, <1>n DEF OnDisk
<1>5. IsTree(disk')
  <2>1. IsTree(disk)
    BY DEF StagingInv
  <2>2. \A a \in Ancestors(e) : disk'[a] = "dir"
    BY <1>4
  <2>3. disk'[e] \in {"file", "dir"}
    BY <1>4
  <2>4. \A p \in DOMAIN disk : \A q \in Ancestors(e) \cup {e} : Key(p) = Key(q) => p = q
    BY <1>3
  <2>5. IsSeq(e) /\ e # <<>>
    BY <1>3
  <2>6. DOMAIN disk' = DOMAIN disk \cup Ancestors(e) \cup {e} /\ \A p \in DOMAIN disk : disk'[p] = disk[p]
    BY <1>4
  <2> HIDE DEF news
  <2> QED
    BY <2>1, <2>2, <2>3, <2>4, <2>5, <2>6, TreeGrows
<1>7. StagingTypeOK'
  <2>1. \A p \in DOMAIN disk' : disk'[p] \in {"file", "dir"}
    BY <1>5 DEF IsTree
  <2>2. pos' \in Nat /\ total' \in 0..limits'.blocks /\ count' \in 0..limits'.files
            /\ rootSeen' \in BOOLEAN
    BY <1>1, <1>3 DEF StagingInv, StagingTypeOK, SourceInv
  <2>3. \A k \in DOMAIN index' : Key(index[k].path)' = k /\ index'[k].kind \in {"file", "dir"}
    BY <1>1 DEF StagingInv, StagingTypeOK, Key
  <2>4. writing'.path \in DOMAIN disk' /\ disk'[writing'.path] = "file"
    BY <1>1, <1>w, <1>4
  <2> QED
    BY <1>1, <1>2, <2>1, <2>2, <2>3, <2>4 DEF StagingInv, StagingTypeOK
<1>8. SourceInv'
  BY <1>1, <1>2, <1>w DEF StagingInv, SourceInv, IsArchive
<1>9. ArchiveInv'
  <2>1. DOMAIN disk = IndexPaths /\ \A k \in DOMAIN index : disk[index[k].path] = index[k].kind
            /\ (index[k].kind = "file" => k \in explicit)
    BY <1>2 DEF StagingInv, ArchiveInv, Opened
  <2>2. Opened' = Ancestors(e) \cup {e}
    BY <1>1, <1>w DEF Opened, Ancestors
  <2>3. IndexPaths' = IndexPaths
    BY <1>1 DEF IndexPaths
  <2>4. ASSUME NEW k \in DOMAIN index
        PROVE  disk'[index[k].path] = index[k].kind /\ (index[k].kind = "file" => k \in explicit)
    <3>1. index[k].path \in DOMAIN disk
      BY <2>1 DEF IndexPaths
    <3> QED
      BY <1>4, <2>1, <3>1
  <2> QED
    BY <1>1, <1>4, <2>1, <2>2, <2>3, <2>4 DEF ArchiveInv
<1>10. DirectoryInv'
  BY <1>1, <1>2 DEF DirectoryInv
<1> QED
  BY <1>5, <1>7, <1>8, <1>9, <1>10 DEF StagingInv

\* The file is closed: the index catches up.
LEMMA CloseFileKeeps == ASSUME StagingInv, CloseFile PROVE StagingInv'
<1>0. PICK e : e = writing.path
  OBVIOUS
<1>1. /\ writing # NoFile /\ source.format # "directory"
      /\ Add(e, "file") /\ writing' = NoFile /\ pos' = pos + 1
      /\ UNCHANGED <<source, limits, stack, disk, total, count, rootSeen, verdict>>
  BY <1>0 DEF CloseFile, Copied, given
<1>2. verdict = "working" /\ IsArchive /\ e \in DOMAIN disk /\ disk[e] = "file"
  BY <1>0, <1>1 DEF StagingInv, SourceInv, StagingTypeOK
<1>3. IsSeq(e) /\ e # <<>> /\ \A a \in Ancestors(e) : a \in DOMAIN disk /\ disk[a] = "dir"
  BY <1>2 DEF StagingInv, IsTree
<1>4. /\ DOMAIN disk = IndexPaths \cup Ancestors(e) \cup {e}
      /\ \A k \in DOMAIN index : disk[index[k].path] = index[k].kind
          /\ (index[k].kind = "file" => k \in explicit)
  BY <1>0, <1>1, <1>2 DEF StagingInv, ArchiveInv, Opened
<1>5. ASSUME NEW q \in Ancestors(e) \cup {e}, Indexed(q) PROVE index[Key(q)].path = q
  <2>1. index[Key(q)].path \in DOMAIN disk /\ q \in DOMAIN disk
    BY <1>4, <1>5 DEF Indexed, IndexPaths
  <2>2. Key(index[Key(q)].path) = Key(q)
    BY <1>5 DEF Indexed, StagingInv, StagingTypeOK
  <2> QED
    BY <2>1, <2>2 DEF StagingInv, IsTree
<1>6. /\ IndexPaths' = IndexPaths \cup Ancestors(e) \cup {e}
      /\ \A k \in DOMAIN index' : index'[k].kind \in {"file", "dir"} /\ Key(index'[k].path) = k
      /\ explicit' \subseteq DOMAIN index' /\ explicit' = explicit \cup {Key(e)}
      /\ index'[Key(e)] = [path |-> e, kind |-> "file"]
      /\ \A k \in DOMAIN index' :
           \/ k = Key(e)
           \/ k \in DOMAIN index /\ index'[k] = index[k]
           \/ index'[k].path \in Ancestors(e) \ IndexPaths /\ index'[k].kind = "dir"
  BY <1>1, <1>3, <1>5, IndexGrows DEF StagingInv, StagingTypeOK
<1>7. StagingTypeOK'
  <2>1. pos' \in Nat
    BY <1>1 DEF StagingInv, StagingTypeOK
  <2>2. \A k \in DOMAIN index' : Key(index[k].path)' = k
    BY <1>6 DEF Key
  <2> QED
    BY <1>1, <1>6, <2>1, <2>2 DEF StagingInv, StagingTypeOK
<1>8. SourceInv'
  BY <1>1, <1>2 DEF StagingInv, SourceInv, IsArchive, NoFile
<1>9. ArchiveInv'
  <2>1. Opened' = {}
    BY <1>1 DEF Opened
  <2>2. ASSUME NEW k \in DOMAIN index'
        PROVE  disk[index'[k].path] = index'[k].kind /\ (index'[k].kind = "file" => k \in explicit')
    <3>1. CASE k = Key(e)
      BY <1>2, <1>6, <3>1
    <3>2. CASE k \in DOMAIN index /\ index'[k] = index[k]
      BY <1>4, <1>6, <3>2
    <3>3. CASE index'[k].path \in Ancestors(e) \ IndexPaths /\ index'[k].kind = "dir"
      BY <1>3, <3>3
    <3> QED
      BY <1>6, <3>1, <3>2, <3>3
  <2> QED
    BY <1>1, <1>4, <1>6, <2>1, <2>2 DEF ArchiveInv
<1>10. IsTree(disk)' /\ DirectoryInv'
  BY <1>1 DEF StagingInv, DirectoryInv
<1> QED
  BY <1>7, <1>8, <1>9, <1>10 DEF StagingInv

\* What the checks of a child say of the directory.
LEMMA ChildFits ==
  ASSUME StagingInv, NextChild, ChildFault = NoFault
  PROVE  /\ verdict = "working" /\ source.format = "directory" /\ writing = NoFile
         /\ Len(stack) \in Nat \ {0} /\ DOMAIN stack = 1..Len(stack) /\ IsSeq(Top.path)
         /\ IsSeq(ChildPath) /\ Len(ChildPath) = Len(Top.path) + 1 /\ Holds(Top.path, ChildPath)
         /\ ChildPath[Len(ChildPath)] = Child.name
         /\ Child.kind \in {"file", "dir"} => count < limits.files
         /\ Ancestors(ChildPath) \subseteq DOMAIN disk
         /\ \A a \in Ancestors(ChildPath) : disk[a] = "dir"
         /\ \A p \in DOMAIN disk : \A q \in Ancestors(ChildPath) \cup {ChildPath} :
               Key(p) = Key(q) => p = q
         /\ ChildPath \notin DOMAIN disk
<1> DEFINE d == Top.path
           x == Child.name
           c == ChildPath
<1>1. verdict = "working" /\ source.format = "directory" /\ writing = NoFile /\ stack # <<>>
  BY DEF NextChild, FromDirectory
<1>2. IsSeq(stack) /\ \A n \in DOMAIN stack : FrameInv(stack[n], disk)
  BY <1>1 DEF StagingInv, DirectoryInv
<1>3. Len(stack) \in Nat \ {0} /\ DOMAIN stack = 1..Len(stack)
  <2>1. Len(stack) \in Nat /\ DOMAIN stack = 1..Len(stack)
    BY <1>2, SeqParts
  <2>2. ASSUME Len(stack) = 0 PROVE FALSE
    BY <1>1, <1>2, <2>2, EmptySeq DEF IsSeq
  <2> QED
    BY <2>1, <2>2
<1>4. FrameInv(Top, disk)
  BY <1>2, <1>3 DEF Top
<1>5. /\ IsSeq(d) /\ (d = <<>> \/ (d \in DOMAIN disk /\ disk[d] = "dir"))
      /\ \A p \in DOMAIN disk : Holds(d, p) => Key(<<p[Len(p)]>>) \in Top.seen
  BY <1>4 DEF FrameInv
<1>6. Key(<<x>>) \notin Top.seen /\ (Child.kind \in {"file", "dir"} => count < limits.files)
  BY ChildChecks DEF StagingInv, StagingTypeOK, SourceInv
<1>7. c = Append(d, x)
  BY DEF ChildPath
<1> HIDE DEF d, x
<1>8. IsSeq(c) /\ Len(c) = Len(d) + 1 /\ c[Len(d) + 1] = x /\ \A i \in 1..Len(d) : c[i] = d[i]
  BY <1>5, <1>7, Longer
<1>9. Ancestors(c) \subseteq Ancestors(d) \cup ({d} \ {<<>>})
  BY <1>5, <1>7, AncestorsOfChild
<1>10. ASSUME NEW a \in Ancestors(c) PROVE a \in DOMAIN disk /\ disk[a] = "dir"
  <2>1. CASE d = <<>>
    <3>1. Len(d) = 0 /\ Len(c) = 1
      BY <1>8, <2>1
    <3>2. Len(a) \in 1..(Len(c) - 1)
      BY <1>8, AncestorParts
    <3> QED
      BY <3>1, <3>2
  <2>2. CASE d # <<>>
    <3>1. d \in DOMAIN disk /\ disk[d] = "dir"
      BY <1>5, <2>2
    <3>2. a = d \/ a \in Ancestors(d)
      BY <1>9
    <3> QED
      BY <3>1, <3>2 DEF StagingInv, IsTree
  <2> QED
    BY <2>1, <2>2
<1> HIDE DEF c
\* A path on disk that has the key of the child would be a child of the same directory.
<1>11. ASSUME NEW p \in DOMAIN disk, Key(p) = Key(c) PROVE FALSE
  <2>1. IsSeq(p) /\ p # <<>>
    BY DEF StagingInv, IsTree
  <2>2. Len(p) = Len(c) /\ \A n \in 1..Len(p) : Key(SubSeq(p, 1, n)) = Key(SubSeq(c, 1, n))
    BY <1>8, <1>11, <2>1, SameKey
  <2>3. Len(p) = Len(d) + 1 /\ Len(d) \in Nat
    BY <1>5, <1>8, <2>2, SeqParts
  <2>4. \A i \in 1..Len(d) : p[i] = d[i]
    <3>1. CASE Len(d) = 0
      BY <3>1
    <3>2. CASE Len(d) > 0
      <4> DEFINE n == Len(d)
                 a == SubSeq(p, 1, n)
                 b == SubSeq(c, 1, n)
      <4>1. n \in 1..Len(p) /\ n \in 1..Len(c) /\ n \in 1..(Len(p) - 1)
        BY <2>2, <2>3, <3>2
      <4>2. IsSeq(a) /\ Len(a) = n /\ \A i \in 1..n : a[i] = p[i]
        BY <2>1, <4>1, Prefix
      <4>3. IsSeq(b) /\ Len(b) = n /\ \A i \in 1..n : b[i] = c[i]
        BY <1>8, <4>1, Prefix
      <4>4. a \in Ancestors(p) /\ Key(a) = Key(b)
        BY <2>2, <4>1 DEF Ancestors
      <4> HIDE DEF a, b
      <4>5. \A i \in 1..n : b[i] = d[i]
        BY <1>8, <4>3
      <4>6. b = d
        BY <1>5, <4>3, <4>5, SameSeq
      <4>7. d # <<>>
        BY <3>2
      <4>8. a \in DOMAIN disk /\ d \in DOMAIN disk
        BY <1>5, <4>4, <4>7 DEF StagingInv, IsTree
      <4>9. a = d
        BY <4>4, <4>6, <4>8 DEF StagingInv, IsTree
      <4> QED
        BY <4>2, <4>9
    <3> QED
      BY <2>3, <3>1, <3>2
  <2>5. Holds(d, p)
    BY <2>3, <2>4 DEF Holds
  <2>6. Key(<<p[Len(p)]>>) = Key(<<x>>)
    <3> DEFINE l == Len(p)
               F(y) == IF y \in DOMAIN Folded THEN Folded[y] ELSE y
    <3>1. l \in 1..Len(p) /\ l \in 1..Len(c) /\ c[l] = x
      BY <1>8, <2>2, <2>3
    <3>2. Key(p)[l] = F(p[l]) /\ Key(c)[l] = F(x)
      BY <1>8, <2>1, <3>1, KeyParts
    <3>3. F(p[l]) = F(x)
      BY <1>11, <3>2
    <3>4. \A y : Key(<<y>>) = [n \in 1..1 |-> F(y)]
      BY DEF Key
    <3> QED
      BY <3>3, <3>4
  <2> QED
    BY <1>5, <1>6, <2>5, <2>6
<1>12. ASSUME NEW p \in DOMAIN disk, NEW q \in Ancestors(c) \cup {c}, Key(p) = Key(q) PROVE p = q
  <2>1. q # c
    BY <1>11, <1>12
  <2>2. q \in DOMAIN disk
    BY <1>10, <2>1
  <2> QED
    BY <1>12, <2>2 DEF StagingInv, IsTree
<1>13. c \notin DOMAIN disk
  BY <1>11
<1>14. Holds(d, c) /\ c[Len(c)] = x
  BY <1>8 DEF Holds
<1> QED
  BY <1>1, <1>3, <1>5, <1>6, <1>8, <1>10, <1>12, <1>13, <1>14 DEF c, d, x

\* The names that were seen in a directory go on covering what is in it.
LEMMA FrameGrows ==
  ASSUME StagingInv, NextChild, ChildFault = NoFault, NEW kind \in {"file", "dir"},
         NEW d, d = OnDisk({ChildPath}, kind)
  PROVE  /\ IsTree(d) /\ \A p \in DOMAIN d : d[p] \in {"file", "dir"}
         /\ ChildPath \in DOMAIN d /\ d[ChildPath] = kind
         /\ FrameInv(TopWithout, d) /\ TopWithout.path = Top.path
         /\ \A n \in 1..(Len(stack) - 1) : FrameInv(stack[n], d)
         /\ kind = "dir" => FrameInv(Listed(source, ChildPath), d)
         /\ \A n \in 1..Len(stack) : stack[n].path # ChildPath
<1> DEFINE c == ChildPath
<1>1. /\ verdict = "working" /\ source.format = "directory"
      /\ Len(stack) \in Nat \ {0} /\ DOMAIN stack = 1..Len(stack) /\ IsSeq(Top.path)
      /\ IsSeq(c) /\ Len(c) = Len(Top.path) + 1 /\ Holds(Top.path, c) /\ c[Len(c)] = Child.name
      /\ Ancestors(c) \subseteq DOMAIN disk
      /\ \A a \in Ancestors(c) : disk[a] = "dir"
      /\ \A p \in DOMAIN disk : \A q \in Ancestors(c) \cup {c} : Key(p) = Key(q) => p = q
      /\ c \notin DOMAIN disk
  BY ChildFits
<1>2. /\ \A n \in 1..Len(stack) : FrameInv(stack[n], disk)
      /\ \A m, n \in 1..Len(stack) : m # n => stack[m].path # stack[n].path
      /\ FrameInv(Top, disk) /\ Top = stack[Len(stack)] /\ Len(stack) \in 1..Len(stack)
  BY <1>1 DEF StagingInv, DirectoryInv, Top
<1>3. /\ DOMAIN d = DOMAIN disk \cup {c} /\ d[c] = kind /\ \A p \in DOMAIN disk : d[p] = disk[p]
  BY <1>1 DEF OnDisk
<1>c. c # <<>> /\ Len(c) \in Nat /\ Len(Top.path) \in Nat
  <2>1. Len(c) \in Nat /\ Len(Top.path) \in Nat
    BY <1>1, SeqParts
  <2>2. Len(c) # 0 /\ Len(<<>>) = 0
    BY <1>1, <2>1
  <2> QED
    BY <2>1, <2>2
<1> HIDE DEF c
<1>4. IsTree(d)
  <2>1. \A a \in Ancestors(c) : d[a] = "dir"
    BY <1>1, <1>3
  <2>2. DOMAIN d = DOMAIN disk \cup Ancestors(c) \cup {c} /\ d[c] \in {"file", "dir"}
    BY <1>1, <1>3
  <2>3. IsTree(disk) /\ IsSeq(c) /\ c # <<>>
    BY <1>1, <1>c DEF StagingInv
  <2>4. \A p \in DOMAIN disk : d[p] = disk[p]
    BY <1>3
  <2>5. \A p \in DOMAIN disk : \A q \in Ancestors(c) \cup {c} : Key(p) = Key(q) => p = q
    BY <1>1
  <2> QED
    BY <2>1, <2>2, <2>3, <2>4, <2>5, TreeGrows
<1>5. ASSUME NEW f, FrameInv(f, disk), f.path # Top.path PROVE FrameInv(f, d)
  <2>1. /\ f = [path |-> f.path, left |-> f.left, seen |-> f.seen]
        /\ IsSeq(f.path) /\ (f.path = <<>> \/ (f.path \in DOMAIN disk /\ disk[f.path] = "dir"))
        /\ \A p \in DOMAIN disk : Holds(f.path, p) => Key(<<p[Len(p)]>>) \in f.seen
    BY <1>5 DEF FrameInv
  <2>2. ASSUME Holds(f.path, c) PROVE FALSE
    <3>1. Len(f.path) = Len(Top.path) /\ \A n \in 1..Len(Top.path) : f.path[n] = Top.path[n]
      <4>1. Len(f.path) \in Nat
        BY <2>1, SeqParts
      <4> QED
        BY <1>1, <1>c, <2>2, <4>1 DEF Holds
    <3>2. f.path = Top.path
      BY <1>1, <2>1, <3>1, SameSeq
    <3> QED
      BY <1>5, <3>2
  <2>3. \A p \in DOMAIN d : Holds(f.path, p) => Key(<<p[Len(p)]>>) \in f.seen
    BY <1>3, <2>1, <2>2
  <2>4. f.path = <<>> \/ (f.path \in DOMAIN d /\ d[f.path] = "dir")
    BY <1>3, <2>1
  <2> QED
    BY <2>1, <2>3, <2>4 DEF FrameInv
<1>6. \A n \in 1..(Len(stack) - 1) : FrameInv(stack[n], d)
  <2> SUFFICES ASSUME NEW n \in 1..(Len(stack) - 1) PROVE FrameInv(stack[n], d)
    OBVIOUS
  <2>1. n \in 1..Len(stack) /\ n # Len(stack)
    <3>1. \A l \in Nat : \A k \in 1..(l - 1) : k \in 1..l /\ k # l
      OBVIOUS
    <3>2. Len(stack) \in Nat
      BY <1>1
    <3> QED
      BY <3>1, <3>2
  <2>2. FrameInv(stack[n], disk) /\ stack[n].path # Top.path
    BY <1>2, <2>1
  <2> QED
    BY <1>5, <2>2
<1>7. FrameInv(TopWithout, d) /\ TopWithout.path = Top.path
  <2>1. /\ Top = [path |-> Top.path, left |-> Top.left, seen |-> Top.seen]
        /\ (Top.path = <<>> \/ (Top.path \in DOMAIN disk /\ disk[Top.path] = "dir"))
        /\ \A p \in DOMAIN disk : Holds(Top.path, p) => Key(<<p[Len(p)]>>) \in Top.seen
    BY <1>2 DEF FrameInv
  <2>2. TopWithout = [path |-> Top.path, left |-> Tail(Top.left),
            seen |-> Top.seen \cup {Key(<<Child.name>>)}]
    <3>1. PICK q, l, o : Top = [path |-> q, left |-> l, seen |-> o]
      BY <2>1
    <3>2. Top.path = q /\ Top.left = l /\ Top.seen = o
      BY <3>1
    <3>3. TopWithout = [[path |-> q, left |-> l, seen |-> o] EXCEPT !.left = Tail(@),
                                                                !.seen = @ \cup {Key(<<Child.name>>)}]
      BY <3>1 DEF TopWithout
    <3>4. TopWithout = [path |-> q, left |-> Tail(l), seen |-> o \cup {Key(<<Child.name>>)}]
      BY <3>3
    <3> QED
      BY <3>2, <3>4
  <2>3. TopWithout.path = Top.path /\ TopWithout.seen = Top.seen \cup {Key(<<Child.name>>)}
        /\ TopWithout = [path |-> TopWithout.path, left |-> TopWithout.left, seen |-> TopWithout.seen]
    BY <2>2
  <2>4. ASSUME NEW p \in DOMAIN d, Holds(Top.path, p) PROVE Key(<<p[Len(p)]>>) \in TopWithout.seen
    <3>1. CASE p = c
      BY <1>1, <2>3, <3>1
    <3>2. CASE p \in DOMAIN disk
      BY <2>1, <2>3, <2>4, <3>2
    <3> QED
      BY <1>3, <3>1, <3>2
  <2>5. Top.path = <<>> \/ (Top.path \in DOMAIN d /\ d[Top.path] = "dir")
    BY <1>3, <2>1
  <2> QED
    BY <1>1, <2>3, <2>4, <2>5 DEF FrameInv
<1>8. ASSUME kind = "dir" PROVE FrameInv(Listed(source, c), d)
  <2> DEFINE f == Listed(source, c)
  <2>1. f = [path |-> f.path, left |-> f.left, seen |-> f.seen] /\ f.path = c /\ f.seen = {}
    BY DEF Listed
  <2>2. ASSUME NEW p \in DOMAIN d, Holds(c, p) PROVE FALSE
    <3>1. Len(p) = Len(c) + 1 /\ \A n \in 1..Len(c) : p[n] = c[n]
      BY <2>2 DEF Holds
    <3>2. p \in DOMAIN disk /\ IsSeq(p)
      <4>1. p # c
        BY <1>c, <3>1
      <4>2. IsSeq(p)
        BY <1>4 DEF IsTree
      <4> QED
        BY <1>3, <4>1, <4>2
    <3> DEFINE n == Len(c)
               a == SubSeq(p, 1, n)
    <3>3. n \in 1..Len(p) /\ n \in 1..(Len(p) - 1)
      BY <1>1, <1>c, <3>1
    <3>4. IsSeq(a) /\ Len(a) = n /\ \A i \in 1..n : a[i] = p[i]
      BY <3>2, <3>3, Prefix
    <3>5. a \in Ancestors(p)
      BY <3>3 DEF Ancestors
    <3> HIDE DEF a
    <3>6. a = c
      BY <1>1, <3>1, <3>4, SameSeq
    <3>7. a \in DOMAIN disk
      BY <3>2, <3>5 DEF StagingInv, IsTree
    <3> QED
      BY <1>1, <3>6, <3>7
  <2> HIDE DEF f
  <2> QED
    BY <1>1, <1>3, <1>8, <2>1, <2>2 DEF FrameInv, f
<1>9. \A n \in 1..Len(stack) : stack[n].path # c
  BY <1>1, <1>2, <1>c DEF FrameInv
<1> QED
  BY <1>3, <1>4, <1>6, <1>7, <1>8, <1>9 DEF c, IsTree

\* What is on the stack below its top.
LEMMA BelowTop ==
  ASSUME NEW s, IsSeq(s), NEW l \in Nat, Len(s) = l + 1, NEW S, \A n \in 1..l : s[n] \in S
  PROVE  LET below == SubSeq(s, 1, Len(s) - 1)
         IN  below \in Seq(S) /\ Len(below) = l /\ \A n \in 1..l : below[n] = s[n]
<1> DEFINE T == {s[n] : n \in DOMAIN s}
           below == SubSeq(s, 1, Len(s) - 1)
<1>1. s \in Seq(T) /\ Len(s) - 1 = l
  BY DEF IsSeq
<1>2. below = SubSeq(s, 1, l)
  BY <1>1
<1> HIDE DEF below
<1>3. below = [n \in 1..l |-> s[n]]
  BY <1>1, <1>2
<1>4. below \in [1..l -> S]
  BY <1>3
<1>5. below \in Seq(S) /\ Len(below) = l
  BY <1>4
<1> QED
  BY <1>3, <1>5 DEF below

\* A subdirectory gets a frame of its own, below that of the directory it is in.
LEMMA CopyDirectoryKeeps == ASSUME StagingInv, CopyDirectory PROVE StagingInv'
<1>0. PICK d : d = OnDisk({ChildPath}, "dir")
  OBVIOUS
<1>a. PICK f : f = Listed(source, ChildPath)
  OBVIOUS
<1>b. PICK t : t = TopWithout
  OBVIOUS
<1>c. PICK c : c = ChildPath
  OBVIOUS
<1>1. /\ NextChild /\ ChildFault = NoFault /\ Child.kind = "dir"
      /\ count' = count + 1 /\ disk' = d /\ stack' = Below \o <<f, t>>
      /\ UNCHANGED <<source, limits, pos, index, explicit, total, rootSeen, writing, verdict>>
  BY <1>0, <1>a, <1>b DEF CopyDirectory, given
<1>2. /\ verdict = "working" /\ source.format = "directory" /\ writing = NoFile /\ count < limits.files
      /\ Len(stack) \in Nat \ {0} /\ DOMAIN stack = 1..Len(stack)
  BY <1>1, ChildFits
<1>3. /\ IsTree(d) /\ \A p \in DOMAIN d : d[p] \in {"file", "dir"}
      /\ FrameInv(t, d) /\ t.path = Top.path
      /\ \A n \in 1..(Len(stack) - 1) : FrameInv(stack[n], d)
      /\ FrameInv(f, d) /\ f.path = c
      /\ \A n \in 1..Len(stack) : stack[n].path # c
  <2>1. f.path = ChildPath
    BY <1>a DEF Listed
  <2> QED
    BY <1>0, <1>a, <1>b, <1>c, <1>1, <2>1, FrameGrows
<1>4. PICK l \in Nat : Len(stack) = l + 1
  <2>1. Len(stack) - 1 \in Nat /\ Len(stack) = (Len(stack) - 1) + 1
    BY <1>2
  <2> QED
    BY <2>1
<1>5. /\ IsSeq(stack) /\ Top = stack[l + 1]
      /\ \A m, n \in 1..(l + 1) : m # n => stack[m].path # stack[n].path
  BY <1>2, <1>4 DEF StagingInv, DirectoryInv, Top
<1> DEFINE S == {stack[n] : n \in 1..l} \cup {f, t}
<1>6. /\ IsSeq(stack') /\ Len(stack') = l + 2
      /\ \A n \in 1..l : stack'[n] = stack[n]
      /\ stack'[l + 1] = f /\ stack'[l + 2] = t
  <2>1. PICK b : b = Below
    OBVIOUS
  <2>2. b \in Seq(S) /\ Len(b) = l /\ \A n \in 1..l : b[n] = stack[n]
    <3>1. \A n \in 1..l : stack[n] \in S
      OBVIOUS
    <3> HIDE DEF S
    <3> QED
      BY <1>4, <1>5, <2>1, <3>1, BelowTop DEF Below
  <2>3. <<f, t>> \in Seq(S) /\ Len(<<f, t>>) = 2 /\ <<f, t>>[1] = f /\ <<f, t>>[2] = t
    OBVIOUS
  <2>4. PICK z : z = <<f, t>>
    OBVIOUS
  <2>5. stack' = b \o z
    BY <1>1, <2>1, <2>4
  <2> HIDE DEF S
  <2>6. stack' \in Seq(S) /\ Len(stack') = l + 2
            /\ \A n \in 1..(l + 2) : stack'[n] = IF n <= l THEN b[n] ELSE z[n - l]
    BY <2>2, <2>3, <2>4, <2>5, ConcatProperties
  <2>7. /\ \A n \in 1..l : n \in 1..(l + 2) /\ n <= l
        /\ l + 1 \in 1..(l + 2) /\ ~(l + 1 <= l) /\ (l + 1) - l = 1
        /\ l + 2 \in 1..(l + 2) /\ ~(l + 2 <= l) /\ (l + 2) - l = 2
    OBVIOUS
  <2>8. stack'[l + 1] = z[1] /\ stack'[l + 2] = z[2] /\ \A n \in 1..l : stack'[n] = b[n]
    BY <2>6, <2>7
  <2> QED
    BY <2>2, <2>3, <2>4, <2>6, <2>8, SeqIsSeq
<1>7. DOMAIN stack' = 1..(l + 2) /\ \A n \in 1..(l + 2) : n \in 1..l \/ n = l + 1 \/ n = l + 2
  BY <1>6, SeqParts
<1>8. DirectoryInv'
  <2>1. \A n \in 1..(l + 2) : FrameInv(stack'[n], d)
    <3>1. \A n \in 1..l : FrameInv(stack[n], d)
      BY <1>3, <1>4
    <3> QED
      BY <1>3, <1>6, <1>7, <3>1
  <2>2. ASSUME NEW m \in 1..(l + 2), NEW n \in 1..(l + 2), m # n PROVE stack'[m].path # stack'[n].path
    <3>1. \A k \in 1..l : stack'[k].path # c /\ stack'[k].path # t.path
      <4> TAKE k \in 1..l
      <4>1. k \in 1..(l + 1) /\ l + 1 \in 1..(l + 1) /\ k # l + 1
        OBVIOUS
      <4> QED
        BY <1>3, <1>4, <1>5, <1>6, <4>1
    <3>2. t.path # c
      <4>1. l + 1 \in 1..(l + 1)
        OBVIOUS
      <4> QED
        BY <1>3, <1>4, <1>5, <4>1
    <3>3. CASE m \in 1..l /\ n \in 1..l
      <4>1. m \in 1..(l + 1) /\ n \in 1..(l + 1)
        BY <3>3
      <4> QED
        BY <1>5, <1>6, <2>2, <3>3, <4>1
    <3>4. CASE ~(m \in 1..l /\ n \in 1..l)
      BY <1>3, <1>6, <1>7, <2>2, <3>1, <3>2, <3>4
    <3> QED
      BY <3>3, <3>4
  <2>3. \A n \in DOMAIN stack' : FrameInv(stack[n], disk)'
    BY <1>1, <1>7, <2>1
  <2>4. \A m, n \in DOMAIN stack' : m # n => stack'[m].path # stack'[n].path
    BY <1>7, <2>2
  <2> QED
    BY <1>6, <2>3, <2>4 DEF DirectoryInv
<1>9. StagingTypeOK'
  <2>1. count' \in 0..limits'.files
    BY <1>1, <1>2 DEF StagingInv, StagingTypeOK, SourceInv
  <2> QED
    BY <1>1, <1>2, <1>3, <2>1 DEF StagingInv, StagingTypeOK, Key
<1>10. SourceInv'
  BY <1>1, <1>2 DEF StagingInv, SourceInv, IsArchive
<1>11. ArchiveInv'
  BY <1>1, <1>2 DEF ArchiveInv, IsArchive
<1>12. IsTree(disk)'
  BY <1>1, <1>3
<1> QED
  BY <1>8, <1>9, <1>10, <1>11, <1>12 DEF StagingInv

\* A file is opened in the directory on top of the stack.
LEMMA CopyFileKeeps == ASSUME StagingInv, CopyFile PROVE StagingInv'
<1>0. PICK d : d = OnDisk({ChildPath}, "file")
  OBVIOUS
<1>b. PICK t : t = TopWithout
  OBVIOUS
<1>c. PICK c : c = ChildPath
  OBVIOUS
<1>w. PICK w : w = [path |-> c, left |-> Child.blocks, torn |-> FALSE]
  OBVIOUS
<1>1. /\ NextChild /\ ChildFault = NoFault /\ Child.kind = "file"
      /\ count' = count + 1 /\ disk' = d /\ stack' = Append(Below, t) /\ writing' = w
      /\ UNCHANGED <<source, limits, pos, index, explicit, total, rootSeen, verdict>>
  BY <1>0, <1>b, <1>c, <1>w DEF CopyFile, given
<1>2. /\ verdict = "working" /\ source.format = "directory" /\ writing = NoFile /\ count < limits.files
      /\ Len(stack) \in Nat \ {0} /\ DOMAIN stack = 1..Len(stack)
  BY <1>1, ChildFits
<1>3. /\ IsTree(d) /\ \A p \in DOMAIN d : d[p] \in {"file", "dir"}
      /\ FrameInv(t, d) /\ t.path = Top.path
      /\ \A n \in 1..(Len(stack) - 1) : FrameInv(stack[n], d)
      /\ c \in DOMAIN d /\ d[c] = "file"
  BY <1>0, <1>b, <1>c, <1>1, FrameGrows
<1>4. PICK l \in Nat : Len(stack) = l + 1
  <2>1. Len(stack) - 1 \in Nat /\ Len(stack) = (Len(stack) - 1) + 1
    BY <1>2
  <2> QED
    BY <2>1
<1>5. /\ IsSeq(stack) /\ Top = stack[l + 1]
      /\ \A m, n \in 1..(l + 1) : m # n => stack[m].path # stack[n].path
  BY <1>2, <1>4 DEF StagingInv, DirectoryInv, Top
<1> DEFINE S == {stack[n] : n \in 1..l} \cup {t}
<1>6. /\ IsSeq(stack') /\ Len(stack') = l + 1
      /\ \A n \in 1..l : stack'[n] = stack[n]
      /\ stack'[l + 1] = t
  <2>1. PICK b : b = Below
    OBVIOUS
  <2>2. b \in Seq(S) /\ Len(b) = l /\ \A n \in 1..l : b[n] = stack[n]
    <3>1. \A n \in 1..l : stack[n] \in S
      OBVIOUS
    <3> HIDE DEF S
    <3> QED
      BY <1>4, <1>5, <2>1, <3>1, BelowTop DEF Below
  <2>3. IsSeq(b)
    <3> HIDE DEF S
    <3> QED
      BY <2>2, SeqIsSeq
  <2> QED
    BY <1>1, <2>1, <2>2, <2>3, Longer
<1>7. DOMAIN stack' = 1..(l + 1) /\ \A n \in 1..(l + 1) : n \in 1..l \/ n = l + 1
  BY <1>6, SeqParts
<1>8. DirectoryInv'
  <2>1. \A n \in 1..(l + 1) : FrameInv(stack'[n], d)
    <3>1. \A n \in 1..l : FrameInv(stack[n], d)
      BY <1>3, <1>4
    <3> QED
      BY <1>3, <1>6, <1>7, <3>1
  <2>2. \A n \in 1..(l + 1) : stack'[n].path = stack[n].path
    BY <1>3, <1>5, <1>6, <1>7
  <2> QED
    BY <1>1, <1>5, <1>6, <1>7, <2>1, <2>2 DEF DirectoryInv
<1>n. w.path = c /\ w = [path |-> w.path, left |-> w.left, torn |-> w.torn]
  BY <1>w
<1>9. StagingTypeOK'
  <2>1. count' \in 0..limits'.files
    BY <1>1, <1>2 DEF StagingInv, StagingTypeOK, SourceInv
  <2> QED
    BY <1>1, <1>2, <1>3, <1>n, <2>1 DEF StagingInv, StagingTypeOK, Key
<1>10. SourceInv'
  BY <1>1, <1>2, <1>n DEF StagingInv, SourceInv, IsArchive
<1>11. ArchiveInv'
  BY <1>1, <1>2 DEF ArchiveInv, IsArchive
<1>12. IsTree(disk)'
  BY <1>1, <1>3
<1> QED
  BY <1>8, <1>9, <1>10, <1>11, <1>12 DEF StagingInv

\* A directory that has nothing left goes from the stack.
LEMMA NextDirectoryKeeps == ASSUME StagingInv, NextDirectory PROVE StagingInv'
<1>1. /\ verdict = "working" /\ source.format = "directory" /\ writing = NoFile /\ stack # <<>>
      /\ stack' = Below /\ verdict' \in {"accepted", "working"}
      /\ UNCHANGED <<source, limits, pos, index, explicit, disk, total, count, rootSeen, writing>>
  BY DEF NextDirectory, FromDirectory, given
<1>2. /\ IsSeq(stack) /\ \A n \in DOMAIN stack : FrameInv(stack[n], disk)
      /\ \A m, n \in DOMAIN stack : m # n => stack[m].path # stack[n].path
  BY <1>1 DEF StagingInv, DirectoryInv
<1>3. Len(stack) \in Nat /\ DOMAIN stack = 1..Len(stack) /\ Len(stack) # 0
  <2>1. Len(stack) \in Nat /\ DOMAIN stack = 1..Len(stack)
    BY <1>2, SeqParts
  <2>2. ASSUME Len(stack) = 0 PROVE FALSE
    BY <1>1, <1>2, <2>2, EmptySeq DEF IsSeq
  <2> QED
    BY <2>1, <2>2
<1>4. PICK l \in Nat : Len(stack) = l + 1
  <2>1. Len(stack) - 1 \in Nat /\ Len(stack) = (Len(stack) - 1) + 1
    BY <1>3
  <2> QED
    BY <2>1
<1> DEFINE S == {stack[n] : n \in 1..l}
<1>5. stack' \in Seq(S) /\ Len(stack') = l /\ \A n \in 1..l : stack'[n] = stack[n]
  <2>1. \A n \in 1..l : stack[n] \in S
    OBVIOUS
  <2> HIDE DEF S
  <2> QED
    BY <1>1, <1>2, <1>4, <2>1, BelowTop DEF Below
<1>6. IsSeq(stack') /\ DOMAIN stack' = 1..l /\ \A n \in 1..l : n \in DOMAIN stack
  <2> HIDE DEF S
  <2>1. IsSeq(stack') /\ DOMAIN stack' = 1..l
    BY <1>5, SeqIsSeq, SeqParts
  <2> QED
    BY <1>3, <1>4, <2>1
<1>7. DirectoryInv'
  BY <1>1, <1>2, <1>5, <1>6 DEF DirectoryInv
<1>8. StagingTypeOK'
  BY <1>1 DEF StagingInv, StagingTypeOK, Key
<1>9. SourceInv'
  BY <1>1 DEF StagingInv, SourceInv, IsArchive, NoFile
<1>10. IsTree(disk)' /\ ArchiveInv'
  BY <1>1 DEF StagingInv, ArchiveInv, IsArchive
<1> QED
  BY <1>7, <1>8, <1>9, <1>10 DEF StagingInv

\* Every step of staging keeps the invariant.
LEMMA StagingKeeps == ASSUME StagingInv, StagingNext PROVE StagingInv'
<1>1. CASE Copy
  BY <1>1, CopyKeeps
<1>2. CASE CopyFails
  <2>1. \E reason \in Reasons : Refuse(reason)
    BY <1>2 DEF CopyFails, Reasons
  <2> QED
    BY <2>1, RefuseKeeps
<1>3. CASE RefuseEntry
  <2>1. EntryFault \in Reasons /\ Refuse(EntryFault)
    BY <1>3, EntryChecks DEF RefuseEntry
  <2> QED
    BY <2>1, RefuseKeeps
<1>4. CASE SkipRoot
  BY <1>4, SkipRootKeeps
<1>5. CASE MakeDirectory
  BY <1>5, MakeDirectoryKeeps
<1>6. CASE OpenFile
  BY <1>6, OpenFileKeeps
<1>7. CASE CloseFile
  BY <1>7, CloseFileKeeps
<1>8. CASE Extracted
  BY <1>8, ExtractedKeeps
<1>9. CASE RefuseChild
  <2>1. ChildFault \in Reasons /\ Refuse(ChildFault)
    BY <1>9, ChildChecks DEF RefuseChild
  <2> QED
    BY <2>1, RefuseKeeps
<1>10. CASE CopyDirectory
  BY <1>10, CopyDirectoryKeeps
<1>11. CASE CopyFile
  BY <1>11, CopyFileKeeps
<1>12. CASE CloseCopy
  BY <1>12, CloseCopyKeeps
<1>13. CASE NextDirectory
  BY <1>13, NextDirectoryKeeps
<1> QED
  BY <1>1, <1>2, <1>3, <1>4, <1>5, <1>6, <1>7, <1>8, <1>9, <1>10, <1>11, <1>12, <1>13 DEF StagingNext

\* An entry that passes the checks of names is blocked by nothing on disk.
LEMMA NamesDecide ==
  ASSUME StagingInv, NextEntry, ~IsRoot, ~Collides(EntryPath, Entry.kind)
  PROVE  ~Blocked(EntryPath, Entry.kind)
<1> DEFINE e == EntryPath
<1>1. FromArchive /\ verdict = "working" /\ IsArchive /\ writing = NoFile
  BY DEF NextEntry, FromArchive, IsArchive
<1>2. /\ DOMAIN disk = IndexPaths
      /\ \A k \in DOMAIN index : disk[index[k].path] = index[k].kind
          /\ (index[k].kind = "file" => k \in explicit)
  BY <1>1 DEF StagingInv, ArchiveInv, Opened
<1>3. \A k \in DOMAIN index : index[k].kind \in {"file", "dir"} /\ Key(index[k].path) = k
  BY DEF StagingInv, StagingTypeOK
<1>4. ASSUME NEW p \in DOMAIN disk
      PROVE  /\ Indexed(p) /\ disk[p] = index[Key(p)].kind /\ disk[p] \in {"file", "dir"}
             /\ disk[p] = "file" => Key(p) \in explicit
  <2>1. PICK k \in DOMAIN index : index[k].path = p
    BY <1>2 DEF IndexPaths
  <2> QED
    BY <1>2, <1>3, <2>1 DEF Indexed
<1>5. ~Blocked(e, Entry.kind)
  <2>1. ASSUME NEW a \in Ancestors(e), a \in DOMAIN disk PROVE disk[a] = "dir"
    BY <1>4, <2>1 DEF Collides
  <2>2. ASSUME e \in DOMAIN disk PROVE Entry.kind # "file" /\ disk[e] = "dir"
    BY <1>4, <2>2 DEF Collides
  <2> QED
    BY <2>1, <2>2 DEF Blocked
<1> QED
  BY <1>5

-----------------------------------------------------------------------------
(* The entries that were taken *)

\* The entries of an archive up to the k-th that are not the root, and what they
\* leave in the staging directory: a key of its own for each, its path with its
\* kind, directories above it, and nothing else; and their number.
InnerTo(a, k) == {n \in 1..k : NameIn(a, n) # <<>>}
Follows(a, d, c, k) ==
  /\ \A m, n \in InnerTo(a, k) : Key(NameIn(a, m)) = Key(NameIn(a, n)) => m = n
  /\ DOMAIN d = PathsOf(a, InnerTo(a, k))
  /\ \A n \in InnerTo(a, k) : d[NameIn(a, n)] = a.entries[n].kind
  /\ \A p \in DOMAIN d : d[p] = "file" => \E n \in InnerTo(a, k) : p = NameIn(a, n)
  /\ c = Cardinality(InnerTo(a, k))
\* What was checked of the entry whose file is open: all but its data.
Writes(a, w, n) ==
  /\ n \in InnerOf(a) /\ w.path = NameIn(a, n) /\ a.entries[n].kind = "file"
  /\ w.torn <=> a.entries[n].flaw = "data"
  /\ ~w.torn => EntryIsSafe(a, n)
Taken == IF writing = NoFile THEN pos ELSE pos + 1
ProgressInv ==
  IsArchive /\ verdict \in {"working", "accepted"} =>
    /\ source.entries \in Seq(Entries) /\ pos \in 0..Len(source.entries)
    /\ \A n \in 1..pos : EntryIsSafe(source, n)
    /\ \A m, n \in 1..pos \ InnerTo(source, pos) : m = n
    /\ rootSeen <=> InnerTo(source, pos) # 1..pos
    /\ explicit = {Key(NameIn(source, n)) : n \in InnerTo(source, pos)}
    /\ Follows(source, disk, count, Taken)
    /\ writing # NoFile => Writes(source, writing, pos + 1)
    /\ verdict = "accepted" => pos = Len(source.entries) /\ writing = NoFile
\* An archive that was refused, but for its size, has an entry too many or one
\* that does not belong there.
RefusedInv ==
  source.format # "directory" =>
    /\ verdict \in {"working", "accepted"} => IsArchive
    /\ verdict \notin {"none", "working", "accepted", "too_large"} => ~EntriesAreSafe(source, limits)
EntriesInv == ProgressInv /\ RefusedInv

\* One entry more: it counts unless it is the root.
LEMMA InnerNext ==
  ASSUME NEW a, NEW k \in Nat
  PROVE  /\ InnerTo(a, k + 1) = IF NameIn(a, k + 1) = <<>> THEN InnerTo(a, k)
                                ELSE InnerTo(a, k) \cup {k + 1}
         /\ InnerTo(a, k) \subseteq 1..k /\ k + 1 \notin InnerTo(a, k)
         /\ IsFiniteSet(InnerTo(a, k)) /\ Cardinality(InnerTo(a, k)) \in Nat
         /\ Cardinality(InnerTo(a, k) \cup {k + 1}) = Cardinality(InnerTo(a, k)) + 1
<1>1. \A n : n \in 1..(k + 1) <=> n \in 1..k \/ n = k + 1
  OBVIOUS
<1>2. InnerTo(a, k + 1) = IF NameIn(a, k + 1) = <<>> THEN InnerTo(a, k)
                          ELSE InnerTo(a, k) \cup {k + 1}
  BY <1>1 DEF InnerTo
<1>3. InnerTo(a, k) \subseteq 1..k /\ k + 1 \notin InnerTo(a, k)
  BY DEF InnerTo
<1>4. IsFiniteSet(1..k)
  BY 1 \in Int, FS_Interval
<1>5. IsFiniteSet(InnerTo(a, k))
  BY <1>3, <1>4, FS_Subset
<1> QED
  BY <1>2, <1>3, <1>5, FS_CardinalityType, FS_AddElement

\* The root leaves nothing.
LEMMA FollowsRoot ==
  ASSUME NEW a, NEW d, NEW c, NEW k \in Nat, Follows(a, d, c, k), NameIn(a, k + 1) = <<>>
  PROVE  Follows(a, d, c, k + 1)
BY InnerNext DEF Follows

\* Another entry leaves its path, which has another key than those before it.
LEMMA FollowsEntry ==
  ASSUME NEW a, NEW d, NEW c, NEW k \in Nat, Follows(a, d, c, k),
         NEW e, e = NameIn(a, k + 1), e # <<>>, e \notin Ancestors(e),
         \A n \in InnerTo(a, k) : Key(NameIn(a, n)) # Key(e),
         NEW d2, DOMAIN d2 = DOMAIN d \cup Ancestors(e) \cup {e},
         \A p \in DOMAIN d : d2[p] = d[p],
         \A p \in Ancestors(e) : d2[p] = "dir", d2[e] = a.entries[k + 1].kind
  PROVE  Follows(a, d2, c + 1, k + 1)
<1>1. InnerTo(a, k + 1) = InnerTo(a, k) \cup {k + 1}
  BY InnerNext
<1>2. ASSUME NEW m \in InnerTo(a, k + 1), NEW n \in InnerTo(a, k + 1),
             Key(NameIn(a, m)) = Key(NameIn(a, n))
      PROVE  m = n
  BY <1>1, <1>2 DEF Follows
<1>3. DOMAIN d2 = PathsOf(a, InnerTo(a, k + 1))
  <2>1. PathsOf(a, InnerTo(a, k + 1)) = PathsOf(a, InnerTo(a, k)) \cup PathsTo(e)
    BY <1>1 DEF PathsOf
  <2> QED
    BY <2>1 DEF Follows, PathsTo
<1>4. ASSUME NEW n \in InnerTo(a, k + 1) PROVE d2[NameIn(a, n)] = a.entries[n].kind
  <2>1. CASE n \in InnerTo(a, k)
    <3>1. NameIn(a, n) \in DOMAIN d
      BY <2>1 DEF Follows, PathsOf, PathsTo
    <3> QED
      BY <2>1, <3>1 DEF Follows
  <2> QED
    BY <1>1, <2>1
<1>5. ASSUME NEW p \in DOMAIN d2, d2[p] = "file" PROVE \E n \in InnerTo(a, k + 1) : p = NameIn(a, n)
  <2>1. CASE p \in DOMAIN d
    BY <1>1, <1>5, <2>1 DEF Follows
  <2>2. CASE p = e
    BY <1>1, <2>2
  <2> QED
    BY <1>5, <2>1, <2>2
<1>6. c + 1 = Cardinality(InnerTo(a, k + 1))
  BY <1>1, InnerNext DEF Follows
<1> QED
  BY <1>2, <1>3, <1>4, <1>5, <1>6 DEF Follows

\* What is known when the checks of an entry begin.
LEMMA NextEntryIs ==
  ASSUME StagingInv, EntriesInv, NextEntry
  PROVE  /\ verdict = "working" /\ IsArchive /\ writing = NoFile /\ source.format # "directory"
         /\ source.entries \in Seq(Entries) /\ pos \in Nat /\ pos + 1 \in 1..Len(source.entries)
         /\ DOMAIN source.entries = 1..Len(source.entries)
         /\ Entry = source.entries[pos + 1] /\ Entry \in Entries
         /\ EntryPath = NameIn(source, pos + 1) /\ IsSeq(EntryPath) /\ (IsRoot <=> EntryPath = <<>>)
         /\ \A n \in 1..pos : EntryIsSafe(source, n)
         /\ \A m, n \in 1..pos \ InnerTo(source, pos) : m = n
         /\ rootSeen <=> InnerTo(source, pos) # 1..pos
         /\ explicit = {Key(NameIn(source, n)) : n \in InnerTo(source, pos)}
         /\ Follows(source, disk, count, pos)
<1>1. verdict = "working" /\ IsArchive /\ writing = NoFile /\ source.format # "directory"
      /\ pos < Len(source.entries)
  BY DEF NextEntry, FromArchive, IsArchive
<1>2. source.entries \in Seq(Entries) /\ pos \in 0..Len(source.entries)
  BY <1>1 DEF EntriesInv, ProgressInv
<1>3. pos \in Nat /\ pos + 1 \in 1..Len(source.entries)
          /\ DOMAIN source.entries = 1..Len(source.entries)
  BY <1>1, <1>2
<1> QED
  BY <1>1, <1>2, <1>3, EntryIsTyped DEF EntriesInv, ProgressInv, Taken, Entry, EntryPath, NameIn, IsRoot

\* An entry that passed its checks is safe, but for the data of a file.
LEMMA PassedIsSafe ==
  ASSUME StagingInv, EntriesInv, NextEntry, EntryFault = NoFault
  PROVE  /\ (Entry.kind = "file" => Entry.flaw # "data") => EntryIsSafe(source, pos + 1)
         /\ IsRoot => Entry.kind = "dir" /\ ~rootSeen
         /\ ~IsRoot => Entry.kind \in {"file", "dir"} /\ Key(EntryPath) \notin explicit
<1>1. /\ ~Unreadable(Entry) /\ ~BadName(Entry.name) /\ ~IsAbsolute(Entry.name) /\ ~HasDotdot(Entry.name)
      /\ \/ IsRoot /\ Entry.kind = "dir" /\ ~rootSeen
         \/ /\ ~IsRoot /\ Entry.kind \notin {"symlink", "hardlink", "device"}
            /\ ~Collides(EntryPath, Entry.kind)
  BY EntryChecks
<1>2. Entry = source.entries[pos + 1] /\ EntryPath = NameIn(source, pos + 1) /\ Entry.kind \in Kinds
      /\ (IsRoot <=> EntryPath = <<>>)
  BY NextEntryIs DEF Entries
<1>3. ~IsRoot => Key(EntryPath) \notin explicit
  BY <1>1 DEF Collides
<1>4. Entry.kind = "dir" \/ (Entry.kind = "file" /\ ~IsRoot)
  BY <1>1, <1>2 DEF Kinds
<1>5. Entry.flaw # "header" /\ (source.format = "zip" => Entry.flaw # "encrypted")
  BY <1>1 DEF Unreadable
<1> QED
  BY <1>1, <1>2, <1>3, <1>4, <1>5 DEF EntryIsSafe

\* After an entry that is not the root the roots are those from before.
LEMMA RootsKept ==
  ASSUME NEW a, NEW k \in Nat, NameIn(a, k + 1) # <<>>
  PROVE  /\ 1..(k + 1) \ InnerTo(a, k + 1) = 1..k \ InnerTo(a, k)
         /\ InnerTo(a, k + 1) # 1..(k + 1) <=> InnerTo(a, k) # 1..k
<1>1. \A n : n \in 1..(k + 1) <=> n \in 1..k \/ n = k + 1
  OBVIOUS
<1>2. k + 1 \notin 1..k
  OBVIOUS
<1>3. InnerTo(a, k + 1) = InnerTo(a, k) \cup {k + 1} /\ InnerTo(a, k) \subseteq 1..k
  BY InnerNext
<1> HIDE DEF InnerTo
<1> QED
  BY <1>1, <1>2, <1>3

LEMMA SkipRootFollows == ASSUME StagingInv, EntriesInv, SkipRoot PROVE EntriesInv'
<1>1. /\ NextEntry /\ EntryFault = NoFault /\ IsRoot
      /\ rootSeen' = TRUE /\ pos' = pos + 1
      /\ UNCHANGED <<source, limits, index, explicit, disk, count, writing, verdict>>
  BY DEF SkipRoot, given
<1>2. /\ verdict = "working" /\ writing = NoFile /\ pos \in Nat /\ pos + 1 \in 1..Len(source.entries)
      /\ source.entries \in Seq(Entries) /\ IsArchive
      /\ NameIn(source, pos + 1) = <<>> /\ (rootSeen <=> InnerTo(source, pos) # 1..pos)
      /\ explicit = {Key(NameIn(source, n)) : n \in InnerTo(source, pos)}
      /\ Follows(source, disk, count, pos) /\ \A n \in 1..pos : EntryIsSafe(source, n)
  BY <1>1, NextEntryIs
<1>3. EntryIsSafe(source, pos + 1) /\ ~rootSeen
  BY <1>1, PassedIsSafe
<1>4. InnerTo(source, pos + 1) = InnerTo(source, pos) /\ InnerTo(source, pos) = 1..pos
  BY <1>2, <1>3, InnerNext
<1>5. Follows(source, disk, count, pos + 1)
  BY <1>2, FollowsRoot
<1>6. \A n : n \in 1..(pos + 1) <=> n \in 1..pos \/ n = pos + 1
  BY <1>2
<1>7. pos + 1 \notin 1..pos
  BY <1>2
<1>8. \A m, n \in 1..(pos + 1) \ InnerTo(source, pos + 1) : m = n
  BY <1>4, <1>6
<1>9. InnerTo(source, pos + 1) # 1..(pos + 1)
  BY <1>4, <1>6, <1>7
<1>10. \A n \in 1..(pos + 1) : EntryIsSafe(source, n)
  BY <1>2, <1>3, <1>6
<1>11. Taken' = pos + 1 /\ pos' \in 0..Len(source.entries)
  BY <1>1, <1>2 DEF Taken
<1>12. ProgressInv'
  BY <1>1, <1>2, <1>4, <1>5, <1>8, <1>9, <1>10, <1>11 DEF ProgressInv
<1> QED
  BY <1>1, <1>2, <1>12 DEF EntriesInv, RefusedInv, IsArchive

\* An entry that is written grows the disk by its path.
LEMMA TakenFollows ==
  ASSUME StagingInv, EntriesInv, NextEntry, EntryFault = NoFault, ~IsRoot,
         NEW d, DOMAIN d = DOMAIN disk \cup Ancestors(EntryPath) \cup {EntryPath},
         \A p \in DOMAIN disk : d[p] = disk[p],
         \A p \in Ancestors(EntryPath) : d[p] = "dir", d[EntryPath] = Entry.kind
  PROVE  Follows(source, d, count + 1, pos + 1)
<1> DEFINE e == EntryPath
<1>1. /\ pos \in Nat /\ Follows(source, disk, count, pos) /\ e = NameIn(source, pos + 1)
      /\ e # <<>> /\ IsSeq(e) /\ Entry = source.entries[pos + 1]
      /\ explicit = {Key(NameIn(source, n)) : n \in InnerTo(source, pos)}
  BY NextEntryIs
<1>2. Key(e) \notin explicit
  BY PassedIsSafe
<1>3. \A n \in InnerTo(source, pos) : Key(NameIn(source, n)) # Key(e)
  BY <1>1, <1>2
<1>4. e \notin Ancestors(e)
  BY <1>1, NotItsAncestor
<1>5. d[e] = source.entries[pos + 1].kind /\ DOMAIN d = DOMAIN disk \cup Ancestors(e) \cup {e}
      /\ \A p \in Ancestors(e) : d[p] = "dir"
  BY <1>1
<1> HIDE DEF e
<1> QED
  BY <1>1, <1>3, <1>4, <1>5, FollowsEntry

LEMMA MakeDirectoryFollows == ASSUME StagingInv, EntriesInv, MakeDirectory PROVE EntriesInv'
<1> DEFINE e == EntryPath
           news == Ancestors(e) \cup {e}
<1>1. /\ NextEntry /\ EntryFault = NoFault /\ ~IsRoot /\ Entry.kind = "dir"
      /\ count' = count + 1 /\ pos' = pos + 1
      /\ disk' = OnDisk(news, "dir") /\ explicit' = explicit \cup {Key(e)}
      /\ UNCHANGED <<source, limits, rootSeen, writing, verdict>>
  BY DEF MakeDirectory, given, Add
<1>2. /\ verdict = "working" /\ writing = NoFile /\ pos \in Nat /\ pos + 1 \in 1..Len(source.entries)
      /\ source.entries \in Seq(Entries) /\ IsArchive
      /\ e = NameIn(source, pos + 1) /\ e # <<>> /\ (rootSeen <=> InnerTo(source, pos) # 1..pos)
      /\ explicit = {Key(NameIn(source, n)) : n \in InnerTo(source, pos)}
      /\ \A n \in 1..pos : EntryIsSafe(source, n)
      /\ \A m, n \in 1..pos \ InnerTo(source, pos) : m = n
  BY <1>1, NextEntryIs
<1>3. EntryIsSafe(source, pos + 1)
  BY <1>1, PassedIsSafe
<1>4. /\ \A a \in Ancestors(e) : a \in DOMAIN disk => disk[a] = "dir"
      /\ e \in DOMAIN disk => disk[e] = "dir"
  BY <1>1, EntryFits
<1>5. PICK d : d = disk'
  OBVIOUS
<1>6. /\ DOMAIN d = DOMAIN disk \cup Ancestors(e) \cup {e}
      /\ \A p \in DOMAIN disk : d[p] = disk[p]
      /\ \A q \in news : d[q] = "dir"
  BY <1>1, <1>4, <1>5 DEF OnDisk
<1>7. Follows(source, d, count + 1, pos + 1)
  BY <1>1, <1>6, TakenFollows
<1> HIDE DEF e
<1>8. InnerTo(source, pos + 1) = InnerTo(source, pos) \cup {pos + 1}
  BY <1>2, InnerNext
<1>9. explicit' = {Key(NameIn(source, n)) : n \in InnerTo(source, pos + 1)}
  BY <1>1, <1>2, <1>8
<1>10. \A n \in 1..(pos + 1) : EntryIsSafe(source, n)
  BY <1>2, <1>3
<1>11. Taken' = pos + 1 /\ pos' \in 0..Len(source.entries)
  BY <1>1, <1>2 DEF Taken
<1>12. /\ \A m, n \in 1..(pos + 1) \ InnerTo(source, pos + 1) : m = n
       /\ rootSeen <=> InnerTo(source, pos + 1) # 1..(pos + 1)
  BY <1>2, RootsKept
<1>13. ProgressInv'
  BY <1>1, <1>2, <1>5, <1>7, <1>9, <1>10, <1>11, <1>12 DEF ProgressInv
<1> QED
  BY <1>1, <1>2, <1>13 DEF EntriesInv, RefusedInv, IsArchive

LEMMA OpenFileFollows == ASSUME StagingInv, EntriesInv, OpenFile PROVE EntriesInv'
<1> DEFINE e == EntryPath
           news == Ancestors(e) \cup {e}
<1>0. PICK w : w = [path |-> e, left |-> Entry.blocks, torn |-> Entry.flaw = "data"]
  OBVIOUS
<1>1. /\ NextEntry /\ EntryFault = NoFault /\ ~IsRoot /\ Entry.kind = "file"
      /\ count' = count + 1 /\ writing' = w
      /\ disk' = [OnDisk(news, "dir") EXCEPT ![e] = "file"]
      /\ UNCHANGED <<source, limits, pos, explicit, rootSeen, verdict>>
  BY <1>0 DEF OpenFile, given
<1>2. /\ verdict = "working" /\ writing = NoFile /\ pos \in Nat /\ pos + 1 \in 1..Len(source.entries)
      /\ source.entries \in Seq(Entries) /\ IsArchive /\ IsSeq(e)
      /\ DOMAIN source.entries = 1..Len(source.entries) /\ Entry = source.entries[pos + 1]
      /\ e = NameIn(source, pos + 1) /\ e # <<>> /\ (rootSeen <=> InnerTo(source, pos) # 1..pos)
      /\ explicit = {Key(NameIn(source, n)) : n \in InnerTo(source, pos)}
      /\ \A n \in 1..pos : EntryIsSafe(source, n)
      /\ \A m, n \in 1..pos \ InnerTo(source, pos) : m = n
  BY <1>1, NextEntryIs
<1>3. Entry.flaw # "data" => EntryIsSafe(source, pos + 1)
  BY <1>1, PassedIsSafe
<1>4. \A a \in Ancestors(e) : a \in DOMAIN disk => disk[a] = "dir"
  BY <1>1, EntryFits
<1>e. e \notin DOMAIN disk
  BY <1>1, EntryFits
<1>n. e \notin Ancestors(e)
  BY <1>2, NotItsAncestor
<1>5. PICK d : d = disk'
  OBVIOUS
<1>6. /\ DOMAIN d = DOMAIN disk \cup Ancestors(e) \cup {e}
      /\ \A p \in DOMAIN disk : d[p] = disk[p]
      /\ \A q \in Ancestors(e) : d[q] = "dir"
      /\ d[e] = "file"
  BY <1>1, <1>4, <1>5, <1>e, <1>n DEF OnDisk
<1>7. Follows(source, d, count + 1, pos + 1)
  BY <1>1, <1>6, TakenFollows
<1>8. w.path = e /\ w # NoFile /\ (w.torn <=> Entry.flaw = "data")
  BY <1>0, <1>2 DEF NoFile
<1>9. Writes(source, w, pos + 1)
  BY <1>1, <1>2, <1>3, <1>8 DEF Writes, InnerOf
<1> HIDE DEF e
<1>10. Taken' = pos + 1 /\ pos' \in 0..Len(source.entries)
  BY <1>1, <1>2, <1>8 DEF Taken
<1>11. ProgressInv'
  BY <1>1, <1>2, <1>5, <1>7, <1>9, <1>10 DEF ProgressInv
<1> QED
  BY <1>1, <1>2, <1>11 DEF EntriesInv, RefusedInv, IsArchive

LEMMA CloseFileFollows == ASSUME StagingInv, EntriesInv, CloseFile PROVE EntriesInv'
<1>0. PICK e : e = writing.path
  OBVIOUS
<1>1. /\ writing # NoFile /\ source.format # "directory" /\ ~writing.torn
      /\ explicit' = explicit \cup {Key(e)} /\ writing' = NoFile /\ pos' = pos + 1
      /\ UNCHANGED <<source, limits, disk, count, rootSeen, verdict>>
  BY <1>0 DEF CloseFile, Copied, given, Add
<1>2. verdict = "working" /\ IsArchive
  BY <1>1 DEF StagingInv, SourceInv
<1>3. /\ source.entries \in Seq(Entries) /\ pos \in 0..Len(source.entries)
      /\ \A n \in 1..pos : EntryIsSafe(source, n)
      /\ \A m, n \in 1..pos \ InnerTo(source, pos) : m = n
      /\ rootSeen <=> InnerTo(source, pos) # 1..pos
      /\ explicit = {Key(NameIn(source, n)) : n \in InnerTo(source, pos)}
      /\ Follows(source, disk, count, pos + 1) /\ Writes(source, writing, pos + 1)
  BY <1>1, <1>2 DEF EntriesInv, ProgressInv, Taken
<1>4. /\ EntryIsSafe(source, pos + 1) /\ e = NameIn(source, pos + 1) /\ e # <<>> /\ pos \in Nat
      /\ pos + 1 \in 1..Len(source.entries)
  BY <1>0, <1>1, <1>3 DEF Writes, InnerOf
<1>5. InnerTo(source, pos + 1) = InnerTo(source, pos) \cup {pos + 1}
  BY <1>4, InnerNext
<1>6. explicit' = {Key(NameIn(source, n)) : n \in InnerTo(source, pos + 1)}
  BY <1>1, <1>3, <1>4, <1>5
<1>7. \A n \in 1..(pos + 1) : EntryIsSafe(source, n)
  BY <1>3, <1>4
<1>8. Taken' = pos + 1 /\ pos' \in 0..Len(source.entries)
  BY <1>1, <1>4 DEF Taken
<1>9. /\ \A m, n \in 1..(pos + 1) \ InnerTo(source, pos + 1) : m = n
      /\ rootSeen <=> InnerTo(source, pos + 1) # 1..(pos + 1)
  BY <1>3, <1>4, RootsKept
<1>10. ProgressInv'
  BY <1>1, <1>2, <1>3, <1>6, <1>7, <1>8, <1>9 DEF ProgressInv
<1> QED
  BY <1>1, <1>2, <1>10 DEF EntriesInv, RefusedInv, IsArchive

LEMMA CopyFollows == ASSUME StagingInv, EntriesInv, Copy PROVE EntriesInv'
<1>0. PICK w : w = writing
  OBVIOUS
<1>1. /\ w # NoFile /\ w.left > 0
      /\ writing' = [w EXCEPT !.left = @ - 1]
      /\ UNCHANGED <<source, limits, pos, explicit, disk, count, rootSeen, verdict>>
  BY <1>0 DEF Copy, given
<1>2. verdict = "working" /\ w = [path |-> w.path, left |-> w.left, torn |-> w.torn]
  BY <1>0, <1>1 DEF StagingInv, SourceInv
<1>3. writing'.path = w.path /\ writing'.torn = w.torn
  BY <1>1, <1>2
<1>4. CASE IsArchive
  <2>1. Writes(source, w, pos + 1) /\ Taken = pos + 1
    BY <1>0, <1>1, <1>2, <1>4 DEF EntriesInv, ProgressInv, Taken
  <2>2. writing'.path # <<>>
    BY <1>3, <2>1 DEF Writes, InnerOf
  <2>3. writing' # NoFile
    BY <2>2 DEF NoFile
  <2>4. Taken' = Taken
    BY <1>1, <2>1, <2>3 DEF Taken
  <2>5. Writes(source, writing', pos + 1)
    BY <1>3, <2>1 DEF Writes
  <2>6. ProgressInv'
    BY <1>1, <1>2, <1>4, <2>4, <2>5 DEF EntriesInv, ProgressInv, IsArchive
  <2> QED
    BY <1>1, <1>2, <1>4, <2>6 DEF EntriesInv, RefusedInv, IsArchive
<1>5. CASE ~IsArchive
  BY <1>1, <1>2, <1>5 DEF EntriesInv, ProgressInv, RefusedInv, IsArchive
<1> QED
  BY <1>4, <1>5

LEMMA ExtractedFollows == ASSUME StagingInv, EntriesInv, Extracted PROVE EntriesInv'
<1>1. /\ FromArchive /\ pos = Len(source.entries) /\ verdict' = "accepted"
      /\ UNCHANGED <<source, limits, pos, explicit, disk, count, rootSeen, writing>>
  BY DEF Extracted, given
<1>2. verdict = "working" /\ IsArchive /\ writing = NoFile
  BY <1>1 DEF FromArchive, IsArchive
<1>3. Taken' = Taken
  BY <1>1 DEF Taken
<1> QED
  BY <1>1, <1>2, <1>3 DEF EntriesInv, ProgressInv, RefusedInv, IsArchive

\* The entries of a sequence are those up to its end.
LEMMA InnerIsInner ==
  ASSUME NEW a, a.entries \in Seq(Entries)
  PROVE  InnerOf(a) = InnerTo(a, Len(a.entries)) /\ DOMAIN a.entries = 1..Len(a.entries)
         /\ \A k \in 0..Len(a.entries) : InnerTo(a, k) \subseteq InnerOf(a)
BY DEF InnerOf, InnerTo

\* In a safe archive no entry is in the way of another.
LEMMA SafeDoesNotCollide ==
  ASSUME StagingInv, EntriesInv, NextEntry, ~IsRoot, EntriesAreSafe(source, limits)
  PROVE  ~Collides(EntryPath, Entry.kind)
<1> DEFINE e == EntryPath
           all == PathsOf(source, InnerOf(source))
<1>1. /\ pos \in Nat /\ pos + 1 \in 1..Len(source.entries) /\ source.entries \in Seq(Entries)
      /\ verdict = "working" /\ IsArchive /\ writing = NoFile
      /\ Entry = source.entries[pos + 1] /\ e = NameIn(source, pos + 1) /\ e # <<>>
      /\ explicit = {Key(NameIn(source, n)) : n \in InnerTo(source, pos)}
      /\ Follows(source, disk, count, pos)
  BY NextEntryIs
<1>2. pos + 1 \in InnerOf(source) /\ InnerTo(source, pos) \subseteq InnerOf(source)
      /\ pos + 1 \notin InnerTo(source, pos)
  <2>1. DOMAIN source.entries = 1..Len(source.entries) /\ pos \in 0..Len(source.entries)
    BY <1>1
  <2>2. InnerTo(source, pos) \subseteq InnerOf(source)
    BY <1>1, <2>1, InnerIsInner
  <2>3. pos + 1 \notin InnerTo(source, pos)
    BY <1>1, InnerNext
  <2> QED
    BY <1>1, <2>1, <2>2, <2>3 DEF InnerOf
<1>3. /\ \A m, n \in InnerOf(source) : Key(NameIn(source, m)) = Key(NameIn(source, n)) => m = n
      /\ \A p, q \in all : Key(p) = Key(q) => p = q
      /\ \A m \in FilesOf(source), n \in InnerOf(source) : NameIn(source,
          m) \notin Ancestors(NameIn(source, n))
  BY DEF EntriesAreSafe
<1>4. Key(e) \notin explicit
  BY <1>1, <1>2, <1>3
<1>5. DOMAIN disk \subseteq all /\ Ancestors(e) \cup {e} \subseteq all
  BY <1>1, <1>2 DEF Follows, PathsOf, PathsTo
<1>6. ASSUME NEW q \in Ancestors(e) \cup {e}, Indexed(q)
      PROVE  /\ index[Key(q)].path = q /\ q \in DOMAIN disk
             /\ disk[q] = index[Key(q)].kind
  <2>1. DOMAIN disk = IndexPaths /\ \A k \in DOMAIN index : disk[index[k].path] = index[k].kind
    BY <1>1 DEF StagingInv, ArchiveInv, Opened
  <2>2. index[Key(q)].path \in DOMAIN disk /\ Key(index[Key(q)].path) = Key(q)
    BY <1>6, <2>1 DEF Indexed, IndexPaths, StagingInv, StagingTypeOK
  <2>3. index[Key(q)].path = q
    BY <1>3, <1>5, <2>2
  <2> QED
    BY <1>6, <2>1, <2>2, <2>3 DEF Indexed
<1>7. ASSUME Indexed(e), Entry.kind = "file" PROVE index[Key(e)].kind # "dir"
  <2>1. e \in DOMAIN disk
    BY <1>6, <1>7
  <2>2. PICK n \in InnerTo(source, pos) : e \in PathsTo(NameIn(source, n))
    BY <1>1, <2>1 DEF Follows, PathsOf
  <2>3. pos + 1 \in FilesOf(source)
    BY <1>1, <1>2, <1>7 DEF FilesOf
  <2>4. e \notin Ancestors(NameIn(source, n))
    BY <1>1, <1>2, <1>3, <2>3
  <2>5. e = NameIn(source, n)
    BY <2>2, <2>4 DEF PathsTo
  <2> QED
    BY <1>1, <1>4, <2>5
<1>8. ASSUME NEW a \in Ancestors(e), Indexed(a) PROVE index[Key(a)].kind # "file"
  <2>1. SUFFICES ASSUME disk[a] = "file" PROVE FALSE
    BY <1>6, <1>8
  <2>2. PICK n \in InnerTo(source, pos) : a = NameIn(source, n)
    BY <1>1, <1>6, <1>8, <2>1 DEF Follows
  <2>3. n \in FilesOf(source)
    BY <1>1, <1>2, <2>1, <2>2 DEF Follows, FilesOf
  <2> QED
    BY <1>1, <1>2, <1>3, <1>8, <2>2, <2>3
<1> QED
  BY <1>4, <1>6, <1>7, <1>8 DEF Collides

\* No entry of a safe archive is refused.
LEMMA SafeIsNotRefused ==
  ASSUME StagingInv, EntriesInv, NextEntry, EntriesAreSafe(source, limits)
  PROVE  EntryFault = NoFault
<1>1. /\ pos \in Nat /\ pos + 1 \in 1..Len(source.entries) /\ source.entries \in Seq(Entries)
      /\ DOMAIN source.entries = 1..Len(source.entries)
      /\ Entry = source.entries[pos + 1] /\ EntryPath = NameIn(source, pos + 1)
      /\ (IsRoot <=> EntryPath = <<>>) /\ (rootSeen <=> InnerTo(source, pos) # 1..pos)
      /\ Follows(source, disk, count, pos)
  BY NextEntryIs
<1>2. EntryIsSafe(source, pos + 1)
  BY <1>1 DEF EntriesAreSafe
<1>3. ~Unreadable(Entry) /\ ~BadName(Entry.name) /\ ~IsAbsolute(Entry.name) /\ ~HasDotdot(Entry.name)
      /\ (Entry.kind = "dir" \/ (Entry.kind = "file" /\ ~IsRoot))
  BY <1>1, <1>2 DEF EntryIsSafe, Unreadable
<1>4. CASE IsRoot
  <2>1. ~rootSeen
    <3> SUFFICES ASSUME rootSeen PROVE FALSE
      OBVIOUS
    <3>1. PICK n \in 1..pos : n \notin InnerTo(source, pos)
      BY <1>1, InnerNext
    <3>2. n \in DOMAIN source.entries \ InnerOf(source) /\ n # pos + 1
      BY <1>1, <3>1 DEF InnerTo, InnerOf
    <3>3. pos + 1 \in DOMAIN source.entries \ InnerOf(source)
      BY <1>1, <1>4 DEF InnerOf
    <3> QED
      BY <3>2, <3>3 DEF EntriesAreSafe
  <2> QED
    BY <1>3, <1>4, <2>1, EntryChecks
<1>5. CASE ~IsRoot
  <2>1. ~Collides(EntryPath, Entry.kind)
    BY <1>5, SafeDoesNotCollide
  <2>2. ~Blocked(EntryPath, Entry.kind)
    BY <1>5, <2>1, NamesDecide
  <2>3. ~(count >= limits.files)
    <3>1. Cardinality(InnerTo(source, pos + 1)) = count + 1 /\ count \in Nat
      BY <1>1, <1>5, InnerNext DEF Follows
    <3>l. Len(source.entries) \in Nat /\ pos + 1 \in 0..Len(source.entries)
      BY <1>1
    <3>i. InnerOf(source) = InnerTo(source, Len(source.entries))
          /\ InnerTo(source, pos + 1) \subseteq InnerOf(source)
      BY <1>1, <3>l, InnerIsInner
    <3>f. \A k \in Nat : IsFiniteSet(InnerTo(source, k))
      BY InnerNext
    <3>2. InnerTo(source, pos + 1) \subseteq InnerOf(source) /\ IsFiniteSet(InnerOf(source))
      BY <3>l, <3>i, <3>f
    <3>3. Cardinality(InnerTo(source, pos + 1)) <= Cardinality(InnerOf(source))
          /\ Cardinality(InnerOf(source)) \in Nat
      BY <3>2, FS_Subset, FS_CardinalityType
    <3>4. Cardinality(InnerOf(source)) <= limits.files /\ limits.files \in Nat
      BY DEF EntriesAreSafe, StagingInv, SourceInv
    <3> QED
      BY <3>1, <3>3, <3>4
  <2> QED
    BY <1>3, <1>5, <2>1, <2>2, <2>3, EntryChecks
<1> QED
  BY <1>4, <1>5

LEMMA RefuseEntryFollows == ASSUME StagingInv, EntriesInv, RefuseEntry PROVE EntriesInv'
<1>1. /\ NextEntry /\ EntryFault # NoFault /\ verdict' = EntryFault
      /\ UNCHANGED <<source, limits>>
  BY DEF RefuseEntry, Refuse, given
<1>2. ~EntriesAreSafe(source, limits)
  BY <1>1, SafeIsNotRefused
<1>3. EntryFault \in Reasons
  BY <1>1, EntryChecks
<1>4. verdict' \notin {"working", "accepted"}
  BY <1>1, <1>3 DEF Reasons
<1> QED
  BY <1>1, <1>2, <1>4 DEF EntriesInv, ProgressInv, RefusedInv

LEMMA CopyFailsFollows == ASSUME StagingInv, EntriesInv, CopyFails PROVE EntriesInv'
<1>1. /\ writing # NoFile /\ UNCHANGED <<source, limits>>
      /\ verdict' = "too_large" \/ (verdict' = "unknown_format" /\ writing.torn)
  BY DEF CopyFails, Refuse, given
<1>2. verdict = "working"
  BY <1>1 DEF StagingInv, SourceInv
<1>3. ASSUME verdict' = "unknown_format", source.format # "directory"
      PROVE  ~EntriesAreSafe(source, limits)
  <2>1. Writes(source, writing, pos + 1) /\ writing.torn
    BY <1>1, <1>2, <1>3 DEF EntriesInv, ProgressInv, RefusedInv
  <2> QED
    BY <2>1 DEF Writes, InnerOf, EntriesAreSafe, EntryIsSafe
<1> QED
  BY <1>1, <1>3 DEF EntriesInv, ProgressInv, RefusedInv

\* Every step of staging follows the entries.
LEMMA StagingFollows == ASSUME StagingInv, EntriesInv, StagingNext PROVE EntriesInv'
<1>1. CASE RefuseChild \/ CopyDirectory \/ CopyFile \/ CloseCopy \/ NextDirectory
  <2>1. source.format = "directory" /\ source' = source
    BY <1>1 DEF RefuseChild, CopyDirectory, CopyFile, CloseCopy, NextDirectory, NextChild,
        FromDirectory,
                Refuse, given
  <2> QED
    BY <2>1 DEF EntriesInv, ProgressInv, RefusedInv, IsArchive
<1> QED
  BY <1>1, CopyFollows, CopyFailsFollows, RefuseEntryFollows, SkipRootFollows, MakeDirectoryFollows,
     OpenFileFollows, CloseFileFollows, ExtractedFollows DEF StagingNext

\* An archive that was accepted is safe, but for the sum of its blocks, and is what is on disk.
LEMMA AcceptedIsSafe ==
  ASSUME StagingInv, EntriesInv, verdict = "accepted", source.format # "directory"
  PROVE  /\ EntriesAreSafe(source, limits) /\ source.entries \in Seq(Entries)
         /\ Follows(source, disk, count, Len(source.entries))
<1>1. /\ IsArchive /\ source.entries \in Seq(Entries) /\ pos = Len(source.entries) /\ writing = NoFile
      /\ \A n \in 1..pos : EntryIsSafe(source, n)
      /\ \A m, n \in 1..pos \ InnerTo(source, pos) : m = n
      /\ Follows(source, disk, count, pos)
  BY DEF EntriesInv, ProgressInv, RefusedInv, Taken
<1>2. InnerOf(source) = InnerTo(source, pos) /\ DOMAIN source.entries = 1..pos
  BY <1>1, InnerIsInner
<1>3. PathsOf(source, InnerOf(source)) = DOMAIN disk
  BY <1>1, <1>2 DEF Follows
<1>4. ASSUME NEW m \in FilesOf(source), NEW n \in InnerOf(source)
      PROVE  NameIn(source, m) \notin Ancestors(NameIn(source, n))
  <2>1. NameIn(source, n) \in DOMAIN disk
    BY <1>3 DEF PathsOf, PathsTo
  <2>2. disk[NameIn(source, m)] = "file"
    BY <1>1, <1>2, <1>4 DEF Follows, FilesOf
  <2> QED
    BY <2>1, <2>2 DEF StagingInv, IsTree
<1>5. Cardinality(InnerOf(source)) <= limits.files
  BY <1>1, <1>2 DEF Follows, StagingInv, StagingTypeOK
<1>6. \A p, q \in PathsOf(source, InnerOf(source)) : Key(p) = Key(q) => p = q
  BY <1>3 DEF StagingInv, IsTree
<1>7. \A m, n \in InnerOf(source) : Key(NameIn(source, m)) = Key(NameIn(source, n)) => m = n
  BY <1>1, <1>2 DEF Follows
<1> QED
  BY <1>1, <1>2, <1>4, <1>5, <1>6, <1>7 DEF EntriesAreSafe, IsArchive

\* The image of a finite set is finite.
LEMMA ImageIsFinite ==
  ASSUME NEW S, IsFiniteSet(S), NEW f, DOMAIN f = S
  PROVE  IsFiniteSet({f[x] : x \in S})
<1> DEFINE T == {f[x] : x \in S}
           g == [x \in S |-> f[x]]
<1>1. g \in [S -> T] /\ \A t \in T : \E x \in S : g[x] = t
  OBVIOUS
<1>2. g \in Surjection(S, T)
  BY <1>1 DEF Surjection
<1> HIDE DEF g, T
<1>3. IsFiniteSet(T)
  BY <1>2, FS_Surjection
<1> QED
  BY <1>3 DEF T

\* An archive leaves finitely many paths.
LEMMA PathsAreFinite ==
  ASSUME NEW a, a.entries \in Seq(Entries)
  PROVE  IsFiniteSet(InnerOf(a)) /\ IsFiniteSet(PathsOf(a, InnerOf(a)))
<1>1. DOMAIN a.entries = 1..Len(a.entries) /\ Len(a.entries) \in Nat
  OBVIOUS
<1>2. IsFiniteSet(InnerOf(a))
  <2>1. IsFiniteSet(1..Len(a.entries))
    BY <1>1, 1 \in Int, Len(a.entries) \in Int, FS_Interval
  <2> QED
    BY <1>1, <2>1, FS_Subset DEF InnerOf
<1>3. ASSUME NEW n \in InnerOf(a) PROVE IsFiniteSet(PathsTo(NameIn(a, n)))
  <2> DEFINE p == NameIn(a, n)
             l == Len(p) - 1
             f == [i \in 1..l |-> SubSeq(p, 1, i)]
  <2>1. a.entries[n].name \in Seq(STRING)
    <3>1. n \in DOMAIN a.entries
      BY DEF InnerOf
    <3>2. a.entries[n] \in Entries
      BY <3>1
    <3> QED
      BY <3>2 DEF Entries
  <2>2. IsSeq(p) /\ Len(p) \in Nat
    BY <2>1, NormalizedIsSeq, SeqParts DEF NameIn
  <2> HIDE DEF p
  <2>3. IsFiniteSet(1..l)
    BY <2>2, 1 \in Int, l \in Int, FS_Interval
  <2>4. IsFiniteSet({f[i] : i \in 1..l})
    BY <2>3, ImageIsFinite
  <2>5. Ancestors(p) = {f[i] : i \in 1..l}
    BY DEF Ancestors
  <2> QED
    BY <2>4, <2>5, FS_AddElement DEF PathsTo, p
<1> DEFINE g == [n \in InnerOf(a) |-> PathsTo(NameIn(a, n))]
           G == {g[n] : n \in InnerOf(a)}
<1>4. IsFiniteSet(G)
  BY <1>2, ImageIsFinite
<1>5. \A T \in G : IsFiniteSet(T)
  BY <1>3
<1>6. PathsOf(a, InnerOf(a)) = UNION G
  BY DEF PathsOf
<1> HIDE DEF G
<1> QED
  BY <1>2, <1>4, <1>5, <1>6, FS_UNION

\* A safe archive does not declare too many entries: it has one more than files and
\* directories at most.
LEMMA SafeDeclaresEnough ==
  ASSUME NEW a, NEW l, l.files \in Nat, a.format \in {"zip", "tar"} => a.entries \in Seq(Entries),
         EntriesAreSafe(a, l)
  PROVE  ~DeclaresTooMany(a, l)
<1> DEFINE N == Len(a.entries)
           c == Cardinality(InnerOf(a))
<1>1. a.entries \in Seq(Entries) /\ N \in Nat /\ DOMAIN a.entries = 1..N /\ InnerOf(a) \subseteq 1..N
  BY DEF EntriesAreSafe, InnerOf
<1>2. IsFiniteSet(InnerOf(a)) /\ c \in Nat /\ c <= l.files
  BY <1>1, PathsAreFinite, FS_CardinalityType DEF EntriesAreSafe
<1>3. Cardinality(1..N) = N
  BY <1>1, 1 \in Int, FS_Interval
<1>4. N <= c + 1
  <2>1. CASE 1..N = InnerOf(a)
    BY <1>1, <1>2, <1>3, <2>1
  <2>2. CASE 1..N # InnerOf(a)
    <3>1. PICK x \in 1..N : x \notin InnerOf(a)
      BY <1>1, <2>2
    <3>2. 1..N = InnerOf(a) \cup {x}
      BY <1>1, <3>1 DEF EntriesAreSafe
    <3>3. Cardinality(InnerOf(a) \cup {x}) = c + 1
      BY <1>2, <3>1, FS_AddElement
    <3>4. N = c + 1
      BY <1>3, <3>2, <3>3
    <3> HIDE DEF N, c
    <3> QED
      BY <1>1, <1>2, <3>4
  <2> QED
    BY <2>1, <2>2
<1>5. Declared(a) \in {0, N}
  BY DEF Declared
<1> HIDE DEF N, c
<1> QED
  BY <1>1, <1>2, <1>4, <1>5 DEF DeclaresTooMany

\* Nothing has been taken of an archive that begins.
LEMMA StageArchiveFollows ==
  ASSUME StagingInv, NEW a, NEW l, StageArchive(a, l), l.files \in Nat,
         a.format \in {"zip", "tar"} => a.entries \in Seq(Entries)
  PROVE  EntriesInv'
<1> DEFINE p1 == a.format \notin {"zip", "tar"}
           p2 == DeclaresTooMany(a, l)
           c == << <<p1, "unknown_format">>, <<p2, "too_many_files">>, <<TRUE, "working">> >>
<1>1. /\ verdict = "none" /\ source' = a /\ limits' = l /\ verdict' = First(c)
      /\ UNCHANGED <<pos, stack, index, explicit, disk, total, count, rootSeen, writing>>
  BY DEF StageArchive
<1> HIDE DEF p1, p2
<1>2. /\ DOMAIN c = 1..3 /\ 3 \in Nat /\ (c[1][1] <=> p1) /\ (c[2][1] <=> p2) /\ c[3][1]
      /\ c[1][2] = "unknown_format" /\ c[2][2] = "too_many_files" /\ c[3][2] = "working"
  OBVIOUS
<1> HIDE DEF c
<1>3. \/ First(c) = NoFault /\ \A n \in 1..3 : ~c[n][1]
      \/ \E n \in 1..3 : /\ c[n][1] /\ First(c) = c[n][2]
                         /\ \A m \in 1..3 : c[m][1] => n <= m
  BY <1>2, FirstIsLeast
<1>4. \/ verdict' = "working" /\ ~p1
      \/ verdict' = "unknown_format" /\ p1
      \/ verdict' = "too_many_files" /\ p2
  BY <1>1, <1>2, <1>3
<1>5. verdict' = "unknown_format" => ~EntriesAreSafe(a, l)
  BY <1>4 DEF EntriesAreSafe, p1
<1>6. verdict' = "too_many_files" => ~EntriesAreSafe(a, l)
  BY <1>4, SafeDeclaresEnough DEF p2
<1>7. RefusedInv'
  BY <1>1, <1>4, <1>5, <1>6 DEF RefusedInv, IsArchive, p1
<1>8. ASSUME verdict' = "working", IsArchive'
      PROVE  ProgressInv'
  <2>1. /\ pos' = 0 /\ explicit' = {} /\ disk' = <<>> /\ count' = 0 /\ rootSeen' = FALSE
        /\ writing' = NoFile
    BY <1>1 DEF StagingInv, SourceInv, Unstarted
  <2>2. a.entries \in Seq(Entries) /\ 0 \in 0..Len(a.entries)
    BY <1>1, <1>8 DEF IsArchive
  <2>3. InnerTo(a, 0) = {} /\ 1..0 = {}
    BY DEF InnerTo
  <2>4. Follows(a, <<>>, 0, 0)
    <3>1. DOMAIN <<>> = {} /\ PathsOf(a, {}) = {} /\ Cardinality({}) = 0
      BY FS_EmptySet DEF PathsOf
    <3> QED
      BY <2>3, <3>1 DEF Follows
  <2>5. Taken' = 0
    BY <2>1 DEF Taken
  <2> QED
    BY <1>1, <1>8, <2>1, <2>2, <2>3, <2>4, <2>5 DEF ProgressInv
<1>9. verdict' \in {"working", "accepted"} => verdict' = "working"
  BY <1>4
<1> QED
  BY <1>7, <1>8, <1>9 DEF EntriesInv, ProgressInv

-----------------------------------------------------------------------------
(* The blocks of an archive *)

\* The blocks of the files among the entries up to the k-th; of the file that is
\* open all of them, those that are left to read too.
Weights(a) == [n \in DOMAIN a.entries |-> a.entries[n].blocks]
FilesTo(a, k) == {n \in InnerTo(a, k) : a.entries[n].kind = "file"}
BlocksTo(a, k) == SumFunctionOnSet(Weights(a), FilesTo(a, k))
BlocksInv ==
  /\ IsArchive /\ verdict \in {"working", "accepted"} =>
       writing.left \in Nat /\ total + writing.left = BlocksTo(source, Taken)
  /\ source.format # "directory" /\ verdict = "too_large" => ~ArchiveIsSafe(source, limits)

\* The files up to an entry, and their sizes.
LEMMA FilesToAre ==
  ASSUME NEW a, a.entries \in Seq(Entries), NEW k \in 0..Len(a.entries)
  PROVE  /\ FilesTo(a, k) \subseteq FilesOf(a) /\ FilesTo(a, Len(a.entries)) = FilesOf(a)
         /\ IsFiniteSet(FilesOf(a)) /\ IsFiniteSet(FilesTo(a, k))
         /\ \A n \in FilesOf(a) : Weights(a)[n] = a.entries[n].blocks /\ Weights(a)[n] \in Nat
         /\ \A n \in FilesTo(a, k) : Weights(a)[n] \in Nat
<1>1. InnerOf(a) = InnerTo(a, Len(a.entries)) /\ InnerTo(a, k) \subseteq InnerOf(a)
      /\ DOMAIN a.entries = 1..Len(a.entries)
  BY InnerIsInner
<1>2. FilesTo(a, k) \subseteq FilesOf(a) /\ FilesTo(a, Len(a.entries)) = FilesOf(a)
  BY <1>1 DEF FilesTo, FilesOf
<1>3. IsFiniteSet(FilesOf(a))
  BY PathsAreFinite, FS_Subset DEF FilesOf
<1>4. ASSUME NEW n \in FilesOf(a) PROVE Weights(a)[n] = a.entries[n].blocks /\ Weights(a)[n] \in Nat
  <2>1. n \in DOMAIN a.entries
    BY DEF FilesOf, InnerOf
  <2>2. a.entries[n] \in Entries
    BY <2>1
  <2> QED
    BY <2>1, <2>2 DEF Weights, Entries
<1> QED
  BY <1>2, <1>3, <1>4, FS_Subset

\* The blocks of a safe archive are those of the entries to its last.
LEMMA BlocksAreTo ==
  ASSUME NEW a, a.entries \in Seq(Entries)
  PROVE  SumFunction([n \in FilesOf(a) |-> a.entries[n].blocks]) = BlocksTo(a, Len(a.entries))
<1> DEFINE w == [n \in FilesOf(a) |-> a.entries[n].blocks]
<1>1. Len(a.entries) \in 0..Len(a.entries)
  OBVIOUS
<1>2. FilesTo(a, Len(a.entries)) = FilesOf(a) /\ IsFiniteSet(FilesOf(a))
      /\ \A n \in FilesOf(a) : Weights(a)[n] = a.entries[n].blocks
  BY <1>1, FilesToAre
<1>3. \A n \in FilesOf(a) : w[n] = Weights(a)[n]
  BY <1>2
<1>4. SumFunction(w) = SumFunctionOnSet(w, FilesOf(a))
  BY DEF SumFunction
<1>5. SumFunctionOnSet(w, FilesOf(a)) = SumFunctionOnSet(Weights(a), FilesOf(a))
  <2> HIDE DEF w
  <2> QED
    BY <1>2, <1>3, SumOfSame
<1> QED
  BY <1>2, <1>4, <1>5 DEF BlocksTo

\* With the next entry the blocks are more by its own, if it is a file.
LEMMA BlocksNext ==
  ASSUME NEW a, a.entries \in Seq(Entries), NEW k \in Nat, k + 1 \in 1..Len(a.entries)
  PROVE  /\ NameIn(a, k + 1) = <<>> \/ a.entries[k + 1].kind # "file" => BlocksTo(a, k + 1) = BlocksTo(a, k)
         /\ NameIn(a, k + 1) # <<>> /\ a.entries[k + 1].kind = "file" =>
              BlocksTo(a, k + 1) = BlocksTo(a, k) + a.entries[k + 1].blocks
         /\ BlocksTo(a, k) \in Nat /\ a.entries[k + 1].blocks \in Nat
<1>0. k \in 0..Len(a.entries) /\ k + 1 \in 0..Len(a.entries) /\ k + 1 \in DOMAIN a.entries
  OBVIOUS
<1>b. a.entries[k + 1].blocks \in Nat
  <2>1. a.entries[k + 1] \in Entries
    BY <1>0
  <2> QED
    BY <2>1 DEF Entries
<1>1. /\ InnerTo(a, k + 1) = IF NameIn(a, k + 1) = <<>> THEN InnerTo(a, k) ELSE InnerTo(a, k) \cup {k + 1}
      /\ k + 1 \notin InnerTo(a, k)
  BY InnerNext
<1>2. IsFiniteSet(FilesTo(a, k)) /\ \A n \in FilesTo(a, k) : Weights(a)[n] \in Nat
  BY <1>0, FilesToAre
<1>3. BlocksTo(a, k) \in Nat
  BY <1>2, SumWithout DEF BlocksTo
<1>4. ASSUME NameIn(a, k + 1) = <<>> \/ a.entries[k + 1].kind # "file" PROVE BlocksTo(a, k + 1) = BlocksTo(a, k)
  <2>1. FilesTo(a, k + 1) = FilesTo(a, k)
    BY <1>1, <1>4 DEF FilesTo
  <2> QED
    BY <2>1 DEF BlocksTo
<1>5. ASSUME NameIn(a, k + 1) # <<>>, a.entries[k + 1].kind = "file"
      PROVE  BlocksTo(a, k + 1) = BlocksTo(a, k) + a.entries[k + 1].blocks
  <2>1. FilesTo(a, k + 1) = FilesTo(a, k) \cup {k + 1} /\ k + 1 \notin FilesTo(a, k)
    BY <1>1, <1>5 DEF FilesTo
  <2>2. Weights(a)[k + 1] = a.entries[k + 1].blocks
    BY <1>0 DEF Weights
  <2>3. \A n \in FilesTo(a, k) \cup {k + 1} : Weights(a)[n] \in Nat
    BY <1>b, <1>2, <2>2
  <2>4. SumFunctionOnSet(Weights(a), FilesTo(a, k) \cup {k + 1})
          = SumFunctionOnSet(Weights(a), FilesTo(a, k)) + Weights(a)[k + 1]
    BY <1>2, <2>1, <2>3, SumOneMore
  <2> QED
    BY <2>1, <2>2, <2>4 DEF BlocksTo
<1> QED
  BY <1>b, <1>3, <1>4, <1>5

\* The entries of an archive do not become fewer.
LEMMA BlocksUpTo ==
  ASSUME NEW a, a.entries \in Seq(Entries), NEW k \in 0..Len(a.entries)
  PROVE  BlocksTo(a, k) <= BlocksTo(a, Len(a.entries)) /\ BlocksTo(a, k) \in Nat
         /\ BlocksTo(a, Len(a.entries)) \in Nat
<1>1. /\ FilesTo(a, k) \subseteq FilesOf(a) /\ FilesTo(a, Len(a.entries)) = FilesOf(a)
      /\ IsFiniteSet(FilesOf(a)) /\ IsFiniteSet(FilesTo(a, k)) /\ \A n \in FilesOf(a) : Weights(a)[n] \in Nat
      /\ \A n \in FilesTo(a, k) : Weights(a)[n] \in Nat
  BY FilesToAre
<1>2. SumFunctionOnSet(Weights(a), FilesTo(a, k)) <= SumFunctionOnSet(Weights(a), FilesOf(a))
  BY <1>1, SumOfSubset
<1>3. SumFunctionOnSet(Weights(a), FilesOf(a)) \in Nat /\ SumFunctionOnSet(Weights(a), FilesTo(a, k)) \in Nat
  BY <1>1, SumWithout
<1> QED
  BY <1>1, <1>2, <1>3 DEF BlocksTo

\* What the staging of an archive knows between its steps.
LEMMA ArchiveIsTyped ==
  ASSUME StagingInv, EntriesInv, IsArchive, verdict = "working"
  PROVE  /\ source.entries \in Seq(Entries) /\ pos \in Nat /\ Taken \in 0..Len(source.entries)
         /\ total \in 0..limits.blocks /\ limits.blocks \in Nat
         /\ writing = NoFile => Taken = pos
         /\ writing # NoFile => Taken = pos + 1
<1>1. source.entries \in Seq(Entries) /\ pos \in 0..Len(source.entries)
      /\ (writing # NoFile => Writes(source, writing, pos + 1))
  BY DEF EntriesInv, ProgressInv
<1>2. writing # NoFile => pos + 1 \in 1..Len(source.entries)
  BY <1>1 DEF Writes, InnerOf
<1> QED
  BY <1>1, <1>2 DEF Taken, StagingInv, StagingTypeOK, SourceInv

\* A file that is open has a path.
LEMMA OpenHasPath ==
  ASSUME StagingInv, EntriesInv, IsArchive, verdict = "working", writing # NoFile
  PROVE  writing.path # <<>> /\ Taken = pos + 1
  BY DEF EntriesInv, ProgressInv, Writes, InnerOf, Taken

LEMMA CopyCounts == ASSUME StagingInv, EntriesInv, BlocksInv, Copy, IsArchive PROVE BlocksInv'
<1>1. /\ writing # NoFile /\ writing.left > 0 /\ writing' = [writing EXCEPT !.left = @ - 1]
      /\ total' = total + 1 /\ UNCHANGED <<source, limits, pos, verdict>>
  BY DEF Copy, given
<1>2. verdict = "working" /\ writing = [path |-> writing.path, left |-> writing.left, torn |-> writing.torn]
  BY <1>1 DEF StagingInv, SourceInv
<1>3. writing.left \in Nat /\ total + writing.left = BlocksTo(source, Taken) /\ total \in Nat
  BY <1>2, ArchiveIsTyped DEF BlocksInv
<1>4. writing.path # <<>> /\ Taken = pos + 1
  BY <1>1, <1>2, OpenHasPath
<1>5. writing'.left = writing.left - 1 /\ writing'.path = writing.path
  BY <1>1, <1>2
<1>6. writing' # NoFile
  BY <1>4, <1>5 DEF NoFile
<1>7. Taken' = Taken
  BY <1>1, <1>4, <1>6 DEF Taken
<1>8. writing'.left \in Nat /\ total' + writing'.left = total + writing.left
  BY <1>1, <1>3, <1>5
<1> QED
  BY <1>1, <1>2, <1>3, <1>7, <1>8 DEF BlocksInv

LEMMA CopyFailsCounts == ASSUME StagingInv, EntriesInv, BlocksInv, CopyFails, IsArchive PROVE BlocksInv'
<1>1. /\ writing # NoFile /\ UNCHANGED <<source, limits>>
      /\ \/ OverBudget /\ verdict' = "too_large"
         \/ verdict' = "unknown_format"
  BY DEF CopyFails, Refuse, given
<1>2. verdict = "working"
  BY <1>1 DEF StagingInv, SourceInv
<1>3. /\ source.entries \in Seq(Entries) /\ Taken \in 0..Len(source.entries)
      /\ total \in Nat /\ limits.blocks \in Nat
  BY <1>2, ArchiveIsTyped
<1>4. writing.left \in Nat /\ total + writing.left = BlocksTo(source, Taken)
  BY <1>2 DEF BlocksInv
<1>5. ASSUME OverBudget PROVE ~ArchiveIsSafe(source, limits)
  <2>1. total + writing.left > limits.blocks
    BY <1>3, <1>4, <1>5 DEF OverBudget
  <2>2. BlocksTo(source, Taken) <= BlocksTo(source, Len(source.entries)) /\ BlocksTo(source, Taken) \in Nat
        /\ BlocksTo(source, Len(source.entries)) \in Nat
    BY <1>3, BlocksUpTo
  <2>3. ~(BlocksTo(source, Len(source.entries)) <= limits.blocks)
    BY <1>3, <1>4, <2>1, <2>2
  <2> QED
    BY <1>3, <2>3, BlocksAreTo DEF ArchiveIsSafe
<1> QED
  BY <1>1, <1>5 DEF BlocksInv

LEMMA RefuseEntryCounts == ASSUME StagingInv, EntriesInv, BlocksInv, RefuseEntry PROVE BlocksInv'
<1>1. /\ NextEntry /\ EntryFault # NoFault /\ verdict' = EntryFault /\ UNCHANGED <<source, limits>>
  BY DEF RefuseEntry, Refuse, given
<1>2. ~EntriesAreSafe(source, limits)
  BY <1>1, SafeIsNotRefused
<1>3. verdict' \notin {"working", "accepted"}
  BY <1>1, EntryChecks DEF Reasons
<1> QED
  BY <1>1, <1>2, <1>3 DEF BlocksInv, ArchiveIsSafe

LEMMA EntryCounts ==
  ASSUME StagingInv, EntriesInv, BlocksInv, SkipRoot \/ MakeDirectory \/ OpenFile
  PROVE  BlocksInv'
<1>1. /\ NextEntry /\ UNCHANGED <<source, limits, total, verdict>>
  BY DEF SkipRoot, MakeDirectory, OpenFile, given
<1>2. /\ verdict = "working" /\ IsArchive /\ writing = NoFile /\ source.entries \in Seq(Entries)
      /\ pos \in Nat /\ pos + 1 \in 1..Len(source.entries)
      /\ Entry = source.entries[pos + 1] /\ EntryPath = NameIn(source, pos + 1)
      /\ (IsRoot <=> EntryPath = <<>>)
  BY <1>1, NextEntryIs
<1>3. writing.left = 0
  BY <1>2 DEF NoFile
<1>t. total \in Nat
  BY <1>2, ArchiveIsTyped
<1>4. total = BlocksTo(source, pos)
  BY <1>2, <1>3, <1>t DEF BlocksInv, Taken
<1> DEFINE k == pos + 1
<1>5. /\ NameIn(source, k) = <<>> \/ source.entries[k].kind # "file" => BlocksTo(source, k) = BlocksTo(source, pos)
      /\ NameIn(source, k) # <<>> /\ source.entries[k].kind = "file" =>
           BlocksTo(source, k) = BlocksTo(source, pos) + source.entries[k].blocks
      /\ source.entries[k].blocks \in Nat
  BY <1>2, BlocksNext
<1> HIDE DEF k
<1>6. CASE SkipRoot \/ MakeDirectory
  <2>1. pos' = k /\ writing' = NoFile /\ (IsRoot \/ Entry.kind = "dir")
    BY <1>2, <1>6 DEF SkipRoot, MakeDirectory, k
  <2>2. Taken' = k /\ writing'.left = 0
    BY <2>1 DEF Taken, NoFile
  <2>3. BlocksTo(source, k) = BlocksTo(source, pos)
    BY <1>2, <1>5, <2>1 DEF k
  <2>4. writing'.left \in Nat /\ total' + writing'.left = BlocksTo(source', Taken')
    BY <1>1, <1>t, <1>4, <2>2, <2>3
  <2> QED
    BY <1>1, <1>2, <2>4 DEF BlocksInv
<1>7. CASE OpenFile
  <2>1. ~IsRoot /\ Entry.kind = "file" /\ UNCHANGED pos
        /\ writing' = [path |-> EntryPath, left |-> Entry.blocks, torn |-> Entry.flaw = "data"]
    BY <1>7 DEF OpenFile
  <2>2. writing'.left = source.entries[k].blocks /\ writing'.path # <<>>
    BY <1>2, <2>1 DEF k
  <2>3. writing' # NoFile
    BY <2>2 DEF NoFile
  <2>4. Taken' = k
    BY <2>1, <2>3 DEF Taken, k
  <2>5. BlocksTo(source, k) = BlocksTo(source, pos) + source.entries[k].blocks
    BY <1>2, <1>5, <2>1 DEF k
  <2>6. writing'.left \in Nat /\ total' + writing'.left = BlocksTo(source', Taken')
    BY <1>1, <1>4, <1>5, <2>2, <2>4, <2>5
  <2> QED
    BY <1>1, <1>2, <2>6 DEF BlocksInv
<1> QED
  BY <1>6, <1>7

LEMMA CloseFileCounts == ASSUME StagingInv, EntriesInv, BlocksInv, CloseFile PROVE BlocksInv'
<1>1. /\ writing # NoFile /\ writing.left = 0 /\ source.format # "directory"
      /\ writing' = NoFile /\ pos' = pos + 1 /\ UNCHANGED <<source, limits, total, verdict>>
  BY DEF CloseFile, Copied, given
<1>2. verdict = "working" /\ IsArchive
  BY <1>1 DEF StagingInv, SourceInv
<1>3. Taken = pos + 1 /\ Taken' = pos + 1 /\ writing'.left = 0
  BY <1>1 DEF Taken, NoFile
<1> QED
  BY <1>1, <1>2, <1>3 DEF BlocksInv, IsArchive

LEMMA ExtractedCounts == ASSUME StagingInv, EntriesInv, BlocksInv, Extracted PROVE BlocksInv'
<1>1. /\ FromArchive /\ verdict' = "accepted" /\ UNCHANGED <<source, limits, pos, total, writing>>
  BY DEF Extracted, given
<1>2. verdict = "working" /\ IsArchive /\ Taken' = Taken
  BY <1>1 DEF FromArchive, IsArchive, Taken
<1> QED
  BY <1>1, <1>2 DEF BlocksInv, IsArchive

\* Every step of staging counts the blocks.
LEMMA StagingCounts == ASSUME StagingInv, EntriesInv, BlocksInv, StagingNext PROVE BlocksInv'
<1>1. CASE RefuseChild \/ CopyDirectory \/ CopyFile \/ CloseCopy \/ NextDirectory
  <2>1. source.format = "directory" /\ source' = source
    BY <1>1 DEF RefuseChild, CopyDirectory, CopyFile, CloseCopy, NextDirectory, NextChild, FromDirectory,
                Refuse, given
  <2> QED
    BY <2>1 DEF BlocksInv, IsArchive
<1>2. CASE (Copy \/ CopyFails) /\ ~IsArchive
  <2>1. UNCHANGED source /\ verdict = "working"
    BY <1>2 DEF Copy, CopyFails, Refuse, given, StagingInv, SourceInv
  <2>2. source.format = "directory"
    BY <1>2, <2>1 DEF StagingInv, SourceInv
  <2> QED
    BY <2>1, <2>2 DEF BlocksInv, IsArchive
<1> QED
  BY <1>1, <1>2, CopyCounts, CopyFailsCounts, RefuseEntryCounts, EntryCounts, CloseFileCounts, ExtractedCounts
     DEF StagingNext

\* An archive that begins has no blocks yet.
LEMMA StageArchiveCounts ==
  ASSUME StagingInv, NEW a, NEW l, StageArchive(a, l)
  PROVE  BlocksInv'
<1> DEFINE p1 == a.format \notin {"zip", "tar"}
           p2 == DeclaresTooMany(a, l)
           c == << <<p1, "unknown_format">>, <<p2, "too_many_files">>, <<TRUE, "working">> >>
<1>1. verdict = "none" /\ source' = a /\ verdict' = First(c)
      /\ UNCHANGED <<pos, stack, index, explicit, disk, total, count, rootSeen, writing>>
  BY DEF StageArchive
<1> HIDE DEF p1, p2
<1>2. /\ DOMAIN c = 1..3 /\ 3 \in Nat /\ c[3][1]
      /\ c[1][2] = "unknown_format" /\ c[2][2] = "too_many_files" /\ c[3][2] = "working"
  OBVIOUS
<1> HIDE DEF c
<1>3. \/ First(c) = NoFault /\ \A n \in 1..3 : ~c[n][1]
      \/ \E n \in 1..3 : /\ c[n][1] /\ First(c) = c[n][2]
                         /\ \A m \in 1..3 : c[m][1] => n <= m
  BY <1>2, FirstIsLeast
<1>4. verdict' # "too_large"
  BY <1>1, <1>2, <1>3
<1>5. total' = 0 /\ pos' = 0 /\ writing' = NoFile
  BY <1>1 DEF StagingInv, SourceInv, Unstarted
<1>6. writing'.left = 0 /\ Taken' = 0
  BY <1>5 DEF NoFile, Taken
<1>7. BlocksTo(a, 0) = 0
  <2>1. FilesTo(a, 0) = {}
    BY DEF FilesTo, InnerTo
  <2> QED
    BY <2>1, SumOfNone DEF BlocksTo
<1> QED
  BY <1>1, <1>4, <1>5, <1>6, <1>7 DEF BlocksInv

\* The verdict on an archive is of the archive as a whole.
LEMMA ArchiveVerdictIs ==
  ASSUME StagingInv, EntriesInv, BlocksInv, source.format # "directory", verdict \notin {"none", "working"}
  PROVE  (verdict = "accepted") <=> ArchiveIsSafe(source, limits)
<1>1. ASSUME verdict = "accepted" PROVE ArchiveIsSafe(source, limits)
  <2>1. EntriesAreSafe(source, limits) /\ source.entries \in Seq(Entries)
    BY <1>1, AcceptedIsSafe
  <2>2. IsArchive /\ pos = Len(source.entries) /\ writing = NoFile
    BY <1>1 DEF EntriesInv, ProgressInv, RefusedInv
  <2>3. writing.left = 0 /\ Taken = Len(source.entries) /\ total \in 0..limits.blocks /\ limits.blocks \in Nat
    BY <2>2 DEF NoFile, Taken, StagingInv, StagingTypeOK, SourceInv
  <2>4. total = BlocksTo(source, Len(source.entries))
    BY <1>1, <2>2, <2>3 DEF BlocksInv
  <2> QED
    BY <2>1, <2>3, <2>4, BlocksAreTo DEF ArchiveIsSafe
<1>2. ASSUME verdict # "accepted" PROVE ~ArchiveIsSafe(source, limits)
  BY <1>2 DEF BlocksInv, EntriesInv, RefusedInv, ArchiveIsSafe
<1> QED
  BY <1>1, <1>2

-----------------------------------------------------------------------------
(* The items of a directory *)

\* The directories that were entered, and the items that are done: those of a
\* directory on the stack up to what it has left, and all of the others'.
Entered(d) == {<<>>} \cup {p \in DOMAIN d : d[p] = "dir"}
ItemsOf(tree) == {ItemAt(tree, x) : x \in Places(tree)}
DoneOf(tree, f) == Len(tree.listing[f.path]) - Len(f.left)
Done(tree, fs, d) ==
  {x \in Places(tree) : x[1] \in Entered(d) /\ \A f \in fs : f.path = x[1] => x[2] <= DoneOf(tree, f)}
\* The keys of the names of a directory that are done.
KeysDone(tree, fs, d, path) == {Key(<<ItemAt(tree, y).name>>) : y \in {z \in Done(tree, fs, d) : z[1] = path}}
\* What a directory of the stack has left is the rest of what is listed, and it
\* has seen the names before.
Rest(tree, f) ==
  /\ f = [path |-> f.path, left |-> f.left, seen |-> f.seen]
  /\ f.path \in DOMAIN tree.listing /\ f.left \in Seq(ItemsOf(tree)) /\ DoneOf(tree, f) \in Nat
  /\ \A i \in 1..Len(f.left) : f.left[i] = tree.listing[f.path][DoneOf(tree, f) + i]
  /\ f.seen = {Key(<<tree.listing[f.path][i].name>>) : i \in 1..DoneOf(tree, f)}
\* The items that are done are files and directories with names of their own, and
\* nothing else is on disk; and their number.
Walk(tree, fs, d, c) ==
  /\ Entered(d) \subseteq DOMAIN tree.listing
  /\ \A f \in fs : Rest(tree, f) /\ f.path \in Entered(d)
  /\ \A f, g \in fs : f.path = g.path => f = g
  /\ \A x \in Done(tree, fs, d) :
       /\ ItemAt(tree, x).name \notin Unwritable /\ ItemAt(tree, x).kind \in {"file", "dir"}
       /\ PathAt(tree, x) \in DOMAIN d /\ d[PathAt(tree, x)] = ItemAt(tree, x).kind
  /\ \A x, y \in Done(tree, fs, d) :
       x[1] = y[1] /\ Key(<<ItemAt(tree, x).name>>) = Key(<<ItemAt(tree, y).name>>) => x = y
  /\ \A p \in DOMAIN d : \E x \in Done(tree, fs, d) : p = PathAt(tree, x)
  /\ c = Cardinality(Done(tree, fs, d))

\* What a directory lists is a sequence of the items of the tree.
LEMMA ListedAre ==
  ASSUME NEW tree, IsTreeOfItems(tree)
  PROVE  /\ \A d \in DOMAIN tree.listing : /\ IsSeq(d) /\ tree.listing[d] \in Seq(ItemsOf(tree))
                                          /\ Len(tree.listing[d]) \in Nat
                                          /\ DOMAIN tree.listing[d] = 1..Len(tree.listing[d])
         /\ \A e \in ItemsOf(tree) : e.kind \in Kinds /\ e.blocks \in Nat
<1>1. ASSUME NEW d \in DOMAIN tree.listing
      PROVE  /\ IsSeq(d) /\ tree.listing[d] \in Seq(ItemsOf(tree))
             /\ Len(tree.listing[d]) \in Nat /\ DOMAIN tree.listing[d] = 1..Len(tree.listing[d])
  <2>1. IsSeq(d) /\ IsSeq(tree.listing[d])
    BY DEF IsTreeOfItems
  <2>2. PICK s : s = tree.listing[d]
    OBVIOUS
  <2>3. \A n \in DOMAIN s : s[n] \in ItemsOf(tree)
    <3> SUFFICES ASSUME NEW n \in DOMAIN s PROVE s[n] \in ItemsOf(tree)
      OBVIOUS
    <3>1. <<d, n>> \in Places(tree) /\ ItemAt(tree, <<d, n>>) = s[n]
      BY <2>2 DEF Places, ItemAt
    <3> QED
      BY <3>1 DEF ItemsOf
  <2>4. s \in Seq({s[n] : n \in DOMAIN s})
    BY <2>1, <2>2 DEF IsSeq
  <2>5. DOMAIN s = 1..Len(s) /\ Len(s) \in Nat /\ s = [n \in 1..Len(s) |-> s[n]]
    BY <2>4
  <2>6. s \in [1..Len(s) -> ItemsOf(tree)]
    BY ONLY <2>3, <2>5
  <2>7. s \in Seq(ItemsOf(tree))
    BY ONLY <2>5, <2>6
  <2> QED
    BY <2>1, <2>2, <2>5, <2>7
<1>2. \A e \in ItemsOf(tree) : e.kind \in Kinds /\ e.blocks \in Nat
  BY DEF IsTreeOfItems, ItemsOf
<1> QED
  BY <1>1, <1>2

\* Where the items of a tree are.
LEMMA PlaceParts ==
  ASSUME NEW tree, IsTreeOfItems(tree), NEW x
  PROVE  /\ x \in Places(tree) => /\ x[1] \in DOMAIN tree.listing /\ x[2] \in 1..Len(tree.listing[x[1]])
                                  /\ x = <<x[1], x[2]>> /\ ItemAt(tree, x) \in ItemsOf(tree)
                                  /\ IsSeq(x[1])
         /\ \A d \in DOMAIN tree.listing : \A n \in 1..Len(tree.listing[d]) :
              <<d, n>> \in Places(tree) /\ ItemAt(tree, <<d, n>>) = tree.listing[d][n]
         /\ \A d \in DOMAIN tree.listing : Len(tree.listing[d]) \in Nat
<1>1. \A d \in DOMAIN tree.listing : /\ IsSeq(d) /\ tree.listing[d] \in Seq(ItemsOf(tree))
                                     /\ Len(tree.listing[d]) \in Nat
                                     /\ DOMAIN tree.listing[d] = 1..Len(tree.listing[d])
  BY ListedAre
<1>2. ASSUME x \in Places(tree)
      PROVE  /\ x[1] \in DOMAIN tree.listing /\ x[2] \in 1..Len(tree.listing[x[1]])
             /\ x = <<x[1], x[2]>> /\ ItemAt(tree, x) \in ItemsOf(tree)
             /\ IsSeq(x[1])
  <2>1. PICK d \in DOMAIN tree.listing : \E n \in DOMAIN tree.listing[d] : x = <<d, n>>
    BY <1>2 DEF Places
  <2>2. PICK n \in DOMAIN tree.listing[d] : x = <<d, n>>
    BY <2>1
  <2>3. x[1] = d /\ x[2] = n
    BY <2>2
  <2>4. ItemAt(tree, x) \in ItemsOf(tree)
    BY <1>2 DEF ItemsOf
  <2> QED
    BY <1>1, <2>2, <2>3, <2>4
<1>3. ASSUME NEW d \in DOMAIN tree.listing, NEW n \in 1..Len(tree.listing[d])
      PROVE  <<d, n>> \in Places(tree) /\ ItemAt(tree, <<d, n>>) = tree.listing[d][n]
  BY <1>1 DEF Places, ItemAt
<1> QED
  BY <1>1, <1>2, <1>3

\* There are finitely many of them.
LEMMA PlacesAreFinite ==
  ASSUME NEW tree, IsTreeOfItems(tree)
  PROVE  IsFiniteSet(Places(tree))
<1> DEFINE At(d) == {<<d, n>> : n \in DOMAIN tree.listing[d]}
           g == [d \in DOMAIN tree.listing |-> At(d)]
           G == {g[d] : d \in DOMAIN tree.listing}
<1>1. ASSUME NEW d \in DOMAIN tree.listing PROVE IsFiniteSet(At(d))
  <2> DEFINE s == tree.listing[d]
             f == [n \in 1..Len(s) |-> <<d, n>>]
  <2>1. DOMAIN s = 1..Len(s) /\ Len(s) \in Nat
    BY ListedAre
  <2>2. IsFiniteSet(1..Len(s))
    BY <2>1, 1 \in Int, Len(s) \in Int, FS_Interval
  <2>3. IsFiniteSet({f[n] : n \in 1..Len(s)})
    BY <2>2, ImageIsFinite
  <2>4. At(d) = {f[n] : n \in 1..Len(s)}
    BY <2>1
  <2> QED
    BY <2>3, <2>4
<1>2. IsFiniteSet(G)
  <2>1. IsFiniteSet(DOMAIN tree.listing)
    BY DEF IsTreeOfItems
  <2> HIDE DEF At
  <2> QED
    BY <2>1, ImageIsFinite
<1>3. \A T \in G : IsFiniteSet(T)
  BY <1>1
<1>4. Places(tree) = UNION G
  BY DEF Places
<1> HIDE DEF G
<1> QED
  BY <1>2, <1>3, <1>4, FS_UNION

\* The items that are done are finitely many.
LEMMA DoneIsFinite ==
  ASSUME NEW tree, IsTreeOfItems(tree), NEW fs, NEW d
  PROVE  /\ Done(tree, fs, d) \subseteq Places(tree) /\ IsFiniteSet(Done(tree, fs, d))
         /\ Cardinality(Done(tree, fs, d)) \in Nat
<1>1. Done(tree, fs, d) \subseteq Places(tree)
  BY DEF Done
<1> QED
  BY <1>1, PlacesAreFinite, FS_Subset, FS_CardinalityType

\* The next item of a directory on the stack: where it is, and that it is not done.
LEMMA NextItem ==
  ASSUME NEW tree, IsTreeOfItems(tree), NEW fs, NEW d, NEW c, Walk(tree, fs, d, c), NEW f \in fs, f.left # <<>>,
         NEW x, x = <<f.path, DoneOf(tree, f) + 1>>
  PROVE  /\ x \in Places(tree) /\ ItemAt(tree, x) = f.left[1] /\ ItemAt(tree, x) \in ItemsOf(tree)
         /\ x \notin Done(tree, fs, d) /\ PathAt(tree, x) = Append(f.path, f.left[1].name)
         /\ f.seen = KeysDone(tree, fs, d, f.path)
         /\ Len(f.left) > 0 /\ Len(f.left) \in Nat /\ DoneOf(tree, f) \in Nat
<1> DEFINE k == DoneOf(tree, f)
           L == tree.listing[f.path]
<1>1. /\ f.path \in DOMAIN tree.listing /\ f.left \in Seq(ItemsOf(tree)) /\ k \in Nat
      /\ \A i \in 1..Len(f.left) : f.left[i] = L[k + i]
      /\ f.seen = {Key(<<L[i].name>>) : i \in 1..k}
      /\ f.path \in Entered(d)
  BY DEF Walk, Rest
<1>2. Len(f.left) > 0 /\ Len(f.left) \in Nat
  BY <1>1, EmptySeq
<1>3. k = Len(L) - Len(f.left) /\ Len(L) \in Nat
  BY <1>1, PlaceParts DEF DoneOf
<1>4. k + 1 \in 1..Len(L) /\ 1..k \subseteq 1..Len(L)
  <2>1. PICK l, m, j : l = Len(L) /\ m = Len(f.left) /\ j = k
    OBVIOUS
  <2>2. l \in Nat /\ m \in Nat /\ m > 0 /\ j \in Nat /\ j = l - m
    BY <1>1, <1>2, <1>3, <2>1
  <2>3. j + 1 \in 1..l /\ 1..j \subseteq 1..l
    BY ONLY <2>2
  <2> HIDE DEF k, L
  <2> QED
    BY ONLY <2>1, <2>3
<1>5. x \in Places(tree) /\ ItemAt(tree, x) = L[k + 1]
  BY <1>1, <1>4, PlaceParts
<1>6. f.left[1] = L[k + 1]
  BY <1>1, <1>2
<1>7. x \notin Done(tree, fs, d)
  BY <1>1 DEF Done
<1>8. ItemAt(tree, x) \in ItemsOf(tree)
  BY <1>5, PlaceParts
<1>9. f.seen = KeysDone(tree, fs, d, f.path)
  <2> DEFINE Y == {z \in Done(tree, fs, d) : z[1] = f.path}
  <2>1. ASSUME NEW i \in 1..k PROVE <<f.path, i>> \in Y /\ ItemAt(tree, <<f.path, i>>) = L[i]
    <3>1. <<f.path, i>> \in Places(tree) /\ ItemAt(tree, <<f.path, i>>) = L[i]
      BY <1>1, <1>4, PlaceParts
    <3>2. \A g \in fs : g.path = f.path => g = f
      BY DEF Walk
    <3> QED
      BY <1>1, <3>1, <3>2 DEF Done
  <2>2. ASSUME NEW y \in Y PROVE y[2] \in 1..k /\ ItemAt(tree, y) = L[y[2]]
    <3>1. y \in Places(tree) /\ y[1] = f.path /\ y[2] <= k
      BY DEF Done
    <3>2. y[2] \in 1..Len(L)
      BY <3>1, PlaceParts
    <3> QED
      BY <1>1, <3>1, <3>2 DEF ItemAt
  <2>3. ASSUME NEW s \in f.seen PROVE \E y \in Y : s = Key(<<ItemAt(tree, y).name>>)
    <3>1. PICK i \in 1..k : s = Key(<<L[i].name>>)
      BY <1>1
    <3> QED
      BY <2>1, <3>1
  <2>4. ASSUME NEW y \in Y PROVE Key(<<ItemAt(tree, y).name>>) \in f.seen
    BY <1>1, <2>2
  <2> HIDE DEF Y
  <2>5. f.seen = {Key(<<ItemAt(tree, y).name>>) : y \in Y}
    BY <2>3, <2>4
  <2> QED
    BY <2>5 DEF Y, KeysDone
<1> HIDE DEF k
<1>10. PathAt(tree, x) = Append(f.path, f.left[1].name)
  BY <1>5, <1>6 DEF PathAt
<1> QED
  BY <1>1, <1>2, <1>5, <1>6, <1>7, <1>8, <1>9, <1>10 DEF k

\* One item less is left of a directory, and one name more is seen.
LEMMA RestNext ==
  ASSUME NEW tree, IsTreeOfItems(tree), NEW f, Rest(tree, f), f.left # <<>>,
         NEW g, g = [f EXCEPT !.left = Tail(@), !.seen = @ \cup {Key(<<f.left[1].name>>)}]
  PROVE  Rest(tree, g) /\ g.path = f.path /\ DoneOf(tree, g) = DoneOf(tree, f) + 1
<1> DEFINE L == tree.listing[f.path]
<1>0. PICK k : k = DoneOf(tree, f)
  OBVIOUS
<1>1. /\ f = [path |-> f.path, left |-> f.left, seen |-> f.seen] /\ f.path \in DOMAIN tree.listing
      /\ f.left \in Seq(ItemsOf(tree)) /\ k \in Nat /\ \A i \in 1..Len(f.left) : f.left[i] = L[k + i]
      /\ f.seen = {Key(<<L[i].name>>) : i \in 1..k}
  BY <1>0 DEF Rest
<1>2. /\ g.path = f.path /\ g.left = Tail(f.left) /\ g.seen = f.seen \cup {Key(<<f.left[1].name>>)}
      /\ g = [path |-> g.path, left |-> g.left, seen |-> g.seen]
  BY <1>1
<1>3. Len(L) \in Nat /\ k = Len(L) - Len(f.left)
  BY <1>0, <1>1, PlaceParts DEF DoneOf
<1>4. /\ g.left \in Seq(ItemsOf(tree)) /\ Len(g.left) = Len(f.left) - 1 /\ Len(f.left) \in Nat /\ Len(f.left) > 0
      /\ \A i \in 1..Len(g.left) : g.left[i] = f.left[i + 1]
  <2>1. f.left \in Seq(ItemsOf(tree)) /\ f.left # <<>>
    BY <1>1
  <2>2. Tail(f.left) \in Seq(ItemsOf(tree)) /\ Len(Tail(f.left)) = Len(f.left) - 1
        /\ \A i \in 1..Len(Tail(f.left)) : Tail(f.left)[i] = f.left[i + 1]
    BY <2>1, HeadTailProperties
  <2>3. Len(f.left) \in Nat /\ Len(f.left) > 0
    BY <2>1, EmptySeq
  <2> QED
    BY <1>2, <2>2, <2>3
<1>5. DoneOf(tree, g) = k + 1
  <2>1. DoneOf(tree, g) = Len(L) - Len(g.left)
    BY <1>2 DEF DoneOf
  <2>2. PICK l, m, j : l = Len(L) /\ m = Len(f.left) /\ j = Len(g.left)
    OBVIOUS
  <2>3. l \in Nat /\ m \in Nat /\ k = l - m /\ j = m - 1
    BY <1>3, <1>4, <2>2
  <2>4. l - j = k + 1
    BY ONLY <2>3
  <2> QED
    BY <2>1, <2>2, <2>4
<1>6. ASSUME NEW i \in 1..Len(g.left) PROVE g.left[i] = L[(k + 1) + i]
  <2>1. i + 1 \in 1..Len(f.left) /\ k + (i + 1) = (k + 1) + i
    BY <1>1, <1>4
  <2>2. g.left[i] = f.left[i + 1] /\ f.left[i + 1] = L[k + (i + 1)]
    BY <1>1, <1>4, <2>1
  <2> QED
    BY <2>1, <2>2
<1>7. g.seen = {Key(<<L[i].name>>) : i \in 1..(k + 1)}
  <2>1. f.left[1] = L[k + 1]
    <3>1. 1 \in 1..Len(f.left)
      BY <1>4
    <3> QED
      BY <1>1, <3>1
  <2>2. \A i : i \in 1..(k + 1) <=> i \in 1..k \/ i = k + 1
    <3>1. k \in Nat
      BY <1>1
    <3> QED
      BY <3>1
  <2>3. g.seen = {Key(<<L[i].name>>) : i \in 1..k} \cup {Key(<<L[k + 1].name>>)}
    BY <1>1, <1>2, <2>1
  <2> HIDE DEF L
  <2> QED
    BY <2>2, <2>3
<1>8. Rest(tree, g)
  <2>1. k + 1 \in Nat
    BY <1>1
  <2>2. \A i \in 1..Len(g.left) : g.left[i] = tree.listing[g.path][DoneOf(tree, g) + i]
    BY ONLY <1>2, <1>5, <1>6
  <2>3. g.seen = {Key(<<tree.listing[g.path][i].name>>) : i \in 1..DoneOf(tree, g)}
    BY ONLY <1>2, <1>5, <1>7
  <2> QED
    BY ONLY <1>1, <1>2, <1>4, <1>5, <2>1, <2>2, <2>3 DEF Rest
<1> QED
  BY <1>0, <1>2, <1>5, <1>8

\* Of a directory that is entered everything is left.
LEMMA RestAll ==
  ASSUME NEW tree, IsTreeOfItems(tree), NEW p \in DOMAIN tree.listing
  PROVE  Rest(tree, Listed(tree, p)) /\ Listed(tree, p).path = p /\ DoneOf(tree, Listed(tree, p)) = 0
<1>0. PICK g : g = Listed(tree, p)
  OBVIOUS
<1>1. tree.listing[p] \in Seq(ItemsOf(tree)) /\ Len(tree.listing[p]) \in Nat
  BY ListedAre
<1>2. /\ g.path = p /\ g.left = tree.listing[p] /\ g.seen = {}
      /\ g = [path |-> g.path, left |-> g.left, seen |-> g.seen]
  BY <1>0 DEF Listed
<1>3. DoneOf(tree, g) = 0
  <2>1. DoneOf(tree, g) = Len(tree.listing[p]) - Len(tree.listing[p])
    BY <1>2 DEF DoneOf
  <2> QED
    BY <1>1, <2>1
<1>4. \A i \in 1..Len(g.left) : g.left[i] = tree.listing[g.path][0 + i]
  BY <1>1, <1>2
<1>5. g.seen = {Key(<<tree.listing[g.path][i].name>>) : i \in 1..0}
  BY <1>2
<1>6. g.path \in DOMAIN tree.listing /\ g.left \in Seq(ItemsOf(tree)) /\ 0 \in Nat
  BY <1>1, <1>2
<1>7. Rest(tree, g)
  BY <1>2, <1>3, <1>4, <1>5, <1>6 DEF Rest
<1> QED
  BY <1>0, <1>2, <1>3, <1>7

\* The item that comes next goes to disk, its directory has it no longer left, and
\* if it is a directory it is entered with all of its items left.
Goes(tree, fs, d, f, e, p, f2, new, fs2, d2) ==
  /\ f \in fs /\ f.left # <<>> /\ e = f.left[1] /\ p = Append(f.path, e.name) /\ p \notin DOMAIN d
  /\ e.kind \in {"file", "dir"} /\ e.name \notin Unwritable /\ Key(<<e.name>>) \notin f.seen
  /\ Rest(tree, f2) /\ f2.path = f.path /\ DoneOf(tree, f2) = DoneOf(tree, f) + 1
  /\ e.kind = "dir" => Rest(tree, new) /\ new.path = p /\ DoneOf(tree, new) = 0
  /\ \A g : g \in fs2 <=> (g \in fs /\ g # f) \/ g = f2 \/ (e.kind = "dir" /\ g = new)
  /\ DOMAIN d2 = DOMAIN d \cup {p} /\ (\A q \in DOMAIN d : d2[q] = d[q]) /\ d2[p] = e.kind
\* Then it is the one item that is done and was not before.
LEMMA WalkItem ==
  ASSUME NEW tree, IsTreeOfItems(tree), NEW fs, NEW d, NEW c, Walk(tree, fs, d, c),
         NEW f, NEW e, NEW p, NEW f2, NEW new, NEW fs2, NEW d2,
         Goes(tree, fs, d, f, e, p, f2, new, fs2, d2), NEW x, x = <<f.path, DoneOf(tree, f) + 1>>
  PROVE  Walk(tree, fs2, d2, c + 1) /\ Done(tree, fs2, d2) = Done(tree, fs, d) \cup {x}
<1>g1. /\ f \in fs /\ f.left # <<>> /\ e = f.left[1] /\ p = Append(f.path, e.name) /\ p \notin DOMAIN d
       /\ e.kind \in {"file", "dir"} /\ e.name \notin Unwritable /\ Key(<<e.name>>) \notin f.seen
  BY DEF Goes
<1>g2. /\ Rest(tree, f2) /\ f2.path = f.path /\ DoneOf(tree, f2) = DoneOf(tree, f) + 1
       /\ e.kind = "dir" => Rest(tree, new) /\ new.path = p /\ DoneOf(tree, new) = 0
  BY DEF Goes
<1>g3. \A g : g \in fs2 <=> (g \in fs /\ g # f) \/ g = f2 \/ (e.kind = "dir" /\ g = new)
  BY DEF Goes
<1>g4. DOMAIN d2 = DOMAIN d \cup {p} /\ (\A q \in DOMAIN d : d2[q] = d[q]) /\ d2[p] = e.kind
  BY DEF Goes
<1> USE <1>g1, <1>g2, <1>g3, <1>g4
<1>0. PICK k : k = DoneOf(tree, f)
  OBVIOUS
<1>a. PICK old : old = Done(tree, fs, d)
  OBVIOUS
<1>b. x = <<f.path, k + 1>>
  BY <1>0
<1>1. /\ x \in Places(tree) /\ ItemAt(tree, x) = e /\ e \in ItemsOf(tree)
      /\ x \notin old /\ PathAt(tree, x) = p
      /\ f.seen = {Key(<<ItemAt(tree, y).name>>) : y \in {z \in old : z[1] = f.path}}
      /\ k \in Nat
  <2>1. x = <<f.path, DoneOf(tree, f) + 1>>
    OBVIOUS
  <2>2. /\ x \in Places(tree) /\ ItemAt(tree, x) = f.left[1] /\ ItemAt(tree, x) \in ItemsOf(tree)
        /\ x \notin Done(tree, fs, d) /\ PathAt(tree, x) = Append(f.path, f.left[1].name)
        /\ f.seen = KeysDone(tree, fs, d, f.path)
        /\ DoneOf(tree, f) \in Nat
    BY ONLY IsTreeOfItems(tree), Walk(tree, fs, d, c), f \in fs, f.left # <<>>, <2>1, NextItem
  <2> QED
    BY <1>0, <1>a, <2>2 DEF KeysDone
<1>2. /\ Rest(tree, f) /\ f.path \in Entered(d) /\ \A g \in fs : g.path = f.path => g = f
      /\ \A g \in fs : Rest(tree, g) /\ g.path \in Entered(d)
      /\ Entered(d) \subseteq DOMAIN tree.listing
  BY DEF Walk
<1>3. IsSeq(f.path) /\ Len(f.path) \in Nat
  BY <1>2, SeqParts DEF IsTreeOfItems
<1>9. p # <<>> /\ p \notin Entered(d)
  <2>2. Len(p) = Len(f.path) + 1
    BY <1>3, Longer
  <2>3. p # <<>>
    BY <1>3, <2>2
  <2> QED
    BY <2>2, <2>3 DEF Entered
<1>10. Entered(d2) = Entered(d) \cup (IF e.kind = "dir" THEN {p} ELSE {})
  BY DEF Entered
<1>11. ASSUME e.kind = "dir" PROVE p \in DOMAIN tree.listing
  BY ONLY <1>1, <1>11, IsTreeOfItems(tree) DEF IsTreeOfItems
<1>13. ASSUME NEW y \in Places(tree) PROVE y \in Done(tree, fs2, d2) <=> y \in old \/ y = x
  <2>1. y[1] \in DOMAIN tree.listing /\ y[2] \in 1..Len(tree.listing[y[1]]) /\ y = <<y[1], y[2]>>
        /\ Len(tree.listing[y[1]]) \in Nat
    BY <1>13, PlaceParts
  <2>2. CASE y[1] = f.path
    <3>1. \A g \in fs2 : g.path = y[1] => g = f2
      BY <1>2, <1>9, <2>2
    <3>2. y \in Done(tree, fs2, d2) <=> y[2] <= k + 1
      <4>1. y[1] \in Entered(d2) /\ f2 \in fs2 /\ f2.path = y[1] /\ DoneOf(tree, f2) = k + 1
        BY <1>0, <1>2, <1>10, <2>2
      <4> QED
        BY <1>13, <3>1, <4>1 DEF Done
    <3>3. y \in old <=> y[2] <= k
      BY <1>0, <1>a, <1>2, <1>13, <2>2 DEF Done
    <3>4. y = x <=> y[2] = k + 1
      BY <1>b, <2>1, <2>2
    <3>5. y[2] \in Nat
      BY <2>1
    <3>6. PICK j : j = y[2]
      OBVIOUS
    <3>7. j \in Nat /\ k \in Nat
      BY ONLY <1>1, <3>5, <3>6
    <3>8. j <= k + 1 <=> j <= k \/ j = k + 1
      BY ONLY <3>7
    <3> QED
      BY ONLY <3>2, <3>3, <3>4, <3>6, <3>8
  <2>3. CASE y[1] = p /\ e.kind = "dir"
    <3>1. y \notin old
      BY <1>a, <1>9, <2>3 DEF Done
    <3>2. new \in fs2 /\ new.path = y[1] /\ DoneOf(tree, new) = 0
      BY <2>3
    <3>3. ~(y[2] <= 0)
      BY <2>1
    <3>4. y \notin Done(tree, fs2, d2)
      BY <3>2, <3>3 DEF Done
    <3>5. y # x
      BY <1>b, <1>2, <1>9, <2>3
    <3> QED
      BY <3>1, <3>4, <3>5
  <2>4. CASE y[1] # f.path /\ ~(y[1] = p /\ e.kind = "dir")
    <3>1. y[1] \in Entered(d2) <=> y[1] \in Entered(d)
      BY <1>10, <2>4
    <3>2. \A g \in fs2 : g.path = y[1] => g \in fs
      BY <2>4
    <3>3. \A g \in fs : g.path = y[1] => g \in fs2
      BY <2>4
    <3>4. y # x
      BY <1>b, <2>4
    <3> QED
      BY <1>a, <3>1, <3>2, <3>3, <3>4 DEF Done
  <2> QED
    BY <2>2, <2>3, <2>4
<1>14. Done(tree, fs2, d2) = old \cup {x}
  <2>1. Done(tree, fs2, d2) \subseteq Places(tree) /\ old \subseteq Places(tree)
    BY <1>a DEF Done
  <2> QED
    BY <1>1, <1>13, <2>1
<1>15. Cardinality(old \cup {x}) = c + 1
  <2>1. IsFiniteSet(old) /\ c = Cardinality(old)
    BY <1>a, DoneIsFinite DEF Walk
  <2> QED
    BY <1>1, <2>1, FS_AddElement
<1>16. Entered(d2) \subseteq DOMAIN tree.listing
  BY <1>2, <1>10, <1>11
<1>17. ASSUME NEW g \in fs2 PROVE Rest(tree, g) /\ g.path \in Entered(d2)
  BY <1>2, <1>10, <1>17
<1>18. ASSUME NEW g \in fs2, NEW h \in fs2, g.path = h.path PROVE g = h
  <2>1. \A q \in fs : q.path # p
    BY <1>2, <1>9
  <2>2. f2.path # p /\ (e.kind = "dir" => new.path = p)
    BY <2>1
  <2>3. \A q \in fs : q # f => q.path # f2.path
    BY <1>2
  <2>4. \A q, r \in fs : q.path = r.path => q = r
    BY DEF Walk
  <2>5. CASE g \in fs /\ g # f
    <3>1. g.path # f2.path /\ g.path # p
      BY <2>1, <2>3, <2>5
    <3>2. h # f2 /\ ~(e.kind = "dir" /\ h = new)
      BY <1>18, <2>2, <3>1
    <3>3. h \in fs
      BY <3>2
    <3> QED
      BY <1>18, <2>4, <2>5, <3>3
  <2>6. CASE g = f2
    <3>1. h \notin fs \/ h = f
      BY <1>18, <2>3, <2>6
    <3>2. ~(e.kind = "dir" /\ h = new)
      BY <1>18, <2>2, <2>6
    <3> QED
      BY <2>6, <3>1, <3>2
  <2>7. CASE e.kind = "dir" /\ g = new
    <3>1. h # f2 /\ h \notin fs
      BY <1>18, <2>1, <2>2, <2>7
    <3> QED
      BY <2>7, <3>1
  <2> QED
    BY <2>5, <2>6, <2>7
<1>19. ASSUME NEW y \in Done(tree, fs2, d2)
       PROVE  /\ ItemAt(tree, y).name \notin Unwritable /\ ItemAt(tree, y).kind \in {"file", "dir"}
              /\ PathAt(tree, y) \in DOMAIN d2 /\ d2[PathAt(tree, y)] = ItemAt(tree, y).kind
  <2>1. CASE y \in old
    <3>1. /\ ItemAt(tree, y).name \notin Unwritable /\ ItemAt(tree, y).kind \in {"file", "dir"}
          /\ PathAt(tree, y) \in DOMAIN d /\ d[PathAt(tree, y)] = ItemAt(tree, y).kind
      BY <1>a, <2>1 DEF Walk
    <3> QED
      BY <3>1
  <2>2. CASE y = x
    BY <1>1, <2>2
  <2> QED
    BY <1>14, <2>1, <2>2
<1>20. ASSUME NEW y \in Done(tree, fs2, d2), NEW z \in Done(tree, fs2, d2), y[1] = z[1],
              Key(<<ItemAt(tree, y).name>>) = Key(<<ItemAt(tree, z).name>>)
       PROVE  y = z
  <2>1. \A u \in old : u[1] = f.path => Key(<<ItemAt(tree, u).name>>) # Key(<<e.name>>)
    BY <1>1
  <2>2. x[1] = f.path
    BY <1>b
  <2>3. CASE y \in old /\ z \in old
    BY <1>a, <1>20, <2>3 DEF Walk
  <2> QED
    BY <1>1, <1>14, <1>20, <2>1, <2>2, <2>3
<1>21. ASSUME NEW q \in DOMAIN d2 PROVE \E y \in Done(tree, fs2, d2) : q = PathAt(tree, y)
  <2>1. CASE q \in DOMAIN d
    <3>1. PICK y \in old : q = PathAt(tree, y)
      BY <1>a, <2>1 DEF Walk
    <3> QED
      BY <1>14, <3>1
  <2>2. CASE q = p
    BY <1>1, <1>14, <2>2
  <2> QED
    BY <2>1, <2>2
<1>22. Walk(tree, fs2, d2, c + 1)
  BY <1>14, <1>15, <1>16, <1>17, <1>18, <1>19, <1>20, <1>21 DEF Walk
<1> QED
  BY <1>0, <1>a, <1>b, <1>1, <1>14, <1>22

\* A directory that has nothing left is done with.
LEMMA WalkLeaves ==
  ASSUME NEW tree, IsTreeOfItems(tree), NEW fs, NEW d, NEW c, Walk(tree, fs, d, c), NEW f \in fs, f.left = <<>>
  PROVE  Walk(tree, fs \ {f}, d, c) /\ Done(tree, fs \ {f}, d) = Done(tree, fs, d)
<1>1. DoneOf(tree, f) = Len(tree.listing[f.path]) /\ f.path \in DOMAIN tree.listing
  <2>1. f.path \in DOMAIN tree.listing
    BY DEF Walk, Rest
  <2> QED
    BY <2>1, PlaceParts DEF DoneOf
<1>2. ASSUME NEW y \in Places(tree) PROVE y \in Done(tree, fs \ {f}, d) <=> y \in Done(tree, fs, d)
  <2>1. y[2] \in 1..Len(tree.listing[y[1]]) /\ Len(tree.listing[y[1]]) \in Nat
    BY <1>2, PlaceParts
  <2> QED
    BY <1>1, <2>1 DEF Done
<1>3. Done(tree, fs \ {f}, d) = Done(tree, fs, d)
  BY <1>2 DEF Done
<1> QED
  BY <1>3 DEF Walk

\* When nothing is on the stack everything is done: of two directories one of
\* which is in the other the outer one was entered, so the inner one was.
LEMMA WalkEnds ==
  ASSUME NEW tree, IsTreeOfItems(tree), NEW d, NEW c, Walk(tree, {}, d, c)
  PROVE  /\ Done(tree, {}, d) = Places(tree) /\ Entered(d) = DOMAIN tree.listing
         /\ DOMAIN d = {PathAt(tree, x) : x \in Places(tree)}
<1> DEFINE Missed == DOMAIN tree.listing \ Entered(d)
           T == {Len(p) : p \in Missed}
<1>1. Entered(d) \subseteq DOMAIN tree.listing
  BY DEF Walk
<1>2. Missed = {}
  <2> SUFFICES ASSUME Missed # {} PROVE FALSE
    OBVIOUS
  <2>1. T \subseteq Nat /\ T # {}
    <3>1. \A p \in Missed : Len(p) \in Nat
      BY SeqParts DEF IsTreeOfItems
    <3> HIDE DEF Missed
    <3> QED
      BY <3>1
  <2>2. PICK n \in T : \A m \in T : n <= m
    <3> HIDE DEF T
    <3> QED
      BY <2>1, LeastNat
  <2>3. PICK p \in Missed : Len(p) = n
    OBVIOUS
  <2>4. p # <<>>
    BY DEF Entered
  <2>5. PICK x \in Places(tree) : ItemAt(tree, x).kind = "dir" /\ p = PathAt(tree, x)
    <3>1. p \in {<<>>} \cup {PathAt(tree, x) : x \in {y \in Places(tree) : ItemAt(tree, y).kind = "dir"}}
      BY DEF IsTreeOfItems
    <3> QED
      BY <2>4, <3>1
  <2>6. x[1] \in DOMAIN tree.listing /\ IsSeq(x[1])
    BY <2>5, PlaceParts
  <2>7. Len(p) = Len(x[1]) + 1 /\ Len(x[1]) \in Nat
    BY <2>5, <2>6, Longer, SeqParts DEF PathAt
  <2>8. x[1] \in Entered(d)
    BY <2>2, <2>3, <2>6, <2>7
  <2>9. x \in Done(tree, {}, d)
    BY <2>5, <2>8 DEF Done
  <2>10. p \in DOMAIN d /\ d[p] = "dir"
    BY <2>5, <2>9 DEF Walk
  <2> QED
    BY <2>10 DEF Entered
<1>3. Entered(d) = DOMAIN tree.listing
  BY <1>1, <1>2
<1>4. ASSUME NEW y \in Places(tree) PROVE y \in Done(tree, {}, d)
  BY <1>3, <1>4, PlaceParts DEF Done
<1>5. Done(tree, {}, d) = Places(tree)
  BY <1>4 DEF Done
<1>6. DOMAIN d = {PathAt(tree, x) : x \in Places(tree)}
  <2>1. \A p \in DOMAIN d : \E x \in Places(tree) : p = PathAt(tree, x)
    BY <1>5 DEF Walk
  <2>2. \A x \in Places(tree) : PathAt(tree, x) \in DOMAIN d
    BY <1>5 DEF Walk
  <2> QED
    BY ONLY <2>1, <2>2
<1> QED
  BY <1>3, <1>5, <1>6

-----------------------------------------------------------------------------
(* The walk over a directory, and its blocks *)

ItemWeights(tree) == [x \in Places(tree) |-> ItemAt(tree, x).blocks]
BlocksIn(tree, S) == SumFunctionOnSet(ItemWeights(tree), FilesAmong(tree, S))
\* What is staged of a directory is what is done of it; of the file that is open
\* all of the blocks are counted, those that are left to read too.
ItemsInv ==
  /\ source.format = "directory" /\ verdict \in {"working", "accepted"} =>
       /\ IsTreeOfItems(source) /\ Walk(source, Range(stack), disk, count)
       /\ writing.left \in Nat /\ ~writing.torn
       /\ total + writing.left = BlocksIn(source, Done(source, Range(stack), disk))
       /\ verdict = "accepted" => Range(stack) = {} /\ writing = NoFile
  /\ source.format = "directory" /\ verdict \in Reasons => ~DirectoryIsSafe(source, limits)

\* The files among the items, and their sizes.
LEMMA FilesAmongAre ==
  ASSUME NEW tree, IsTreeOfItems(tree), NEW S, S \subseteq Places(tree)
  PROVE  /\ FilesAmong(tree, S) \subseteq FilesAmong(tree, Places(tree))
         /\ IsFiniteSet(FilesAmong(tree, S))
         /\ \A x \in Places(tree) : ItemWeights(tree)[x] = ItemAt(tree, x).blocks /\ ItemWeights(tree)[x] \in Nat
         /\ \A x \in FilesAmong(tree, S) : ItemWeights(tree)[x] \in Nat
<1>1. FilesAmong(tree, S) \subseteq Places(tree) /\ FilesAmong(tree, S) \subseteq FilesAmong(tree, Places(tree))
  BY DEF FilesAmong
<1>2. IsFiniteSet(FilesAmong(tree, S))
  BY <1>1, PlacesAreFinite, FS_Subset
<1>3. ASSUME NEW x \in Places(tree)
      PROVE  ItemWeights(tree)[x] = ItemAt(tree, x).blocks /\ ItemWeights(tree)[x] \in Nat
  <2>1. ItemAt(tree, x).blocks \in Nat
    BY DEF IsTreeOfItems
  <2> QED
    BY <2>1 DEF ItemWeights
<1> QED
  BY <1>1, <1>2, <1>3

\* Some of the items have no more blocks than all.
LEMMA BlocksInSome ==
  ASSUME NEW tree, IsTreeOfItems(tree), NEW S, S \subseteq Places(tree)
  PROVE  /\ BlocksIn(tree, S) \in Nat /\ BlocksIn(tree, Places(tree)) \in Nat
         /\ BlocksIn(tree, S) <= BlocksIn(tree, Places(tree))
<1> DEFINE A == FilesAmong(tree, S)
           B == FilesAmong(tree, Places(tree))
           w == ItemWeights(tree)
<1>1. A \subseteq B /\ \A x \in A : w[x] \in Nat
  BY FilesAmongAre
<1>2. IsFiniteSet(A)
  BY FilesAmongAre
<1>3. IsFiniteSet(B) /\ \A x \in B : w[x] \in Nat
  <2>1. Places(tree) \subseteq Places(tree)
    OBVIOUS
  <2> QED
    BY <2>1, FilesAmongAre
<1> HIDE DEF A, B, w
<1>4. SumFunctionOnSet(w, A) \in Nat
  BY <1>1, <1>2, SumWithout
<1>5. SumFunctionOnSet(w, B) \in Nat
  BY <1>3, SumWithout
<1>6. SumFunctionOnSet(w, A) <= SumFunctionOnSet(w, B)
  BY <1>1, <1>3, SumOfSubset
<1> QED
  BY <1>4, <1>5, <1>6 DEF BlocksIn, A, B, w

\* The blocks of a safe directory are those of all its items.
LEMMA BlocksAreIn ==
  ASSUME NEW tree, IsTreeOfItems(tree)
  PROVE  SumFunction([x \in FilesAmong(tree, Places(tree)) |-> ItemAt(tree, x).blocks])
           = BlocksIn(tree, Places(tree))
<1> DEFINE B == FilesAmong(tree, Places(tree))
           w == [x \in B |-> ItemAt(tree, x).blocks]
<1>1. IsFiniteSet(B) /\ \A x \in Places(tree) : ItemWeights(tree)[x] = ItemAt(tree, x).blocks
  <2>1. Places(tree) \subseteq Places(tree)
    OBVIOUS
  <2> QED
    BY <2>1, FilesAmongAre
<1>2. \A x \in B : w[x] = ItemWeights(tree)[x]
  BY <1>1 DEF FilesAmong
<1>3. SumFunction(w) = SumFunctionOnSet(w, B)
  BY DEF SumFunction
<1>4. SumFunctionOnSet(w, B) = SumFunctionOnSet(ItemWeights(tree), B)
  <2> HIDE DEF w, B
  <2> QED
    BY <1>1, <1>2, SumOfSame
<1> QED
  BY <1>3, <1>4 DEF BlocksIn

\* With one item more the blocks are more by its own, if it is a file.
LEMMA BlocksWith ==
  ASSUME NEW tree, IsTreeOfItems(tree), NEW S, S \subseteq Places(tree), NEW x \in Places(tree), x \notin S
  PROVE  /\ ItemAt(tree, x).kind = "file" =>
              BlocksIn(tree, S \cup {x}) = BlocksIn(tree, S) + ItemAt(tree, x).blocks
         /\ ItemAt(tree, x).kind # "file" => BlocksIn(tree, S \cup {x}) = BlocksIn(tree, S)
<1> DEFINE A == FilesAmong(tree, S)
           w == ItemWeights(tree)
<1>1. IsFiniteSet(A) /\ (\A y \in A : w[y] \in Nat) /\ x \notin A
      /\ w[x] = ItemAt(tree, x).blocks /\ w[x] \in Nat
  <2>1. x \notin A
    BY DEF FilesAmong
  <2> QED
    BY <2>1, FilesAmongAre
<1>2. ASSUME ItemAt(tree, x).kind = "file"
      PROVE  BlocksIn(tree, S \cup {x}) = BlocksIn(tree, S) + ItemAt(tree, x).blocks
  <2>1. FilesAmong(tree, S \cup {x}) = A \cup {x}
    BY <1>2 DEF FilesAmong
  <2> HIDE DEF A, w
  <2>2. SumFunctionOnSet(w, A \cup {x}) = SumFunctionOnSet(w, A) + w[x]
    BY <1>1, SumOneMore
  <2> QED
    BY <1>1, <2>1, <2>2 DEF BlocksIn, A, w
<1>3. ASSUME ItemAt(tree, x).kind # "file" PROVE BlocksIn(tree, S \cup {x}) = BlocksIn(tree, S)
  <2>1. FilesAmong(tree, S \cup {x}) = A
    BY <1>3 DEF FilesAmong
  <2> QED
    BY <2>1 DEF BlocksIn
<1> QED
  BY <1>2, <1>3

-----------------------------------------------------------------------------
(* The directories on the stack *)

\* What is on a stack whose directories are all different, without its top.
LEMMA RangeBelow ==
  ASSUME NEW s, IsSeq(s), s # <<>>, \A m, n \in DOMAIN s : m # n => s[m].path # s[n].path
  PROVE  LET below == SubSeq(s, 1, Len(s) - 1)
             top == s[Len(s)]
         IN  /\ IsSeq(below) /\ Range(below) = Range(s) \ {top} /\ top \in Range(s)
             /\ (below = <<>> <=> Len(s) = 1)
<1>1. Len(s) \in Nat /\ DOMAIN s = 1..Len(s)
  BY SeqParts
<1>2. Len(s) # 0
  BY <1>1, EmptySeq DEF IsSeq
<1>3. PICK l \in Nat : Len(s) = l + 1
  <2>1. Len(s) - 1 \in Nat /\ Len(s) = (Len(s) - 1) + 1
    BY <1>1, <1>2
  <2> QED
    BY <2>1
<1>4. PICK below : below = SubSeq(s, 1, Len(s) - 1)
  OBVIOUS
<1> DEFINE S == Range(s)
<1>5. below \in Seq(S) /\ Len(below) = l /\ \A n \in 1..l : below[n] = s[n]
  <2>1. \A n \in 1..l : s[n] \in S
    BY <1>1, <1>3 DEF Range
  <2> HIDE DEF S
  <2> QED
    BY <1>3, <1>4, <2>1, BelowTop
<1>6. IsSeq(below) /\ DOMAIN below = 1..l
  BY <1>5, SeqIsSeq
<1>7. \A n : n \in 1..(l + 1) <=> n \in 1..l \/ n = l + 1
  BY <1>3
<1>8. \A n \in 1..l : s[n] # s[l + 1]
  <2>1. \A n \in 1..l : n # l + 1
    BY <1>3
  <2> QED
    BY <1>1, <1>3, <1>7, <2>1
<1>9. Range(below) = Range(s) \ {s[l + 1]} /\ s[l + 1] \in Range(s)
  BY <1>1, <1>3, <1>5, <1>6, <1>7, <1>8 DEF Range
<1>10. below = <<>> <=> l = 0
  BY <1>5, EmptySeq
<1>11. l = 0 <=> Len(s) = 1
  BY <1>3
<1> QED
  BY <1>3, <1>4, <1>6, <1>9, <1>10, <1>11

\* What is on a stack with one or two directories more.
LEMMA RangeWith ==
  ASSUME NEW b, IsSeq(b), NEW t, NEW f
  PROVE  Range(Append(b, t)) = Range(b) \cup {t} /\ Range(b \o <<f, t>>) = Range(b) \cup {f, t}
<1> DEFINE S == {b[n] : n \in DOMAIN b} \cup {f, t}
<1>0. PICK z : z = <<f, t>>
  OBVIOUS
<1>1. PICK l : l = Len(b)
  OBVIOUS
<1>2. l \in Nat /\ DOMAIN b = 1..l
  BY <1>1, SeqParts
<1>3. b \in Seq(S) /\ t \in S /\ z \in Seq(S) /\ Len(z) = 2 /\ z[1] = f /\ z[2] = t
  <2>1. b \in Seq({b[n] : n \in DOMAIN b})
    BY DEF IsSeq
  <2>2. {b[n] : n \in DOMAIN b} \subseteq S
    OBVIOUS
  <2>3. b = [n \in 1..l |-> b[n]] /\ \A n \in 1..l : b[n] \in S
    BY <1>1, <1>2, SeqParts
  <2>4. b \in Seq(S)
    BY <1>2, <2>3
  <2> QED
    BY <1>0, <2>4
<1> HIDE DEF S
<1>4. /\ Len(Append(b, t)) = l + 1 /\ DOMAIN Append(b, t) = 1..(l + 1)
      /\ Append(b, t)[l + 1] = t /\ \A n \in 1..l : Append(b, t)[n] = b[n]
  BY <1>1, <1>3, AppendProperties
<1>5. \A n : n \in 1..(l + 1) <=> n \in 1..l \/ n = l + 1
  BY <1>2
<1>6. Range(Append(b, t)) = Range(b) \cup {t}
  BY <1>2, <1>4, <1>5 DEF Range
<1>y. PICK y : y = b \o z
  OBVIOUS
<1>7. Len(y) = l + 2 /\ DOMAIN y = 1..(l + 2)
      /\ \A n \in 1..(l + 2) : y[n] = IF n <= l THEN b[n] ELSE z[n - l]
  <2>1. /\ y \in Seq(S) /\ Len(y) = l + 2
        /\ \A n \in 1..(l + 2) : y[n] = IF n <= l THEN b[n] ELSE z[n - l]
    <3>1. b \in Seq(S) /\ z \in Seq(S)
      BY <1>3
    <3>2. /\ b \o z \in Seq(S) /\ Len(b \o z) = Len(b) + Len(z)
          /\ \A n \in 1..(Len(b) + Len(z)) : (b \o z)[n] = IF n <= Len(b) THEN b[n] ELSE z[n - Len(b)]
      BY ONLY <3>1, ConcatProperties
    <3>3. Len(b) = l /\ Len(z) = 2
      BY <1>1, <1>3
    <3> QED
      BY ONLY <3>2, <3>3, <1>y
  <2> QED
    BY <2>1
<1>8. /\ \A n \in 1..l : n \in 1..(l + 2) /\ n <= l
      /\ l + 1 \in 1..(l + 2) /\ ~(l + 1 <= l) /\ (l + 1) - l = 1
      /\ l + 2 \in 1..(l + 2) /\ ~(l + 2 <= l) /\ (l + 2) - l = 2
      /\ \A n \in 1..(l + 2) : n \in 1..l \/ n = l + 1 \/ n = l + 2
  BY <1>2
<1>9. y[l + 1] = f /\ y[l + 2] = t /\ \A n \in 1..l : y[n] = b[n]
  BY <1>3, <1>7, <1>8
<1>10. Range(y) = Range(b) \cup {f, t}
  <2>1. Range(b) = {b[n] : n \in 1..l} /\ Range(y) = {y[n] : n \in 1..(l + 2)}
    BY <1>2, <1>7 DEF Range
  <2>2. ASSUME NEW n \in 1..(l + 2) PROVE y[n] \in {b[m] : m \in 1..l} \cup {f, t}
    <3>1. CASE n \in 1..l
      BY <1>9, <3>1
    <3>2. CASE n = l + 1 \/ n = l + 2
      BY <1>9, <3>2
    <3> QED
      BY <1>8, <3>1, <3>2
  <2>3. ASSUME NEW n \in 1..l PROVE b[n] \in {y[m] : m \in 1..(l + 2)}
    <3>1. n \in 1..(l + 2) /\ y[n] = b[n]
      BY <1>8, <1>9
    <3> QED
      BY <3>1
  <2>4. f \in {y[m] : m \in 1..(l + 2)} /\ t \in {y[m] : m \in 1..(l + 2)}
    BY <1>8, <1>9
  <2>5. Range(y) \subseteq Range(b) \cup {f, t}
    BY ONLY <2>1, <2>2
  <2>6. Range(b) \cup {f, t} \subseteq Range(y)
    BY ONLY <2>1, <2>3, <2>4
  <2> QED
    BY ONLY <2>5, <2>6
<1> QED
  BY <1>0, <1>6, <1>y, <1>10

-----------------------------------------------------------------------------
(* The steps of the walk *)

\* What a step on the next item of a directory finds: the directory on top of the
\* stack, its next item, and the stack without its top.
LEMMA ChildIsNext ==
  ASSUME StagingInv, ItemsInv, NextChild, NEW x, x = <<Top.path, DoneOf(source, Top) + 1>>
  PROVE  /\ verdict = "working" /\ source.format = "directory" /\ writing = NoFile
         /\ IsTreeOfItems(source) /\ Walk(source, Range(stack), disk, count)
         /\ Top \in Range(stack) /\ Top.left # <<>> /\ Rest(source, Top)
         /\ IsSeq(Below) /\ Range(Below) = Range(stack) \ {Top}
         /\ total \in Nat /\ total = BlocksIn(source, Done(source, Range(stack), disk))
         /\ x \in Places(source) /\ ItemAt(source, x) = Child /\ Child.blocks \in Nat
         /\ x \notin Done(source, Range(stack), disk) /\ PathAt(source, x) = ChildPath
         /\ Top.seen = KeysDone(source, Range(stack), disk, Top.path)
         /\ count \in Nat /\ limits.files \in Nat
<1>1. verdict = "working" /\ source.format = "directory" /\ writing = NoFile /\ stack # <<>> /\ Top.left # <<>>
  BY DEF NextChild, FromDirectory
<1>2. IsTreeOfItems(source) /\ Walk(source, Range(stack), disk, count)
      /\ total + writing.left = BlocksIn(source, Done(source, Range(stack), disk))
  BY <1>1 DEF ItemsInv
<1>3. IsSeq(stack) /\ \A m, n \in DOMAIN stack : m # n => stack[m].path # stack[n].path
  BY <1>1 DEF StagingInv, DirectoryInv
<1>4. IsSeq(Below) /\ Range(Below) = Range(stack) \ {Top} /\ Top \in Range(stack)
  BY <1>1, <1>3, RangeBelow DEF Below, Top
<1>5. total \in Nat /\ count \in Nat /\ limits.files \in Nat
  BY DEF StagingInv, StagingTypeOK, SourceInv
<1>6. total = BlocksIn(source, Done(source, Range(stack), disk))
  BY <1>1, <1>2, <1>5 DEF NoFile
<1>7. /\ x \in Places(source) /\ ItemAt(source, x) = Top.left[1] /\ ItemAt(source, x) \in ItemsOf(source)
      /\ x \notin Done(source, Range(stack), disk) /\ PathAt(source, x) = Append(Top.path, Top.left[1].name)
      /\ Top.seen = KeysDone(source, Range(stack), disk, Top.path)
  BY ONLY <1>1, <1>2, <1>4, x = <<Top.path, DoneOf(source, Top) + 1>>, NextItem
<1>8. Rest(source, Top)
  BY <1>2, <1>4 DEF Walk
<1>9. Top.left[1].blocks \in Nat
  BY <1>2, <1>7 DEF IsTreeOfItems
<1> QED
  BY <1>1, <1>2, <1>4, <1>5, <1>6, <1>7, <1>8, <1>9 DEF Child, ChildPath

\* The directory on top of the stack when its next item is done.
LEMMA TopIsNext ==
  ASSUME StagingInv, ItemsInv, NextChild
  PROVE  /\ Rest(source, TopWithout) /\ TopWithout.path = Top.path
         /\ DoneOf(source, TopWithout) = DoneOf(source, Top) + 1
<1>1. PICK x : x = <<Top.path, DoneOf(source, Top) + 1>>
  OBVIOUS
<1>2. IsTreeOfItems(source) /\ Rest(source, Top) /\ Top.left # <<>>
  BY <1>1, ChildIsNext
<1>3. PICK f, g : f = Top /\ g = TopWithout
  OBVIOUS
<1>4. g = [f EXCEPT !.left = Tail(@), !.seen = @ \cup {Key(<<f.left[1].name>>)}]
  BY <1>3 DEF TopWithout, Child
<1>5. Rest(source, f) /\ f.left # <<>>
  BY <1>2, <1>3
<1>6. Rest(source, g) /\ g.path = f.path /\ DoneOf(source, g) = DoneOf(source, f) + 1
  BY ONLY <1>2, <1>4, <1>5, RestNext
<1> QED
  BY <1>3, <1>6

LEMMA CopyWalks == ASSUME StagingInv, ItemsInv, Copy PROVE ItemsInv'
<1>1. /\ writing # NoFile /\ writing.left > 0 /\ writing' = [writing EXCEPT !.left = @ - 1]
      /\ total' = total + 1 /\ UNCHANGED <<source, limits, stack, disk, count, verdict>>
  BY DEF Copy, given
<1>2. verdict = "working" /\ writing = [path |-> writing.path, left |-> writing.left, torn |-> writing.torn]
      /\ total \in Nat
  BY <1>1 DEF StagingInv, SourceInv, StagingTypeOK
<1>3. writing'.left = writing.left - 1 /\ writing'.torn = writing.torn
  BY <1>1, <1>2
<1>4. ASSUME source.format = "directory"
      PROVE  /\ IsTreeOfItems(source) /\ Walk(source, Range(stack), disk, count)
             /\ writing'.left \in Nat /\ ~writing'.torn
             /\ total' + writing'.left = BlocksIn(source, Done(source, Range(stack), disk))
  <2>1. /\ IsTreeOfItems(source) /\ Walk(source, Range(stack), disk, count)
        /\ writing.left \in Nat /\ ~writing.torn
        /\ total + writing.left = BlocksIn(source, Done(source, Range(stack), disk))
    BY <1>2, <1>4 DEF ItemsInv
  <2>2. total' + writing'.left = total + writing.left /\ writing'.left \in Nat
    BY <1>1, <1>2, <1>3, <2>1
  <2> QED
    BY <1>3, <2>1, <2>2
<1>5. verdict' \notin Reasons /\ verdict' # "accepted"
  BY <1>1, <1>2 DEF Reasons
<1> QED
  BY <1>1, <1>4, <1>5 DEF ItemsInv

LEMMA CopyFailsWalks == ASSUME StagingInv, ItemsInv, CopyFails PROVE ItemsInv'
<1>1. /\ writing # NoFile /\ UNCHANGED <<source, limits>>
      /\ \/ OverBudget /\ verdict' = "too_large"
         \/ writing.torn /\ verdict' = "unknown_format"
  BY DEF CopyFails, Refuse, given
<1>2. verdict = "working" /\ total \in Nat /\ limits.blocks \in Nat
  BY <1>1 DEF StagingInv, SourceInv, StagingTypeOK
<1>3. ASSUME source.format = "directory" PROVE OverBudget /\ ~DirectoryIsSafe(source, limits)
  <2>1. /\ IsTreeOfItems(source) /\ writing.left \in Nat /\ ~writing.torn
        /\ total + writing.left = BlocksIn(source, Done(source, Range(stack), disk))
    BY <1>2, <1>3 DEF ItemsInv
  <2>2. OverBudget
    BY <1>1, <2>1
  <2>3. total + writing.left > limits.blocks
    BY <1>2, <2>1, <2>2 DEF OverBudget
  <2>4. /\ BlocksIn(source, Done(source, Range(stack), disk)) <= BlocksIn(source, Places(source))
        /\ BlocksIn(source, Places(source)) \in Nat /\ BlocksIn(source, Done(source, Range(stack), disk)) \in Nat
    BY <2>1, DoneIsFinite, BlocksInSome
  <2>5. ~(BlocksIn(source, Places(source)) <= limits.blocks)
    BY <1>2, <2>1, <2>3, <2>4
  <2> QED
    BY <2>1, <2>2, <2>5, BlocksAreIn DEF DirectoryIsSafe
<1>4. verdict' \notin {"working", "accepted"}
  BY <1>1
<1> QED
  BY <1>1, <1>3, <1>4 DEF ItemsInv

LEMMA RefuseChildWalks == ASSUME StagingInv, ItemsInv, RefuseChild PROVE ItemsInv'
<1>1. NextChild /\ ChildFault # NoFault /\ verdict' = ChildFault /\ UNCHANGED <<source, limits>>
  BY DEF RefuseChild, Refuse, given
<1>2. PICK x : x = <<Top.path, DoneOf(source, Top) + 1>>
  OBVIOUS
<1> DEFINE done == Done(source, Range(stack), disk)
<1>3. /\ IsTreeOfItems(source) /\ Walk(source, Range(stack), disk, count)
      /\ x \in Places(source) /\ ItemAt(source, x) = Child
      /\ x \notin done /\ Top.seen = KeysDone(source, Range(stack), disk, Top.path)
      /\ count \in Nat /\ limits.files \in Nat
  BY <1>1, <1>2, ChildIsNext
<1>4. \/ Child.name \in Unwritable \/ Key(<<Child.name>>) \in Top.seen
      \/ Child.kind \notin {"file", "dir"} \/ count >= limits.files
  BY <1>1, ChildChecks
<1>5. done \subseteq Places(source) /\ IsFiniteSet(done) /\ IsFiniteSet(Places(source))
  BY <1>3, DoneIsFinite, PlacesAreFinite
<1>6. ASSUME Child.name \in Unwritable \/ Child.kind \notin {"file", "dir"} PROVE ~ItemsAreSafe(source, limits)
  BY <1>3, <1>6 DEF ItemsAreSafe
<1>7. ASSUME Key(<<Child.name>>) \in Top.seen PROVE ~ItemsAreSafe(source, limits)
  <2>1. PICK y \in done : y[1] = Top.path /\ Key(<<ItemAt(source, y).name>>) = Key(<<Child.name>>)
    BY <1>3, <1>7 DEF KeysDone
  <2>2. y # x /\ y \in Places(source) /\ x[1] = Top.path
    BY <1>2, <1>3, <1>5
  <2> QED
    BY <1>3, <2>1, <2>2 DEF ItemsAreSafe
<1>8. ASSUME count >= limits.files PROVE ~ItemsAreSafe(source, limits)
  <2>1. count = Cardinality(done)
    BY <1>3 DEF Walk
  <2>2. Cardinality(done \cup {x}) = count + 1
    BY <1>3, <1>5, <2>1, FS_AddElement
  <2>3. done \cup {x} \subseteq Places(source)
    BY <1>3, <1>5
  <2>4. Cardinality(done \cup {x}) <= Cardinality(Places(source)) /\ Cardinality(Places(source)) \in Nat
    BY <1>5, <2>3, FS_Subset, FS_CardinalityType
  <2>5. ~(Cardinality(Places(source)) <= limits.files)
    BY <1>3, <1>8, <2>2, <2>4
  <2> QED
    BY <2>5 DEF ItemsAreSafe
<1>9. ~DirectoryIsSafe(source, limits)
  BY <1>4, <1>6, <1>7, <1>8 DEF DirectoryIsSafe
<1>10. verdict' \notin {"working", "accepted"}
  BY <1>1, ChildChecks DEF Reasons
<1> QED
  BY <1>1, <1>9, <1>10 DEF ItemsInv

\* A child that is copied is the next item: it is not on disk, and the walk goes on.
LEMMA ChildWalks ==
  ASSUME StagingInv, ItemsInv, NextChild, ChildFault = NoFault, NEW fs,
         \A g : g \in fs <=> \/ g \in Range(stack) /\ g # Top
                             \/ g = TopWithout
                             \/ Child.kind = "dir" /\ g = Listed(source, ChildPath)
  PROVE  LET d == OnDisk({ChildPath}, Child.kind)
         IN  /\ Walk(source, fs, d, count + 1)
             /\ Child.kind = "file" => BlocksIn(source, Done(source, fs, d)) = total + Child.blocks
             /\ Child.kind = "dir" => BlocksIn(source, Done(source, fs, d)) = total
<1>1. PICK x : x = <<Top.path, DoneOf(source, Top) + 1>>
  OBVIOUS
<1>2. PICK f, g, new, e, p, d : /\ f = Top /\ g = TopWithout /\ new = Listed(source, ChildPath)
                                /\ e = Child /\ p = ChildPath /\ d = OnDisk({ChildPath}, Child.kind)
  OBVIOUS
<1>3. /\ IsTreeOfItems(source) /\ Walk(source, Range(stack), disk, count)
      /\ f \in Range(stack) /\ f.left # <<>>
      /\ x \in Places(source) /\ ItemAt(source, x) = e /\ e.blocks \in Nat
      /\ x \notin Done(source, Range(stack), disk) /\ PathAt(source, x) = p
      /\ total = BlocksIn(source, Done(source, Range(stack), disk))
  BY <1>1, <1>2, ChildIsNext
<1>4. e.name \notin Unwritable /\ Key(<<e.name>>) \notin f.seen /\ e.kind \in {"file", "dir"}
  BY <1>2, ChildChecks
<1>5. e = f.left[1] /\ p = Append(f.path, e.name)
  BY <1>2 DEF Child, ChildPath
<1>6. p \notin DOMAIN disk
  BY <1>2, ChildFits
<1>7. Rest(source, g) /\ g.path = f.path /\ DoneOf(source, g) = DoneOf(source, f) + 1
  BY <1>2, TopIsNext
<1>8. e.kind = "dir" => Rest(source, new) /\ new.path = p /\ DoneOf(source, new) = 0
  <2>1. e.kind = "dir" => p \in DOMAIN source.listing
    BY <1>3 DEF IsTreeOfItems
  <2> QED
    BY <1>2, <1>3, <2>1, RestAll
<1>9. DOMAIN d = DOMAIN disk \cup {p} /\ (\A q \in DOMAIN disk : d[q] = disk[q]) /\ d[p] = e.kind
  BY <1>2, <1>6 DEF OnDisk
<1>10. \A h : h \in fs <=> (h \in Range(stack) /\ h # f) \/ h = g \/ (e.kind = "dir" /\ h = new)
  BY <1>2
<1>11. x = <<f.path, DoneOf(source, f) + 1>>
  BY <1>1, <1>2
<1>g. Goes(source, Range(stack), disk, f, e, p, g, new, fs, d)
  BY ONLY <1>3, <1>4, <1>5, <1>6, <1>7, <1>8, <1>9, <1>10 DEF Goes
<1>12. /\ Walk(source, fs, d, count + 1)
       /\ Done(source, fs, d) = Done(source, Range(stack), disk) \cup {x}
  BY ONLY <1>3, <1>g, <1>11, WalkItem
<1>13. Done(source, Range(stack), disk) \subseteq Places(source)
  BY DEF Done
<1>14. /\ e.kind = "file" => BlocksIn(source, Done(source, fs, d)) = total + e.blocks
       /\ e.kind # "file" => BlocksIn(source, Done(source, fs, d)) = total
  BY <1>3, <1>12, <1>13, BlocksWith
<1> QED
  BY <1>2, <1>12, <1>14

LEMMA CopyDirectoryWalks == ASSUME StagingInv, ItemsInv, CopyDirectory PROVE ItemsInv'
<1>1. /\ NextChild /\ ChildFault = NoFault /\ Child.kind = "dir"
      /\ count' = count + 1 /\ disk' = OnDisk({ChildPath}, "dir")
      /\ stack' = Below \o <<Listed(source, ChildPath), TopWithout>>
      /\ UNCHANGED <<source, limits, total, writing, verdict>>
  BY DEF CopyDirectory, given
<1>2. PICK x : x = <<Top.path, DoneOf(source, Top) + 1>>
  OBVIOUS
<1>3. /\ verdict = "working" /\ writing = NoFile /\ IsTreeOfItems(source) /\ total \in Nat
      /\ IsSeq(Below) /\ Range(Below) = Range(stack) \ {Top}
  BY <1>1, <1>2, ChildIsNext
<1>4. Range(stack') = (Range(stack) \ {Top}) \cup {Listed(source, ChildPath), TopWithout}
  BY <1>1, <1>3, RangeWith
<1>5. PICK fs : fs = Range(stack')
  OBVIOUS
<1>6. \A g : g \in fs <=> \/ g \in Range(stack) /\ g # Top
                          \/ g = TopWithout
                          \/ Child.kind = "dir" /\ g = Listed(source, ChildPath)
  BY <1>1, <1>4, <1>5
<1>7. Walk(source, fs, disk', count') /\ BlocksIn(source, Done(source, fs, disk')) = total
  BY <1>1, <1>6, ChildWalks
<1>8. writing'.left = 0 /\ ~writing'.torn /\ total' + writing'.left = total
  BY <1>1, <1>3 DEF NoFile
<1>9. verdict' \notin Reasons /\ verdict' # "accepted"
  BY <1>1, <1>3 DEF Reasons
<1> QED
  BY <1>1, <1>3, <1>5, <1>7, <1>8, <1>9 DEF ItemsInv

LEMMA CopyFileWalks == ASSUME StagingInv, ItemsInv, CopyFile PROVE ItemsInv'
<1>1. /\ NextChild /\ ChildFault = NoFault /\ Child.kind = "file"
      /\ count' = count + 1 /\ disk' = OnDisk({ChildPath}, "file")
      /\ stack' = Append(Below, TopWithout)
      /\ writing' = [path |-> ChildPath, left |-> Child.blocks, torn |-> FALSE]
      /\ UNCHANGED <<source, limits, total, verdict>>
  BY DEF CopyFile, given
<1>2. PICK x : x = <<Top.path, DoneOf(source, Top) + 1>>
  OBVIOUS
<1>3. /\ verdict = "working" /\ IsTreeOfItems(source) /\ total \in Nat /\ Child.blocks \in Nat
      /\ IsSeq(Below) /\ Range(Below) = Range(stack) \ {Top}
  BY <1>1, <1>2, ChildIsNext
<1>4. Range(stack') = (Range(stack) \ {Top}) \cup {TopWithout}
  <2>1. /\ Range(Append(Below, TopWithout)) = Range(Below) \cup {TopWithout}
        /\ Range(Below \o <<Top, TopWithout>>) = Range(Below) \cup {Top, TopWithout}
    BY <1>3, RangeWith
  <2> QED
    BY <1>1, <1>3, <2>1
<1>5. PICK fs : fs = Range(stack')
  OBVIOUS
<1>6. \A g : g \in fs <=> \/ g \in Range(stack) /\ g # Top
                          \/ g = TopWithout
                          \/ Child.kind = "dir" /\ g = Listed(source, ChildPath)
  BY <1>1, <1>4, <1>5
<1>7. Walk(source, fs, disk', count') /\ BlocksIn(source, Done(source, fs, disk')) = total + Child.blocks
  BY <1>1, <1>6, ChildWalks
<1>8. writing'.left = Child.blocks /\ writing'.left \in Nat /\ ~writing'.torn
  BY <1>1, <1>3
<1>9. verdict' \notin Reasons /\ verdict' # "accepted"
  BY <1>1, <1>3 DEF Reasons
<1> QED
  BY <1>1, <1>3, <1>5, <1>7, <1>8, <1>9 DEF ItemsInv

LEMMA CloseCopyWalks == ASSUME StagingInv, ItemsInv, CloseCopy PROVE ItemsInv'
<1>1. /\ writing # NoFile /\ writing.left = 0 /\ writing' = NoFile
      /\ UNCHANGED <<source, limits, stack, disk, total, count, verdict>>
  BY DEF CloseCopy, Copied, given
<1>2. verdict = "working"
  BY <1>1 DEF StagingInv, SourceInv
<1>3. writing'.left = 0 /\ ~writing'.torn
  BY <1>1 DEF NoFile
<1> QED
  BY <1>1, <1>2, <1>3 DEF ItemsInv, Reasons

LEMMA NextDirectoryWalks == ASSUME StagingInv, ItemsInv, NextDirectory PROVE ItemsInv'
<1>1. /\ verdict = "working" /\ source.format = "directory" /\ writing = NoFile /\ stack # <<>>
      /\ Top.left = <<>> /\ stack' = Below /\ verdict' = IF Below = <<>> THEN "accepted" ELSE verdict
      /\ UNCHANGED <<source, limits, disk, total, count, writing>>
  BY DEF NextDirectory, FromDirectory, given
<1>2. IsTreeOfItems(source) /\ Walk(source, Range(stack), disk, count)
      /\ writing.left \in Nat /\ ~writing.torn
      /\ total + writing.left = BlocksIn(source, Done(source, Range(stack), disk))
  BY <1>1 DEF ItemsInv
<1>3. IsSeq(stack) /\ \A m, n \in DOMAIN stack : m # n => stack[m].path # stack[n].path
  BY <1>1 DEF StagingInv, DirectoryInv
<1>4. Range(stack') = Range(stack) \ {Top} /\ Top \in Range(stack)
  BY <1>1, <1>3, RangeBelow DEF Below, Top
<1>5. /\ Walk(source, Range(stack'), disk, count)
      /\ Done(source, Range(stack'), disk) = Done(source, Range(stack), disk)
  BY <1>1, <1>2, <1>4, WalkLeaves
<1>6. verdict' = "accepted" => Range(stack') = {}
  BY <1>1 DEF Range
<1>7. verdict' \notin Reasons
  BY <1>1 DEF Reasons
<1> QED
  BY <1>1, <1>2, <1>5, <1>6, <1>7 DEF ItemsInv

\* Every step of staging walks on.
LEMMA StagingWalks == ASSUME StagingInv, ItemsInv, StagingNext PROVE ItemsInv'
<1>1. CASE RefuseEntry \/ SkipRoot \/ MakeDirectory \/ OpenFile \/ CloseFile \/ Extracted
  <2>1. source.format # "directory" /\ source' = source
    BY <1>1 DEF RefuseEntry, SkipRoot, MakeDirectory, OpenFile, CloseFile, Extracted, NextEntry, FromArchive,
                Refuse, given
  <2> QED
    BY <2>1 DEF ItemsInv
<1> QED
  BY <1>1, CopyWalks, CopyFailsWalks, RefuseChildWalks, CopyDirectoryWalks, CopyFileWalks, CloseCopyWalks,
     NextDirectoryWalks DEF StagingNext

\* A walk begins at the directory itself, with nothing done.
LEMMA StageDirectoryWalks ==
  ASSUME StagingInv, NEW tree, NEW l, IsTreeOfItems(tree), StageDirectory(tree, l)
  PROVE  ItemsInv'
<1>1. /\ verdict = "none" /\ source' = tree /\ verdict' = "working" /\ stack' = <<Listed(tree, <<>>)>>
      /\ UNCHANGED <<disk, total, count, writing>>
  BY DEF StageDirectory
<1>2. disk' = <<>> /\ total' = 0 /\ count' = 0 /\ writing' = NoFile
  BY <1>1 DEF StagingInv, SourceInv, Unstarted
<1>3. PICK f : f = Listed(tree, <<>>)
  OBVIOUS
<1>4. <<>> \in DOMAIN tree.listing
  BY DEF IsTreeOfItems
<1>5. Rest(tree, f) /\ f.path = <<>> /\ DoneOf(tree, f) = 0
  BY <1>3, <1>4, RestAll
<1>6. Range(stack') = {f}
  BY <1>1, <1>3 DEF Range
<1>7. Entered(disk') = {<<>>}
  BY <1>2 DEF Entered
<1>8. Done(tree, {f}, disk') = {}
  <2> SUFFICES ASSUME NEW x \in Done(tree, {f}, disk') PROVE FALSE
    OBVIOUS
  <2>1. x \in Places(tree) /\ x[2] <= 0
    BY <1>5, <1>7 DEF Done
  <2>2. x[2] \in 1..Len(tree.listing[x[1]])
    BY <2>1, PlaceParts
  <2> QED
    BY <2>1, <2>2
<1>9. Walk(tree, {f}, disk', count')
  <2>1. Cardinality({}) = 0 /\ DOMAIN disk' = {}
    BY <1>2, FS_EmptySet
  <2> QED
    BY <1>2, <1>4, <1>5, <1>7, <1>8, <2>1 DEF Walk
<1>10. BlocksIn(tree, {}) = 0
  <2>1. FilesAmong(tree, {}) = {}
    BY DEF FilesAmong
  <2> QED
    BY <2>1, SumOfNone DEF BlocksIn
<1>11. writing'.left = 0 /\ ~writing'.torn /\ total' + writing'.left = 0
  BY <1>2 DEF NoFile
<1>12. IsTreeOfItems(source') /\ Walk(source', Range(stack'), disk', count')
  BY <1>1, <1>6, <1>9
<1>13. total' + writing'.left = BlocksIn(source', Done(source', Range(stack'), disk'))
  BY <1>1, <1>6, <1>8, <1>10, <1>11
<1>14. writing'.left \in Nat /\ ~writing'.torn /\ verdict' # "accepted" /\ verdict' \notin Reasons
  BY <1>1, <1>11 DEF Reasons
<1> QED
  BY ONLY <1>12, <1>13, <1>14 DEF ItemsInv

\* The verdict on a directory is of the directory as a whole.
LEMMA DirectoryVerdictIs ==
  ASSUME StagingInv, ItemsInv, source.format = "directory", verdict \notin {"none", "working"}
  PROVE  (verdict = "accepted") <=> DirectoryIsSafe(source, limits)
<1>1. ASSUME verdict = "accepted" PROVE DirectoryIsSafe(source, limits)
  <2>1. /\ IsTreeOfItems(source) /\ Walk(source, {}, disk, count) /\ writing = NoFile
        /\ total + writing.left = BlocksIn(source, Done(source, {}, disk))
    BY <1>1 DEF ItemsInv
  <2>2. Done(source, {}, disk) = Places(source)
    BY <2>1, WalkEnds
  <2>3. total \in 0..limits.blocks /\ limits.blocks \in Nat /\ count \in 0..limits.files
    BY DEF StagingInv, StagingTypeOK, SourceInv
  <2>4. BlocksIn(source, Places(source)) <= limits.blocks
    BY <2>1, <2>2, <2>3 DEF NoFile
  <2>5. ItemsAreSafe(source, limits)
    BY <2>1, <2>2, <2>3 DEF ItemsAreSafe, Walk
  <2> QED
    BY <2>1, <2>4, <2>5, BlocksAreIn DEF DirectoryIsSafe
<1>2. ASSUME verdict # "accepted" PROVE ~DirectoryIsSafe(source, limits)
  <2>1. verdict \in Reasons
    BY <1>2 DEF StagingInv, StagingTypeOK
  <2> QED
    BY <2>1 DEF ItemsInv
<1> QED
  BY <1>1, <1>2
=============================================================================
