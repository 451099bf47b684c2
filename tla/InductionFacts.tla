--------------------------- MODULE InductionFacts ---------------------------
(***************************************************************************)
(* Induction over the natural numbers stated about sets of numbers, so     *)
(* that the proofs about functions defined by recursion can use it: the    *)
(* induction theorems of the library take an operator, which the provers   *)
(* used here cannot instantiate.                                           *)
(***************************************************************************)
EXTENDS Functions, FiniteSetTheorems, TLAPS

\* A set of natural numbers that is not empty has a least element: the intervals
\* that end in an element of it are ordered by inclusion, which is well founded.
LEMMA LeastNumber ==
    ASSUME NEW T \in SUBSET Nat, T # {}
    PROVE  \E x \in T : \A y \in T : x <= y
<1>1. PICK m \in T : TRUE
  OBVIOUS
<1> DEFINE W == {1..x : x \in {t \in T : t <= m}}
<1>2. W \subseteq SUBSET (1..m) /\ W # {}
  BY <1>1
<1>3. W \subseteq FiniteSubsetsOf(1..m)
  BY <1>2, <1>1, FS_Interval, FS_FiniteSubsetsOfFinite
<1>4. PICK w \in W : \A u \in W : <<u, w>> \notin StrictSubsetOrdering(1..m)
  <2> HIDE DEF W
  <2> QED
    BY <1>2, <1>3, FS_StrictSubsetOrderingWellFounded, WFMin
<1>5. PICK x \in T : x <= m /\ w = 1..x
  OBVIOUS
<1>6. ASSUME NEW y \in T, y < x PROVE FALSE
  <2>1. 1..y \in W
    BY <1>5, <1>6, <1>1
  <2>2. 1..y \subseteq 1..x /\ x \in 1..x /\ x \notin 1..y
    BY <1>6
  <2>3. <<1..y, w>> \in StrictSubsetOrdering(1..m)
    BY <2>1, <2>2, <1>2, <1>5 DEF StrictSubsetOrdering
  <2> QED
    BY <2>1, <2>3, <1>4
<1> QED
  BY <1>5, <1>6

\* A set with 0 and the successor of each of its numbers has every number.
LEMMA SetInduction ==
    ASSUME NEW S, 0 \in S, \A n \in Nat : n \in S => n + 1 \in S
    PROVE  Nat \subseteq S
<1> SUFFICES ASSUME Nat \ S # {} PROVE FALSE
  OBVIOUS
<1>1. PICK x \in Nat \ S : \A y \in Nat \ S : x <= y
  BY LeastNumber
<1>2. x # 0
  OBVIOUS
<1>3. x - 1 \in Nat /\ x - 1 \in S
  BY <1>1, <1>2
<1>4. (x - 1) + 1 = x
  OBVIOUS
<1> QED
  BY <1>3, <1>4

----------------------------------------------------------------------------
(* Sums over finite sets.                                                  *)

Chosen(s) == CHOOSE x \in s : TRUE

\* g is what the recursive function of MapThenFoldSet computes on the subsets of S.
Sums(g, f, S) ==
    g = [s \in SUBSET S |-> IF s = {} THEN 0 ELSE f[Chosen(s)] + g[s \ {Chosen(s)}]]

LEMMA ChosenIn == ASSUME NEW s, s # {} PROVE Chosen(s) \in s
BY DEF Chosen

LEMMA SmallerSet ==
    ASSUME NEW s, IsFiniteSet(s), NEW x \in s
    PROVE  /\ IsFiniteSet(s \ {x})
           /\ Cardinality(s) \in Nat \ {0}
           /\ Cardinality(s \ {x}) = Cardinality(s) - 1
<1>1. Cardinality(s) \in Nat /\ Cardinality(s) # 0
  BY FS_CardinalityType, FS_EmptySet
<1>2. IsFiniteSet(s \ {x}) /\ Cardinality(s \ {x}) = Cardinality(s) - 1
  BY FS_RemoveElement
<1> QED
  BY <1>1, <1>2

LEMMA SumsAt ==
    ASSUME NEW g, NEW f, NEW S, Sums(g, f, S), NEW s \in SUBSET S
    PROVE  g[s] = IF s = {} THEN 0 ELSE f[Chosen(s)] + g[s \ {Chosen(s)}]
BY DEF Sums

\* g solves the recursion on the subsets of S with at most n elements.
SumsUpTo(g, f, S, n) ==
    \A s \in SUBSET S : Cardinality(s) <= n =>
        g[s] = IF s = {} THEN 0 ELSE f[Chosen(s)] + g[s \ {Chosen(s)}]

LEMMA SumsExists ==
    ASSUME NEW f, NEW S, IsFiniteSet(S)
    PROVE  \E g : Sums(g, f, S)
<1> DEFINE T == {n \in Nat : \E g : SumsUpTo(g, f, S, n)}
<1>0. \A s \in SUBSET S : IsFiniteSet(s) /\ Cardinality(s) \in Nat /\ Cardinality(s) <= Cardinality(S)
  BY FS_Subset, FS_CardinalityType
<1>1. 0 \in T
  <2>1. SumsUpTo([s \in SUBSET S |-> 0], f, S, 0)
    <3> SUFFICES ASSUME NEW s \in SUBSET S, Cardinality(s) <= 0 PROVE s = {}
      BY DEF SumsUpTo
    <3> QED
      BY <1>0, FS_EmptySet
  <2> QED
    BY <2>1
<1>2. ASSUME NEW n \in Nat, n \in T PROVE n + 1 \in T
  <2>1. PICK g : SumsUpTo(g, f, S, n)
    BY <1>2
  <2> DEFINE h == [s \in SUBSET S |->
                     IF Cardinality(s) <= n THEN g[s] ELSE f[Chosen(s)] + g[s \ {Chosen(s)}]]
  <2>2. ASSUME NEW s \in SUBSET S, Cardinality(s) <= n + 1
        PROVE  h[s] = IF s = {} THEN 0 ELSE f[Chosen(s)] + h[s \ {Chosen(s)}]
    <3>1. CASE s = {}
      <4>1. Cardinality(s) <= n
        BY <3>1, FS_EmptySet
      <4>2. h[s] = g[s] /\ g[s] = 0
        BY <2>1, <3>1, <4>1 DEF SumsUpTo
      <4> QED
        BY <3>1, <4>2
    <3>2. CASE s # {}
      <4> DEFINE t == s \ {Chosen(s)}
      <4>1. Cardinality(s) \in Nat /\ Cardinality(t) = Cardinality(s) - 1 /\ t \in SUBSET S
        BY <1>0, <3>2, ChosenIn, SmallerSet
      <4>2. Cardinality(t) <= n
        BY <4>1, <2>2
      <4>3. h[t] = g[t]
        BY <4>1, <4>2
      <4>4. h[s] = f[Chosen(s)] + g[t]
        <5>1. CASE Cardinality(s) <= n
          <6>1. h[s] = g[s]
            BY <5>1
          <6>2. g[s] = f[Chosen(s)] + g[t]
            BY <2>1, <5>1, <3>2 DEF SumsUpTo
          <6> QED
            BY <6>1, <6>2
        <5>2. CASE ~(Cardinality(s) <= n)
          BY <5>2
        <5> QED
          BY <5>1, <5>2
      <4> HIDE DEF h
      <4> QED
        BY <4>3, <4>4, <3>2
    <3> QED
      BY <3>1, <3>2
  <2>3. SumsUpTo(h, f, S, n + 1)
    <3> HIDE DEF h
    <3> QED
      BY <2>2 DEF SumsUpTo
  <2> QED
    BY <2>3
<1>3. Nat \subseteq T
  <2> HIDE DEF T
  <2> QED
    BY <1>1, <1>2, SetInduction
<1>4. Cardinality(S) \in T
  <2> HIDE DEF T
  <2> QED
    BY <1>3, FS_CardinalityType
<1>5. PICK g : SumsUpTo(g, f, S, Cardinality(S))
  BY <1>4
<1> DEFINE h == [s \in SUBSET S |-> g[s]]
<1>6. ASSUME NEW s \in SUBSET S
      PROVE  h[s] = IF s = {} THEN 0 ELSE f[Chosen(s)] + h[s \ {Chosen(s)}]
  BY <1>0, <1>5 DEF SumsUpTo
<1>7. h = [s \in SUBSET S |-> IF s = {} THEN 0 ELSE f[Chosen(s)] + h[s \ {Chosen(s)}]]
  BY <1>6
<1> QED
  BY <1>7 DEF Sums

\* Two solutions agree on the subsets they share, and so do solutions for functions
\* that agree there.
LEMMA SumsAgree ==
    ASSUME NEW S, NEW T, NEW f, NEW e, NEW g, NEW h, NEW U, IsFiniteSet(U),
           Sums(g, f, S), Sums(h, e, T), U \subseteq S, U \subseteq T,
           \A x \in U : f[x] = e[x]
    PROVE  g[U] = h[U]
<1> DEFINE N == {n \in Nat : \A s \in SUBSET U : Cardinality(s) = n => g[s] = h[s]}
<1>0. \A s \in SUBSET U : IsFiniteSet(s) /\ Cardinality(s) \in Nat
  BY FS_Subset, FS_CardinalityType
<1>1. 0 \in N
  <2> SUFFICES ASSUME NEW s \in SUBSET U, Cardinality(s) = 0 PROVE g[s] = h[s]
    OBVIOUS
  <2>1. s = {}
    BY <1>0, FS_EmptySet
  <2> QED
    BY <2>1, SumsAt
<1>2. ASSUME NEW n \in Nat, n \in N PROVE n + 1 \in N
  <2> SUFFICES ASSUME NEW s \in SUBSET U, Cardinality(s) = n + 1 PROVE g[s] = h[s]
    OBVIOUS
  <2> DEFINE c == Chosen(s)
             t == s \ {c}
  <2>1. s # {}
    BY FS_EmptySet
  <2>2. c \in s /\ t \in SUBSET U /\ Cardinality(t) = n
    BY <2>1, <1>0, ChosenIn, SmallerSet
  <2>3. g[t] = h[t]
    BY <1>2, <2>2
  <2>4. g[s] = f[c] + g[t] /\ h[s] = e[c] + h[t]
    BY <2>1, SumsAt
  <2>5. f[c] = e[c]
    BY <2>2
  <2> QED
    BY <2>3, <2>4, <2>5
<1>3. Nat \subseteq N
  <2> HIDE DEF N
  <2> QED
    BY <1>1, <1>2, SetInduction
<1>4. Cardinality(U) \in N
  <2> HIDE DEF N
  <2> QED
    BY <1>0, <1>3
<1> QED
  BY <1>4

\* The sum of a function over a finite set, and the two sums of OrderAccounts that
\* are not written as one.
LEMMA SumIsSums ==
    ASSUME NEW f, NEW S, IsFiniteSet(S)
    PROVE  \E g : Sums(g, f, S) /\ SumFunctionOnSet(f, S) = g[S]
<1> DEFINE P(g) == g = [s \in SUBSET S |-> IF s = {} THEN 0
                          ELSE f[CHOOSE x \in s : TRUE] + g[s \ {CHOOSE x \in s : TRUE}]]
           k == CHOOSE g : P(g)
<1>0. \A g : Sums(g, f, S) <=> P(g)
  BY Zenon DEF Sums, Chosen
<1>1. \E g : P(g)
  <2> HIDE DEF P
  <2> QED
    BY <1>0, SumsExists
<1>2. P(k)
  BY <1>1
<1>3. SumFunctionOnSet(f, S) = k[S]
  BY DEF SumFunctionOnSet, FoldFunctionOnSet, MapThenFoldSet
<1>4. Sums(k, f, S)
  <2> HIDE DEF P, k
  <2> QED
    BY <1>0, <1>2
<1> QED
  BY <1>3, <1>4

LEMMA SumSame ==
    ASSUME NEW f, NEW e, NEW S, IsFiniteSet(S), \A x \in S : f[x] = e[x]
    PROVE  SumFunctionOnSet(f, S) = SumFunctionOnSet(e, S)
<1>1. PICK g : Sums(g, f, S) /\ SumFunctionOnSet(f, S) = g[S]
  BY SumIsSums
<1>2. PICK h : Sums(h, e, S) /\ SumFunctionOnSet(e, S) = h[S]
  BY SumIsSums
<1>3. g[S] = h[S]
  <2>1. S \subseteq S /\ \A x \in S : f[x] = e[x]
    OBVIOUS
  <2>2. Sums(g, f, S) /\ Sums(h, e, S) /\ IsFiniteSet(S)
    BY <1>1, <1>2
  <2> QED
    BY ONLY <2>1, <2>2, SumsAgree
<1> QED
  BY <1>1, <1>2, <1>3

LEMMA SumEmpty == ASSUME NEW f PROVE SumFunctionOnSet(f, {}) = 0
BY SumIsSums, SumsAt, FS_EmptySet

LEMMA SumChosen ==
    ASSUME NEW f, NEW S, IsFiniteSet(S), S # {}
    PROVE  SumFunctionOnSet(f, S) = f[Chosen(S)] + SumFunctionOnSet(f, S \ {Chosen(S)})
<1> DEFINE t == S \ {Chosen(S)}
<1>1. IsFiniteSet(t)
  BY ChosenIn, SmallerSet
<1>2. PICK g : Sums(g, f, S) /\ SumFunctionOnSet(f, S) = g[S]
  BY SumIsSums
<1>3. PICK h : Sums(h, f, t) /\ SumFunctionOnSet(f, t) = h[t]
  BY <1>1, SumIsSums
<1>4. g[S] = f[Chosen(S)] + g[t]
  BY <1>2, SumsAt
<1>5. g[t] = h[t]
  BY <1>1, <1>2, <1>3, SumsAgree
<1> QED
  BY <1>2, <1>3, <1>4, <1>5

\* A sum of natural numbers is one, and any of its terms may be taken out.
LEMMA SumNat ==
    ASSUME NEW f, NEW S, IsFiniteSet(S), \A x \in S : f[x] \in Nat
    PROVE  SumFunctionOnSet(f, S) \in Nat
<1> DEFINE N == {n \in Nat : \A s \in SUBSET S : Cardinality(s) = n => SumFunctionOnSet(f, s) \in Nat}
<1>0. \A s \in SUBSET S : IsFiniteSet(s) /\ Cardinality(s) \in Nat
  BY FS_Subset, FS_CardinalityType
<1>1. 0 \in N
  <2> SUFFICES ASSUME NEW s \in SUBSET S, Cardinality(s) = 0 PROVE SumFunctionOnSet(f, s) = 0
    OBVIOUS
  <2>1. s = {}
    BY <1>0, FS_EmptySet
  <2> QED
    BY <2>1, SumEmpty
<1>2. ASSUME NEW n \in Nat, n \in N PROVE n + 1 \in N
  <2> SUFFICES ASSUME NEW s \in SUBSET S, Cardinality(s) = n + 1
               PROVE  SumFunctionOnSet(f, s) \in Nat
    OBVIOUS
  <2> DEFINE t == s \ {Chosen(s)}
  <2>1. IsFiniteSet(s) /\ s # {} /\ Chosen(s) \in s
    BY <1>0, FS_EmptySet, ChosenIn
  <2>2. SumFunctionOnSet(f, s) = f[Chosen(s)] + SumFunctionOnSet(f, t)
    BY <2>1, SumChosen
  <2>3. t \in SUBSET S /\ Cardinality(t) = n
    BY <2>1, SmallerSet
  <2>4. SumFunctionOnSet(f, t) \in Nat /\ f[Chosen(s)] \in Nat
    BY <1>2, <2>1, <2>3
  <2> QED
    BY <2>2, <2>4
<1>3. Nat \subseteq N
  <2> HIDE DEF N
  <2> QED
    BY <1>1, <1>2, SetInduction
<1>4. Cardinality(S) \in N
  <2> HIDE DEF N
  <2> QED
    BY <1>0, <1>3
<1> QED
  BY <1>4

LEMMA SumOf ==
    ASSUME NEW f, NEW S, IsFiniteSet(S), \A x \in S : f[x] \in Nat
    PROVE  \A x \in S : SumFunctionOnSet(f, S) = f[x] + SumFunctionOnSet(f, S \ {x})
<1> DEFINE N == {n \in Nat : \A s \in SUBSET S : Cardinality(s) = n =>
                     \A x \in s : SumFunctionOnSet(f, s) = f[x] + SumFunctionOnSet(f, s \ {x})}
<1>0. \A s \in SUBSET S : IsFiniteSet(s) /\ Cardinality(s) \in Nat
  BY FS_Subset, FS_CardinalityType
<1>1. 0 \in N
  <2> SUFFICES ASSUME NEW s \in SUBSET S, Cardinality(s) = 0
               PROVE  s = {}
    OBVIOUS
  <2> QED
    BY <1>0, FS_EmptySet
<1>2. ASSUME NEW n \in Nat, n \in N PROVE n + 1 \in N
  <2> SUFFICES ASSUME NEW s \in SUBSET S, Cardinality(s) = n + 1
               PROVE  \A x \in s : SumFunctionOnSet(f, s) = f[x] + SumFunctionOnSet(f, s \ {x})
    OBVIOUS
  <2> DEFINE c == Chosen(s)
             T(t) == SumFunctionOnSet(f, t)
  <2>1. IsFiniteSet(s) /\ s # {} /\ c \in s
    BY <1>0, FS_EmptySet, ChosenIn
  <2>2. T(s) = f[c] + T(s \ {c})
    BY <2>1, SumChosen
  <2>3. \A x \in s : s \ {x} \in SUBSET S /\ Cardinality(s \ {x}) = n
    BY <2>1, SmallerSet
  <2>4. \A x \in s : \A y \in s \ {x} : T(s \ {x}) = f[y] + T((s \ {x}) \ {y})
    BY <1>2, <2>3
  <2>6. ASSUME NEW x \in s PROVE T(s) = f[x] + T(s \ {x})
    <3>1. CASE x = c
      BY <2>2, <3>1
    <3>2. CASE x # c
      <4>1. T(s \ {c}) = f[x] + T((s \ {c}) \ {x})
        BY <2>1, <2>4, <3>2
      <4>2. T(s \ {x}) = f[c] + T((s \ {x}) \ {c})
        BY <2>1, <2>4, <3>2
      <4>3. (s \ {c}) \ {x} = (s \ {x}) \ {c}
        OBVIOUS
      <4>4. f[x] \in Nat /\ f[c] \in Nat
        BY <2>1
      <4>5. T((s \ {x}) \ {c}) \in Nat
        <5>1. (s \ {x}) \ {c} \in SUBSET S
          OBVIOUS
        <5> QED
          BY <1>0, <5>1, SumNat
      <4>6. T((s \ {c}) \ {x}) = T((s \ {x}) \ {c})
        BY <4>3
      <4> DEFINE z == T((s \ {x}) \ {c})
      <4>7. /\ T(s) = f[c] + T(s \ {c}) /\ T(s \ {c}) = f[x] + z
            /\ T(s \ {x}) = f[c] + z /\ z \in Nat
        BY <2>2, <4>1, <4>2, <4>5, <4>6
      <4> HIDE DEF T, c, z
      <4> QED
        BY <4>4, <4>7
    <3> QED
      BY <3>1, <3>2
  <2> QED
    BY <2>6
<1>3. Nat \subseteq N
  <2> HIDE DEF N
  <2> QED
    BY <1>1, <1>2, SetInduction
<1>4. Cardinality(S) \in N
  <2> HIDE DEF N
  <2> QED
    BY <1>0, <1>3
<1> QED
  BY <1>4

=============================================================================
