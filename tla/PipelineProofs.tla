--------------------------- MODULE PipelineProofs ---------------------------
(***************************************************************************)
(* Proofs about the stages of the pipeline that have no rival for their    *)
(* data: WorkbookReading, for any workbooks, and Enrichment, for any       *)
(* workbooks, sheets and replies of the LLM.                               *)
(*                                                                         *)
(* Of WorkbookReading: facts about sums and counts, what AnalyzeSheet,     *)
(* SheetManifest and SheetChunks return for one sheet, and ReadingInv,     *)
(* which says that the lists of the readers are made of no more than that. *)
(***************************************************************************)
EXTENDS WorkbookReading, Enrichment, FiniteSetTheorems, SequenceTheorems, TLAPS

\* The least and the greatest of a set of numbers.
LEMMA LeastOfSet ==
  ASSUME NEW S \in SUBSET Nat, S # {}
  PROVE  \E x \in S : \A y \in S : x <= y
<1> DEFINE R == OpToRel(<, Nat)
<1>1. IsWellFoundedOn(R, Nat)
  BY NatLessThanWellFounded
<1>2. \A x, y \in Nat : y < x => <<y, x>> \in R
  BY DEF OpToRel
<1> HIDE DEF R
<1>3. PICK x \in S : \A y \in S : ~(<<y, x>> \in R)
  BY <1>1, WFMin
<1>4. \A y \in S : ~(y < x)
  BY <1>2, <1>3
<1>5. \A m, n \in Nat : ~(n < m) => m <= n
  OBVIOUS
<1> QED
  BY <1>3, <1>4, <1>5

LEMMA GreatestOfSet ==
  ASSUME NEW n \in Nat, NEW S \in SUBSET (0 .. n), S # {}
  PROVE  \E x \in S : \A y \in S : y <= x
<1> DEFINE T == {k \in Nat : \A y \in S : y <= k}
<1>1. n \in T /\ T \in SUBSET Nat
  OBVIOUS
<1>2. PICK x \in T : \A y \in T : x <= y
  BY <1>1, LeastOfSet
<1>3. x \in S
  <2> SUFFICES ASSUME x \notin S PROVE FALSE
    OBVIOUS
  <2>1. PICK z \in S : TRUE
    OBVIOUS
  <2>2. \A y \in S : y <= x - 1 /\ y \in Nat
    BY <1>2
  <2>3. x - 1 \in Nat
    BY <2>1, <2>2, <1>2
  <2>4. x - 1 \in T
    BY <2>2, <2>3
  <2> QED
    BY <1>2, <2>4, <2>3
<1> QED
  BY <1>2, <1>3

\* What holds of a subset once it holds of all smaller ones holds of every subset.
LEMMA SubsetInduction ==
  ASSUME NEW S, IsFiniteSet(S), NEW Q,
         \A T \in SUBSET S : (\A U \in SUBSET T : U # T => U \in Q) => T \in Q
  PROVE  SUBSET S \subseteq Q
<1> SUFFICES ASSUME (SUBSET S) \ Q # {} PROVE FALSE
  OBVIOUS
<1> DEFINE R == StrictSubsetOrdering(S)
<1>1. IsWellFoundedOn(R, SUBSET S)
  <2>1. IsWellFoundedOn(R, FiniteSubsetsOf(S))
    BY FS_StrictSubsetOrderingWellFounded
  <2>2. FiniteSubsetsOf(S) = SUBSET S
    BY FS_FiniteSubsetsOfFinite
  <2> HIDE DEF R
  <2> QED
    BY <2>1, <2>2
<1>2. \A U, T \in SUBSET S : U \subseteq T /\ U # T => <<U, T>> \in R
  BY DEF StrictSubsetOrdering
<1> HIDE DEF R
<1>3. PICK T \in (SUBSET S) \ Q : \A U \in (SUBSET S) \ Q : ~(<<U, T>> \in R)
  <2> DEFINE B == (SUBSET S) \ Q
  <2>1. B \subseteq SUBSET S /\ B # {}
    OBVIOUS
  <2> HIDE DEF B
  <2>2. \E T \in B : \A U \in B : ~(<<U, T>> \in R)
    BY <1>1, <2>1, WFMin
  <2> QED
    BY <2>2 DEF B
<1>4. ASSUME NEW U \in SUBSET T, U # T PROVE U \in Q
  <2>1. U \in SUBSET S /\ T \in SUBSET S /\ U \subseteq T
    BY <1>3
  <2>2. <<U, T>> \in R
    BY <1>2, <1>4, <2>1
  <2> QED
    BY <1>3, <2>1, <2>2
<1> QED
  BY <1>3, <1>4

-----------------------------------------------------------------------------
\* Sums.
OneOf(s) == CHOOSE x \in s : TRUE
Sums(g, f, S) == g = [s \in SUBSET S |-> IF s = {} THEN 0 ELSE f[OneOf(s)] + g[s \ {OneOf(s)}]]

LEMMA OneIsIn == ASSUME NEW s, s # {} PROVE OneOf(s) \in s
BY DEF OneOf

LEMMA SumsAgree ==
  ASSUME NEW f, NEW g, NEW S, Sums(g, f, S), NEW e, NEW h, NEW T, Sums(h, e, T),
         NEW V, IsFiniteSet(V), V \subseteq S, V \subseteq T, \A x \in V : f[x] = e[x]
  PROVE  g[V] = h[V]
<1> DEFINE Q == {s \in SUBSET V : g[s] = h[s]}
<1>1. ASSUME NEW s \in SUBSET V, \A t \in SUBSET s : t # s => t \in Q
      PROVE  s \in Q
  <2>1. s \in SUBSET S /\ s \in SUBSET T
    OBVIOUS
  <2>2. /\ g[s] = IF s = {} THEN 0 ELSE f[OneOf(s)] + g[s \ {OneOf(s)}]
        /\ h[s] = IF s = {} THEN 0 ELSE e[OneOf(s)] + h[s \ {OneOf(s)}]
    BY <2>1 DEF Sums
  <2>3. CASE s = {}
    BY <2>2, <2>3
  <2>4. CASE s # {}
    <3>1. OneOf(s) \in s
      BY <2>4, OneIsIn
    <3>2. s \ {OneOf(s)} \in Q
      BY <1>1, <3>1
    <3>3. f[OneOf(s)] = e[OneOf(s)]
      BY <3>1
    <3> QED
      BY <2>2, <2>4, <3>2, <3>3
  <2> QED
    BY <2>3, <2>4
<1> HIDE DEF Q
<1>2. SUBSET V \subseteq Q
  BY <1>1, SubsetInduction
<1> QED
  BY <1>2 DEF Q

LEMMA SumsExist ==
  ASSUME NEW f, NEW S, IsFiniteSet(S)
  PROVE  \E g : Sums(g, f, S)
<1> DEFINE Q == {T \in SUBSET S : \E g : Sums(g, f, T)}
           G(T) == CHOOSE g : Sums(g, f, T)
<1>1. ASSUME NEW T \in SUBSET S, \A U \in SUBSET T : U # T => U \in Q
      PROVE  T \in Q
  <2> DEFINE v(U) == G(U)[U]
             h == [s \in SUBSET T |->
                     IF s # T THEN v(s)
                     ELSE IF s = {} THEN 0 ELSE f[OneOf(s)] + v(s \ {OneOf(s)})]
  <2>1. \A U \in SUBSET T : U # T => Sums(G(U), f, U)
    BY <1>1
  <2>2. ASSUME NEW s \in SUBSET T
        PROVE  h[s] = IF s = {} THEN 0 ELSE f[OneOf(s)] + h[s \ {OneOf(s)}]
    <3>1. CASE s = {}
      <4>1. CASE s = T
        BY <3>1, <4>1
      <4>2. CASE s # T
        <5>1. Sums(G(s), f, s)
          BY <2>1, <4>2
        <5>2. G(s)[s] = 0
          BY <5>1, <3>1 DEF Sums
        <5> QED
          BY <5>2, <3>1, <4>2
      <4> QED
        BY <4>1, <4>2
    <3>2. CASE s # {}
      <4> DEFINE x == OneOf(s)
                 t == s \ {x}
      <4>1. x \in s /\ t \in SUBSET T /\ t # T /\ t \in SUBSET s
        BY <3>2, OneIsIn
      <4>2. h[t] = v(t)
        BY <4>1
      <4>3. CASE s = T
        BY <3>2, <4>2, <4>3
      <4>4. CASE s # T
        <5>1. Sums(G(s), f, s) /\ Sums(G(t), f, t)
          BY <2>1, <4>1, <4>4
        <5>2. G(s)[s] = f[x] + G(s)[t]
          BY <5>1, <3>2 DEF Sums
        <5>3. IsFiniteSet(t)
          BY <4>1, FS_Subset
        <5>4. G(s)[t] = G(t)[t]
          <6> HIDE DEF G, t, x
          <6> QED
            BY <5>1, <5>3, <4>1, SumsAgree
        <5>5. h[s] = v(s)
          BY <4>4
        <5> QED
          BY <5>2, <5>4, <5>5, <4>2, <3>2
      <4> QED
        BY <4>3, <4>4
    <3> QED
      BY <3>1, <3>2
  <2>3. Sums(h, f, T)
    <3>1. h = [s \in SUBSET T |-> h[s]]
      OBVIOUS
    <3> HIDE DEF h
    <3> QED
      BY <2>2, <3>1 DEF Sums
  <2> QED
    BY <2>3
<1> HIDE DEF Q
<1>2. SUBSET S \subseteq Q
  BY <1>1, SubsetInduction
<1>3. S \in Q
  BY <1>2
<1> QED
  BY <1>3 DEF Q

LEMMA SumIs ==
  ASSUME NEW f, NEW S, IsFiniteSet(S)
  PROVE  \E g : Sums(g, f, S) /\ SumFunctionOnSet(f, S) = g[S]
<1> DEFINE g == CHOOSE g : g = [s \in SUBSET S |-> IF s = {} THEN 0
                                 ELSE f[CHOOSE x \in s : TRUE] + g[s \ {CHOOSE x \in s : TRUE}]]
<1>1. \E h : h = [s \in SUBSET S |-> IF s = {} THEN 0
                                 ELSE f[CHOOSE x \in s : TRUE] + h[s \ {CHOOSE x \in s : TRUE}]]
  <2>1. PICK h : Sums(h, f, S)
    BY SumsExist
  <2>2. h = [s \in SUBSET S |-> IF s = {} THEN 0
                                 ELSE f[CHOOSE x \in s : TRUE] + h[s \ {CHOOSE x \in s : TRUE}]]
    BY <2>1 DEF Sums, OneOf
  <2> HIDE DEF g
  <2> QED
    BY ONLY <2>2, Zenon
<1>2. g = [s \in SUBSET S |-> IF s = {} THEN 0
                                 ELSE f[CHOOSE x \in s : TRUE] + g[s \ {CHOOSE x \in s : TRUE}]]
  BY <1>1
<1>3. Sums(g, f, S)
  BY <1>2 DEF Sums, OneOf
<1>4. SumFunctionOnSet(f, S) = g[S]
  BY DEF SumFunctionOnSet, FoldFunctionOnSet, MapThenFoldSet
<1> QED
  BY <1>3, <1>4

LEMMA SumOfNone == ASSUME NEW f PROVE SumFunctionOnSet(f, {}) = 0
<1>1. PICK g : Sums(g, f, {}) /\ SumFunctionOnSet(f, {}) = g[{}]
  BY SumIs, FS_EmptySet
<1> QED
  BY <1>1 DEF Sums

\* Sums of equal values are equal.
LEMMA SumOfSame ==
  ASSUME NEW f, NEW e, NEW S, IsFiniteSet(S), \A x \in S : f[x] = e[x]
  PROVE  SumFunctionOnSet(f, S) = SumFunctionOnSet(e, S)
<1>1. PICK g : Sums(g, f, S) /\ SumFunctionOnSet(f, S) = g[S]
  BY SumIs
<1>2. PICK h : Sums(h, e, S) /\ SumFunctionOnSet(e, S) = h[S]
  BY SumIs
<1>3. g[S] = h[S]
  BY <1>1, <1>2, SumsAgree
<1> QED
  BY <1>1, <1>2, <1>3

\* Whichever member of a set is taken off first.
LEMMA SumTakesOff ==
  ASSUME NEW f, NEW S, IsFiniteSet(S), \A x \in S : f[x] \in Nat
  PROVE  /\ SumFunctionOnSet(f, S) \in Nat
         /\ \A x \in S : SumFunctionOnSet(f, S) = f[x] + SumFunctionOnSet(f, S \ {x})
<1>1. PICK g : Sums(g, f, S) /\ SumFunctionOnSet(f, S) = g[S]
  BY SumIs
<1> DEFINE Q == {T \in SUBSET S : /\ g[T] \in Nat
                                  /\ \A x \in T : g[T] = f[x] + g[T \ {x}]}
<1>2. ASSUME NEW T \in SUBSET S, \A U \in SUBSET T : U # T => U \in Q
      PROVE  T \in Q
  <2>1. g[T] = IF T = {} THEN 0 ELSE f[OneOf(T)] + g[T \ {OneOf(T)}]
    BY <1>1 DEF Sums
  <2>2. CASE T = {}
    BY <2>1, <2>2
  <2>3. CASE T # {}
    <3> DEFINE y == OneOf(T)
    <3>1. y \in T
      BY <2>3, OneIsIn
    <3>2. g[T] = f[y] + g[T \ {y}] /\ f[y] \in Nat
      BY <2>1, <2>3, <3>1
    <3> HIDE DEF y
    <3>3. T \ {y} \in Q
      BY <3>1, <1>2
    <3>4. ASSUME NEW x \in T PROVE g[T] = f[x] + g[T \ {x}]
      <4>1. CASE x = y
        BY <4>1, <3>2
      <4>2. CASE x # y
        <5> DEFINE U == (T \ {x}) \ {y}
        <5>1. U = (T \ {y}) \ {x} /\ x \in T \ {y} /\ y \in T \ {x}
          BY <4>2, <3>1
        <5>2. g[T \ {y}] = f[x] + g[U]
          BY <5>1, <3>3
        <5>3. T \ {x} \in Q /\ U \in Q
          BY <1>2, <3>1, <4>2
        <5>4. g[T \ {x}] = f[y] + g[U]
          BY <5>1, <5>3
        <5>5. g[U] \in Nat /\ f[x] \in Nat
          BY <5>3
        <5> HIDE DEF U
        <5> QED
          BY <3>2, <5>2, <5>4, <5>5
      <4> QED
        BY <4>1, <4>2
    <3>5. g[T] \in Nat
      BY <3>2, <3>3
    <3> QED
      BY <3>4, <3>5
  <2> QED
    BY <2>2, <2>3
<1> HIDE DEF Q
<1>3. SUBSET S \subseteq Q
  BY <1>2, SubsetInduction
<1>4. S \in Q
  BY <1>3
<1>5. ASSUME NEW x \in S PROVE g[S \ {x}] = SumFunctionOnSet(f, S \ {x})
  <2>1. IsFiniteSet(S \ {x}) /\ S \ {x} \subseteq S
    BY FS_Subset
  <2>2. PICK h : Sums(h, f, S \ {x}) /\ SumFunctionOnSet(f, S \ {x}) = h[S \ {x}]
    BY <2>1, SumIs
  <2> DEFINE V == S \ {x}
  <2>3. V \subseteq S /\ V \subseteq V /\ IsFiniteSet(V) /\ Sums(h, f, V)
    BY <2>1, <2>2
  <2>4. h[V] = SumFunctionOnSet(f, V)
    BY <2>2
  <2> HIDE DEF V
  <2>5. g[V] = h[V]
    BY <1>1, <2>3, SumsAgree
  <2> QED
    BY <2>4, <2>5 DEF V
<1> QED
  BY <1>1, <1>4, <1>5 DEF Q

LEMMA SumOfOneMore ==
  ASSUME NEW f, NEW S, IsFiniteSet(S), NEW x, x \notin S, \A y \in S \cup {x} : f[y] \in Nat
  PROVE  /\ SumFunctionOnSet(f, S \cup {x}) = SumFunctionOnSet(f, S) + f[x]
         /\ SumFunctionOnSet(f, S) \in Nat
<1> DEFINE T == S \cup {x}
<1>1. IsFiniteSet(T) /\ x \in T /\ T \ {x} = S
  BY FS_AddElement
<1>2. SumFunctionOnSet(f, T) = f[x] + SumFunctionOnSet(f, T \ {x})
  <2> HIDE DEF T
  <2>1. \A y \in T : f[y] \in Nat
    BY DEF T
  <2> QED
    BY <1>1, <2>1, SumTakesOff
<1>3. SumFunctionOnSet(f, S) \in Nat
  BY SumTakesOff
<1>4. SumFunctionOnSet(f, T) = f[x] + SumFunctionOnSet(f, S)
  BY <1>1, <1>2
<1>5. f[x] \in Nat
  OBVIOUS
<1>6. SumFunctionOnSet(f, T) = SumFunctionOnSet(f, S) + f[x]
  <2> HIDE DEF T
  <2> QED
    BY <1>3, <1>4, <1>5
<1> QED
  BY <1>3, <1>6

\* A sum is nothing only if all that is summed up is.
LEMMA SumIsNothing ==
  ASSUME NEW f, NEW S, IsFiniteSet(S), \A x \in S : f[x] \in Nat
  PROVE  SumFunctionOnSet(f, S) > 0 <=> \E x \in S : f[x] > 0
<1> DEFINE Q == {T \in SUBSET S : SumFunctionOnSet(f, T) > 0 <=> \E x \in T : f[x] > 0}
<1>1. ASSUME NEW T \in SUBSET S, \A U \in SUBSET T : U # T => U \in Q
      PROVE  T \in Q
  <2>1. CASE T = {}
    <3>1. SumFunctionOnSet(f, T) = 0
      BY <2>1, SumOfNone
    <3> QED
      BY <2>1, <3>1
  <2>2. CASE T # {}
    <3>1. PICK x \in T : TRUE
      BY <2>2
    <3>2. IsFiniteSet(T) /\ IsFiniteSet(T \ {x})
      BY FS_Subset
    <3>3. SumFunctionOnSet(f, T) = f[x] + SumFunctionOnSet(f, T \ {x})
      BY <3>2, SumTakesOff
    <3>4. SumFunctionOnSet(f, T \ {x}) \in Nat
      BY <3>2, SumTakesOff
    <3>5. T \ {x} \in Q
      BY <1>1, <3>1
    <3>6. f[x] \in Nat /\ \A y \in T : f[y] \in Nat
      OBVIOUS
    <3>7. SumFunctionOnSet(f, T \ {x}) > 0 <=> \E y \in T \ {x} : f[y] > 0
      BY <3>5
    <3> QED
      BY <3>3, <3>4, <3>6, <3>7
  <2> QED
    BY <2>1, <2>2
<1> HIDE DEF Q
<1>2. SUBSET S \subseteq Q
  BY <1>1, SubsetInduction
<1>3. S \in Q
  BY <1>2
<1> QED
  BY <1>3 DEF Q

\* Counting.
LEMMA SameCount ==
  ASSUME NEW S, IsFiniteSet(S), NEW T, NEW f \in [S -> T],
         \A x, y \in S : f[x] = f[y] => x = y, \A t \in T : \E x \in S : f[x] = t
  PROVE  IsFiniteSet(T) /\ Cardinality(T) = Cardinality(S)
<1>1. f \in Injection(S, T)
  BY DEF Injection, IsInjective
<1>2. f \in Surjection(S, T)
  BY DEF Surjection
<1>3. Cardinality(S) \in Nat
  BY FS_CardinalityType
<1> QED
  BY <1>1, <1>2, FS_Surjection

LEMMA CountInOrder ==
  ASSUME NEW I \in SUBSET Nat, IsFiniteSet(I)
  PROVE  /\ Cardinality(I) \in Nat /\ DOMAIN InOrder(I) = 1 .. Cardinality(I)
         /\ \A k \in 1 .. Cardinality(I) : InOrder(I)[k] \in I
         /\ \A i \in I : \E k \in 1 .. Cardinality(I) : InOrder(I)[k] = i
         /\ \A j, k \in 1 .. Cardinality(I) : j < k => InOrder(I)[j] < InOrder(I)[k]
<1> DEFINE n == Cardinality(I)
           below(i) == {j \in I : j < i}
           rank == [i \in I |-> Cardinality(below(i))]
<1>1. n \in Nat
  BY FS_CardinalityType
<1>2. \A i \in I : below(i) \in SUBSET I /\ IsFiniteSet(below(i)) /\ Cardinality(below(i)) \in Nat
  BY FS_Subset, FS_CardinalityType
<1>3. ASSUME NEW i \in I, NEW j \in I, i < j PROVE rank[i] < rank[j]
  <2>0. \A x \in I : x \in Nat
    OBVIOUS
  <2>1. below(i) \in SUBSET below(j) /\ i \in below(j) /\ i \notin below(i)
    <3>1. \A x \in I : x < i => x < j
      BY <2>0, <1>3
    <3>2. ~(i < i)
      BY <2>0
    <3> QED
      BY <3>1, <3>2, <1>3
  <2>2. Cardinality(below(i)) <= Cardinality(below(j))
    BY <1>2, <2>1, FS_Subset
  <2>3. Cardinality(below(j)) # Cardinality(below(i))
    BY <1>2, <2>1, FS_Subset
  <2> QED
    BY <1>2, <2>2, <2>3
<1>4. ASSUME NEW i \in I PROVE rank[i] \in 0 .. n - 1
  <2>1. below(i) \in SUBSET I /\ below(i) # I
    OBVIOUS
  <2>2. Cardinality(below(i)) <= n /\ Cardinality(below(i)) # n
    BY <2>1, FS_Subset
  <2> QED
    BY <1>1, <1>2, <2>2
<1>5. \A i, j \in I : rank[i] = rank[j] => i = j
  <2> SUFFICES ASSUME NEW i \in I, NEW j \in I, rank[i] = rank[j], i # j PROVE FALSE
    OBVIOUS
  <2>1. i < j \/ j < i
    OBVIOUS
  <2>2. rank[i] \in Nat
    BY <1>4, <1>1
  <2> HIDE DEF rank
  <2> QED
    BY <1>3, <2>1, <2>2
<1>6. rank \in Injection(I, 0 .. n - 1)
  <2>1. rank \in [I -> 0 .. n - 1]
    BY <1>4
  <2> HIDE DEF rank
  <2> QED
    BY <2>1, <1>5 DEF Injection, IsInjective
<1>7. IsFiniteSet(0 .. n - 1) /\ Cardinality(0 .. n - 1) = n
  <2> HIDE DEF n
  <2>1. 0 \in Int /\ n - 1 \in Int /\ (0 > n - 1 => n = 0) /\ (n - 1) - 0 + 1 = n
    BY <1>1
  <2> QED
    BY <2>1, FS_Interval
<1>8. rank \in Surjection(I, 0 .. n - 1)
  <2> HIDE DEF rank
  <2> QED
    BY <1>6, <1>7, FS_Injection
<1>9. ASSUME NEW k \in 1 .. n PROVE \E i \in I : Cardinality(below(i)) = k - 1
  <2>1. k - 1 \in 0 .. n - 1
    BY <1>1
  <2>2. PICK i \in I : rank[i] = k - 1
    <3> HIDE DEF rank
    <3> QED
      BY <1>8, <2>1 DEF Surjection
  <2> QED
    BY <2>2
<1>10. DOMAIN InOrder(I) = 1 .. n
  BY DEF InOrder
<1>11. ASSUME NEW k \in 1 .. n PROVE InOrder(I)[k] \in I /\ rank[InOrder(I)[k]] = k - 1
  <2>1. InOrder(I)[k] = CHOOSE i \in I : Cardinality(below(i)) = k - 1
    BY DEF InOrder
  <2>2. InOrder(I)[k] \in I /\ Cardinality(below(InOrder(I)[k])) = k - 1
    BY <1>9, <2>1
  <2> QED
    BY <2>2
<1>12. ASSUME NEW i \in I PROVE \E k \in 1 .. n : InOrder(I)[k] = i
  <2>1. rank[i] + 1 \in 1 .. n /\ (rank[i] + 1) - 1 = rank[i]
    BY <1>4, <1>1
  <2> HIDE DEF rank
  <2>2. rank[InOrder(I)[rank[i] + 1]] = rank[i] /\ InOrder(I)[rank[i] + 1] \in I
    BY <2>1, <1>11
  <2> QED
    BY <2>1, <2>2, <1>5
<1>13. ASSUME NEW j \in 1 .. n, NEW k \in 1 .. n, j < k PROVE InOrder(I)[j] < InOrder(I)[k]
  <2> DEFINE x == InOrder(I)[j]
             y == InOrder(I)[k]
  <2>1. x \in I /\ y \in I /\ rank[x] = j - 1 /\ rank[y] = k - 1
    BY <1>11
  <2> HIDE DEF rank, x, y
  <2>2. x < y \/ x = y \/ y < x
    BY <2>1
  <2>3. ~(rank[y] < rank[x]) /\ rank[x] # rank[y]
    BY <2>1, <1>13, <1>1
  <2>4. x < y
    BY <2>1, <2>2, <2>3, <1>3
  <2> QED
    BY <2>4 DEF x, y
<1> QED
  BY <1>1, <1>10, <1>11, <1>12, <1>13

\* Pairs are as many as there are to each second part, summed up.
FirstsOf(A, R, c) == {r \in R : <<r, c>> \in A}
LEMMA CountPairs ==
  ASSUME NEW R, IsFiniteSet(R), NEW C, IsFiniteSet(C), NEW A \in SUBSET (R \X C),
         NEW f, \A c \in C : f[c] = Cardinality(FirstsOf(A, R, c))
  PROVE  /\ IsFiniteSet(A) /\ Cardinality(A) = SumFunctionOnSet(f, C)
         /\ \A c \in C : f[c] \in Nat
<1> DEFINE of(T) == {a \in A : a[2] \in T}
           Q == {T \in SUBSET C : Cardinality(of(T)) = SumFunctionOnSet(f, T)}
<1>0. \A c \in C : f[c] = Cardinality({r \in R : <<r, c>> \in A})
  BY DEF FirstsOf
<1>1. IsFiniteSet(A)
  <2>1. IsFiniteSet(R \X C)
    BY FS_Product
  <2> QED
    BY <2>1, FS_Subset
<1>2. \A c \in C : IsFiniteSet({r \in R : <<r, c>> \in A}) /\ f[c] \in Nat
  <2> SUFFICES ASSUME NEW c \in C
               PROVE  IsFiniteSet({r \in R : <<r, c>> \in A}) /\ f[c] \in Nat
    OBVIOUS
  <2>1. {r \in R : <<r, c>> \in A} \in SUBSET R
    OBVIOUS
  <2>2. IsFiniteSet({r \in R : <<r, c>> \in A})
    BY <2>1, FS_Subset
  <2> QED
    BY <1>0, <2>2, FS_CardinalityType
<1>3. \A T \in SUBSET C : IsFiniteSet(of(T))
  <2>1. \A T \in SUBSET C : of(T) \in SUBSET A
    OBVIOUS
  <2> QED
    BY <1>1, <2>1, FS_Subset
<1>4. ASSUME NEW c \in C PROVE Cardinality(of({c})) = f[c]
  <2> DEFINE S == {r \in R : <<r, c>> \in A}
             g == [r \in S |-> <<r, c>>]
  <2>1. g \in [S -> of({c})]
    OBVIOUS
  <2>2. \A x, y \in S : g[x] = g[y] => x = y
    OBVIOUS
  <2>3. \A t \in of({c}) : \E x \in S : g[x] = t
    <3> SUFFICES ASSUME NEW t \in of({c}) PROVE \E x \in S : g[x] = t
      OBVIOUS
    <3>1. t = <<t[1], t[2]>> /\ t[1] \in R /\ t[2] = c
      OBVIOUS
    <3>2. t[1] \in S
      BY <3>1
    <3> QED
      BY <3>1, <3>2
  <2>4. IsFiniteSet(S)
    BY <1>2
  <2>5. f[c] = Cardinality(S)
    BY <1>0
  <2> DEFINE B == of({c})
  <2> HIDE DEF g, S, B
  <2>6. Cardinality(B) = Cardinality(S)
    <3>1. g \in [S -> B] /\ \A t \in B : \E x \in S : g[x] = t
      BY <2>1, <2>3 DEF B
    <3> QED
      BY <3>1, <2>2, <2>4, SameCount
  <2> QED
    BY <2>5, <2>6 DEF B
<1>5. ASSUME NEW T \in SUBSET C, \A U \in SUBSET T : U # T => U \in Q
      PROVE  T \in Q
  <2>1. CASE T = {}
    <3>1. of(T) = {}
      BY <2>1
    <3>2. Cardinality(of(T)) = 0
      BY <3>1, FS_EmptySet
    <3>3. SumFunctionOnSet(f, T) = 0
      BY <2>1, SumOfNone
    <3> QED
      BY <3>2, <3>3
  <2>2. CASE T # {}
    <3>1. PICK c \in T : TRUE
      BY <2>2
    <3> DEFINE U == T \ {c}
    <3>2. U \in Q /\ c \in C /\ U \in SUBSET C
      BY <1>5, <3>1
    <3>3. of(T) = of(U) \cup of({c}) /\ of(U) \cap of({c}) = {}
      BY <3>1
    <3>4. IsFiniteSet(of(U)) /\ IsFiniteSet(of({c})) /\ {c} \in SUBSET C
      BY <1>3, <3>2
    <3>5. Cardinality(of(T)) = Cardinality(of(U)) + Cardinality(of({c}))
      <4> DEFINE X == of(U)
                 Y == of({c})
      <4>1. X \cap Y = {} /\ of(T) = X \cup Y /\ IsFiniteSet(X) /\ IsFiniteSet(Y)
        BY <3>3, <3>4
      <4> HIDE DEF X, Y
      <4>2. Cardinality(X \cup Y) = Cardinality(X) + Cardinality(Y) - Cardinality(X \cap Y)
        BY <4>1, FS_Union
      <4>3. Cardinality(X \cap Y) = 0 /\ Cardinality(X) \in Nat /\ Cardinality(Y) \in Nat
        BY <4>1, FS_EmptySet, FS_CardinalityType
      <4>4. Cardinality(of(T)) = Cardinality(X) + Cardinality(Y)
        <5>1. Cardinality(of(T)) = Cardinality(X \cup Y)
          BY <4>1
        <5> HIDE DEF of
        <5> QED
          BY <5>1, <4>2, <4>3
      <4> QED
        BY <4>4 DEF X, Y
    <3>6. IsFiniteSet(T) /\ \A x \in T : f[x] \in Nat
      <4>1. IsFiniteSet(T)
        BY FS_Subset
      <4> QED
        BY <1>2, <4>1
    <3>7. SumFunctionOnSet(f, T) = f[c] + SumFunctionOnSet(f, U) /\ SumFunctionOnSet(f, U) \in Nat
      <4>1. SumFunctionOnSet(f, T) = f[c] + SumFunctionOnSet(f, T \ {c})
        BY <3>1, <3>6, SumTakesOff
      <4>2. IsFiniteSet(U) /\ \A x \in U : f[x] \in Nat
        BY <3>6, FS_Subset
      <4>3. SumFunctionOnSet(f, U) \in Nat
        <5> HIDE DEF U
        <5> QED
          BY <4>2, SumTakesOff
      <4> QED
        BY <4>1, <4>3
    <3>8. Cardinality(of(U)) = SumFunctionOnSet(f, U)
      BY <3>2
    <3>9. Cardinality(of({c})) = f[c] /\ f[c] \in Nat
      <4> HIDE DEF of
      <4> QED
        BY <1>2, <1>4, <3>2
    <3>10. Cardinality(of(T)) = SumFunctionOnSet(f, T)
      <4> HIDE DEF of, U
      <4> QED
        BY <3>5, <3>7, <3>8, <3>9
    <3> QED
      BY <3>10
  <2> QED
    BY <2>1, <2>2
<1>6. SUBSET C \subseteq Q
  <2> HIDE DEF Q
  <2> QED
    BY <1>5, SubsetInduction
<1>7. Cardinality(of(C)) = SumFunctionOnSet(f, C)
  BY <1>6
<1>8. of(C) = A
  OBVIOUS
<1>9. \A c \in C : f[c] \in Nat
  BY <1>2
<1> QED
  BY <1>1, <1>7, <1>8, <1>9

\* What is counted with one more for some is more by their number.
LEMMA SumWithExtra ==
  ASSUME NEW S, IsFiniteSet(S), NEW H \in SUBSET S, NEW f, NEW e,
         \A c \in S : e[c] \in Nat /\ f[c] = e[c] + (IF c \in H THEN 1 ELSE 0)
  PROVE  SumFunctionOnSet(f, S) = SumFunctionOnSet(e, S) + Cardinality(H)
<1> DEFINE count(T) == Cardinality({c \in T : c \in H})
           Q == {T \in SUBSET S :
                   SumFunctionOnSet(f, T) = SumFunctionOnSet(e, T) + count(T)}
<1>0. \A c \in S : f[c] \in Nat
  OBVIOUS
<1>1. ASSUME NEW T \in SUBSET S, \A U \in SUBSET T : U # T => U \in Q
      PROVE  T \in Q
  <2>1. CASE T = {}
    <3>1. SumFunctionOnSet(f, T) = 0 /\ SumFunctionOnSet(e, T) = 0
      BY <2>1, SumOfNone
    <3>2. {c \in T : c \in H} = {}
      BY <2>1
    <3>3. count(T) = 0
      BY <3>2, FS_EmptySet
    <3> HIDE DEF count
    <3> QED
      BY <3>1, <3>3
  <2>2. CASE T # {}
    <3>1. PICK x \in T : TRUE
      BY <2>2
    <3> DEFINE U == T \ {x}
    <3>2. U \in Q /\ IsFiniteSet(T) /\ IsFiniteSet(U) /\ x \in S /\ U \in SUBSET S
      BY <1>1, <3>1, FS_Subset
    <3>3. \A c \in T : f[c] \in Nat /\ e[c] \in Nat
      BY <1>0
    <3>4. SumFunctionOnSet(f, T) = f[x] + SumFunctionOnSet(f, U)
      BY <3>1, <3>2, <3>3, SumTakesOff
    <3>5. SumFunctionOnSet(e, T) = e[x] + SumFunctionOnSet(e, U)
      BY <3>1, <3>2, <3>3, SumTakesOff
    <3>6. SumFunctionOnSet(e, U) \in Nat /\ SumFunctionOnSet(f, U) \in Nat
      <4>1. \A c \in U : f[c] \in Nat /\ e[c] \in Nat
        BY <3>3
      <4> HIDE DEF U
      <4> QED
        BY <4>1, <3>2, SumTakesOff
    <3>7. count(T) = count(U) + (IF x \in H THEN 1 ELSE 0) /\ count(U) \in Nat
      <4> DEFINE V == {c \in U : c \in H}
      <4>1. IsFiniteSet(V) /\ Cardinality(V) \in Nat
        <5>1. V \subseteq U
          OBVIOUS
        <5> HIDE DEF U, V
        <5> QED
          BY <5>1, <3>2, FS_Subset, FS_CardinalityType
      <4>2. {c \in T : c \in H} = IF x \in H THEN V \cup {x} ELSE V
        BY <3>1
      <4>3. x \notin V
        OBVIOUS
      <4>4. Cardinality(V \cup {x}) = Cardinality(V) + 1
        <5> HIDE DEF V
        <5> QED
          BY <4>1, <4>3, FS_AddElement
      <4>5. count(U) = Cardinality(V)
        OBVIOUS
      <4>6. count(T) = IF x \in H THEN Cardinality(V \cup {x}) ELSE Cardinality(V)
        BY <4>2
      <4> HIDE DEF V, count
      <4> QED
        BY <4>1, <4>4, <4>5, <4>6
    <3>8. SumFunctionOnSet(f, U) = SumFunctionOnSet(e, U) + count(U)
      BY <3>2
    <3>9. e[x] \in Nat /\ f[x] = e[x] + (IF x \in H THEN 1 ELSE 0)
      BY <3>2
    <3>10. SumFunctionOnSet(f, T) = SumFunctionOnSet(e, T) + count(T)
      <4> HIDE DEF count, U
      <4> QED
        BY <3>4, <3>5, <3>6, <3>7, <3>8, <3>9
    <3> QED
      BY <3>10
  <2> QED
    BY <2>1, <2>2
<1> HIDE DEF Q
<1>2. SUBSET S \subseteq Q
  BY <1>1, SubsetInduction
<1>3. S \in Q
  BY <1>2
<1>4. {c \in S : c \in H} = H
  OBVIOUS
<1>5. SumFunctionOnSet(f, S) = SumFunctionOnSet(e, S) + count(S)
  BY <1>3 DEF Q
<1> QED
  BY <1>4, <1>5

-----------------------------------------------------------------------------
\* The cells of a sheet.
LEMMA SheetFacts ==
  ASSUME NEW s, IsSheet(s)
  PROVE  /\ MinRow(s) \in Nat \ {0} /\ MaxRow(s) \in Nat \ {0} /\ MinRow(s) <= MaxRow(s)
         /\ MaxCol(s) \in Nat \ {0} /\ Len(s.rows) \in Nat
         /\ \A r \in 1 .. MinRow(s) - 1 : \A c \in Columns(s) : At(s, r, c) = Blank
<1>1. s.top \in Nat \ {0} /\ s.rows \in Seq(Seq(Cell)) /\ s.rows # <<>> /\ s.rows[1] # <<>>
  BY DEF IsSheet
<1>2. Len(s.rows) \in Nat \ {0} /\ s.rows[1] \in Seq(Cell)
  BY <1>1, EmptySeq
<1>3. Len(s.rows[1]) \in Nat \ {0}
  BY <1>1, <1>2
<1> QED
  BY <1>1, <1>2, <1>3 DEF MinRow, MaxRow, MaxCol, At

LEMMA PlacesDiffer ==
  ASSUME NEW s, IsSheet(s), NEW a \in Cells(s), NEW b \in Cells(s), Place(s, a) = Place(s, b)
  PROVE  a = b
<1> DEFINE C == MaxCol(s)
<1>1. C \in Nat \ {0}
  BY SheetFacts
<1>2. a = <<a[1], a[2]>> /\ b = <<b[1], b[2]>>
  BY DEF Cells
<1>3. a[1] \in Nat \ {0} /\ b[1] \in Nat \ {0} /\ a[2] \in 1 .. C /\ b[2] \in 1 .. C
  BY SheetFacts DEF Cells, Columns
<1>4. (a[1] - 1) * C + a[2] = (b[1] - 1) * C + b[2]
  BY DEF Place
<1> HIDE DEF C
<1>5. \A m, n, i, j, d \in Nat : m < n /\ i <= d /\ 1 <= j => m * d + i < n * d + j
  <2> SUFFICES ASSUME NEW m \in Nat, NEW n \in Nat, NEW i \in Nat, NEW j \in Nat, NEW d \in Nat,
                      m < n, i <= d, 1 <= j
               PROVE  m * d + i < n * d + j
    OBVIOUS
  <2>1. n - m - 1 \in Nat /\ n = m + 1 + (n - m - 1)
    OBVIOUS
  <2> DEFINE k == n - m - 1
  <2>2. k \in Nat /\ n = m + 1 + k
    BY <2>1
  <2> HIDE DEF k
  <2>3. n * d = m * d + d + k * d
    BY <2>2
  <2>4. k * d \in Nat /\ m * d \in Nat
    BY <2>2
  <2> QED
    BY <2>3, <2>4
<1>6. a[1] - 1 \in Nat /\ b[1] - 1 \in Nat /\ a[2] \in Nat /\ b[2] \in Nat /\ C \in Nat
      /\ a[2] <= C /\ 1 <= a[2] /\ b[2] <= C /\ 1 <= b[2]
  BY <1>1, <1>3
<1>7. ~(a[1] - 1 < b[1] - 1)
  <2>1. a[1] - 1 < b[1] - 1 => (a[1] - 1) * C + a[2] < (b[1] - 1) * C + b[2]
    BY <1>5, <1>6
  <2>2. (a[1] - 1) * C + a[2] \in Nat
    BY <1>6
  <2> QED
    BY <1>4, <2>1, <2>2
<1>8. ~(b[1] - 1 < a[1] - 1)
  <2>1. b[1] - 1 < a[1] - 1 => (b[1] - 1) * C + b[2] < (a[1] - 1) * C + a[2]
    BY <1>5, <1>6
  <2>2. (a[1] - 1) * C + a[2] \in Nat
    BY <1>6
  <2> QED
    BY <1>4, <2>1, <2>2
<1>9. a[1] = b[1]
  BY <1>3, <1>7, <1>8
<1>10. a[2] = b[2]
  <2>1. (a[1] - 1) * C \in Nat
    BY <1>6
  <2> QED
    BY <1>4, <1>9, <1>6, <2>1
<1> QED
  BY <1>2, <1>9, <1>10

\* ByRows has each of the cells, at one place.
LEMMA CellsByRows ==
  ASSUME NEW s, IsSheet(s), NEW cells \in SUBSET Cells(s)
  PROVE  /\ IsFiniteSet(cells) /\ Cardinality(cells) \in Nat
         /\ DOMAIN ByRows(s, cells) = 1 .. Cardinality(cells)
         /\ \A i \in 1 .. Cardinality(cells) : ByRows(s, cells)[i] \in cells
<1> DEFINE I == {Place(s, a) : a \in cells}
           f == [a \in cells |-> Place(s, a)]
<1>1. IsFiniteSet(cells)
  <2>1. IsFiniteSet(1 .. MaxRow(s)) /\ IsFiniteSet(1 .. MaxCol(s))
    BY SheetFacts, FS_Interval
  <2>2. IsFiniteSet(Cells(s))
    BY <2>1, FS_Product DEF Cells, Columns
  <2> QED
    BY <2>2, FS_Subset
<1>2. I \in SUBSET Nat
  <2> SUFFICES ASSUME NEW a \in cells PROVE Place(s, a) \in Nat
    OBVIOUS
  <2>1. a[1] - 1 \in Nat /\ a[2] \in Nat /\ MaxCol(s) \in Nat
    BY SheetFacts DEF Cells, Columns
  <2> QED
    BY <2>1 DEF Place
<1>3. IsFiniteSet(I) /\ Cardinality(I) = Cardinality(cells)
  <2>1. f \in [cells -> I]
    OBVIOUS
  <2>2. \A a, b \in cells : f[a] = f[b] => a = b
    BY PlacesDiffer
  <2>3. \A i \in I : \E a \in cells : f[a] = i
    OBVIOUS
  <2> HIDE DEF f, I
  <2> QED
    BY <1>1, <2>1, <2>2, <2>3, SameCount
<1>4. /\ Cardinality(I) \in Nat /\ DOMAIN InOrder(I) = 1 .. Cardinality(I)
      /\ \A k \in 1 .. Cardinality(I) : InOrder(I)[k] \in I
  <2> HIDE DEF I
  <2> QED
    BY <1>2, <1>3, CountInOrder
<1>5. DOMAIN ByRows(s, cells) = DOMAIN InOrder(I)
  BY DEF ByRows
<1>6. ASSUME NEW i \in DOMAIN InOrder(I) PROVE ByRows(s, cells)[i] \in cells
  <2>1. ByRows(s, cells)[i] = CHOOSE a \in cells : Place(s, a) = InOrder(I)[i]
    BY <1>6 DEF ByRows
  <2>2. InOrder(I)[i] \in I
    BY <1>4, <1>6
  <2>3. \E a \in cells : Place(s, a) = InOrder(I)[i]
    BY <2>2
  <2> QED
    BY <2>1, <2>3
<1> HIDE DEF I
<1> QED
  BY <1>1, <1>3, <1>4, <1>5, <1>6

\* What is counted by columns below the header, with what the header row has, is all there is.
LEMMA CellsByColumns ==
  ASSUME NEW s, IsSheet(s), NEW A \in SUBSET Cells(s), \A a \in A : MinRow(s) <= a[1]
  PROVE  /\ Cardinality(A) =
              SumFunctionOnSet([c \in Columns(s) |-> Cardinality({r \in DataRows(s) : <<r, c>> \in A})],
                               Columns(s))
                + Cardinality({c \in Columns(s) : <<MinRow(s), c>> \in A})
         /\ \A c \in Columns(s) : Cardinality({r \in DataRows(s) : <<r, c>> \in A}) \in Nat
<1> DEFINE R == 1 .. MaxRow(s)
           C == Columns(s)
           f == [c \in C |-> Cardinality({r \in R : <<r, c>> \in A})]
           e == [c \in C |-> Cardinality({r \in DataRows(s) : <<r, c>> \in A})]
           H == {c \in C : <<MinRow(s), c>> \in A}
<1>1. IsFiniteSet(R) /\ IsFiniteSet(C) /\ A \in SUBSET (R \X C)
  BY SheetFacts, FS_Interval DEF Cells, Columns
<1>2. Cardinality(A) = SumFunctionOnSet(f, C)
  <2>1. \A c \in C : f[c] = Cardinality(FirstsOf(A, R, c))
    BY DEF FirstsOf
  <2> HIDE DEF R, C, f
  <2> QED
    BY <1>1, <2>1, CountPairs
<1>3. ASSUME NEW c \in C PROVE e[c] \in Nat /\ f[c] = e[c] + (IF c \in H THEN 1 ELSE 0)
  <2> DEFINE X == {r \in DataRows(s) : <<r, c>> \in A}
             Y == {r \in R : <<r, c>> \in A}
             m == MinRow(s)
  <2>1. m \in Nat \ {0} /\ MaxRow(s) \in Nat /\ m <= MaxRow(s)
    BY SheetFacts
  <2>2. ASSUME NEW r \in R, <<r, c>> \in A PROVE r = m \/ r \in DataRows(s)
    <3>1. m <= r /\ r \in Nat /\ r <= MaxRow(s)
      <4>1. <<r, c>>[1] = r
        OBVIOUS
      <4>2. MinRow(s) <= <<r, c>>[1]
        BY <2>2
      <4> QED
        BY <4>1, <4>2, <2>1
    <3> QED
      BY <3>1, <2>1 DEF DataRows
  <2>3. Y = IF c \in H THEN X \cup {m} ELSE X
    <3>1. \A r \in DataRows(s) : r \in R
      BY <2>1 DEF DataRows
    <3>2. m \in R
      BY <2>1
    <3>3. c \in H <=> <<m, c>> \in A
      OBVIOUS
    <3>4. \A r \in Y : r \in X \/ (r = m /\ c \in H)
      BY <2>2, <3>3
    <3>5. \A r \in X : r \in Y
      BY <3>1
    <3>6. c \in H => m \in Y
      BY <3>2, <3>3
    <3> HIDE DEF X, Y, H, m
    <3> QED
      BY <3>4, <3>5, <3>6
  <2>4. m \notin X
    BY <2>1 DEF DataRows
  <2>5. IsFiniteSet(X) /\ Cardinality(X) \in Nat
    <3>1. IsFiniteSet(DataRows(s))
      BY <2>1, FS_Interval DEF DataRows
    <3>2. X \subseteq DataRows(s)
      OBVIOUS
    <3> HIDE DEF X
    <3> QED
      BY <3>1, <3>2, FS_Subset, FS_CardinalityType
  <2>6. Cardinality(X \cup {m}) = Cardinality(X) + 1
    <3> HIDE DEF X, m
    <3> QED
      BY <2>4, <2>5, FS_AddElement
  <2>7. f[c] = Cardinality(Y) /\ e[c] = Cardinality(X)
    OBVIOUS
  <2> HIDE DEF X, Y, H, m, f, e
  <2> QED
    BY <2>3, <2>5, <2>6, <2>7
<1>5. SumFunctionOnSet(f, C) = SumFunctionOnSet(e, C) + Cardinality(H)
  <2> HIDE DEF f, e, C, H
  <2>1. \A c \in C : e[c] \in Nat /\ f[c] = e[c] + (IF c \in H THEN 1 ELSE 0)
    BY <1>3
  <2>2. H \in SUBSET C
    BY DEF H
  <2> QED
    BY <1>1, <2>1, <2>2, SumWithExtra
<1>6. \A c \in C : Cardinality({r \in DataRows(s) : <<r, c>> \in A}) \in Nat
  BY <1>3
<1> QED
  BY <1>2, <1>5, <1>6

\* The lists of a sheet are as long as what its columns and its header row count.
LEMMA SheetCounts ==
  ASSUME NEW s, IsSheet(s)
  PROVE  LET a == AnalyzeSheet(s)
         IN  /\ Len(a.errors) \in Nat /\ Len(a.formulas) \in Nat
             /\ DOMAIN a.errors = 1 .. Len(a.errors) /\ DOMAIN a.formulas = 1 .. Len(a.formulas)
             /\ DOMAIN a.columns = Columns(s)
             /\ Len(a.errors) =
                  SumFunction([c \in DOMAIN a.columns |-> a.columns[c].errors])
                    + Cardinality({c \in Columns(s) : Value(s, MinRow(s), c).type = "error"})
             /\ Len(a.formulas) =
                  SumFunction([c \in DOMAIN a.columns |-> a.columns[c].formulas])
                    + Cardinality({c \in Columns(s) : Formula(s, MinRow(s), c).is})
             /\ \A c \in Columns(s) : a.columns[c].non_null + a.columns[c].null = a.row_count - 1
<1> DEFINE a == AnalyzeSheet(s)
           E == {p \in Cells(s) : Value(s, p[1], p[2]).type = "error"}
           F == {p \in Cells(s) : Formula(s, p[1], p[2]).is}
           above(p) == p[1] < MinRow(s)
<1>1. MinRow(s) \in Nat \ {0} /\ MaxRow(s) \in Nat \ {0} /\ MinRow(s) <= MaxRow(s)
  BY SheetFacts
<1>2. \A p \in Cells(s) : p[1] \in 1 .. MaxRow(s) /\ p[2] \in Columns(s)
  BY DEF Cells
<1>3. \A p \in Cells(s) : p[1] < MinRow(s) => At(s, p[1], p[2]) = Blank
  <2> SUFFICES ASSUME NEW p \in Cells(s), p[1] < MinRow(s) PROVE At(s, p[1], p[2]) = Blank
    OBVIOUS
  <2>1. p[1] \in 1 .. MinRow(s) - 1
    BY <1>1, <1>2
  <2> QED
    BY <2>1, <1>2, SheetFacts
<1>4. E \in SUBSET Cells(s) /\ \A p \in E : MinRow(s) <= p[1]
  <2>1. ASSUME NEW p \in E PROVE MinRow(s) <= p[1]
    <3>1. At(s, p[1], p[2]) # Blank
      <4>1. At(s, p[1], p[2]).value.type = "error"
        BY DEF Value
      <4>2. Blank.value.type = "none"
        BY DEF Blank, None
      <4> QED
        BY <4>1, <4>2
    <3> QED
      BY <3>1, <1>1, <1>2, <1>3
  <2> QED
    BY <2>1
<1>5. F \in SUBSET Cells(s) /\ \A p \in F : MinRow(s) <= p[1]
  <2>1. ASSUME NEW p \in F PROVE MinRow(s) <= p[1]
    <3>1. At(s, p[1], p[2]) # Blank
      BY DEF Formula, Blank, NoFormula
    <3> QED
      BY <3>1, <1>1, <1>2, <1>3
  <2> QED
    BY <2>1
<1>6. /\ Cardinality(E) \in Nat /\ DOMAIN ByRows(s, E) = 1 .. Cardinality(E)
      /\ Cardinality(F) \in Nat /\ DOMAIN ByRows(s, F) = 1 .. Cardinality(F)
  <2> HIDE DEF E, F
  <2> QED
    BY <1>4, <1>5, CellsByRows
<1>7. a.errors = ExtractErrors(s) /\ a.formulas = ExtractFormulas(s)
      /\ a.columns = [c \in Columns(s) |-> AnalyzeColumn(s, c)]
      /\ a.row_count = MaxRow(s) - MinRow(s) + 1
  BY DEF AnalyzeSheet
<1>8. DOMAIN a.errors = 1 .. Cardinality(E) /\ DOMAIN a.formulas = 1 .. Cardinality(F)
  <2>1. DOMAIN ExtractErrors(s) = DOMAIN ByRows(s, E)
    BY DEF ExtractErrors
  <2>2. DOMAIN ExtractFormulas(s) = DOMAIN ByRows(s, F)
    BY DEF ExtractFormulas
  <2> HIDE DEF a, E, F
  <2> QED
    BY <1>6, <1>7, <2>1, <2>2
<1>9. Len(a.errors) = Cardinality(E) /\ Len(a.formulas) = Cardinality(F)
  <2>1. \A q, n : n \in Nat /\ DOMAIN q = 1 .. n => Len(q) = n
    OBVIOUS
  <2> HIDE DEF a, E, F
  <2> QED
    BY <1>6, <1>8, <2>1
<1>10. \A c \in Columns(s) : \A r \in 1 .. MaxRow(s) :
         /\ <<r, c>> \in E <=> Value(s, r, c).type = "error"
         /\ <<r, c>> \in F <=> Formula(s, r, c).is
  BY DEF Cells
<1>11. MinRow(s) \in 1 .. MaxRow(s) /\ \A r \in DataRows(s) : r \in 1 .. MaxRow(s)
  BY <1>1 DEF DataRows
<1>12. \A c \in Columns(s) :
         /\ a.columns[c].errors = Cardinality({r \in DataRows(s) : <<r, c>> \in E})
         /\ a.columns[c].formulas = Cardinality({r \in DataRows(s) : <<r, c>> \in F})
         /\ a.columns[c].non_null + a.columns[c].null = a.row_count - 1
  <2> SUFFICES ASSUME NEW c \in Columns(s)
               PROVE  /\ a.columns[c].errors = Cardinality({r \in DataRows(s) : <<r, c>> \in E})
                      /\ a.columns[c].formulas = Cardinality({r \in DataRows(s) : <<r, c>> \in F})
                      /\ a.columns[c].non_null + a.columns[c].null = a.row_count - 1
    OBVIOUS
  <2> DEFINE k == AnalyzeColumn(s, c)
  <2>1. /\ k.errors = Cardinality({r \in DataRows(s) : Value(s, r, c).type = "error"})
        /\ k.formulas = Cardinality({r \in DataRows(s) : Formula(s, r, c).is})
        /\ k.non_null = Len(ColumnValues(s, c))
        /\ k.null = MaxRow(s) - MinRow(s) - Len(ColumnValues(s, c))
    BY DEF AnalyzeColumn, ColumnAnalysis
  <2>2. {r \in DataRows(s) : Value(s, r, c).type = "error"} = {r \in DataRows(s) : <<r, c>> \in E}
    BY <1>10, <1>11
  <2>3. {r \in DataRows(s) : Formula(s, r, c).is} = {r \in DataRows(s) : <<r, c>> \in F}
    BY <1>10, <1>11
  <2>4. a.columns[c] = k
    BY <1>7
  <2>5. Len(ColumnValues(s, c)) \in Nat
    <3> DEFINE I == {r \in DataRows(s) : Value(s, r, c).type # "none"}
    <3>1. I \in SUBSET Nat /\ IsFiniteSet(I)
      <4>1. IsFiniteSet(DataRows(s)) /\ DataRows(s) \subseteq Nat
        <5>1. MinRow(s) + 1 \in Int /\ MaxRow(s) \in Int /\ MinRow(s) + 1 .. MaxRow(s) \subseteq Nat
          BY <1>1
        <5> QED
          BY <5>1, FS_Interval DEF DataRows
      <4>2. I \subseteq DataRows(s)
        OBVIOUS
      <4> HIDE DEF I
      <4> QED
        BY <4>1, <4>2, FS_Subset
    <3>2. DOMAIN ColumnValues(s, c) = DOMAIN InOrder(I)
      BY DEF ColumnValues
    <3>3. DOMAIN InOrder(I) = 1 .. Cardinality(I) /\ Cardinality(I) \in Nat
      <4> HIDE DEF I
      <4> QED
        BY <3>1, CountInOrder
    <3> HIDE DEF I
    <3> QED
      BY <3>2, <3>3
  <2> HIDE DEF k, a, E, F
  <2>6. a.columns[c].non_null + a.columns[c].null = a.row_count - 1
    BY <2>1, <2>4, <2>5, <1>7, <1>1
  <2> QED
    BY <2>1, <2>2, <2>3, <2>4, <2>6
<1>13. DOMAIN a.columns = Columns(s)
  BY <1>7
<1>14. IsFiniteSet(Columns(s))
  BY SheetFacts, FS_Interval DEF Columns
<1>15. Cardinality(E) = SumFunction([c \in DOMAIN a.columns |-> a.columns[c].errors])
                    + Cardinality({c \in Columns(s) : Value(s, MinRow(s), c).type = "error"})
  <2> DEFINE e == [c \in Columns(s) |-> Cardinality({r \in DataRows(s) : <<r, c>> \in E})]
             g == [c \in DOMAIN a.columns |-> a.columns[c].errors]
  <2>1. Cardinality(E) = SumFunctionOnSet(e, Columns(s))
                           + Cardinality({c \in Columns(s) : <<MinRow(s), c>> \in E})
    <3> HIDE DEF E
    <3> QED
      BY <1>4, CellsByColumns
  <2>2. {c \in Columns(s) : <<MinRow(s), c>> \in E}
          = {c \in Columns(s) : Value(s, MinRow(s), c).type = "error"}
    BY <1>10, <1>11
  <2>3. g = e
    <3> HIDE DEF a, E
    <3> QED
      BY <1>12, <1>13
  <2>4. SumFunction(g) = SumFunctionOnSet(e, Columns(s))
    <3> HIDE DEF E, a
    <3> QED
      BY <2>3, <1>13 DEF SumFunction
  <2> HIDE DEF a, E, e
  <2> QED
    BY <2>1, <2>2, <2>4
<1>16. Cardinality(F) = SumFunction([c \in DOMAIN a.columns |-> a.columns[c].formulas])
                    + Cardinality({c \in Columns(s) : Formula(s, MinRow(s), c).is})
  <2> DEFINE e == [c \in Columns(s) |-> Cardinality({r \in DataRows(s) : <<r, c>> \in F})]
             g == [c \in DOMAIN a.columns |-> a.columns[c].formulas]
  <2>1. Cardinality(F) = SumFunctionOnSet(e, Columns(s))
                           + Cardinality({c \in Columns(s) : <<MinRow(s), c>> \in F})
    <3> HIDE DEF F
    <3> QED
      BY <1>5, CellsByColumns
  <2>2. {c \in Columns(s) : <<MinRow(s), c>> \in F}
          = {c \in Columns(s) : Formula(s, MinRow(s), c).is}
    BY <1>10, <1>11
  <2>3. g = e
    <3> HIDE DEF a, F
    <3> QED
      BY <1>12, <1>13
  <2>4. SumFunction(g) = SumFunctionOnSet(e, Columns(s))
    <3> HIDE DEF F, a
    <3> QED
      BY <2>3, <1>13 DEF SumFunction
  <2> HIDE DEF a, F, e
  <2> QED
    BY <2>1, <2>2, <2>4
<1> HIDE DEF a, E, F
<1>17. Len(a.errors) \in Nat /\ Len(a.formulas) \in Nat
       /\ DOMAIN a.errors = 1 .. Len(a.errors) /\ DOMAIN a.formulas = 1 .. Len(a.formulas)
  BY <1>6, <1>8, <1>9
<1>18. \A c \in Columns(s) : a.columns[c].non_null + a.columns[c].null = a.row_count - 1
  BY <1>12
<1> QED
  BY <1>9, <1>13, <1>15, <1>16, <1>17, <1>18 DEF a

\* Groups of a list by a key.
LEMMA RangeIsFinite ==
  ASSUME NEW keys, NEW n \in Nat, DOMAIN keys = 1 .. n
  PROVE  IsFiniteSet(Range(keys))
<1>1. IsFiniteSet(1 .. n)
  BY FS_Interval
<1>2. Range(keys) = {keys[i] : i \in 1 .. n}
  BY DEF Range
<1> DEFINE f == [i \in 1 .. n |-> keys[i]]
           T == Range(keys)
<1>3. f \in Surjection(1 .. n, T)
  BY <1>2 DEF Surjection
<1> HIDE DEF f, T
<1>4. IsFiniteSet(T)
  BY <1>1, <1>3, FS_Surjection
<1> QED
  BY <1>4 DEF T

\* The groups of a list are as large together as the list is long.
LEMMA GroupsAddUp ==
  ASSUME NEW keys, NEW n \in Nat, DOMAIN keys = 1 .. n
  PROVE  SumFunction(GroupSizes(keys)) = n
<1> DEFINE R == 1 .. n
           C == Range(keys)
           f == GroupSizes(keys)
           A == {<<i, keys[i]>> : i \in R}
           g == [i \in R |-> <<i, keys[i]>>]
<1>1. IsFiniteSet(R) /\ Cardinality(R) = n /\ IsFiniteSet(C)
  BY FS_Interval, RangeIsFinite
<1>2. A \in SUBSET (R \X C)
  BY DEF Range
<1>3. ASSUME NEW k \in C PROVE f[k] = Cardinality(FirstsOf(A, R, k))
  <2>1. f[k] = Cardinality({i \in R : keys[i] = k})
    BY DEF GroupSizes
  <2>2. {i \in R : keys[i] = k} = FirstsOf(A, R, k)
    BY DEF FirstsOf
  <2> QED
    BY <2>1, <2>2
<1>4. Cardinality(A) = n
  <2>1. g \in [R -> A]
    OBVIOUS
  <2>2. \A x, y \in R : g[x] = g[y] => x = y
    OBVIOUS
  <2>3. \A t \in A : \E x \in R : g[x] = t
    OBVIOUS
  <2> HIDE DEF R, A, g
  <2> QED
    BY <1>1, <2>1, <2>2, <2>3, SameCount
<1>5. DOMAIN f = C
  BY DEF GroupSizes
<1>6. Cardinality(A) = SumFunctionOnSet(f, C)
  <2> HIDE DEF R, A, C, f
  <2> QED
    BY <1>1, <1>2, <1>3, CountPairs
<1> HIDE DEF A, C, f
<1>7. SumFunction(f) = n
  BY <1>4, <1>5, <1>6 DEF SumFunction
<1> QED
  BY <1>7 DEF f

\* A listing tells of every entry of its list.
KeyPlaces(keys, k) == {i \in DOMAIN keys : keys[i] = k}

LEMMA PlacesOfKey ==
  ASSUME NEW keys, NEW n \in Nat, DOMAIN keys = 1 .. n, NEW k \in Range(keys)
  PROVE  LET I == KeyPlaces(keys, k)
             m == Cardinality(I)
         IN  /\ m \in Nat /\ InOrder(I) \in Seq(Nat) /\ Len(InOrder(I)) = m
             /\ \A j \in 1 .. m : InOrder(I)[j] \in I
             /\ \A i \in I : \E j \in 1 .. m : InOrder(I)[j] = i
             /\ \A i, j \in 1 .. m : i < j => InOrder(I)[i] < InOrder(I)[j]
             /\ GroupSizes(keys)[k] = m
<1> DEFINE I == KeyPlaces(keys, k)
           m == Cardinality(I)
<1>1. I \in SUBSET Nat /\ IsFiniteSet(I)
  <2>1. IsFiniteSet(1 .. n) /\ I \subseteq 1 .. n
    BY FS_Interval DEF KeyPlaces
  <2> QED
    BY <2>1, FS_Subset
<1>2. GroupSizes(keys)[k] = m
  BY DEF GroupSizes, KeyPlaces
<1> HIDE DEF I
<1>3. /\ m \in Nat /\ DOMAIN InOrder(I) = 1 .. m
      /\ \A j \in 1 .. m : InOrder(I)[j] \in I
      /\ \A i \in I : \E j \in 1 .. m : InOrder(I)[j] = i
      /\ \A i, j \in 1 .. m : i < j => InOrder(I)[i] < InOrder(I)[j]
  BY <1>1, CountInOrder
<1>4. InOrder(I) \in [1 .. m -> Nat]
  <2>1. InOrder(I) = [j \in 1 .. m |-> InOrder(I)[j]]
    BY <1>3 DEF InOrder
  <2>2. \A j \in 1 .. m : InOrder(I)[j] \in Nat
    BY <1>1, <1>3
  <2> QED
    BY <2>1, <2>2
<1>5. ASSUME NEW l \in Nat, NEW f \in [1 .. l -> Nat]
      PROVE  f \in Seq(Nat) /\ Len(f) = l
  OBVIOUS
<1> HIDE DEF m
<1>6. InOrder(I) \in Seq(Nat) /\ Len(InOrder(I)) = m
  BY <1>3, <1>4, <1>5
<1> QED
  BY <1>2, <1>3, <1>6 DEF I, m

LEMMA ListingTells ==
  ASSUME NEW keys, NEW n \in Nat, DOMAIN keys = 1 .. n, keys = [i \in 1 .. n |-> keys[i]]
  PROVE  TellsAll(Listing(keys), keys)
<1> DEFINE all(k) == InOrder(KeyPlaces(keys, k))
           listing == Listing(keys)
<1>1. Len(keys) = n
  <2>1. keys \in [1 .. n -> Range(keys)]
    BY DEF Range
  <2> QED
    BY <2>1
<1>2. /\ DOMAIN listing = Range(keys)
      /\ \A k \in Range(keys) : listing[k] =
           IF Len(all(k)) > ListLimit
             THEN [count |-> Len(all(k)), listed |-> SubSeq(all(k), 1, ListLimit),
                   more |-> Len(all(k)) - ListLimit]
             ELSE [count |-> Len(all(k)), listed |-> all(k), more |-> 0]
  BY DEF Listing, KeyPlaces
<1> HIDE DEF listing
<1>3. ASSUME NEW k \in Range(keys)
      PROVE  /\ listing[k].count = GroupSizes(keys)[k]
             /\ listing[k].count = Len(listing[k].listed) + listing[k].more
             /\ \A i \in KeyPlaces(keys, k) :
                  \/ i \in Range(listing[k].listed)
                  \/ /\ listing[k].more > 0 /\ Len(listing[k].listed) = ListLimit
                     /\ \A j \in Range(listing[k].listed) : j < i
  <2> DEFINE s == all(k)
  <2>1. PICK m \in Nat :
          /\ s \in Seq(Nat) /\ Len(s) = m
          /\ \A i \in KeyPlaces(keys, k) : \E j \in 1 .. m : s[j] = i
          /\ \A i, j \in 1 .. m : i < j => s[i] < s[j]
          /\ GroupSizes(keys)[k] = m
    BY PlacesOfKey
  <2>2. listing[k] = IF Len(s) > ListLimit
                       THEN [count |-> Len(s), listed |-> SubSeq(s, 1, ListLimit),
                             more |-> Len(s) - ListLimit]
                       ELSE [count |-> Len(s), listed |-> s, more |-> 0]
    BY <1>2
  <2> HIDE DEF s
  <2>3. CASE m > ListLimit
    <3> DEFINE t == SubSeq(s, 1, ListLimit)
    <3>1. listing[k].count = m /\ listing[k].listed = t /\ listing[k].more = m - ListLimit
      <4>1. Len(s) = m /\ Len(s) > ListLimit
        BY <2>1, <2>3
      <4>2. listing[k] = [count |-> m, listed |-> t, more |-> m - ListLimit]
        BY <2>2, <4>1
      <4> HIDE DEF t
      <4> QED
        BY <4>2
    <3>2. t \in Seq(Nat) /\ Len(t) = ListLimit /\ \A j \in 1 .. ListLimit : t[j] = s[j]
      BY <2>1, <2>3, ListAssumption
    <3>3. Range(t) = {s[j] : j \in 1 .. ListLimit}
      <4> HIDE DEF t
      <4>1. DOMAIN t = 1 .. ListLimit
        BY <3>2
      <4> QED
        BY <3>2, <4>1 DEF Range
    <3>4. ASSUME NEW i \in KeyPlaces(keys, k)
          PROVE  i \in Range(t) \/ \A j \in Range(t) : j < i
      <4>1. PICK l \in 1 .. m : s[l] = i
        BY <2>1
      <4>2. CASE l <= ListLimit
        <5>1. l \in 1 .. ListLimit
          BY <4>2, ListAssumption
        <5> QED
          BY <3>3, <4>1, <5>1
      <4>3. CASE ~(l <= ListLimit)
        <5>1. \A j \in 1 .. ListLimit : j \in 1 .. m /\ j < l
          BY <2>3, <4>3, ListAssumption
        <5>2. \A j \in 1 .. ListLimit : s[j] < i
          BY <2>1, <4>1, <5>1
        <5> QED
          BY <3>3, <5>2
      <4> QED
        BY <4>2, <4>3
    <3>5. m = ListLimit + (m - ListLimit) /\ m - ListLimit > 0
      BY <2>3, ListAssumption
    <3> HIDE DEF t
    <3> QED
      BY <2>1, <3>1, <3>2, <3>4, <3>5
  <2>4. CASE ~(m > ListLimit)
    <3>1. listing[k].count = m /\ listing[k].listed = s /\ listing[k].more = 0
      BY <2>1, <2>2, <2>4
    <3>2. DOMAIN s = 1 .. m
      BY <2>1
    <3>3. \A i \in KeyPlaces(keys, k) : i \in Range(s)
      BY <2>1, <3>2 DEF Range
    <3> QED
      BY <2>1, <3>1, <3>3
  <2> QED
    BY <2>3, <2>4
<1>4. SumFunction([k \in DOMAIN listing |-> listing[k].count]) = n
  <2>1. [k \in DOMAIN listing |-> listing[k].count] = GroupSizes(keys)
    <3>1. GroupSizes(keys) = [k \in Range(keys) |-> GroupSizes(keys)[k]]
      BY DEF GroupSizes
    <3> QED
      BY <1>2, <1>3, <3>1
  <2> QED
    BY <2>1, GroupsAddUp
<1>5. \A i \in DOMAIN keys : keys[i] \in Range(keys) /\ i \in KeyPlaces(keys, keys[i])
  BY DEF Range, KeyPlaces
<1> QED
  BY <1>1, <1>2, <1>3, <1>4, <1>5 DEF TellsAll, listing

\* Each key of a list is in KeysInOrder, at one place.
LEMMA EachKeyOnce ==
  ASSUME NEW keys, NEW n \in Nat, DOMAIN keys = 1 .. n
  PROVE  /\ \E m \in Nat : DOMAIN KeysInOrder(keys) = 1 .. m
         /\ \A c \in 1 .. n : \E k \in DOMAIN KeysInOrder(keys) :
              /\ KeysInOrder(keys)[k] = keys[c]
              /\ \A j \in DOMAIN KeysInOrder(keys) : KeysInOrder(keys)[j] = keys[c] => j = k
<1> DEFINE I == {i \in DOMAIN keys : \A j \in 1 .. i - 1 : keys[j] # keys[i]}
           m == Cardinality(I)
           o == InOrder(I)
<1>1. I \in SUBSET Nat /\ IsFiniteSet(I)
  <2>1. IsFiniteSet(1 .. n) /\ I \subseteq 1 .. n
    BY FS_Interval
  <2> QED
    BY <2>1, FS_Subset
<1>2. /\ m \in Nat /\ DOMAIN o = 1 .. m
      /\ \A k \in 1 .. m : o[k] \in I
      /\ \A i \in I : \E k \in 1 .. m : o[k] = i
      /\ \A j, k \in 1 .. m : j < k => o[j] < o[k]
  <2> HIDE DEF I
  <2> QED
    BY <1>1, CountInOrder
<1>3. DOMAIN KeysInOrder(keys) = DOMAIN o /\ \A k \in DOMAIN o : KeysInOrder(keys)[k] = keys[o[k]]
  BY DEF KeysInOrder
<1>4. ASSUME NEW i \in I, NEW j \in I, keys[i] = keys[j] PROVE i = j
  <2>1. i \in Nat \ {0} /\ j \in Nat \ {0}
    OBVIOUS
  <2>2. i < j => i \in 1 .. j - 1
    BY <2>1
  <2>3. j < i => j \in 1 .. i - 1
    BY <2>1
  <2>4. ~(i < j) /\ ~(j < i)
    BY <1>4, <2>2, <2>3
  <2> QED
    BY <2>1, <2>4
<1>5. ASSUME NEW c \in 1 .. n PROVE \E i \in I : keys[i] = keys[c]
  <2> DEFINE S == {i \in 1 .. n : keys[i] = keys[c]}
  <2>1. PICK i \in S : \A y \in S : i <= y
    <3>1. S \in SUBSET Nat /\ S # {}
      OBVIOUS
    <3> HIDE DEF S
    <3> QED
      BY <3>1, LeastOfSet
  <2>2. \A j \in 1 .. i - 1 : j \in 1 .. n /\ ~(i <= j)
    OBVIOUS
  <2>3. \A j \in 1 .. i - 1 : keys[j] # keys[i]
    BY <2>1, <2>2
  <2> QED
    BY <2>3
<1> HIDE DEF I, o, m
<1>6. ASSUME NEW c \in 1 .. n
      PROVE  \E k \in 1 .. m : \A j \in 1 .. m : KeysInOrder(keys)[j] = keys[c] <=> j = k
  <2>1. PICK i \in I : keys[i] = keys[c]
    BY <1>5
  <2>2. PICK k \in 1 .. m : o[k] = i
    BY <1>2
  <2>3. ASSUME NEW j \in 1 .. m, keys[o[j]] = keys[c] PROVE j = k
    <3>1. o[j] \in I
      BY <1>2
    <3>2. o[j] = o[k]
      BY <3>1, <2>1, <2>2, <2>3, <1>4
    <3>3. o[j] \in Nat /\ o[k] \in Nat
      BY <3>1, <3>2, <1>1
    <3>4. ~(o[j] < o[k]) /\ ~(o[k] < o[j])
      BY <3>2, <3>3
    <3>5. ~(j < k) /\ ~(k < j)
      BY <3>4, <1>2
    <3> QED
      BY <3>5, <1>2
  <2> QED
    BY <1>2, <1>3, <2>1, <2>2, <2>3
<1>7. DOMAIN KeysInOrder(keys) = 1 .. m /\ m \in Nat
  BY <1>2, <1>3
<1> QED
  <2>1. ASSUME NEW c \in 1 .. n
        PROVE  \E k \in DOMAIN KeysInOrder(keys) :
                 /\ KeysInOrder(keys)[k] = keys[c]
                 /\ \A j \in DOMAIN KeysInOrder(keys) : KeysInOrder(keys)[j] = keys[c] => j = k
    <3>1. PICK k \in 1 .. m : \A j \in 1 .. m : KeysInOrder(keys)[j] = keys[c] <=> j = k
      BY <1>6
    <3>2. k \in DOMAIN KeysInOrder(keys)
      BY ONLY <3>1, <1>7, Zenon
    <3>3. \A j \in DOMAIN KeysInOrder(keys) : KeysInOrder(keys)[j] = keys[c] => j = k
      BY ONLY <3>1, <1>7, Zenon
    <3>4. KeysInOrder(keys)[k] = keys[c]
      BY ONLY <3>1, Zenon
    <3> QED
      BY <3>2, <3>3, <3>4
  <2> QED
    BY <1>7, <2>1

-----------------------------------------------------------------------------
\* Lists put together, of which some are empty or hold one chunk.
Once(q, W) == \E k \in DOMAIN q : \A j \in DOMAIN q : q[j] \in W <=> j = k
Nowhere(q, W) == \A j \in DOMAIN q : q[j] \notin W

LEMMA Joined ==
  ASSUME NEW S, NEW p \in Seq(S), NEW q \in Seq(S)
  PROVE  /\ p \o q \in Seq(S) /\ DOMAIN p = 1 .. Len(p) /\ DOMAIN q = 1 .. Len(q)
         /\ Len(p) \in Nat /\ Len(q) \in Nat
         /\ Len(p \o q) = Len(p) + Len(q) /\ DOMAIN (p \o q) = 1 .. Len(p) + Len(q)
         /\ \A k \in 1 .. Len(p) : (p \o q)[k] = p[k]
         /\ \A k \in 1 .. Len(q) : (p \o q)[Len(p) + k] = q[k]
         /\ \A k \in 1 .. Len(p) + Len(q) : k \in 1 .. Len(p) \/ k - Len(p) \in 1 .. Len(q)
<1>1. Len(p) \in Nat /\ Len(q) \in Nat /\ DOMAIN p = 1 .. Len(p) /\ DOMAIN q = 1 .. Len(q)
  OBVIOUS
<1>2. p \o q \in Seq(S) /\ Len(p \o q) = Len(p) + Len(q)
      /\ \A k \in 1 .. Len(p) + Len(q) : (p \o q)[k] = IF k <= Len(p) THEN p[k] ELSE q[k - Len(p)]
  BY ConcatProperties
<1>3. DOMAIN (p \o q) = 1 .. Len(p) + Len(q)
  BY <1>2
<1>4. \A k \in 1 .. Len(p) : (p \o q)[k] = p[k]
  BY <1>1, <1>2
<1>5. ASSUME NEW k \in 1 .. Len(q) PROVE (p \o q)[Len(p) + k] = q[k]
  <2>1. Len(p) + k \in 1 .. Len(p) + Len(q) /\ ~(Len(p) + k <= Len(p)) /\ (Len(p) + k) - Len(p) = k
    BY <1>1
  <2> QED
    BY <1>2, <2>1
<1> QED
  BY <1>1, <1>2, <1>3, <1>4, <1>5

LEMMA JoinedOnce ==
  ASSUME NEW S, NEW p \in Seq(S), NEW q \in Seq(S), NEW W
  PROVE  /\ Once(p, W) /\ Nowhere(q, W) => Once(p \o q, W)
         /\ Nowhere(p, W) /\ Once(q, W) => Once(p \o q, W)
         /\ Nowhere(p, W) /\ Nowhere(q, W) => Nowhere(p \o q, W)
<1> DEFINE m == Len(p)
           n == Len(q)
           r == p \o q
<1>1. m \in Nat /\ n \in Nat /\ DOMAIN p = 1 .. m /\ DOMAIN q = 1 .. n /\ DOMAIN r = 1 .. m + n
      /\ (\A k \in 1 .. m : r[k] = p[k]) /\ (\A k \in 1 .. n : r[m + k] = q[k])
  BY Joined
<1> HIDE DEF m, n, r
<1>2. ASSUME NEW j \in 1 .. m + n
      PROVE  \/ j \in 1 .. m /\ r[j] = p[j]
             \/ j - m \in 1 .. n /\ r[j] = q[j - m] /\ j = m + (j - m) /\ j \notin 1 .. m
  <2>1. CASE j <= m
    BY <1>1, <2>1
  <2>2. CASE ~(j <= m)
    <3>1. j - m \in 1 .. n /\ j = m + (j - m)
      BY <1>1, <2>2
    <3>2. r[m + (j - m)] = q[j - m]
      BY <3>1, <1>1
    <3> QED
      BY <3>1, <3>2, <2>2, <1>1
  <2> QED
    BY <2>1, <2>2
<1>3. ASSUME Once(p, W), Nowhere(q, W) PROVE Once(r, W)
  <2>0. PICK k \in DOMAIN p : \A j \in DOMAIN p : p[j] \in W <=> j = k
    BY <1>3 DEF Once
  <2>1. k \in 1 .. m /\ \A j \in 1 .. m : p[j] \in W <=> j = k
    BY ONLY <1>1, <2>0, Zenon
  <2>2. \A j \in 1 .. m + n : r[j] \in W <=> j = k
    <3> SUFFICES ASSUME NEW j \in 1 .. m + n PROVE r[j] \in W <=> j = k
      OBVIOUS
    <3>1. CASE j \in 1 .. m /\ r[j] = p[j]
      BY <2>1, <3>1
    <3>2. CASE j - m \in 1 .. n /\ r[j] = q[j - m] /\ j \notin 1 .. m
      BY <2>1, <3>2, <1>1, <1>3 DEF Nowhere
    <3> QED
      BY <1>2, <3>1, <3>2
  <2>3. k \in 1 .. m + n
    BY <1>1
  <2>4. DOMAIN r = 1 .. m + n
    BY <1>1
  <2> QED
    <3>1. \A j \in DOMAIN r : r[j] \in W <=> j = k
      BY ONLY <2>2, <2>4, Zenon
    <3>2. k \in DOMAIN r
      BY ONLY <2>3, <2>4, Zenon
    <3> QED
      BY <3>1, <3>2 DEF Once
<1>4. ASSUME Nowhere(p, W), Once(q, W) PROVE Once(r, W)
  <2>0. PICK k \in DOMAIN q : \A j \in DOMAIN q : q[j] \in W <=> j = k
    BY <1>4 DEF Once
  <2>1. k \in 1 .. n /\ \A j \in 1 .. n : q[j] \in W <=> j = k
    BY ONLY <1>1, <2>0, Zenon
  <2>2. \A j \in 1 .. m + n : r[j] \in W <=> j = m + k
    <3> SUFFICES ASSUME NEW j \in 1 .. m + n PROVE r[j] \in W <=> j = m + k
      OBVIOUS
    <3>1. CASE j \in 1 .. m /\ r[j] = p[j]
      <4>1. r[j] \notin W
        BY <3>1, <1>1, <1>4 DEF Nowhere
      <4>2. j # m + k
        BY <3>1, <1>1
      <4> QED
        BY <4>1, <4>2
    <3>2. CASE j - m \in 1 .. n /\ r[j] = q[j - m] /\ j = m + (j - m)
      <4>1. r[j] \in W <=> j - m = k
        BY <2>1, <3>2
      <4>2. j - m = k <=> j = m + k
        BY <1>1, <2>1
      <4> QED
        BY <4>1, <4>2
    <3> QED
      BY <1>2, <3>1, <3>2
  <2>3. m + k \in 1 .. m + n
    BY <1>1
  <2>4. DOMAIN r = 1 .. m + n
    BY <1>1
  <2> QED
    <3>1. \A j \in DOMAIN r : r[j] \in W <=> j = m + k
      BY ONLY <2>2, <2>4, Zenon
    <3>2. m + k \in DOMAIN r
      BY ONLY <2>3, <2>4, Zenon
    <3> QED
      BY <3>1, <3>2 DEF Once
<1>5. ASSUME Nowhere(p, W), Nowhere(q, W) PROVE Nowhere(r, W)
  BY <1>1, <1>2, <1>5 DEF Nowhere
<1> QED
  BY <1>3, <1>4, <1>5 DEF r

SheetTypes == {"sheet_overview", "schema", "column_analysis", "formula_analysis", "error_analysis",
               "data_patterns", "statistics"}
\* An analysis has its lists, and a column or more.
IsAnalysis(a) ==
  /\ \E n \in Nat : DOMAIN a.columns = 1 .. n
  /\ Len(a.formulas) \in Nat /\ DOMAIN a.formulas = 1 .. Len(a.formulas)
  /\ Len(a.errors) \in Nat /\ DOMAIN a.errors = 1 .. Len(a.errors)

LEMMA AnalysisOfSheet ==
  ASSUME NEW s, IsSheet(s)
  PROVE  IsAnalysis(AnalyzeSheet(s)) /\ AnalyzeSheet(s).name = s.name
<1>1. DOMAIN AnalyzeSheet(s).columns = 1 .. MaxCol(s) /\ MaxCol(s) \in Nat
  BY SheetCounts, SheetFacts DEF Columns
<1>2. AnalyzeSheet(s).name = s.name
  BY DEF AnalyzeSheet
<1> QED
  BY <1>1, <1>2, SheetCounts DEF IsAnalysis

LEMMA ChunksOfColumns ==
  ASSUME NEW a, IsAnalysis(a)
  PROVE  LET q == ColumnChunks(a)
         IN  /\ q \in Seq(Range(q))
             /\ \A k \in DOMAIN q : q[k].type = "column_analysis" /\ q[k].sheet = a.name
             /\ \A c \in DOMAIN a.columns : \E k \in DOMAIN q :
                  \A j \in DOMAIN q : c \in q[j].about <=> j = k
<1> DEFINE keys == Purposes(a)
           o == KeysInOrder(keys)
           q == ColumnChunks(a)
<1>1. PICK n \in Nat : DOMAIN a.columns = 1 .. n
  BY DEF IsAnalysis
<1>2. DOMAIN keys = 1 .. n /\ \A c \in 1 .. n : keys[c] = a.columns[c].purpose
  BY <1>1 DEF Purposes
<1>3. /\ \E m \in Nat : DOMAIN KeysInOrder(keys) = 1 .. m
      /\ \A c \in 1 .. n : \E k \in DOMAIN KeysInOrder(keys) :
           /\ KeysInOrder(keys)[k] = keys[c]
           /\ \A j \in DOMAIN KeysInOrder(keys) : KeysInOrder(keys)[j] = keys[c] => j = k
  <2>1. DOMAIN keys = 1 .. n /\ n \in Nat
    BY <1>1, <1>2
  <2> HIDE DEF keys
  <2> QED
    BY ONLY <2>1, EachKeyOnce
<1>4. PICK m \in Nat : DOMAIN o = 1 .. m
  <2> HIDE DEF keys
  <2> QED
    BY <1>3
<1>5. q = [i \in DOMAIN o |->
             Chunk("column_analysis", a.name, {c \in DOMAIN a.columns : a.columns[c].purpose = o[i]})]
  BY DEF ColumnChunks
<1>6. DOMAIN q = 1 .. m /\ \A k \in 1 .. m :
        /\ q[k].type = "column_analysis" /\ q[k].sheet = a.name
        /\ \A c \in 1 .. n : c \in q[k].about <=> o[k] = keys[c]
  <2> HIDE DEF o, keys, q
  <2>1. DOMAIN q = 1 .. m
    BY <1>4, <1>5
  <2>2. ASSUME NEW k \in 1 .. m
        PROVE  q[k] = Chunk("column_analysis", a.name,
                            {c \in DOMAIN a.columns : a.columns[c].purpose = o[k]})
    BY <1>4, <1>5
  <2> QED
    BY <2>1, <2>2, <1>1, <1>2 DEF Chunk
<1>7. q \in Seq(Range(q))
  <2>1. q = [k \in 1 .. m |-> q[k]]
    BY <1>4, <1>5
  <2>2. \A k \in 1 .. m : q[k] \in Range(q)
    BY <1>6 DEF Range
  <2> HIDE DEF q
  <2> QED
    BY <2>1, <2>2
<1> HIDE DEF q, o, keys
<1>8. ASSUME NEW c \in DOMAIN a.columns
      PROVE  \E k \in DOMAIN q : \A j \in DOMAIN q : c \in q[j].about <=> j = k
  <2>1. PICK k \in DOMAIN o : o[k] = keys[c] /\ \A j \in DOMAIN o : o[j] = keys[c] => j = k
    BY <1>1, <1>3 DEF o
  <2>2. \A j \in DOMAIN q : c \in q[j].about <=> j = k
    BY <2>1, <1>1, <1>4, <1>6
  <2>3. k \in DOMAIN q
    BY <2>1, <1>4, <1>6
  <2> QED
    BY <2>2, <2>3
<1> QED
  BY <1>6, <1>7, <1>8 DEF q

LEMMA IfChunk ==
  ASSUME NEW condition, NEW chunk, NEW S, chunk \in S, NEW W
  PROVE  /\ If(condition, chunk) \in Seq(S)
         /\ condition /\ chunk \in W => Once(If(condition, chunk), W)
         /\ ~condition \/ chunk \notin W => Nowhere(If(condition, chunk), W)
         /\ \A k \in DOMAIN If(condition, chunk) : If(condition, chunk)[k] = chunk
<1>1. CASE condition
  <2>1. If(condition, chunk) = <<chunk>>
    BY <1>1 DEF If
  <2>2. <<chunk>> \in Seq(S) /\ DOMAIN <<chunk>> = {1} /\ <<chunk>>[1] = chunk
    OBVIOUS
  <2>3. chunk \in W => Once(<<chunk>>, W)
    BY <2>2 DEF Once
  <2>4. chunk \notin W => Nowhere(<<chunk>>, W)
    BY <2>2 DEF Nowhere
  <2> QED
    BY <1>1, <2>1, <2>2, <2>3, <2>4
<1>2. CASE ~condition
  <2>1. If(condition, chunk) = <<>>
    BY <1>2 DEF If
  <2>2. <<>> \in Seq(S) /\ DOMAIN <<>> = {}
    OBVIOUS
  <2> QED
    BY <1>2, <2>1, <2>2 DEF Once, Nowhere
<1> QED
  BY <1>1, <1>2

LEMMA ChunksOfSheet ==
  ASSUME NEW a, IsAnalysis(a)
  PROVE  LET q == SheetChunks(a)
         IN  /\ \E S : q \in Seq(S)
             /\ \A k \in DOMAIN q : q[k].sheet = a.name /\ q[k].type \in SheetTypes
             /\ \A c \in DOMAIN a.columns : \E k \in DOMAIN q : \A j \in DOMAIN q :
                  (q[j].type = "column_analysis" /\ c \in q[j].about) <=> j = k
             /\ a.formulas # <<>> => \E k \in DOMAIN q : 
                  /\ \A j \in DOMAIN q : q[j].type = "formula_analysis" <=> j = k
                  /\ TellsAll(q[k].about, Categories(a))
             /\ a.errors # <<>> => \E k \in DOMAIN q :
                  /\ \A j \in DOMAIN q : q[j].type = "error_analysis" <=> j = k
                  /\ TellsAll(q[k].about, ErrorTypes(a))
<1> DEFINE x1 == Chunk("sheet_overview", a.name, a.purpose)
           x2 == Chunk("schema", a.name, DOMAIN a.columns)
           x3 == FormulaChunk(a)
           x4 == ErrorChunk(a)
           x5 == PatternsChunk(a)
           x6 == Chunk("statistics", a.name, {})
           c == ColumnChunks(a)
           p1 == <<x1, x2>>
           p3 == If(a.formulas # <<>>, x3)
           p4 == If(a.errors # <<>>, x4)
           p5 == If(a.patterns # {}, x5)
           p6 == If(a.statistics, x6)
           S == {x1, x2, x3, x4, x5, x6} \cup Range(c)
           q == SheetChunks(a)
           r1 == p1 \o c
           r2 == r1 \o p3
           r3 == r2 \o p4
           r4 == r3 \o p5
<1>1. /\ c \in Seq(Range(c))
      /\ \A k \in DOMAIN c : c[k].type = "column_analysis" /\ c[k].sheet = a.name
      /\ \A i \in DOMAIN a.columns : \E k \in DOMAIN c : \A j \in DOMAIN c : i \in c[j].about <=> j = k
  BY ChunksOfColumns
<1>2. /\ x1.type = "sheet_overview" /\ x2.type = "schema" /\ x3.type = "formula_analysis"
      /\ x4.type = "error_analysis" /\ x5.type = "data_patterns" /\ x6.type = "statistics"
      /\ x1.sheet = a.name /\ x2.sheet = a.name /\ x3.sheet = a.name
      /\ x4.sheet = a.name /\ x5.sheet = a.name /\ x6.sheet = a.name
      /\ x3.about = Listing(Categories(a)) /\ x4.about = Listing(ErrorTypes(a))
  BY DEF Chunk, FormulaChunk, ErrorChunk, PatternsChunk
<1>3. TellsAll(x3.about, Categories(a)) /\ TellsAll(x4.about, ErrorTypes(a))
  <2>1. /\ Len(a.formulas) \in Nat /\ DOMAIN Categories(a) = 1 .. Len(a.formulas)
        /\ Len(a.errors) \in Nat /\ DOMAIN ErrorTypes(a) = 1 .. Len(a.errors)
    BY DEF IsAnalysis, Categories, ErrorTypes
  <2>2. Categories(a) = [i \in 1 .. Len(a.formulas) |-> Categories(a)[i]]
        /\ ErrorTypes(a) = [i \in 1 .. Len(a.errors) |-> ErrorTypes(a)[i]]
    BY <2>1 DEF Categories, ErrorTypes
  <2> HIDE DEF x3, x4
  <2>3. TellsAll(Listing(Categories(a)), Categories(a))
    BY ONLY <2>1, <2>2, ListingTells
  <2>4. TellsAll(Listing(ErrorTypes(a)), ErrorTypes(a))
    BY ONLY <2>1, <2>2, ListingTells
  <2> QED
    BY <1>2, <2>3, <2>4
<1>4. q = r4 \o p6
  BY DEF SheetChunks
<1>5. p1 \in Seq(S) /\ DOMAIN p1 = {1, 2} /\ p1[1] = x1 /\ p1[2] = x2
  OBVIOUS
<1>6. c \in Seq(S)
  <2>1. Range(c) \subseteq S
    OBVIOUS
  <2> HIDE DEF c, S
  <2> QED
    BY <1>1, <2>1
<1>7. x3 \in S /\ x4 \in S /\ x5 \in S /\ x6 \in S
  OBVIOUS
<1>8. \A x \in S : \/ x \in {x1, x2, x3, x4, x5, x6}
                   \/ x.type = "column_analysis" /\ x.sheet = a.name
  BY <1>1 DEF Range
<1> DEFINE A1 == a.formulas # <<>>
           A2 == a.errors # <<>>
           A3 == a.patterns # {}
           A4 == a.statistics
<1>9. p3 = If(A1, x3) /\ p4 = If(A2, x4) /\ p5 = If(A3, x5) /\ p6 = If(A4, x6)
  OBVIOUS
<1>10. q \in Seq(S) /\ r1 \in Seq(S) /\ r2 \in Seq(S) /\ r3 \in Seq(S) /\ r4 \in Seq(S)
       /\ p3 \in Seq(S) /\ p4 \in Seq(S) /\ p5 \in Seq(S) /\ p6 \in Seq(S)
  <2> HIDE DEF p1, c, x3, x4, x5, x6, S, q, A1, A2, A3, A4
  <2>1. p3 \in Seq(S) /\ p4 \in Seq(S) /\ p5 \in Seq(S) /\ p6 \in Seq(S)
    BY <1>7, <1>9, IfChunk
  <2> HIDE DEF p3, p4, p5, p6
  <2>2. r1 \in Seq(S)
    BY <1>5, <1>6, ConcatProperties
  <2> HIDE DEF r1
  <2>3. r2 \in Seq(S)
    BY <2>1, <2>2, ConcatProperties
  <2> HIDE DEF r2
  <2>4. r3 \in Seq(S)
    BY <2>1, <2>3, ConcatProperties
  <2> HIDE DEF r3
  <2>5. r4 \in Seq(S)
    BY <2>1, <2>4, ConcatProperties
  <2> HIDE DEF r4
  <2>6. q \in Seq(S)
    BY <2>1, <2>5, <1>4, ConcatProperties
  <2> QED
    BY <2>1, <2>2, <2>3, <2>4, <2>5, <2>6
<1> HIDE DEF x1, x2, x3, x4, x5, x6, S, q, p1, c, A1, A2, A3, A4
<1>11. ASSUME NEW W PROVE
         /\ A1 /\ x3 \in W => Once(p3, W)
         /\ ~A1 \/ x3 \notin W => Nowhere(p3, W)
         /\ A2 /\ x4 \in W => Once(p4, W)
         /\ ~A2 \/ x4 \notin W => Nowhere(p4, W)
         /\ x5 \notin W => Nowhere(p5, W)
         /\ x6 \notin W => Nowhere(p6, W)
         /\ x1 \notin W /\ x2 \notin W => Nowhere(p1, W)
  <2>1. /\ A1 /\ x3 \in W => Once(If(A1, x3), W)
        /\ ~A1 \/ x3 \notin W => Nowhere(If(A1, x3), W)
    BY <1>7, IfChunk
  <2>2. /\ A2 /\ x4 \in W => Once(If(A2, x4), W)
        /\ ~A2 \/ x4 \notin W => Nowhere(If(A2, x4), W)
    BY <1>7, IfChunk
  <2>3. /\ x5 \notin W => Nowhere(If(A3, x5), W)
        /\ x6 \notin W => Nowhere(If(A4, x6), W)
    BY <1>7, IfChunk
  <2>4. x1 \notin W /\ x2 \notin W => Nowhere(p1, W)
    BY <1>5 DEF Nowhere
  <2> HIDE DEF p3, p4, p5, p6
  <2> QED
    BY <1>9, <2>1, <2>2, <2>3, <2>4
<1> HIDE DEF p3, p4, p5, p6
<1>12. ASSUME NEW W PROVE
         /\ Nowhere(p1, W) /\ Once(c, W) /\ Nowhere(p3, W) /\ Nowhere(p4, W) /\ Nowhere(p5, W)
              /\ Nowhere(p6, W) => Once(q, W)
         /\ Nowhere(p1, W) /\ Nowhere(c, W) /\ Once(p3, W) /\ Nowhere(p4, W) /\ Nowhere(p5, W)
              /\ Nowhere(p6, W) => Once(q, W)
         /\ Nowhere(p1, W) /\ Nowhere(c, W) /\ Nowhere(p3, W) /\ Once(p4, W) /\ Nowhere(p5, W)
              /\ Nowhere(p6, W) => Once(q, W)
  <2>1. /\ Nowhere(p1, W) /\ Once(c, W) => Once(r1, W)
        /\ Nowhere(p1, W) /\ Nowhere(c, W) => Nowhere(r1, W)
    BY <1>5, <1>6, JoinedOnce
  <2> HIDE DEF r1
  <2>2. /\ Nowhere(r1, W) /\ Once(p3, W) => Once(r2, W)
        /\ Once(r1, W) /\ Nowhere(p3, W) => Once(r2, W)
        /\ Nowhere(r1, W) /\ Nowhere(p3, W) => Nowhere(r2, W)
    BY <1>10, JoinedOnce
  <2> HIDE DEF r2
  <2>3. /\ Nowhere(r2, W) /\ Once(p4, W) => Once(r3, W)
        /\ Once(r2, W) /\ Nowhere(p4, W) => Once(r3, W)
    BY <1>10, JoinedOnce
  <2> HIDE DEF r3
  <2>4. Once(r3, W) /\ Nowhere(p5, W) => Once(r4, W)
    BY <1>10, JoinedOnce
  <2> HIDE DEF r4
  <2>5. Once(r4, W) /\ Nowhere(p6, W) => Once(q, W)
    BY <1>10, <1>4, JoinedOnce
  <2> QED
    BY <2>1, <2>2, <2>3, <2>4, <2>5
<1> HIDE DEF r1, r2, r3, r4
<1>13. \A k \in DOMAIN q : q[k] \in S
  BY <1>10
<1>14. \A x \in S : x.sheet = a.name /\ x.type \in SheetTypes
  BY <1>2, <1>8 DEF SheetTypes
<1>15. \A x \in S : /\ x.type = "formula_analysis" => x = x3
                    /\ x.type = "error_analysis" => x = x4
  BY <1>2, <1>8
<1>16. ASSUME NEW i \in DOMAIN a.columns
       PROVE  \E k \in DOMAIN q : \A j \in DOMAIN q :
                (q[j].type = "column_analysis" /\ i \in q[j].about) <=> j = k
  <2> DEFINE W == {x \in S : x.type = "column_analysis" /\ i \in x.about}
  <2>1. x1 \notin W /\ x2 \notin W /\ x3 \notin W /\ x4 \notin W /\ x5 \notin W /\ x6 \notin W
    BY <1>2
  <2>2. Once(c, W)
    <3>1. PICK k \in DOMAIN c : \A j \in DOMAIN c : i \in c[j].about <=> j = k
      BY <1>1
    <3>2. \A j \in DOMAIN c : c[j] \in S
      BY <1>6
    <3>3. \A j \in DOMAIN c : c[j] \in W <=> j = k
      BY <1>1, <3>1, <3>2
    <3> HIDE DEF W
    <3> QED
      BY <3>1, <3>3 DEF Once
  <2>3. Once(q, W)
    <3> HIDE DEF W
    <3> QED
      BY <1>11, <1>12, <2>1, <2>2
  <2>4. PICK k \in DOMAIN q : \A j \in DOMAIN q : q[j] \in W <=> j = k
    <3> HIDE DEF W
    <3> QED
      BY <2>3 DEF Once
  <2> QED
    BY <2>4, <1>13
<1>17. ASSUME a.formulas # <<>>
       PROVE  \E k \in DOMAIN q : /\ \A j \in DOMAIN q : q[j].type = "formula_analysis" <=> j = k
                                  /\ TellsAll(q[k].about, Categories(a))
  <2> DEFINE W == {x3}
  <2>1. x1 \notin W /\ x2 \notin W /\ x4 \notin W /\ x5 \notin W /\ x6 \notin W /\ x3 \in W
    BY <1>2
  <2>2. Nowhere(c, W)
    BY <1>1, <1>2 DEF Nowhere
  <2>3. A1
    BY <1>17 DEF A1
  <2>4. Once(q, W)
    <3> HIDE DEF W
    <3> QED
      BY <1>11, <1>12, <2>1, <2>2, <2>3
  <2>5. PICK k \in DOMAIN q : \A j \in DOMAIN q : q[j] \in W <=> j = k
    <3> HIDE DEF W
    <3> QED
      BY <2>4 DEF Once
  <2>6. q[k] = x3 /\ \A j \in DOMAIN q : q[j].type = "formula_analysis" <=> j = k
    <3>1. \A j \in DOMAIN q : q[j] = x3 <=> j = k
      BY <2>5
    <3>2. ASSUME NEW j \in DOMAIN q, q[j].type = "formula_analysis" PROVE q[j] = x3
      <4>1. q[j] \in S
        BY <1>13
      <4> QED
        BY <3>2, <4>1, <1>15
    <3>3. x3.type = "formula_analysis"
      BY <1>2
    <3> HIDE DEF W
    <3> QED
      BY <3>1, <3>2, <3>3
  <2> QED
    BY <2>6, <1>3
<1>18. ASSUME a.errors # <<>>
       PROVE  \E k \in DOMAIN q : /\ \A j \in DOMAIN q : q[j].type = "error_analysis" <=> j = k
                                  /\ TellsAll(q[k].about, ErrorTypes(a))
  <2> DEFINE W == {x4}
  <2>1. x1 \notin W /\ x2 \notin W /\ x3 \notin W /\ x5 \notin W /\ x6 \notin W /\ x4 \in W
    BY <1>2
  <2>2. Nowhere(c, W)
    BY <1>1, <1>2 DEF Nowhere
  <2>3. A2
    BY <1>18 DEF A2
  <2>4. Once(q, W)
    <3> HIDE DEF W
    <3> QED
      BY <1>11, <1>12, <2>1, <2>2, <2>3
  <2>5. PICK k \in DOMAIN q : \A j \in DOMAIN q : q[j] \in W <=> j = k
    <3> HIDE DEF W
    <3> QED
      BY <2>4 DEF Once
  <2>6. q[k] = x4 /\ \A j \in DOMAIN q : q[j].type = "error_analysis" <=> j = k
    <3>1. \A j \in DOMAIN q : q[j] = x4 <=> j = k
      BY <2>5
    <3>2. ASSUME NEW j \in DOMAIN q, q[j].type = "error_analysis" PROVE q[j] = x4
      <4>1. q[j] \in S
        BY <1>13
      <4> QED
        BY <3>2, <4>1, <1>15
    <3>3. x4.type = "error_analysis"
      BY <1>2
    <3> HIDE DEF W
    <3> QED
      BY <3>1, <3>2, <3>3
  <2> QED
    BY <2>6, <1>3
<1>19. \A k \in DOMAIN q : q[k].sheet = a.name /\ q[k].type \in SheetTypes
  BY <1>13, <1>14
<1> QED
  BY <1>10, <1>16, <1>17, <1>18, <1>19 DEF q

-----------------------------------------------------------------------------
\* The sections of a sheet.
LEMMA MaxOfFinite ==
  ASSUME NEW S \in SUBSET Nat, IsFiniteSet(S), S # {}
  PROVE  Max(S) \in S /\ \A y \in S : Max(S) >= y
<1> DEFINE n == Cardinality(S)
           o == InOrder(S)
<1>1. n \in Nat /\ (\A k \in 1 .. n : o[k] \in S) /\ (\A i \in S : \E k \in 1 .. n : o[k] = i)
      /\ \A j, k \in 1 .. n : j < k => o[j] < o[k]
  BY CountInOrder
<1> HIDE DEF n, o
<1>2. n \in 1 .. n
  <2>1. PICK i \in S : TRUE
    OBVIOUS
  <2>2. PICK k \in 1 .. n : o[k] = i
    BY <1>1, <2>1
  <2> QED
    BY <1>1, <2>2
<1>3. \A y \in S : o[n] >= y
  <2> SUFFICES ASSUME NEW y \in S PROVE o[n] >= y
    OBVIOUS
  <2>1. PICK k \in 1 .. n : o[k] = y
    BY <1>1
  <2>2. k < n \/ k = n
    BY <1>2
  <2>3. o[n] \in Nat /\ o[k] \in Nat
    BY <1>1, <1>2
  <2> QED
    BY <2>1, <2>2, <2>3, <1>1, <1>2
<1>4. \E x \in S : \A y \in S : x >= y
  BY <1>1, <1>2, <1>3
<1> QED
  BY <1>4 DEF Max

\* Sections of which each ends before the next begins, and the last not before the sheet does.
LEMMA SectionsOneByOne ==
  ASSUME NEW n \in Nat \ {0}, NEW q, NEW total \in Nat,
         \A j \in 1 .. n : q[j].first \in Nat /\ q[j].last \in Int,
         \A j \in 1 .. n - 1 : q[j].last = q[j + 1].first - 1,
         \A j, k \in 1 .. n : j < k => q[j].first < q[k].first,
         q[n].last >= total,
         NEW r \in q[1].first .. total
  PROVE  \E j \in 1 .. n : /\ r \in q[j].first .. q[j].last
                           /\ \A k \in 1 .. n : r \in q[k].first .. q[k].last => k = j
<1> DEFINE S == {j \in 1 .. n : q[j].first <= r}
<1>1. 1 \in S /\ S \in SUBSET (0 .. n) /\ r \in Nat /\ r <= total
  OBVIOUS
<1>2. PICK j \in S : \A k \in S : k <= j
  <2> HIDE DEF S
  <2> QED
    BY <1>1, GreatestOfSet
<1>3. r <= q[j].last
  <2>1. CASE j = n
    BY <2>1, <1>1
  <2>2. CASE j # n
    <3>1. j \in 1 .. n - 1 /\ j + 1 \in 1 .. n
      BY <2>2
    <3>2. j + 1 \notin S
      BY <1>2, <3>1
    <3>3. ~(q[j + 1].first <= r) /\ q[j + 1].first \in Nat
      BY <3>1, <3>2
    <3>4. q[j].last = q[j + 1].first - 1
      BY <3>1
    <3> QED
      BY <3>3, <3>4, <1>1
  <2> QED
    BY <2>1, <2>2
<1>4. ASSUME NEW k \in 1 .. n, r \in q[k].first .. q[k].last PROVE k = j
  <2>1. k \in S
    BY <1>4
  <2>2. k <= j
    BY <1>2, <2>1
  <2>3. ~(k < j)
    <3> SUFFICES ASSUME k < j PROVE FALSE
      OBVIOUS
    <3>1. k \in 1 .. n - 1 /\ k + 1 \in 1 .. n /\ k + 1 <= j
      OBVIOUS
    <3>2. q[k].last = q[k + 1].first - 1
      BY <3>1
    <3>3. q[k + 1].first <= q[j].first
      <4>1. CASE k + 1 = j
        BY <4>1, <3>1
      <4>2. CASE k + 1 < j
        BY <4>2, <3>1
      <4> QED
        BY <3>1, <4>1, <4>2
    <3>4. q[j].first <= r /\ r <= q[k].last
      BY <1>4
    <3>5. q[j].first \in Nat /\ q[k + 1].first \in Nat
      BY <3>1
    <3> QED
      BY <3>2, <3>3, <3>4, <3>5, <1>1
  <2> QED
    BY <2>2, <2>3
<1>5. j \in 1 .. n /\ r \in q[j].first .. q[j].last
  BY <1>1, <1>3
<1> QED
  BY <1>4, <1>5

\* The section headers of a sheet in one of their orders.
LEMMA HeadersInOrder ==
  ASSUME NEW s, IsSheet(s), NEW h \in HeaderOrders(s)
  PROVE  \E n \in Nat :
           /\ DOMAIN h = 1 .. n /\ Len(h) = n
           /\ \A i \in 1 .. n : h[i].top \in Nat \ {0} /\ h[i].bottom \in Nat /\ h[i].top <= h[i].bottom
           /\ \A j, k \in 1 .. n : j < k => h[j].top <= h[k].top
<1> DEFINE M == {m \in s.merged : HeadsSection(s, m)}
           n == Cardinality(M)
<1>1. h \in SetToSeqs(M) /\ \A i \in 1 .. Len(h) - 1 : h[i].top <= h[i + 1].top
  BY DEF HeaderOrders
<1>2. h \in [1 .. n -> M]
  BY <1>1 DEF SetToSeqs
<1>3. n \in Nat
  <2>1. IsFiniteSet(M)
    BY FS_Subset DEF IsSheet
  <2> HIDE DEF M
  <2> QED
    BY <2>1, FS_CardinalityType
<1>4. DOMAIN h = 1 .. n /\ Len(h) = n
  BY <1>2, <1>3
<1>5. \A i \in 1 .. n : h[i].top \in Nat \ {0} /\ h[i].bottom \in Nat /\ h[i].top <= h[i].bottom
  <2>1. \A i \in 1 .. n : h[i] \in s.merged
    BY <1>2
  <2> QED
    BY <2>1 DEF IsSheet
<1> HIDE DEF M, n
<1>6. ASSUME NEW j \in 1 .. n, NEW k \in 1 .. n, j < k PROVE h[j].top <= h[k].top
  <2> DEFINE B == {i \in j + 1 .. n : ~(h[j].top <= h[i].top)}
  <2> SUFFICES ASSUME B # {} PROVE FALSE
    BY <1>6
  <2>1. PICK i \in B : \A x \in B : i <= x
    <3>1. B \in SUBSET Nat
      OBVIOUS
    <3> HIDE DEF B
    <3> QED
      BY <3>1, LeastOfSet
  <2>2. i - 1 \in 1 .. Len(h) - 1 /\ (i - 1) + 1 = i /\ i \in 1 .. n /\ i - 1 \in 1 .. n
    BY <1>3, <1>4
  <2>3. h[i - 1].top <= h[i].top
    BY <1>1, <2>2
  <2>4. h[j].top \in Nat /\ h[i].top \in Nat /\ h[i - 1].top \in Nat
    BY <1>5, <2>2
  <2>5. i - 1 = j \/ i - 1 \in j + 1 .. n
    BY <1>3
  <2>6. CASE i - 1 = j
    BY <2>3, <2>6
  <2>7. CASE i - 1 \in j + 1 .. n
    <3>1. i - 1 \notin B
      BY <2>1, <2>2
    <3>2. h[j].top <= h[i - 1].top
      BY <3>1, <2>7
    <3> QED
      BY <3>2, <2>3, <2>4
  <2> QED
    BY <2>5, <2>6, <2>7
<1> QED
  BY <1>3, <1>4, <1>5, <1>6

LEMMA MaxRowGrows ==
  ASSUME NEW s, IsSheet(s), NEW h, NEW n \in Nat, \A i \in 1 .. n : h[i].bottom \in Nat
  PROVE  MaxRowAfter(s, h, n) \in Nat /\ MaxRowAfter(s, h, n) >= MaxRow(s)
<1> DEFINE f == [i \in 1 .. n |-> h[i].bottom + 1]
           S == {MaxRow(s)} \cup Range(f)
<1>1. IsFiniteSet(Range(f))
  <2>1. DOMAIN f = 1 .. n
    OBVIOUS
  <2> HIDE DEF f
  <2> QED
    BY <2>1, RangeIsFinite
<1>2. MaxRow(s) \in Nat
  BY SheetFacts
<1>3. Range(f) = {h[i].bottom + 1 : i \in 1 .. n}
  BY DEF Range
<1>4. S \in SUBSET Nat /\ IsFiniteSet(S) /\ MaxRow(s) \in S
  <2>1. Range(f) \subseteq Nat
    BY <1>3
  <2> HIDE DEF f
  <2>2. IsFiniteSet(Range(f) \cup {MaxRow(s)})
    BY <1>1, FS_AddElement
  <2>3. S = Range(f) \cup {MaxRow(s)}
    OBVIOUS
  <2> HIDE DEF S
  <2>4. IsFiniteSet(S)
    BY <2>2, <2>3
  <2> QED
    BY <2>1, <2>3, <2>4, <1>2
<1>5. MaxRowAfter(s, h, n) = Max(S)
  BY <1>3 DEF MaxRowAfter
<1> HIDE DEF S
<1>6. Max(S) \in S /\ \A y \in S : Max(S) >= y
  BY <1>4, MaxOfFinite
<1> QED
  BY <1>4, <1>5, <1>6

LEMMA SectionsOfHeaders ==
  ASSUME NEW s, IsSheet(s), NEW h \in HeaderOrders(s)
  PROVE  LET q == Sections(s, h)
         IN  \E n \in Nat :
               /\ DOMAIN q = 1 .. n /\ (n = 0 => q = <<>>)
               /\ \A j \in 1 .. n : /\ q[j].first \in Nat /\ q[j].last \in Int
                                    /\ q[j].has_data => q[j].row_count \in 1 .. q[j].last - q[j].first
               /\ \A j \in 1 .. n - 1 : q[j].last = q[j + 1].first - 1
               /\ \A j, k \in 1 .. n : j < k => q[j].first <= q[k].first
               /\ n # 0 => q[n].last >= MaxRow(s)
<1> DEFINE q == Sections(s, h)
           end(j) == IF j < Len(h) THEN h[j + 1].top - 1 ELSE MaxRowAfter(s, h, j - 1)
<1>1. PICK n \in Nat :
         /\ DOMAIN h = 1 .. n /\ Len(h) = n
         /\ \A i \in 1 .. n : h[i].top \in Nat \ {0} /\ h[i].bottom \in Nat /\ h[i].top <= h[i].bottom
         /\ \A j, k \in 1 .. n : j < k => h[j].top <= h[k].top
  BY HeadersInOrder
<1>2. DOMAIN q = 1 .. n /\ \A j \in 1 .. n : q[j] = Section(h[j].top, end(j), h[j].bottom + 1)
  BY <1>1 DEF Sections, SectionsUpTo
<1>3. \A j \in 1 .. n : MaxRowAfter(s, h, j - 1) \in Nat /\ MaxRowAfter(s, h, j - 1) >= MaxRow(s)
  <2> SUFFICES ASSUME NEW j \in 1 .. n
               PROVE  MaxRowAfter(s, h, j - 1) \in Nat /\ MaxRowAfter(s, h, j - 1) >= MaxRow(s)
    OBVIOUS
  <2>1. j - 1 \in Nat /\ \A i \in 1 .. j - 1 : i \in 1 .. n
    BY <1>1
  <2>2. \A i \in 1 .. j - 1 : h[i].bottom \in Nat
    BY <1>1, <2>1
  <2> QED
    BY <2>1, <2>2, MaxRowGrows
<1>4. \A j \in 1 .. n : end(j) \in Int
  <2> SUFFICES ASSUME NEW j \in 1 .. n PROVE end(j) \in Int
    OBVIOUS
  <2>1. j < n => j + 1 \in 1 .. n
    BY <1>1
  <2> QED
    BY <2>1, <1>1, <1>3
<1>5. ASSUME NEW j \in 1 .. n
      PROVE  /\ q[j].first = h[j].top /\ q[j].last = end(j)
             /\ q[j].has_data => q[j].row_count \in 1 .. q[j].last - q[j].first
  <2> DEFINE e == end(j)
             d == h[j].bottom + 1
             t == h[j].top
  <2>1. q[j] = Section(t, e, d)
    BY <1>2
  <2>2. e \in Int /\ d \in Nat /\ t \in Nat /\ t < d
    BY <1>1, <1>4
  <2> HIDE DEF e, d, t, q
  <2>3. /\ q[j].first = t /\ q[j].last = e
        /\ q[j].row_count = IF d <= e THEN e - d + 1 ELSE 0
        /\ q[j].has_data = (d <= e)
    BY <2>1 DEF Section
  <2>6. q[j].has_data => d <= e
    BY ONLY <2>3, Zenon
  <2>4. d <= e => e - d + 1 \in 1 .. e - t
    BY <2>2
  <2>5. q[j].has_data => q[j].row_count \in 1 .. q[j].last - q[j].first
    BY <2>3, <2>4, <2>6
  <2> QED
    BY <2>3, <2>5 DEF e, t
<1>6. n = 0 => q = <<>>
  <2>1. q = [j \in 1 .. n |-> q[j]]
    BY <1>1 DEF Sections, SectionsUpTo
  <2> HIDE DEF q
  <2> QED
    BY <2>1
<1> HIDE DEF q
<1>7. \A j \in 1 .. n - 1 : q[j].last = q[j + 1].first - 1
  <2> SUFFICES ASSUME NEW j \in 1 .. n - 1 PROVE q[j].last = q[j + 1].first - 1
    OBVIOUS
  <2>1. j \in 1 .. n /\ j + 1 \in 1 .. n /\ j < n
    BY <1>1
  <2> QED
    BY <2>1, <1>1, <1>5
<1>8. n # 0 => q[n].last >= MaxRow(s)
  <2> SUFFICES ASSUME n # 0 PROVE q[n].last >= MaxRow(s)
    OBVIOUS
  <2>1. n \in 1 .. n /\ ~(n < n)
    BY <1>1
  <2> QED
    BY <2>1, <1>1, <1>3, <1>5
<1>9. \A j, k \in 1 .. n : j < k => q[j].first <= q[k].first
  BY <1>1, <1>5
<1>10. \A j \in 1 .. n : /\ q[j].first \in Nat /\ q[j].last \in Int
                         /\ q[j].has_data => q[j].row_count \in 1 .. q[j].last - q[j].first
  BY <1>1, <1>4, <1>5
<1>11. DOMAIN q = 1 .. n
  BY <1>2
<1> QED
  BY <1>6, <1>7, <1>8, <1>9, <1>10, <1>11 DEF q

LEMMA SectionsOfColors ==
  ASSUME NEW s, IsSheet(s)
  PROVE  LET q == ColorSections(s)
         IN  \E n \in Nat :
               /\ DOMAIN q = 1 .. n /\ (n = 0 => q = <<>>)
               /\ \A j \in 1 .. n : /\ q[j].first \in Nat /\ q[j].last \in Int
                                    /\ q[j].has_data => q[j].row_count \in 1 .. q[j].last - q[j].first
               /\ \A j \in 1 .. n - 1 : q[j].last = q[j + 1].first - 1
               /\ \A j, k \in 1 .. n : j < k => q[j].first <= q[k].first
               /\ n # 0 => q[n].last >= MaxRow(s)
<1> DEFINE q == ColorSections(s)
           R == {r \in 1 .. MaxRow(s) : \E f \in DOMAIN ColorRegions(s) :
                                          Cardinality({a \in ColorRegions(s)[f] : a[1] = r}) >= 3}
           o == ColorHeaderRows(s)
           n == Cardinality(R)
           end(j) == IF j < Len(o) THEN o[j + 1] - 1 ELSE MaxRow(s)
<1>1. MaxRow(s) \in Nat
  BY SheetFacts
<1>2. R \in SUBSET Nat /\ IsFiniteSet(R)
  <2>1. R \subseteq 1 .. MaxRow(s) /\ 1 .. MaxRow(s) \subseteq Nat
    BY <1>1
  <2>2. IsFiniteSet(1 .. MaxRow(s))
    BY <1>1, FS_Interval
  <2> HIDE DEF R, o, n, q
  <2> QED
    BY <2>1, <2>2, FS_Subset
<1>3. o = InOrder(R)
  BY DEF ColorHeaderRows
<1>4. n \in Nat /\ DOMAIN o = 1 .. n /\ (\A k \in 1 .. n : o[k] \in R)
      /\ \A j, k \in 1 .. n : j < k => o[j] < o[k]
  <2> HIDE DEF R, o
  <2> QED
    BY <1>2, <1>3, CountInOrder
<1>5. Len(o) = n
  <2> HIDE DEF o, n
  <2> QED
    BY <1>4
<1>6. DOMAIN q = 1 .. n /\ \A j \in 1 .. n : q[j] = Section(o[j], end(j), o[j] + 1)
  <2> HIDE DEF n
  <2>1. q = [j \in DOMAIN o |-> Section(o[j], end(j), o[j] + 1)]
    BY DEF ColorSections
  <2> HIDE DEF q, o
  <2> QED
    BY <2>1, <1>4
<1>7. n = 0 => q = <<>>
  <2>1. q = [j \in DOMAIN o |-> q[j]]
    BY DEF ColorSections
  <2> HIDE DEF q, o, n
  <2> QED
    BY <2>1, <1>4
<1>8. \A k \in 1 .. n : o[k] \in Nat
  <2> HIDE DEF n, o, R
  <2> QED
    BY <1>2, <1>4
<1> HIDE DEF q, o, n, R
<1>9. \A j \in 1 .. n : end(j) \in Int
  <2> SUFFICES ASSUME NEW j \in 1 .. n PROVE end(j) \in Int
    OBVIOUS
  <2>1. j < n => j + 1 \in 1 .. n
    BY <1>4
  <2> QED
    BY <2>1, <1>1, <1>5, <1>8
<1>10. ASSUME NEW j \in 1 .. n
       PROVE  /\ q[j].first = o[j] /\ q[j].last = end(j)
              /\ q[j].has_data => q[j].row_count \in 1 .. q[j].last - q[j].first
  <2> DEFINE e == end(j)
             t == o[j]
  <2>1. q[j] = Section(t, e, t + 1)
    BY <1>6
  <2>2. e \in Int /\ t \in Nat
    BY <1>8, <1>9
  <2> HIDE DEF e, t
  <2>3. /\ q[j].first = t /\ q[j].last = e
        /\ q[j].row_count = IF t + 1 <= e THEN e - (t + 1) + 1 ELSE 0
        /\ q[j].has_data = (t + 1 <= e)
    BY <2>1 DEF Section
  <2>6. q[j].has_data => t + 1 <= e
    BY ONLY <2>3, Zenon
  <2>4. t + 1 <= e => e - (t + 1) + 1 \in 1 .. e - t
    BY <2>2
  <2>5. q[j].has_data => q[j].row_count \in 1 .. q[j].last - q[j].first
    BY <2>3, <2>4, <2>6
  <2> QED
    BY <2>3, <2>5 DEF e, t
<1>11. \A j \in 1 .. n - 1 : q[j].last = q[j + 1].first - 1
  <2> SUFFICES ASSUME NEW j \in 1 .. n - 1 PROVE q[j].last = q[j + 1].first - 1
    OBVIOUS
  <2>1. j \in 1 .. n /\ j + 1 \in 1 .. n /\ j < n
    BY <1>4
  <2> QED
    BY <2>1, <1>5, <1>10
<1>12. n # 0 => q[n].last >= MaxRow(s)
  <2> SUFFICES ASSUME n # 0 PROVE q[n].last >= MaxRow(s)
    OBVIOUS
  <2>1. n \in 1 .. n /\ ~(n < n)
    BY <1>4
  <2> QED
    BY <2>1, <1>1, <1>5, <1>10
<1>13. \A j, k \in 1 .. n : j < k => q[j].first <= q[k].first
  BY <1>4, <1>8, <1>10
<1>14. \A j \in 1 .. n : /\ q[j].first \in Nat /\ q[j].last \in Int
                         /\ q[j].has_data => q[j].row_count \in 1 .. q[j].last - q[j].first
  BY <1>8, <1>9, <1>10
<1>15. DOMAIN q = 1 .. n /\ n \in Nat
  BY <1>4, <1>6
<1> QED
  BY <1>7, <1>11, <1>12, <1>13, <1>14, <1>15 DEF q

\* The sections of a manifest take up the rows of the sheet one after the other.
LEMMA SectionsOfSheet ==
  ASSUME NEW s, IsSheet(s), NEW h \in HeaderOrders(s), NEW q,
         q = SheetManifest(s, h).sections, q # <<>>,
         \A j, k \in DOMAIN q : q[j].first = q[k].first => j = k
  PROVE  /\ \A r \in q[1].first .. MaxRow(s) :
              \E j \in DOMAIN q : /\ r \in q[j].first .. q[j].last
                                  /\ \A k \in DOMAIN q : r \in q[k].first .. q[k].last => k = j
         /\ \A j \in DOMAIN q : q[j].has_data => q[j].row_count \in 1 .. q[j].last - q[j].first
<1>1. q = Sections(s, h) \/ q = ColorSections(s)
  BY DEF SheetManifest
<1>2. PICK n \in Nat :
        /\ DOMAIN q = 1 .. n /\ (n = 0 => q = <<>>)
        /\ \A j \in 1 .. n : /\ q[j].first \in Nat /\ q[j].last \in Int
                             /\ q[j].has_data => q[j].row_count \in 1 .. q[j].last - q[j].first
        /\ \A j \in 1 .. n - 1 : q[j].last = q[j + 1].first - 1
        /\ \A j, k \in 1 .. n : j < k => q[j].first <= q[k].first
        /\ n # 0 => q[n].last >= MaxRow(s)
  <2>1. CASE q = Sections(s, h)
    BY <2>1, SectionsOfHeaders
  <2>2. CASE q = ColorSections(s)
    BY <2>2, SectionsOfColors
  <2> QED
    BY <1>1, <2>1, <2>2
<1>3. n # 0 /\ MaxRow(s) \in Nat
  BY <1>2, SheetFacts
<1>4. \A j, k \in 1 .. n : j < k => q[j].first < q[k].first
  <2> SUFFICES ASSUME NEW j \in 1 .. n, NEW k \in 1 .. n, j < k PROVE q[j].first < q[k].first
    OBVIOUS
  <2>1. q[j].first <= q[k].first /\ q[j].first \in Nat /\ q[k].first \in Nat
    BY <1>2
  <2>2. q[j].first # q[k].first
    <3>1. j \in DOMAIN q /\ k \in DOMAIN q /\ j # k
      BY <1>2
    <3> QED
      BY <3>1
  <2> QED
    BY <2>1, <2>2
<1>5. ASSUME NEW r \in q[1].first .. MaxRow(s)
      PROVE  \E j \in 1 .. n : /\ r \in q[j].first .. q[j].last
                               /\ \A k \in 1 .. n : r \in q[k].first .. q[k].last => k = j
  <2>1. /\ n \in Nat \ {0} /\ MaxRow(s) \in Nat /\ q[n].last >= MaxRow(s)
        /\ \A j \in 1 .. n : q[j].first \in Nat /\ q[j].last \in Int
        /\ \A j \in 1 .. n - 1 : q[j].last = q[j + 1].first - 1
    BY <1>2, <1>3
  <2> QED
    BY ONLY <2>1, <1>4, <1>5, SectionsOneByOne
<1>6. DOMAIN q = 1 .. n
  BY <1>2
<1>7. ASSUME NEW r \in q[1].first .. MaxRow(s)
      PROVE  \E j \in DOMAIN q : /\ r \in q[j].first .. q[j].last
                                 /\ \A k \in DOMAIN q : r \in q[k].first .. q[k].last => k = j
  <2>1. PICK j \in 1 .. n : /\ r \in q[j].first .. q[j].last
                            /\ \A k \in 1 .. n : r \in q[k].first .. q[k].last => k = j
    BY <1>5
  <2>2. \A k \in DOMAIN q : r \in q[k].first .. q[k].last => k = j
    BY ONLY <2>1, <1>6, Zenon
  <2>3. j \in DOMAIN q
    BY <1>6
  <2> QED
    BY <2>1, <2>2, <2>3
<1>8. \A j \in DOMAIN q : q[j].has_data => q[j].row_count \in 1 .. q[j].last - q[j].first
  BY <1>2
<1> QED
  BY <1>7, <1>8

-----------------------------------------------------------------------------
\* The regions of a sheet, and what is said of all sheets.
LEMMA RegionsOfSheet ==
  ASSUME NEW s, IsSheet(s), MaxRow(s) > 1, NEW r \in 1 .. MaxRow(s), NEW q, q = DataRegions(s)
  PROVE  /\ \A j, k \in DOMAIN q : r \in q[j].first .. q[j].last /\ r \in q[k].first .. q[k].last => j = k
         /\ (\E c \in Columns(s) : ~Falsy(Value(s, r, c))) =>
              \E k \in DOMAIN q : r \in q[k].first .. q[k].last
<1> DEFINE m == MaxRow(s)
           last == IF HasTotal(s) THEN m - 1 ELSE m
           x == Region("header", 1, 1)
           y == Region("totals", m, m)
           z == Region("data", 2, last)
           H == \E c \in Columns(s) : ~Falsy(Value(s, 1, c))
           T == HasTotal(s)
           D == last >= 2
           S == {x, y, z}
           W == {v \in S : r \in v.first .. v.last}
           p == If(H, x) \o If(T, y)
<1>1. m \in Nat /\ m > 1 /\ r \in Nat /\ 1 <= r /\ r <= m
  BY SheetFacts
<1>2. q = p \o If(D, z)
  BY DEF DataRegions, RegionsTo, If
<1>3. /\ x.first = 1 /\ x.last = 1 /\ y.first = m /\ y.last = m /\ z.first = 2 /\ z.last = last
      /\ x \in S /\ y \in S /\ z \in S
  BY DEF Region
<1>4. last = m \/ (T /\ last = m - 1)
  OBVIOUS
<1>5. ~T => last = m
  OBVIOUS
<1>6. T => last = m - 1
  OBVIOUS
<1> HIDE DEF last
<1>7. /\ x \in W <=> r = 1
      /\ y \in W <=> r = m
      /\ z \in W <=> 2 <= r /\ r <= last
  <2>1. \A v : v \in W <=> v \in S /\ r \in v.first .. v.last
    OBVIOUS
  <2>2. r \in 1 .. 1 <=> r = 1
    BY <1>1
  <2>3. r \in m .. m <=> r = m
    BY <1>1
  <2>4. r \in 2 .. last <=> 2 <= r /\ r <= last
    BY <1>1, <1>4
  <2> HIDE DEF W, S, x, y, z
  <2> QED
    BY <2>1, <2>2, <2>3, <2>4, <1>3
<1> HIDE DEF x, y, z, S, W, m
<1>8. /\ If(H, x) \in Seq(S) /\ If(T, y) \in Seq(S) /\ If(D, z) \in Seq(S)
      /\ H /\ x \in W => Once(If(H, x), W)
      /\ ~H \/ x \notin W => Nowhere(If(H, x), W)
      /\ T /\ y \in W => Once(If(T, y), W)
      /\ ~T \/ y \notin W => Nowhere(If(T, y), W)
      /\ D /\ z \in W => Once(If(D, z), W)
      /\ ~D \/ z \notin W => Nowhere(If(D, z), W)
  <2> HIDE DEF H, T, D
  <2>1. If(H, x) \in Seq(S) /\ (H /\ x \in W => Once(If(H, x), W))
        /\ (~H \/ x \notin W => Nowhere(If(H, x), W))
    BY <1>3, IfChunk
  <2>2. If(T, y) \in Seq(S) /\ (T /\ y \in W => Once(If(T, y), W))
        /\ (~T \/ y \notin W => Nowhere(If(T, y), W))
    BY <1>3, IfChunk
  <2>3. If(D, z) \in Seq(S) /\ (D /\ z \in W => Once(If(D, z), W))
        /\ (~D \/ z \notin W => Nowhere(If(D, z), W))
    BY <1>3, IfChunk
  <2> QED
    BY <2>1, <2>2, <2>3
<1>9. /\ p \in Seq(S)
      /\ Once(If(H, x), W) /\ Nowhere(If(T, y), W) => Once(p, W)
      /\ Nowhere(If(H, x), W) /\ Once(If(T, y), W) => Once(p, W)
      /\ Nowhere(If(H, x), W) /\ Nowhere(If(T, y), W) => Nowhere(p, W)
  <2> HIDE DEF H, T, D
  <2> QED
    BY <1>8, JoinedOnce, ConcatProperties
<1>10. /\ Once(p, W) /\ Nowhere(If(D, z), W) => Once(q, W)
       /\ Nowhere(p, W) /\ Once(If(D, z), W) => Once(q, W)
       /\ Nowhere(p, W) /\ Nowhere(If(D, z), W) => Nowhere(q, W)
       /\ q \in Seq(S)
  <2> HIDE DEF p, D
  <2> QED
    BY <1>2, <1>8, <1>9, JoinedOnce, ConcatProperties
<1> HIDE DEF p
<1>11. Once(q, W) \/ (Nowhere(q, W) /\ ~\E c \in Columns(s) : ~Falsy(Value(s, r, c)))
  <2>1. CASE r = 1
    <3>1. y \notin W /\ z \notin W /\ x \in W
      BY <2>1, <1>1, <1>7
    <3>2. CASE H
      <4> HIDE DEF H, T, D
      <4> QED
        BY <3>1, <3>2, <1>8, <1>9, <1>10
    <3>3. CASE ~H
      <4>1. ~\E c \in Columns(s) : ~Falsy(Value(s, r, c))
        BY <2>1, <3>3
      <4> HIDE DEF H, T, D
      <4> QED
        BY <3>1, <3>3, <4>1, <1>8, <1>9, <1>10
    <3> QED
      BY <3>2, <3>3
  <2>2. CASE r # 1 /\ r <= last
    <3>1. D
      BY <2>2, <1>1, <1>4
    <3>2. x \notin W /\ z \in W
      BY <2>2, <1>1, <1>7
    <3>3. ~T \/ y \notin W
      BY <2>2, <1>1, <1>6, <1>7
    <3> HIDE DEF H, T, D
    <3> QED
      BY <3>1, <3>2, <3>3, <1>8, <1>9, <1>10
  <2>3. CASE r # 1 /\ ~(r <= last)
    <3>1. T /\ r = m
      BY <2>3, <1>1, <1>4
    <3>2. x \notin W /\ y \in W /\ z \notin W
      BY <2>3, <3>1, <1>7
    <3> HIDE DEF H, T, D
    <3> QED
      BY <3>1, <3>2, <1>8, <1>9, <1>10
  <2> QED
    BY <2>1, <2>2, <2>3
<1>12. \A k \in DOMAIN q : q[k] \in W <=> r \in q[k].first .. q[k].last
  <2>1. \A k \in DOMAIN q : q[k] \in S
    BY <1>10
  <2> QED
    BY <2>1 DEF W
<1>13. CASE Once(q, W)
  <2>1. PICK k \in DOMAIN q : \A j \in DOMAIN q : q[j] \in W <=> j = k
    BY <1>13 DEF Once
  <2> QED
    BY <2>1, <1>12
<1>14. CASE Nowhere(q, W) /\ ~\E c \in Columns(s) : ~Falsy(Value(s, r, c))
  <2>1. \A k \in DOMAIN q : ~(r \in q[k].first .. q[k].last)
    BY <1>12, <1>14 DEF Nowhere
  <2> QED
    BY <2>1, <1>14
<1> QED
  BY <1>11, <1>13, <1>14

LEMMA ChunkOfRelationships ==
  ASSUME NEW list, DOMAIN list = 1 .. Len(list), Len(list) \in Nat
  PROVE  LET q == RelationshipChunk(list)
         IN  /\ \E S : q \in Seq(S)
             /\ \A k \in DOMAIN q : q[k].type = "relationships"
             /\ \A r \in Relationships(list) : \E k \in DOMAIN q :
                  q[k].type = "relationships" /\ q[k].sheet = "" /\ r \in q[k].about[r.from_sheet]
<1> DEFINE rels == Relationships(list)
           chunk == Chunk("relationships", "", [f \in {r.from_sheet : r \in rels} |->
                                                  {r \in rels : r.from_sheet = f}])
           C == Len(list) > 1 /\ rels # {}
           q == RelationshipChunk(list)
<1>1. q = If(C, chunk)
  BY DEF RelationshipChunk
<1>2. chunk.type = "relationships" /\ chunk.sheet = ""
      /\ \A r \in rels : r \in chunk.about[r.from_sheet]
  <2> HIDE DEF rels
  <2> QED
    BY DEF Chunk
<1>3. rels # {} => C
  <2> SUFFICES ASSUME NEW r \in rels PROVE Len(list) > 1
    OBVIOUS
  <2>1. \E i, j \in DOMAIN list : list[j].name # list[i].name
    BY DEF Relationships
  <2> QED
    BY <2>1
<1> HIDE DEF rels, chunk, C
<1>4. q \in Seq({chunk}) /\ \A k \in DOMAIN q : q[k] = chunk
  BY <1>1, IfChunk
<1>5. C => q = <<chunk>>
  BY <1>1 DEF If
<1>6. ASSUME NEW r \in rels
      PROVE  \E k \in DOMAIN q :
               q[k].type = "relationships" /\ q[k].sheet = "" /\ r \in q[k].about[r.from_sheet]
  <2>1. q = <<chunk>>
    BY <1>3, <1>5
  <2>2. 1 \in DOMAIN q /\ q[1] = chunk
    BY <2>1
  <2> QED
    BY <1>2, <2>2
<1>7. \A k \in DOMAIN q : q[k].type = "relationships"
  BY <1>2, <1>4
<1> QED
  BY <1>4, <1>6, <1>7 DEF q, rels

LEMMA SumOfLonger ==
  ASSUME NEW n \in Nat, NEW f, NEW g, DOMAIN f = 1 .. n, DOMAIN g = 1 .. n + 1,
         \A i \in 1 .. n : g[i] = f[i] /\ f[i] \in Nat, g[n + 1] \in Nat
  PROVE  SumFunction(g) = SumFunction(f) + g[n + 1]
<1> DEFINE S == 1 .. n
<1>1. IsFiniteSet(S) /\ n + 1 \notin S /\ 1 .. n + 1 = S \cup {n + 1}
  <2>1. IsFiniteSet(S)
    BY FS_Interval
  <2> QED
    BY <2>1
<1>2. \A y \in S \cup {n + 1} : g[y] \in Nat
  OBVIOUS
<1> HIDE DEF S
<1>3. SumFunctionOnSet(g, S \cup {n + 1}) = SumFunctionOnSet(g, S) + g[n + 1]
  BY <1>1, <1>2, SumOfOneMore
<1>4. SumFunctionOnSet(g, S) = SumFunctionOnSet(f, S)
  <2>1. \A i \in S : g[i] = f[i]
    BY DEF S
  <2> QED
    BY <1>1, <2>1, SumOfSame
<1>5. SumFunction(g) = SumFunctionOnSet(g, S \cup {n + 1}) /\ SumFunction(f) = SumFunctionOnSet(f, S)
  BY <1>1 DEF SumFunction, S
<1> QED
  BY <1>3, <1>4, <1>5

\* The summary has errors, and formulas, when it has their types and categories.
LEMMA SummaryTells ==
  ASSUME NEW list, NEW n \in Nat, DOMAIN list = 1 .. n,
         \A i \in 1 .. n : IsAnalysis(list[i]), NEW f, NEW e,
         f = SumFunction([i \in DOMAIN list |-> Len(list[i].formulas)]),
         e = SumFunction([i \in DOMAIN list |-> Len(list[i].errors)])
  PROVE  LET summary == Summary(list, f, e)
         IN  /\ summary.has_errors <=> summary.error_types # {}
             /\ summary.has_formulas <=> summary.formula_categories # {}
<1> DEFINE a == [i \in DOMAIN list |-> Len(list[i].formulas)]
           b == [i \in DOMAIN list |-> Len(list[i].errors)]
           summary == Summary(list, f, e)
           C == UNION {{list[i].formulas[k].category : k \in DOMAIN list[i].formulas} : i \in DOMAIN list}
           T == UNION {{list[i].errors[k].error_type : k \in DOMAIN list[i].errors} : i \in DOMAIN list}
<1>1. \A i \in 1 .. n : a[i] \in Nat /\ b[i] \in Nat
  BY DEF IsAnalysis
<1>2. f = SumFunctionOnSet(a, 1 .. n) /\ e = SumFunctionOnSet(b, 1 .. n)
  BY DEF SumFunction
<1>3. (f > 0 <=> \E i \in 1 .. n : a[i] > 0) /\ (e > 0 <=> \E i \in 1 .. n : b[i] > 0)
  <2>1. IsFiniteSet(1 .. n)
    BY FS_Interval
  <2> HIDE DEF a, b
  <2> QED
    BY <1>1, <1>2, <2>1, SumIsNothing
<1>4. C # {} <=> \E i \in 1 .. n : a[i] > 0
  <2>1. ASSUME NEW i \in 1 .. n PROVE a[i] > 0 <=> \E k \in DOMAIN list[i].formulas : TRUE
    <3> DEFINE x == list[i].formulas
    <3>1. Len(x) \in Nat /\ DOMAIN x = 1 .. Len(x)
      BY DEF IsAnalysis
    <3>2. a[i] = Len(x)
      OBVIOUS
    <3> HIDE DEF x, a
    <3>3. Len(x) > 0 <=> \E k \in DOMAIN x : TRUE
      <4>1. Len(x) > 0 => 1 \in DOMAIN x
        BY <3>1
      <4>2. \A k \in DOMAIN x : Len(x) > 0
        BY <3>1
      <4> QED
        BY <4>1, <4>2
    <3> QED
      BY <3>2, <3>3 DEF x
  <2>2. ASSUME NEW i \in 1 .. n, NEW k \in DOMAIN list[i].formulas PROVE list[i].formulas[k].category \in C
    OBVIOUS
  <2>3. ASSUME NEW t \in C PROVE \E i \in 1 .. n : \E k \in DOMAIN list[i].formulas : TRUE
    OBVIOUS
  <2> HIDE DEF C, a
  <2> QED
    BY <2>1, <2>2, <2>3
<1>5. T # {} <=> \E i \in 1 .. n : b[i] > 0
  <2>1. ASSUME NEW i \in 1 .. n PROVE b[i] > 0 <=> \E k \in DOMAIN list[i].errors : TRUE
    <3> DEFINE x == list[i].errors
    <3>1. Len(x) \in Nat /\ DOMAIN x = 1 .. Len(x)
      BY DEF IsAnalysis
    <3>2. b[i] = Len(x)
      OBVIOUS
    <3> HIDE DEF x, b
    <3>3. Len(x) > 0 <=> \E k \in DOMAIN x : TRUE
      <4>1. Len(x) > 0 => 1 \in DOMAIN x
        BY <3>1
      <4>2. \A k \in DOMAIN x : Len(x) > 0
        BY <3>1
      <4> QED
        BY <4>1, <4>2
    <3> QED
      BY <3>2, <3>3 DEF x
  <2>2. ASSUME NEW i \in 1 .. n, NEW k \in DOMAIN list[i].errors PROVE list[i].errors[k].error_type \in T
    OBVIOUS
  <2>3. ASSUME NEW t \in T PROVE \E i \in 1 .. n : \E k \in DOMAIN list[i].errors : TRUE
    OBVIOUS
  <2> HIDE DEF T, b
  <2> QED
    BY <2>1, <2>2, <2>3
<1>6. summary.has_errors <=> e > 0
  BY Zenon DEF Summary
<1>7. summary.has_formulas <=> f > 0
  BY Zenon DEF Summary
<1>8. summary.error_types = T
  BY DEF Summary
<1>9. summary.formula_categories = C
  BY DEF Summary
<1> HIDE DEF summary, C, T, a, b
<1>10. (summary.has_errors <=> summary.error_types # {})
       /\ (summary.has_formulas <=> summary.formula_categories # {})
  BY <1>3, <1>4, <1>5, <1>6, <1>7, <1>8, <1>9
<1> QED
  BY <1>10 DEF summary

-----------------------------------------------------------------------------
\* The inductive invariant of the readers.
IsList(q) == q \in Seq(Range(q))
SheetDone(i) == analyses[i] = AnalyzeSheet(book[i])
SheetExtracted(i) == \E h \in HeaderOrders(book[i]) : manifests[i] = SheetManifest(book[i], h)

\* The chunks of a list lie among all chunks from one place on, and no other of the sheet.
Block(r, q, name, o) ==
  /\ \A k \in DOMAIN q : o + k \in DOMAIN r /\ r[o + k] = q[k]
  /\ \A k \in DOMAIN r : r[k].sheet = name /\ r[k].type \in SheetTypes => k - o \in DOMAIN q
SheetTold(i) ==
  \E o \in 0 .. Len(chunks) : Block(chunks, SheetChunks(analyses[i]), analyses[i].name, o)
ReferencesTold ==
  \A r \in Relationships(analyses) : \E k \in DOMAIN chunks :
    chunks[k].type = "relationships" /\ chunks[k].sheet = "" /\ r \in chunks[k].about[r.from_sheet]

Shapes ==
  /\ book \in Book
  /\ IsList(manifests) /\ Len(manifests) <= Len(book)
  /\ IsList(analyses) /\ Len(analyses) <= Len(book)
  /\ IsList(chunks) /\ told \in 0 .. Len(analyses)
Totals ==
  /\ total_errors = SumFunction([i \in DOMAIN analyses |-> Len(analyses[i].errors)])
  /\ total_formulas = SumFunction([i \in DOMAIN analyses |-> Len(analyses[i].formulas)])
ChunksTell ==
  /\ \A i \in 1 .. told : SheetTold(i)
  /\ \A k \in DOMAIN chunks : chunks[k].type \in SheetTypes =>
       \E i \in 1 .. told : chunks[k].sheet = analyses[i].name
  /\ phase = "done" => told = Len(analyses) /\ ReferencesTold
  /\ phase \in {"extract", "parse"} => told = 0
ReadingInv ==
  /\ Shapes /\ Totals /\ ChunksTell
  /\ \A i \in 1 .. Len(manifests) : SheetExtracted(i)
  /\ \A i \in 1 .. Len(analyses) : SheetDone(i)

-----------------------------------------------------------------------------
LEMMA SeqOverRange ==
  ASSUME NEW S, NEW r \in Seq(S)
  PROVE  r \in Seq(Range(r))
<1> DEFINE n == Len(r)
           T == Range(r)
<1>1. n \in Nat /\ r \in [1 .. n -> S]
  OBVIOUS
<1>2. \A i \in 1 .. n : r[i] \in T
  BY <1>1 DEF Range
<1> HIDE DEF n, T
<1>3. r \in [1 .. n -> T]
  BY <1>1, <1>2
<1>4. r \in Seq(T)
  BY <1>1, <1>3
<1> QED
  BY <1>4 DEF T

Extended(q, x, r) ==
  /\ IsList(r) /\ Len(q) \in Nat /\ DOMAIN q = 1 .. Len(q)
  /\ Len(r) = Len(q) + 1 /\ DOMAIN r = 1 .. Len(q) + 1
  /\ (\A i \in 1 .. Len(q) : r[i] = q[i]) /\ r[Len(q) + 1] = x
Concatenated(p, q, r) ==
  /\ IsList(r) /\ DOMAIN p = 1 .. Len(p) /\ DOMAIN q = 1 .. Len(q)
  /\ Len(p) \in Nat /\ Len(q) \in Nat
  /\ Len(r) = Len(p) + Len(q) /\ DOMAIN r = 1 .. Len(p) + Len(q)
  /\ \A k \in 1 .. Len(p) : r[k] = p[k]
  /\ \A k \in 1 .. Len(q) : r[Len(p) + k] = q[k]
  /\ \A k \in DOMAIN r : \/ k \in DOMAIN p
                         \/ k - Len(p) \in DOMAIN q /\ r[k] = q[k - Len(p)]

LEMMA OneMore ==
  ASSUME NEW q, IsList(q), NEW x, NEW r, r = Append(q, x)
  PROVE  Extended(q, x, r)
<1> DEFINE n == Len(q)
<1>1. n \in Nat /\ DOMAIN q = 1 .. n
  BY DEF IsList
<1>2. q \in Seq(Range(q) \cup {x}) /\ x \in Range(q) \cup {x}
  BY DEF IsList
<1>3. /\ r \in Seq(Range(q) \cup {x}) /\ Len(r) = n + 1
      /\ (\A i \in 1 .. n : r[i] = q[i]) /\ r[n + 1] = x
  <2> DEFINE S == Range(q) \cup {x}
  <2>1. q \in Seq(S) /\ x \in S
    BY <1>2
  <2> HIDE DEF S
  <2> QED
    BY <2>1, AppendProperties DEF S
<1>4. DOMAIN r = 1 .. n + 1
  BY <1>3
<1>5. r \in Seq(Range(r))
  BY <1>3, SeqOverRange
<1> QED
  BY <1>1, <1>3, <1>4, <1>5 DEF Extended, IsList

LEMMA ManyMore ==
  ASSUME NEW p, IsList(p), NEW S, NEW q \in Seq(S), NEW r, r = p \o q
  PROVE  Concatenated(p, q, r)
<1> DEFINE T == Range(p) \cup S
           m == Len(p)
           n == Len(q)
<1>1. p \in Seq(T) /\ q \in Seq(T)
  <2>1. \A U, V, x : x \in Seq(U) /\ U \subseteq V => x \in Seq(V)
    OBVIOUS
  <2> QED
    BY <2>1 DEF IsList
<1>2. /\ r \in Seq(T) /\ DOMAIN p = 1 .. m /\ DOMAIN q = 1 .. n
      /\ m \in Nat /\ n \in Nat
      /\ Len(r) = m + n /\ DOMAIN r = 1 .. m + n
      /\ \A k \in 1 .. m : r[k] = p[k]
      /\ \A k \in 1 .. n : r[m + k] = q[k]
      /\ \A k \in 1 .. m + n : k \in 1 .. m \/ k - m \in 1 .. n
  <2> HIDE DEF T
  <2> QED
    BY <1>1, Joined
<1> HIDE DEF T, m, n
<1>3. r \in Seq(Range(r))
  BY <1>2, SeqOverRange
<1>4. ASSUME NEW k \in 1 .. m + n
      PROVE  k \in 1 .. m \/ (k - m \in 1 .. n /\ r[k] = q[k - m])
  <2>1. CASE k - m \in 1 .. n
    <3>1. r[m + (k - m)] = q[k - m] /\ m + (k - m) = k
      BY <2>1, <1>2
    <3> QED
      BY <2>1, <3>1
  <2> QED
    BY <2>1, <1>2
<1> QED
  <2>1. \A k \in DOMAIN r : \/ k \in DOMAIN p
                            \/ k - m \in DOMAIN q /\ r[k] = q[k - m]
    BY <1>2, <1>4
  <2> QED
    BY <1>2, <1>3, <2>1 DEF m, n, Concatenated, IsList

LEMMA BookFacts ==
  ASSUME Shapes
  PROVE  /\ Len(book) \in Nat /\ DOMAIN book = 1 .. Len(book)
         /\ \A i \in 1 .. Len(book) : IsSheet(book[i])
         /\ \A i, j \in 1 .. Len(book) : book[i].name = book[j].name => i = j
         /\ Len(analyses) \in Nat /\ DOMAIN analyses = 1 .. Len(analyses)
         /\ Len(manifests) \in Nat /\ DOMAIN manifests = 1 .. Len(manifests)
         /\ Len(chunks) \in Nat /\ DOMAIN chunks = 1 .. Len(chunks)
         /\ told \in Nat /\ \A i \in 1 .. told : i \in 1 .. Len(analyses)
         /\ \A i \in 1 .. Len(analyses) : i \in 1 .. Len(book)
         /\ \A i \in 1 .. Len(manifests) : i \in 1 .. Len(book)
<1>1. book \in Book
  BY DEF Shapes
<1>2. DOMAIN book = 1 .. Len(book) /\ Len(book) \in Nat
  BY <1>1, BookAssumption
<1>3. \A i \in DOMAIN book : IsSheet(book[i])
  BY <1>1, BookAssumption
<1>4. \A i, j \in DOMAIN book : book[i].name = book[j].name => i = j
  BY <1>1, BookAssumption
<1>5. Len(analyses) \in Nat /\ DOMAIN analyses = 1 .. Len(analyses) /\ Len(analyses) <= Len(book)
  BY DEF Shapes, IsList
<1>6. Len(manifests) \in Nat /\ DOMAIN manifests = 1 .. Len(manifests) /\ Len(manifests) <= Len(book)
  BY DEF Shapes, IsList
<1>7. Len(chunks) \in Nat /\ DOMAIN chunks = 1 .. Len(chunks)
  BY DEF Shapes, IsList
<1>8. told \in Nat /\ told <= Len(analyses)
  BY <1>5 DEF Shapes
<1> QED
  BY <1>2, <1>3, <1>4, <1>5, <1>6, <1>7, <1>8

LEMMA AnalysesFacts ==
  ASSUME Shapes, \A i \in 1 .. Len(analyses) : SheetDone(i)
  PROVE  /\ \A i \in 1 .. Len(analyses) : IsAnalysis(analyses[i])
         /\ \A i, j \in 1 .. Len(analyses) : analyses[i].name = analyses[j].name => i = j
<1>1. \A i \in 1 .. Len(analyses) : IsAnalysis(analyses[i]) /\ analyses[i].name = book[i].name
  <2> SUFFICES ASSUME NEW i \in 1 .. Len(analyses)
               PROVE  IsAnalysis(analyses[i]) /\ analyses[i].name = book[i].name
    OBVIOUS
  <2>1. IsSheet(book[i]) /\ analyses[i] = AnalyzeSheet(book[i])
    BY BookFacts DEF SheetDone
  <2> QED
    BY <2>1, AnalysisOfSheet
<1> QED
  BY <1>1, BookFacts

LEMMA TellingStays ==
  ASSUME ChunksTell, UNCHANGED <<chunks, told, analyses, phase>>
  PROVE  ChunksTell'
BY DEF ChunksTell, SheetTold, Block, ReferencesTold

LEMMA InitReading == ReadingInit => ReadingInv
<1> SUFFICES ASSUME ReadingInit PROVE ReadingInv
  OBVIOUS
<1>1. /\ book \in Book /\ manifests = <<>> /\ analyses = <<>> /\ chunks = <<>>
      /\ total_formulas = 0 /\ total_errors = 0 /\ told = 0 /\ phase = "extract"
  BY DEF ReadingInit
<1>2. Len(book) \in Nat
  BY <1>1, BookAssumption
<1>3. \A q : q = <<>> => IsList(q) /\ Len(q) = 0 /\ DOMAIN q = {}
  BY DEF IsList
<1>4. Shapes
  BY <1>1, <1>2, <1>3 DEF Shapes
<1>5. Totals
  <2>1. \A f : DOMAIN f = {} => SumFunction(f) = 0
    BY SumOfNone DEF SumFunction
  <2>2. DOMAIN [i \in DOMAIN analyses |-> Len(analyses[i].errors)] = {}
        /\ DOMAIN [i \in DOMAIN analyses |-> Len(analyses[i].formulas)] = {}
    BY <1>1, <1>3
  <2> QED
    BY <1>1, <2>1, <2>2 DEF Totals
<1>6. ChunksTell
  BY <1>1, <1>3 DEF ChunksTell
<1> QED
  BY <1>1, <1>3, <1>4, <1>5, <1>6 DEF ReadingInv

LEMMA ExtractKeeps == ReadingInv /\ ExtractSheet => ReadingInv'
<1> SUFFICES ASSUME ReadingInv, ExtractSheet PROVE ReadingInv'
  OBVIOUS
<1>1. Shapes /\ Totals /\ ChunksTell
  BY DEF ReadingInv
<1> DEFINE n == Len(manifests)
<1>2. PICK h \in HeaderOrders(book[n + 1]) :
        manifests' = Append(manifests, SheetManifest(book[n + 1], h))
  BY DEF ExtractSheet
<1>3. Len(manifests) < Len(book)
      /\ UNCHANGED <<book, analyses, total_formulas, total_errors, chunks, told, phase>>
  BY DEF ExtractSheet
<1>4. /\ IsList(manifests') /\ n \in Nat /\ Len(manifests') = n + 1
      /\ (\A i \in 1 .. n : manifests'[i] = manifests[i])
      /\ manifests'[n + 1] = SheetManifest(book[n + 1], h)
  <2> DEFINE x == SheetManifest(book[n + 1], h)
             r == manifests'
  <2>1. IsList(manifests) /\ r = Append(manifests, x)
    BY <1>1, <1>2 DEF Shapes
  <2> HIDE DEF x, r
  <2>2. Extended(manifests, x, r)
    BY ONLY <2>1, OneMore
  <2> QED
    BY <2>2 DEF Extended, x, r
<1>5. Shapes'
  <2>1. Len(manifests') <= Len(book)
    BY <1>1, <1>3, <1>4, BookFacts
  <2> QED
    BY <1>1, <1>3, <1>4, <2>1 DEF Shapes
<1>6. Totals' /\ ChunksTell'
  BY <1>1, <1>3, TellingStays DEF Totals
<1>7. ASSUME NEW i \in 1 .. Len(manifests') PROVE SheetExtracted(i)'
  <2>1. CASE i = n + 1
    BY <2>1, <1>3, <1>4 DEF SheetExtracted
  <2>2. CASE i # n + 1
    <3>1. i \in 1 .. n
      BY <2>2, <1>4
    <3>2. SheetExtracted(i)
      BY <3>1 DEF ReadingInv
    <3> QED
      BY <3>1, <3>2, <1>3, <1>4 DEF SheetExtracted
  <2> QED
    BY <2>1, <2>2
<1>8. \A i \in 1 .. Len(analyses') : SheetDone(i)'
  BY <1>3 DEF ReadingInv, SheetDone
<1> QED
  BY <1>5, <1>6, <1>7, <1>8 DEF ReadingInv

LEMMA ParseSheetKeeps == ReadingInv /\ ParseSheet => ReadingInv'
<1> SUFFICES ASSUME ReadingInv, ParseSheet PROVE ReadingInv'
  OBVIOUS
<1>1. Shapes /\ Totals /\ ChunksTell
  BY DEF ReadingInv
<1> DEFINE n == Len(analyses)
           a == AnalyzeSheet(book[n + 1])
<1>2. /\ phase = "parse" /\ n < Len(book) /\ analyses' = Append(analyses, a)
      /\ total_formulas' = total_formulas + Len(a.formulas)
      /\ total_errors' = total_errors + Len(a.errors)
      /\ UNCHANGED <<book, manifests, total_sections, chunks, told, phase>>
  BY DEF ParseSheet
<1>3. IsAnalysis(a)
  <2>1. n + 1 \in 1 .. Len(book)
    BY <1>1, <1>2, BookFacts
  <2>2. IsSheet(book[n + 1])
    BY <1>1, <2>1, BookFacts
  <2> QED
    BY <2>2, AnalysisOfSheet
<1> HIDE DEF a
<1>4. /\ IsList(analyses') /\ n \in Nat /\ Len(analyses') = n + 1
      /\ DOMAIN analyses = 1 .. n /\ DOMAIN analyses' = 1 .. n + 1
      /\ (\A i \in 1 .. n : analyses'[i] = analyses[i]) /\ analyses'[n + 1] = a
  <2> DEFINE r == analyses'
  <2>1. IsList(analyses) /\ r = Append(analyses, a)
    BY <1>1, <1>2 DEF Shapes
  <2> HIDE DEF r
  <2>2. Extended(analyses, a, r)
    BY ONLY <2>1, OneMore
  <2> QED
    BY <2>2 DEF Extended, r
<1>5. Shapes'
  <2>1. Len(analyses') <= Len(book) /\ told \in 0 .. Len(analyses')
    <3>1. told \in 0 .. n /\ Len(book) \in Nat
      BY <1>1, BookFacts DEF Shapes
    <3> QED
      BY <3>1, <1>2, <1>4
  <2> QED
    BY <1>1, <1>2, <1>4, <2>1 DEF Shapes
<1>6. ASSUME NEW i \in 1 .. n PROVE IsAnalysis(analyses[i])
  BY <1>1, <1>6, AnalysesFacts DEF ReadingInv
<1>7. Totals'
  <2> DEFINE e == [i \in DOMAIN analyses |-> Len(analyses[i].errors)]
             f == [i \in DOMAIN analyses |-> Len(analyses[i].formulas)]
             g == [i \in DOMAIN analyses' |-> Len(analyses'[i].errors)]
             k == [i \in DOMAIN analyses' |-> Len(analyses'[i].formulas)]
  <2>1. /\ DOMAIN e = 1 .. n /\ DOMAIN f = 1 .. n /\ DOMAIN g = 1 .. n + 1 /\ DOMAIN k = 1 .. n + 1
    BY <1>4
  <2>2. \A i \in 1 .. n : g[i] = e[i] /\ e[i] \in Nat /\ k[i] = f[i] /\ f[i] \in Nat
    BY <1>4, <1>6 DEF IsAnalysis
  <2>3. g[n + 1] = Len(a.errors) /\ k[n + 1] = Len(a.formulas)
        /\ Len(a.errors) \in Nat /\ Len(a.formulas) \in Nat
    BY <1>3, <1>4 DEF IsAnalysis
  <2>4. total_errors = SumFunction(e) /\ total_formulas = SumFunction(f)
    BY <1>1 DEF Totals
  <2> HIDE DEF e, f, g, k, n
  <2>5. SumFunction(g) = SumFunction(e) + g[n + 1]
    BY <1>4, <2>1, <2>2, <2>3, SumOfLonger
  <2>6. SumFunction(k) = SumFunction(f) + k[n + 1]
    BY <1>4, <2>1, <2>2, <2>3, SumOfLonger
  <2>7. total_errors' = SumFunction(g) /\ total_formulas' = SumFunction(k)
    BY <1>2, <2>3, <2>4, <2>5, <2>6
  <2> QED
    BY <2>7 DEF Totals, g, k
<1>8. ChunksTell'
  <2>1. told = 0 /\ told' = 0 /\ phase' = "parse" /\ chunks' = chunks
    BY <1>1, <1>2 DEF ChunksTell
  <2>2. \A k \in DOMAIN chunks : chunks[k].type \notin SheetTypes
    BY <1>1, <2>1 DEF ChunksTell
  <2> QED
    BY <2>1, <2>2 DEF ChunksTell
<1>9. ASSUME NEW i \in 1 .. Len(analyses') PROVE SheetDone(i)'
  <2>1. CASE i = n + 1
    BY <2>1, <1>2, <1>4 DEF SheetDone, a
  <2>2. CASE i # n + 1
    <3>1. i \in 1 .. n
      BY <2>2, <1>4
    <3>2. SheetDone(i)
      BY <3>1 DEF ReadingInv
    <3> QED
      BY <3>1, <3>2, <1>2, <1>4 DEF SheetDone
  <2> QED
    BY <2>1, <2>2
<1>10. \A i \in 1 .. Len(manifests') : SheetExtracted(i)'
  BY <1>2 DEF ReadingInv, SheetExtracted
<1> QED
  BY <1>5, <1>7, <1>8, <1>9, <1>10 DEF ReadingInv

LEMMA PhasesKeep ==
  ReadingInv /\ (Parse \/ Generate \/ UNCHANGED readingVars) => ReadingInv'
<1> SUFFICES ASSUME ReadingInv, Parse \/ Generate \/ UNCHANGED readingVars PROVE ReadingInv'
  OBVIOUS
<1>1. Shapes /\ Totals /\ ChunksTell
  BY DEF ReadingInv
<1>2. UNCHANGED <<book, manifests, analyses, total_formulas, total_errors, told>>
  BY DEF Parse, Generate, readingVars
<1>3. Totals' /\ (\A i \in 1 .. Len(manifests') : SheetExtracted(i)')
      /\ (\A i \in 1 .. Len(analyses') : SheetDone(i)')
  BY <1>2 DEF ReadingInv, Totals, SheetExtracted, SheetDone
<1>4. CASE Parse
  <2>1. chunks' = chunks /\ told = 0 /\ phase' = "parse"
    BY <1>1, <1>4 DEF Parse, ChunksTell
  <2>2. ChunksTell'
    BY <1>1, <1>2, <2>1 DEF ChunksTell
  <2> QED
    BY <1>1, <1>2, <1>3, <2>1, <2>2 DEF ReadingInv, Shapes
<1>5. CASE Generate
  <2>1. chunks' = <<OverviewChunk(analyses)>> /\ told = 0 /\ phase' = "chunk"
    BY <1>1, <1>5 DEF Generate, ChunksTell
  <2>2. IsList(chunks') /\ DOMAIN chunks' = {1} /\ chunks'[1] = OverviewChunk(analyses)
    <3> DEFINE x == OverviewChunk(analyses)
    <3>1. chunks' = <<x>>
      BY <2>1
    <3> HIDE DEF x
    <3>2. <<x>> \in Seq({x}) /\ DOMAIN <<x>> = {1} /\ <<x>>[1] = x
      OBVIOUS
    <3> QED
      BY <3>1, <3>2, SeqOverRange DEF x, IsList
  <2>3. OverviewChunk(analyses).type \notin SheetTypes
    BY DEF OverviewChunk, Chunk, SheetTypes
  <2>4. ChunksTell'
    BY <1>2, <2>1, <2>2, <2>3 DEF ChunksTell
  <2> QED
    BY <1>1, <1>2, <1>3, <2>2, <2>4 DEF ReadingInv, Shapes
<1>6. CASE UNCHANGED readingVars
  BY <1>1, <1>3, <1>6, TellingStays DEF ReadingInv, Shapes, readingVars
<1> QED
  BY <1>4, <1>5, <1>6

\* A sheet stays told when what is added to the chunks is not of it.
LEMMA BlockStays ==
  ASSUME NEW p, NEW s, NEW r, Concatenated(p, s, r), NEW q, NEW name, NEW o, Block(p, q, name, o),
         \A k \in DOMAIN s : ~(s[k].sheet = name /\ s[k].type \in SheetTypes)
  PROVE  Block(r, q, name, o)
<1>1. \A k \in DOMAIN q : o + k \in DOMAIN r /\ r[o + k] = q[k]
  <2> SUFFICES ASSUME NEW k \in DOMAIN q PROVE o + k \in DOMAIN r /\ r[o + k] = q[k]
    OBVIOUS
  <2> DEFINE j == o + k
  <2>1. j \in DOMAIN p /\ p[j] = q[k]
    BY DEF Block
  <2> HIDE DEF j
  <2>2. j \in DOMAIN r /\ r[j] = p[j]
    BY <2>1 DEF Concatenated
  <2> QED
    BY <2>1, <2>2 DEF j
<1>2. ASSUME NEW k \in DOMAIN r, r[k].sheet = name /\ r[k].type \in SheetTypes
      PROVE  k - o \in DOMAIN q
  <2>1. \/ k \in DOMAIN p
        \/ k - Len(p) \in DOMAIN s /\ r[k] = s[k - Len(p)]
    BY DEF Concatenated
  <2>2. ~(k - Len(p) \in DOMAIN s /\ r[k] = s[k - Len(p)])
    <3> DEFINE j == k - Len(p)
    <3>1. j \in DOMAIN s => ~(s[j].sheet = name /\ s[j].type \in SheetTypes)
      OBVIOUS
    <3> HIDE DEF j
    <3>2. ~(j \in DOMAIN s /\ r[k] = s[j])
      BY <1>2, <3>1
    <3> QED
      BY <3>2 DEF j
  <2>3. k \in DOMAIN p /\ r[k] = p[k]
    BY <2>1, <2>2 DEF Concatenated
  <2> QED
    BY <1>2, <2>3 DEF Block
<1> QED
  BY <1>1, <1>2 DEF Block

\* The chunks of a sheet, put after those of others, tell of it.
LEMMA BlockAdded ==
  ASSUME NEW p, NEW q, NEW r, Concatenated(p, q, r), NEW name,
         \A k \in DOMAIN p : ~(p[k].sheet = name /\ p[k].type \in SheetTypes)
  PROVE  Block(r, q, name, Len(p))
<1> DEFINE m == Len(p)
<1>1. m \in Nat /\ DOMAIN q = 1 .. Len(q) /\ Len(q) \in Nat /\ DOMAIN r = 1 .. m + Len(q)
      /\ (\A k \in 1 .. Len(q) : r[m + k] = q[k])
      /\ (\A k \in DOMAIN p : r[k] = p[k])
      /\ (\A k \in DOMAIN r : k \in DOMAIN p \/ k - m \in DOMAIN q)
  BY DEF Concatenated
<1> HIDE DEF m
<1>2. \A k \in DOMAIN q : m + k \in DOMAIN r /\ r[m + k] = q[k]
  BY <1>1
<1>3. \A k \in DOMAIN r : r[k].sheet = name /\ r[k].type \in SheetTypes => k - m \in DOMAIN q
  BY <1>1
<1>4. Block(r, q, name, m)
  BY <1>2, <1>3 DEF Block
<1> QED
  BY <1>4 DEF m

LEMMA ChunkSheetKeeps == ReadingInv /\ ChunkSheet => ReadingInv'
<1> SUFFICES ASSUME ReadingInv, ChunkSheet PROVE ReadingInv'
  OBVIOUS
<1>1. Shapes /\ Totals /\ ChunksTell /\ \A i \in 1 .. Len(analyses) : SheetDone(i)
  BY DEF ReadingInv
<1> DEFINE a == analyses[told + 1]
           q == SheetChunks(a)
           r == chunks'
<1>2. /\ phase = "chunk" /\ told < Len(analyses) /\ r = chunks \o q /\ told' = told + 1
      /\ UNCHANGED <<book, manifests, analyses, total_formulas, total_errors, phase>>
  BY DEF ChunkSheet
<1>3. told \in Nat /\ Len(analyses) \in Nat /\ told + 1 \in 1 .. Len(analyses)
  BY <1>1, <1>2, BookFacts
<1>4. IsAnalysis(a)
  BY <1>1, <1>3, AnalysesFacts
<1>5. \A k \in DOMAIN q : q[k].sheet = a.name /\ q[k].type \in SheetTypes
  BY <1>4, ChunksOfSheet
<1>6. Concatenated(chunks, q, r)
  <2>1. PICK S : q \in Seq(S)
    BY <1>4, ChunksOfSheet
  <2>2. IsList(chunks)
    BY <1>1 DEF Shapes
  <2>3. r = chunks \o q
    BY <1>2
  <2> HIDE DEF q, r
  <2> QED
    BY ONLY <2>1, <2>2, <2>3, ManyMore
<1>7. /\ IsList(r) /\ Len(chunks) \in Nat /\ Len(q) \in Nat /\ Len(r) = Len(chunks) + Len(q)
      /\ \A k \in DOMAIN r : \/ k \in DOMAIN chunks /\ r[k] = chunks[k]
                             \/ k - Len(chunks) \in DOMAIN q /\ r[k] = q[k - Len(chunks)]
  <2> HIDE DEF q, r
  <2> QED
    BY <1>6 DEF Concatenated
<1> HIDE DEF q, r
<1>8. Shapes'
  <2>1. told' \in 0 .. Len(analyses)
    BY <1>2, <1>3
  <2> QED
    BY <1>1, <1>2, <1>7, <2>1 DEF Shapes, r
<1>9. ASSUME NEW i \in 1 .. told' PROVE SheetTold(i)'
  <2> DEFINE t == SheetChunks(analyses[i])
             name == analyses[i].name
  <2>1. i \in 1 .. Len(analyses)
    BY <1>2, <1>3
  <2>2. \E o \in 0 .. Len(r) : Block(r, t, name, o)
    <3>1. CASE i = told + 1
      <4>1. \A k \in DOMAIN chunks : ~(chunks[k].sheet = name /\ chunks[k].type \in SheetTypes)
        <5> SUFFICES ASSUME NEW k \in DOMAIN chunks, chunks[k].type \in SheetTypes
                     PROVE  chunks[k].sheet # name
          OBVIOUS
        <5>1. PICK j \in 1 .. told : chunks[k].sheet = analyses[j].name
          BY <1>1 DEF ChunksTell
        <5>2. j # i /\ j \in 1 .. Len(analyses)
          BY <1>3, <3>1
        <5> QED
          BY <1>1, <2>1, <5>1, <5>2, AnalysesFacts
      <4>2. t = q
        BY <3>1 DEF q
      <4> HIDE DEF name, t
      <4>3. Block(r, q, name, Len(chunks))
        BY ONLY <1>6, <4>1, BlockAdded
      <4> QED
        BY <1>7, <4>2, <4>3
    <3>2. CASE i # told + 1
      <4>1. i \in 1 .. told
        BY <1>2, <1>3, <3>2
      <4>2. PICK o \in 0 .. Len(chunks) : Block(chunks, t, name, o)
        BY <1>1, <4>1 DEF ChunksTell, SheetTold
      <4>3. a.name # name
        BY <1>1, <1>3, <2>1, <3>2, AnalysesFacts
      <4>4. \A k \in DOMAIN q : ~(q[k].sheet = name /\ q[k].type \in SheetTypes)
        BY <1>5, <4>3
      <4> HIDE DEF t, name
      <4>5. Block(r, t, name, o)
        BY ONLY <1>6, <4>2, <4>4, BlockStays
      <4> QED
        BY <1>7, <4>5
    <3> QED
      BY <3>1, <3>2
  <2> QED
    BY <1>2, <2>2 DEF SheetTold, r
<1>10. ASSUME NEW k \in DOMAIN r, r[k].type \in SheetTypes
       PROVE  \E i \in 1 .. told' : r[k].sheet = analyses[i].name
  <2>1. CASE k \in DOMAIN chunks /\ r[k] = chunks[k]
    <3>1. PICK i \in 1 .. told : chunks[k].sheet = analyses[i].name
      BY <1>1, <1>10, <2>1 DEF ChunksTell
    <3>2. i \in 1 .. told'
      BY <1>2, <1>3
    <3> QED
      BY <2>1, <3>1, <3>2
  <2>2. CASE k - Len(chunks) \in DOMAIN q /\ r[k] = q[k - Len(chunks)]
    <3>1. r[k].sheet = a.name
      BY <1>5, <2>2
    <3>2. told + 1 \in 1 .. told'
      BY <1>2, <1>3
    <3> QED
      BY <3>1, <3>2
  <2> QED
    BY <1>7, <2>1, <2>2
<1>11. ChunksTell'
  BY <1>2, <1>9, <1>10 DEF ChunksTell, r
<1> QED
  BY <1>1, <1>2, <1>8, <1>11 DEF ReadingInv, Totals, SheetDone, SheetExtracted

LEMMA FinishKeeps == ReadingInv /\ Finish => ReadingInv'
<1> SUFFICES ASSUME ReadingInv, Finish PROVE ReadingInv'
  OBVIOUS
<1>1. Shapes /\ Totals /\ ChunksTell /\ \A i \in 1 .. Len(analyses) : SheetDone(i)
  BY DEF ReadingInv
<1> DEFINE q == RelationshipChunk(analyses)
           r == chunks'
<1>2. /\ phase = "chunk" /\ told = Len(analyses) /\ r = chunks \o q /\ phase' = "done"
      /\ UNCHANGED <<book, manifests, analyses, total_formulas, total_errors, told>>
  BY DEF Finish
<1>3. DOMAIN analyses = 1 .. Len(analyses) /\ Len(analyses) \in Nat
  BY <1>1, BookFacts
<1>4. \A k \in DOMAIN q : q[k].type = "relationships"
  BY <1>3, ChunkOfRelationships
<1>5. \A x \in Relationships(analyses) : \E k \in DOMAIN q :
        q[k].type = "relationships" /\ q[k].sheet = "" /\ x \in q[k].about[x.from_sheet]
  BY <1>3, ChunkOfRelationships
<1>6. Concatenated(chunks, q, r)
  <2>1. PICK S : q \in Seq(S)
    BY <1>3, ChunkOfRelationships
  <2>2. IsList(chunks)
    BY <1>1 DEF Shapes
  <2>3. r = chunks \o q
    BY <1>2
  <2> HIDE DEF q, r
  <2> QED
    BY ONLY <2>1, <2>2, <2>3, ManyMore
<1> HIDE DEF q, r
<1>7. /\ IsList(r) /\ Len(chunks) \in Nat /\ Len(q) \in Nat /\ Len(r) = Len(chunks) + Len(q)
      /\ DOMAIN q = 1 .. Len(q) /\ DOMAIN r = 1 .. Len(r)
      /\ (\A k \in 1 .. Len(q) : r[Len(chunks) + k] = q[k])
      /\ \A k \in DOMAIN r : \/ k \in DOMAIN chunks /\ r[k] = chunks[k]
                             \/ k - Len(chunks) \in DOMAIN q /\ r[k] = q[k - Len(chunks)]
  BY <1>6 DEF Concatenated
<1>8. Shapes'
  BY <1>1, <1>2, <1>7 DEF Shapes, r
<1>9. \A k \in DOMAIN q : q[k].type \notin SheetTypes
  BY <1>4 DEF SheetTypes
<1>10. ASSUME NEW i \in 1 .. told PROVE SheetTold(i)'
  <2> DEFINE t == SheetChunks(analyses[i])
             name == analyses[i].name
  <2>1. PICK o \in 0 .. Len(chunks) : Block(chunks, t, name, o)
    BY <1>1 DEF ChunksTell, SheetTold
  <2>2. \A k \in DOMAIN q : ~(q[k].sheet = name /\ q[k].type \in SheetTypes)
    BY <1>9
  <2>3. Block(r, t, name, o)
    <3> HIDE DEF t, name
    <3> QED
      BY ONLY <1>6, <2>1, <2>2, BlockStays
  <2>4. o \in 0 .. Len(r)
    BY <1>7
  <2> QED
    BY <1>2, <2>3, <2>4 DEF SheetTold, r
<1>11. ASSUME NEW k \in DOMAIN r, r[k].type \in SheetTypes
       PROVE  \E i \in 1 .. told : r[k].sheet = analyses[i].name
  <2>1. k \in DOMAIN chunks /\ r[k] = chunks[k]
    BY <1>7, <1>9, <1>11
  <2> QED
    BY <1>1, <1>11, <2>1 DEF ChunksTell
<1>12. ASSUME NEW x \in Relationships(analyses)
       PROVE  \E k \in DOMAIN r :
                r[k].type = "relationships" /\ r[k].sheet = "" /\ x \in r[k].about[x.from_sheet]
  <2>1. PICK k \in DOMAIN q :
          q[k].type = "relationships" /\ q[k].sheet = "" /\ x \in q[k].about[x.from_sheet]
    BY <1>5
  <2> DEFINE j == Len(chunks) + k
  <2>2. j \in DOMAIN r /\ r[j] = q[k]
    BY <1>7
  <2> HIDE DEF j
  <2> QED
    BY <2>1, <2>2
<1>13. ReferencesTold'
  BY <1>2, <1>12 DEF ReferencesTold, r
<1>14. ChunksTell'
  BY <1>2, <1>10, <1>11, <1>13 DEF ChunksTell, r
<1> QED
  BY <1>1, <1>2, <1>8, <1>14 DEF ReadingInv, Totals, SheetDone, SheetExtracted

LEMMA StepReading == ReadingInv /\ [ReadingNext]_readingVars => ReadingInv'
BY ExtractKeeps, ParseSheetKeeps, PhasesKeep, ChunkSheetKeeps, FinishKeeps DEF ReadingNext

\* What the readers have read so far is what the sheets say, and what the chunks have
\* told so far is what was read.
THEOREM ReadingInvariance == ReadingSpec => []ReadingInv
<1> QED
  BY InitReading, StepReading, PTL DEF ReadingSpec

-----------------------------------------------------------------------------
\* A workbook's passes agree on what they count.
THEOREM CountsAlwaysAgree == ReadingSpec => []CountsAgree
<1>1. ReadingInv => CountsAgree
  <2> SUFFICES ASSUME ReadingInv PROVE CountsAgree
    OBVIOUS
  <2>1. Shapes /\ Totals /\ \A i \in 1 .. Len(analyses) : SheetDone(i)
    BY DEF ReadingInv
  <2>2. DOMAIN analyses = 1 .. Len(analyses) /\ Len(analyses) \in Nat
    BY <2>1, BookFacts
  <2>3. ASSUME NEW i \in DOMAIN analyses
        PROVE  LET s == book[i]
                   a == analyses[i]
               IN  /\ Len(a.errors) =
                        SumFunction([c \in DOMAIN a.columns |-> a.columns[c].errors])
                          + Cardinality({c \in Columns(s) : Value(s, MinRow(s), c).type = "error"})
                   /\ Len(a.formulas) =
                        SumFunction([c \in DOMAIN a.columns |-> a.columns[c].formulas])
                          + Cardinality({c \in Columns(s) : Formula(s, MinRow(s), c).is})
                   /\ \A c \in Columns(s) : a.columns[c].non_null + a.columns[c].null = a.row_count - 1
    <3>1. IsSheet(book[i]) /\ analyses[i] = AnalyzeSheet(book[i])
      BY <2>1, <2>2, <2>3, BookFacts DEF SheetDone
    <3> QED
      BY <3>1, SheetCounts
  <2>4. LET summary == Summary(analyses, total_formulas, total_errors)
        IN  /\ summary.has_errors <=> summary.error_types # {}
            /\ summary.has_formulas <=> summary.formula_categories # {}
    <3>1. \A i \in 1 .. Len(analyses) : IsAnalysis(analyses[i])
      BY <2>1, AnalysesFacts
    <3>2. /\ total_errors = SumFunction([i \in DOMAIN analyses |-> Len(analyses[i].errors)])
          /\ total_formulas = SumFunction([i \in DOMAIN analyses |-> Len(analyses[i].formulas)])
      BY <2>1 DEF Totals
    <3> QED
      BY <2>2, <3>1, <3>2, SummaryTells
  <2> QED
    BY <2>1, <2>3, <2>4 DEF CountsAgree, Totals
<1> QED
  BY <1>1, ReadingInvariance, PTL

\* The data regions of a sheet do not overlap, and leave out no row that says something.
THEOREM RegionsAlwaysTile == ReadingSpec => []RegionsTile
<1>1. ReadingInv => RegionsTile
  <2> SUFFICES ASSUME ReadingInv, NEW i \in DOMAIN analyses, MaxRow(book[i]) > 1,
                      NEW r \in 1 .. MaxRow(book[i])
               PROVE  LET s == book[i]
                          regions == analyses[i].regions
                          within(x) == {k \in DOMAIN regions : x \in regions[k].first .. regions[k].last}
                      IN  /\ \A j, k \in within(r) : j = k
                          /\ (\E c \in Columns(s) : ~Falsy(Value(s, r, c))) => within(r) # {}
    BY DEF RegionsTile
  <2>1. Shapes /\ \A j \in 1 .. Len(analyses) : SheetDone(j)
    BY DEF ReadingInv
  <2>2. IsSheet(book[i]) /\ analyses[i] = AnalyzeSheet(book[i])
    BY <2>1, BookFacts DEF SheetDone
  <2>3. analyses[i].regions = DataRegions(book[i])
    BY <2>2 DEF AnalyzeSheet
  <2> DEFINE q == analyses[i].regions
  <2>4. /\ \A j, k \in DOMAIN q : r \in q[j].first .. q[j].last /\ r \in q[k].first .. q[k].last => j = k
        /\ (\E c \in Columns(book[i]) : ~Falsy(Value(book[i], r, c))) =>
              \E k \in DOMAIN q : r \in q[k].first .. q[k].last
    <3> HIDE DEF q
    <3>1. q = DataRegions(book[i])
      BY <2>3 DEF q
    <3> QED
      BY <2>2, <3>1, RegionsOfSheet
  <2> HIDE DEF q
  <2>5. /\ \A j, k \in {k \in DOMAIN q : r \in q[k].first .. q[k].last} : j = k
        /\ (\E c \in Columns(book[i]) : ~Falsy(Value(book[i], r, c))) =>
              {k \in DOMAIN q : r \in q[k].first .. q[k].last} # {}
    BY ONLY <2>4
  <2> QED
    BY <2>5 DEF q
<1> QED
  BY <1>1, ReadingInvariance, PTL

\* Of the chunks of a set, the k-th is the only one in the list.
OnlyAt(r, W, k) == k \in DOMAIN r /\ \A j \in DOMAIN r : r[j] \in W <=> j = k

\* A chunk that is the only one of its kind among those of its sheet is the only one among all.
LEMMA OnlyInBlock ==
  ASSUME NEW r, NEW q, NEW name, NEW o \in Nat, Block(r, q, name, o),
         DOMAIN q \subseteq Int, DOMAIN r \subseteq Int, NEW W,
         \A x \in W : x.sheet = name /\ x.type \in SheetTypes, NEW k, OnlyAt(q, W, k)
  PROVE  OnlyAt(r, W, o + k) /\ r[o + k] = q[k]
<1>1. k \in DOMAIN q /\ k \in Int /\ q[k] \in W
  BY DEF OnlyAt
<1>2. o + k \in DOMAIN r /\ r[o + k] = q[k]
  BY <1>1 DEF Block
<1>3. ASSUME NEW j \in DOMAIN r, r[j] \in W
      PROVE  j = o + k
  <2> DEFINE i == j - o
  <2>1. i \in DOMAIN q
    BY <1>3 DEF Block
  <2>2. o + i = j /\ i \in Int
    BY <2>1
  <2> HIDE DEF i
  <2>3. r[o + i] = q[i]
    BY <2>1 DEF Block
  <2>4. i = k
    BY <1>3, <2>1, <2>2, <2>3 DEF OnlyAt
  <2> QED
    BY <2>2, <2>4
<1> DEFINE z == o + k
<1>4. z \in DOMAIN r /\ \A j \in DOMAIN r : r[j] \in W <=> j = z
  BY <1>1, <1>2, <1>3
<1> HIDE DEF z
<1>5. OnlyAt(r, W, z)
  BY <1>4 DEF OnlyAt
<1> QED
  BY <1>2, <1>5 DEF z

\* Each column of a sheet is in one chunk by purpose; its formulas and errors are in one
\* chunk each, counted by kind, the first ListLimit of a kind listed and the others
\* numbered; each reference of a workbook is in its chunk of relationships.
THEOREM ChunksAlwaysCoverWorkbook == ReadingSpec => []ChunksCoverWorkbook
<1>1. ReadingInv => ChunksCoverWorkbook
  <2> SUFFICES ASSUME ReadingInv, phase = "done" PROVE ChunksCoverWorkbook
    BY DEF ChunksCoverWorkbook
  <2> DEFINE of(type, name) == {k \in DOMAIN chunks : chunks[k].type = type /\ chunks[k].sheet = name}
  <2>1. Shapes /\ ChunksTell /\ \A i \in 1 .. Len(analyses) : SheetDone(i)
    BY DEF ReadingInv
  <2>2. told = Len(analyses) /\ ReferencesTold /\ \A i \in 1 .. told : SheetTold(i)
    BY <2>1 DEF ChunksTell
  <2>3. ASSUME NEW i \in DOMAIN analyses
        PROVE  LET a == analyses[i]
               IN  /\ \A c \in DOMAIN a.columns : \E k \in DOMAIN chunks :
                        {j \in of("column_analysis", a.name) : c \in chunks[j].about} = {k}
                   /\ a.formulas # <<>> => \E k \in DOMAIN chunks :
                        /\ of("formula_analysis", a.name) = {k}
                        /\ TellsAll(chunks[k].about, Categories(a))
                   /\ a.errors # <<>> => \E k \in DOMAIN chunks :
                        /\ of("error_analysis", a.name) = {k}
                        /\ TellsAll(chunks[k].about, ErrorTypes(a))
    <3> DEFINE a == analyses[i]
               q == SheetChunks(a)
               name == a.name
    <3>1. i \in 1 .. told
      BY <2>1, <2>2, BookFacts
    <3>2. PICK o \in 0 .. Len(chunks) : Block(chunks, q, name, o)
      BY <2>2, <3>1 DEF SheetTold
    <3>3. IsAnalysis(a)
      BY <2>1, <2>2, <3>1, AnalysesFacts
    <3>4. /\ \A k \in DOMAIN q : q[k].sheet = name
          /\ DOMAIN q \subseteq Int /\ DOMAIN chunks \subseteq Int /\ o \in Nat
      <4>1. PICK S : q \in Seq(S)
        BY <3>3, ChunksOfSheet
      <4>2. Len(chunks) \in Nat /\ DOMAIN chunks = 1 .. Len(chunks)
        BY <2>1, BookFacts
      <4>3. \A k \in DOMAIN q : q[k].sheet = name
        BY <3>3, ChunksOfSheet
      <4> HIDE DEF q
      <4> QED
        BY <4>1, <4>2, <4>3
    <3>5. /\ \A c \in DOMAIN a.columns : \E k \in DOMAIN q : \A j \in DOMAIN q :
                  (q[j].type = "column_analysis" /\ c \in q[j].about) <=> j = k
          /\ a.formulas # <<>> => \E k \in DOMAIN q :
                  /\ \A j \in DOMAIN q : q[j].type = "formula_analysis" <=> j = k
                  /\ TellsAll(q[k].about, Categories(a))
          /\ a.errors # <<>> => \E k \in DOMAIN q :
                  /\ \A j \in DOMAIN q : q[j].type = "error_analysis" <=> j = k
                  /\ TellsAll(q[k].about, ErrorTypes(a))
      BY <3>3, ChunksOfSheet
    <3>6. {"column_analysis", "formula_analysis", "error_analysis"} \subseteq SheetTypes
      BY DEF SheetTypes
    <3> HIDE DEF q, name
    <3>7. ASSUME NEW c \in DOMAIN a.columns
          PROVE  \E k \in DOMAIN chunks :
                   {j \in of("column_analysis", name) : c \in chunks[j].about} = {k}
      <4> DEFINE W == {x \in Range(q) \cup Range(chunks) :
                         x.sheet = name /\ x.type = "column_analysis" /\ c \in x.about}
      <4>1. PICK k \in DOMAIN q : \A j \in DOMAIN q :
              (q[j].type = "column_analysis" /\ c \in q[j].about) <=> j = k
        BY <3>5
      <4>2. /\ \A j \in DOMAIN q : q[j] \in W <=> q[j].type = "column_analysis" /\ c \in q[j].about
            /\ \A j \in DOMAIN chunks : chunks[j] \in W <=>
                 j \in of("column_analysis", name) /\ c \in chunks[j].about
            /\ \A x \in W : x.sheet = name /\ x.type \in SheetTypes
        BY <3>4, <3>6 DEF Range
      <4> HIDE DEF W
      <4>3. OnlyAt(q, W, k)
        BY <4>1, <4>2 DEF OnlyAt
      <4> DEFINE z == o + k
      <4>4. OnlyAt(chunks, W, z)
        BY <3>2, <3>4, <4>2, <4>3, OnlyInBlock
      <4> HIDE DEF z
      <4>5. z \in DOMAIN chunks
            /\ {j \in of("column_analysis", name) : c \in chunks[j].about} = {z}
        BY <4>2, <4>4 DEF OnlyAt
      <4> QED
        BY <4>5
    <3>8. ASSUME NEW type \in {"formula_analysis", "error_analysis"}, NEW n,
                 \E k \in DOMAIN q : /\ \A j \in DOMAIN q : q[j].type = type <=> j = k
                                     /\ TellsAll(q[k].about, n)
          PROVE  \E k \in DOMAIN chunks : of(type, name) = {k} /\ TellsAll(chunks[k].about, n)
      <4>1. PICK k \in DOMAIN q : /\ \A j \in DOMAIN q : q[j].type = type <=> j = k
                                  /\ TellsAll(q[k].about, n)
        BY <3>8
      <4> DEFINE W == {x \in Range(q) \cup Range(chunks) : x.sheet = name /\ x.type = type}
      <4>2. /\ \A j \in DOMAIN q : q[j] \in W <=> q[j].type = type
            /\ \A j \in DOMAIN chunks : chunks[j] \in W <=> j \in of(type, name)
            /\ \A x \in W : x.sheet = name /\ x.type \in SheetTypes
        BY <3>4, <3>6 DEF Range
      <4> HIDE DEF W
      <4>3. OnlyAt(q, W, k)
        BY <4>1, <4>2 DEF OnlyAt
      <4> DEFINE z == o + k
      <4>4. OnlyAt(chunks, W, z) /\ chunks[z] = q[k]
        BY <3>2, <3>4, <4>2, <4>3, OnlyInBlock
      <4> HIDE DEF z
      <4>5. z \in DOMAIN chunks /\ of(type, name) = {z}
        BY <4>2, <4>4 DEF OnlyAt
      <4> QED
        BY <4>1, <4>4, <4>5
    <3> QED
      BY <3>5, <3>7, <3>8 DEF name
  <2>4. ASSUME NEW x \in Relationships(analyses)
        PROVE  \E k \in of("relationships", "") : x \in chunks[k].about[x.from_sheet]
    BY <2>2, <2>4 DEF ReferencesTold
  <2> QED
    BY <2>3, <2>4 DEF ChunksCoverWorkbook
<1> QED
  BY <1>1, ReadingInvariance, PTL

\* The sections of a sheet follow one another from its first header to its end.
THEOREM SectionsAlwaysTile == ReadingSpec => []SectionsTile
<1>1. ReadingInv => SectionsTile
  <2> SUFFICES ASSUME ReadingInv, NEW i \in DOMAIN manifests,
                      manifests[i].sections # <<>>,
                      \A j, k \in DOMAIN manifests[i].sections :
                        manifests[i].sections[j].first = manifests[i].sections[k].first => j = k
               PROVE  LET s == manifests[i].sections
                      IN  /\ \A r \in s[1].first .. manifests[i].total_rows :
                               \E j \in DOMAIN s : /\ r \in s[j].first .. s[j].last
                                                   /\ \A k \in DOMAIN s : r \in s[k].first .. s[k].last => k = j
                          /\ \A j \in DOMAIN s : s[j].has_data => s[j].row_count \in 1 .. s[j].last - s[j].first
    BY DEF SectionsTile
  <2>1. Shapes /\ i \in 1 .. Len(manifests) /\ SheetExtracted(i)
    BY BookFacts DEF ReadingInv
  <2>2. IsSheet(book[i])
    BY <2>1, BookFacts
  <2>3. PICK h \in HeaderOrders(book[i]) : manifests[i] = SheetManifest(book[i], h)
    BY <2>1 DEF SheetExtracted
  <2>4. manifests[i].total_rows = MaxRow(book[i])
    BY <2>3 DEF SheetManifest
  <2> QED
    BY <2>2, <2>3, <2>4, SectionsOfSheet
<1> QED
  BY <1>1, ReadingInvariance, PTL

-----------------------------------------------------------------------------
\* Enrichment.
TypeOK ==
  /\ pc \in [Workbook -> {"map", "sheets", "summary", "done"}]
  /\ DOMAIN calls = Workbook /\ \A w \in Workbook : DOMAIN calls[w] = DOMAIN SheetNames
  /\ DOMAIN sheets = Workbook /\ DOMAIN enrichment = Workbook

\* The sheets are what the calls came to, with placeholders for those that failed.
InPlace(w) ==
  /\ \A i \in DOMAIN SheetNames : calls[w][i] # Pending
  /\ sheets[w] = [i \in DOMAIN SheetNames |->
                    IF calls[w][i] = Failed THEN Placeholder(i) ELSE calls[w][i]]

\* From the gathering of the calls to the enrichment that is stored.
SheetsKept ==
  \A w \in Workbook :
    /\ pc[w] = "summary" => InPlace(w)
    /\ enrichment[w] # Nothing => /\ pc[w] = "done" /\ InPlace(w)
                                  /\ enrichment[w].sheets = ByName(sheets[w])

IInv == TypeOK /\ SheetsKept

-----------------------------------------------------------------------------
\* If one sheet alone goes by a name, it is what the name stands for.
LEMMA OnlyOneOfName ==
  ASSUME NEW s, NEW i \in DOMAIN s, DOMAIN s \subseteq Nat,
         \A k \in DOMAIN s : s[k].sheet_name = s[i].sheet_name => k = i
  PROVE  /\ s[i].sheet_name \in DOMAIN ByName(s)
         /\ ByName(s)[s[i].sheet_name] = s[i]
<1> DEFINE n == s[i].sheet_name
           last == CHOOSE k \in DOMAIN s : /\ s[k].sheet_name = n
                                           /\ \A j \in DOMAIN s : s[j].sheet_name = n => j <= k
<1>1. i \in DOMAIN s /\ s[i].sheet_name = n /\ \A j \in DOMAIN s : s[j].sheet_name = n => j <= i
  OBVIOUS
<1>2. last \in DOMAIN s /\ s[last].sheet_name = n
  BY <1>1
<1>3. last = i
  BY <1>2
<1>4. n \in {s[k].sheet_name : k \in DOMAIN s}
  OBVIOUS
<1>5. ByName(s)[n] = s[last] /\ n \in DOMAIN ByName(s)
  BY <1>4 DEF ByName
<1> QED
  BY ONLY <1>3, <1>5

LEMMA StoredSheets ==
  ASSUME NEW reply, NEW s, NEW spent
  PROVE  WorkbookEnrichment(reply, s, spent).sheets = ByName(s)
BY DEF WorkbookEnrichment

LEMMA PlaceholderFields ==
  ASSUME NEW i
  PROVE  /\ Placeholder(i).sheet_name = SheetNames[i]
         /\ Placeholder(i).primary_purpose = "Enrichment failed"
         /\ Placeholder(i).answerable_question_types = "[]"
BY DEF Placeholder, SheetEnrichment

LEMMA InitIInv == Init => IInv
BY DEF Init, IInv, TypeOK, SheetsKept

LEMMA StepIInv == IInv /\ [Next]_vars => IInv'
<1> SUFFICES ASSUME IInv, [Next]_vars
             PROVE  IInv'
  OBVIOUS
<1> USE DEF IInv, TypeOK
<1>1. ASSUME NEW w \in Workbook, Map(w)
      PROVE  IInv'
  BY <1>1 DEF Map, Goto, SheetsKept, InPlace
<1>2. ASSUME NEW w \in Workbook, NEW i \in DOMAIN SheetNames, EnrichSheet(w, i)
      PROVE  IInv'
  <2>1. pc[w] = "sheets" /\ UNCHANGED <<pc, sheets, enrichment>>
    BY <1>2 DEF EnrichSheet
  <2>2. PICK e : calls' = [calls EXCEPT ![w][i] = e]
    BY <1>2 DEF EnrichSheet
  <2>3. \A v \in Workbook : v # w => calls'[v] = calls[v]
    BY <2>2
  <2>4. TypeOK'
    BY <2>1, <2>2
  <2>5. enrichment[w] = Nothing
    BY <2>1 DEF SheetsKept
  <2>6. \A v \in Workbook : v # w /\ InPlace(v) => InPlace(v)'
    BY <2>1, <2>3 DEF InPlace
  <2> QED
    BY <2>1, <2>4, <2>5, <2>6 DEF SheetsKept
<1>3. ASSUME NEW w \in Workbook, Collect(w)
      PROVE  IInv'
  <2>1. /\ pc[w] = "sheets" /\ \A i \in DOMAIN SheetNames : calls[w][i] # Pending
        /\ sheets' = [sheets EXCEPT ![w] =
             [i \in DOMAIN SheetNames |->
                IF calls[w][i] = Failed THEN Placeholder(i) ELSE calls[w][i]]]
        /\ pc' = [pc EXCEPT ![w] = "done"] \/ pc' = [pc EXCEPT ![w] = "summary"]
        /\ UNCHANGED <<calls, enrichment>>
    BY <1>3 DEF Collect, Collected, Goto
  <2>2. InPlace(w)'
    BY <2>1 DEF InPlace
  <2>3. \A v \in Workbook : v # w => sheets'[v] = sheets[v] /\ pc'[v] = pc[v]
    BY <2>1
  <2>4. \A v \in Workbook : v # w /\ InPlace(v) => InPlace(v)'
    BY <2>1, <2>3 DEF InPlace
  <2>5. enrichment[w] = Nothing
    BY <2>1 DEF SheetsKept
  <2>6. TypeOK'
    BY <2>1
  <2> QED
    BY <2>1, <2>2, <2>3, <2>4, <2>5, <2>6 DEF SheetsKept
<1>4. ASSUME NEW w \in Workbook, EnrichWorkbook(w)
      PROVE  IInv'
  <2>1. /\ pc[w] = "summary" /\ pc' = [pc EXCEPT ![w] = "done"]
        /\ UNCHANGED <<calls, sheets>>
    BY <1>4 DEF EnrichWorkbook, Goto
  <2>2. PICK reply, e : /\ e = Nothing \/ e = WorkbookEnrichment(reply, sheets[w], tokens')
                        /\ enrichment' = [enrichment EXCEPT ![w] = e]
    BY <1>4 DEF EnrichWorkbook
  <2>3. InPlace(w)
    BY <2>1 DEF SheetsKept
  <2>4. \A v \in Workbook : InPlace(v) => InPlace(v)'
    BY <2>1 DEF InPlace
  <2>5. e # Nothing => e.sheets = ByName(sheets[w])
    BY <2>2, StoredSheets
  <2>6. TypeOK'
    BY <2>1, <2>2
  <2> QED
    BY <2>1, <2>2, <2>3, <2>4, <2>5, <2>6 DEF SheetsKept
<1>5. CASE UNCHANGED vars
  BY <1>5 DEF vars, SheetsKept, InPlace
<1> QED
  BY <1>1, <1>2, <1>3, <1>4, <1>5 DEF Next

LEMMA Invariance == Spec => []IInv
BY InitIInv, StepIInv, PTL DEF Spec

\* Whatever order the replies come in and whatever they claim to be of, a sheet that no
\* other reply claims is stored as what its own call to _enrich_sheet came to.
THEOREM SheetsStayOwn == Spec => []SheetsAreOwn
<1>1. IInv => SheetsAreOwn
  <2> SUFFICES ASSUME IInv, NEW w \in Workbook, enrichment[w] # Nothing,
                      NEW i \in DOMAIN SheetNames,
                      \A j \in DOMAIN SheetNames :
                        calls[w][j] # Failed /\ calls[w][j].sheet_name = SheetNames[i] => j = i
               PROVE  /\ calls[w][i] = Failed =>
                           /\ SheetNames[i] \in DOMAIN enrichment[w].sheets
                           /\ enrichment[w].sheets[SheetNames[i]].primary_purpose
                                = "Enrichment failed"
                      /\ calls[w][i] # Failed /\ calls[w][i].sheet_name = SheetNames[i] =>
                           enrichment[w].sheets[SheetNames[i]] = calls[w][i]
    BY DEF SheetsAreOwn
  <2> DEFINE s == sheets[w]
  <2>1. /\ s = [k \in DOMAIN SheetNames |->
                  IF calls[w][k] = Failed THEN Placeholder(k) ELSE calls[w][k]]
        /\ enrichment[w].sheets = ByName(s)
    BY DEF IInv, SheetsKept, InPlace
  <2>2. DOMAIN s = DOMAIN SheetNames /\ DOMAIN s \subseteq Nat
    BY <2>1, SheetAssumption
  <2>3. \A k \in DOMAIN s : calls[w][k] = Failed => /\ s[k].sheet_name = SheetNames[k]
                                                    /\ s[k].primary_purpose = "Enrichment failed"
    BY <2>1, <2>2, PlaceholderFields
  <2>4. \A k \in DOMAIN s : calls[w][k] # Failed => s[k] = calls[w][k]
    BY <2>1, <2>2
  <2>5. ASSUME calls[w][i] = Failed \/ calls[w][i].sheet_name = SheetNames[i]
        PROVE  /\ SheetNames[i] \in DOMAIN ByName(s)
               /\ ByName(s)[SheetNames[i]] = s[i]
    <3>1. s[i].sheet_name = SheetNames[i]
      BY <2>2, <2>3, <2>4, <2>5
    <3>2. \A k \in DOMAIN s : s[k].sheet_name = SheetNames[i] => k = i
      BY <2>2, <2>3, <2>4, SheetAssumption
    <3> HIDE DEF s
    <3> QED
      BY <2>2, <3>1, <3>2, OnlyOneOfName
  <2>6. enrichment[w].sheets = ByName(s)
    BY <2>1
  <2>7. CASE calls[w][i] = Failed
    <3>1. s[i].primary_purpose = "Enrichment failed"
      BY <2>2, <2>3, <2>7
    <3> HIDE DEF s
    <3> QED
      BY <2>5, <2>6, <2>7, <3>1
  <2>8. CASE calls[w][i] # Failed
    <3>1. s[i] = calls[w][i]
      BY <2>2, <2>4, <2>8
    <3> HIDE DEF s
    <3> QED
      BY <2>5, <2>6, <2>8, <3>1
  <2> QED
    BY <2>7, <2>8
<1> QED
  BY <1>1, Invariance, PTL

\* gather collects failures with the rest: only a reply that was accepted, with null for
\* its questions, ends the enrichment before the summary.
THEOREM FailureStaysContained == Spec => FailureIsContained
<1>1. IInv /\ [Next]_vars =>
        \A w \in Workbook : pc[w] = "sheets" /\ pc'[w] = "done" =>
          \E i \in DOMAIN SheetNames :
            calls[w][i] # Failed /\ calls[w][i].answerable_question_types = "null"
  <2> SUFFICES ASSUME IInv, [Next]_vars, NEW w \in Workbook,
                      pc[w] = "sheets", pc'[w] = "done"
               PROVE  \E i \in DOMAIN SheetNames :
                        calls[w][i] # Failed /\ calls[w][i].answerable_question_types = "null"
    OBVIOUS
  <2>1. Collect(w)
    BY DEF Next, vars, Map, EnrichSheet, Collect, Collected, EnrichWorkbook, Goto, IInv, TypeOK
  <2>2. sheets'[w] = [i \in DOMAIN SheetNames |->
                        IF calls[w][i] = Failed THEN Placeholder(i) ELSE calls[w][i]]
    BY <2>1 DEF Collect, Collected, IInv, TypeOK
  <2>3. PICK i \in DOMAIN sheets'[w] : sheets'[w][i].answerable_question_types = "null"
    BY <2>1 DEF Collect, Collected, Goto, IInv, TypeOK
  <2>4. Placeholder(i).answerable_question_types = "[]"
    BY PlaceholderFields
  <2> QED
    BY <2>2, <2>3, <2>4
<1> QED
  BY <1>1, Invariance, PTL DEF Spec, FailureIsContained

=============================================================================
