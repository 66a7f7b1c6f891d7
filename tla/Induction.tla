----------------------------- MODULE Induction -----------------------------
(***************************************************************************)
(* Induction without a predicate as a parameter, for the proofs about the  *)
(* analyses: a non-empty set of naturals has a least element, so that a    *)
(* claim about all of them is proved from its least counterexample; a      *)
(* function may be defined by recursion where a rank falls; and a set that *)
(* is let grow as often as there are elements has stopped growing.         *)
(***************************************************************************)
EXTENDS Integers, FiniteSetTheorems, WellFoundedInduction, TLAPS

\* A non-empty set of naturals has a least element: the sets of the smaller
\* naturals are ordered by inclusion, which is well founded on finite sets.
LEMMA LeastElement ==
  ASSUME NEW T \in SUBSET Nat, T # {}
  PROVE  \E m \in T : \A k \in T : m <= k
<1> DEFINE D == {0 .. n - 1 : n \in T}
<1>1. D \subseteq FiniteSubsetsOf(Nat)
  <2> SUFFICES ASSUME NEW n \in T PROVE 0 .. n - 1 \in FiniteSubsetsOf(Nat)
      OBVIOUS
  <2>1. IsFiniteSet(0 .. n - 1)
        BY FS_Interval
  <2> QED
      BY <2>1 DEF FiniteSubsetsOf
<1>2. D # {}
      OBVIOUS
<1>3. IsWellFoundedOn(StrictSubsetOrdering(Nat), FiniteSubsetsOf(Nat))
      BY FS_StrictSubsetOrderingWellFounded
<1> HIDE DEF D
<1>4. PICK x \in D : \A y \in D : ~ (<<y, x>> \in StrictSubsetOrdering(Nat))
      BY <1>1, <1>2, <1>3, WFMin
<1> USE DEF D
<1>5. PICK m \in T : x = 0 .. m - 1
      OBVIOUS
<1>6. ASSUME NEW k \in T, k < m PROVE FALSE
  <2>1. 0 .. k - 1 \in D /\ 0 .. k - 1 \subseteq 0 .. m - 1 /\ k \in 0 .. m - 1 /\ k \notin 0 .. k - 1
        BY <1>6
  <2>2. <<0 .. k - 1, x>> \in StrictSubsetOrdering(Nat)
        BY <2>1, <1>5 DEF StrictSubsetOrdering
  <2> QED
      BY <1>4, <2>1, <2>2
<1> QED
    BY <1>6

\* and a finite one has a greatest: a set without one has a smaller set without one.
LEMMA GreatestElement ==
  ASSUME NEW S \in SUBSET Nat, IsFiniteSet(S), S # {}
  PROVE  \E p \in S : \A q \in S : q <= p
<1> DEFINE HasGreatest(R) == \E p \in R : \A q \in R : q <= p
           Bad == {R \in SUBSET S : R # {} /\ ~HasGreatest(R)}
           T == {Cardinality(R) : R \in Bad}
<1>1. \A R \in SUBSET S : IsFiniteSet(R) /\ Cardinality(R) \in Nat
      BY FS_Subset, FS_CardinalityType
<1>2. ASSUME Bad # {} PROVE FALSE
  <2>1. T \in SUBSET Nat /\ T # {}
    <3>1. Bad \subseteq SUBSET S
          OBVIOUS
    <3> HIDE DEF Bad
    <3> QED
        BY <1>1, <1>2, <3>1
  <2>2. PICK m \in T : \A k \in T : m <= k
    <3> HIDE DEF T
    <3> QED
        BY <2>1, LeastElement
  <2>3. PICK R \in Bad : m = Cardinality(R)
    <3> HIDE DEF Bad
    <3> QED
        OBVIOUS
  <2>4. R \in SUBSET S /\ R # {} /\ ~HasGreatest(R)
        OBVIOUS
  <2>5. PICK x \in R : TRUE
        BY <2>4
  <2>6. PICK y \in R : ~ (y <= x)
        BY <2>4
  <2> DEFINE Rest == R \ {x}
  <2>7. Rest \in SUBSET S /\ y \in Rest /\ x \in Nat /\ y \in Nat
        BY <2>4, <2>6
  <2>8. Cardinality(Rest) = Cardinality(R) - 1
        BY <1>1, <2>4, FS_RemoveElement
  <2>9. HasGreatest(Rest)
    <3>1. ASSUME Rest \in Bad PROVE FALSE
      <4>1. Cardinality(Rest) \in T
            BY <3>1
      <4>2. Cardinality(R) <= Cardinality(Rest)
            BY <2>2, <2>3, <4>1
      <4>3. Cardinality(R) \in Nat
            BY <1>1, <2>4
      <4> QED
          BY <2>8, <4>2, <4>3
    <3> QED
        BY <2>7, <3>1
  <2>10. PICK p \in Rest : \A q \in Rest : q <= p
         BY <2>9
  <2>11. \A q \in R : q <= p
    <3>1. y <= p /\ p \in Nat
          BY <2>4, <2>7, <2>10
    <3>2. x <= p
          BY <2>6, <2>7, <3>1
    <3> QED
        BY <2>10, <3>2
  <2> QED
      BY <2>4, <2>10, <2>11
<1> QED
    BY <1>2

\* Recursion: a function may be defined at x from its value at next[x] if the
\* rank of next[x] is the lower, up to the places where the recursion stops.
Descends(S, V, N, rank, stop, base, next, step) ==
  /\ N \in Nat
  /\ rank \in [S -> 0 .. N]
  /\ stop \in SUBSET S
  /\ base \in [S -> V]
  /\ next \in [S -> S]
  /\ step \in [S -> [V -> V]]
  /\ \A x \in S \ stop : rank[next[x]] < rank[x]

LEMMA Recursion ==
  ASSUME NEW S, NEW V, NEW N, NEW rank, NEW stop, NEW base, NEW next, NEW step,
         Descends(S, V, N, rank, stop, base, next, step)
  PROVE  \E g \in [S -> V] :
           \A x \in S : g[x] = IF x \in stop THEN base[x] ELSE step[x][g[next[x]]]
<1> USE DEF Descends
<1> DEFINE From(g, x) == IF x \in stop THEN base[x] ELSE step[x][g[next[x]]]
           Defines(g, n) == \A x \in S : rank[x] < n => g[x] = From(g, x)
           T == {n \in Nat : ~ \E g \in [S -> V] : Defines(g, n)}
<1>1. ASSUME T # {} PROVE FALSE
  <2>1. T \subseteq Nat
        OBVIOUS
  <2>2. PICK m \in T : \A k \in T : m <= k
    <3> HIDE DEF T
    <3> QED
        BY <1>1, <2>1, LeastElement
  <2>3. m # 0
    <3> SUFFICES Defines(base, 0)
        OBVIOUS
    <3> QED
        OBVIOUS
  <2>4. m - 1 \in Nat /\ m - 1 \notin T
    <3>1. m \in Nat
          BY <2>1
    <3> HIDE DEF T
    <3> QED
        BY <2>2, <2>3, <3>1
  <2>5. PICK g \in [S -> V] : Defines(g, m - 1)
        BY <2>4
  <2> DEFINE h == [x \in S |-> From(g, x)]
  <2>6. h \in [S -> V]
        OBVIOUS
  <2>7. ASSUME NEW x \in S, rank[x] < m PROVE h[x] = From(h, x)
    <3>1. CASE x \in stop
          BY <3>1
    <3>2. CASE x \notin stop
      <4>1. next[x] \in S /\ rank[next[x]] < m - 1
            BY <2>7, <3>2
      <4>2. g[next[x]] = h[next[x]]
            BY <2>5, <4>1
      <4> QED
          BY <3>2, <4>2
    <3> QED
        BY <3>1, <3>2
  <2>8. Defines(h, m)
        BY <2>7
  <2> QED
      BY <2>2, <2>6, <2>8
<1>2. N + 1 \in Nat /\ N + 1 \notin T
  <2> HIDE DEF T
  <2> QED
      BY <1>1
<1>3. PICK g \in [S -> V] : Defines(g, N + 1)
      BY <1>2
<1>4. \A x \in S : rank[x] < N + 1
      OBVIOUS
<1> QED
    BY <1>3, <1>4

\* Saturation: let a part I of a finite set U grow by F as often as U has elements.
Saturates(U, I, F) == IsFiniteSet(U) /\ I \in SUBSET U /\ F \in [SUBSET U -> SUBSET U]

Grows(W, U, I, F) ==
  /\ W[0] = I
  /\ \A n \in 0 .. Cardinality(U) :
       n # 0 /\ W[n - 1] \in SUBSET U => W[n] = W[n - 1] \cup F[W[n - 1]]

\* R holds I, is closed under F, and lies in every set that holds I and is closed.
LeastFixpoint(R, U, I, F) ==
  /\ I \subseteq R
  /\ R \in SUBSET U
  /\ F[R] \subseteq R
  /\ \A C \in SUBSET U : I \subseteq C /\ (\A X \in SUBSET C : F[X] \subseteq C) => R \subseteq C

LEMMA SaturationDefined ==
  ASSUME NEW U, NEW I, NEW F, Saturates(U, I, F)
  PROVE  \E W \in [0 .. Cardinality(U) -> SUBSET U] :
           W = [n \in 0 .. Cardinality(U) |-> IF n = 0 THEN I ELSE W[n - 1] \cup F[W[n - 1]]]
<1> USE DEF Saturates
<1> DEFINE N == Cardinality(U)
<1>1. N \in Nat
      BY FS_CardinalityType
<1> HIDE DEF N
<1> DEFINE S == 0 .. N
           rank == [n \in S |-> n]
           base == [n \in S |-> I]
           next == [n \in S |-> IF n = 0 THEN 0 ELSE n - 1]
           step == [n \in S |-> [X \in SUBSET U |-> X \cup F[X]]]
<1>2. rank \in [S -> 0 .. N] /\ base \in [S -> SUBSET U] /\ next \in [S -> S]
        /\ step \in [S -> [SUBSET U -> SUBSET U]] /\ {0} \in SUBSET S
        /\ \A x \in S \ {0} : rank[next[x]] < rank[x]
      BY <1>1
<1>3. PICK g \in [S -> SUBSET U] :
        \A x \in S : g[x] = IF x \in {0} THEN base[x] ELSE step[x][g[next[x]]]
  <2> DEFINE V == SUBSET U
             stop == {0}
  <2>1. Descends(S, V, N, rank, stop, base, next, step)
        BY <1>1, <1>2 DEF Descends
  <2> HIDE DEF S, V, rank, base, next, step, stop
  <2>2. \E g \in [S -> V] : \A x \in S : g[x] = IF x \in stop THEN base[x] ELSE step[x][g[next[x]]]
        BY <2>1, Recursion
  <2> QED
      BY <2>2 DEF V, stop
<1>4. \A n \in S : g[n] = IF n = 0 THEN I ELSE g[n - 1] \cup F[g[n - 1]]
  <2> SUFFICES ASSUME NEW n \in S PROVE g[n] = IF n = 0 THEN I ELSE g[n - 1] \cup F[g[n - 1]]
      OBVIOUS
  <2>1. CASE n = 0
        BY <1>3, <2>1
  <2>2. CASE n # 0
    <3>1. n - 1 \in S /\ next[n] = n - 1
          BY <1>1, <2>2
    <3>2. g[n] = step[n][g[n - 1]] /\ g[n - 1] \in SUBSET U
          BY <1>3, <2>2, <3>1
    <3> QED
        BY <2>2, <3>2
  <2> QED
      BY <2>1, <2>2
<1>5. g = [n \in S |-> IF n = 0 THEN I ELSE g[n - 1] \cup F[g[n - 1]]]
      BY <1>4
<1> QED
    BY <1>3, <1>5 DEF N

\* What it has become in the end is the least fixpoint.
LEMMA Saturation ==
  ASSUME NEW U, NEW I, NEW F, Saturates(U, I, F), NEW W, Grows(W, U, I, F)
  PROVE  LeastFixpoint(W[Cardinality(U)], U, I, F)
<1> USE DEF Saturates
<1> DEFINE N == Cardinality(U)
<1>1. N \in Nat
      BY FS_CardinalityType
<1>3. W[0] = I /\ \A n \in 0 .. N : n # 0 =>
        n - 1 \in 0 .. N /\ (W[n - 1] \in SUBSET U => W[n] = W[n - 1] \cup F[W[n - 1]])
      BY <1>1 DEF Grows
<1> HIDE DEF N
\* while it has not stopped growing, it has an element for each step
<1> DEFINE Good(n) == /\ I \subseteq W[n] /\ W[n] \subseteq U
                      /\ F[W[n]] \subseteq W[n] \/ Cardinality(W[n]) >= n
           T == {n \in 0 .. N : ~Good(n)}
<1>4. ASSUME T # {} PROVE FALSE
  <2>1. T \in SUBSET Nat
        BY <1>1
  <2>2. PICK m \in T : \A k \in T : m <= k
    <3> HIDE DEF T
    <3> QED
        BY <1>4, <2>1, LeastElement
  <2>3. m # 0
    <3> SUFFICES Good(0)
        OBVIOUS
    <3>1. IsFiniteSet(I)
          BY FS_Subset
    <3>2. Cardinality(I) \in Nat
          BY <3>1, FS_CardinalityType
    <3> QED
        BY <1>3, <3>2
  <2>4. m \in 0 .. N /\ m - 1 \in 0 .. N /\ Good(m - 1) /\ W[m] = W[m - 1] \cup F[W[m - 1]]
        BY <1>1, <1>3, <2>2, <2>3
  <2>5. F[W[m - 1]] \subseteq U
        BY <2>4
  <2>6. I \subseteq W[m] /\ W[m] \subseteq U
        BY <2>4, <2>5
  <2>7. CASE F[W[m - 1]] \subseteq W[m - 1]
    <3>1. W[m] = W[m - 1]
          BY <2>4, <2>7
    <3> QED
        BY <2>2, <2>6, <2>7, <3>1
  <2>8. CASE ~ (F[W[m - 1]] \subseteq W[m - 1])
    <3>1. Cardinality(W[m - 1]) >= m - 1
          BY <2>4, <2>8
    <3>2. IsFiniteSet(W[m]) /\ W[m - 1] \subseteq W[m] /\ W[m - 1] # W[m]
          BY <2>4, <2>6, <2>8, FS_Subset
    <3>3. IsFiniteSet(W[m - 1]) /\ Cardinality(W[m - 1]) < Cardinality(W[m])
      <4> DEFINE Small == W[m - 1]
                 Large == W[m]
      <4>1. IsFiniteSet(Large) /\ Small \in SUBSET Large /\ Small # Large
            BY <3>2
      <4> HIDE DEF Small, Large
      <4>2. IsFiniteSet(Small) /\ Cardinality(Small) <= Cardinality(Large)
              /\ Cardinality(Small) # Cardinality(Large)
            BY <4>1, FS_Subset
      <4>3. Cardinality(Small) \in Nat /\ Cardinality(Large) \in Nat
            BY <4>1, <4>2, FS_CardinalityType
      <4>4. Cardinality(Small) < Cardinality(Large)
            BY <4>2, <4>3
      <4> QED
          BY <4>2, <4>4 DEF Small, Large
    <3>4. Cardinality(W[m]) \in Nat /\ Cardinality(W[m - 1]) \in Nat
          BY <3>2, <3>3, FS_CardinalityType
    <3>5. Cardinality(W[m]) >= m
          BY <2>4, <3>1, <3>3, <3>4
    <3> QED
        BY <2>2, <2>6, <3>5
  <2> QED
      BY <2>7, <2>8
<1>5. N \in 0 .. N /\ Good(N)
      BY <1>1, <1>4
<1>6. F[W[N]] \subseteq W[N]
  <2>1. CASE Cardinality(W[N]) >= N
    <3>1. IsFiniteSet(W[N]) /\ Cardinality(W[N]) <= N /\ (Cardinality(W[N]) = N => W[N] = U)
          BY <1>5, FS_Subset DEF N
    <3>2. Cardinality(W[N]) \in Nat
          BY <3>1, FS_CardinalityType
    <3>3. W[N] = U
          BY <2>1, <3>1, <3>2, <1>1
    <3> QED
        BY <3>3
  <2> QED
      BY <1>5, <2>1
<1>7. ASSUME NEW C \in SUBSET U, I \subseteq C, \A X \in SUBSET C : F[X] \subseteq C
      PROVE  W[N] \subseteq C
  <2> DEFINE Out == {n \in 0 .. N : ~ (W[n] \subseteq C)}
  <2>1. ASSUME Out # {} PROVE FALSE
    <3>1. Out \in SUBSET Nat
          BY <1>1
    <3>2. PICK m \in Out : \A k \in Out : m <= k
      <4> HIDE DEF Out
      <4> QED
          BY <2>1, <3>1, LeastElement
    <3>3. m # 0
          BY <1>3, <1>7
    <3>4. m - 1 \in 0 .. N /\ W[m - 1] \subseteq C /\ W[m] = W[m - 1] \cup F[W[m - 1]]
          BY <1>1, <1>3, <3>2, <3>3
    <3> QED
        BY <1>7, <3>2, <3>4
  <2> QED
      BY <2>1, <1>5
<1> QED
    BY <1>5, <1>6, <1>7 DEF LeastFixpoint, N

=============================================================================
