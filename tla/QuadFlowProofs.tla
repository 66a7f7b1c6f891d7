--------------------------- MODULE QuadFlowProofs ---------------------------
(***************************************************************************)
(* Facts about the graph of a function and about its runs that the proofs  *)
(* about the passes start from: how far a walk that avoids some blocks     *)
(* goes, dominance as an order, the tree it makes, where liveness is       *)
(* handed on; what a statement does to a run, and where a run is along a   *)
(* block and from block to block.                                          *)
(***************************************************************************)
EXTENDS QuadFlow, Induction

FollowsRounds(g, f, A) ==
  g = [n \in 0 .. Cardinality(Blocks(f)) |->
         IF n = 0 THEN {Entry(f)} \ A
         ELSE g[n - 1] \cup UNION {(Exits(f, b) \cap Blocks(f)) \ A : b \in g[n - 1]}]

\* The blocks of a function are finitely many, and the entry is one.
LEMMA BlocksFinite ==
  ASSUME NEW f, WellFormed(f)
  PROVE  IsFiniteSet(Blocks(f)) /\ Entry(f) \in Blocks(f)
<1>1. f.order \in Seq(Blocks(f)) /\ f.order # <<>>
      BY DEF WellFormed
<1>2. Len(f.order) \in Nat /\ DOMAIN f.order = 1 .. Len(f.order) /\ Len(f.order) # 0
      BY <1>1
<1>3. IsFiniteSet(1 .. Len(f.order))
  <2> DEFINE m == Len(f.order)
  <2>1. m \in Int /\ 1 \in Int
        BY <1>2
  <2> HIDE DEF m
  <2>2. IsFiniteSet(1 .. m)
        BY <2>1, FS_Interval
  <2> QED
      BY <2>2 DEF m
<1>4. f.order \in Surjection(1 .. Len(f.order), Blocks(f))
      BY <1>1, <1>2 DEF Blocks, ToSet, Surjection
<1>5. 1 \in DOMAIN f.order
      BY <1>2
<1> QED
    BY <1>3, <1>4, <1>5, FS_Surjection DEF Blocks, ToSet, Entry

\* The walk that avoids A goes as far as it can, and no further.
LEMMA WalkLimit ==
  ASSUME NEW f, WellFormed(f), NEW A
  PROVE  /\ {Entry(f)} \ A \subseteq ReachAvoiding(f, A)
         /\ ReachAvoiding(f, A) \subseteq Blocks(f) \ A
         /\ \A b \in ReachAvoiding(f, A) :
              (Exits(f, b) \cap Blocks(f)) \ A \subseteq ReachAvoiding(f, A)
         /\ \A C \in SUBSET Blocks(f) :
              {Entry(f)} \ A \subseteq C /\ (\A b \in C : (Exits(f, b) \cap Blocks(f)) \ A \subseteq C)
                => ReachAvoiding(f, A) \subseteq C
<1> DEFINE U == Blocks(f)
           I == {Entry(f)} \ A
           Onto(X) == UNION {(Exits(f, b) \cap U) \ A : b \in X}
           F == [X \in SUBSET U |-> Onto(X)]
           N == Cardinality(U)
<1>2. IsFiniteSet(U) /\ Entry(f) \in U
      BY BlocksFinite
<1>3. I \in SUBSET U /\ F \in [SUBSET U -> SUBSET U]
      BY <1>2
<1>4. Saturates(U, I, F)
      BY <1>2, <1>3 DEF Saturates
<1>5. \E g : FollowsRounds(g, f, A)
  <2>1. PICK W \in [0 .. N -> SUBSET U] :
          W = [n \in 0 .. N |-> IF n = 0 THEN I ELSE W[n - 1] \cup F[W[n - 1]]]
    <3> HIDE DEF U, I, F
    <3> QED
        BY <1>4, SaturationDefined
  <2>2. N \in Nat
        BY <1>2, FS_CardinalityType
  <2>3. \A n \in 0 .. N : n # 0 => n - 1 \in 0 .. N /\ W[n - 1] \in SUBSET U
    <3> HIDE DEF N, U
    <3> QED
        BY <2>2
  <2>4. \A n \in 0 .. N : n # 0 => F[W[n - 1]] = Onto(W[n - 1])
    <3>1. \A X \in SUBSET U : F[X] = Onto(X)
          OBVIOUS
    <3> HIDE DEF N, U, F, Onto
    <3> QED
        BY <2>3, <3>1
  <2> HIDE DEF N
  <2>5. W = [n \in 0 .. N |-> IF n = 0 THEN I ELSE W[n - 1] \cup Onto(W[n - 1])]
    <3> HIDE DEF F, I, Onto
    <3> QED
        BY <2>1, <2>4
  <2>6. FollowsRounds(W, f, A)
        BY <2>5 DEF FollowsRounds, N
  <2> QED
      BY <2>6
<1> DEFINE W == CHOOSE g : FollowsRounds(g, f, A)
<1>6. FollowsRounds(W, f, A)
      BY <1>5
<1>7. ReachAvoiding(f, A) = W[N]
      BY DEF ReachAvoiding, Rounds, FollowsRounds
<1> HIDE DEF W
<1>8. Grows(W, U, I, F)
  <2>1. N \in Nat
        BY <1>2, FS_CardinalityType
  <2>2. W = [n \in 0 .. N |-> IF n = 0 THEN I ELSE W[n - 1] \cup Onto(W[n - 1])]
        BY <1>6 DEF FollowsRounds
  <2>3. \A X \in SUBSET U : F[X] = Onto(X)
        OBVIOUS
  <2> HIDE DEF I, F, U, Onto, N
  <2>4. W[0] = I /\ \A n \in 0 .. N : n # 0 => W[n] = W[n - 1] \cup Onto(W[n - 1])
    <3> DEFINE From(n) == IF n = 0 THEN I ELSE W[n - 1] \cup Onto(W[n - 1])
    <3>1. W = [n \in 0 .. N |-> From(n)]
          BY <2>2
    <3> HIDE DEF From
    <3>2. \A n \in 0 .. N : W[n] = From(n)
          BY <3>1
    <3>0. 0 \in 0 .. N
          BY <2>1
    <3>3. W[0] = I
          BY <3>0, <3>2 DEF From
    <3>4. ASSUME NEW n \in 0 .. N, n # 0 PROVE W[n] = W[n - 1] \cup Onto(W[n - 1])
          BY <3>2, <3>4 DEF From
    <3> QED
        BY <3>3, <3>4
  <2>5. \A n \in 0 .. N : n # 0 /\ W[n - 1] \in SUBSET U => W[n] = W[n - 1] \cup F[W[n - 1]]
        BY <2>3, <2>4
  <2> QED
      BY <2>4, <2>5 DEF Grows, N
<1>9. LeastFixpoint(W[N], U, I, F)
  <2> HIDE DEF U, I, F
  <2> QED
      BY <1>4, <1>8, Saturation DEF N
<1>10. I \subseteq W[N] /\ W[N] \in SUBSET U /\ F[W[N]] \subseteq W[N]
       BY <1>9 DEF LeastFixpoint
<1>11. Onto(W[N]) \subseteq W[N]
       BY <1>10
<1>12. ASSUME NEW C \in SUBSET U, I \subseteq C, \A b \in C : (Exits(f, b) \cap U) \ A \subseteq C
       PROVE  W[N] \subseteq C
  <2>1. \A X \in SUBSET C : F[X] \subseteq C
        BY <1>12
  <2> HIDE DEF I, F, U
  <2> QED
      BY <1>9, <1>12, <2>1 DEF LeastFixpoint
<1>13. W[N] \subseteq U \ A
  <2>1. U \ A \in SUBSET U /\ I \subseteq U \ A
        BY <1>2
  <2>2. \A b \in U \ A : (Exits(f, b) \cap U) \ A \subseteq U \ A
        OBVIOUS
  <2> HIDE DEF I, U
  <2> QED
      BY <1>12, <2>1, <2>2
<1> HIDE DEF N
<1> QED
    BY <1>7, <1>10, <1>11, <1>12, <1>13

\* A block cannot be reached around one that dominates it.
LEMMA DominatorsOnWay ==
  ASSUME NEW f, NEW b \in Blocks(f), NEW d \in FlowOf(f).dom[b]
  PROVE  d = b \/ b \notin ReachAvoiding(f, {d})
<1> DEFINE B == Blocks(f)
           reached == ReachAvoiding(f, {})
           Ruled(a) == {a} \cup (reached \ ReachAvoiding(f, {a}))
           dominates == UNION {{a} \X Ruled(a) : a \in B}
<1>1. FlowOf(f).dom = [c \in B |-> {a \in B : <<a, c>> \in dominates}]
      BY DEF FlowOf
<1>2. <<d, b>> \in dominates
  <2> HIDE DEF dominates
  <2> QED
      BY <1>1
<1>3. b \in Ruled(d)
  <2> HIDE DEF Ruled
  <2> QED
      BY <1>2
<1> QED
    BY <1>3

-----------------------------------------------------------------------------
\* The graph of a function whose blocks are all reached.
Flowing(f, fl) ==
  /\ WellFormed(f)
  /\ ReachAvoiding(f, {}) = Blocks(f)
  /\ fl.succ = [b \in Blocks(f) |-> Exits(f, b)]
  /\ fl.pred = [b \in Blocks(f) |-> {a \in Blocks(f) : b \in Exits(f, a)}]
  /\ fl.dom = [b \in Blocks(f) |-> {d \in Blocks(f) : d = b \/ b \notin ReachAvoiding(f, {d})}]

LEMMA FlowIsFlowing ==
  ASSUME NEW f, WellFormed(f), ReachAvoiding(f, {}) = Blocks(f)
  PROVE  Flowing(f, FlowOf(f))
<1> DEFINE B == Blocks(f)
           R(A) == ReachAvoiding(f, A)
           edges == {e \in B \X B : e[2] \in Exits(f, e[1])}
           dominates == UNION {{d} \X ({d} \cup (R({}) \ R({d}))) : d \in B}
<1>1. FlowOf(f) = [succ |-> [b \in B |-> Exits(f, b)],
                  pred |-> [b \in B |-> {a \in B : <<a, b>> \in edges}],
                  dom |-> [b \in B |-> {d \in B : <<d, b>> \in dominates}]]
      BY DEF FlowOf
<1>2. \A a, b \in B : <<a, b>> \in edges <=> b \in Exits(f, a)
      OBVIOUS
<1>3. \A d, b \in B : <<d, b>> \in dominates <=> d = b \/ b \notin R({d})
  <2> DEFINE Ruled(d) == {d} \cup (R({}) \ R({d}))
  <2>1. ASSUME NEW d \in B, NEW b \in B PROVE <<d, b>> \in dominates <=> b \in Ruled(d)
    <3> HIDE DEF Ruled
    <3>1. ASSUME <<d, b>> \in dominates PROVE b \in Ruled(d)
      <4>1. PICK x \in B : <<d, b>> \in {x} \X Ruled(x)
            BY <3>1 DEF Ruled
      <4> QED
          BY <4>1
    <3>2. ASSUME b \in Ruled(d) PROVE <<d, b>> \in dominates
      <4>1. <<d, b>> \in {d} \X Ruled(d)
            BY <3>2
      <4> QED
          BY <4>1 DEF Ruled
    <3> QED
        BY <3>1, <3>2
  <2> QED
      BY <2>1, ZenonT(40)
<1> HIDE DEF edges, dominates, R
<1>4. [b \in B |-> {a \in B : <<a, b>> \in edges}] = [b \in B |-> {a \in B : b \in Exits(f, a)}]
      BY <1>2
<1>5. [b \in B |-> {d \in B : <<d, b>> \in dominates}] = [b \in B |-> {d \in B : d = b \/ b \notin R({d})}]
      BY <1>3
<1> QED
    BY <1>1, <1>4, <1>5 DEF Flowing, R

LEMMA FlowFacts ==
  ASSUME NEW f, NEW fl, Flowing(f, fl), NEW b \in Blocks(f)
  PROVE  /\ fl.succ[b] = Exits(f, b) /\ fl.succ[b] \subseteq Blocks(f)
         /\ fl.pred[b] = {a \in Blocks(f) : b \in Exits(f, a)}
         /\ fl.dom[b] = {d \in Blocks(f) : d = b \/ b \notin ReachAvoiding(f, {d})}
         /\ DOMAIN fl.dom = Blocks(f)
         /\ b \in fl.dom[b]
<1>1. WellFormed(f)
      BY DEF Flowing
<1>2. f.code[b] \in Seq(ToSet(f.code[b])) /\ f.code[b] # <<>>
      BY <1>1 DEF WellFormed
<1>3. Len(f.code[b]) \in DOMAIN f.code[b]
      BY <1>2
<1>4. f.code[b][Len(f.code[b])].kind \in Leaving
        /\ WellFormedStatement(f, f.code[b][Len(f.code[b])])
  <2>1. \A i \in DOMAIN f.code[b] :
           WellFormedStatement(f, f.code[b][i]) /\ (f.code[b][i].kind \in Leaving <=> i = Len(f.code[b]))
        BY <1>1 DEF WellFormed
  <2> QED
      BY <1>3, <2>1
<1>5. Exits(f, b) \subseteq Blocks(f)
      BY <1>4 DEF Exits, Last, WellFormedStatement
<1> QED
    BY <1>5 DEF Flowing

\* Dominance is an order, with the entry at its root, and what dominates a block is in line.
LEMMA DominanceOrder ==
  ASSUME NEW f, NEW fl, Flowing(f, fl)
  PROVE  /\ \A b \in Blocks(f) : Entry(f) \in fl.dom[b]
         /\ fl.dom[Entry(f)] = {Entry(f)}
         /\ \A b \in Blocks(f) : \A a \in fl.dom[b] : fl.dom[a] \subseteq fl.dom[b]
         /\ \A a, b \in Blocks(f) : a \in fl.dom[b] /\ b \in fl.dom[a] => a = b
         /\ \A b \in Blocks(f) : \A c, d \in fl.dom[b] : c \in fl.dom[d] \/ d \in fl.dom[c]
<1> DEFINE B == Blocks(f)
           R(A) == ReachAvoiding(f, A)
           e == Entry(f)
<1>1. WellFormed(f) /\ R({}) = B
      BY DEF Flowing
<1>2. e \in B
      BY <1>1, BlocksFinite
<1>12. ASSUME NEW b \in B
       PROVE  /\ fl.dom[b] = {d \in B : d = b \/ b \notin R({d})}
              /\ fl.dom[b] \subseteq B /\ b \in fl.dom[b]
              /\ Exits(f, b) \subseteq B
  <2>1. fl.dom[b] = {d \in B : d = b \/ b \notin R({d})} /\ b \in fl.dom[b]
        BY FlowFacts
  <2>2. fl.succ[b] = Exits(f, b) /\ fl.succ[b] \subseteq B
        BY FlowFacts
  <2> HIDE DEF R, B
  <2> QED
      BY <2>1, <2>2
<1>3. \A b, d \in B : d \in fl.dom[b] <=> d = b \/ b \notin R({d})
  <2> HIDE DEF R, B
  <2> QED
      BY <1>12
<1>4. \A b \in B : Exits(f, b) \subseteq B
      BY <1>12
<1>5. ASSUME NEW d \in B
      PROVE  /\ e = d \/ e \in R({d})
             /\ d \notin R({d})
             /\ R({d}) \subseteq B
             /\ \A x \in R({d}) : \A y \in Exits(f, x) : y = d \/ y \in R({d})
             /\ \A C \in SUBSET B :
                  (e = d \/ e \in C) /\ (\A x \in C : \A y \in Exits(f, x) : y = d \/ y \in C)
                    => R({d}) \subseteq C
  <2>1. /\ {e} \ {d} \subseteq R({d})
        /\ R({d}) \subseteq B \ {d}
        /\ \A x \in R({d}) : (Exits(f, x) \cap B) \ {d} \subseteq R({d})
        /\ \A C \in SUBSET B :
             {e} \ {d} \subseteq C /\ (\A x \in C : (Exits(f, x) \cap B) \ {d} \subseteq C)
               => R({d}) \subseteq C
        BY <1>1, WalkLimit
  <2> HIDE DEF R, B, e
  <2>2. \A x \in R({d}) : \A y \in Exits(f, x) : y = d \/ y \in R({d})
        BY <1>4, <2>1
  <2>3. ASSUME NEW C \in SUBSET B, e = d \/ e \in C,
               \A x \in C : \A y \in Exits(f, x) : y = d \/ y \in C
        PROVE  R({d}) \subseteq C
    <3>1. {e} \ {d} \subseteq C /\ (\A x \in C : (Exits(f, x) \cap B) \ {d} \subseteq C)
          BY <2>3
    <3> QED
        BY <2>1, <3>1
  <2> QED
      BY <2>1, <2>2, <2>3
<1>6. \A C \in SUBSET B : e \in C /\ (\A x \in C : Exits(f, x) \subseteq C) => C = B
  <2>1. \A C \in SUBSET B : {e} \ {} \subseteq C /\ (\A x \in C : (Exits(f, x) \cap B) \ {} \subseteq C)
          => R({}) \subseteq C
        BY <1>1, WalkLimit
  <2> HIDE DEF R, B, e
  <2> QED
      BY <1>1, <2>1
<1> HIDE DEF R, B, e
<1>7. ASSUME NEW b \in B PROVE e \in fl.dom[b]
  <2>1. R({e}) \subseteq {}
    <3>1. {} \in SUBSET B /\ \A x \in {} : \A y \in Exits(f, x) : y = e \/ y \in {}
          OBVIOUS
    <3> QED
        BY <1>2, <1>5, <3>1
  <2> QED
      BY <1>2, <1>3, <1>7, <2>1
<1>8. ASSUME NEW d \in fl.dom[e], d \in B PROVE d = e
      BY <1>2, <1>3, <1>5, <1>8
<1>9. ASSUME NEW a \in B, NEW b \in B, NEW c \in B, a \in fl.dom[b], b \in fl.dom[c]
      PROVE  a \in fl.dom[c]
  <2>1. SUFFICES ASSUME a # b, b # c, a # c, a # e PROVE c \notin R({a})
        BY <1>2, <1>3, <1>7, <1>9
  <2>2. b \notin R({a}) /\ c \notin R({b})
        BY <1>3, <1>9, <2>1
  <2> DEFINE C == R({a}) \cap R({b})
  <2>3. e \in C
        BY <1>5, <2>1, <2>2
  <2>4. \A x \in C : \A y \in Exits(f, x) : y = a \/ y \in C
        BY <1>5, <2>2
  <2>5. R({a}) \subseteq C
    <3>1. C \in SUBSET B
          BY <1>5
    <3> HIDE DEF C
    <3> QED
        BY <1>5, <2>3, <2>4, <3>1
  <2> QED
      BY <2>2, <2>5
<1>10. ASSUME NEW a \in B, NEW b \in B, a \in fl.dom[b], b \in fl.dom[a], a # b PROVE FALSE
  <2>1. a \notin R({b}) /\ b \notin R({a})
        BY <1>3, <1>10
  <2> DEFINE C == R({a}) \cap R({b})
  <2>2. e \in C
        BY <1>2, <1>5, <1>10, <2>1
  <2>3. ASSUME NEW x \in C, NEW y \in Exits(f, x) PROVE y \in C
    <3>1. (y = a \/ y \in R({a})) /\ (y = b \/ y \in R({b}))
          BY <1>5
    <3> QED
        BY <1>10, <2>1, <3>1
  <2>4. C = B
    <3>1. C \in SUBSET B
          BY <1>5
    <3> HIDE DEF C
    <3> QED
        BY <1>6, <2>2, <2>3, <3>1
  <2> QED
      BY <1>5, <2>4
<1>11. ASSUME NEW b \in B, NEW c \in B, NEW d \in B, c \in fl.dom[b], d \in fl.dom[b],
              c \notin fl.dom[d], d \notin fl.dom[c]
       PROVE  FALSE
  <2>1. d \in R({c}) /\ c \in R({d}) /\ c # d
        BY <1>3, <1>11
  <2>2. b # c /\ b # d
        BY <1>11
  <2>3. b \notin R({c}) /\ b \notin R({d})
        BY <1>3, <1>11, <2>2
  <2> DEFINE C == R({c}) \cup R({d})
  <2>4. e \in C
        BY <1>2, <1>5, <2>1
  <2>5. \A x \in C : Exits(f, x) \subseteq C
        BY <1>5, <2>1
  <2>6. C = B
    <3>1. C \in SUBSET B
          BY <1>5
    <3> HIDE DEF C
    <3> QED
        BY <1>6, <2>4, <2>5, <3>1
  <2> QED
      BY <2>3, <2>6
<1> QED
    BY <1>2, <1>7, <1>8, <1>9, <1>10, <1>11, <1>12 DEF B, e

\* A block that dominates another, and is not that one, dominates its predecessors.
LEMMA DominatesBefore ==
  ASSUME NEW f, NEW fl, Flowing(f, fl), NEW b \in Blocks(f), NEW d \in fl.dom[b], d # b,
         NEW a \in fl.pred[b]
  PROVE  a \in Blocks(f) /\ d \in fl.dom[a]
<1>1. WellFormed(f)
      BY DEF Flowing
<1>2. a \in Blocks(f) /\ b \in Exits(f, a) /\ d \in Blocks(f) /\ b \notin ReachAvoiding(f, {d})
  <2>1. fl.pred[b] = {x \in Blocks(f) : b \in Exits(f, x)}
        BY FlowFacts
  <2>2. fl.dom[b] = {x \in Blocks(f) : x = b \/ b \notin ReachAvoiding(f, {x})}
        BY FlowFacts
  <2> QED
      BY <2>1, <2>2
<1>3. \A x \in ReachAvoiding(f, {d}) : (Exits(f, x) \cap Blocks(f)) \ {d} \subseteq ReachAvoiding(f, {d})
      BY <1>1, WalkLimit
<1>4. a \notin ReachAvoiding(f, {d})
      BY <1>2, <1>3
<1>5. fl.dom[a] = {c \in Blocks(f) : c = a \/ a \notin ReachAvoiding(f, {c})}
      BY <1>2, FlowFacts
<1> QED
    BY <1>2, <1>4, <1>5

\* Whatever a block dominates besides itself is dominated by one of its children,
\* and by no other of them.
LEMMA ChildOnWay ==
  ASSUME NEW f, NEW fl, Flowing(f, fl), NEW x \in Blocks(f), NEW b \in fl.dom[x], b # x
  PROVE  \E c \in Children(fl, b) : c \in fl.dom[x]
<1> DEFINE B == Blocks(f)
           Inner == {d \in fl.dom[x] : b \in fl.dom[d] /\ d # b}
           T == {Cardinality(fl.dom[d]) : d \in Inner}
<1>1. /\ \A c \in B : \A a \in fl.dom[c] : fl.dom[a] \subseteq fl.dom[c]
      /\ \A a, c \in B : a \in fl.dom[c] /\ c \in fl.dom[a] => a = c
      /\ \A c \in B : \A a, d \in fl.dom[c] : a \in fl.dom[d] \/ d \in fl.dom[a]
      BY DominanceOrder
<1>2. ASSUME NEW c \in B
      PROVE  fl.dom[c] \subseteq B /\ c \in fl.dom[c] /\ IsFiniteSet(fl.dom[c])
  <2>1. WellFormed(f)
        BY DEF Flowing
  <2>2. IsFiniteSet(B)
        BY <2>1, BlocksFinite
  <2>3. fl.dom[c] = {d \in Blocks(f) : d = c \/ c \notin ReachAvoiding(f, {d})} /\ c \in fl.dom[c]
        BY FlowFacts
  <2>4. fl.dom[c] \subseteq B
        BY <2>3
  <2> QED
      BY <2>2, <2>3, <2>4, FS_Subset
<1>3. x \in Inner /\ Inner \subseteq B /\ b \in B
      BY <1>2
<1>4. T # {} /\ T \in SUBSET Nat
  <2> HIDE DEF Inner
  <2> QED
      BY <1>2, <1>3, FS_CardinalityType
<1>5. PICK m \in T : \A k \in T : m <= k
  <2> HIDE DEF T
  <2> QED
      BY <1>4, LeastElement
<1>6. PICK c \in Inner : m = Cardinality(fl.dom[c])
  <2> HIDE DEF Inner
  <2> QED
      BY <1>5
<1>7. c \in B /\ c \in fl.dom[x] /\ b \in fl.dom[c] /\ c # b
      BY <1>3, <1>6
<1>8. ASSUME NEW d \in fl.dom[c], d # c PROVE d \in fl.dom[b]
  <2>1. d \in B /\ (d \in fl.dom[b] \/ b \in fl.dom[d])
        BY <1>1, <1>2, <1>7
  <2>2. ASSUME b \in fl.dom[d], d # b PROVE FALSE
    <3>1. d \in Inner
          BY <1>1, <1>7, <2>1, <2>2
    <3>2. Cardinality(fl.dom[c]) <= Cardinality(fl.dom[d])
      <4>1. Cardinality(fl.dom[d]) \in T
            BY <3>1
      <4> QED
          BY <1>5, <1>6, <4>1
    <3>3. fl.dom[d] \subseteq fl.dom[c] /\ c \notin fl.dom[d] /\ c \in fl.dom[c]
          BY <1>1, <1>2, <1>7, <1>8, <2>1
    <3>4. Cardinality(fl.dom[d]) <= Cardinality(fl.dom[c])
            /\ Cardinality(fl.dom[d]) # Cardinality(fl.dom[c])
      <4> DEFINE Small == fl.dom[d]
                 Large == fl.dom[c]
      <4>1. IsFiniteSet(Large) /\ Small \in SUBSET Large /\ Small # Large
            BY <1>2, <1>7, <3>3
      <4> HIDE DEF Small, Large
      <4>2. Cardinality(Small) <= Cardinality(Large) /\ Cardinality(Small) # Cardinality(Large)
            BY <4>1, FS_Subset
      <4> QED
          BY <4>2 DEF Small, Large
    <3>5. Cardinality(fl.dom[d]) \in Nat /\ Cardinality(fl.dom[c]) \in Nat
          BY <1>2, <1>7, <2>1, FS_CardinalityType
    <3> QED
        BY <3>2, <3>4, <3>5
  <2> QED
      BY <1>2, <2>1, <2>2
<1>9. DOMAIN fl.dom = B
      BY <1>3, FlowFacts
<1> QED
    BY <1>7, <1>8, <1>9 DEF Children

LEMMA ChildrenApart ==
  ASSUME NEW f, NEW fl, Flowing(f, fl), NEW x \in Blocks(f), NEW p \in Blocks(f),
         NEW c \in Children(fl, p), NEW d \in Children(fl, p), c \in fl.dom[x], d \in fl.dom[x]
  PROVE  c = d
<1>1. DOMAIN fl.dom = Blocks(f)
      BY FlowFacts
<1>2. /\ c \in Blocks(f) /\ p # c /\ p \in fl.dom[c] /\ fl.dom[c] \ {c} \subseteq fl.dom[p]
      /\ d \in Blocks(f) /\ p # d /\ p \in fl.dom[d] /\ fl.dom[d] \ {d} \subseteq fl.dom[p]
      BY <1>1 DEF Children
<1>3. c \in fl.dom[d] \/ d \in fl.dom[c]
      BY DominanceOrder
<1>4. ~ (c \in fl.dom[p]) /\ ~ (d \in fl.dom[p])
      BY <1>2, DominanceOrder
<1> QED
    BY <1>2, <1>3, <1>4

-----------------------------------------------------------------------------
\* The enumeration of a finite set of numbers: its members, each once, rising.
LEMMA AscendingFacts ==
  ASSUME NEW I \in SUBSET Int, IsFiniteSet(I)
  PROVE  /\ Cardinality(I) \in Nat
         /\ Ascending(I) \in [1 .. Cardinality(I) -> I]
         /\ \A i \in I : \E k \in 1 .. Cardinality(I) : Ascending(I)[k] = i
         /\ \A k, l \in 1 .. Cardinality(I) : k < l => Ascending(I)[k] < Ascending(I)[l]
<1> DEFINE n == Cardinality(I)
           Upto(i) == {j \in I : j <= i}
           rank == [i \in I |-> Cardinality(Upto(i))]
<1>1. n \in Nat
      BY FS_CardinalityType
<1>2. ASSUME NEW i \in I PROVE IsFiniteSet(Upto(i)) /\ rank[i] \in 1 .. n
  <2>1. Upto(i) \in SUBSET I /\ i \in Upto(i)
        OBVIOUS
  <2> HIDE DEF Upto
  <2>2. IsFiniteSet(Upto(i)) /\ Cardinality(Upto(i)) <= n
        BY <2>1, FS_Subset
  <2>3. Cardinality(Upto(i)) \in Nat /\ Cardinality(Upto(i)) # 0
        BY <2>1, <2>2, FS_CardinalityType, FS_EmptySet
  <2>4. rank[i] = Cardinality(Upto(i))
        OBVIOUS
  <2> QED
      BY <1>1, <2>2, <2>3, <2>4
<1>3. ASSUME NEW i \in I, NEW j \in I, i < j PROVE rank[i] < rank[j]
  <2>0. i \in Int /\ j \in Int /\ \A k \in I : k \in Int
        OBVIOUS
  <2>1. Upto(i) \in SUBSET Upto(j) /\ j \in Upto(j) /\ j \notin Upto(i)
    <3>1. \A k \in I : k <= i => k <= j
          BY <1>3, <2>0
    <3>2. j <= j /\ ~ (j <= i)
          BY <1>3, <2>0
    <3> QED
        BY <3>1, <3>2
  <2>2. rank[i] = Cardinality(Upto(i)) /\ rank[j] = Cardinality(Upto(j))
        OBVIOUS
  <2>3. IsFiniteSet(Upto(j)) /\ rank[i] \in 1 .. n /\ rank[j] \in 1 .. n
        BY <1>2
  <2> HIDE DEF Upto
  <2>4. Cardinality(Upto(i)) <= Cardinality(Upto(j)) /\ Cardinality(Upto(i)) # Cardinality(Upto(j))
        BY <2>1, <2>3, FS_Subset
  <2> QED
      BY <1>1, <2>2, <2>3, <2>4
<1>4. rank \in Injection(I, 1 .. n)
  <2>1. rank \in [I -> 1 .. n]
        BY <1>2
  <2>2. \A i, j \in I : rank[i] = rank[j] => i = j
    <3> SUFFICES ASSUME NEW i \in I, NEW j \in I, rank[i] = rank[j], i # j PROVE FALSE
        OBVIOUS
    <3> HIDE DEF rank
    <3>1. rank[i] \in Nat /\ rank[j] \in Nat
          BY <1>1, <2>1
    <3>2. i < j \/ j < i
          OBVIOUS
    <3> QED
        BY <1>3, <3>1, <3>2
  <2> HIDE DEF rank
  <2> QED
      BY <2>1, <2>2 DEF Injection, IsInjective
<1>5. IsFiniteSet(1 .. n) /\ Cardinality(1 .. n) = n
  <2> HIDE DEF n
  <2> QED
      BY <1>1, FS_Interval
<1>6. rank \in Surjection(I, 1 .. n)
  <2> HIDE DEF rank, n
  <2>1. Cardinality(I) = Cardinality(1 .. n)
        BY <1>5 DEF n
  <2> QED
      BY <1>4, <1>5, <2>1, FS_Injection
<1>7. \A k \in 1 .. n : \E i \in I : rank[i] = k
  <2> HIDE DEF rank, n
  <2> QED
      BY <1>6 DEF Surjection
<1>8. ASSUME NEW k \in 1 .. n PROVE Ascending(I)[k] \in I /\ rank[Ascending(I)[k]] = k
  <2>1. Ascending(I)[k] = CHOOSE i \in I : Cardinality(Upto(i)) = k
        BY DEF Ascending
  <2>2. \E i \in I : Cardinality(Upto(i)) = k
        BY <1>7
  <2>3. Ascending(I)[k] \in I /\ Cardinality(Upto(Ascending(I)[k])) = k
    <3> HIDE DEF Upto
    <3> QED
        BY <2>1, <2>2
  <2> QED
      BY <2>3
<1>9. Ascending(I) \in [1 .. n -> I]
  <2>1. Ascending(I) = [k \in 1 .. n |-> CHOOSE i \in I : Cardinality(Upto(i)) = k]
        BY DEF Ascending
  <2> DEFINE Pick(k) == CHOOSE i \in I : Cardinality(Upto(i)) = k
  <2>2. \A k \in 1 .. n : Pick(k) \in I
        BY <1>8 DEF Ascending
  <2> HIDE DEF n, Pick
  <2>3. Ascending(I) = [k \in 1 .. n |-> Pick(k)]
        BY <2>1 DEF Pick
  <2> QED
      BY <2>2, <2>3
<1>10. ASSUME NEW i \in I PROVE \E k \in 1 .. n : Ascending(I)[k] = i
  <2>1. rank[i] \in 1 .. n
        BY <1>2
  <2>2. Ascending(I)[rank[i]] \in I /\ rank[Ascending(I)[rank[i]]] = rank[i]
        BY <1>8, <2>1
  <2> HIDE DEF rank, n
  <2>3. Ascending(I)[rank[i]] = i
        BY <1>4, <2>2 DEF Injection, IsInjective
  <2> QED
      BY <2>1, <2>3
<1>11. ASSUME NEW k \in 1 .. n, NEW l \in 1 .. n, k < l PROVE Ascending(I)[k] < Ascending(I)[l]
  <2>1. /\ Ascending(I)[k] \in I /\ rank[Ascending(I)[k]] = k
        /\ Ascending(I)[l] \in I /\ rank[Ascending(I)[l]] = l
        BY <1>8
  <2> DEFINE low == Ascending(I)[k]
             high == Ascending(I)[l]
  <2>2. low \in I /\ high \in I /\ rank[low] = k /\ rank[high] = l
        BY <2>1
  <2> HIDE DEF rank, n, low, high
  <2>3. k \in Int /\ l \in Int /\ low \in Int /\ high \in Int
        BY <1>1, <2>2
  <2>4. high < low => rank[high] < rank[low]
        BY <1>3, <2>2
  <2>5. ~ (high < low) /\ high # low
        BY <1>11, <2>2, <2>3, <2>4
  <2>6. low < high
        BY <2>3, <2>5
  <2> QED
      BY <2>6 DEF low, high
<1> QED
    BY <1>1, <1>9, <1>10, <1>11

LEMMA AscendingInterval ==
  ASSUME NEW n \in Nat
  PROVE  Ascending(1 .. n) = [k \in 1 .. n |-> k]
<1> DEFINE Upto(i) == {j \in 1 .. n : j <= i}
<1>1. IsFiniteSet(1 .. n) /\ Cardinality(1 .. n) = n
      BY FS_Interval
<1>2. ASSUME NEW i \in 1 .. n PROVE Cardinality(Upto(i)) = i
  <2>1. Upto(i) = 1 .. i /\ i \in Int /\ i >= 1
        OBVIOUS
  <2> HIDE DEF Upto
  <2>2. Cardinality(1 .. i) = i
        BY <2>1, FS_Interval
  <2> QED
      BY <2>1, <2>2
<1>3. Ascending(1 .. n) = [k \in 1 .. n |-> CHOOSE i \in 1 .. n : Cardinality(Upto(i)) = k]
      BY <1>1 DEF Ascending
<1>4. ASSUME NEW k \in 1 .. n PROVE (CHOOSE i \in 1 .. n : Cardinality(Upto(i)) = k) = k
  <2> HIDE DEF Upto
  <2>1. \A i \in 1 .. n : Cardinality(Upto(i)) = k <=> i = k
        BY <1>2
  <2> QED
      BY <2>1
<1> HIDE DEF Upto
<1> QED
    BY <1>3, <1>4

\* What is kept of a sequence, the same first element and all of it in particular.
Selects(r, s, K, X) ==
  /\ r \in Seq(X \cap K)
  /\ \A x : (\E i \in DOMAIN r : r[i] = x) <=> x \in K /\ \E i \in DOMAIN s : s[i] = x
  /\ s # <<>> /\ s[1] \in K => r # <<>> /\ r[1] = s[1]
  /\ (\A i \in DOMAIN s : s[i] \in K) => r = s

LEMMA OnlyFacts ==
  ASSUME NEW X, NEW s \in Seq(X), NEW K
  PROVE  Selects(Only(s, K), s, K, X)
<1> DEFINE I == {i \in DOMAIN s : s[i] \in K}
           m == Cardinality(I)
           kept == Ascending(I)
<1>1. Len(s) \in Nat /\ DOMAIN s = 1 .. Len(s) /\ I \in SUBSET (1 .. Len(s)) /\ I \in SUBSET Int
      OBVIOUS
<1>2. IsFiniteSet(I)
  <2> HIDE DEF I
  <2>1. IsFiniteSet(1 .. Len(s))
    <3> DEFINE n == Len(s)
    <3>1. n \in Int /\ 1 \in Int
          BY <1>1
    <3> HIDE DEF n
    <3>2. IsFiniteSet(1 .. n)
          BY <3>1, FS_Interval
    <3> QED
        BY <3>2 DEF n
  <2> QED
      BY <1>1, <2>1, FS_Subset
<1>3. Only(s, K) = [k \in DOMAIN kept |-> s[kept[k]]]
      BY DEF Only
<1>4. /\ m \in Nat
      /\ kept \in [1 .. m -> I]
      /\ \A i \in I : \E k \in 1 .. m : kept[k] = i
      /\ \A k, l \in 1 .. m : k < l => kept[k] < kept[l]
  <2> HIDE DEF I
  <2> QED
      BY <1>1, <1>2, AscendingFacts
<1>5. \A i : i \in I <=> i \in DOMAIN s /\ s[i] \in K
      OBVIOUS
<1>6. (\A i \in DOMAIN s : s[i] \in K) => kept = [k \in 1 .. Len(s) |-> k]
  <2> SUFFICES ASSUME \A i \in DOMAIN s : s[i] \in K PROVE kept = [k \in 1 .. Len(s) |-> k]
      OBVIOUS
  <2>1. I = 1 .. Len(s)
        BY <1>1
  <2> HIDE DEF I
  <2> QED
      BY <1>1, <2>1, AscendingInterval
<1> HIDE DEF I, m, kept
<1>7. Only(s, K) = [k \in 1 .. m |-> s[kept[k]]]
      BY <1>3, <1>4
<1>8. Only(s, K) \in Seq(X \cap K)
  <2>1. \A k \in 1 .. m : s[kept[k]] \in X \cap K
        BY <1>4, <1>5
  <2>2. Only(s, K) \in [1 .. m -> X \cap K]
        BY <1>7, <2>1
  <2> QED
      BY <1>4, <2>2
<1>9. ASSUME NEW x
      PROVE  (\E i \in DOMAIN Only(s, K) : Only(s, K)[i] = x) <=> x \in K /\ \E i \in DOMAIN s : s[i] = x
  <2>0. DOMAIN Only(s, K) = 1 .. m /\ \A k \in 1 .. m : Only(s, K)[k] = s[kept[k]]
        BY <1>7
  <2>1. ASSUME NEW i \in 1 .. m, Only(s, K)[i] = x PROVE x \in K /\ \E j \in DOMAIN s : s[j] = x
    <3>1. kept[i] \in I /\ s[kept[i]] = x
          BY <1>4, <2>0, <2>1
    <3> QED
        BY <1>5, <3>1
  <2>2. ASSUME x \in K, NEW j \in DOMAIN s, s[j] = x PROVE \E i \in 1 .. m : Only(s, K)[i] = x
    <3>1. j \in I
          BY <1>5, <2>2
    <3>2. PICK i \in 1 .. m : kept[i] = j
          BY <1>4, <3>1
    <3> QED
        BY <2>0, <2>2, <3>2
  <2> QED
      BY <2>0, <2>1, <2>2
<1>10. ASSUME s # <<>>, s[1] \in K PROVE Only(s, K) # <<>> /\ Only(s, K)[1] = s[1]
  <2>1. 1 \in I
        BY <1>1, <1>5, <1>10
  <2>2. PICK k \in 1 .. m : kept[k] = 1
        BY <1>4, <2>1
  <2>3. 1 \in 1 .. m /\ kept[1] \in I
        BY <1>4, <2>2
  <2>4. kept[1] \in 1 .. Len(s)
        BY <1>1, <2>3
  <2>5. k = 1
    <3>1. k \in Int /\ k >= 1 /\ (1 < k => kept[1] < kept[k])
          BY <1>4, <2>2, <2>3
    <3>2. kept[1] \in Int /\ kept[1] >= 1
          BY <1>1, <2>4
    <3> QED
        BY <2>2, <3>1, <3>2
  <2> QED
      BY <1>7, <2>2, <2>3, <2>5
<1>11. ASSUME \A i \in DOMAIN s : s[i] \in K PROVE Only(s, K) = s
  <2>1. kept = [k \in 1 .. Len(s) |-> k]
        BY <1>6, <1>11
  <2>2. DOMAIN kept = 1 .. Len(s) /\ \A k \in 1 .. Len(s) : kept[k] = k
        BY <2>1
  <2>3. Only(s, K) = [k \in 1 .. Len(s) |-> s[k]]
        BY <1>3, <2>2 DEF kept
  <2> QED
      BY <1>1, <2>3
<1> QED
    BY <1>8, <1>9, <1>10, <1>11 DEF Selects


-----------------------------------------------------------------------------
\* Sequences put behind one another: piece i of ss stands in r behind the first p[i - 1] places.
Splits(r, ss, p, S) ==
  /\ r \in Seq(S)
  /\ p \in [0 .. Len(ss) -> 0 .. Len(r)]
  /\ p[0] = 0 /\ p[Len(ss)] = Len(r)
  /\ \A i \in 1 .. Len(ss) :
       /\ p[i] = p[i - 1] + Len(ss[i])
       /\ \A k \in 1 .. Len(ss[i]) : p[i - 1] + k \in 1 .. Len(r) /\ r[p[i - 1] + k] = ss[i][k]

FollowsFlat(w, ss, n) == w = [i \in 1 .. n |-> IF i = 1 THEN ss[i] ELSE w[i - 1] \o ss[i]]

LEMMA FlatDefined ==
  ASSUME NEW ss, NEW n \in Nat
  PROVE  \E w : FollowsFlat(w, ss, n)
<1> DEFINE From(w, i) == IF i = 1 THEN ss[i] ELSE w[i - 1] \o ss[i]
           T == {j \in Nat : ~ \E w : w = [i \in 1 .. j |-> From(w, i)]}
<1>1. ASSUME T # {} PROVE FALSE
  <2>1. T \in SUBSET Nat
        OBVIOUS
  <2>2. PICK m \in T : \A j \in T : m <= j
    <3> HIDE DEF T
    <3> QED
        BY <1>1, <2>1, LeastElement
  <2>3. m # 0
    <3> DEFINE w == [i \in {} |-> From(<<>>, i)]
    <3>1. w = [i \in 1 .. 0 |-> From(w, i)]
      <4>1. 1 .. 0 = {}
            OBVIOUS
      <4> QED
          BY <4>1
    <3> HIDE DEF w
    <3>2. 0 \notin T
          BY <3>1
    <3> QED
        BY <2>2, <3>2
  <2>4. m \in Nat /\ m - 1 \in Nat /\ m - 1 \notin T
    <3> HIDE DEF T
    <3> QED
        BY <2>1, <2>2, <2>3
  <2>5. PICK w : w = [i \in 1 .. m - 1 |-> From(w, i)]
        BY <2>4
  <2> DEFINE h == [i \in 1 .. m |-> From(w, i)]
  <2>6. \A i \in 1 .. m - 1 : w[i] = From(w, i) /\ h[i] = From(w, i)
    <3> HIDE DEF From, T
    <3> QED
        BY <2>4, <2>5
  <2>7. \A i \in 1 .. m : From(w, i) = From(h, i)
    <3> SUFFICES ASSUME NEW i \in 1 .. m, i # 1 PROVE w[i - 1] = h[i - 1]
        OBVIOUS
    <3>1. i - 1 \in 1 .. m - 1
          BY <2>4
    <3> HIDE DEF From, h
    <3> QED
        BY <2>6, <3>1
  <2>8. h = [i \in 1 .. m |-> From(h, i)]
    <3> HIDE DEF From
    <3> QED
        BY <2>7
  <2> HIDE DEF h, From
  <2>9. m \notin T
        BY <2>8
  <2> QED
      BY <2>2, <2>9
<1>2. n \notin T
  <2> HIDE DEF T
  <2> QED
      BY <1>1
<1>3. PICK w : w = [i \in 1 .. n |-> From(w, i)]
      BY <1>2
<1>4. FollowsFlat(w, ss, n)
      BY <1>3 DEF FollowsFlat
<1> QED
    BY <1>4

LEMMA FlattenFacts ==
  ASSUME NEW S, NEW ss \in Seq(Seq(S)), ss # <<>>
  PROVE  \E p : Splits(FlattenSeq(ss), ss, p, S)
<1> DEFINE m == Len(ss)
           w == CHOOSE g : FollowsFlat(g, ss, m)
           u == [i \in 0 .. m |-> IF i = 0 THEN <<>> ELSE w[i]]
           p == [i \in 0 .. m |-> Len(u[i])]
           Q(i) == /\ u[i] \in Seq(S)
                   /\ \A j \in 0 .. i : /\ Len(u[j]) \in 0 .. Len(u[i])
                                        /\ \A k \in 1 .. Len(u[j]) : u[i][k] = u[j][k]
<1>1. m \in Nat \ {0} /\ \A i \in 1 .. m : ss[i] \in Seq(S)
      OBVIOUS
<1>2. FollowsFlat(w, ss, m)
  <2> HIDE DEF m
  <2> QED
      BY <1>1, FlatDefined
<1>3. FlattenSeq(ss) = w[m]
      BY <1>1 DEF FlattenSeq, FollowsFlat
<1> HIDE DEF m, w
<1>4. u[0] = <<>> /\ \A i \in 1 .. m : u[i] = w[i]
      BY <1>1
<1>5. ASSUME NEW i \in 1 .. m PROVE u[i] = u[i - 1] \o ss[i] /\ i - 1 \in 0 .. m
  <2>1. w[i] = IF i = 1 THEN ss[i] ELSE w[i - 1] \o ss[i]
        BY <1>2 DEF FollowsFlat
  <2>2. i - 1 \in 0 .. m /\ (i # 1 => i - 1 \in 1 .. m) /\ (i = 1 => i - 1 = 0)
        BY <1>1
  <2> HIDE DEF u
  <2>3. CASE i = 1
    <3>1. ss[i] \in Seq(S)
          BY <1>1
    <3>2. <<>> \o ss[i] = ss[i]
          BY <3>1
    <3> QED
        BY <1>4, <2>1, <2>2, <2>3, <3>2
  <2> QED
      BY <1>4, <2>1, <2>2, <2>3
<1> HIDE DEF u
<1>6. ASSUME NEW i \in 1 .. m, Q(i - 1) PROVE Q(i)
  <2> DEFINE a == u[i - 1]
             z == ss[i]
  <2>1. a \in Seq(S) /\ z \in Seq(S) /\ u[i] = a \o z
        BY <1>1, <1>5, <1>6
  <2> HIDE DEF a, z
  <2>2. u[i] \in Seq(S) /\ Len(a) \in Nat /\ Len(u[i]) = Len(a) + Len(z) /\ Len(z) \in Nat
          /\ \A k \in 1 .. Len(a) : u[i][k] = a[k]
        BY <2>1
  <2>3. ASSUME NEW j \in 0 .. i
        PROVE  Len(u[j]) \in 0 .. Len(u[i]) /\ \A k \in 1 .. Len(u[j]) : u[i][k] = u[j][k]
    <3>1. CASE j = i
          BY <2>2, <3>1
    <3>2. CASE j # i
      <4>1. j \in 0 .. i - 1
            BY <3>2, <1>1
      <4>2. Len(u[j]) \in 0 .. Len(a) /\ \A k \in 1 .. Len(u[j]) : a[k] = u[j][k]
            BY <1>6, <4>1 DEF a
      <4>3. Len(u[j]) \in 0 .. Len(u[i]) /\ 1 .. Len(u[j]) \subseteq 1 .. Len(a)
            BY <2>2, <4>2
      <4> QED
          BY <2>2, <4>2, <4>3
    <3> QED
        BY <3>1, <3>2
  <2> QED
      BY <2>2, <2>3
<1>7. Q(0)
  <2>1. <<>> \in Seq(S) /\ Len(<<>>) = 0
        OBVIOUS
  <2> QED
      BY <1>4, <2>1
<1>8. \A i \in 0 .. m : Q(i)
  <2> DEFINE T == {i \in 0 .. m : ~Q(i)}
  <2> HIDE DEF Q
  <2>1. ASSUME T # {} PROVE FALSE
    <3>1. T \in SUBSET Nat
          BY <1>1
    <3>2. PICK l \in T : \A j \in T : l <= j
      <4> HIDE DEF T
      <4> QED
          BY <2>1, <3>1, LeastElement
    <3>3. l \in 1 .. m /\ l - 1 \in 0 .. m /\ l - 1 \notin T
      <4>1. l \in 0 .. m /\ l # 0
            BY <1>7
      <4> HIDE DEF T
      <4> QED
          BY <1>1, <3>2, <4>1
    <3>4. Q(l - 1)
          BY <3>3
    <3> QED
        BY <1>6, <3>2, <3>3, <3>4
  <2> QED
      BY <2>1
<1> DEFINE r == FlattenSeq(ss)
<1>9. r = u[m] /\ m \in 0 .. m
      BY <1>1, <1>3, <1>4
<1> HIDE DEF r
<1>10. r \in Seq(S) /\ \A j \in 0 .. m : Len(u[j]) \in 0 .. Len(r) /\ \A k \in 1 .. Len(u[j]) : r[k] = u[j][k]
       BY <1>8, <1>9
<1>11. /\ p \in [0 .. m -> 0 .. Len(r)]
       /\ p[0] = 0 /\ p[m] = Len(r)
       /\ \A i \in 0 .. m : p[i] = Len(u[i])
  <2>1. Len(<<>>) = 0
        OBVIOUS
  <2> QED
      BY <1>1, <1>4, <1>9, <1>10, <2>1
<1> HIDE DEF p
<1>12. ASSUME NEW i \in 1 .. m
       PROVE  /\ p[i] = p[i - 1] + Len(ss[i])
              /\ \A k \in 1 .. Len(ss[i]) : p[i - 1] + k \in 1 .. Len(r) /\ r[p[i - 1] + k] = ss[i][k]
  <2> DEFINE a == u[i - 1]
             z == ss[i]
  <2>0. i - 1 \in 0 .. m /\ i \in 0 .. m
        BY <1>1
  <2>1. a \in Seq(S) /\ z \in Seq(S) /\ u[i] = a \o z /\ i - 1 \in 0 .. m /\ i \in 0 .. m
    <3>1. \A j \in 0 .. m : u[j] \in Seq(S)
          BY <1>8
    <3>2. u[i] = u[i - 1] \o ss[i]
          BY <1>5
    <3> QED
        BY <1>1, <2>0, <3>1, <3>2
  <2>2. p[i] = Len(u[i]) /\ p[i - 1] = Len(a) /\ Len(u[i]) \in 0 .. Len(r)
          /\ \A k \in 1 .. Len(u[i]) : r[k] = u[i][k]
        BY <1>10, <1>11, <2>1
  <2> HIDE DEF a, z
  <2>3. Len(u[i]) = Len(a) + Len(z) /\ Len(a) \in Nat /\ Len(z) \in Nat
          /\ \A k \in 1 .. Len(z) : u[i][Len(a) + k] = z[k]
        BY <2>1
  <2>4. Len(r) \in Nat
        BY <1>10
  <2>5. ASSUME NEW k \in 1 .. Len(z) PROVE p[i - 1] + k \in 1 .. Len(r) /\ r[p[i - 1] + k] = z[k]
    <3>1. Len(a) + k \in 1 .. Len(u[i]) /\ Len(a) + k \in 1 .. Len(r)
          BY <2>2, <2>3, <2>4
    <3> QED
        BY <2>2, <2>3, <3>1
  <2>6. p[i] = p[i - 1] + Len(z)
        BY <2>2, <2>3
  <2> QED
      BY <2>5, <2>6 DEF z
<1>13. Splits(r, ss, p, S)
       BY <1>10, <1>11, <1>12 DEF Splits, m
<1> QED
    BY <1>13 DEF r

\* Each place of the whole is in one of the pieces.
LEMMA SplitsCover ==
  ASSUME NEW r, NEW ss, NEW p, NEW S, Splits(r, ss, p, S), Len(ss) \in Nat,
         \A i \in 1 .. Len(ss) : Len(ss[i]) \in Nat,
         NEW q \in 1 .. Len(r)
  PROVE  \E i \in 1 .. Len(ss) : \E k \in 1 .. Len(ss[i]) : r[q] = ss[i][k]
<1> DEFINE m == Len(ss)
           N == Len(r)
           T == {i \in 0 .. m : q <= p[i]}
<1>1. /\ N \in Nat /\ m \in Nat
      /\ \A i \in 0 .. m : p[i] \in 0 .. N
      /\ p[0] = 0 /\ p[m] = N
      /\ \A i \in 1 .. m : /\ p[i] = p[i - 1] + Len(ss[i])
                           /\ \A k \in 1 .. Len(ss[i]) : r[p[i - 1] + k] = ss[i][k]
  <2>1. r \in Seq(S) /\ p \in [0 .. m -> 0 .. N]
        BY DEF Splits
  <2>2. /\ p[0] = 0 /\ p[m] = N
        /\ \A i \in 1 .. m : /\ p[i] = p[i - 1] + Len(ss[i])
                             /\ \A k \in 1 .. Len(ss[i]) : r[p[i - 1] + k] = ss[i][k]
        BY Zenon DEF Splits
  <2>3. N \in Nat
        BY <2>1
  <2> HIDE DEF N, m
  <2>4. \A i \in 0 .. m : p[i] \in 0 .. N
        BY <2>1
  <2> QED
      BY <2>2, <2>3, <2>4 DEF m
<1> HIDE DEF m, N
<1>2. m \in T
      BY <1>1 DEF N
<1>3. T \in SUBSET Nat
      BY <1>1
<1>4. PICK l \in T : \A j \in T : l <= j
  <2> HIDE DEF T
  <2> QED
      BY <1>2, <1>3, LeastElement
<1>5. l \in 1 .. m /\ l - 1 \in 0 .. m /\ q <= p[l]
  <2>1. l \in 0 .. m /\ q <= p[l]
        OBVIOUS
  <2>2. l # 0
        BY <1>1, <2>1
  <2> QED
      BY <1>1, <2>1, <2>2
<1>6. ~ (q <= p[l - 1])
  <2>1. l - 1 \notin T
    <3> HIDE DEF T
    <3> QED
        BY <1>1, <1>4, <1>5
  <2> QED
      BY <1>5, <2>1
<1> DEFINE k == q - p[l - 1]
<1>7. k \in 1 .. Len(ss[l]) /\ p[l - 1] + k = q
  <2>1. p[l - 1] \in Nat /\ Len(ss[l]) \in Nat /\ p[l] = p[l - 1] + Len(ss[l])
        BY <1>1, <1>5 DEF m
  <2> HIDE DEF T
  <2> QED
      BY <1>5, <1>6, <2>1
<1>8. r[q] = ss[l][k]
      BY <1>1, <1>5, <1>7
<1> QED
    BY <1>5, <1>7, <1>8 DEF m

-----------------------------------------------------------------------------
\* Where a temp is live.
Transparent(f, b, t) == \A i \in DOMAIN f.code[b] : t \notin Defs(f.code[b][i])
Exposed(f, t) == {b \in Blocks(f) : t \in LiveBefore(f.code[b], {})}

FollowsLive(g, f, fl, t) ==
  g = [n \in 0 .. Cardinality(Blocks(f)) |->
         IF n = 0 THEN Exposed(f, t)
         ELSE g[n - 1] \cup {b \in Blocks(f) : fl.succ[b] \cap g[n - 1] # {} /\ Transparent(f, b, t)}]

\* A temp is live into the blocks that read it before they write it, into those
\* that hand it on, and into no others.
LEMMA LiveLimit ==
  ASSUME NEW f, NEW fl, NEW t, WellFormed(f)
  PROVE  /\ Exposed(f, t) \subseteq LiveInto(f, fl, t)
         /\ LiveInto(f, fl, t) \subseteq Blocks(f)
         /\ \A b \in Blocks(f) :
              Transparent(f, b, t) /\ fl.succ[b] \cap LiveInto(f, fl, t) # {} => b \in LiveInto(f, fl, t)
         /\ \A C \in SUBSET Blocks(f) :
              /\ Exposed(f, t) \subseteq C
              /\ \A b \in Blocks(f) : Transparent(f, b, t) /\ fl.succ[b] \cap C # {} => b \in C
              => LiveInto(f, fl, t) \subseteq C
<1> DEFINE U == Blocks(f)
           I == Exposed(f, t)
           Onto(X) == {b \in Blocks(f) : fl.succ[b] \cap X # {} /\ Transparent(f, b, t)}
           F == [X \in SUBSET U |-> Onto(X)]
           N == Cardinality(U)
           L == LiveInto(f, fl, t)
<1>1. IsFiniteSet(U)
      BY BlocksFinite
<1>2. \A X \in SUBSET U : Onto(X) \in SUBSET U
      OBVIOUS
<1>3. I \in SUBSET U /\ F \in [SUBSET U -> SUBSET U]
  <2>1. I \in SUBSET U
        BY DEF Exposed
  <2> QED
      BY <1>2, <2>1
<1>4. Saturates(U, I, F)
      BY <1>1, <1>3 DEF Saturates
<1>5. \E g : FollowsLive(g, f, fl, t)
  <2>1. PICK W \in [0 .. N -> SUBSET U] :
          W = [n \in 0 .. N |-> IF n = 0 THEN I ELSE W[n - 1] \cup F[W[n - 1]]]
    <3> HIDE DEF U, I, F
    <3> QED
        BY <1>4, SaturationDefined
  <2>2. N \in Nat
        BY <1>1, FS_CardinalityType
  <2>3. \A n \in 0 .. N : n # 0 => n - 1 \in 0 .. N /\ W[n - 1] \in SUBSET U
    <3> HIDE DEF N, U
    <3> QED
        BY <2>2
  <2>4. \A n \in 0 .. N : n # 0 => F[W[n - 1]] = Onto(W[n - 1])
    <3>1. \A X \in SUBSET U : F[X] = Onto(X)
          OBVIOUS
    <3> HIDE DEF N, U, F, Onto
    <3> QED
        BY <2>3, <3>1
  <2> HIDE DEF N
  <2>5. W = [n \in 0 .. N |-> IF n = 0 THEN I ELSE W[n - 1] \cup Onto(W[n - 1])]
    <3> HIDE DEF F, I, Onto
    <3> QED
        BY <2>1, <2>4
  <2>6. FollowsLive(W, f, fl, t)
        BY <2>5 DEF FollowsLive, N
  <2> QED
      BY <2>6
<1> DEFINE W == CHOOSE g : FollowsLive(g, f, fl, t)
<1>6. FollowsLive(W, f, fl, t)
      BY <1>5
<1>7. L = W[N]
      BY DEF LiveInto, Exposed, Transparent, Rounds, FollowsLive
<1> HIDE DEF W
<1>8. LeastFixpoint(W[N], U, I, F)
  <2>1. N \in Nat
        BY <1>1, FS_CardinalityType
  <2>2. W = [n \in 0 .. N |-> IF n = 0 THEN I ELSE W[n - 1] \cup Onto(W[n - 1])]
        BY <1>6 DEF FollowsLive
  <2>3. \A X \in SUBSET U : F[X] = Onto(X)
        OBVIOUS
  <2> HIDE DEF I, F, U, Onto, N
  <2> DEFINE From(n) == IF n = 0 THEN I ELSE W[n - 1] \cup Onto(W[n - 1])
  <2>4. W = [n \in 0 .. N |-> From(n)]
        BY <2>2
  <2> HIDE DEF From
  <2>5. \A n \in 0 .. N : W[n] = From(n)
        BY <2>4
  <2>6. 0 \in 0 .. N
        BY <2>1
  <2>7. W[0] = I
        BY <2>5, <2>6 DEF From
  <2>8. ASSUME NEW n \in 0 .. N, n # 0, W[n - 1] \in SUBSET U PROVE W[n] = W[n - 1] \cup F[W[n - 1]]
    <3>1. W[n] = W[n - 1] \cup Onto(W[n - 1])
          BY <2>5, <2>8 DEF From
    <3> QED
        BY <2>3, <2>8, <3>1
  <2>9. Grows(W, U, I, F)
        BY <2>7, <2>8 DEF Grows, N
  <2> QED
      BY <1>4, <2>9, Saturation DEF N
<1>9. I \subseteq W[N] /\ W[N] \in SUBSET U /\ F[W[N]] \subseteq W[N]
      BY <1>8 DEF LeastFixpoint
<1>10. I \subseteq L /\ L \in SUBSET U /\ Onto(L) \subseteq L
  <2>1. F[W[N]] = Onto(W[N])
        BY <1>9
  <2> HIDE DEF F, I, U, Onto, L, N
  <2> QED
      BY <1>7, <1>9, <2>1
<1>11. ASSUME NEW C \in SUBSET U, I \subseteq C, Onto(C) \subseteq C PROVE L \subseteq C
  <2>1. \A X \in SUBSET C : F[X] \subseteq C
    <3>1. \A X \in SUBSET C : Onto(X) \subseteq Onto(C)
          OBVIOUS
    <3>2. \A X \in SUBSET C : F[X] = Onto(X)
          OBVIOUS
    <3> HIDE DEF F, Onto, U
    <3> QED
        BY <1>11, <3>1, <3>2
  <2> HIDE DEF F, I, U, Onto, L, N
  <2> QED
      BY <1>7, <1>8, <1>11, <2>1 DEF LeastFixpoint
<1> QED
    BY <1>10, <1>11


-----------------------------------------------------------------------------
\* Without the blocks that the entry does not reach a function is still well formed, and
\* all that is left of it is reached.
LEMMA EliminateUnreachableFlows ==
  ASSUME NEW f, WellFormed(f), f = Function(f.params, f.order, f.code, f.lastTemp)
  PROVE  /\ EliminateUnreachable(f).params = f.params
         /\ EliminateUnreachable(f).lastTemp = f.lastTemp
         /\ EliminateUnreachable(f)
              = Function(f.params, EliminateUnreachable(f).order, EliminateUnreachable(f).code, f.lastTemp)
         /\ Blocks(EliminateUnreachable(f)) \subseteq Blocks(f)
         /\ Entry(EliminateUnreachable(f)) = Entry(f)
         /\ EliminateUnreachable(f).code = [b \in Blocks(EliminateUnreachable(f)) |-> f.code[b]]
         /\ WellFormed(EliminateUnreachable(f))
         /\ ReachAvoiding(EliminateUnreachable(f), {}) = Blocks(EliminateUnreachable(f))
<1> DEFINE g == EliminateUnreachable(f)
           reached == ReachAvoiding(f, {})
           order == Only(f.order, reached)
           code == [b \in reached |-> f.code[b]]
<1>1. g = Function(f.params, order, code, f.lastTemp)
  <2>1. g = [f EXCEPT !.order = order, !.code = code]
        BY DEF EliminateUnreachable, Restrict
  <2>2. ASSUME NEW o, NEW c
        PROVE  [f EXCEPT !.order = o, !.code = c] = Function(f.params, o, c, f.lastTemp)
    <3> DEFINE ps == f.params
               os == f.order
               cs == f.code
               last == f.lastTemp
    <3>1. f = [params |-> ps, order |-> os, code |-> cs, lastTemp |-> last]
          BY DEF Function
    <3> HIDE DEF ps, os, cs, last
    <3> DEFINE first == [f EXCEPT !.order = o]
    <3>2. first = [params |-> ps, order |-> o, code |-> cs, lastTemp |-> last]
          BY <3>1
    <3>3. [f EXCEPT !.order = o, !.code = c] = [first EXCEPT !.code = c]
          OBVIOUS
    <3> HIDE DEF first
    <3>4. [first EXCEPT !.code = c] = [params |-> ps, order |-> o, code |-> c, lastTemp |-> last]
          BY <3>2
    <3> QED
        BY <3>3, <3>4 DEF Function, ps, last
  <2> HIDE DEF order, code, g
  <2> QED
      BY <2>1, <2>2
<1>2. g.params = f.params /\ g.lastTemp = f.lastTemp /\ g.order = order /\ g.code = code
      BY <1>1 DEF Function
<1>3. f.order \in Seq(Blocks(f)) /\ f.order # <<>>
      BY DEF WellFormed
<1>4. /\ {Entry(f)} \subseteq reached /\ reached \subseteq Blocks(f)
      /\ \A b \in reached : Exits(f, b) \cap Blocks(f) \subseteq reached
  <2>1. /\ {Entry(f)} \ {} \subseteq reached /\ reached \subseteq Blocks(f) \ {}
        /\ \A b \in reached : (Exits(f, b) \cap Blocks(f)) \ {} \subseteq reached
        BY WalkLimit
  <2> QED
      BY <2>1
<1> HIDE DEF reached
<1>5. /\ order \in Seq(Blocks(f) \cap reached)
      /\ \A x : (\E i \in DOMAIN order : order[i] = x) <=> x \in reached /\ \E i \in DOMAIN f.order : f.order[i] = x
      /\ order # <<>> /\ order[1] = f.order[1]
  <2>1. f.order[1] \in reached
        BY <1>4 DEF Entry
  <2> DEFINE os == f.order
             X == Blocks(f)
  <2>2. os \in Seq(X) /\ os # <<>> /\ os[1] \in reached
        BY <1>3, <2>1
  <2> HIDE DEF os, X
  <2>3. Selects(Only(os, reached), os, reached, X)
        BY <2>2, OnlyFacts
  <2> QED
      BY <2>2, <2>3 DEF os, X, Selects
<1> HIDE DEF order, g
<1>6. Blocks(g) = reached
  <2>1. \A x : x \in Blocks(g) <=> \E i \in DOMAIN order : order[i] = x
        BY <1>2 DEF Blocks, ToSet
  <2>2. \A x : x \in Blocks(f) <=> \E i \in DOMAIN f.order : f.order[i] = x
        BY DEF Blocks, ToSet
  <2> QED
      BY <1>4, <1>5, <2>1, <2>2
<1>7. Entry(g) = Entry(f)
      BY <1>2, <1>5 DEF Entry
<1>8. \A b \in reached : g.code[b] = f.code[b] /\ Exits(g, b) = Exits(f, b)
      BY <1>2 DEF Exits
<1> HIDE DEF code
<1>9. ASSUME NEW b \in reached
      PROVE  /\ g.code[b] \in Seq(ToSet(g.code[b])) /\ g.code[b] # <<>>
             /\ \A i \in DOMAIN g.code[b] :
                  WellFormedStatement(g, g.code[b][i]) /\ (g.code[b][i].kind \in Leaving <=> i = Len(g.code[b]))
  <2>1. /\ f.code[b] \in Seq(ToSet(f.code[b])) /\ f.code[b] # <<>>
        /\ \A i \in DOMAIN f.code[b] :
             WellFormedStatement(f, f.code[b][i]) /\ (f.code[b][i].kind \in Leaving <=> i = Len(f.code[b]))
    <3>1. b \in Blocks(f)
          BY <1>4
    <3> QED
        BY <3>1 DEF WellFormed
  <2>2. ASSUME NEW i \in DOMAIN f.code[b] PROVE WellFormedStatement(g, f.code[b][i])
    <3>1. WellFormedStatement(f, f.code[b][i]) /\ (f.code[b][i].kind \in Leaving <=> i = Len(f.code[b]))
          BY <2>1
    <3>2. f.code[b][i].kind \in Leaving => ToSet(f.code[b][i].labels) \subseteq reached
      <4> SUFFICES ASSUME f.code[b][i].kind \in Leaving PROVE ToSet(f.code[b][i].labels) \subseteq reached
          OBVIOUS
      <4>1. ToSet(f.code[b][i].labels) \subseteq Blocks(f)
            BY <3>1 DEF WellFormedStatement
      <4>2. Exits(f, b) = ToSet(f.code[b][i].labels)
            BY <3>1 DEF Exits, Last
      <4> QED
          BY <1>4, <4>1, <4>2
    <3> QED
        BY <1>6, <3>1, <3>2 DEF WellFormedStatement
  <2> QED
      BY <1>8, <2>1, <2>2
<1>10. WellFormed(g)
  <2>1. g.order \in Seq(Blocks(g)) /\ g.order # <<>>
    <3>1. Blocks(f) \cap reached = reached
          BY <1>4
    <3> QED
        BY <1>2, <1>5, <1>6, <3>1
  <2>2. g.params \in Seq(ToSet(g.params)) /\ NoTemp \notin ToSet(g.params)
        BY <1>2 DEF WellFormed
  <2>3. \A i \in DOMAIN g.code[Entry(g)] : ~IsPhi(g.code[Entry(g)][i])
        BY <1>4, <1>7, <1>8 DEF WellFormed
  <2> QED
      BY <1>6, <1>9, <2>1, <2>2, <2>3 DEF WellFormed
<1>11. ReachAvoiding(g, {}) = reached
  <2>1. /\ {Entry(g)} \ {} \subseteq ReachAvoiding(g, {}) /\ ReachAvoiding(g, {}) \subseteq Blocks(g) \ {}
        /\ \A b \in ReachAvoiding(g, {}) : (Exits(g, b) \cap Blocks(g)) \ {} \subseteq ReachAvoiding(g, {})
        BY <1>10, WalkLimit
  <2> DEFINE C == ReachAvoiding(g, {})
  <2>2. C \in SUBSET Blocks(f) /\ {Entry(f)} \ {} \subseteq C /\ C \subseteq reached
        BY <1>4, <1>6, <1>7, <2>1
  <2>3. ASSUME NEW b \in C PROVE (Exits(f, b) \cap Blocks(f)) \ {} \subseteq C
        BY <1>4, <1>6, <1>8, <2>1, <2>2
  <2> HIDE DEF C
  <2>4. reached \subseteq C
        BY <2>2, <2>3, WalkLimit DEF reached
  <2> QED
      BY <2>2, <2>4 DEF C
<1> QED
    BY <1>1, <1>2, <1>4, <1>6, <1>7, <1>10, <1>11 DEF g, code

LEMMA ExposedAt ==
  ASSUME NEW f, NEW t, NEW b \in Blocks(f)
  PROVE  b \in Exposed(f, t) <=>
           \E i \in DOMAIN f.code[b] : /\ t \in Uses(f.code[b][i])
                                       /\ \A j \in 1 .. i - 1 : t \notin Defs(f.code[b][j])
<1> DEFINE Written(i) == UNION {Defs(f.code[b][j]) : j \in 1 .. i - 1}
           Read(i) == Uses(f.code[b][i]) \ Written(i)
<1>1. LiveBefore(f.code[b], {}) = UNION {Read(i) : i \in DOMAIN f.code[b]}
      BY DEF LiveBefore
<1>2. \A i : t \in Read(i) <=> t \in Uses(f.code[b][i]) /\ \A j \in 1 .. i - 1 : t \notin Defs(f.code[b][j])
      OBVIOUS
<1>3. b \in Exposed(f, t) <=> t \in LiveBefore(f.code[b], {})
      BY DEF Exposed
<1> HIDE DEF Read
<1> QED
    BY <1>1, <1>2, <1>3

-----------------------------------------------------------------------------
\* Runs: what a statement does, and where a run is along a block and from block to block.
IsConfiguration(c) == c = [at |-> c.at, halted |-> c.halted, trace |-> c.trace, env |-> c.env]

\* A statement leaves what was assigned and assigns what it defines.
Leads(f, c, s, d) ==
  /\ IsConfiguration(d)
  /\ DOMAIN c.env \subseteq DOMAIN d.env
  /\ ~IsPhi(s) => Defs(s) \subseteq DOMAIN d.env
  /\ s.kind \notin Leaving => d.at = c.at /\ d.halted = c.halted
  /\ s.kind = "RETURN" => d.halted /\ d.at = c.at
  /\ s.kind \in Leaving => s.kind = "RETURN" \/ (d.at \in ToSet(s.labels) /\ d.halted = c.halted)

LEMMA StatementLeads ==
  ASSUME NEW f, NEW s, WellFormedStatement(f, s), NEW c, IsConfiguration(c), NEW input
  PROVE  Leads(f, c, s, ExecStatement(input, c, s))
<1> DEFINE d == ExecStatement(input, c, s)
           vals == [i \in DOMAIN s.src |-> Value(c.env, s.src[i])]
           seen == Append(c.trace, <<s.kind, s.op, vals>>)
           Same == d = [at |-> c.at, halted |-> c.halted, trace |-> d.trace, env |-> d.env]
           Binds == Same /\ \E v : d.env = Bind(c.env, s.dst, v)
           Keeps == Same /\ d.env = c.env
<1> SUFFICES Leads(f, c, s, d)
    OBVIOUS
<1>1. \A v : DOMAIN Bind(c.env, s.dst, v) = DOMAIN c.env \cup {s.dst}
      BY DEF Bind
<1>2. s.dst # NoTemp <=> s.kind \in Assigning
      BY DEF WellFormedStatement
<1>3. ASSUME Binds, s.kind \notin Leaving PROVE Leads(f, c, s, d)
  <2> HIDE DEF d
  <2> QED
      BY <1>1, <1>3 DEF Leads, IsConfiguration, Defs, Leaving
<1>4. ASSUME Keeps, s.kind \notin Leaving, s.dst = NoTemp \/ IsPhi(s) PROVE Leads(f, c, s, d)
  <2> HIDE DEF d
  <2> QED
      BY <1>4 DEF Leads, IsConfiguration, Defs, Leaving
<1>5. CASE IsCall(s.kind) /\ s.op \in DOMAIN Callees
  <2> DEFINE end == Callee(s.op, [i \in DOMAIN s.src |-> Value(c.env, s.src[i])], input, c.trace)
             v == Last(end.trace)[3][1]
  <2>1. d = [c EXCEPT !.trace = Front(end.trace),
                      !.env = IF s.dst = NoTemp THEN @ ELSE Bind(@, s.dst, v)]
        BY <1>5 DEF ExecStatement, ExecCall
  <2>2. s.kind \notin Leaving
        BY <1>5 DEF IsCall, Leaving
  <2> HIDE DEF d, end, v
  <2>3. CASE s.dst = NoTemp
    <3>1. Keeps
          BY <2>1, <2>3 DEF IsConfiguration
    <3> QED
        BY <1>4, <2>2, <2>3, <3>1
  <2>4. CASE s.dst # NoTemp
    <3>1. Binds
          BY <2>1, <2>4 DEF IsConfiguration
    <3> QED
        BY <1>3, <2>2, <3>1
  <2> QED
      BY <2>3, <2>4
<1>6. ASSUME ~ (IsCall(s.kind) /\ s.op \in DOMAIN Callees) PROVE d = ExecPlain(input, c, s)
      BY <1>6 DEF ExecStatement
<1>7. ASSUME ~ (IsCall(s.kind) /\ s.op \in DOMAIN Callees),
             s.kind \in {"MOVE", "MOVE_BINOP", "LOAD", "MOVE_EXTCALL"}
      PROVE  Leads(f, c, s, d)
  <2>1. \E v, t : d = [c EXCEPT !.env = Bind(@, s.dst, v), !.trace = t]
    <3>1. CASE s.kind = "MOVE"
      <4>1. d = [c EXCEPT !.env = Bind(@, s.dst, vals[1])]
            BY <1>6, <1>7, <3>1 DEF ExecPlain, vals
      <4> HIDE DEF d, vals
      <4>2. d = [c EXCEPT !.env = Bind(@, s.dst, vals[1]), !.trace = c.trace]
            BY <4>1 DEF IsConfiguration
      <4> QED
          BY <4>2
    <3>2. CASE s.kind = "MOVE_BINOP"
      <4> DEFINE v == Operate(s.op, vals[1], vals[2])
      <4>1. d = [c EXCEPT !.env = Bind(@, s.dst, v)]
            BY <1>6, <1>7, <3>2 DEF ExecPlain, vals
      <4> HIDE DEF d, v
      <4>2. d = [c EXCEPT !.env = Bind(@, s.dst, v), !.trace = c.trace]
            BY <4>1 DEF IsConfiguration
      <4> QED
          BY <4>2
    <3>3. CASE s.kind \in {"LOAD", "MOVE_EXTCALL"}
      <4>1. d = [c EXCEPT !.env = Bind(@, s.dst, Reply(input, Len(c.trace))), !.trace = seen]
            BY <1>6, <1>7, <3>3 DEF ExecPlain, vals
      <4> HIDE DEF d, seen
      <4> QED
          BY <4>1
    <3> QED
        BY <1>7, <3>1, <3>2, <3>3
  <2> HIDE DEF d
  <2>2. Binds
        BY <2>1 DEF IsConfiguration
  <2> QED
      BY <1>3, <1>7, <2>2 DEF Leaving
<1>8. ASSUME ~ (IsCall(s.kind) /\ s.op \in DOMAIN Callees), s.kind \in {"STORE", "EXTCALL"}
      PROVE  Leads(f, c, s, d)
  <2>1. d = [c EXCEPT !.trace = seen]
        BY <1>6, <1>8 DEF ExecPlain, vals
  <2> HIDE DEF d, seen
  <2>2. Keeps /\ s.dst = NoTemp
        BY <1>2, <1>8, <2>1 DEF IsConfiguration, Assigning
  <2> QED
      BY <1>4, <1>8, <2>2 DEF Leaving
<1>9. ASSUME s.kind = "PHI" PROVE Leads(f, c, s, d)
  <2>1. d = c
        BY <1>9 DEF ExecStatement, ExecPlain, IsCall
  <2> HIDE DEF d
  <2>2. Keeps
        BY <2>1 DEF IsConfiguration
  <2> QED
      BY <1>4, <1>9, <2>2 DEF Leaving, IsPhi
<1>10. ASSUME s.kind \in {"JUMP", "FALL", "CJUMP"} PROVE Leads(f, c, s, d)
  <2>1. \E target \in ToSet(s.labels) : d = [c EXCEPT !.at = target]
    <3>1. CASE s.kind = "CJUMP"
      <4> DEFINE target == IF Compare(s.op, vals[1], vals[2]) THEN s.labels[1] ELSE s.labels[2]
      <4>1. d = [c EXCEPT !.at = target]
            BY <3>1 DEF ExecStatement, ExecPlain, IsCall, vals
      <4>2. {s.labels[1], s.labels[2]} \subseteq ToSet(s.labels)
            BY <3>1 DEF WellFormedStatement, ToSet
      <4> HIDE DEF d
      <4>3. target \in ToSet(s.labels)
            BY <4>2
      <4> HIDE DEF target
      <4> QED
          BY <4>1, <4>3
    <3>2. CASE s.kind \in {"JUMP", "FALL"}
      <4>1. d = [c EXCEPT !.at = s.labels[1]]
            BY <3>2 DEF ExecStatement, ExecPlain, IsCall
      <4>2. s.labels[1] \in ToSet(s.labels)
            BY <3>2 DEF WellFormedStatement, ToSet
      <4> HIDE DEF d
      <4> QED
          BY <4>1, <4>2
    <3> QED
        BY <1>10, <3>1, <3>2, Zenon
  <2>2. PICK target \in ToSet(s.labels) : d = [c EXCEPT !.at = target]
        BY <2>1
  <2>3. Defs(s) = {}
        BY <1>2, <1>10 DEF Defs, Assigning
  <2> HIDE DEF d
  <2> QED
      BY <1>10, <2>2, <2>3 DEF Leads, IsConfiguration, Leaving
<1>11. ASSUME s.kind = "RETURN" PROVE Leads(f, c, s, d)
  <2>1. d = [c EXCEPT !.halted = TRUE, !.trace = seen]
        BY <1>11 DEF ExecStatement, ExecPlain, IsCall, vals
  <2>2. Defs(s) = {}
        BY <1>2, <1>11 DEF Defs, Assigning
  <2> HIDE DEF d, seen
  <2> QED
      BY <1>11, <2>1, <2>2 DEF Leads, IsConfiguration, Leaving
<1>12. s.kind \in {"MOVE", "MOVE_BINOP", "LOAD", "MOVE_EXTCALL", "STORE", "EXTCALL", "JUMP", "FALL",
                   "CJUMP", "RETURN", "PHI"}
       BY DEF WellFormedStatement, Leaving, Assigning
<1> HIDE DEF d
<1> QED
    BY <1>5, <1>7, <1>8, <1>9, <1>10, <1>11, <1>12

FollowsRun(g, f, input, c) ==
  g = [i \in 0 .. Len(f.code[c.at]) |->
         IF i = 0 THEN c ELSE ExecStatement(input, g[i - 1], f.code[c.at][i])]

LEMMA BehindDefined ==
  ASSUME NEW f, NEW input, NEW c, Len(f.code[c.at]) \in Nat
  PROVE  \E g : FollowsRun(g, f, input, c)
<1> DEFINE code == f.code[c.at]
           N == Len(code)
           From(g, i) == IF i = 0 THEN c ELSE ExecStatement(input, g[i - 1], code[i])
           T == {n \in Nat : ~ \E g : g = [i \in 0 .. n |-> From(g, i)]}
<1>1. ASSUME T # {} PROVE FALSE
  <2>1. T \in SUBSET Nat
        OBVIOUS
  <2>2. PICK m \in T : \A j \in T : m <= j
    <3> HIDE DEF T
    <3> QED
        BY <1>1, <2>1, LeastElement
  <2>3. m # 0
    <3> DEFINE g == [i \in 0 .. 0 |-> c]
    <3>1. g = [i \in 0 .. 0 |-> From(g, i)]
          OBVIOUS
    <3> HIDE DEF g
    <3>2. 0 \notin T
          BY <3>1
    <3> QED
        BY <2>2, <3>2
  <2>4. m \in Nat /\ m - 1 \in Nat /\ m - 1 \notin T
    <3> HIDE DEF T
    <3> QED
        BY <2>1, <2>2, <2>3
  <2>5. PICK g : g = [i \in 0 .. m - 1 |-> From(g, i)]
        BY <2>4
  <2> DEFINE h == [i \in 0 .. m |-> From(g, i)]
  <2>6. \A i \in 0 .. m - 1 : g[i] = From(g, i) /\ h[i] = From(g, i)
    <3> HIDE DEF From, T
    <3> QED
        BY <2>4, <2>5
  <2>7. \A i \in 0 .. m : From(g, i) = From(h, i)
    <3> SUFFICES ASSUME NEW i \in 0 .. m, i # 0 PROVE g[i - 1] = h[i - 1]
        OBVIOUS
    <3>1. i - 1 \in 0 .. m - 1
          BY <2>4
    <3> HIDE DEF From, h
    <3> QED
        BY <2>6, <3>1
  <2>8. h = [i \in 0 .. m |-> From(h, i)]
    <3> HIDE DEF From
    <3> QED
        BY <2>7
  <2> HIDE DEF h, From
  <2>9. m \notin T
        BY <2>8
  <2> QED
      BY <2>2, <2>9
<1>2. N \in Nat /\ N \notin T
  <2> HIDE DEF T
  <2> QED
      BY <1>1
<1>3. PICK g : g = [i \in 0 .. N |-> From(g, i)]
      BY <1>2
<1>4. FollowsRun(g, f, input, c)
      BY <1>3 DEF FollowsRun
<1> QED
    BY <1>4

LEMMA BehindFacts ==
  ASSUME NEW f, NEW input, NEW c, Len(f.code[c.at]) \in Nat
  PROVE  /\ AlongBlock(f, input, c)[0] = c
         /\ \A i \in 1 .. Len(f.code[c.at]) :
              AlongBlock(f, input, c)[i] =
                ExecStatement(input, AlongBlock(f, input, c)[i - 1], f.code[c.at][i])
<1> DEFINE W == CHOOSE g : FollowsRun(g, f, input, c)
<1>1. FollowsRun(W, f, input, c)
      BY BehindDefined
<1>2. AlongBlock(f, input, c) = W
      BY DEF AlongBlock, Along, FollowsRun
<1> HIDE DEF W
<1> QED
    BY <1>1, <1>2, SMTT(30) DEF FollowsRun

FollowsBlocks(g, f, input, n) ==
  g = [i \in 0 .. n |->
         IF i = 0 THEN Start(f, input) ELSE Onward(f, input, g[i - 1])]

LEMMA AfterDefined ==
  ASSUME NEW f, NEW input, NEW n \in Nat
  PROVE  \E g : FollowsBlocks(g, f, input, n)
<1> DEFINE N == n
           From(g, i) == IF i = 0 THEN Start(f, input) ELSE Onward(f, input, g[i - 1])
           T == {j \in Nat : ~ \E g : g = [i \in 0 .. j |-> From(g, i)]}
<1>1. ASSUME T # {} PROVE FALSE
  <2>1. T \in SUBSET Nat
        OBVIOUS
  <2>2. PICK m \in T : \A j \in T : m <= j
    <3> HIDE DEF T
    <3> QED
        BY <1>1, <2>1, LeastElement
  <2>3. m # 0
    <3> DEFINE g == [i \in 0 .. 0 |-> Start(f, input)]
    <3>1. g = [i \in 0 .. 0 |-> From(g, i)]
          OBVIOUS
    <3> HIDE DEF g
    <3>2. 0 \notin T
          BY <3>1
    <3> QED
        BY <2>2, <3>2
  <2>4. m \in Nat /\ m - 1 \in Nat /\ m - 1 \notin T
    <3> HIDE DEF T
    <3> QED
        BY <2>1, <2>2, <2>3
  <2>5. PICK g : g = [i \in 0 .. m - 1 |-> From(g, i)]
        BY <2>4
  <2> DEFINE h == [i \in 0 .. m |-> From(g, i)]
  <2>6. \A i \in 0 .. m - 1 : g[i] = From(g, i) /\ h[i] = From(g, i)
    <3> HIDE DEF From, T
    <3> QED
        BY <2>4, <2>5
  <2>7. \A i \in 0 .. m : From(g, i) = From(h, i)
    <3> SUFFICES ASSUME NEW i \in 0 .. m, i # 0 PROVE g[i - 1] = h[i - 1]
        OBVIOUS
    <3>1. i - 1 \in 0 .. m - 1
          BY <2>4
    <3> HIDE DEF From, h
    <3> QED
        BY <2>6, <3>1
  <2>8. h = [i \in 0 .. m |-> From(h, i)]
    <3> HIDE DEF From
    <3> QED
        BY <2>7
  <2> HIDE DEF h, From
  <2>9. m \notin T
        BY <2>8
  <2> QED
      BY <2>2, <2>9
<1>2. N \in Nat /\ N \notin T
  <2> HIDE DEF T
  <2> QED
      BY <1>1
<1>3. PICK g : g = [i \in 0 .. N |-> From(g, i)]
      BY <1>2
<1>4. FollowsBlocks(g, f, input, n)
      BY <1>3 DEF FollowsBlocks
<1> QED
    BY <1>4

LEMMA AfterFacts ==
  ASSUME NEW f, NEW input, NEW n \in Nat
  PROVE  /\ After(f, input, n)[0] = Start(f, input)
         /\ \A i \in 1 .. n :
              After(f, input, n)[i] = Onward(f, input, After(f, input, n)[i - 1])
<1> DEFINE W == CHOOSE g : FollowsBlocks(g, f, input, n)
<1>1. FollowsBlocks(W, f, input, n)
      BY AfterDefined
<1>2. After(f, input, n) = W
      BY DEF After, FollowsBlocks
<1> HIDE DEF W
<1> QED
    BY <1>1, <1>2 DEF FollowsBlocks


\* Two statements of one kind that read the same values show an observer the same and give their
\* destinations the same value.
Agrees(c, d) == c.at = d.at /\ c.halted = d.halted /\ c.trace = d.trace

Alike(c, d, s, t) ==
  /\ t = Stm(s.kind, t.dst, s.op, t.src, s.labels)
  /\ t.dst = NoTemp <=> s.dst = NoTemp
  /\ DOMAIN t.src = DOMAIN s.src
  /\ \A k \in DOMAIN s.src : Value(c.env, s.src[k]) = Value(d.env, t.src[k])

Yields(c, d, s, t, c2, d2) ==
  /\ IsConfiguration(c2) /\ IsConfiguration(d2)
  /\ Agrees(c2, d2)
  /\ \/ s.dst = NoTemp /\ c2.env = c.env /\ d2.env = d.env
     \/ s.dst # NoTemp /\ \E x : c2.env = Bind(c.env, s.dst, x) /\ d2.env = Bind(d.env, t.dst, x)

LEMMA StatementsAgree ==
  ASSUME NEW f, NEW s, WellFormedStatement(f, s), ~IsPhi(s), NEW t, NEW c, NEW d,
         IsConfiguration(c), IsConfiguration(d), Agrees(c, d), Alike(c, d, s, t), NEW input
  PROVE  Yields(c, d, s, t, ExecStatement(input, c, s), ExecStatement(input, d, t))
<1> DEFINE vals == [i \in DOMAIN s.src |-> Value(c.env, s.src[i])]
           seen == Append(c.trace, <<s.kind, s.op, vals>>)
           c2 == ExecStatement(input, c, s)
           d2 == ExecStatement(input, d, t)
<1> SUFFICES Yields(c, d, s, t, c2, d2)
    OBVIOUS
<1>1. t.kind = s.kind /\ t.op = s.op /\ t.labels = s.labels
      BY DEF Alike, Stm
<1>2. [i \in DOMAIN t.src |-> Value(d.env, t.src[i])] = vals
      BY DEF Alike
<1>3. c.at = d.at /\ c.halted = d.halted /\ c.trace = d.trace
      BY DEF Agrees
<1>4. s.dst # NoTemp <=> s.kind \in Assigning
      BY DEF WellFormedStatement
<1>5. t.dst = NoTemp <=> s.dst = NoTemp
      BY DEF Alike
<1>6. ASSUME NEW x, NEW tr, s.dst # NoTemp,
             c2 = [c EXCEPT !.env = Bind(@, s.dst, x), !.trace = tr],
             d2 = [d EXCEPT !.env = Bind(@, t.dst, x), !.trace = tr]
      PROVE  Yields(c, d, s, t, c2, d2)
  <2> DEFINE p == Bind(c.env, s.dst, x)
             q == Bind(d.env, t.dst, x)
  <2>1. c2 = [at |-> c.at, halted |-> c.halted, trace |-> tr, env |-> p]
    <3> HIDE DEF p
    <3> QED
        BY <1>6 DEF IsConfiguration, p
  <2>2. d2 = [at |-> d.at, halted |-> d.halted, trace |-> tr, env |-> q]
    <3> HIDE DEF q
    <3> QED
        BY <1>6 DEF IsConfiguration, q
  <2>3. c2.env = p /\ d2.env = q
        BY <2>1, <2>2
  <2> HIDE DEF c2, d2
  <2>4. IsConfiguration(c2) /\ IsConfiguration(d2) /\ Agrees(c2, d2)
    <3> HIDE DEF p, q
    <3> QED
        BY <1>3, <2>1, <2>2 DEF IsConfiguration, Agrees
  <2> QED
      BY <1>6, <2>3, <2>4 DEF Yields
<1>7. ASSUME NEW at, NEW halted, NEW tr, s.dst = NoTemp,
             c2 = [at |-> at, halted |-> halted, trace |-> tr, env |-> c.env],
             d2 = [at |-> at, halted |-> halted, trace |-> tr, env |-> d.env]
      PROVE  Yields(c, d, s, t, c2, d2)
  <2> HIDE DEF c2, d2
  <2> QED
      BY <1>7 DEF Yields, IsConfiguration, Agrees
<1>8. CASE IsCall(s.kind) /\ s.op \in DOMAIN Callees
  <2> DEFINE end == Callee(s.op, vals, input, c.trace)
             x == Last(end.trace)[3][1]
             tr == Front(end.trace)
  <2>1. c2 = [c EXCEPT !.trace = tr, !.env = IF s.dst = NoTemp THEN @ ELSE Bind(@, s.dst, x)]
        BY <1>8 DEF ExecStatement, ExecCall
  <2>2. d2 = [d EXCEPT !.trace = tr, !.env = IF t.dst = NoTemp THEN @ ELSE Bind(@, t.dst, x)]
    <3>1. IsCall(t.kind) /\ t.op \in DOMAIN Callees
          BY <1>1, <1>8
    <3>2. Callee(t.op, [i \in DOMAIN t.src |-> Value(d.env, t.src[i])], input, d.trace) = end
          BY <1>1, <1>2, <1>3
    <3> HIDE DEF end
    <3> QED
        BY <3>1, <3>2 DEF ExecStatement, ExecCall
  <2> HIDE DEF x, tr
  <2>3. CASE s.dst = NoTemp
    <3>1. /\ c2 = [at |-> c.at, halted |-> c.halted, trace |-> tr, env |-> c.env]
          /\ d2 = [at |-> c.at, halted |-> c.halted, trace |-> tr, env |-> d.env]
      <4> HIDE DEF c2, d2
      <4> QED
          BY <1>3, <1>5, <2>1, <2>2, <2>3 DEF IsConfiguration
    <3> HIDE DEF c2, d2
    <3> QED
        BY <1>7, <2>3, <3>1
  <2>4. CASE s.dst # NoTemp
    <3>1. /\ c2 = [c EXCEPT !.env = Bind(@, s.dst, x), !.trace = tr]
          /\ d2 = [d EXCEPT !.env = Bind(@, t.dst, x), !.trace = tr]
      <4> HIDE DEF c2, d2
      <4> QED
          BY <1>5, <2>1, <2>2, <2>4
    <3> HIDE DEF c2, d2
    <3> QED
        BY <1>6, <2>4, <3>1
  <2> QED
      BY <2>3, <2>4
<1>9. ASSUME ~ (IsCall(s.kind) /\ s.op \in DOMAIN Callees)
      PROVE  c2 = ExecPlain(input, c, s) /\ d2 = ExecPlain(input, d, t)
      BY <1>1, <1>9 DEF ExecStatement
<1>10. ASSUME ~ (IsCall(s.kind) /\ s.op \in DOMAIN Callees),
              s.kind \in {"MOVE", "MOVE_BINOP", "LOAD", "MOVE_EXTCALL"}
       PROVE  Yields(c, d, s, t, c2, d2)
  <2>1. \E x, tr : /\ c2 = [c EXCEPT !.env = Bind(@, s.dst, x), !.trace = tr]
                   /\ d2 = [d EXCEPT !.env = Bind(@, t.dst, x), !.trace = tr]
    <3>1. CASE s.kind \in {"MOVE", "MOVE_BINOP"}
      <4> DEFINE x == IF s.kind = "MOVE" THEN vals[1] ELSE Operate(s.op, vals[1], vals[2])
      <4>1. c2 = [c EXCEPT !.env = Bind(@, s.dst, x)]
            BY <1>9, <1>10, <3>1 DEF ExecPlain
      <4>2. d2 = [d EXCEPT !.env = Bind(@, t.dst, x)]
        <5> HIDE DEF vals
        <5> QED
            BY <1>1, <1>2, <1>9, <1>10, <3>1 DEF ExecPlain
      <4> HIDE DEF c2, d2, x
      <4>3. /\ c2 = [c EXCEPT !.env = Bind(@, s.dst, x), !.trace = c.trace]
            /\ d2 = [d EXCEPT !.env = Bind(@, t.dst, x), !.trace = c.trace]
            BY <1>3, <4>1, <4>2 DEF IsConfiguration
      <4> QED
          BY <4>3
    <3>2. CASE s.kind \in {"LOAD", "MOVE_EXTCALL"}
      <4> DEFINE x == Reply(input, Len(c.trace))
      <4>1. c2 = [c EXCEPT !.env = Bind(@, s.dst, x), !.trace = seen]
            BY <1>9, <1>10, <3>2 DEF ExecPlain
      <4>2. d2 = [d EXCEPT !.env = Bind(@, t.dst, x), !.trace = seen]
        <5> HIDE DEF vals
        <5> QED
            BY <1>1, <1>2, <1>3, <1>9, <1>10, <3>2 DEF ExecPlain
      <4> HIDE DEF c2, d2, x, seen
      <4> QED
          BY <4>1, <4>2
    <3> QED
        BY <1>10, <3>1, <3>2, Zenon
  <2>2. s.dst # NoTemp
        BY <1>4, <1>10 DEF Assigning
  <2> HIDE DEF c2, d2
  <2> QED
      BY <1>6, <2>1, <2>2
<1>11. ASSUME ~ (IsCall(s.kind) /\ s.op \in DOMAIN Callees),
              s.kind \in {"STORE", "EXTCALL", "JUMP", "FALL", "CJUMP", "RETURN"}
       PROVE  Yields(c, d, s, t, c2, d2)
  <2>1. \E at, halted, tr :
          /\ c2 = [at |-> at, halted |-> halted, trace |-> tr, env |-> c.env]
          /\ d2 = [at |-> at, halted |-> halted, trace |-> tr, env |-> d.env]
    <3>1. CASE s.kind \in {"STORE", "EXTCALL"}
      <4>1. c2 = [c EXCEPT !.trace = seen]
            BY <1>9, <1>11, <3>1 DEF ExecPlain
      <4>2. d2 = [d EXCEPT !.trace = seen]
        <5> HIDE DEF vals
        <5> QED
            BY <1>1, <1>2, <1>3, <1>9, <1>11, <3>1 DEF ExecPlain
      <4> HIDE DEF c2, d2, seen
      <4>3. /\ c2 = [at |-> c.at, halted |-> c.halted, trace |-> seen, env |-> c.env]
            /\ d2 = [at |-> c.at, halted |-> c.halted, trace |-> seen, env |-> d.env]
            BY <1>3, <4>1, <4>2 DEF IsConfiguration
      <4> QED
          BY <4>3
    <3>2. CASE s.kind \in {"JUMP", "FALL"}
      <4> DEFINE at == s.labels[1]
      <4>1. c2 = [c EXCEPT !.at = at] /\ d2 = [d EXCEPT !.at = at]
            BY <1>1, <1>9, <1>11, <3>2 DEF ExecPlain
      <4> HIDE DEF c2, d2, at
      <4>2. /\ c2 = [at |-> at, halted |-> c.halted, trace |-> c.trace, env |-> c.env]
            /\ d2 = [at |-> at, halted |-> c.halted, trace |-> c.trace, env |-> d.env]
            BY <1>3, <4>1 DEF IsConfiguration
      <4> QED
          BY <4>2
    <3>3. CASE s.kind = "CJUMP"
      <4> DEFINE at == IF Compare(s.op, vals[1], vals[2]) THEN s.labels[1] ELSE s.labels[2]
      <4>1. c2 = [c EXCEPT !.at = at]
            BY <1>9, <1>11, <3>3 DEF ExecPlain
      <4>2. d2 = [d EXCEPT !.at = at]
        <5> HIDE DEF vals
        <5> QED
            BY <1>1, <1>2, <1>9, <1>11, <3>3 DEF ExecPlain
      <4> HIDE DEF c2, d2, at
      <4>3. /\ c2 = [at |-> at, halted |-> c.halted, trace |-> c.trace, env |-> c.env]
            /\ d2 = [at |-> at, halted |-> c.halted, trace |-> c.trace, env |-> d.env]
            BY <1>3, <4>1, <4>2 DEF IsConfiguration
      <4> QED
          BY <4>3
    <3>4. CASE s.kind = "RETURN"
      <4>1. c2 = [c EXCEPT !.halted = TRUE, !.trace = seen]
            BY <1>9, <1>11, <3>4 DEF ExecPlain
      <4>2. d2 = [d EXCEPT !.halted = TRUE, !.trace = seen]
        <5> HIDE DEF vals
        <5> QED
            BY <1>1, <1>2, <1>3, <1>9, <1>11, <3>4 DEF ExecPlain
      <4> HIDE DEF c2, d2, seen
      <4>3. /\ c2 = [at |-> c.at, halted |-> TRUE, trace |-> seen, env |-> c.env]
            /\ d2 = [at |-> c.at, halted |-> TRUE, trace |-> seen, env |-> d.env]
            BY <1>3, <4>1, <4>2 DEF IsConfiguration
      <4> QED
          BY <4>3
    <3> QED
        BY <1>11, <3>1, <3>2, <3>3, <3>4
  <2>2. s.dst = NoTemp
        BY <1>4, <1>11 DEF Assigning
  <2> HIDE DEF c2, d2
  <2> QED
      BY <1>7, <2>1, <2>2
<1>12. s.kind \in {"MOVE", "MOVE_BINOP", "LOAD", "MOVE_EXTCALL", "STORE", "EXTCALL", "JUMP", "FALL",
                   "CJUMP", "RETURN"}
       BY DEF WellFormedStatement, Leaving, Assigning, IsPhi
<1> HIDE DEF c2, d2
<1> QED
    BY <1>8, <1>10, <1>11, <1>12

\* A phi does nothing where it stands.
LEMMA PhiStays ==
  ASSUME NEW input, NEW c, NEW s, IsPhi(s)
  PROVE  ExecStatement(input, c, s) = c
BY DEF ExecStatement, ExecPlain, IsPhi, IsCall

LEMMA BoundValue ==
  ASSUME NEW env, NEW t, NEW x, NEW u
  PROVE  Value(Bind(env, t, x), Temp(u)) = IF u = t THEN x ELSE Value(env, Temp(u))
BY DEF Value, Bind, Temp, IsTemp

\* Over an edge a temp takes the value of the phi that defines it, if there is one.
TakesOver(f, c, from, i, k) ==
  /\ i \in DOMAIN f.code[c.at]
  /\ IsPhi(f.code[c.at][i])
  /\ k \in DOMAIN f.code[c.at][i].labels
  /\ f.code[c.at][i].labels[k] = from

Arrives(f, c, from, d) ==
  /\ IsConfiguration(d) /\ Agrees(c, d)
  /\ \A u : \/ \E i, k : /\ TakesOver(f, c, from, i, k)
                         /\ f.code[c.at][i].dst = u
                         /\ Value(d.env, Temp(u)) = Value(c.env, f.code[c.at][i].src[k])
            \/ /\ ~ \E i, k : TakesOver(f, c, from, i, k) /\ f.code[c.at][i].dst = u
               /\ Value(d.env, Temp(u)) = Value(c.env, Temp(u))

LEMMA PhiValues ==
  ASSUME NEW f, NEW c, IsConfiguration(c), NEW from
  PROVE  Arrives(f, c, from, ExecPhis(f, c, from))
<1> DEFINE taken == {s \in ToSet(f.code[c.at]) : IsPhi(s) /\ from \in ToSet(s.labels)}
           Of(t) == CHOOSE s \in taken : s.dst = t
           Place(s) == CHOOSE i \in DOMAIN s.labels : s.labels[i] = from
           set == {s.dst : s \in taken}
           Arg(t) == Value(c.env, Of(t).src[Place(Of(t))])
           env == [t \in DOMAIN c.env \cup set |-> IF t \in set THEN Arg(t) ELSE c.env[t]]
           d == ExecPhis(f, c, from)
<1>1. d = [c EXCEPT !.env = env]
      BY DEF ExecPhis
<1>2. IsConfiguration(d) /\ Agrees(c, d) /\ d.env = env
  <2> HIDE DEF env, d
  <2> QED
      BY <1>1, SMTT(30) DEF IsConfiguration, Agrees
<1>3. ASSUME NEW u, u \in set
      PROVE  \E i, k : /\ TakesOver(f, c, from, i, k)
                       /\ f.code[c.at][i].dst = u
                       /\ Value(d.env, Temp(u)) = Value(c.env, f.code[c.at][i].src[k])
  <2> DEFINE s == Of(u)
             k == Place(s)
  <2>1. s \in taken /\ s.dst = u
    <3>1. \E x \in taken : x.dst = u
          BY <1>3
    <3> HIDE DEF taken
    <3> QED
        BY <3>1, Zenon
  <2>2. PICK i \in DOMAIN f.code[c.at] : s = f.code[c.at][i]
    <3>1. s \in ToSet(f.code[c.at])
          BY <2>1, Zenon
    <3> HIDE DEF s
    <3> QED
        BY <3>1 DEF ToSet
  <2>3. k \in DOMAIN s.labels /\ s.labels[k] = from
        BY <2>1, Zenon DEF ToSet
  <2>4. Value(env, Temp(u)) = Value(c.env, s.src[k])
    <3>1. Arg(u) = Value(c.env, s.src[k])
          OBVIOUS
    <3>2. Value(env, Temp(u)) = Arg(u)
      <4> HIDE DEF Arg, set
      <4> QED
          BY <1>3 DEF Value, Temp, IsTemp
    <3> HIDE DEF Arg, env, s, k
    <3> QED
        BY <3>1, <3>2
  <2>5. IsPhi(s)
        BY <2>1
  <2> HIDE DEF s, k, env, d
  <2> QED
      BY <1>2, <2>1, <2>2, <2>3, <2>4, <2>5 DEF TakesOver
<1>4. ASSUME NEW i, NEW k, TakesOver(f, c, from, i, k) PROVE f.code[c.at][i].dst \in set
      BY <1>4 DEF TakesOver, ToSet
<1>5. ASSUME NEW u, u \notin set PROVE Value(env, Temp(u)) = Value(c.env, Temp(u))
  <2> HIDE DEF Arg, set
  <2> QED
      BY <1>5 DEF Value, Temp, IsTemp
<1> HIDE DEF env, set, d
<1>6. Arrives(f, c, from, d)
      BY <1>2, <1>3, <1>4, <1>5 DEF Arrives
<1> QED
    BY <1>6 DEF d

=============================================================================
