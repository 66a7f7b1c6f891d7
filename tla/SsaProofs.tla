----------------------------- MODULE SsaProofs -----------------------------
(***************************************************************************)
(* The conversion to SSA form gives the passes behind it what they count   *)
(* on, for every function that Tree2Quad may hand it.                      *)
(***************************************************************************)
EXTENDS SsaConstruction, QuadFlowProofs

\* What is fixed from the start: the function without unreachable blocks and its flow.
Sound ==
  /\ Flowing(source, flow)
  /\ flow.succ = FlowOf(source).succ
  /\ flow.liveIn = LiveIn(source, FlowOf(source))
  /\ source = Function(source.params, source.order, source.code, source.lastTemp)
  /\ source.code = [b \in Blocks(source) |-> source.code[b]]
  /\ \A s \in Statements(source) : s = Stm(s.kind, s.dst, s.op, s.src, s.labels) /\ ~IsPhi(s)
  /\ Blocks(source) \subseteq Nat
  /\ Defined(source) \subseteq Nat
  /\ Params(source) \subseteq Nat
  /\ source.lastTemp \in Nat
  /\ IsInjective(source.params)
  /\ \A t \in Params(source) : t <= source.lastTemp
  /\ flow.liveIn[Entry(source)] \subseteq Params(source)

LEMMA InitSound == Init => Sound
<1> SUFFICES ASSUME Init PROVE Sound
    OBVIOUS
<1> USE DEF Init
<1>1. PICK f \in Functions : source = EliminateUnreachable(f)
      OBVIOUS
<1>2. Convertible(f)
      BY SsaAssumption
<1>3. WellFormed(f) /\ f = Function(f.params, f.order, f.code, f.lastTemp)
      BY <1>2 DEF Convertible
<1>4. /\ source.params = f.params
      /\ source.lastTemp = f.lastTemp
      /\ source = Function(f.params, source.order, source.code, f.lastTemp)
      /\ Blocks(source) \subseteq Blocks(f)
      /\ source.code = [b \in Blocks(source) |-> f.code[b]]
      /\ WellFormed(source)
      /\ ReachAvoiding(source, {}) = Blocks(source)
      BY <1>1, <1>3, EliminateUnreachableFlows
<1>5. flow = [succ |-> FlowOf(source).succ, pred |-> FlowOf(source).pred, dom |-> FlowOf(source).dom,
              liveIn |-> LiveIn(source, FlowOf(source))]
      OBVIOUS
<1>6. Flowing(source, FlowOf(source))
      BY <1>4, FlowIsFlowing
<1>7. flow.succ = FlowOf(source).succ /\ flow.pred = FlowOf(source).pred /\ flow.dom = FlowOf(source).dom
        /\ flow.liveIn = LiveIn(source, FlowOf(source))
      BY <1>5
<1>8. Flowing(source, flow)
      BY <1>6, <1>7 DEF Flowing
<1>9. Statements(source) \subseteq Statements(f)
      BY <1>4 DEF Statements
<1>10. Defined(source) \subseteq Defined(f) /\ Params(source) = Params(f)
       BY <1>4, <1>9 DEF Defined, Params
<1>11. Blocks(f) \cup Defined(f) \cup Params(f) \cup {f.lastTemp} \subseteq Nat
       BY <1>2 DEF Convertible
<1>12. \A s \in Statements(source) : s = Stm(s.kind, s.dst, s.op, s.src, s.labels) /\ ~IsPhi(s)
       BY <1>2, <1>9 DEF Convertible
<1>13. IsInjective(f.params) /\ \A t \in Params(f) : t <= f.lastTemp
       BY <1>2 DEF Convertible
<1>14. flow.liveIn[Entry(source)] \subseteq Params(f)
       BY <1>1, <1>2, <1>7 DEF Convertible
<1>15. source = Function(source.params, source.order, source.code, source.lastTemp)
         /\ source.code = [b \in Blocks(source) |-> source.code[b]]
       BY <1>4
<1> QED
    BY <1>4, <1>7, <1>8, <1>10, <1>11, <1>12, <1>13, <1>14, <1>15 DEF Sound

\* Where a variable is live.
LEMMA LiveFacts ==
  ASSUME Sound, NEW v
  PROVE  /\ \A b \in Blocks(source) : \A i \in DOMAIN source.code[b] :
              v \in Uses(source.code[b][i]) /\ (\A j \in 1 .. i - 1 : v \notin Defs(source.code[b][j]))
                => v \in flow.liveIn[b]
         /\ \A b \in Blocks(source) : \A c \in flow.succ[b] :
              v \in flow.liveIn[c] /\ Transparent(source, b, v) => v \in flow.liveIn[b]
         /\ \A C \in SUBSET Blocks(source) :
              /\ \A b \in Blocks(source) : \A i \in DOMAIN source.code[b] :
                   v \in Uses(source.code[b][i]) /\ (\A j \in 1 .. i - 1 : v \notin Defs(source.code[b][j]))
                     => b \in C
              /\ \A b \in Blocks(source) : \A c \in flow.succ[b] : c \in C /\ Transparent(source, b, v) => b \in C
              => \A b \in Blocks(source) : v \in flow.liveIn[b] => b \in C
         /\ \A b \in Blocks(source) : v \in flow.liveIn[b] => \E s \in Statements(source) : v \in Uses(s)
<1> DEFINE B == Blocks(source)
           fl == FlowOf(source)
           used == UNION {Uses(s) : s \in Statements(source)}
           into == LiveInto(source, fl, v)
<1>1. WellFormed(source)
      BY DEF Sound, Flowing
<1>2. \A b \in B : v \in flow.liveIn[b] <=> v \in used /\ b \in into
  <2> DEFINE table == [t \in used |-> LiveInto(source, fl, t)]
  <2>1. flow.liveIn = [b \in B |-> {t \in DOMAIN table : b \in table[t]}]
        BY DEF Sound, LiveIn
  <2>2. DOMAIN table = used /\ (v \in used => table[v] = into)
        OBVIOUS
  <2> HIDE DEF table, used, into
  <2> QED
      BY <2>1, <2>2
<1>3. \A b \in B : \A i \in DOMAIN source.code[b] : v \in Uses(source.code[b][i]) => v \in used
  <2> SUFFICES ASSUME NEW b \in B, NEW i \in DOMAIN source.code[b], v \in Uses(source.code[b][i])
               PROVE  v \in used
      OBVIOUS
  <2>1. source.code[b][i] \in Statements(source)
        BY DEF Statements, ToSet
  <2> QED
      BY <2>1
<1>4. /\ Exposed(source, v) \subseteq into
      /\ into \subseteq B
      /\ \A b \in B : Transparent(source, b, v) /\ fl.succ[b] \cap into # {} => b \in into
      /\ \A C \in SUBSET B :
           /\ Exposed(source, v) \subseteq C
           /\ \A b \in B : Transparent(source, b, v) /\ fl.succ[b] \cap C # {} => b \in C
           => into \subseteq C
      BY <1>1, LiveLimit
<1>5. fl.succ = flow.succ
      BY DEF Sound
<1>6. ASSUME NEW b \in B PROVE flow.succ[b] \subseteq B
  <2>1. Flowing(source, flow)
        BY DEF Sound
  <2> QED
      BY <2>1, FlowFacts
<1>7. ASSUME NEW b \in B
      PROVE  b \in Exposed(source, v) <=>
               \E i \in DOMAIN source.code[b] : /\ v \in Uses(source.code[b][i])
                                               /\ \A j \in 1 .. i - 1 : v \notin Defs(source.code[b][j])
      BY ExposedAt
<1> HIDE DEF B, fl, used, into
<1>8. ASSUME NEW b \in B, NEW i \in DOMAIN source.code[b], v \in Uses(source.code[b][i]),
             \A j \in 1 .. i - 1 : v \notin Defs(source.code[b][j])
      PROVE  v \in flow.liveIn[b]
      BY <1>2, <1>3, <1>4, <1>7, <1>8
<1>9. ASSUME NEW b \in B, NEW c \in flow.succ[b], v \in flow.liveIn[c], Transparent(source, b, v)
      PROVE  v \in flow.liveIn[b]
      BY <1>2, <1>4, <1>5, <1>6, <1>9
<1>10. ASSUME NEW C \in SUBSET B,
              \A b \in B : \A i \in DOMAIN source.code[b] :
                v \in Uses(source.code[b][i]) /\ (\A j \in 1 .. i - 1 : v \notin Defs(source.code[b][j])) => b \in C,
              \A b \in B : \A c \in flow.succ[b] : c \in C /\ Transparent(source, b, v) => b \in C,
              NEW b \in B, v \in flow.liveIn[b]
       PROVE  b \in C
  <2>1. Exposed(source, v) \subseteq C
    <3>1. Exposed(source, v) \subseteq B
          BY DEF Exposed, B
    <3> QED
        BY <1>7, <1>10, <3>1
  <2>2. \A c \in B : Transparent(source, c, v) /\ fl.succ[c] \cap C # {} => c \in C
        BY <1>5, <1>10
  <2> QED
      BY <1>2, <1>4, <1>10, <2>1, <2>2
<1>11. ASSUME NEW b \in B, v \in flow.liveIn[b] PROVE \E s \in Statements(source) : v \in Uses(s)
       BY <1>2, <1>11 DEF used
<1> QED
    BY <1>8, <1>9, <1>10, <1>11 DEF B


\* Where the phis of a variable go.
Demanded(v, S) == {c \in UNION {Frontier(flow, b) : b \in DefBlocks(v) \cup S} : v \in flow.liveIn[c]}

FollowsPhis(g, v) ==
  g = [n \in 0 .. Cardinality(Blocks(source)) |->
         IF n = 0 THEN {} ELSE g[n - 1] \cup Demanded(v, g[n - 1])]

LEMMA PhiLimit ==
  ASSUME Sound, NEW v
  PROVE  /\ PhiBlocks(v) \subseteq Blocks(source)
         /\ \A c \in PhiBlocks(v) : v \in flow.liveIn[c]
         /\ \A d \in DefBlocks(v) \cup PhiBlocks(v) : \A c \in Frontier(flow, d) :
              v \in flow.liveIn[c] => c \in PhiBlocks(v)
<1> DEFINE U == Blocks(source)
           I == {}
           Onto(X) == Demanded(v, X)
           F == [X \in SUBSET U |-> Onto(X)]
           N == Cardinality(U)
           L == PhiBlocks(v)
<1>1. IsFiniteSet(U)
  <2>1. WellFormed(source)
        BY DEF Sound, Flowing
  <2> QED
      BY <2>1, BlocksFinite
<1>2. \A X \in SUBSET U : Onto(X) \in SUBSET U
  <2>1. DOMAIN flow.dom = U
        BY DEF Sound, Flowing
  <2>2. \A b : Frontier(flow, b) \subseteq U
        BY <2>1 DEF Frontier
  <2> QED
      BY <2>2 DEF Demanded
<1>3. I \in SUBSET U /\ F \in [SUBSET U -> SUBSET U]
      BY <1>2
<1>4. Saturates(U, I, F)
      BY <1>1, <1>3 DEF Saturates
<1>5. \E g : FollowsPhis(g, v)
  <2>1. PICK W \in [0 .. N -> SUBSET U] :
          W = [n \in 0 .. N |-> IF n = 0 THEN I ELSE W[n - 1] \cup F[W[n - 1]]]
    <3> HIDE DEF U, I, F
    <3> QED
        BY <1>4, SaturationDefined
  <2>2. N \in Nat
        BY <1>1, FS_CardinalityType
  <2>3. \A n \in 0 .. N : n # 0 => n - 1 \in 0 .. N /\ W[n - 1] \in SUBSET U
    <3> HIDE DEF N, U
    <3> QED
        BY <2>2
  <2>4. \A n \in 0 .. N : n # 0 => F[W[n - 1]] = Onto(W[n - 1])
    <3>1. \A X \in SUBSET U : F[X] = Onto(X)
          OBVIOUS
    <3> HIDE DEF N, U, F, Onto
    <3> QED
        BY <2>3, <3>1
  <2> HIDE DEF N
  <2>5. W = [n \in 0 .. N |-> IF n = 0 THEN I ELSE W[n - 1] \cup Onto(W[n - 1])]
    <3> HIDE DEF F, I, Onto
    <3> QED
        BY <2>1, <2>4
  <2>6. FollowsPhis(W, v)
        BY <2>5 DEF FollowsPhis, N
  <2> QED
      BY <2>6
<1> DEFINE W == CHOOSE g : FollowsPhis(g, v)
<1>6. FollowsPhis(W, v)
      BY <1>5
<1>7. L = W[N]
      BY DEF PhiBlocks, Demanded, Rounds, FollowsPhis
<1> HIDE DEF W
<1>8. LeastFixpoint(W[N], U, I, F)
  <2>1. N \in Nat
        BY <1>1, FS_CardinalityType
  <2>2. W = [n \in 0 .. N |-> IF n = 0 THEN I ELSE W[n - 1] \cup Onto(W[n - 1])]
        BY <1>6 DEF FollowsPhis
  <2>3. \A X \in SUBSET U : F[X] = Onto(X)
        OBVIOUS
  <2> HIDE DEF I, F, U, Onto, N
  <2> DEFINE From(n) == IF n = 0 THEN I ELSE W[n - 1] \cup Onto(W[n - 1])
  <2>4. W = [n \in 0 .. N |-> From(n)]
        BY <2>2
  <2> HIDE DEF From
  <2>5. \A n \in 0 .. N : W[n] = From(n)
        BY <2>4
  <2>6. 0 \in 0 .. N
        BY <2>1
  <2>7. W[0] = I
        BY <2>5, <2>6 DEF From
  <2>8. ASSUME NEW n \in 0 .. N, n # 0, W[n - 1] \in SUBSET U PROVE W[n] = W[n - 1] \cup F[W[n - 1]]
    <3>1. W[n] = W[n - 1] \cup Onto(W[n - 1])
          BY <2>5, <2>8 DEF From
    <3> QED
        BY <2>3, <2>8, <3>1
  <2>9. Grows(W, U, I, F)
        BY <2>7, <2>8 DEF Grows, N
  <2> QED
      BY <1>4, <2>9, Saturation DEF N
<1>9. I \subseteq W[N] /\ W[N] \in SUBSET U /\ F[W[N]] \subseteq W[N]
      BY <1>8 DEF LeastFixpoint
<1>10. I \subseteq L /\ L \in SUBSET U /\ Onto(L) \subseteq L
  <2>1. F[W[N]] = Onto(W[N])
        BY <1>9
  <2> HIDE DEF F, I, U, Onto, L, N
  <2> QED
      BY <1>7, <1>9, <2>1
<1>11. ASSUME NEW C \in SUBSET U, I \subseteq C, Onto(C) \subseteq C PROVE L \subseteq C
  <2>1. \A X \in SUBSET C : F[X] \subseteq C
    <3>1. \A X \in SUBSET C : Onto(X) \subseteq Onto(C)
          BY DEF Demanded
    <3>2. \A X \in SUBSET C : F[X] = Onto(X)
          OBVIOUS
    <3> HIDE DEF F, Onto, U
    <3> QED
        BY <1>11, <3>1, <3>2
  <2> HIDE DEF F, I, U, Onto, L, N
  <2> QED
      BY <1>7, <1>8, <1>11, <2>1 DEF LeastFixpoint
<1>12. \A c \in L : v \in flow.liveIn[c]
  <2> DEFINE C == {c \in U : v \in flow.liveIn[c]}
  <2>1. C \in SUBSET U /\ I \subseteq C
        OBVIOUS
  <2>2. Onto(C) \subseteq C
    <3>1. Onto(C) \subseteq U
          BY <1>2, <2>1
    <3>2. \A c \in Onto(C) : v \in flow.liveIn[c]
          BY DEF Demanded
    <3> QED
        BY <3>1, <3>2
  <2>3. L \subseteq C
    <3> HIDE DEF C, Onto, U, I, L
    <3> QED
        BY <1>11, <2>1, <2>2
  <2> QED
      BY <2>3
<1>13. ASSUME NEW d \in DefBlocks(v) \cup L, NEW c \in Frontier(flow, d), v \in flow.liveIn[c] PROVE c \in L
  <2>1. c \in Onto(L)
        BY <1>13 DEF Demanded
  <2> HIDE DEF Onto
  <2> QED
      BY <1>10, <2>1
<1> QED
    BY <1>10, <1>12, <1>13


\* A variable that is live was assigned on every way: nothing but parameters is live
\* into the entry, and a phi stands wherever what a definition dominates ends.
LEMMA LiveDefined ==
  ASSUME Sound, NEW v, v \notin Params(source)
  PROVE  /\ \A b \in Blocks(source) : v \in flow.liveIn[b] =>
              /\ v \in Defined(source)
              /\ \E d \in DefBlocks(v) \cup PhiBlocks(v) : d \in flow.dom[b] /\ (d = b => b \in PhiBlocks(v))
         /\ \A b \in Blocks(source) : \A c \in flow.succ[b] : v \in flow.liveIn[c] =>
              \E d \in DefBlocks(v) \cup PhiBlocks(v) : d \in flow.dom[b]
<1> DEFINE B == Blocks(source)
           D == DefBlocks(v) \cup PhiBlocks(v)
           Above(b) == /\ v \in Defined(source)
                       /\ \E d \in D : d \in flow.dom[b] /\ (d = b => b \in PhiBlocks(v))
           C == {b \in B : v \in flow.liveIn[b] => Above(b)}
<1>1. Flowing(source, flow) /\ WellFormed(source) /\ ReachAvoiding(source, {}) = B
        /\ flow.liveIn[Entry(source)] \subseteq Params(source)
      BY DEF Sound, Flowing
<1>2. ASSUME NEW b \in B
      PROVE  flow.succ[b] = Exits(source, b) /\ flow.succ[b] \subseteq B /\ b \in flow.dom[b]
             /\ DOMAIN flow.dom = B
      BY <1>1, FlowFacts
<1>3. ASSUME NEW b \in B, NEW c \in flow.succ[b] PROVE b \in flow.pred[c]
  <2>1. c \in B
        BY <1>2
  <2>2. flow.pred[c] = {a \in B : c \in Exits(source, a)}
        BY <1>1, <2>1, FlowFacts
  <2> QED
      BY <1>2, <2>2
<1>4. ASSUME NEW b \in B, ~Transparent(source, b, v) PROVE b \in DefBlocks(v) /\ v \in Defined(source)
  <2>1. PICK i \in DOMAIN source.code[b] : v \in Defs(source.code[b][i])
        BY <1>4 DEF Transparent
  <2>2. source.code[b][i] \in ToSet(source.code[b]) /\ source.code[b][i].dst = v
        BY <2>1 DEF Defs, ToSet
  <2>3. source.code[b][i] \in Statements(source)
        BY <2>2 DEF Statements
  <2>4. v \in Defined(source)
        BY <2>1, <2>3 DEF Defined
  <2> QED
      BY <2>2, <2>4 DEF DefBlocks
<1>5. \A b \in B : \A c \in flow.succ[b] :
        v \in flow.liveIn[c] /\ Transparent(source, b, v) => v \in flow.liveIn[b]
      BY LiveFacts
<1>6. \A d \in D : \A c \in Frontier(flow, d) : v \in flow.liveIn[c] => c \in PhiBlocks(v)
      BY PhiLimit
<1>7. ASSUME NEW b \in C, NEW c \in flow.succ[b], v \in flow.liveIn[c]
      PROVE  v \in Defined(source) /\ \E d \in D : d \in flow.dom[b]
  <2>1. CASE ~Transparent(source, b, v)
        BY <1>2, <1>4, <2>1
  <2>2. CASE Transparent(source, b, v)
        BY <1>5, <1>7, <2>2
  <2> QED
      BY <2>1, <2>2
<1>8. ASSUME NEW b \in C, NEW c \in flow.succ[b], v \in flow.liveIn[c] PROVE Above(c)
  <2>0. v \in Defined(source)
        BY <1>7, <1>8
  <2>1. PICK d \in D : d \in flow.dom[b]
        BY <1>7, <1>8
  <2>2. c \in B /\ b \in B
        BY <1>2
  <2>3. CASE d \in flow.dom[c] /\ d # c
        BY <2>0, <2>3
  <2>4. CASE ~ (d \in flow.dom[c] /\ d # c)
    <3>1. c \in Frontier(flow, d)
          BY <1>2, <1>3, <1>8, <2>1, <2>2, <2>4 DEF Frontier
    <3>2. c \in PhiBlocks(v)
          BY <1>6, <1>8, <3>1
    <3> QED
        BY <1>2, <2>0, <2>2, <3>2
  <2> QED
      BY <2>3, <2>4
<1>9. B \subseteq C
  <2>1. Entry(source) \in B
        BY <1>1, BlocksFinite
  <2>2. Entry(source) \in C
        BY <1>1, <2>1
  <2>3. C \in SUBSET Blocks(source) /\ {Entry(source)} \ {} \subseteq C
        BY <2>2
  <2>4. \A b \in C : (Exits(source, b) \cap Blocks(source)) \ {} \subseteq C
    <3> SUFFICES ASSUME NEW b \in C, NEW c \in Exits(source, b) \cap Blocks(source) PROVE c \in C
        OBVIOUS
    <3>1. c \in flow.succ[b] /\ c \in B
          BY <1>2
    <3>2. v \in flow.liveIn[c] => Above(c)
          BY <1>8, <3>1
    <3> QED
        BY <3>1, <3>2
  <2> HIDE DEF C
  <2>5. ReachAvoiding(source, {}) \subseteq C
        BY <1>1, <2>3, <2>4, WalkLimit
  <2> QED
      BY <1>1, <2>5
<1> QED
    BY <1>7, <1>9


LEMMA MinElement ==
  ASSUME NEW S \in SUBSET Nat, S # {}
  PROVE  Min(S) \in S
<1>1. \E m \in S : \A k \in S : m <= k
      BY LeastElement
<1> QED
    BY <1>1 DEF Min

-----------------------------------------------------------------------------
\* The source with phis in front of some blocks: those of the variables not in rest.
PhiCount(g, b) == Len(g.code[b]) - Len(source.code[b])

PlacedBlock(s, n, rest, b) ==
  /\ s \in Seq(ToSet(s))
  /\ n \in Nat
  /\ \A i \in 1 .. n : /\ s[i] = NewPhi(s[i].dst, b)
                       /\ s[i].dst \in Defined(source) \ rest
                       /\ b \in PhiBlocks(s[i].dst)
  /\ \A i \in DOMAIN source.code[b] : s[i + n] = source.code[b][i]
  /\ \A v \in Defined(source) \ rest : b \in PhiBlocks(v) => \E i \in 1 .. n : s[i].dst = v
  /\ \A i, j \in 1 .. n : s[i].dst = s[j].dst => i = j

Placed(g, rest) ==
  /\ g = Function(source.params, source.order, g.code, source.lastTemp)
  /\ g.code = [b \in Blocks(source) |-> g.code[b]]
  /\ \A b \in Blocks(source) : PlacedBlock(g.code[b], PhiCount(g, b), rest, b)

LEMMA SourceCode ==
  ASSUME Sound, NEW b \in Blocks(source)
  PROVE  /\ source.code[b] \in Seq(ToSet(source.code[b])) /\ Len(source.code[b]) \in Nat
         /\ DOMAIN source.code[b] = 1 .. Len(source.code[b])
         /\ \A i \in DOMAIN source.code[b] :
              /\ source.code[b][i] \in Statements(source)
              /\ ~IsPhi(source.code[b][i])
              /\ WellFormedStatement(source, source.code[b][i])
<1>1. WellFormed(source)
      BY DEF Sound, Flowing
<1>2. source.code[b] \in Seq(ToSet(source.code[b]))
      BY <1>1 DEF WellFormed
<1>3. \A i \in DOMAIN source.code[b] : WellFormedStatement(source, source.code[b][i])
      BY <1>1 DEF WellFormed
<1>4. \A i \in DOMAIN source.code[b] : source.code[b][i] \in Statements(source)
      BY DEF Statements, ToSet
<1>5. \A s \in Statements(source) : ~IsPhi(s)
      BY DEF Sound
<1> QED
    BY <1>2, <1>3, <1>4, <1>5

LEMMA PlacedAtFirst ==
  ASSUME Sound
  PROVE  Placed(source, Defined(source))
<1>1. source = Function(source.params, source.order, source.code, source.lastTemp)
        /\ source.code = [b \in Blocks(source) |-> source.code[b]]
      BY DEF Sound
<1>2. ASSUME NEW b \in Blocks(source) PROVE PlacedBlock(source.code[b], PhiCount(source, b), Defined(source), b)
  <2>1. source.code[b] \in Seq(ToSet(source.code[b])) /\ Len(source.code[b]) \in Nat
          /\ DOMAIN source.code[b] = 1 .. Len(source.code[b])
        BY SourceCode
  <2>2. PhiCount(source, b) = 0
        BY <2>1 DEF PhiCount
  <2>3. \A i \in DOMAIN source.code[b] : source.code[b][i + 0] = source.code[b][i]
        BY <2>1, SMTT(30)
  <2> QED
      BY <2>1, <2>2, <2>3 DEF PlacedBlock
<1> QED
    BY <1>1, <1>2 DEF Placed

\* placePhi adds the phis of one more variable.
LEMMA PlaceMore ==
  ASSUME Sound, NEW g, NEW rest, Placed(g, rest), NEW v \in rest, rest \subseteq Defined(source),
         NEW h, h = [g EXCEPT !.code =
                       [b \in DOMAIN @ |-> IF b \in PhiBlocks(v) THEN <<NewPhi(v, b)>> \o @[b] ELSE @[b]]]
  PROVE  Placed(h, rest \ {v})
<1> DEFINE B == Blocks(source)
           More(b) == IF b \in PhiBlocks(v) THEN <<NewPhi(v, b)>> \o g.code[b] ELSE g.code[b]
<1>1. /\ g = Function(source.params, source.order, g.code, source.lastTemp)
      /\ DOMAIN g.code = B
      /\ \A b \in B : PlacedBlock(g.code[b], PhiCount(g, b), rest, b)
      BY Zenon DEF Placed
<1>2. h = Function(source.params, source.order, [b \in B |-> More(b)], source.lastTemp)
  <2> DEFINE gc == g.code
             hc == [b \in B |-> More(b)]
  <2>1. h = [g EXCEPT !.code = hc]
        BY <1>1
  <2> HIDE DEF gc, hc
  <2>2. g = Function(source.params, source.order, gc, source.lastTemp)
        BY <1>1 DEF gc
  <2>3. h = Function(source.params, source.order, hc, source.lastTemp)
        BY <2>1, <2>2 DEF Function
  <2> QED
      BY <2>3 DEF hc
<1>3. h.code = [b \in B |-> More(b)]
      BY <1>2 DEF Function
<1>4. ASSUME NEW b \in B PROVE PlacedBlock(h.code[b], PhiCount(h, b), rest \ {v}, b)
  <2> DEFINE n == PhiCount(g, b)
             m == Len(source.code[b])
             new == NewPhi(v, b)
             old == g.code[b]
  <2>1. PlacedBlock(old, n, rest, b) /\ h.code[b] = More(b)
        BY <1>1, <1>3
  <2>2. /\ old \in Seq(ToSet(old)) /\ n \in Nat
        /\ \A i \in 1 .. n : /\ old[i] = NewPhi(old[i].dst, b)
                             /\ old[i].dst \in Defined(source) \ rest
                             /\ b \in PhiBlocks(old[i].dst)
        /\ \A i \in DOMAIN source.code[b] : old[i + n] = source.code[b][i]
        /\ \A w \in Defined(source) \ rest : b \in PhiBlocks(w) => \E i \in 1 .. n : old[i].dst = w
        /\ \A i, j \in 1 .. n : old[i].dst = old[j].dst => i = j
        BY <2>1 DEF PlacedBlock
  <2>3. m \in Nat /\ DOMAIN source.code[b] = 1 .. m /\ Len(old) = n + m /\ DOMAIN old = 1 .. n + m
    <3>1. m \in Nat /\ DOMAIN source.code[b] = 1 .. m
          BY SourceCode
    <3>2. Len(old) \in Nat /\ DOMAIN old = 1 .. Len(old) /\ n = Len(old) - m
          BY <2>2 DEF PhiCount
    <3> QED
        BY <3>1, <3>2
  <2>4. CASE b \notin PhiBlocks(v)
    <3>1. h.code[b] = g.code[b] /\ PhiCount(h, b) = PhiCount(g, b)
          BY <2>1, <2>4 DEF PhiCount
    <3>2. \A i \in 1 .. n : old[i].dst \in Defined(source) \ (rest \ {v})
          BY <2>2
    <3>3. \A w \in Defined(source) \ (rest \ {v}) : b \in PhiBlocks(w) => \E i \in 1 .. n : old[i].dst = w
          BY <2>2, <2>4
    <3> HIDE DEF n, m, old
    <3>4. PlacedBlock(old, n, rest \ {v}, b)
          BY <2>2, <3>2, <3>3 DEF PlacedBlock
    <3> QED
        BY <3>1, <3>4 DEF n, old
  <2>5. CASE b \in PhiBlocks(v)
    <3> DEFINE s == <<new>> \o old
    <3>1. h.code[b] = s
          BY <2>1, <2>5
    <3> HIDE DEF new, old, n, m
    <3>2. /\ Len(s) = n + m + 1 /\ DOMAIN s = 1 .. n + m + 1 /\ s[1] = new
          /\ \A i \in 1 .. n + m : s[i + 1] = old[i]
          BY <2>2, <2>3
    <3> HIDE DEF s
    <3>3. PhiCount(h, b) = n + 1
      <4>1. PhiCount(h, b) = Len(s) - m
            BY <3>1 DEF PhiCount, m
      <4> QED
          BY <2>2, <2>3, <3>2, <4>1
    <3>4. s \in Seq(ToSet(s))
      <4>1. s = <<new>> \o old /\ old \in Seq(ToSet(old))
            BY <2>2 DEF s
      <4>2. s \in Seq({new} \cup ToSet(old))
            BY <4>1
      <4>3. \A i \in 1 .. Len(s) : s[i] \in ToSet(s)
            BY <3>2 DEF ToSet
      <4> QED
          BY <4>2, <4>3
    <3>5. new.dst = v
          BY DEF new, NewPhi, Phi, Stm
    <3>6. \A i \in 2 .. n + 1 : i - 1 \in 1 .. n /\ s[i] = old[i - 1]
      <4> SUFFICES ASSUME NEW i \in 2 .. n + 1 PROVE i - 1 \in 1 .. n /\ s[i] = old[i - 1]
          OBVIOUS
      <4>1. i - 1 \in 1 .. n /\ i - 1 \in 1 .. n + m /\ (i - 1) + 1 = i
            BY <2>2, <2>3
      <4> QED
          BY <3>2, <4>1
    <3>7. \A i \in 1 .. n + 1 : /\ s[i] = NewPhi(s[i].dst, b)
                                /\ s[i].dst \in Defined(source) \ (rest \ {v})
                                /\ b \in PhiBlocks(s[i].dst)
      <4> SUFFICES ASSUME NEW i \in 1 .. n + 1
                   PROVE  /\ s[i] = NewPhi(s[i].dst, b)
                          /\ s[i].dst \in Defined(source) \ (rest \ {v})
                          /\ b \in PhiBlocks(s[i].dst)
          OBVIOUS
      <4>1. CASE i = 1
            BY <2>5, <3>2, <3>5, <4>1 DEF new
      <4>2. CASE i # 1
        <5>1. i \in 2 .. n + 1
              BY <2>2, <4>2
        <5> QED
            BY <2>2, <3>6, <5>1
      <4> QED
          BY <4>1, <4>2
    <3>8. \A i \in DOMAIN source.code[b] : s[i + (n + 1)] = source.code[b][i]
      <4> SUFFICES ASSUME NEW i \in 1 .. m PROVE s[i + (n + 1)] = source.code[b][i]
          BY <2>3
      <4>1. i + n \in 1 .. n + m /\ (i + n) + 1 = i + (n + 1)
            BY <2>2, <2>3
      <4>2. s[(i + n) + 1] = old[i + n]
            BY <3>2, <4>1
      <4> QED
          BY <2>2, <2>3, <4>1, <4>2
    <3>9. \A w \in Defined(source) \ (rest \ {v}) :
            b \in PhiBlocks(w) => \E i \in 1 .. n + 1 : s[i].dst = w
      <4> SUFFICES ASSUME NEW w \in Defined(source) \ (rest \ {v}), b \in PhiBlocks(w)
                   PROVE  \E i \in 1 .. n + 1 : s[i].dst = w
          OBVIOUS
      <4>1. CASE w = v
        <5>1. 1 \in 1 .. n + 1
              BY <2>2
        <5> QED
            BY <3>2, <3>5, <4>1, <5>1
      <4>2. CASE w # v
        <5>1. PICK i \in 1 .. n : old[i].dst = w
              BY <2>2, <4>2
        <5>2. i + 1 \in 1 .. n + 1 /\ i \in 1 .. n + m
              BY <2>2, <2>3
        <5> QED
            BY <3>2, <5>1, <5>2
      <4> QED
          BY <4>1, <4>2
    <3>10. \A i, j \in 1 .. n + 1 : s[i].dst = s[j].dst => i = j
      <4> SUFFICES ASSUME NEW i \in 1 .. n + 1, NEW j \in 1 .. n + 1, s[i].dst = s[j].dst PROVE i = j
          OBVIOUS
      <4>1. \A k \in 2 .. n + 1 : s[k].dst # v
            BY <2>2, <3>6
      <4>2. s[1].dst = v
            BY <3>2, <3>5
      <4>3. i = 1 \/ i \in 2 .. n + 1
            BY <2>2
      <4>4. j = 1 \/ j \in 2 .. n + 1
            BY <2>2
      <4>5. CASE i \in 2 .. n + 1 /\ j \in 2 .. n + 1
        <5>1. old[i - 1].dst = old[j - 1].dst /\ i - 1 \in 1 .. n /\ j - 1 \in 1 .. n
              BY <3>6, <4>5
        <5>2. i - 1 = j - 1
              BY <2>2, <5>1
        <5> QED
            BY <4>5, <5>2
      <4> QED
          BY <4>1, <4>2, <4>3, <4>4, <4>5
    <3>11. n + 1 \in Nat
           BY <2>2
    <3>12. PlacedBlock(s, n + 1, rest \ {v}, b)
           BY <3>4, <3>7, <3>8, <3>9, <3>10, <3>11 DEF PlacedBlock
    <3> QED
        BY <3>1, <3>3, <3>12
  <2> QED
      BY <2>4, <2>5
<1>5. h.code = [b \in B |-> h.code[b]] /\ h = Function(source.params, source.order, h.code, source.lastTemp)
  <2> HIDE DEF More
  <2> QED
      BY <1>2, <1>3
<1> QED
    BY <1>4, <1>5, ZenonT(40) DEF Placed


\* What a statement of the placed function is: a phi of one of the variables, or a statement
\* of the source.
PhiShape(s, b) ==
  /\ s = NewPhi(s.dst, b)
  /\ s.dst \in Defined(source)
  /\ b \in PhiBlocks(s.dst)
  /\ DOMAIN s.src = DOMAIN s.labels
  /\ \A k \in DOMAIN s.src : s.src[k] = Temp(s.dst)
  /\ \E n \in Nat : DOMAIN s.labels = 1 .. n
  /\ IsInjective(s.labels)
  /\ ToSet(s.labels) = flow.pred[b]

LEMMA NewPhiShape ==
  ASSUME Sound, NEW b \in Blocks(source), NEW v \in Defined(source), b \in PhiBlocks(v)
  PROVE  PhiShape(NewPhi(v, b), b) /\ NewPhi(v, b).dst = v /\ IsPhi(NewPhi(v, b))
           /\ NewPhi(v, b) = Stm(NewPhi(v, b).kind, NewPhi(v, b).dst, NewPhi(v, b).op, NewPhi(v, b).src,
                                 NewPhi(v, b).labels)
<1> DEFINE s == NewPhi(v, b)
           P == flow.pred[b]
           labels == Ascending(P)
<1>1. Flowing(source, flow) /\ WellFormed(source) /\ Blocks(source) \subseteq Nat
      BY DEF Sound, Flowing
<1>2. IsFiniteSet(P) /\ P \in SUBSET Int
  <2>1. IsFiniteSet(Blocks(source))
        BY <1>1, BlocksFinite
  <2>2. P = {a \in Blocks(source) : b \in Exits(source, a)}
        BY <1>1, FlowFacts
  <2>3. P \in SUBSET Blocks(source)
        BY <2>2
  <2> HIDE DEF P
  <2>4. IsFiniteSet(P)
        BY <2>1, <2>3, FS_Subset
  <2> QED
      BY <1>1, <2>3, <2>4
<1>3. /\ Cardinality(P) \in Nat
      /\ labels \in [1 .. Cardinality(P) -> P]
      /\ \A i \in P : \E k \in 1 .. Cardinality(P) : labels[k] = i
      /\ \A k, l \in 1 .. Cardinality(P) : k < l => labels[k] < labels[l]
  <2> HIDE DEF P
  <2> QED
      BY <1>2, AscendingFacts
<1>4. s = [kind |-> "PHI", dst |-> v, op |-> "", src |-> [i \in DOMAIN labels |-> Temp(v)], labels |-> labels]
      BY DEF NewPhi, Phi, Stm
<1> HIDE DEF s, labels, P
<1>5. s.kind = "PHI" /\ s.dst = v /\ s.op = "" /\ s.src = [i \in DOMAIN labels |-> Temp(v)] /\ s.labels = labels
      BY <1>4
<1>6. DOMAIN s.src = DOMAIN s.labels /\ \A k \in DOMAIN s.src : s.src[k] = Temp(s.dst)
      BY <1>5
<1>7. DOMAIN s.labels = 1 .. Cardinality(P)
      BY <1>3, <1>5
<1>8. IsInjective(s.labels)
  <2> SUFFICES ASSUME NEW k \in 1 .. Cardinality(P), NEW l \in 1 .. Cardinality(P), labels[k] = labels[l]
               PROVE  k = l
      BY <1>5, <1>7 DEF IsInjective
  <2>0. labels[k] \in P /\ labels[l] \in P
        BY <1>3
  <2>1. labels[k] \in Int /\ labels[l] \in Int /\ k \in Int /\ l \in Int
    <3>1. \A x \in P : x \in Int
          BY <1>2
    <3>2. k \in Int /\ l \in Int
          OBVIOUS
    <3> QED
        BY <2>0, <3>1, <3>2
  <2>2. ~ (k < l) /\ ~ (l < k)
        BY <1>3, <2>1
  <2> QED
      BY <2>1, <2>2
<1>9. ToSet(s.labels) = P
  <2>1. ToSet(labels) = {labels[k] : k \in 1 .. Cardinality(P)}
        BY <1>5, <1>7 DEF ToSet
  <2>2. {labels[k] : k \in 1 .. Cardinality(P)} \subseteq P
        BY <1>3
  <2>3. P \subseteq {labels[k] : k \in 1 .. Cardinality(P)}
        BY <1>3
  <2> QED
      BY <1>5, <2>1, <2>2, <2>3
<1>10. s = Stm(s.kind, s.dst, s.op, s.src, s.labels)
       BY <1>4, <1>5 DEF Stm
<1>11. s = NewPhi(s.dst, b) /\ IsPhi(s)
       BY <1>5 DEF s, IsPhi
<1>12. PhiShape(s, b)
       BY <1>3, <1>5, <1>6, <1>7, <1>8, <1>9, <1>11 DEF PhiShape, P
<1> QED
    BY <1>5, <1>10, <1>11, <1>12 DEF s

LEMMA PlacedShape ==
  ASSUME Sound, NEW g, Placed(g, {}), NEW b \in Blocks(source)
  PROVE  /\ Len(g.code[b]) \in Nat /\ DOMAIN g.code[b] = 1 .. Len(g.code[b])
         /\ PhiCount(g, b) \in Nat /\ Len(g.code[b]) = PhiCount(g, b) + Len(source.code[b])
         /\ \A i \in DOMAIN g.code[b] :
              /\ g.code[b][i] = Stm(g.code[b][i].kind, g.code[b][i].dst, g.code[b][i].op, g.code[b][i].src,
                                    g.code[b][i].labels)
              /\ IsPhi(g.code[b][i]) <=> i <= PhiCount(g, b)
              /\ IsPhi(g.code[b][i]) => PhiShape(g.code[b][i], b)
              /\ ~IsPhi(g.code[b][i]) => /\ i - PhiCount(g, b) \in DOMAIN source.code[b]
                                        /\ g.code[b][i] = source.code[b][i - PhiCount(g, b)]
         /\ \A i \in DOMAIN source.code[b] : /\ i + PhiCount(g, b) \in DOMAIN g.code[b]
                                             /\ g.code[b][i + PhiCount(g, b)] = source.code[b][i]
         /\ \A v \in Defined(source) : b \in PhiBlocks(v) =>
              \E i \in DOMAIN g.code[b] : i <= PhiCount(g, b) /\ g.code[b][i].dst = v
         /\ \A i, j \in DOMAIN g.code[b] :
              i <= PhiCount(g, b) /\ j <= PhiCount(g, b) /\ g.code[b][i].dst = g.code[b][j].dst => i = j
<1> DEFINE s == g.code[b]
           n == PhiCount(g, b)
           m == Len(source.code[b])
<1>1. PlacedBlock(s, n, {}, b)
      BY Zenon DEF Placed
<1>2. /\ s \in Seq(ToSet(s))
      /\ n \in Nat
      /\ \A i \in 1 .. n : /\ s[i] = NewPhi(s[i].dst, b)
                           /\ s[i].dst \in Defined(source) \ {}
                           /\ b \in PhiBlocks(s[i].dst)
      /\ \A i \in DOMAIN source.code[b] : s[i + n] = source.code[b][i]
      /\ \A v \in Defined(source) \ {} : b \in PhiBlocks(v) => \E i \in 1 .. n : s[i].dst = v
      /\ \A i, j \in 1 .. n : s[i].dst = s[j].dst => i = j
      BY <1>1 DEF PlacedBlock
<1>3. /\ m \in Nat /\ DOMAIN source.code[b] = 1 .. m
      /\ \A i \in DOMAIN source.code[b] :
           source.code[b][i] \in Statements(source) /\ ~IsPhi(source.code[b][i])
      BY SourceCode
<1>4. Len(s) = n + m /\ Len(s) \in Nat /\ DOMAIN s = 1 .. n + m
  <2>1. Len(s) \in Nat /\ DOMAIN s = 1 .. Len(s) /\ n = Len(s) - m
        BY <1>2 DEF PhiCount
  <2> QED
      BY <1>3, <2>1
<1>5. \A t \in Statements(source) : t = Stm(t.kind, t.dst, t.op, t.src, t.labels)
      BY DEF Sound
<1> HIDE DEF n, m, s
<1>6. ASSUME NEW i \in 1 .. n
      PROVE  i \in 1 .. n + m /\ IsPhi(s[i]) /\ PhiShape(s[i], b)
             /\ s[i] = Stm(s[i].kind, s[i].dst, s[i].op, s[i].src, s[i].labels)
  <2>1. i \in 1 .. n + m
        BY <1>2, <1>3
  <2> DEFINE v == s[i].dst
  <2>2. s[i] = NewPhi(v, b) /\ v \in Defined(source) /\ b \in PhiBlocks(v)
        BY <1>2
  <2> HIDE DEF v
  <2>3. PhiShape(NewPhi(v, b), b) /\ IsPhi(NewPhi(v, b))
           /\ NewPhi(v, b) = Stm(NewPhi(v, b).kind, NewPhi(v, b).dst, NewPhi(v, b).op, NewPhi(v, b).src,
                                 NewPhi(v, b).labels)
        BY <2>2, NewPhiShape
  <2> QED
      BY <2>1, <2>2, <2>3
<1>7. ASSUME NEW i \in 1 .. m
      PROVE  i + n \in 1 .. n + m /\ s[i + n] = source.code[b][i] /\ ~IsPhi(s[i + n])
             /\ s[i + n] = Stm(s[i + n].kind, s[i + n].dst, s[i + n].op, s[i + n].src, s[i + n].labels)
  <2>1. i + n \in 1 .. n + m
        BY <1>2, <1>3
  <2>2. s[i + n] = source.code[b][i]
        BY <1>2, <1>3
  <2> QED
      BY <1>3, <1>5, <2>1, <2>2
<1>8. \A i \in 1 .. n + m : i \in 1 .. n \/ (i - n \in 1 .. m /\ (i - n) + n = i /\ ~ (i <= n))
      BY <1>2, <1>3
<1>9. ASSUME NEW i \in 1 .. n + m
      PROVE  /\ s[i] = Stm(s[i].kind, s[i].dst, s[i].op, s[i].src, s[i].labels)
             /\ IsPhi(s[i]) <=> i <= n
             /\ IsPhi(s[i]) => PhiShape(s[i], b)
             /\ ~IsPhi(s[i]) => i - n \in 1 .. m /\ s[i] = source.code[b][i - n]
  <2>1. CASE i \in 1 .. n
    <3>1. i <= n
          BY <1>2, <2>1
    <3> QED
        BY <1>6, <2>1, <3>1
  <2>2. CASE i - n \in 1 .. m /\ (i - n) + n = i /\ ~ (i <= n)
    <3> DEFINE j == i - n
    <3>1. j \in 1 .. m /\ j + n = i
          BY <2>2
    <3> HIDE DEF j
    <3>2. s[j + n] = source.code[b][j] /\ ~IsPhi(s[j + n])
             /\ s[j + n] = Stm(s[j + n].kind, s[j + n].dst, s[j + n].op, s[j + n].src, s[j + n].labels)
          BY <1>7, <3>1
    <3> QED
        BY <2>2, <3>1, <3>2 DEF j
  <2> QED
      BY <1>8, <2>1, <2>2
<1>10. \A v \in Defined(source) : b \in PhiBlocks(v) => \E i \in 1 .. n + m : i <= n /\ s[i].dst = v
  <2>1. \A i \in 1 .. n : i \in 1 .. n + m /\ i <= n
        BY <1>2, <1>3
  <2> QED
      BY <1>2, <2>1
<1>11. \A i, j \in 1 .. n + m : i <= n /\ j <= n /\ s[i].dst = s[j].dst => i = j
  <2>1. \A i \in 1 .. n + m : i <= n => i \in 1 .. n
        BY <1>2, <1>3
  <2> QED
      BY <1>2, <2>1
<1> QED
    BY <1>2, <1>3, <1>4, <1>7, <1>9, <1>10, <1>11, Zenon DEF s, n, m


-----------------------------------------------------------------------------
\* Statement j of block d of the placed function defines v; it comes before statement i of
\* block b on every way there; of those that do it is the nearest.
DefinesAt(g, v, d, j) == d \in Blocks(source) /\ j \in DOMAIN g.code[d] /\ g.code[d][j].dst = v

Ahead(d, j, b, i) == d \in flow.dom[b] /\ (d # b \/ j < i)

Nearest(g, v, d, j, b, i) ==
  /\ DefinesAt(g, v, d, j)
  /\ Ahead(d, j, b, i)
  /\ \A e \in Blocks(source) : \A k \in DOMAIN g.code[e] :
       DefinesAt(g, v, e, k) /\ Ahead(e, k, b, i) => (e = d /\ k = j) \/ Ahead(e, k, d, j)

\* Where source k of statement i of block b is read: a phi's behind its predecessor.
ReadBlock(g, b, i, k) == IF IsPhi(g.code[b][i]) THEN g.code[b][i].labels[k] ELSE b
ReadIndex(g, b, i, k) ==
  IF IsPhi(g.code[b][i]) THEN Len(g.code[g.code[b][i].labels[k]]) + 1 ELSE i

ReadsAt(g, v, b, i, k) ==
  /\ b \in Blocks(source)
  /\ i \in DOMAIN g.code[b]
  /\ k \in DOMAIN g.code[b][i].src
  /\ IsTemp(g.code[b][i].src[k])
  /\ g.code[b][i].src[k].temp = v

LEMMA DefinitionPlaced ==
  ASSUME Sound, NEW g, Placed(g, {}), NEW v \in Defined(source), NEW d \in DefBlocks(v) \cup PhiBlocks(v)
  PROVE  d \in Blocks(source) /\ \E j \in DOMAIN g.code[d] : DefinesAt(g, v, d, j)
<1>1. d \in Blocks(source)
  <2>1. PhiBlocks(v) \subseteq Blocks(source)
        BY PhiLimit
  <2>2. DefBlocks(v) \subseteq Blocks(source)
        BY DEF DefBlocks
  <2> QED
      BY <2>1, <2>2
<1>2. CASE d \in PhiBlocks(v)
  <2>1. \E j \in DOMAIN g.code[d] : j <= PhiCount(g, d) /\ g.code[d][j].dst = v
        BY <1>1, <1>2, PlacedShape
  <2> QED
      BY <1>1, <2>1 DEF DefinesAt
<1>3. CASE d \in DefBlocks(v)
  <2>1. PICK i \in DOMAIN source.code[d] : source.code[d][i].dst = v
        BY <1>3 DEF DefBlocks, ToSet
  <2>2. i + PhiCount(g, d) \in DOMAIN g.code[d] /\ g.code[d][i + PhiCount(g, d)] = source.code[d][i]
        BY <1>1, PlacedShape
  <2> QED
      BY <1>1, <2>1, <2>2 DEF DefinesAt
<1> QED
    BY <1>2, <1>3

LEMMA PlacedDefines ==
  ASSUME Sound, NEW g, Placed(g, {}), NEW v \in Defined(source), NEW d, NEW j, DefinesAt(g, v, d, j)
  PROVE  /\ d \in DefBlocks(v) \cup PhiBlocks(v)
         /\ j <= PhiCount(g, d) => d \in PhiBlocks(v)
         /\ j > PhiCount(g, d) => ~Transparent(source, d, v)
<1>1. d \in Blocks(source) /\ j \in DOMAIN g.code[d] /\ g.code[d][j].dst = v
      BY DEF DefinesAt
<1>2. /\ IsPhi(g.code[d][j]) <=> j <= PhiCount(g, d)
      /\ IsPhi(g.code[d][j]) => PhiShape(g.code[d][j], d)
      /\ ~IsPhi(g.code[d][j]) => /\ j - PhiCount(g, d) \in DOMAIN source.code[d]
                                /\ g.code[d][j] = source.code[d][j - PhiCount(g, d)]
      BY <1>1, PlacedShape
<1>3. v # NoTemp
      BY DEF Defined, Defs
<1>4. CASE j <= PhiCount(g, d)
  <2>1. d \in PhiBlocks(v)
        BY <1>1, <1>2, <1>4 DEF PhiShape
  <2>2. ~ (j > PhiCount(g, d))
    <3>1. PhiCount(g, d) \in Nat /\ j \in Int
          BY <1>1, PlacedShape
    <3> QED
        BY <1>4, <3>1
  <2> QED
      BY <2>1, <2>2
<1>5. CASE ~ (j <= PhiCount(g, d))
  <2> DEFINE i == j - PhiCount(g, d)
  <2>1. i \in DOMAIN source.code[d] /\ source.code[d][i].dst = v
        BY <1>1, <1>2, <1>5
  <2> HIDE DEF i
  <2>2. d \in DefBlocks(v)
        BY <1>1, <2>1 DEF DefBlocks, ToSet
  <2>3. ~Transparent(source, d, v)
        BY <1>3, <2>1 DEF Transparent, Defs
  <2> QED
      BY <1>5, <2>2, <2>3
<1> QED
    BY <1>4, <1>5

\* Whatever is read, parameters aside, was defined before on every way.
LEMMA ReadDefined ==
  ASSUME Sound, NEW g, Placed(g, {}), NEW v, NEW b, NEW i, NEW k, ReadsAt(g, v, b, i, k)
  PROVE  /\ ReadBlock(g, b, i, k) \in Blocks(source)
         /\ IsPhi(g.code[b][i]) => b \in flow.succ[ReadBlock(g, b, i, k)] /\ g.code[b][i].dst = v
         /\ v \notin Params(source) =>
              /\ v \in Defined(source)
              /\ \E d \in Blocks(source) : \E j \in DOMAIN g.code[d] :
                   DefinesAt(g, v, d, j) /\ Ahead(d, j, ReadBlock(g, b, i, k), ReadIndex(g, b, i, k))
<1> DEFINE s == g.code[b][i]
           n == PhiCount(g, b)
           r == ReadBlock(g, b, i, k)
           at == ReadIndex(g, b, i, k)
<1>1. b \in Blocks(source) /\ i \in DOMAIN g.code[b] /\ k \in DOMAIN s.src /\ IsTemp(s.src[k])
        /\ s.src[k].temp = v
      BY DEF ReadsAt
<1>2. /\ n \in Nat /\ i \in Nat
      /\ IsPhi(s) => PhiShape(s, b)
      /\ ~IsPhi(s) => i - n \in DOMAIN source.code[b] /\ s = source.code[b][i - n]
      /\ IsPhi(s) <=> i <= n
      BY <1>1, PlacedShape
<1>3. Flowing(source, flow) /\ WellFormed(source)
      BY DEF Sound, Flowing
<1>4. CASE IsPhi(s)
  <2>1. PhiShape(s, b)
        BY <1>2, <1>4
  <2>2. v \in Defined(source) /\ b \in PhiBlocks(v) /\ s.dst = v
    <3>1. s.src[k] = Temp(s.dst)
          BY <1>1, <2>1 DEF PhiShape
    <3>2. v = s.dst
          BY <1>1, <3>1 DEF Temp
    <3> QED
        BY <2>1, <3>2 DEF PhiShape
  <2>3. r = s.labels[k] /\ at = Len(g.code[r]) + 1
        BY <1>4 DEF ReadBlock, ReadIndex
  <2>4. r \in flow.pred[b]
    <3>1. s.labels[k] \in ToSet(s.labels)
          BY <1>1, <2>1 DEF PhiShape, ToSet
    <3> QED
        BY <2>1, <2>3, <3>1 DEF PhiShape
  <2> HIDE DEF r, at
  <2>5. r \in Blocks(source) /\ b \in flow.succ[r]
    <3>1. r \in Blocks(source) /\ b \in Exits(source, r)
          BY <1>1, <1>3, <2>4, FlowFacts
    <3> QED
        BY <1>3, <3>1, FlowFacts
  <2>6. v \in flow.liveIn[b]
        BY <2>2, PhiLimit
  <2>7. ASSUME v \notin Params(source)
        PROVE  \E d \in Blocks(source) : \E j \in DOMAIN g.code[d] : DefinesAt(g, v, d, j) /\ Ahead(d, j, r, at)
    <3>1. PICK d \in DefBlocks(v) \cup PhiBlocks(v) : d \in flow.dom[r]
          BY <2>5, <2>6, <2>7, LiveDefined
    <3>2. d \in Blocks(source) /\ \E j \in DOMAIN g.code[d] : DefinesAt(g, v, d, j)
          BY <2>2, DefinitionPlaced
    <3>3. PICK j \in DOMAIN g.code[d] : DefinesAt(g, v, d, j)
          BY <3>2
    <3>4. d = r => j < at
      <4> SUFFICES ASSUME d = r PROVE j < at
          OBVIOUS
      <4>1. Len(g.code[r]) \in Nat /\ DOMAIN g.code[r] = 1 .. Len(g.code[r])
            BY <2>5, PlacedShape
      <4> QED
          BY <2>3, <4>1
    <3> QED
        BY <3>1, <3>2, <3>3, <3>4 DEF Ahead
  <2> QED
      BY <2>2, <2>5, <2>7 DEF r, at
<1>5. CASE ~IsPhi(s)
  <2>1. r = b /\ at = i
        BY <1>5 DEF ReadBlock, ReadIndex
  <2> DEFINE p == i - n
  <2>2. p \in DOMAIN source.code[b] /\ s = source.code[b][p] /\ p + n = i
        BY <1>2, <1>5
  <2>3. v \in Uses(source.code[b][p])
    <3>1. s.src[k] \in ToSet(s.src)
          BY <1>1 DEF ToSet
    <3> QED
        BY <1>1, <2>2, <3>1 DEF Uses
  <2> HIDE DEF p, r, at
  <2>4. ASSUME v \notin Params(source)
        PROVE  /\ v \in Defined(source)
               /\ \E d \in Blocks(source) : \E j \in DOMAIN g.code[d] : DefinesAt(g, v, d, j) /\ Ahead(d, j, b, i)
    <3>1. CASE \E q \in 1 .. p - 1 : v \in Defs(source.code[b][q])
      <4>1. PICK q \in 1 .. p - 1 : v \in Defs(source.code[b][q])
            BY <3>1
      <4>2. q \in DOMAIN source.code[b] /\ q + n < i
        <5>1. DOMAIN source.code[b] = 1 .. Len(source.code[b]) /\ Len(source.code[b]) \in Nat
              BY <1>1, SourceCode
        <5> QED
            BY <1>2, <2>2, <5>1
      <4>3. q + n \in DOMAIN g.code[b] /\ g.code[b][q + n] = source.code[b][q]
            BY <1>1, <4>2, PlacedShape
      <4>4. source.code[b][q] \in Statements(source)
            BY <1>1, <4>2, SourceCode
      <4>5. v \in Defined(source) /\ source.code[b][q].dst = v
            BY <4>1, <4>4 DEF Defined, Defs
      <4>6. b \in flow.dom[b]
            BY <1>1, <1>3, FlowFacts
      <4> QED
          BY <1>1, <4>2, <4>3, <4>5, <4>6 DEF DefinesAt, Ahead
    <3>2. CASE ~ \E q \in 1 .. p - 1 : v \in Defs(source.code[b][q])
      <4>1. v \in flow.liveIn[b]
            BY <1>1, <2>2, <2>3, <3>2, LiveFacts
      <4>2. v \in Defined(source)
            BY <1>1, <2>4, <4>1, LiveDefined
      <4>3. PICK d \in DefBlocks(v) \cup PhiBlocks(v) : d \in flow.dom[b] /\ (d = b => b \in PhiBlocks(v))
            BY <1>1, <2>4, <4>1, LiveDefined
      <4>4. CASE d # b
        <5>1. d \in Blocks(source) /\ \E j \in DOMAIN g.code[d] : DefinesAt(g, v, d, j)
              BY <4>2, DefinitionPlaced
        <5> QED
            BY <4>2, <4>3, <4>4, <5>1 DEF Ahead
      <4>5. CASE d = b
        <5>1. PICK j \in DOMAIN g.code[b] : j <= n /\ g.code[b][j].dst = v
              BY <1>1, <4>2, <4>3, <4>5, PlacedShape
        <5>2. j < i
          <6>1. j \in Int
                BY <1>1, PlacedShape
          <6> QED
              BY <1>2, <1>5, <5>1, <6>1
        <5> QED
            BY <1>1, <4>2, <4>3, <4>5, <5>1, <5>2 DEF Ahead, DefinesAt
      <4> QED
          BY <4>4, <4>5
    <3> QED
        BY <3>1, <3>2
  <2> QED
      BY <1>1, <1>5, <2>1, <2>4 DEF r, at
<1> QED
    BY <1>4, <1>5


-----------------------------------------------------------------------------
\* The versions in scope and the next number, statement by statement.
Scopes == [stacks : [Renamed(source) -> Seq(Nat)], next : Nat]

FollowsVersions(w, acc, code) ==
  w = [i \in 0 .. Len(code) |-> IF i = 0 THEN acc ELSE PushVersion(w[i - 1], code[i])]

LEMMA VersionsDefined ==
  ASSUME NEW acc \in Scopes, NEW code, Len(code) \in Nat
  PROVE  /\ Versions(acc, code) \in [0 .. Len(code) -> Scopes]
         /\ Versions(acc, code)[0] = acc
         /\ \A i \in 1 .. Len(code) : Versions(acc, code)[i] = PushVersion(Versions(acc, code)[i - 1], code[i])
<1> DEFINE N == Len(code)
           S == 0 .. N
           V == Scopes
           rank == [n \in S |-> n]
           stop == {0}
           base == [n \in S |-> acc]
           next == [n \in S |-> IF n = 0 THEN 0 ELSE n - 1]
           step == [n \in S |-> [a \in V |-> IF n = 0 THEN a ELSE PushVersion(a, code[n])]]
<1>1. ASSUME NEW a \in Scopes, NEW s PROVE PushVersion(a, s) \in Scopes
  <2> DEFINE new == [stacks |-> [a.stacks EXCEPT ![s.dst] = Append(@, a.next)], next |-> a.next + 1]
  <2>1. a.stacks \in [Renamed(source) -> Seq(Nat)] /\ a.next \in Nat
        BY DEF Scopes
  <2>2. CASE s.dst \in DOMAIN a.stacks
    <3>1. PushVersion(a, s) = new
          BY <2>2 DEF PushVersion
    <3>2. Append(a.stacks[s.dst], a.next) \in Seq(Nat)
          BY <2>1, <2>2
    <3>3. new.stacks \in [Renamed(source) -> Seq(Nat)] /\ new.next \in Nat
      <4> DEFINE old == a.stacks
                 more == Append(a.stacks[s.dst], a.next)
      <4>1. new.stacks = [old EXCEPT ![s.dst] = more] /\ new.next = a.next + 1
            OBVIOUS
      <4>2. old \in [Renamed(source) -> Seq(Nat)] /\ more \in Seq(Nat)
            BY <2>1, <3>2
      <4> HIDE DEF new, old, more
      <4>3. [old EXCEPT ![s.dst] = more] \in [Renamed(source) -> Seq(Nat)]
        <5> DEFINE S1 == Seq(Nat)
                   D1 == Renamed(source)
        <5>1. old \in [D1 -> S1] /\ more \in S1
              BY <4>2
        <5> HIDE DEF S1, D1
        <5>2. [old EXCEPT ![s.dst] = more] \in [D1 -> S1]
              BY <5>1
        <5> QED
            BY <5>2 DEF S1, D1
      <4>4. new.next \in Nat
            BY <2>1, <4>1
      <4> QED
          BY <4>1, <4>3, <4>4
    <3>4. new \in Scopes
          BY <3>3 DEF Scopes
    <3> QED
        BY <3>1, <3>4
  <2>3. CASE s.dst \notin DOMAIN a.stacks
        BY <2>3 DEF PushVersion
  <2> QED
      BY <2>2, <2>3
<1>2. N \in Nat
      OBVIOUS
<1> HIDE DEF N
<1>3. rank \in [S -> 0 .. N] /\ base \in [S -> V] /\ next \in [S -> S] /\ stop \in SUBSET S
        /\ \A x \in S \ stop : rank[next[x]] < rank[x]
      BY <1>2
<1>4. step \in [S -> [V -> V]]
      BY <1>1
<1>5. Descends(S, V, N, rank, stop, base, next, step)
      BY <1>2, <1>3, <1>4 DEF Descends
<1>6. PICK w \in [S -> V] : \A x \in S : w[x] = IF x \in stop THEN base[x] ELSE step[x][w[next[x]]]
  <2> HIDE DEF S, V, rank, base, next, step, stop
  <2> QED
      BY <1>5, Recursion
<1>7. \A n \in S : w[n] = IF n = 0 THEN acc ELSE PushVersion(w[n - 1], code[n])
  <2> SUFFICES ASSUME NEW n \in S PROVE w[n] = IF n = 0 THEN acc ELSE PushVersion(w[n - 1], code[n])
      OBVIOUS
  <2>1. CASE n = 0
        BY <1>6, <2>1
  <2>2. CASE n # 0
    <3>1. n - 1 \in S /\ next[n] = n - 1
          BY <1>2, <2>2
    <3>2. w[n] = step[n][w[n - 1]] /\ w[n - 1] \in V
          BY <1>6, <2>2, <3>1
    <3> QED
        BY <2>2, <3>2
  <2> QED
      BY <2>1, <2>2
<1>8. FollowsVersions(w, acc, code)
      BY <1>7 DEF FollowsVersions, N
<1> DEFINE u == CHOOSE x : FollowsVersions(x, acc, code)
<1>9. FollowsVersions(u, acc, code)
      BY <1>8
<1>10. Versions(acc, code) = u
       BY DEF Versions, FollowsVersions
<1> HIDE DEF u
<1> DEFINE From(n) == IF n = 0 THEN acc ELSE PushVersion(u[n - 1], code[n])
<1>11. u = [n \in S |-> From(n)]
       BY <1>9 DEF FollowsVersions, N
<1> HIDE DEF From, S
<1>12. \A n \in S : u[n] = From(n)
       BY <1>11
<1>13. u[0] = acc
  <2>1. 0 \in S
        BY <1>2 DEF S
  <2> QED
      BY <1>12, <2>1 DEF From
<1>14. ASSUME NEW n \in 1 .. N PROVE u[n] = PushVersion(u[n - 1], code[n])
  <2>1. n \in S /\ n # 0
        BY <1>2 DEF S
  <2> QED
      BY <1>12, <2>1 DEF From
<1>15. \A n \in S : u[n] \in Scopes
  <2> DEFINE T == {n \in S : u[n] \notin Scopes}
  <2>1. ASSUME T # {} PROVE FALSE
    <3>1. T \in SUBSET Nat
          BY <1>2 DEF S
    <3>2. PICK m \in T : \A k \in T : m <= k
      <4> HIDE DEF T
      <4> QED
          BY <2>1, <3>1, LeastElement
    <3>3. m # 0 /\ m \in S
          BY <1>13
    <3>4. m \in 1 .. N /\ m - 1 \in S /\ ~ (m <= m - 1)
          BY <1>2, <3>3 DEF S
    <3>5. u[m - 1] \in Scopes
          BY <3>2, <3>4
    <3>6. u[m] \in Scopes
          BY <1>1, <1>14, <3>4, <3>5
    <3> QED
        BY <3>6
  <2> QED
      BY <2>1
<1>16. u \in [S -> Scopes]
       BY <1>11, <1>12, <1>15
<1> QED
    BY <1>10, <1>13, <1>14, <1>16 DEF S, N

Numbers(next) == source.lastTemp + 1 .. next - 1

\* A definition is given a number that none before it has, and every number in scope was given.
Rising(w, code) ==
  /\ \A j \in 0 .. Len(code) : \A i \in 0 .. j : w[i].next <= w[j].next
  /\ \A j \in 0 .. Len(code) : w[j].stacks \in [Renamed(source) -> Seq(Numbers(w[j].next))]
  /\ \A j \in 1 .. Len(code) : code[j].dst \in Renamed(source) =>
       /\ w[j].next = w[j - 1].next + 1
       /\ w[j].stacks = [w[j - 1].stacks EXCEPT ![code[j].dst] = Append(@, w[j - 1].next)]
  /\ \A j \in 1 .. Len(code) : code[j].dst \notin Renamed(source) => w[j] = w[j - 1]

LEMMA VersionsRise ==
  ASSUME source.lastTemp \in Nat, NEW acc \in Scopes, NEW code, Len(code) \in Nat,
         source.lastTemp < acc.next, acc.stacks \in [Renamed(source) -> Seq(Numbers(acc.next))],
         NEW w, w = Versions(acc, code)
  PROVE  Rising(w, code)
<1> DEFINE N == Len(code)
           R == Renamed(source)
           last == source.lastTemp
           Typed(j) == w[j].stacks \in [R -> Seq(Numbers(w[j].next))]
           Risen(j) == \A i \in 0 .. j : w[i].next <= w[j].next
           T == {j \in 0 .. N : ~Typed(j) \/ ~Risen(j)}
<1>1. /\ w \in [0 .. N -> Scopes] /\ w[0] = acc
      /\ \A i \in 1 .. N : w[i] = PushVersion(w[i - 1], code[i])
      BY VersionsDefined
<1>2. N \in Nat /\ last \in Nat
      OBVIOUS
<1> HIDE DEF N, last
<1>3. \A i \in 0 .. N : w[i].next \in Nat /\ w[i].stacks \in [R -> Seq(Nat)]
      BY <1>1 DEF Scopes
<1>4. ASSUME NEW j \in 1 .. N, code[j].dst \in R
      PROVE  /\ w[j].next = w[j - 1].next + 1
             /\ w[j].stacks = [w[j - 1].stacks EXCEPT ![code[j].dst] = Append(@, w[j - 1].next)]
  <2>1. j - 1 \in 0 .. N
        BY <1>2
  <2>2. DOMAIN w[j - 1].stacks = R
        BY <1>3, <2>1
  <2> DEFINE old == w[j - 1]
  <2>3. w[j] = PushVersion(old, code[j]) /\ code[j].dst \in DOMAIN old.stacks
        BY <1>1, <1>4, <2>2
  <2> HIDE DEF old
  <2>4. w[j] = [stacks |-> [old.stacks EXCEPT ![code[j].dst] = Append(@, old.next)], next |-> old.next + 1]
        BY <2>3 DEF PushVersion
  <2> QED
      BY <2>4 DEF old
<1>5. ASSUME NEW j \in 1 .. N, code[j].dst \notin R PROVE w[j] = w[j - 1]
  <2>1. j - 1 \in 0 .. N
        BY <1>2
  <2>2. DOMAIN w[j - 1].stacks = R
        BY <1>3, <2>1
  <2> QED
      BY <1>1, <1>5, <2>2 DEF PushVersion
<1>6. ASSUME T # {} PROVE FALSE
  <2>1. T \in SUBSET Nat
        BY <1>2
  <2>2. PICK m \in T : \A k \in T : m <= k
    <3> HIDE DEF T
    <3> QED
        BY <1>6, <2>1, LeastElement
  <2>3. m \in 0 .. N /\ (~Typed(m) \/ ~Risen(m))
        OBVIOUS
  <2>4. CASE m = 0
    <3>1. w[0].next <= w[0].next
          BY <1>2, <1>3
    <3>2. 0 .. 0 = {0}
          OBVIOUS
    <3> QED
        BY <1>1, <2>3, <2>4, <3>1, <3>2
  <2>5. CASE m # 0
    <3>1. m \in 1 .. N /\ m - 1 \in 0 .. N /\ ~ (m <= m - 1)
          BY <1>2, <2>3, <2>5
    <3>2. Typed(m - 1) /\ Risen(m - 1)
          BY <2>2, <3>1
    <3> DEFINE before == w[m - 1].next
    <3>3. before \in Nat /\ w[m].next \in Nat
          BY <1>3, <3>1, <2>3
    <3>4. before <= w[m].next
      <4>1. CASE code[m].dst \in R
        <5>1. w[m].next = before + 1
              BY <1>4, <3>1, <4>1
        <5> HIDE DEF before
        <5> QED
            BY <3>3, <5>1
      <4>2. CASE code[m].dst \notin R
        <5>1. w[m].next = before
              BY <1>5, <3>1, <4>2
        <5> HIDE DEF before
        <5> QED
            BY <3>3, <5>1
      <4> QED
          BY <4>1, <4>2
    <3>5. Risen(m)
      <4> SUFFICES ASSUME NEW i \in 0 .. m PROVE w[i].next <= w[m].next
          OBVIOUS
      <4>1. i = m \/ i \in 0 .. m - 1
            BY <2>3
      <4>2. w[m].next <= w[m].next
            BY <3>3
      <4>3. CASE i \in 0 .. m - 1
        <5>1. w[i].next <= before
              BY <3>2, <4>3
        <5>3. i \in 0 .. N
              BY <1>2, <2>3
        <5>2. w[i].next \in Nat
              BY <1>3, <5>3
        <5> HIDE DEF before
        <5> QED
            BY <3>3, <3>4, <5>1, <5>2
      <4> QED
          BY <4>1, <4>2, <4>3
    <3>6. Typed(m)
      <4>1. CASE code[m].dst \notin R
            BY <1>5, <3>1, <3>2, <4>1
      <4>2. CASE code[m].dst \in R
        <5> DEFINE v == code[m].dst
                   old == w[m - 1].stacks
        <5>1. w[m].next = before + 1 /\ w[m].stacks = [old EXCEPT ![v] = Append(@, before)]
              BY <1>4, <3>1, <4>2
        <5>2. old \in [R -> Seq(Numbers(before))] /\ v \in R
              BY <3>2, <4>2
        <5>3. last < before
          <6>1. 0 \in 0 .. m - 1 /\ w[0].next <= before /\ w[0].next \in Nat
                BY <1>2, <1>3, <2>3, <2>5, <3>2
          <6>2. last < w[0].next
                BY <1>1 DEF last
          <6> QED
              BY <1>2, <3>3, <6>1, <6>2
        <5>4. Numbers(before) \subseteq Numbers(before + 1) /\ before \in Numbers(before + 1)
          <6>1. Numbers(before) = last + 1 .. before - 1 /\ Numbers(before + 1) = last + 1 .. (before + 1) - 1
                BY DEF Numbers, last
          <6> HIDE DEF before
          <6> QED
              BY <1>2, <3>3, <5>3, <6>1
        <5> HIDE DEF before, old, v
        <5>5. old \in [R -> Seq(Numbers(before + 1))]
          <6>1. Seq(Numbers(before)) \subseteq Seq(Numbers(before + 1))
                BY <5>4
          <6> QED
              BY <5>2, <6>1
        <5>6. Append(old[v], before) \in Seq(Numbers(before + 1))
              BY <5>2, <5>4, <5>5
        <5>7. [old EXCEPT ![v] = Append(@, before)] \in [R -> Seq(Numbers(before + 1))]
              BY <5>2, <5>5, <5>6
        <5> QED
            BY <5>1, <5>7
      <4> QED
          BY <4>1, <4>2
    <3> QED
        BY <2>3, <3>5, <3>6
  <2> QED
      BY <2>4, <2>5
<1>7. \A j \in 0 .. N : Typed(j) /\ Risen(j)
      BY <1>6
<1> QED
    BY <1>4, <1>5, <1>7 DEF N, Rising


-----------------------------------------------------------------------------
\* The versions in scope in front of statement i of block b: on top of the stack of each
\* variable that has a definition before is the version of the nearest one.
Holds(st, g, code, b, i) ==
  \A v \in Renamed(source) :
    (\E d \in Blocks(source) : \E j \in DOMAIN g.code[d] : DefinesAt(g, v, d, j) /\ Ahead(d, j, b, i)) =>
      \E d \in Blocks(source) : \E j \in DOMAIN g.code[d] :
        Nearest(g, v, d, j, b, i) /\ st[v] # <<>> /\ Last(st[v]) = code[d][j].dst

LEMMA HoldsSame ==
  ASSUME NEW st, NEW g, NEW code, NEW new, NEW b, NEW i, Holds(st, g, code, b, i),
         \A d \in Blocks(source) : \A j \in DOMAIN g.code[d] : Ahead(d, j, b, i) => new[d][j].dst = code[d][j].dst
  PROVE  Holds(st, g, new, b, i)
<1> SUFFICES ASSUME NEW v \in Renamed(source),
                    \E d \in Blocks(source) : \E j \in DOMAIN g.code[d] : DefinesAt(g, v, d, j) /\ Ahead(d, j, b, i)
             PROVE  \E d \in Blocks(source) : \E j \in DOMAIN g.code[d] :
                      Nearest(g, v, d, j, b, i) /\ st[v] # <<>> /\ Last(st[v]) = new[d][j].dst
    BY DEF Holds
<1>1. PICK d \in Blocks(source) : \E j \in DOMAIN g.code[d] :
        Nearest(g, v, d, j, b, i) /\ st[v] # <<>> /\ Last(st[v]) = code[d][j].dst
      BY DEF Holds
<1>2. PICK j \in DOMAIN g.code[d] : Nearest(g, v, d, j, b, i) /\ st[v] # <<>> /\ Last(st[v]) = code[d][j].dst
      BY <1>1
<1>3. Ahead(d, j, b, i)
      BY <1>2 DEF Nearest
<1> QED
    BY <1>2, <1>3

\* From the end of a block into one of its children in the tree.
LEMMA HoldsDown ==
  ASSUME Sound, NEW g, Placed(g, {}), NEW p \in Blocks(source), NEW b \in Children(flow, p),
         NEW st, NEW code, Holds(st, g, code, p, Len(g.code[p]) + 1)
  PROVE  Holds(st, g, code, b, 1)
<1>1. Flowing(source, flow)
      BY DEF Sound
<1>2. b \in Blocks(source) /\ p # b /\ p \in flow.dom[b] /\ flow.dom[b] \ {b} \subseteq flow.dom[p]
  <2>1. DOMAIN flow.dom = Blocks(source)
        BY <1>1, FlowFacts
  <2> QED
      BY <2>1 DEF Children
<1>3. b \notin flow.dom[p] /\ flow.dom[p] \subseteq flow.dom[b]
      BY <1>1, <1>2, DominanceOrder
<1>4. \A d \in Blocks(source) : DOMAIN g.code[d] = 1 .. Len(g.code[d]) /\ Len(g.code[d]) \in Nat
      BY PlacedShape
<1>5. ASSUME NEW d \in Blocks(source), NEW j \in DOMAIN g.code[d]
      PROVE  Ahead(d, j, b, 1) <=> Ahead(d, j, p, Len(g.code[p]) + 1)
  <2>1. j \in Nat /\ ~ (j < 1) /\ (d = p => j < Len(g.code[p]) + 1)
        BY <1>4
  <2>2. Ahead(d, j, b, 1) <=> d \in flow.dom[b] /\ d # b
        BY <2>1 DEF Ahead
  <2>3. Ahead(d, j, p, Len(g.code[p]) + 1) <=> d \in flow.dom[p]
        BY <2>1 DEF Ahead
  <2> QED
      BY <1>2, <1>3, <2>2, <2>3
<1>6. ASSUME NEW v, NEW d \in Blocks(source), NEW j \in DOMAIN g.code[d], Nearest(g, v, d, j, p, Len(g.code[p]) + 1)
      PROVE  Nearest(g, v, d, j, b, 1)
      BY <1>5, <1>6 DEF Nearest
<1> SUFFICES ASSUME NEW v \in Renamed(source),
                    \E d \in Blocks(source) : \E j \in DOMAIN g.code[d] : DefinesAt(g, v, d, j) /\ Ahead(d, j, b, 1)
             PROVE  \E d \in Blocks(source) : \E j \in DOMAIN g.code[d] :
                      Nearest(g, v, d, j, b, 1) /\ st[v] # <<>> /\ Last(st[v]) = code[d][j].dst
    BY DEF Holds
<1>7. \E d \in Blocks(source) : \E j \in DOMAIN g.code[d] :
        DefinesAt(g, v, d, j) /\ Ahead(d, j, p, Len(g.code[p]) + 1)
      BY <1>5
<1>8. PICK d \in Blocks(source) : \E j \in DOMAIN g.code[d] :
        Nearest(g, v, d, j, p, Len(g.code[p]) + 1) /\ st[v] # <<>> /\ Last(st[v]) = code[d][j].dst
      BY <1>7 DEF Holds
<1> QED
    BY <1>6, <1>8

LEMMA HoldsAtEntry ==
  ASSUME Sound, NEW g, Placed(g, {}), NEW st, NEW code
  PROVE  Holds(st, g, code, Entry(source), 1)
<1>1. flow.dom[Entry(source)] = {Entry(source)}
  <2>1. Flowing(source, flow)
        BY DEF Sound
  <2> QED
      BY <2>1, DominanceOrder
<1>2. ASSUME NEW d \in Blocks(source), NEW j \in DOMAIN g.code[d], Ahead(d, j, Entry(source), 1) PROVE FALSE
  <2>1. j \in Nat /\ j >= 1
        BY PlacedShape
  <2> QED
      BY <1>1, <1>2, <2>1 DEF Ahead
<1> QED
    BY <1>2 DEF Holds

LEMMA Pushed ==
  ASSUME NEW top \in Seq(Nat), NEW n \in Nat
  PROVE  Append(top, n) # <<>> /\ Last(Append(top, n)) = n
<1>1. Append(top, n) # <<>> /\ Len(Append(top, n)) = Len(top) + 1 /\ Append(top, n)[Len(top) + 1] = n
      OBVIOUS
<1> QED
    BY <1>1 DEF Last

\* Down the statements of a block.
StacksGrow(g, b, code, w) ==
  /\ \A i \in 0 .. Len(g.code[b]) : w[i].stacks \in [Renamed(source) -> Seq(Nat)] /\ w[i].next \in Nat
  /\ \A j \in 1 .. Len(g.code[b]) : g.code[b][j].dst \in Renamed(source) =>
       /\ w[j].stacks = [w[j - 1].stacks EXCEPT ![g.code[b][j].dst] = Append(@, w[j - 1].next)]
       /\ code[b][j].dst = w[j - 1].next
  /\ \A j \in 1 .. Len(g.code[b]) : g.code[b][j].dst \notin Renamed(source) => w[j] = w[j - 1]

LEMMA HoldsOnward ==
  ASSUME Sound, NEW g, Placed(g, {}), NEW b \in Blocks(source), NEW code, NEW w,
         StacksGrow(g, b, code, w), Holds(w[0].stacks, g, code, b, 1)
  PROVE  \A i \in 0 .. Len(g.code[b]) : Holds(w[i].stacks, g, code, b, i + 1)
<1> DEFINE N == Len(g.code[b])
           T == {i \in 0 .. N : ~Holds(w[i].stacks, g, code, b, i + 1)}
<1>1. N \in Nat /\ DOMAIN g.code[b] = 1 .. N /\ Flowing(source, flow)
      BY PlacedShape DEF Sound
<1>2. b \in flow.dom[b]
      BY <1>1, FlowFacts
<1>3. \A d \in Blocks(source) : \A j \in DOMAIN g.code[d] : j \in Nat
      BY PlacedShape
<1>4. ASSUME T # {} PROVE FALSE
  <2>1. T \in SUBSET Nat
        BY <1>1
  <2>2. PICK m \in T : \A k \in T : m <= k
    <3> HIDE DEF T
    <3> QED
        BY <1>4, <2>1, LeastElement
  <2>3. m \in 0 .. N /\ ~Holds(w[m].stacks, g, code, b, m + 1)
        OBVIOUS
  <2>4. m # 0
    <3>1. 0 + 1 = 1
          OBVIOUS
    <3> QED
        BY <2>3, <3>1
  <2>5. m \in 1 .. N /\ m - 1 \in 0 .. N /\ ~ (m <= m - 1) /\ (m - 1) + 1 = m /\ m \in DOMAIN g.code[b]
        BY <1>1, <2>3, <2>4
  <2>6. Holds(w[m - 1].stacks, g, code, b, m)
    <3>1. m - 1 \notin T
          BY <2>2, <2>5
    <3>2. Holds(w[m - 1].stacks, g, code, b, (m - 1) + 1)
          BY <2>5, <3>1
    <3> QED
        BY <2>5, <3>2
  <2> DEFINE x == g.code[b][m].dst
             old == w[m - 1].stacks
             num == w[m - 1].next
  <2>7. ASSUME NEW d \in Blocks(source), NEW j \in DOMAIN g.code[d]
        PROVE  Ahead(d, j, b, m + 1) <=> Ahead(d, j, b, m) \/ (d = b /\ j = m)
    <3>1. j \in Nat /\ m \in Nat
          BY <1>3, <2>1
    <3>2. j < m + 1 <=> j < m \/ j = m
          BY <3>1
    <3>3. ~ (m < m)
          BY <3>1, SMTT(30)
    <3> QED
        BY <1>2, <3>2, <3>3 DEF Ahead
  <2>8. /\ w[m].stacks \in [Renamed(source) -> Seq(Nat)] /\ old \in [Renamed(source) -> Seq(Nat)] /\ num \in Nat
        /\ x \in Renamed(source) => w[m].stacks = [old EXCEPT ![x] = Append(@, num)] /\ code[b][m].dst = num
        /\ x \notin Renamed(source) => w[m] = w[m - 1]
        BY <2>5, Zenon DEF StacksGrow
  <2>9. ASSUME NEW v \in Renamed(source), v # x,
               \E d \in Blocks(source) : \E j \in DOMAIN g.code[d] : DefinesAt(g, v, d, j) /\ Ahead(d, j, b, m + 1)
        PROVE  \E d \in Blocks(source) : \E j \in DOMAIN g.code[d] :
                 Nearest(g, v, d, j, b, m + 1) /\ w[m].stacks[v] # <<>> /\ Last(w[m].stacks[v]) = code[d][j].dst
    <3>1. ASSUME NEW d \in Blocks(source), NEW j \in DOMAIN g.code[d], DefinesAt(g, v, d, j)
          PROVE  Ahead(d, j, b, m + 1) <=> Ahead(d, j, b, m)
          BY <2>7, <2>9, <3>1 DEF DefinesAt
    <3>2. \E d \in Blocks(source) : \E j \in DOMAIN g.code[d] : DefinesAt(g, v, d, j) /\ Ahead(d, j, b, m)
          BY <2>9, <3>1
    <3>3. PICK d \in Blocks(source) : \E j \in DOMAIN g.code[d] :
            Nearest(g, v, d, j, b, m) /\ old[v] # <<>> /\ Last(old[v]) = code[d][j].dst
          BY <2>6, <3>2 DEF Holds
    <3>4. PICK j \in DOMAIN g.code[d] : Nearest(g, v, d, j, b, m) /\ old[v] # <<>> /\ Last(old[v]) = code[d][j].dst
          BY <3>3
    <3>5. Nearest(g, v, d, j, b, m + 1)
          BY <3>1, <3>4 DEF Nearest
    <3>6. w[m].stacks[v] = old[v]
      <4>1. CASE x \in Renamed(source)
        <5>1. w[m].stacks = [old EXCEPT ![x] = Append(@, num)]
              BY <2>8, <4>1, ZenonT(40)
        <5>2. v # x
              BY <2>9, Zenon
        <5> HIDE DEF x, old, num
        <5> QED
            BY <5>1, <5>2
      <4>2. CASE x \notin Renamed(source)
        <5>1. w[m] = w[m - 1]
              BY <2>8, <4>2, Zenon
        <5> QED
            BY <5>1, Zenon
      <4> QED
          BY <4>1, <4>2, Zenon
    <3> QED
        BY <3>4, <3>5, <3>6
  <2>10. ASSUME x \in Renamed(source)
         PROVE  \E d \in Blocks(source) : \E j \in DOMAIN g.code[d] :
                  Nearest(g, x, d, j, b, m + 1) /\ w[m].stacks[x] # <<>> /\ Last(w[m].stacks[x]) = code[d][j].dst
    <3>1. DefinesAt(g, x, b, m) /\ Ahead(b, m, b, m + 1)
          BY <1>2, <2>1, <2>5 DEF DefinesAt, Ahead
    <3>2. Nearest(g, x, b, m, b, m + 1)
          BY <2>7, <3>1 DEF Nearest
    <3>3. w[m].stacks[x] # <<>> /\ Last(w[m].stacks[x]) = num
      <4>1. w[m].stacks = [old EXCEPT ![x] = Append(@, num)]
            BY <2>8, <2>10
      <4> HIDE DEF x, old, num
      <4>2. w[m].stacks[x] = Append(old[x], num) /\ old[x] \in Seq(Nat)
            BY <2>8, <2>10, <4>1, SMTT(30)
      <4> QED
          BY <2>8, <4>2, Pushed
    <3>4. code[b][m].dst = num
          BY <2>8, <2>10
    <3> QED
        BY <2>5, <3>2, <3>3, <3>4, Zenon
  <2>11. Holds(w[m].stacks, g, code, b, m + 1)
    <3> HIDE DEF x
    <3> QED
        BY <2>9, <2>10 DEF Holds
  <2> QED
      BY <2>3, <2>11
<1> QED
    BY <1>4


-----------------------------------------------------------------------------
\* The function in the course of renaming: the placed function, in the blocks already entered
\* with a version for each definition and, where it is read, the nearest one.
Carries(g, code, term, v, b, i) ==
  \E d \in Blocks(source) : \E j \in DOMAIN g.code[d] :
    Nearest(g, v, d, j, b, i) /\ term = Temp(code[d][j].dst)

Matches(g, code, waiting, next, b, i) ==
  /\ code[b][i] = Stm(g.code[b][i].kind, code[b][i].dst, g.code[b][i].op, code[b][i].src, g.code[b][i].labels)
  /\ IF b \notin waiting /\ g.code[b][i].dst \in Renamed(source)
     THEN code[b][i].dst \in Numbers(next)
     ELSE code[b][i].dst = g.code[b][i].dst
  /\ DOMAIN code[b][i].src = DOMAIN g.code[b][i].src
  /\ \A k \in DOMAIN g.code[b][i].src :
       IF /\ IsTemp(g.code[b][i].src[k])
          /\ g.code[b][i].src[k].temp \in Renamed(source)
          /\ ReadBlock(g, b, i, k) \notin waiting
       THEN Carries(g, code, code[b][i].src[k], g.code[b][i].src[k].temp,
                    ReadBlock(g, b, i, k), ReadIndex(g, b, i, k))
       ELSE code[b][i].src[k] = g.code[b][i].src[k]

Distinct(g, code, waiting) ==
  \A b, c \in Blocks(source) \ waiting : \A i \in DOMAIN g.code[b] : \A j \in DOMAIN g.code[c] :
    /\ g.code[b][i].dst \in Renamed(source)
    /\ g.code[c][j].dst \in Renamed(source)
    /\ code[b][i].dst = code[c][j].dst
    => b = c /\ i = j

Follows(g, code, waiting, next) ==
  /\ DOMAIN code = Blocks(source)
  /\ \A b \in Blocks(source) : DOMAIN code[b] = DOMAIN g.code[b]
  /\ \A b \in Blocks(source) : \A i \in DOMAIN g.code[b] : Matches(g, code, waiting, next, b, i)
  /\ Distinct(g, code, waiting)

\* What the visit of a block makes of the statements.
Visit(b, w, end, code) ==
  LET inside == [code EXCEPT ![b] = [i \in DOMAIN code[b] |-> RenameStatement(w[i - 1], code[b][i])]]
  IN [c \in DOMAIN inside |->
        IF c \in flow.succ[b]
        THEN [i \in DOMAIN inside[c] |-> RenameArguments(end.stacks, b, inside[c][i])]
        ELSE inside[c]]

VisitedAs(g, code, b, w, new) ==
  /\ DOMAIN new = Blocks(source)
  /\ \A c \in Blocks(source) : DOMAIN new[c] = DOMAIN g.code[c]
  /\ \A c \in Blocks(source) : \A i \in DOMAIN g.code[c] :
       /\ new[c][i] = Stm(g.code[c][i].kind, new[c][i].dst, g.code[c][i].op, new[c][i].src, g.code[c][i].labels)
       /\ new[c][i].dst =
            IF c = b /\ g.code[c][i].dst \in Renamed(source) THEN w[i - 1].next ELSE code[c][i].dst
       /\ DOMAIN new[c][i].src = DOMAIN g.code[c][i].src
       /\ \A k \in DOMAIN g.code[c][i].src :
            new[c][i].src[k] =
              IF ReadBlock(g, c, i, k) = b
              THEN VersionUse(w[ReadIndex(g, c, i, k) - 1].stacks, code[c][i].src[k])
              ELSE code[c][i].src[k]

LEMMA RenameStatementShape ==
  ASSUME NEW acc, NEW kind, NEW dst, NEW op, NEW src, NEW labels, NEW s, s = Stm(kind, dst, op, src, labels)
  PROVE  RenameStatement(acc, s) =
           Stm(kind, IF dst \in DOMAIN acc.stacks THEN acc.next ELSE dst, op,
               IF kind = "PHI" THEN src ELSE [i \in DOMAIN src |-> VersionUse(acc.stacks, src[i])], labels)
<1> DEFINE newSrc == IF kind = "PHI" THEN src ELSE [i \in DOMAIN src |-> VersionUse(acc.stacks, src[i])]
           newDst == IF dst \in DOMAIN acc.stacks THEN acc.next ELSE dst
           first == [s EXCEPT !.src = newSrc]
<1>1. s.kind = kind /\ s.dst = dst /\ s.op = op /\ s.src = src /\ s.labels = labels
      BY DEF Stm
<1>2. RenameStatement(acc, s) = [s EXCEPT !.src = newSrc, !.dst = newDst]
      BY <1>1 DEF RenameStatement, IsPhi
<1>3. [s EXCEPT !.src = newSrc, !.dst = newDst] = [first EXCEPT !.dst = newDst]
      OBVIOUS
<1> HIDE DEF newSrc, newDst
<1>4. first = Stm(kind, dst, op, newSrc, labels)
      BY DEF Stm
<1> HIDE DEF first
<1>5. [first EXCEPT !.dst = newDst] = Stm(kind, newDst, op, newSrc, labels)
      BY <1>4 DEF Stm
<1> QED
    BY <1>2, <1>3, <1>5 DEF newSrc, newDst

LEMMA RenameArgumentsShape ==
  ASSUME NEW st, NEW b, NEW kind, NEW dst, NEW op, NEW src, NEW labels, NEW s, s = Stm(kind, dst, op, src, labels)
  PROVE  RenameArguments(st, b, s) =
           Stm(kind, dst, op,
               IF kind = "PHI"
               THEN [i \in DOMAIN src |-> IF labels[i] = b THEN VersionUse(st, src[i]) ELSE src[i]]
               ELSE src, labels)
<1> DEFINE newSrc == [i \in DOMAIN src |-> IF labels[i] = b THEN VersionUse(st, src[i]) ELSE src[i]]
<1>1. s.kind = kind /\ s.dst = dst /\ s.op = op /\ s.src = src /\ s.labels = labels
      BY DEF Stm
<1>2. RenameArguments(st, b, s) = IF kind = "PHI" THEN [s EXCEPT !.src = newSrc] ELSE s
      BY <1>1 DEF RenameArguments, IsPhi
<1> HIDE DEF newSrc
<1>3. [s EXCEPT !.src = newSrc] = Stm(kind, dst, op, newSrc, labels)
      BY DEF Stm
<1>4. CASE kind = "PHI"
      BY <1>2, <1>3, <1>4 DEF newSrc
<1>5. CASE kind # "PHI"
      BY <1>2, <1>5, SMTT(30)
<1> QED
    BY <1>4, <1>5


LEMMA VisitShape ==
  ASSUME Sound, NEW g, Placed(g, {}), NEW code, NEW waiting, NEW next, Follows(g, code, waiting, next),
         NEW b \in Blocks(source), b \in waiting, NEW w,
         \A i \in 0 .. Len(g.code[b]) : DOMAIN w[i].stacks = Renamed(source)
  PROVE  VisitedAs(g, code, b, w, Visit(b, w, w[Len(g.code[b])], code))
<1> DEFINE N == Len(g.code[b])
           inside == [code EXCEPT ![b] = [i \in DOMAIN code[b] |-> RenameStatement(w[i - 1], code[b][i])]]
           new == Visit(b, w, w[N], code)
<1>1. DOMAIN code = Blocks(source) /\ \A c \in Blocks(source) : DOMAIN code[c] = DOMAIN g.code[c]
      BY DEF Follows
<1>2. N \in Nat /\ DOMAIN g.code[b] = 1 .. N
      BY PlacedShape
<1>3. new = [c \in DOMAIN inside |->
               IF c \in flow.succ[b]
               THEN [i \in DOMAIN inside[c] |-> RenameArguments(w[N].stacks, b, inside[c][i])]
               ELSE inside[c]]
      BY DEF Visit
<1>4. /\ DOMAIN inside = Blocks(source)
      /\ inside[b] = [i \in DOMAIN code[b] |-> RenameStatement(w[i - 1], code[b][i])]
      /\ \A c \in Blocks(source) : c # b => inside[c] = code[c]
      BY <1>1
<1> HIDE DEF inside, new
<1>5. DOMAIN new = Blocks(source)
      BY <1>3, <1>4
<1>6. \A c \in Blocks(source) : DOMAIN inside[c] = DOMAIN g.code[c]
      BY <1>1, <1>4
<1>7. ASSUME NEW c \in Blocks(source)
      PROVE  /\ DOMAIN new[c] = DOMAIN g.code[c]
             /\ \A i \in DOMAIN g.code[c] :
                  new[c][i] = IF c \in flow.succ[b] THEN RenameArguments(w[N].stacks, b, inside[c][i]) ELSE inside[c][i]
      BY <1>3, <1>4, <1>6, SMTT(30)
<1>8. ASSUME NEW c \in Blocks(source), NEW i \in DOMAIN g.code[c]
      PROVE  /\ new[c][i] = Stm(g.code[c][i].kind, new[c][i].dst, g.code[c][i].op, new[c][i].src, g.code[c][i].labels)
             /\ new[c][i].dst =
                  IF c = b /\ g.code[c][i].dst \in Renamed(source) THEN w[i - 1].next ELSE code[c][i].dst
             /\ DOMAIN new[c][i].src = DOMAIN g.code[c][i].src
             /\ \A k \in DOMAIN g.code[c][i].src :
                  new[c][i].src[k] =
                    IF ReadBlock(g, c, i, k) = b
                    THEN VersionUse(w[ReadIndex(g, c, i, k) - 1].stacks, code[c][i].src[k])
                    ELSE code[c][i].src[k]
  <2> DEFINE q == g.code[c][i]
             p == code[c][i]
             dst1 == IF c = b /\ q.dst \in Renamed(source) THEN w[i - 1].next ELSE p.dst
             src1 == IF c = b /\ q.kind # "PHI" THEN [k \in DOMAIN p.src |-> VersionUse(w[i - 1].stacks, p.src[k])]
                     ELSE p.src
             src2 == IF c \in flow.succ[b] /\ q.kind = "PHI"
                     THEN [k \in DOMAIN src1 |-> IF q.labels[k] = b THEN VersionUse(w[N].stacks, src1[k]) ELSE src1[k]]
                     ELSE src1
  <2>1. Matches(g, code, waiting, next, c, i)
        BY DEF Follows
  <2>2. p = Stm(q.kind, p.dst, q.op, p.src, q.labels) /\ DOMAIN p.src = DOMAIN q.src /\ (c = b => p.dst = q.dst)
        BY <2>1 DEF Matches
  <2>3. c = b => DOMAIN w[i - 1].stacks = Renamed(source)
        BY <1>2
  <2>4. inside[c][i] = IF c = b THEN RenameStatement(w[i - 1], p) ELSE p
        BY <1>1, <1>4
  <2> HIDE DEF q, p
  <2>5. inside[c][i] = Stm(q.kind, dst1, q.op, src1, q.labels)
    <3>1. CASE c = b
      <4>1. RenameStatement(w[i - 1], p) =
              Stm(q.kind, IF p.dst \in DOMAIN w[i - 1].stacks THEN w[i - 1].next ELSE p.dst, q.op,
                  IF q.kind = "PHI" THEN p.src ELSE [k \in DOMAIN p.src |-> VersionUse(w[i - 1].stacks, p.src[k])],
                  q.labels)
            BY <2>2, RenameStatementShape
      <4>2. (IF p.dst \in DOMAIN w[i - 1].stacks THEN w[i - 1].next ELSE p.dst) = dst1
            BY <2>2, <2>3, <3>1
      <4>3. (IF q.kind = "PHI" THEN p.src ELSE [k \in DOMAIN p.src |-> VersionUse(w[i - 1].stacks, p.src[k])]) = src1
            BY <3>1
      <4> HIDE DEF dst1, src1
      <4> QED
          BY <2>4, <3>1, <4>1, <4>2, <4>3
    <3>2. CASE c # b
          BY <2>2, <2>4, <3>2
    <3> QED
        BY <3>1, <3>2
  <2>6. new[c][i] = Stm(q.kind, dst1, q.op, src2, q.labels)
    <3> HIDE DEF dst1, src1
    <3>1. RenameArguments(w[N].stacks, b, inside[c][i]) =
            Stm(q.kind, dst1, q.op,
                IF q.kind = "PHI"
                THEN [k \in DOMAIN src1 |-> IF q.labels[k] = b THEN VersionUse(w[N].stacks, src1[k]) ELSE src1[k]]
                ELSE src1, q.labels)
          BY <2>5, RenameArgumentsShape
    <3>2. CASE c \in flow.succ[b]
          BY <1>7, <3>1, <3>2
    <3>3. CASE c \notin flow.succ[b]
          BY <1>7, <2>5, <3>3
    <3> QED
        BY <3>2, <3>3
  <2>7. new[c][i].dst = dst1 /\ new[c][i].src = src2
    <3> HIDE DEF dst1, src2
    <3> QED
        BY <2>6 DEF Stm
  <2>8. DOMAIN src1 = DOMAIN q.src
        BY <2>2
  <2>9. DOMAIN src2 = DOMAIN q.src
    <3> HIDE DEF src1
    <3> QED
        BY <2>8
  <2>10. ASSUME NEW k \in DOMAIN q.src
         PROVE  src2[k] = IF ReadBlock(g, c, i, k) = b
                          THEN VersionUse(w[ReadIndex(g, c, i, k) - 1].stacks, p.src[k])
                          ELSE p.src[k]
    <3>1. CASE q.kind = "PHI"
      <4>1. PhiShape(q, c) /\ ReadBlock(g, c, i, k) = q.labels[k]
              /\ ReadIndex(g, c, i, k) = Len(g.code[q.labels[k]]) + 1
            BY <3>1, PlacedShape DEF IsPhi, q, ReadBlock, ReadIndex
      <4>2. q.labels[k] \in flow.pred[c]
            BY <4>1 DEF PhiShape, ToSet
      <4>3. q.labels[k] = b => c \in flow.succ[b]
        <5>1. Flowing(source, flow)
              BY DEF Sound
        <5>2. flow.succ[b] = Exits(source, b) /\ flow.pred[c] = {a \in Blocks(source) : c \in Exits(source, a)}
              BY <5>1, FlowFacts
        <5> QED
            BY <4>2, <5>2
      <4>4. src1 = p.src
            BY <3>1
      <4>5. q.labels[k] = b => ReadIndex(g, c, i, k) - 1 = N
            BY <1>2, <4>1
      <4> HIDE DEF src1, N
      <4> QED
          BY <2>8, <3>1, <4>1, <4>3, <4>4, <4>5
    <3>2. CASE q.kind # "PHI"
      <4>1. ReadBlock(g, c, i, k) = c /\ ReadIndex(g, c, i, k) = i
            BY <3>2 DEF IsPhi, q, ReadBlock, ReadIndex
      <4>2. src2 = src1
            BY <3>2
      <4>3. src1[k] = IF c = b THEN VersionUse(w[i - 1].stacks, p.src[k]) ELSE p.src[k]
            BY <2>2, <3>2
      <4> HIDE DEF src1, src2
      <4> QED
          BY <4>1, <4>2, <4>3
    <3> QED
        BY <3>1, <3>2
  <2> HIDE DEF src2
  <2> QED
      BY <2>6, <2>7, <2>9, <2>10, Zenon DEF q, p
<1> QED
    BY <1>5, <1>7, <1>8 DEF VisitedAs, new


\* When a block is visited: the blocks below it are still to be visited, those above are not.
Visitable(g, code, waiting, next, st, b) ==
  /\ waiting \subseteq Blocks(source)
  /\ b \in waiting
  /\ \A a \in Blocks(source) : \A d \in flow.dom[a] : d \in waiting => a \in waiting
  /\ \A d \in flow.dom[b] : d \in waiting => d = b
  /\ next \in Nat
  /\ source.lastTemp < next
  /\ st \in [Renamed(source) -> Seq(Numbers(next))]
  /\ Follows(g, code, waiting, next)
  /\ Holds(st, g, code, b, 1)

\* and what the visit leaves: the function, the stacks and the next number.
Visited(g, code, waiting, next, b, new, inside, later) ==
  /\ Follows(g, new, waiting \ {b}, later)
  /\ Holds(inside, g, new, b, Len(g.code[b]) + 1)
  /\ later \in Nat
  /\ next <= later
  /\ inside \in [Renamed(source) -> Seq(Numbers(later))]
  /\ \A c \in Blocks(source) : \A i \in DOMAIN g.code[c] : c # b => new[c][i].dst = code[c][i].dst

\* What is in scope along the block.
InScope(g, next, new, b, w) ==
  /\ \A i \in 0 .. Len(g.code[b]) : /\ w[i].next \in Nat
                                    /\ next <= w[i].next
                                    /\ w[i].next <= w[Len(g.code[b])].next
                                    /\ w[i].stacks \in [Renamed(source) -> Seq(Numbers(w[i].next))]
                                    /\ Holds(w[i].stacks, g, new, b, i + 1)
  /\ \A i, j \in 1 .. Len(g.code[b]) : g.code[b][i].dst \in Renamed(source) /\ i < j =>
        w[i - 1].next < w[j - 1].next
  /\ \A i \in 1 .. Len(g.code[b]) : g.code[b][i].dst \in Renamed(source) =>
        w[i - 1].next < w[Len(g.code[b])].next

LEMMA VisitScopes ==
  ASSUME Sound, NEW g, Placed(g, {}), NEW code, NEW waiting, NEW next, NEW st, NEW b,
         Visitable(g, code, waiting, next, st, b), NEW w,
         w = Versions([stacks |-> st, next |-> next], code[b])
  PROVE  /\ Len(code[b]) = Len(g.code[b])
         /\ VisitedAs(g, code, b, w, Visit(b, w, w[Len(g.code[b])], code))
         /\ InScope(g, next, Visit(b, w, w[Len(g.code[b])], code), b, w)
<1> DEFINE N == Len(g.code[b])
           new == Visit(b, w, w[N], code)
           acc == [stacks |-> st, next |-> next]
           R == Renamed(source)
<1>1. b \in Blocks(source) /\ Follows(g, code, waiting, next) /\ b \in waiting
      BY DEF Visitable
<1>2. N \in Nat /\ DOMAIN g.code[b] = 1 .. N
      BY <1>1, PlacedShape
<1>3. DOMAIN code[b] = 1 .. N
      BY <1>1, <1>2 DEF Follows
<1>4. Len(code[b]) = N
      BY <1>2, <1>3
<1>5. \A j \in 1 .. N : code[b][j].dst = g.code[b][j].dst
  <2> SUFFICES ASSUME NEW j \in 1 .. N PROVE code[b][j].dst = g.code[b][j].dst
      OBVIOUS
  <2>1. Matches(g, code, waiting, next, b, j)
        BY <1>1, <1>2 DEF Follows
  <2> QED
      BY <1>1, <2>1 DEF Matches
<1>6. next \in Nat /\ source.lastTemp < next /\ source.lastTemp \in Nat /\ st \in [R -> Seq(Numbers(next))]
      BY DEF Visitable, Sound
<1>7. \A n \in Nat : Numbers(n) \subseteq Nat
      BY <1>6 DEF Numbers
<1>8. \A n \in Nat : [R -> Seq(Numbers(n))] \subseteq [R -> Seq(Nat)]
  <2> SUFFICES ASSUME NEW n \in Nat PROVE [R -> Seq(Numbers(n))] \subseteq [R -> Seq(Nat)]
      OBVIOUS
  <2>1. Seq(Numbers(n)) \subseteq Seq(Nat)
        BY <1>7
  <2> QED
      BY <2>1
<1>9. acc \in Scopes /\ acc.next = next /\ acc.stacks = st
  <2>1. st \in [R -> Seq(Nat)]
        BY <1>6, <1>8
  <2> HIDE DEF R
  <2> QED
      BY <1>6, <2>1 DEF Scopes, R
<1> HIDE DEF acc
<1>10. /\ w \in [0 .. N -> Scopes]
       /\ w[0] = acc
  <2>1. Len(code[b]) \in Nat
        BY <1>2, <1>4, SMTT(30)
  <2> QED
      BY <1>4, <1>9, <2>1, VersionsDefined DEF acc
<1>11. /\ \A j \in 0 .. N : \A i \in 0 .. j : w[i].next <= w[j].next
       /\ \A j \in 0 .. N : w[j].stacks \in [R -> Seq(Numbers(w[j].next))]
       /\ \A j \in 1 .. N : code[b][j].dst \in R =>
            /\ w[j].next = w[j - 1].next + 1
            /\ w[j].stacks = [w[j - 1].stacks EXCEPT ![code[b][j].dst] = Append(@, w[j - 1].next)]
       /\ \A j \in 1 .. N : code[b][j].dst \notin R => w[j] = w[j - 1]
  <2>1. Len(code[b]) \in Nat
        BY <1>2, <1>4
  <2>2. source.lastTemp < acc.next /\ acc.stacks \in [R -> Seq(Numbers(acc.next))] /\ w = Versions(acc, code[b])
        BY <1>6, <1>9 DEF acc
  <2> DEFINE m == Len(code[b])
  <2>3. Rising(w, code[b])
        BY <1>6, <1>9, <2>1, <2>2, VersionsRise, SMTT(30)
  <2>4. /\ \A j \in 0 .. m : \A i \in 0 .. j : w[i].next <= w[j].next
        /\ \A j \in 0 .. m : w[j].stacks \in [R -> Seq(Numbers(w[j].next))]
        /\ \A j \in 1 .. m : code[b][j].dst \in R =>
             /\ w[j].next = w[j - 1].next + 1
             /\ w[j].stacks = [w[j - 1].stacks EXCEPT ![code[b][j].dst] = Append(@, w[j - 1].next)]
        /\ \A j \in 1 .. m : code[b][j].dst \notin R => w[j] = w[j - 1]
        BY <2>3, Zenon DEF Rising
  <2>5. m = N
        BY <1>4
  <2> HIDE DEF m, N, R
  <2> QED
      BY <2>4, <2>5, Zenon
<1>12. \A i \in 0 .. N : w[i].next \in Nat
  <2> HIDE DEF N
  <2> QED
      BY <1>10 DEF Scopes
<1>13. \A i \in 0 .. N : DOMAIN w[i].stacks = R
       BY <1>11
<1>14. VisitedAs(g, code, b, w, new)
       BY <1>1, <1>13, VisitShape
<1> HIDE DEF new
<1>15. ASSUME NEW d \in Blocks(source), NEW j \in DOMAIN g.code[d], Ahead(d, j, b, 1)
       PROVE  new[d][j].dst = code[d][j].dst
  <2>1. j \in Nat /\ ~ (j < 1)
    <3>1. DOMAIN g.code[d] = 1 .. Len(g.code[d]) /\ Len(g.code[d]) \in Nat
          BY PlacedShape
    <3> QED
        BY <3>1
  <2>2. d # b
        BY <1>15, <2>1 DEF Ahead
  <2> QED
      BY <1>14, <2>2 DEF VisitedAs
<1>16. Holds(w[0].stacks, g, new, b, 1)
  <2>1. Holds(st, g, code, b, 1)
        BY DEF Visitable
  <2>2. Holds(st, g, new, b, 1)
        BY <1>15, <2>1, HoldsSame
  <2> QED
      BY <1>9, <1>10, <2>2
<1>17. \A i \in 0 .. N : Holds(w[i].stacks, g, new, b, i + 1)
  <2>1. \A i \in 0 .. N : w[i].stacks \in [R -> Seq(Nat)] /\ w[i].next \in Nat
        BY <1>8, <1>11, <1>12, Zenon
  <2>2. \A j \in 1 .. N : g.code[b][j].dst \in R =>
          /\ w[j].stacks = [w[j - 1].stacks EXCEPT ![g.code[b][j].dst] = Append(@, w[j - 1].next)]
          /\ new[b][j].dst = w[j - 1].next
    <3>1. \A j \in 1 .. N : g.code[b][j].dst \in R => new[b][j].dst = w[j - 1].next
          BY <1>1, <1>2, <1>14, SMTT(30) DEF VisitedAs
    <3>2. \A j \in 1 .. N : g.code[b][j].dst \in R =>
            w[j].stacks = [w[j - 1].stacks EXCEPT ![g.code[b][j].dst] = Append(@, w[j - 1].next)]
          BY <1>5, <1>11, ZenonT(40)
    <3> QED
        BY <3>1, <3>2, Zenon
  <2>3. \A j \in 1 .. N : g.code[b][j].dst \notin R => w[j] = w[j - 1]
        BY <1>5, <1>11
  <2>4. StacksGrow(g, b, new, w)
    <3> HIDE DEF R
    <3> QED
        BY <2>1, <2>2, <2>3, Zenon DEF StacksGrow, N, R
  <2>5. b \in Blocks(source) /\ Holds(w[0].stacks, g, new, b, 1)
        BY <1>1, <1>16
  <2> HIDE DEF N
  <2>6. \A i \in 0 .. Len(g.code[b]) : Holds(w[i].stacks, g, new, b, i + 1)
        BY <2>4, <2>5, HoldsOnward, SMTT(30)
  <2> QED
      BY <2>6, SMTT(30) DEF N
<1>18. ASSUME NEW i \in 0 .. N PROVE next <= w[i].next /\ w[i].next <= w[N].next
  <2>1. i \in 0 .. N /\ 0 \in 0 .. i /\ N \in 0 .. N
        BY <1>2
  <2> QED
      BY <1>9, <1>10, <1>11, <2>1
<1>19. ASSUME NEW i \in 1 .. N, NEW j \in 1 .. N, g.code[b][i].dst \in R, i < j
       PROVE  w[i - 1].next < w[j - 1].next
  <2>1. i \in 0 .. j - 1 /\ j - 1 \in 0 .. N /\ i - 1 \in 0 .. N /\ i \in 0 .. N
        BY <1>2, <1>19, SMTT(30)
  <2>2. w[i].next = w[i - 1].next + 1 /\ w[i].next <= w[j - 1].next
        BY <1>5, <1>11, <1>19, <2>1
  <2>3. w[i].next \in Nat /\ w[i - 1].next \in Nat /\ w[j - 1].next \in Nat
        BY <1>12, <2>1
  <2> QED
      BY <2>2, <2>3
<1>20. ASSUME NEW i \in 1 .. N, g.code[b][i].dst \in R
       PROVE  w[i - 1].next < w[N].next
  <2>1. i - 1 \in 0 .. N /\ i \in 0 .. N /\ N \in 0 .. N
        BY <1>2
  <2>2. w[i].next = w[i - 1].next + 1 /\ w[i].next <= w[N].next
        BY <1>5, <1>11, <1>20, <2>1
  <2>3. w[i].next \in Nat /\ w[i - 1].next \in Nat /\ w[N].next \in Nat
        BY <1>12, <2>1, SMTT(30)
  <2> QED
      BY <2>2, <2>3, SMTT(30)
<1>21. InScope(g, next, new, b, w)
       BY <1>11, <1>12, <1>17, <1>18, <1>19, <1>20, Zenon DEF InScope
<1> QED
    BY <1>4, <1>14, <1>21 DEF new


\* The visit of a block gives every definition in it a number that was not given before, and
\* every read behind it the version that reaches it.
LEMMA VisitStep ==
  ASSUME Sound, NEW g, Placed(g, {}), NEW code, NEW waiting, NEW next, NEW st, NEW b,
         Visitable(g, code, waiting, next, st, b), NEW w,
         w = Versions([stacks |-> st, next |-> next], code[b]),
         NEW new, new = Visit(b, w, w[Len(code[b])], code)
  PROVE  Visited(g, code, waiting, next, b, new, w[Len(code[b])].stacks, w[Len(code[b])].next)
<1> DEFINE N == Len(g.code[b])
           R == Renamed(source)
           last == w[N].next
           rest == waiting \ {b}
<1>1. Len(code[b]) = N
      BY VisitScopes
<1>2. VisitedAs(g, code, b, w, new) /\ InScope(g, next, new, b, w)
      BY <1>1, VisitScopes
<1>3. /\ b \in Blocks(source) /\ b \in waiting /\ waiting \subseteq Blocks(source)
      /\ \A a \in Blocks(source) : \A d \in flow.dom[a] : d \in waiting => a \in waiting
      /\ \A d \in flow.dom[b] : d \in waiting => d = b
      /\ Follows(g, code, waiting, next)
      /\ next \in Nat
      BY DEF Visitable
<1>4. N \in Nat /\ DOMAIN g.code[b] = 1 .. N
      BY <1>3, PlacedShape
<1>5. source.lastTemp \in Nat /\ source.lastTemp < next
      BY DEF Sound, Visitable
<1>6. next <= last /\ last \in Nat /\ w[N].stacks \in [R -> Seq(Numbers(last))]
        /\ Holds(w[N].stacks, g, new, b, N + 1)
  <2>1. N \in 0 .. N
        BY <1>4
  <2> QED
      BY <1>2, <2>1 DEF InScope
<1>7. \A c \in Blocks(source) : \A i \in DOMAIN g.code[c] : c # b => new[c][i].dst = code[c][i].dst
      BY <1>2 DEF VisitedAs
<1>8. ASSUME NEW i \in 1 .. N, g.code[b][i].dst \in R
      PROVE  /\ new[b][i].dst = w[i - 1].next
             /\ w[i - 1].next \in Nat
             /\ next <= w[i - 1].next
             /\ w[i - 1].next < last
  <2>1. i - 1 \in 0 .. N
        BY <1>4, SMTT(30)
  <2>2. new[b][i].dst = w[i - 1].next
        BY <1>2, <1>3, <1>4, <1>8 DEF VisitedAs
  <2>3. w[i - 1].next \in Nat /\ next <= w[i - 1].next /\ w[i - 1].next < last
        BY <1>2, <1>8, <2>1 DEF InScope
  <2> QED
      BY <2>2, <2>3
<1> HIDE DEF last, N
<1>9. Numbers(next) \subseteq Numbers(last)
  <2>1. next <= last /\ last \in Nat /\ next \in Nat /\ source.lastTemp \in Nat
        BY <1>3, <1>5, <1>6
  <2> QED
      BY <2>1 DEF Numbers
<1>10. ASSUME NEW c \in Blocks(source), NEW i \in DOMAIN g.code[c]
       PROVE  IF c \notin rest /\ g.code[c][i].dst \in R
              THEN new[c][i].dst \in Numbers(last)
              ELSE new[c][i].dst = g.code[c][i].dst
  <2>1. Matches(g, code, waiting, next, c, i)
        BY <1>3 DEF Follows
  <2>2. CASE c = b
    <3>1. CASE g.code[c][i].dst \in R
      <4>1. new[b][i].dst \in Numbers(last)
        <5>1. i \in 1 .. N
              BY <1>4, <2>2
        <5>2. /\ new[b][i].dst = w[i - 1].next /\ w[i - 1].next \in Nat /\ next <= w[i - 1].next
              /\ w[i - 1].next < last
              BY <1>8, <2>2, <3>1, <5>1
        <5> QED
            BY <1>3, <1>5, <1>6, <5>2 DEF Numbers
      <4> QED
          BY <2>2, <3>1, <4>1
    <3>2. CASE g.code[c][i].dst \notin R
      <4>1. new[c][i].dst = code[c][i].dst
            BY <1>2, <3>2 DEF VisitedAs
      <4>2. code[c][i].dst = g.code[c][i].dst
            BY <2>1, <3>2 DEF Matches
      <4> QED
          BY <3>2, <4>1, <4>2, SMTT(30)
    <3> QED
        BY <3>1, <3>2
  <2>3. CASE c # b
    <3>1. new[c][i].dst = code[c][i].dst
          BY <1>7, <2>3
    <3>2. IF c \notin waiting /\ g.code[c][i].dst \in R
          THEN code[c][i].dst \in Numbers(next)
          ELSE code[c][i].dst = g.code[c][i].dst
          BY <2>1, SMTT(30) DEF Matches
    <3> QED
        BY <1>9, <2>3, <3>1, <3>2
  <2> QED
      BY <2>2, <2>3
<1>11. ASSUME NEW c \in Blocks(source), NEW i \in DOMAIN g.code[c], NEW k \in DOMAIN g.code[c][i].src
       PROVE  IF /\ IsTemp(g.code[c][i].src[k])
                 /\ g.code[c][i].src[k].temp \in R
                 /\ ReadBlock(g, c, i, k) \notin rest
              THEN Carries(g, new, new[c][i].src[k], g.code[c][i].src[k].temp,
                           ReadBlock(g, c, i, k), ReadIndex(g, c, i, k))
              ELSE new[c][i].src[k] = g.code[c][i].src[k]
  <2> DEFINE old == g.code[c][i].src[k]
             v == old.temp
             at == ReadBlock(g, c, i, k)
             ix == ReadIndex(g, c, i, k)
             now == code[c][i].src[k]
  <2>1. new[c][i].src[k] = IF at = b THEN VersionUse(w[ix - 1].stacks, now) ELSE now
        BY <1>2 DEF VisitedAs
  <2>2. IF IsTemp(old) /\ v \in R /\ at \notin waiting
        THEN Carries(g, code, now, v, at, ix)
        ELSE now = old
    <3>1. Matches(g, code, waiting, next, c, i)
          BY <1>3 DEF Follows
    <3> QED
        BY <3>1 DEF Matches
  <2>3. at = b => ix - 1 \in 0 .. N /\ (ix - 1) + 1 = ix
    <3> SUFFICES ASSUME at = b PROVE ix - 1 \in 0 .. N /\ (ix - 1) + 1 = ix
        OBVIOUS
    <3>1. CASE IsPhi(g.code[c][i])
      <4>1. ix = N + 1
            BY <3>1 DEF ReadBlock, ReadIndex, N
      <4> QED
          BY <1>4, <4>1
    <3>2. CASE ~IsPhi(g.code[c][i])
      <4>1. ix = i /\ c = b
            BY <3>2 DEF ReadBlock, ReadIndex
      <4> QED
          BY <1>4, <4>1
    <3> QED
        BY <3>1, <3>2
  <2>4. at = b => DOMAIN w[ix - 1].stacks = R /\ Holds(w[ix - 1].stacks, g, new, b, ix)
    <3> SUFFICES ASSUME at = b PROVE DOMAIN w[ix - 1].stacks = R /\ Holds(w[ix - 1].stacks, g, new, b, ix)
        OBVIOUS
    <3> DEFINE m == ix - 1
    <3>1. m \in 0 .. N /\ m + 1 = ix
          BY <2>3
    <3> HIDE DEF m, ix
    <3>2. w[m].stacks \in [R -> Seq(Numbers(w[m].next))] /\ Holds(w[m].stacks, g, new, b, m + 1)
          BY <1>2, <3>1 DEF InScope, N
    <3> QED
        BY <3>1, <3>2 DEF m
  <2>5. ASSUME IsTemp(old), v \in R
        PROVE  /\ at \in Blocks(source)
               /\ \E d \in Blocks(source) : \E j \in DOMAIN g.code[d] : DefinesAt(g, v, d, j) /\ Ahead(d, j, at, ix)
    <3>1. ReadsAt(g, v, c, i, k) /\ v \notin Params(source)
          BY <2>5, SMTT(30) DEF ReadsAt, Renamed
    <3> HIDE DEF v, at, ix
    <3> QED
        BY <3>1, ReadDefined DEF at, ix
  <2> HIDE DEF at, ix, now
  <2>6. CASE at = b /\ IsTemp(old) /\ v \in R
    <3>1. now = old
          BY <1>3, <2>2, <2>6
    <3>2. old.temp \in DOMAIN w[ix - 1].stacks
          BY <2>4, <2>6
    <3> HIDE DEF v, old
    <3>3. \E d \in Blocks(source) : \E j \in DOMAIN g.code[d] :
            /\ Nearest(g, v, d, j, b, ix)
            /\ w[ix - 1].stacks[v] # <<>>
            /\ Last(w[ix - 1].stacks[v]) = new[d][j].dst
          BY <2>4, <2>5, <2>6 DEF Holds
    <3>4. PICK d \in Blocks(source) : \E j \in DOMAIN g.code[d] :
            /\ Nearest(g, v, d, j, b, ix)
            /\ w[ix - 1].stacks[v] # <<>>
            /\ Last(w[ix - 1].stacks[v]) = new[d][j].dst
          BY <3>3
    <3>5. PICK j \in DOMAIN g.code[d] :
            /\ Nearest(g, v, d, j, b, ix)
            /\ w[ix - 1].stacks[v] # <<>>
            /\ Last(w[ix - 1].stacks[v]) = new[d][j].dst
          BY <3>4
    <3>6. VersionUse(w[ix - 1].stacks, now) = Temp(new[d][j].dst)
          BY <2>6, <3>1, <3>2, <3>5, SMTT(30) DEF VersionUse, v
    <3>7. Carries(g, new, new[c][i].src[k], v, at, ix)
          BY <2>1, <2>6, <3>5, <3>6, ZenonT(40) DEF Carries
    <3> QED
        BY <2>6, <3>7, Zenon DEF v, old, at, ix
  <2>7. CASE at # b /\ IsTemp(old) /\ v \in R
    <3>1. CASE at \in waiting
      <4>1. new[c][i].src[k] = old /\ at \in rest
            BY <2>1, <2>2, <2>7, <3>1, SMTT(30)
      <4> QED
          BY <4>1 DEF at, ix
    <3>2. CASE at \notin waiting
      <4>0. Carries(g, code, now, v, at, ix)
            BY <2>2, <2>7, <3>2
      <4>1. PICK d \in Blocks(source) : \E j \in DOMAIN g.code[d] :
              Nearest(g, v, d, j, at, ix) /\ now = Temp(code[d][j].dst)
        <5> HIDE DEF v
        <5> QED
            BY <4>0 DEF Carries
      <4>2. PICK j \in DOMAIN g.code[d] : Nearest(g, v, d, j, at, ix) /\ now = Temp(code[d][j].dst)
            BY <4>1
      <4>3. d # b
        <5>1. d \in flow.dom[at]
              BY <4>2, SMTT(30) DEF Nearest, Ahead
        <5> QED
            BY <1>3, <2>5, <2>7, <3>2, <5>1
      <4>4. new[c][i].src[k] = Temp(new[d][j].dst)
            BY <1>7, <2>1, <2>7, <4>2, <4>3, ZenonT(40)
      <4>5. Carries(g, new, new[c][i].src[k], v, at, ix)
            BY <4>2, <4>4, ZenonT(40) DEF Carries
      <4> QED
          BY <2>7, <3>2, <4>5, ZenonT(40) DEF at, ix
    <3> QED
        BY <3>1, <3>2
  <2>8. CASE ~ (IsTemp(old) /\ v \in R)
    <3>1. now = old
          BY <2>2, <2>8, SMTT(30)
    <3>2. at = b => VersionUse(w[ix - 1].stacks, now) = old
          BY <2>4, <2>8, <3>1, Zenon DEF VersionUse
    <3>3. new[c][i].src[k] = old
          BY <2>1, <3>1, <3>2, SMTT(30)
    <3> QED
        BY <2>8, <3>3
  <2> QED
      BY <2>6, <2>7, <2>8, Zenon
<1>12. ASSUME NEW c \in Blocks(source), NEW i \in DOMAIN g.code[c]
       PROVE  Matches(g, new, rest, last, c, i)
  <2>1. /\ new[c][i] = Stm(g.code[c][i].kind, new[c][i].dst, g.code[c][i].op, new[c][i].src, g.code[c][i].labels)
        /\ DOMAIN new[c][i].src = DOMAIN g.code[c][i].src
        BY <1>2 DEF VisitedAs
  <2> QED
      BY <1>10, <1>11, <2>1, ZenonT(40) DEF Matches
<1>13. ASSUME NEW c \in Blocks(source) \ rest, NEW d \in Blocks(source) \ rest,
              NEW i \in DOMAIN g.code[c], NEW j \in DOMAIN g.code[d],
              g.code[c][i].dst \in R, g.code[d][j].dst \in R, new[c][i].dst = new[d][j].dst
       PROVE  c = d /\ i = j
  <2>1. ASSUME NEW a \in Blocks(source) \ rest, NEW l \in DOMAIN g.code[a], g.code[a][l].dst \in R, a # b
        PROVE  new[a][l].dst = code[a][l].dst /\ a \notin waiting /\ code[a][l].dst \in Int /\ code[a][l].dst < next
    <3>1. Matches(g, code, waiting, next, a, l)
          BY <1>3 DEF Follows
    <3>2. a \notin waiting
          BY <2>1
    <3>3. code[a][l].dst \in Numbers(next)
          BY <2>1, <3>1, <3>2 DEF Matches
    <3>4. code[a][l].dst \in Int /\ code[a][l].dst < next
          BY <1>3, <1>5, <3>3 DEF Numbers
    <3> QED
        BY <1>7, <2>1, <3>2, <3>4
  <2>2. CASE c # b /\ d # b
    <3>1. c \notin waiting /\ d \notin waiting /\ code[c][i].dst = code[d][j].dst
          BY <1>13, <2>1, <2>2
    <3>2. Distinct(g, code, waiting)
          BY <1>3 DEF Follows
    <3> QED
        BY <1>13, <3>1, <3>2, Zenon DEF Distinct
  <2>3. CASE c = b /\ d # b
    <3>1. new[c][i].dst = w[i - 1].next /\ w[i - 1].next \in Nat /\ next <= w[i - 1].next
          BY <1>4, <1>8, <1>13, <2>3, SMTT(30)
    <3>2. new[d][j].dst \in Int /\ new[d][j].dst < next
          BY <1>13, <2>1, <2>3
    <3> QED
        BY <1>3, <1>13, <3>1, <3>2
  <2>4. CASE c # b /\ d = b
    <3>1. new[d][j].dst = w[j - 1].next /\ w[j - 1].next \in Nat /\ next <= w[j - 1].next
          BY <1>4, <1>8, <1>13, <2>4, SMTT(30)
    <3>2. new[c][i].dst \in Int /\ new[c][i].dst < next
          BY <1>13, <2>1, <2>4
    <3> QED
        BY <1>3, <1>13, <3>1, <3>2
  <2>5. CASE c = b /\ d = b
    <3>1. i \in 1 .. N /\ j \in 1 .. N
          BY <1>4, <2>5
    <3>2. /\ new[c][i].dst = w[i - 1].next /\ w[i - 1].next \in Nat
          /\ new[d][j].dst = w[j - 1].next /\ w[j - 1].next \in Nat
          BY <1>8, <1>13, <2>5, <3>1
    <3>3. i < j => w[i - 1].next < w[j - 1].next
          BY <1>2, <1>13, <2>5, <3>1 DEF InScope, N
    <3>4. j < i => w[j - 1].next < w[i - 1].next
          BY <1>2, <1>13, <2>5, <3>1 DEF InScope, N
    <3>5. i < j \/ j < i \/ i = j
          BY <1>4, <3>1
    <3> QED
        BY <1>13, <2>5, <3>2, <3>3, <3>4, <3>5
  <2>6. CASE c = b
        BY <2>3, <2>5, <2>6, Zenon
  <2>7. CASE c # b
        BY <2>2, <2>4, <2>7, Zenon
  <2> QED
      BY <2>6, <2>7, Zenon
<1>14. Follows(g, new, rest, last)
  <2>1. Distinct(g, new, rest)
        BY <1>13 DEF Distinct
  <2>2. DOMAIN new = Blocks(source) /\ \A c \in Blocks(source) : DOMAIN new[c] = DOMAIN g.code[c]
        BY <1>2 DEF VisitedAs
  <2> HIDE DEF rest
  <2> QED
      BY <1>12, <2>1, <2>2 DEF Follows
<1> QED
    BY <1>1, <1>6, <1>7, <1>14, Zenon DEF last, N, Visited



-----------------------------------------------------------------------------
\* The walk down the tree.  What is still to be visited lies below a child that is still due.
Open(pa) == {x \in Blocks(source) : \E k \in DOMAIN pa : \E c \in pa[k].rest : c \in flow.dom[x]}

Tree(pa) ==
  /\ \A k \in DOMAIN pa : /\ pa[k].block \in Blocks(source) \ Open(pa)
                          /\ pa[k].rest \subseteq Children(flow, pa[k].block)
  /\ \A j, k \in DOMAIN pa : j < k => pa[j].block \in flow.dom[pa[k].block] \ {pa[k].block}

LEMMA TreeFacts ==
  ASSUME Sound
  PROVE  /\ \A p \in Blocks(source) : \A c \in Children(flow, p) :
              c \in Blocks(source) /\ c # p /\ p \in flow.dom[c] /\ flow.dom[c] \ {c} \subseteq flow.dom[p]
         /\ \A b \in Blocks(source) : b \in flow.dom[b] /\ flow.dom[b] \subseteq Blocks(source)
         /\ \A b \in Blocks(source) : \A a \in flow.dom[b] : flow.dom[a] \subseteq flow.dom[b]
         /\ \A a, b \in Blocks(source) : a \in flow.dom[b] /\ b \in flow.dom[a] => a = b
         /\ flow.dom[Entry(source)] = {Entry(source)} /\ Entry(source) \in Blocks(source)
         /\ \A b \in Blocks(source) : Entry(source) \in flow.dom[b]
         /\ \A x \in Blocks(source) : \A b \in flow.dom[x] : b # x => \E c \in Children(flow, b) : c \in flow.dom[x]
<1>1. Flowing(source, flow) /\ WellFormed(source)
      BY DEF Sound, Flowing
<1>2. ASSUME NEW b \in Blocks(source)
      PROVE  b \in flow.dom[b] /\ flow.dom[b] \subseteq Blocks(source) /\ DOMAIN flow.dom = Blocks(source)
  <2>1. flow.dom[b] = {d \in Blocks(source) : d = b \/ b \notin ReachAvoiding(source, {d})}
        BY <1>1, FlowFacts
  <2>2. b \in flow.dom[b] /\ DOMAIN flow.dom = Blocks(source)
        BY <1>1, FlowFacts
  <2> QED
      BY <2>1, <2>2
<1>3. Entry(source) \in Blocks(source)
      BY <1>1, BlocksFinite
<1>4. DOMAIN flow.dom = Blocks(source)
      BY <1>2, <1>3
<1>5. \A p \in Blocks(source) : \A c \in Children(flow, p) :
        c \in Blocks(source) /\ c # p /\ p \in flow.dom[c] /\ flow.dom[c] \ {c} \subseteq flow.dom[p]
      BY <1>4 DEF Children
<1>6. ASSUME NEW x \in Blocks(source), NEW b \in flow.dom[x], b # x
      PROVE  \E c \in Children(flow, b) : c \in flow.dom[x]
      BY <1>1, <1>6, ChildOnWay
<1> QED
    BY <1>1, <1>2, <1>3, <1>5, <1>6, DominanceOrder

LEMMA TreeTop ==
  ASSUME Sound, NEW pa, Tree(pa), NEW n \in DOMAIN pa, NEW b \in pa[n].rest
  PROVE  /\ b \in Open(pa) /\ Open(pa) \subseteq Blocks(source)
         /\ \A a \in Blocks(source) : \A d \in flow.dom[a] : d \in Open(pa) => a \in Open(pa)
         /\ \A d \in flow.dom[b] : d \in Open(pa) => d = b
<1>1. pa[n].block \in Blocks(source) /\ pa[n].block \notin Open(pa) /\ b \in Children(flow, pa[n].block)
      BY DEF Tree
<1>2. b \in Blocks(source) /\ flow.dom[b] \ {b} \subseteq flow.dom[pa[n].block]
      BY <1>1, TreeFacts
<1>3. b \in Open(pa)
      BY <1>2, TreeFacts DEF Open
<1>4. ASSUME NEW a \in Blocks(source), NEW d \in flow.dom[a], d \in Open(pa) PROVE a \in Open(pa)
  <2>1. PICK k \in DOMAIN pa : \E c \in pa[k].rest : c \in flow.dom[d]
        BY <1>4 DEF Open
  <2>2. PICK c \in pa[k].rest : c \in flow.dom[d]
        BY <2>1
  <2>3. c \in flow.dom[a]
        BY <2>2, TreeFacts
  <2> QED
      BY <2>3 DEF Open
<1>5. ASSUME NEW d \in flow.dom[b], d \in Open(pa), d # b PROVE FALSE
      BY <1>1, <1>2, <1>4, <1>5
<1> QED
    BY <1>3, <1>4, <1>5 DEF Open

\* The path one activation further down.
Deeper(pa, b, st) ==
  Append(IF pa = <<>> THEN <<>> ELSE [pa EXCEPT ![Len(pa)].rest = @ \ {b}],
         [block |-> b, rest |-> Children(flow, b), outside |-> st])

Deepened(pa, on, b, st) ==
  /\ DOMAIN on = 1 .. Len(pa) + 1 /\ Len(on) = Len(pa) + 1
  /\ \A k \in 1 .. Len(pa) :
       /\ on[k].block = pa[k].block
       /\ on[k].outside = pa[k].outside
       /\ on[k].rest = IF k = Len(pa) THEN pa[k].rest \ {b} ELSE pa[k].rest
  /\ on[Len(pa) + 1] = [block |-> b, rest |-> Children(flow, b), outside |-> st]

LEMMA TreeDown ==
  ASSUME Sound, NEW pa, Tree(pa), Len(pa) \in Nat, DOMAIN pa = 1 .. Len(pa), Len(pa) # 0,
         NEW b \in pa[Len(pa)].rest, NEW on, NEW st, Deepened(pa, on, b, st)
  PROVE  Open(on) = Open(pa) \ {b} /\ Tree(on)
<1> DEFINE n == Len(pa)
<1>0. /\ n \in Nat /\ DOMAIN pa = 1 .. n /\ n # 0 /\ b \in pa[n].rest /\ DOMAIN on = 1 .. n + 1
      /\ \A k \in 1 .. n : on[k].block = pa[k].block /\ on[k].rest = IF k = n THEN pa[k].rest \ {b} ELSE pa[k].rest
      /\ on[n + 1].block = b /\ on[n + 1].rest = Children(flow, b)
  <2>1. /\ DOMAIN on = 1 .. n + 1 /\ on[n + 1] = [block |-> b, rest |-> Children(flow, b), outside |-> st]
        /\ \A k \in 1 .. n : on[k].block = pa[k].block /\ on[k].rest = IF k = n THEN pa[k].rest \ {b} ELSE pa[k].rest
        BY Zenon DEF Deepened
  <2>2. on[n + 1].block = b /\ on[n + 1].rest = Children(flow, b)
    <3> DEFINE last == on[n + 1]
               below == Children(flow, b)
    <3>1. last = [block |-> b, rest |-> below, outside |-> st]
          BY <2>1
    <3> HIDE DEF last, below
    <3>2. last.block = b /\ last.rest = below
          BY <3>1
    <3> QED
        BY <3>2, SMTT(30) DEF last, below
  <2>3. n \in Nat /\ DOMAIN pa = 1 .. n /\ n # 0 /\ b \in pa[n].rest
        OBVIOUS
  <2> HIDE DEF n
  <2> QED
      BY <2>1, <2>2, <2>3, ZenonT(40)
<1> HIDE DEF n
<1> USE <1>0
<1>1. n \in DOMAIN pa /\ n \in 1 .. n /\ n + 1 \in 1 .. n + 1 /\ n + 1 \notin 1 .. n
      OBVIOUS
<1>2. /\ b \in Open(pa) /\ Open(pa) \subseteq Blocks(source)
      /\ \A a \in Blocks(source) : \A d \in flow.dom[a] : d \in Open(pa) => a \in Open(pa)
      /\ \A d \in flow.dom[b] : d \in Open(pa) => d = b
      BY <1>1, TreeTop
<1>3. \A k \in 1 .. n + 1 : k \in 1 .. n \/ k = n + 1
      OBVIOUS
<1>4. \A k \in 1 .. n : k \in 1 .. n + 1
      OBVIOUS
<1>5. \A k \in 1 .. n : /\ pa[k].block \in Blocks(source) /\ pa[k].block \notin Open(pa)
                        /\ pa[k].rest \subseteq Children(flow, pa[k].block)
      BY DEF Tree
<1>6. ASSUME NEW k \in 1 .. n, NEW c \in pa[k].rest PROVE c \in Open(pa) /\ c \in Blocks(source)
      BY <1>6, <1>2, TreeTop
<1>7. ASSUME NEW k \in 1 .. n, k # n PROVE b \notin pa[k].rest
  <2> SUFFICES ASSUME b \in pa[k].rest PROVE FALSE
      OBVIOUS
  <2> DEFINE p == pa[k].block
             q == pa[n].block
  <2>1. k < n
        BY <1>7
  <2>2. p \in flow.dom[q] /\ p # q
        BY <1>1, <2>1 DEF Tree
  <2>3. p \in Blocks(source) /\ q \in Blocks(source) /\ b \in Children(flow, p) /\ b \in Children(flow, q)
        BY <1>1, <1>5
  <2> HIDE DEF p, q
  <2>4. q \in flow.dom[p]
        BY <2>3, TreeFacts
  <2> QED
      BY <2>2, <2>3, <2>4, TreeFacts
<1>8. ASSUME NEW x \in Open(pa), x # b PROVE x \in Open(on)
  <2>1. PICK k \in 1 .. n : \E c \in pa[k].rest : c \in flow.dom[x]
        BY DEF Open
  <2>2. PICK c \in pa[k].rest : c \in flow.dom[x]
        BY <2>1
  <2>3. x \in Blocks(source)
        BY <1>2
  <2>4. CASE c = b
    <3>1. PICK d \in Children(flow, b) : d \in flow.dom[x]
          BY <1>8, <2>2, <2>3, <2>4, TreeFacts
    <3> QED
        BY <1>1, <2>3, <3>1 DEF Open
  <2>5. CASE c # b
    <3>1. c \in on[k].rest /\ k \in DOMAIN on
          BY <1>4, <2>2, <2>5
    <3> QED
        BY <2>2, <2>3, <3>1 DEF Open
  <2> QED
      BY <2>4, <2>5
<1>9. ASSUME NEW x \in Open(on) PROVE x \in Open(pa) /\ x # b
  <2>1. PICK k \in 1 .. n + 1 : \E c \in on[k].rest : c \in flow.dom[x]
        BY DEF Open
  <2>2. PICK c \in on[k].rest : c \in flow.dom[x]
        BY <2>1
  <2>3. x \in Blocks(source) /\ b \in Blocks(source)
        BY <1>2 DEF Open
  <2>4. CASE k = n + 1
    <3>1. c \in Children(flow, b) /\ c \in Blocks(source) /\ c # b /\ b \in flow.dom[c]
          BY <2>2, <2>3, <2>4, TreeFacts
    <3>2. b \in flow.dom[x]
          BY <2>2, <2>3, <3>1, TreeFacts
    <3>3. x # b
          BY <2>2, <2>3, <3>1, TreeFacts
    <3> QED
        BY <1>2, <2>3, <3>2, <3>3
  <2>5. CASE k \in 1 .. n
    <3>1. c \in pa[k].rest /\ c # b
          BY <1>7, <2>2, <2>5
    <3>2. x \in Open(pa) /\ c \in Open(pa)
          BY <1>6, <2>2, <2>3, <2>5, <3>1 DEF Open
    <3> QED
        BY <1>2, <2>2, <3>1, <3>2
  <2> QED
      BY <1>3, <2>4, <2>5
<1>10. Open(on) = Open(pa) \ {b}
       BY <1>8, <1>9
<1>11. ASSUME NEW k \in 1 .. n + 1
       PROVE  on[k].block \in Blocks(source) \ Open(on) /\ on[k].rest \subseteq Children(flow, on[k].block)
  <2>1. CASE k \in 1 .. n
    <3>1. on[k].block = pa[k].block /\ on[k].rest \subseteq pa[k].rest
          BY <2>1
    <3> QED
        BY <1>5, <1>10, <2>1, <3>1
  <2>2. CASE k = n + 1
        BY <1>2, <1>10, <2>2
  <2> QED
      BY <1>3, <2>1, <2>2
<1>12. ASSUME NEW j \in 1 .. n + 1, NEW k \in 1 .. n + 1, j < k
       PROVE  on[j].block \in flow.dom[on[k].block] \ {on[k].block}
  <2>1. j \in 1 .. n
        BY <1>12
  <2>2. CASE k \in 1 .. n
        BY <1>12, <2>1, <2>2 DEF Tree
  <2>3. CASE k = n + 1
    <3> DEFINE p == pa[j].block
               q == pa[n].block
    <3>1. p \in Blocks(source) /\ q \in Blocks(source) /\ p \notin Open(pa) /\ b \in Children(flow, q)
          BY <1>1, <1>5, <2>1
    <3>2. p \in flow.dom[q]
      <4>1. CASE j = n
            BY <3>1, <4>1, TreeFacts
      <4>2. CASE j # n
        <5>1. j < n
              BY <2>1, <4>2
        <5> QED
            BY <1>1, <2>1, <5>1 DEF Tree
      <4> QED
          BY <4>1, <4>2
    <3> HIDE DEF p, q
    <3>3. q \in flow.dom[b] /\ b \in Blocks(source)
          BY <3>1, TreeFacts
    <3>4. p \in flow.dom[b] /\ p # b
          BY <1>2, <3>1, <3>2, <3>3, TreeFacts
    <3>5. on[j].block = p /\ on[k].block = b
          BY <2>1, <2>3 DEF p
    <3> QED
        BY <3>4, <3>5
  <2> QED
      BY <1>3, <2>2, <2>3
<1> QED
    BY <1>10, <1>11, <1>12, SMTT(30) DEF Tree


\* The activations, with what was in scope around each.
Activations(next) ==
  [block : Blocks(source), rest : SUBSET Blocks(source), outside : [Renamed(source) -> Seq(Numbers(next))]]

Walk(g, code, pa, st, next) ==
  /\ pa \in Seq(Activations(next))
  /\ st \in [Renamed(source) -> Seq(Numbers(next))]
  /\ Tree(pa)
  /\ \A k \in DOMAIN pa : k # 1 =>
       Holds(pa[k].outside, g, code, pa[k - 1].block, Len(g.code[pa[k - 1].block]) + 1)
  /\ pa # <<>> => Holds(st, g, code, pa[Len(pa)].block, Len(g.code[pa[Len(pa)].block]) + 1)

\* The walk goes on with that much to visit.
Proceeds(g, code, pa, waiting, st, next) == Open(pa) = waiting /\ Walk(g, code, pa, st, next)

LEMMA WalkVisitable ==
  ASSUME Sound, NEW g, Placed(g, {}), NEW code, NEW pa, NEW st, NEW next \in Nat, source.lastTemp < next,
         Follows(g, code, Open(pa), next), Walk(g, code, pa, st, next), pa # <<>>, NEW b \in pa[Len(pa)].rest
  PROVE  Visitable(g, code, Open(pa), next, st, b)
<1> DEFINE n == Len(pa)
           p == pa[n].block
<1>1. n \in DOMAIN pa
      BY DEF Walk
<1>2. Tree(pa) /\ st \in [Renamed(source) -> Seq(Numbers(next))]
      BY DEF Walk
<1>3. /\ b \in Open(pa) /\ Open(pa) \subseteq Blocks(source)
      /\ \A a \in Blocks(source) : \A d \in flow.dom[a] : d \in Open(pa) => a \in Open(pa)
      /\ \A d \in flow.dom[b] : d \in Open(pa) => d = b
      BY <1>1, <1>2, TreeTop
<1>4. p \in Blocks(source) /\ b \in Children(flow, p)
      BY <1>1, <1>2 DEF Tree
<1>5. Holds(st, g, code, p, Len(g.code[p]) + 1)
      BY DEF Walk
<1>6. Holds(st, g, code, b, 1)
  <2> HIDE DEF p
  <2> QED
      BY <1>4, <1>5, HoldsDown
<1> QED
    BY <1>2, <1>3, <1>6 DEF Visitable

LEMMA ActivationsGrow ==
  ASSUME NEW next \in Nat, NEW later \in Nat, next <= later, source.lastTemp \in Nat
  PROVE  Activations(next) \subseteq Activations(later)
<1>1. Numbers(next) \subseteq Numbers(later)
      BY DEF Numbers
<1>2. Seq(Numbers(next)) \subseteq Seq(Numbers(later))
      BY <1>1
<1>3. [Renamed(source) -> Seq(Numbers(next))] \subseteq [Renamed(source) -> Seq(Numbers(later))]
      BY <1>2
<1> DEFINE A == [Renamed(source) -> Seq(Numbers(next))]
           B == [Renamed(source) -> Seq(Numbers(later))]
<1> HIDE DEF A, B
<1>4. [block : Blocks(source), rest : SUBSET Blocks(source), outside : A] \subseteq
        [block : Blocks(source), rest : SUBSET Blocks(source), outside : B]
      BY <1>3, SMTT(30) DEF A, B
<1> QED
    BY <1>4 DEF A, B, Activations

LEMMA DeeperShape ==
  ASSUME NEW X, NEW Y, NEW pa \in Seq([block : X, rest : SUBSET X, outside : Y]), NEW b, NEW st
  PROVE  /\ Deepened(pa, Deeper(pa, b, st), b, st)
         /\ b \in X /\ Children(flow, b) \subseteq X /\ st \in Y =>
              Deeper(pa, b, st) \in Seq([block : X, rest : SUBSET X, outside : Y])
<1> DEFINE A == [block : X, rest : SUBSET X, outside : Y]
           n == Len(pa)
           outer == IF pa = <<>> THEN <<>> ELSE [pa EXCEPT ![n].rest = @ \ {b}]
           act == [block |-> b, rest |-> Children(flow, b), outside |-> st]
<1>1. n \in Nat /\ DOMAIN pa = 1 .. n /\ (pa = <<>> <=> n = 0) /\ \A k \in 1 .. n : pa[k] \in A
  <2>1. pa \in Seq(A)
        OBVIOUS
  <2> HIDE DEF A
  <2> QED
      BY <2>1
<1>2. \A k \in 1 .. n : pa[k] \in A
      BY <1>1
<1>3. ASSUME NEW r \in A
      PROVE  /\ [r EXCEPT !.rest = @ \ {b}] \in A
             /\ [r EXCEPT !.rest = @ \ {b}].block = r.block
             /\ [r EXCEPT !.rest = @ \ {b}].outside = r.outside
             /\ [r EXCEPT !.rest = @ \ {b}].rest = r.rest \ {b}
      OBVIOUS
<1>4. act.block = b /\ act.rest = Children(flow, b) /\ act.outside = st
      OBVIOUS
<1>5. b \in X /\ Children(flow, b) \subseteq X /\ st \in Y => act \in A
      OBVIOUS
<1>6. outer = IF n = 0 THEN <<>> ELSE [pa EXCEPT ![n] = [pa[n] EXCEPT !.rest = @ \ {b}]]
      BY <1>1
<1> HIDE DEF act, outer, A
<1>7. outer \in Seq(A) /\ Len(outer) = n
  <2>1. CASE n = 0
        BY <1>6, <2>1
  <2>2. CASE n # 0
    <3>1. n \in 1 .. n
          BY <1>1, <2>2
    <3> DEFINE e == [pa[n] EXCEPT !.rest = @ \ {b}]
    <3>2. e \in A
          BY <1>2, <1>3, <3>1
    <3> HIDE DEF e
    <3>3. pa \in Seq(A)
          BY DEF A
    <3>4. outer = [pa EXCEPT ![n] = e]
          BY <1>6, <2>2 DEF e
    <3> QED
        BY <1>1, <3>1, <3>2, <3>3, <3>4
  <2> QED
      BY <2>1, <2>2
<1>8. ASSUME NEW k \in 1 .. n
      PROVE  /\ outer[k].block = pa[k].block
             /\ outer[k].outside = pa[k].outside
             /\ outer[k].rest = IF k = n THEN pa[k].rest \ {b} ELSE pa[k].rest
  <2>1. n # 0
        BY <1>1
  <2> DEFINE e == [pa[n] EXCEPT !.rest = @ \ {b}]
  <2>2. outer = [pa EXCEPT ![n] = e]
        BY <1>6, <2>1
  <2>3. n \in 1 .. n
        BY <1>1, <2>1
  <2>4. e.block = pa[n].block /\ e.outside = pa[n].outside /\ e.rest = pa[n].rest \ {b}
        BY <1>2, <1>3, <2>3
  <2> HIDE DEF e
  <2>5. outer[k] = IF k = n THEN e ELSE pa[k]
        BY <1>1, <2>2
  <2> QED
      BY <2>4, <2>5
<1> DEFINE on == Append(outer, act)
<1>9. Deeper(pa, b, st) = on
      BY DEF Deeper, outer, act
<1>10. DOMAIN on = 1 .. n + 1 /\ Len(on) = n + 1 /\ on[n + 1] = act /\ \A k \in 1 .. n : on[k] = outer[k]
       BY <1>1, <1>7
<1>11. act \in A => on \in Seq(A)
       BY <1>7
<1> HIDE DEF on
<1> QED
    BY <1>1, <1>5, <1>8, <1>9, <1>10, <1>11, ZenonT(40) DEF act, A, Deepened

LEMMA WalkDown ==
  ASSUME Sound, NEW g, Placed(g, {}), NEW code, NEW pa, NEW st, NEW next \in Nat, source.lastTemp < next,
         Follows(g, code, Open(pa), next), Walk(g, code, pa, st, next), pa # <<>>, NEW b \in pa[Len(pa)].rest,
         NEW new, NEW inside, NEW later, Visited(g, code, Open(pa), next, b, new, inside, later)
  PROVE  Proceeds(g, new, Deeper(pa, b, st), Open(pa) \ {b}, inside, later)
<1>0. /\ later \in Nat
      /\ next <= later
      /\ inside \in [Renamed(source) -> Seq(Numbers(later))]
      /\ Holds(inside, g, new, b, Len(g.code[b]) + 1)
      /\ \A c \in Blocks(source) : \A i \in DOMAIN g.code[c] : c # b => new[c][i].dst = code[c][i].dst
      BY DEF Visited
<1> USE <1>0
<1> DEFINE n == Len(pa)
           on == Deeper(pa, b, st)
           Y == [Renamed(source) -> Seq(Numbers(later))]
<1>1. pa \in Seq(Activations(next)) /\ st \in [Renamed(source) -> Seq(Numbers(next))] /\ Tree(pa)
      BY DEF Walk
<1>2. source.lastTemp \in Nat
      BY DEF Sound
<1>3. Seq(Activations(next)) \subseteq Seq(Activations(later))
  <2>1. Activations(next) \subseteq Activations(later)
        BY <1>2, ActivationsGrow
  <2> QED
      BY <2>1
<1>4. st \in Y
  <2>1. Numbers(next) \subseteq Numbers(later)
        BY <1>2 DEF Numbers
  <2>2. Seq(Numbers(next)) \subseteq Seq(Numbers(later))
        BY <2>1
  <2> QED
      BY <1>1, <2>2
<1>5. n \in Nat /\ DOMAIN pa = 1 .. n /\ n # 0 /\ n \in 1 .. n
      BY <1>1
<1>6. b \in Blocks(source) /\ Children(flow, b) \subseteq Blocks(source) /\ b \in Open(pa)
        /\ \A a \in Blocks(source) : \A d \in flow.dom[a] : d \in Open(pa) => a \in Open(pa)
  <2>1. /\ b \in Open(pa) /\ Open(pa) \subseteq Blocks(source)
        /\ \A a \in Blocks(source) : \A d \in flow.dom[a] : d \in Open(pa) => a \in Open(pa)
        BY <1>1, <1>5, TreeTop
  <2> QED
      BY <2>1, TreeFacts
<1> HIDE DEF Y
<1>7. /\ DOMAIN on = 1 .. n + 1 /\ Len(on) = n + 1
      /\ \A k \in 1 .. n : /\ on[k].block = pa[k].block
                           /\ on[k].outside = pa[k].outside
                           /\ on[k].rest = IF k = n THEN pa[k].rest \ {b} ELSE pa[k].rest
      /\ on[n + 1] = [block |-> b, rest |-> Children(flow, b), outside |-> st]
      /\ on \in Seq(Activations(later))
  <2>1. pa \in Seq([block : Blocks(source), rest : SUBSET Blocks(source), outside : Y])
        BY <1>1, <1>3 DEF Activations, Y
  <2>2. on \in Seq([block : Blocks(source), rest : SUBSET Blocks(source), outside : Y])
    <3> HIDE DEF on
    <3> QED
        BY <1>4, <1>6, <2>1, DeeperShape DEF on
  <2>3. on \in Seq(Activations(later))
        BY <2>2 DEF Activations, Y
  <2>4. Deepened(pa, on, b, st)
        BY <2>1, DeeperShape
  <2> HIDE DEF on
  <2> QED
      BY <2>3, <2>4 DEF Deepened
<1> HIDE DEF on
<1>8. on[n + 1].block = b /\ on[n + 1].rest = Children(flow, b) /\ on[n + 1].outside = st
      BY <1>7
<1>9. Open(on) = Open(pa) \ {b} /\ Tree(on)
  <2>1. Deepened(pa, on, b, st)
        BY <1>7 DEF Deepened
  <2> QED
      BY <1>1, <1>5, <2>1, TreeDown
<1>10. ASSUME NEW k \in 1 .. n, NEW s, Holds(s, g, code, pa[k].block, Len(g.code[pa[k].block]) + 1)
       PROVE  Holds(s, g, new, pa[k].block, Len(g.code[pa[k].block]) + 1)
  <2> DEFINE p == pa[k].block
             e == Len(g.code[p]) + 1
  <2>1. p \in Blocks(source) /\ p \notin Open(pa)
        BY <1>1, <1>5 DEF Tree
  <2>2. b \notin flow.dom[p]
        BY <1>6, <2>1
  <2>3. \A d \in Blocks(source) : \A j \in DOMAIN g.code[d] : Ahead(d, j, p, e) => new[d][j].dst = code[d][j].dst
    <3>1. ASSUME NEW d \in Blocks(source), NEW j \in DOMAIN g.code[d], Ahead(d, j, p, e)
          PROVE  new[d][j].dst = code[d][j].dst
      <4>1. d # b
            BY <2>2, <3>1 DEF Ahead
      <4> QED
          BY <4>1
    <3> QED
        BY <3>1
  <2> HIDE DEF p, e
  <2>4. Holds(s, g, code, p, e)
        BY <1>10 DEF p, e
  <2>5. Holds(s, g, new, p, e)
        BY <2>3, <2>4, HoldsSame
  <2> QED
      BY <2>5 DEF p, e
<1>11. ASSUME NEW k \in DOMAIN on, k # 1
       PROVE  Holds(on[k].outside, g, new, on[k - 1].block, Len(g.code[on[k - 1].block]) + 1)
  <2>1. k - 1 \in 1 .. n /\ (k \in 1 .. n \/ k = n + 1) /\ (k = n + 1 => k - 1 = n)
    <3>1. k \in 1 .. n + 1 /\ k # 1 /\ n \in Nat
          BY <1>5, <1>7, <1>11
    <3> HIDE DEF n
    <3> QED
        BY <3>1, SMTT(30)
  <2>2. on[k - 1].block = pa[k - 1].block
        BY <1>7, <2>1
  <2>3. Holds(on[k].outside, g, code, pa[k - 1].block, Len(g.code[pa[k - 1].block]) + 1)
    <3>1. CASE k \in 1 .. n
      <4>1. Holds(pa[k].outside, g, code, pa[k - 1].block, Len(g.code[pa[k - 1].block]) + 1)
            BY <1>5, <1>11, <3>1 DEF Walk
      <4>2. on[k].outside = pa[k].outside
            BY <1>7, <3>1
      <4> QED
          BY <4>1, <4>2
    <3>2. CASE k = n + 1
      <4>1. Holds(st, g, code, pa[n].block, Len(g.code[pa[n].block]) + 1)
            BY DEF Walk
      <4> QED
          BY <1>8, <2>1, <3>2, <4>1
    <3> QED
        BY <2>1, <3>1, <3>2
  <2> QED
      BY <1>10, <2>1, <2>2, <2>3
<1>12. on # <<>> => Holds(inside, g, new, on[Len(on)].block, Len(g.code[on[Len(on)].block]) + 1)
       BY <1>7, <1>8
<1> QED
    BY <1>7, <1>9, <1>11, <1>12 DEF Walk, on, Proceeds


\* The walk begins at the entry, before which nothing is in scope.
LEMMA WalkStart ==
  ASSUME Sound, NEW g, Placed(g, {}), NEW code, NEW st, NEW next \in Nat, source.lastTemp < next,
         Follows(g, code, Blocks(source), next), st \in [Renamed(source) -> Seq(Numbers(next))],
         NEW b, b = Entry(source)
  PROVE  Visitable(g, code, Blocks(source), next, st, b)
<1>1. b \in Blocks(source) /\ flow.dom[b] = {b} /\ Holds(st, g, code, b, 1)
      BY TreeFacts, HoldsAtEntry
<1> QED
    BY <1>1 DEF Visitable

LEMMA WalkBegun ==
  ASSUME Sound, NEW g, NEW code, NEW st, NEW next \in Nat, st \in [Renamed(source) -> Seq(Numbers(next))],
         NEW b, b = Entry(source), NEW pa, pa = <<>>, NEW new, NEW inside, NEW later,
         Visited(g, code, Blocks(source), next, b, new, inside, later)
  PROVE  Proceeds(g, new, Deeper(pa, b, st), Blocks(source) \ {b}, inside, later)
<1> DEFINE act == [block |-> b, rest |-> Children(flow, b), outside |-> st]
           on == Deeper(pa, b, st)
           below == Children(flow, b)
<1>e. b \in Blocks(source) /\ flow.dom[b] = {b}
      BY TreeFacts
<1>0. /\ later \in Nat
      /\ next <= later
      /\ inside \in [Renamed(source) -> Seq(Numbers(later))]
      /\ Holds(inside, g, new, b, Len(g.code[b]) + 1)
      BY DEF Visited
<1> USE <1>0
<1>1. below \subseteq Blocks(source)
      BY <1>e, TreeFacts
<1>2. st \in [Renamed(source) -> Seq(Numbers(later))]
  <2>1. Numbers(next) \subseteq Numbers(later)
    <3>1. source.lastTemp \in Nat
          BY DEF Sound
    <3> QED
        BY <3>1 DEF Numbers
  <2>2. Seq(Numbers(next)) \subseteq Seq(Numbers(later))
        BY <2>1
  <2> QED
      BY <2>2
<1>3. act \in Activations(later)
  <2> DEFINE Y == [Renamed(source) -> Seq(Numbers(later))]
  <2>1. st \in Y
        BY <1>2
  <2> HIDE DEF Y, below
  <2>2. [block |-> b, rest |-> below, outside |-> st] \in
          [block : Blocks(source), rest : SUBSET Blocks(source), outside : Y]
        BY <1>e, <1>1, <2>1
  <2> QED
      BY <2>2 DEF Activations, Y, below
<1>4. on = Append(<<>>, act)
      BY DEF Deeper
<1>5. act.block = b /\ act.rest = below
      OBVIOUS
<1> HIDE DEF act, on
<1>6. on \in Seq(Activations(later)) /\ DOMAIN on = {1} /\ Len(on) = 1 /\ on[1] = act
      BY <1>3, <1>4
<1> HIDE DEF below
<1>7. Open(on) = Blocks(source) \ {b}
  <2>1. Open(on) = {x \in Blocks(source) : \E c \in below : c \in flow.dom[x]}
        BY <1>5, <1>6 DEF Open
  <2>2. ASSUME NEW x \in Blocks(source), x # b PROVE \E c \in below : c \in flow.dom[x]
    <3>1. b \in flow.dom[x]
          BY TreeFacts
    <3> QED
        BY <2>2, <3>1, TreeFacts DEF below
  <2>3. ASSUME NEW c \in below, c \in flow.dom[b] PROVE FALSE
    <3>1. c # b
          BY <1>e, TreeFacts DEF below
    <3> QED
        BY <1>e, <2>3, <3>1
  <2> QED
      BY <1>e, <2>1, <2>2, <2>3
<1>8. Tree(on)
  <2>1. on[1].block \in Blocks(source) \ Open(on) /\ on[1].rest \subseteq Children(flow, on[1].block)
        BY <1>e, <1>5, <1>6, <1>7 DEF below
  <2>2. \A j, k \in DOMAIN on : ~ (j < k)
        BY <1>6
  <2> QED
      BY <1>6, <2>1, <2>2 DEF Tree
<1>9. Walk(g, new, on, inside, later)
      BY <1>5, <1>6, <1>8 DEF Walk
<1> QED
    BY <1>7, <1>9 DEF on, Proceeds

\* The return from a block: what lies below it has been visited.
LEMMA WalkUp ==
  ASSUME Sound, NEW g, NEW code, NEW pa, NEW st, NEW next, Walk(g, code, pa, st, next), pa # <<>>,
         pa[Len(pa)].rest = {}
  PROVE  /\ Open(Front(pa)) = Open(pa)
         /\ Walk(g, code, Front(pa), pa[Len(pa)].outside, next)
         /\ Len(pa) = 1 => Front(pa) = <<>>
         /\ Len(pa) # 1 => Front(pa) # <<>>
<1> DEFINE n == Len(pa)
           on == Front(pa)
           A == Activations(next)
<1>1. pa \in Seq(A) /\ Tree(pa)
      BY DEF Walk
<1> HIDE DEF A
<1>2. n \in Nat /\ n # 0 /\ DOMAIN pa = 1 .. n /\ n \in 1 .. n /\ pa[n] \in A
      BY <1>1
<1>3. on \in Seq(A) /\ Len(on) = n - 1 /\ DOMAIN on = 1 .. n - 1 /\ \A k \in 1 .. n - 1 : on[k] = pa[k]
      BY <1>1, <1>2 DEF Front
<1> HIDE DEF n, on
<1>4. pa[n].outside \in [Renamed(source) -> Seq(Numbers(next))]
  <2> DEFINE Y == [Renamed(source) -> Seq(Numbers(next))]
             B == Blocks(source)
             r == pa[n]
  <2>1. r \in [block : B, rest : SUBSET B, outside : Y]
        BY <1>2 DEF A, Activations
  <2> HIDE DEF Y, B, r
  <2>2. r.outside \in Y
        BY <2>1
  <2> QED
      BY <2>2 DEF Y, r
<1>5. \A k \in 1 .. n : k \in 1 .. n - 1 \/ k = n
      BY <1>2
<1>6. \A k \in 1 .. n - 1 : k \in 1 .. n
      BY <1>2
<1>7. Open(on) = Open(pa)
  <2>1. pa[n].rest = {}
        BY DEF n
  <2>2. \A x : (\E k \in 1 .. n : \E c \in pa[k].rest : c \in flow.dom[x]) <=>
                 (\E k \in 1 .. n - 1 : \E c \in on[k].rest : c \in flow.dom[x])
        BY <1>3, <1>5, <1>6, <2>1
  <2> QED
      BY <1>2, <1>3, <2>2 DEF Open
<1>8. Tree(on)
      BY <1>1, <1>2, <1>3, <1>6, <1>7 DEF Tree
<1>9. ASSUME NEW k \in 1 .. n - 1, k # 1
      PROVE  Holds(on[k].outside, g, code, on[k - 1].block, Len(g.code[on[k - 1].block]) + 1)
  <2>1. k \in 1 .. n /\ k - 1 \in 1 .. n - 1
        BY <1>2, <1>9
  <2>2. Holds(pa[k].outside, g, code, pa[k - 1].block, Len(g.code[pa[k - 1].block]) + 1)
        BY <1>2, <1>9, <2>1 DEF Walk
  <2> QED
      BY <1>3, <2>1, <2>2
<1>10. ASSUME on # <<>>
       PROVE  Holds(pa[n].outside, g, code, on[Len(on)].block, Len(g.code[on[Len(on)].block]) + 1)
  <2>1. n # 1 /\ n - 1 \in 1 .. n - 1
    <3>1. Len(on) # 0
          BY <1>3, <1>10
    <3> QED
        BY <1>2, <1>3, <3>1
  <2>2. Holds(pa[n].outside, g, code, pa[n - 1].block, Len(g.code[pa[n - 1].block]) + 1)
        BY <1>2, <2>1 DEF Walk
  <2> QED
      BY <1>3, <2>1, <2>2
<1>11. (n = 1 => on = <<>>) /\ (n # 1 => on # <<>>)
  <2>1. on \in Seq(A)
        BY <1>3
  <2>2. Len(on) = 0 <=> on = <<>>
        BY <2>1
  <2>3. Len(on) = n - 1
        BY <1>3
  <2> QED
      BY <1>2, <2>2, <2>3
<1>12. Walk(g, code, on, pa[n].outside, next)
       BY <1>3, <1>4, <1>8, <1>9, <1>10 DEF Walk, A
<1> QED
    BY <1>7, <1>11, <1>12 DEF n, on

\* Before the walk every read finds a variable, and a variable finds its temp.
LEMMA FollowsAtFirst ==
  ASSUME Sound, NEW g, Placed(g, {}), NEW next
  PROVE  Follows(g, g.code, Blocks(source), next)
<1>1. ASSUME NEW b \in Blocks(source), NEW i \in DOMAIN g.code[b]
      PROVE  Matches(g, g.code, Blocks(source), next, b, i)
  <2>1. g.code[b][i] = Stm(g.code[b][i].kind, g.code[b][i].dst, g.code[b][i].op, g.code[b][i].src, g.code[b][i].labels)
        BY PlacedShape
  <2>2. ASSUME NEW k \in DOMAIN g.code[b][i].src, IsTemp(g.code[b][i].src[k])
        PROVE  ReadBlock(g, b, i, k) \in Blocks(source)
    <3>1. ReadsAt(g, g.code[b][i].src[k].temp, b, i, k)
          BY <2>2, SMTT(30) DEF ReadsAt
    <3> QED
        BY <3>1, ReadDefined
  <2> QED
      BY <2>1, <2>2 DEF Matches
<1>2. DOMAIN g.code = Blocks(source)
      BY Zenon DEF Placed
<1>3. Distinct(g, g.code, Blocks(source))
      BY SMTT(30) DEF Distinct
<1> QED
    BY <1>1, <1>2, <1>3 DEF Follows



-----------------------------------------------------------------------------
\* The code as a function of the blocks, with a sequence for each.
Shaped(code) ==
  /\ code = [b \in Blocks(source) |-> code[b]]
  /\ \A b \in Blocks(source) : code[b] \in Seq(ToSet(code[b]))

LEMMA PlacedShaped ==
  ASSUME NEW g, NEW rest, Placed(g, rest)
  PROVE  Shaped(g.code)
BY Zenon DEF Placed, PlacedBlock, Shaped

LEMMA VisitShaped ==
  ASSUME NEW code, Shaped(code), NEW b \in Blocks(source), NEW w, NEW end
  PROVE  Shaped(Visit(b, w, end, code))
<1> DEFINE inside == [code EXCEPT ![b] = [i \in DOMAIN code[b] |-> RenameStatement(w[i - 1], code[b][i])]]
           new == Visit(b, w, end, code)
           Renaming(c, i) == RenameArguments(end.stacks, b, inside[c][i])
<1>1. DOMAIN code = Blocks(source) /\ \A c \in Blocks(source) : code[c] \in Seq(ToSet(code[c]))
      BY DEF Shaped
<1>2. \A c \in Blocks(source) : Len(code[c]) \in Nat /\ DOMAIN code[c] = 1 .. Len(code[c])
      BY <1>1
<1>3. DOMAIN inside = Blocks(source)
      BY <1>1
<1>4. ASSUME NEW c \in Blocks(source)
      PROVE  inside[c] \in Seq(ToSet(inside[c])) /\ DOMAIN inside[c] = 1 .. Len(code[c])
  <2>1. CASE c = b
    <3> DEFINE n == Len(code[b])
               Now(i) == RenameStatement(w[i - 1], code[b][i])
               r == inside[b]
    <3>1. r = [i \in 1 .. n |-> Now(i)] /\ n \in Nat
          BY <1>1, <1>2
    <3> HIDE DEF Now, n, r
    <3>2. r \in Seq(ToSet(r)) /\ DOMAIN r = 1 .. n
          BY <3>1 DEF ToSet
    <3> QED
        BY <2>1, <3>2 DEF n, r
  <2>2. CASE c # b
        BY <1>1, <1>2, <2>2
  <2> QED
      BY <2>1, <2>2
<1> HIDE DEF inside
<1>5. new = [c \in Blocks(source) |->
               IF c \in flow.succ[b] THEN [i \in DOMAIN inside[c] |-> Renaming(c, i)] ELSE inside[c]]
      BY <1>3 DEF Visit, inside
<1> HIDE DEF Renaming, new
<1>6. ASSUME NEW c \in Blocks(source) PROVE new[c] \in Seq(ToSet(new[c]))
  <2>1. CASE c \in flow.succ[b]
    <3> DEFINE n == Len(code[c])
               r == new[c]
               Now(i) == Renaming(c, i)
    <3>1. n \in Nat
          BY <1>2
    <3>2. r = [i \in 1 .. n |-> Now(i)]
          BY <1>4, <1>5, <2>1
    <3> HIDE DEF n, r, Now
    <3>3. r \in Seq(ToSet(r))
          BY <3>1, <3>2 DEF ToSet
    <3> QED
        BY <3>3 DEF r
  <2>2. CASE c \notin flow.succ[b]
        BY <1>4, <1>5, <2>2
  <2> QED
      BY <2>1, <2>2
<1>7. new = [c \in Blocks(source) |-> new[c]]
      BY <1>5
<1> QED
    BY <1>6, <1>7 DEF Shaped, new

-----------------------------------------------------------------------------
\* No phi is there for nothing.
FollowsNeeds(g, f) ==
  g = [n \in 0 .. Cardinality(Statements(f)) |->
         IF n = 0 THEN {s \in Statements(f) : ~IsPhi(s)}
         ELSE g[n - 1] \cup {s \in Statements(f) : IsPhi(s) /\ \E u \in g[n - 1] : s.dst \in Uses(u)}]

LEMMA NeededLimit ==
  ASSUME NEW f, IsFiniteSet(Statements(f))
  PROVE  /\ {s \in Statements(f) : ~IsPhi(s)} \subseteq Needed(f)
         /\ Needed(f) \subseteq Statements(f)
         /\ \A s \in Statements(f) : \A u \in Needed(f) : IsPhi(s) /\ s.dst \in Uses(u) => s \in Needed(f)
         /\ \A C \in SUBSET Statements(f) :
              /\ {s \in Statements(f) : ~IsPhi(s)} \subseteq C
              /\ \A s \in Statements(f) : \A u \in C : IsPhi(s) /\ s.dst \in Uses(u) => s \in C
              => Needed(f) \subseteq C
<1> DEFINE U == Statements(f)
           I == {s \in U : ~IsPhi(s)}
           Onto(X) == {s \in U : IsPhi(s) /\ \E u \in X : s.dst \in Uses(u)}
           F == [X \in SUBSET U |-> Onto(X)]
           N == Cardinality(U)
           L == Needed(f)
<1>1. IsFiniteSet(U)
      OBVIOUS
<1>2. \A X \in SUBSET U : Onto(X) \in SUBSET U
      OBVIOUS
<1>3. I \in SUBSET U /\ F \in [SUBSET U -> SUBSET U]
  <2>1. I \in SUBSET U
        OBVIOUS
  <2> QED
      BY <1>2, <2>1
<1>4. Saturates(U, I, F)
      BY <1>1, <1>3 DEF Saturates
<1>5. \E g : FollowsNeeds(g, f)
  <2>1. PICK W \in [0 .. N -> SUBSET U] :
          W = [n \in 0 .. N |-> IF n = 0 THEN I ELSE W[n - 1] \cup F[W[n - 1]]]
    <3> HIDE DEF U, I, F
    <3> QED
        BY <1>4, SaturationDefined
  <2>2. N \in Nat
        BY <1>1, FS_CardinalityType
  <2>3. \A n \in 0 .. N : n # 0 => n - 1 \in 0 .. N /\ W[n - 1] \in SUBSET U
    <3> HIDE DEF N, U
    <3> QED
        BY <2>2
  <2>4. \A n \in 0 .. N : n # 0 => F[W[n - 1]] = Onto(W[n - 1])
    <3>1. \A X \in SUBSET U : F[X] = Onto(X)
          OBVIOUS
    <3> HIDE DEF N, U, F, Onto
    <3> QED
        BY <2>3, <3>1
  <2> HIDE DEF N
  <2>5. W = [n \in 0 .. N |-> IF n = 0 THEN I ELSE W[n - 1] \cup Onto(W[n - 1])]
    <3> HIDE DEF F, I, Onto
    <3> QED
        BY <2>1, <2>4
  <2>6. FollowsNeeds(W, f)
        BY <2>5 DEF FollowsNeeds, N
  <2> QED
      BY <2>6
<1> DEFINE W == CHOOSE g : FollowsNeeds(g, f)
<1>6. FollowsNeeds(W, f)
      BY <1>5
<1>7. L = W[N]
      BY DEF Needed, Rounds, FollowsNeeds
<1> HIDE DEF W
<1>8. LeastFixpoint(W[N], U, I, F)
  <2>1. N \in Nat
        BY <1>1, FS_CardinalityType
  <2>2. W = [n \in 0 .. N |-> IF n = 0 THEN I ELSE W[n - 1] \cup Onto(W[n - 1])]
        BY <1>6 DEF FollowsNeeds
  <2>3. \A X \in SUBSET U : F[X] = Onto(X)
        OBVIOUS
  <2> HIDE DEF I, F, U, Onto, N
  <2> DEFINE From(n) == IF n = 0 THEN I ELSE W[n - 1] \cup Onto(W[n - 1])
  <2>4. W = [n \in 0 .. N |-> From(n)]
        BY <2>2
  <2> HIDE DEF From
  <2>5. \A n \in 0 .. N : W[n] = From(n)
        BY <2>4
  <2>6. 0 \in 0 .. N
        BY <2>1
  <2>7. W[0] = I
        BY <2>5, <2>6 DEF From
  <2>8. ASSUME NEW n \in 0 .. N, n # 0, W[n - 1] \in SUBSET U PROVE W[n] = W[n - 1] \cup F[W[n - 1]]
    <3>1. W[n] = W[n - 1] \cup Onto(W[n - 1])
          BY <2>5, <2>8 DEF From
    <3> QED
        BY <2>3, <2>8, <3>1
  <2>9. Grows(W, U, I, F)
        BY <2>7, <2>8 DEF Grows, N
  <2> QED
      BY <1>4, <2>9, Saturation DEF N
<1>9. I \subseteq W[N] /\ W[N] \in SUBSET U /\ F[W[N]] \subseteq W[N]
      BY <1>8 DEF LeastFixpoint
<1>10. I \subseteq L /\ L \in SUBSET U /\ Onto(L) \subseteq L
  <2>1. F[W[N]] = Onto(W[N])
        BY <1>9
  <2> HIDE DEF F, I, U, Onto, L, N
  <2> QED
      BY <1>7, <1>9, <2>1
<1>11. ASSUME NEW C \in SUBSET U, I \subseteq C, Onto(C) \subseteq C PROVE L \subseteq C
  <2>1. \A X \in SUBSET C : F[X] \subseteq C
    <3>1. \A X \in SUBSET C : Onto(X) \subseteq Onto(C)
          OBVIOUS
    <3>2. \A X \in SUBSET C : F[X] = Onto(X)
          OBVIOUS
    <3> HIDE DEF F, Onto, U
    <3> QED
        BY <1>11, <3>1, <3>2
  <2> HIDE DEF F, I, U, Onto, L, N
  <2> QED
      BY <1>7, <1>8, <1>11, <2>1 DEF LeastFixpoint
<1>12. ASSUME NEW s \in U, NEW u \in L, IsPhi(s), s.dst \in Uses(u) PROVE s \in L
  <2>1. s \in Onto(L)
        BY <1>12
  <2> HIDE DEF Onto, L, U
  <2> QED
      BY <1>10, <2>1
<1>13. ASSUME NEW C \in SUBSET U, I \subseteq C,
              \A s \in U : \A u \in C : IsPhi(s) /\ s.dst \in Uses(u) => s \in C
       PROVE  L \subseteq C
  <2>1. Onto(C) \subseteq C
        BY <1>13
  <2> HIDE DEF Onto, L, U, I
  <2> QED
      BY <1>11, <1>13, <2>1
<1> QED
    BY <1>10, <1>12, <1>13


LEMMA StatementsFinite ==
  ASSUME Sound, NEW f, f.order = source.order, Shaped(f.code)
  PROVE  IsFiniteSet(Statements(f)) /\ Blocks(f) = Blocks(source)
<1>1. Blocks(f) = Blocks(source)
      BY DEF Blocks
<1>2. IsFiniteSet(Blocks(source))
  <2>1. WellFormed(source)
        BY DEF Sound, Flowing
  <2> QED
      BY <2>1, BlocksFinite
<1>3. ASSUME NEW b \in Blocks(source) PROVE IsFiniteSet(ToSet(f.code[b]))
  <2> DEFINE s == f.code[b]
             m == Len(s)
             R == ToSet(s)
  <2>1. s \in Seq(R)
        BY DEF Shaped
  <2>2. m \in Nat /\ DOMAIN s = 1 .. m /\ s \in Surjection(1 .. m, R)
    <3>1. m \in Nat /\ DOMAIN s = 1 .. m
          BY <2>1
    <3>2. s \in [1 .. m -> R] /\ \A x \in R : \E i \in 1 .. m : s[i] = x
      <4>1. s \in [1 .. m -> R]
        <5> HIDE DEF R
        <5> QED
            BY <2>1
      <4>2. \A x \in R : \E i \in DOMAIN s : s[i] = x
            BY DEF ToSet
      <4> QED
          BY <3>1, <4>1, <4>2
    <3> QED
        BY <3>1, <3>2 DEF Surjection
  <2> HIDE DEF m, R, s
  <2>3. IsFiniteSet(1 .. m)
    <3>1. m \in Int /\ 1 \in Int
          BY <2>2
    <3> QED
        BY <3>1, FS_Interval
  <2>4. IsFiniteSet(R)
        BY <2>2, <2>3, FS_Surjection
  <2> QED
      BY <2>4 DEF R, s
<1> DEFINE Q == {ToSet(f.code[b]) : b \in Blocks(source)}
<1>4. IsFiniteSet(Q)
  <2> DEFINE Of(b) == ToSet(f.code[b])
             table == [b \in Blocks(source) |-> Of(b)]
  <2>1. Q = {Of(b) : b \in Blocks(source)}
        OBVIOUS
  <2> HIDE DEF Of, Q
  <2>2. table \in Surjection(Blocks(source), Q)
        BY <2>1 DEF Surjection
  <2> QED
      BY <1>2, <2>2, FS_Surjection
<1>5. \A x \in Q : IsFiniteSet(x)
      BY <1>3
<1>6. Statements(f) = UNION Q
      BY <1>1 DEF Statements
<1> HIDE DEF Q
<1>7. IsFiniteSet(UNION Q)
      BY <1>4, <1>5, FS_UNION
<1> QED
    BY <1>1, <1>6, <1>7

LEMMA UsesAt ==
  ASSUME NEW s, NEW t
  PROVE  t \in Uses(s) <=> \E k \in DOMAIN s.src : IsTemp(s.src[k]) /\ s.src[k].temp = t
BY DEF Uses, ToSet

LEMMA NearestUnique ==
  ASSUME Sound, NEW g, Placed(g, {}), NEW v, NEW b, NEW i, NEW d, NEW j, NEW e, NEW k,
         Nearest(g, v, d, j, b, i), Nearest(g, v, e, k, b, i)
  PROVE  e = d /\ k = j
<1>1. d \in Blocks(source) /\ e \in Blocks(source) /\ j \in DOMAIN g.code[d] /\ k \in DOMAIN g.code[e]
      BY DEF Nearest, DefinesAt
<1>2. j \in Nat /\ k \in Nat
      BY <1>1, PlacedShape
<1>3. /\ (e = d /\ k = j) \/ Ahead(e, k, d, j)
      /\ (e = d /\ k = j) \/ Ahead(d, j, e, k)
      BY <1>1 DEF Nearest
<1>4. ASSUME Ahead(e, k, d, j), Ahead(d, j, e, k) PROVE FALSE
  <2>1. e = d
        BY <1>1, <1>4, TreeFacts DEF Ahead
  <2>2. k < j /\ j < k
        BY <1>4, <2>1 DEF Ahead
  <2> QED
      BY <1>2, <2>2
<1> QED
    BY <1>3, <1>4

\* A definition that a needed statement reads is needed.
LEMMA ReadNeeds ==
  ASSUME Sound, NEW g, Placed(g, {}), NEW f, f.order = source.order, Shaped(f.code), NEW next,
         Follows(g, f.code, {}, next), NEW v \in Renamed(source), NEW c, NEW i, NEW k, ReadsAt(g, v, c, i, k),
         f.code[c][i] \in Needed(f), NEW d, NEW j,
         Nearest(g, v, d, j, ReadBlock(g, c, i, k), ReadIndex(g, c, i, k))
  PROVE  f.code[d][j] \in Needed(f)
<1>1. c \in Blocks(source) /\ i \in DOMAIN g.code[c] /\ k \in DOMAIN g.code[c][i].src
        /\ IsTemp(g.code[c][i].src[k]) /\ g.code[c][i].src[k].temp = v
      BY DEF ReadsAt
<1>2. Matches(g, f.code, {}, next, c, i)
      BY <1>1 DEF Follows
<1> DEFINE term == f.code[c][i].src[k]
<1>3. Carries(g, f.code, term, v, ReadBlock(g, c, i, k), ReadIndex(g, c, i, k)) /\ k \in DOMAIN f.code[c][i].src
      BY <1>1, <1>2 DEF Matches
<1> HIDE DEF term
<1>4. PICK e \in Blocks(source) : \E m \in DOMAIN g.code[e] :
        Nearest(g, v, e, m, ReadBlock(g, c, i, k), ReadIndex(g, c, i, k)) /\ term = Temp(f.code[e][m].dst)
      BY <1>3 DEF Carries
<1>5. PICK m \in DOMAIN g.code[e] :
        Nearest(g, v, e, m, ReadBlock(g, c, i, k), ReadIndex(g, c, i, k)) /\ term = Temp(f.code[e][m].dst)
      BY <1>4
<1>6. e = d /\ m = j
      BY <1>5, NearestUnique
<1>7. f.code[d][j].dst \in Uses(f.code[c][i])
  <2>1. IsTemp(term) /\ term.temp = f.code[d][j].dst
        BY <1>5, <1>6 DEF Temp, IsTemp
  <2> QED
      BY <1>3, <2>1, UsesAt DEF term
<1>8. f.code[d][j] \in Statements(f)
  <2>1. d \in Blocks(source) /\ j \in DOMAIN f.code[d]
        BY <1>5, <1>6 DEF Follows
  <2>2. Blocks(f) = Blocks(source)
        BY DEF Blocks
  <2> QED
      BY <2>1, <2>2 DEF Statements, ToSet
<1>9. IsFiniteSet(Statements(f))
      BY StatementsFinite
<1> QED
    BY <1>7, <1>8, <1>9, NeededLimit


LEMMA NearestSame ==
  ASSUME NEW g, NEW v, NEW b, NEW i, NEW c, NEW m,
         \A e \in Blocks(source) : \A k \in DOMAIN g.code[e] :
           DefinesAt(g, v, e, k) => (Ahead(e, k, b, i) <=> Ahead(e, k, c, m)),
         NEW d, NEW j, Nearest(g, v, d, j, b, i)
  PROVE  Nearest(g, v, d, j, c, m)
BY DEF Nearest, DefinesAt

\* Between the phis of a block and a statement that no definition of v stands in front of.
LEMMA NearestThrough ==
  ASSUME Sound, NEW g, Placed(g, {}), NEW v \in Renamed(source), NEW c \in Blocks(source), NEW m \in Nat,
         m <= Len(source.code[c]), \A k \in 1 .. m : v \notin Defs(source.code[c][k]),
         NEW d, NEW j, Nearest(g, v, d, j, c, PhiCount(g, c) + 1)
  PROVE  Nearest(g, v, d, j, c, PhiCount(g, c) + 1 + m)
<1> DEFINE P == PhiCount(g, c)
<1>1. P \in Nat /\ DOMAIN g.code[c] = 1 .. Len(g.code[c]) /\ Len(g.code[c]) = P + Len(source.code[c])
      BY PlacedShape
<1>2. v # NoTemp
      BY DEF Renamed, Defined, Defs
<1>3. ASSUME NEW k \in DOMAIN g.code[c], DefinesAt(g, v, c, k), k < P + 1 + m
      PROVE  k < P + 1
  <2> SUFFICES ASSUME ~ (k < P + 1) PROVE FALSE
      OBVIOUS
  <2>1. k \in Nat /\ ~ (k <= P) /\ k - P \in 1 .. m
        BY <1>1, <1>3
  <2>2. ~IsPhi(g.code[c][k])
        BY <2>1, PlacedShape
  <2>3. g.code[c][k] = source.code[c][k - P]
        BY <2>2, PlacedShape
  <2>4. v \in Defs(source.code[c][k - P])
        BY <1>2, <1>3, <2>3 DEF DefinesAt, Defs
  <2> QED
      BY <2>1, <2>4
<1>4. ASSUME NEW e \in Blocks(source), NEW k \in DOMAIN g.code[e], DefinesAt(g, v, e, k)
      PROVE  Ahead(e, k, c, P + 1) <=> Ahead(e, k, c, P + 1 + m)
  <2>1. CASE e # c
        BY <2>1 DEF Ahead
  <2>2. CASE e = c
    <3>1. k \in Nat
          BY <1>1, <2>2
    <3>2. k < P + 1 => k < P + 1 + m
          BY <1>1, <3>1
    <3>3. k < P + 1 + m => k < P + 1
          BY <1>3, <1>4, <2>2
    <3> QED
        BY <2>2, <3>2, <3>3 DEF Ahead
  <2> QED
      BY <2>1, <2>2
<1> HIDE DEF P
<1>5. Nearest(g, v, d, j, c, P + 1)
      BY DEF P
<1>6. Nearest(g, v, d, j, c, P + 1 + m)
      BY <1>4, <1>5, NearestSame
<1> QED
    BY <1>6 DEF P

\* A phi is the nearest definition of its variable behind the phis of its block.
LEMMA PhiNearest ==
  ASSUME Sound, NEW g, Placed(g, {}), NEW v \in Defined(source), NEW c \in Blocks(source), NEW i \in DOMAIN g.code[c],
         i <= PhiCount(g, c), g.code[c][i].dst = v
  PROVE  Nearest(g, v, c, i, c, PhiCount(g, c) + 1)
<1>1. i \in Nat /\ PhiCount(g, c) \in Nat /\ i < PhiCount(g, c) + 1
  <2>1. DOMAIN g.code[c] = 1 .. Len(g.code[c]) /\ Len(g.code[c]) \in Nat /\ PhiCount(g, c) \in Nat
        BY PlacedShape
  <2> QED
      BY <2>1
<1>2. DefinesAt(g, v, c, i) /\ Ahead(c, i, c, PhiCount(g, c) + 1)
      BY <1>1, TreeFacts DEF DefinesAt, Ahead
<1>3. ASSUME NEW x \in Blocks(source), NEW y \in DOMAIN g.code[x], DefinesAt(g, v, x, y),
             Ahead(x, y, c, PhiCount(g, c) + 1)
      PROVE  (x = c /\ y = i) \/ Ahead(x, y, c, i)
  <2>1. CASE x = c
    <3>1. y \in Nat
          BY <2>1, PlacedShape
    <3>2. y <= PhiCount(g, c)
          BY <1>1, <1>3, <2>1, <3>1 DEF Ahead
    <3>3. y = i
          BY <1>3, <2>1, <3>2, PlacedShape DEF DefinesAt
    <3> QED
        BY <2>1, <3>3
  <2>2. CASE x # c
        BY <1>3, <2>2 DEF Ahead
  <2> QED
      BY <2>1, <2>2
<1> QED
    BY <1>2, <1>3 DEF Nearest

\* Over an edge to a block without a phi of a variable that is live there, the same definitions
\* come before: nothing of the variable ends its dominance at the edge.
LEMMA AheadAcross ==
  ASSUME Sound, NEW g, Placed(g, {}), NEW v \in Renamed(source), NEW a \in Blocks(source),
         NEW c \in flow.succ[a], v \in flow.liveIn[c], c \notin PhiBlocks(v)
  PROVE  \A x \in Blocks(source) : \A y \in DOMAIN g.code[x] : DefinesAt(g, v, x, y) =>
           (Ahead(x, y, a, Len(g.code[a]) + 1) <=> Ahead(x, y, c, PhiCount(g, c) + 1))
<1>1. Flowing(source, flow)
      BY DEF Sound
<1>2. c \in Blocks(source) /\ a \in flow.pred[c] /\ DOMAIN flow.dom = Blocks(source)
  <2>1. flow.succ[a] = Exits(source, a) /\ c \in Blocks(source)
        BY <1>1, FlowFacts
  <2>2. flow.pred[c] = {x \in Blocks(source) : c \in Exits(source, x)} /\ DOMAIN flow.dom = Blocks(source)
        BY <1>1, <2>1, FlowFacts
  <2> QED
      BY <2>1, <2>2
<1>3. v \in Defined(source)
      BY DEF Renamed
<1> SUFFICES ASSUME NEW x \in Blocks(source), NEW y \in DOMAIN g.code[x], DefinesAt(g, v, x, y)
             PROVE  Ahead(x, y, a, Len(g.code[a]) + 1) <=> Ahead(x, y, c, PhiCount(g, c) + 1)
    OBVIOUS
<1>4. ASSUME x \in flow.dom[a] PROVE x # c /\ x \in flow.dom[c]
  <2>1. x \in DefBlocks(v) \cup PhiBlocks(v)
        BY <1>3, PlacedDefines
  <2>2. c \notin Frontier(flow, x)
        BY <2>1, PhiLimit
  <2> QED
      BY <1>2, <1>4, <2>2 DEF Frontier
<1>5. ASSUME x # c, x \in flow.dom[c] PROVE x \in flow.dom[a]
      BY <1>1, <1>2, <1>5, DominatesBefore
<1>6. Ahead(x, y, a, Len(g.code[a]) + 1) <=> x \in flow.dom[a]
  <2>1. x = a => y < Len(g.code[a]) + 1
        BY PlacedShape
  <2> QED
      BY <2>1 DEF Ahead
<1>7. Ahead(x, y, c, PhiCount(g, c) + 1) <=> x \in flow.dom[c] /\ x # c
  <2>1. x = c => ~ (y < PhiCount(g, c) + 1)
    <3> SUFFICES ASSUME x = c, y < PhiCount(g, c) + 1 PROVE FALSE
        OBVIOUS
    <3>1. y \in Nat /\ PhiCount(g, c) \in Nat
          BY <1>2, PlacedShape
    <3>2. y <= PhiCount(g, c)
          BY <3>1
    <3> QED
        BY <1>3, <3>2, PlacedDefines
  <2> QED
      BY <2>1 DEF Ahead
<1> QED
    BY <1>4, <1>5, <1>6, <1>7

\* Where a renamed variable is live, the nearest version is needed.
LEMMA LiveNeeded ==
  ASSUME Sound, NEW g, Placed(g, {}), NEW f, f.order = source.order, Shaped(f.code), NEW next,
         Follows(g, f.code, {}, next), NEW v \in Renamed(source), NEW b \in Blocks(source), v \in flow.liveIn[b],
         NEW d, NEW j, Nearest(g, v, d, j, b, PhiCount(g, b) + 1)
  PROVE  f.code[d][j] \in Needed(f)
<1> DEFINE B == Blocks(source)
           Served(c) == \A e \in B : \A k \in DOMAIN g.code[e] :
                          Nearest(g, v, e, k, c, PhiCount(g, c) + 1) => f.code[e][k] \in Needed(f)
           C == {c \in B : v \in flow.liveIn[c] /\ Served(c)}
<1>1. v \in Defined(source) /\ v # NoTemp
      BY DEF Renamed, Defined, Defs
<1>2. /\ \A c \in B : \A i \in DOMAIN source.code[c] :
           v \in Uses(source.code[c][i]) /\ (\A k \in 1 .. i - 1 : v \notin Defs(source.code[c][k]))
             => v \in flow.liveIn[c]
      /\ \A a \in B : \A c \in flow.succ[a] :
           v \in flow.liveIn[c] /\ Transparent(source, a, v) => v \in flow.liveIn[a]
      BY LiveFacts
<1>3. IsFiniteSet(Statements(f))
      BY StatementsFinite
<1>4. ASSUME NEW c \in B, NEW i \in DOMAIN source.code[c], v \in Uses(source.code[c][i]),
             \A k \in 1 .. i - 1 : v \notin Defs(source.code[c][k])
      PROVE  c \in C
  <2>1. v \in flow.liveIn[c]
        BY <1>2, <1>4
  <2>2. ASSUME NEW e \in B, NEW k \in DOMAIN g.code[e], Nearest(g, v, e, k, c, PhiCount(g, c) + 1)
        PROVE  f.code[e][k] \in Needed(f)
    <3> DEFINE P == PhiCount(g, c)
    <3>1. P \in Nat /\ i + P \in DOMAIN g.code[c] /\ g.code[c][i + P] = source.code[c][i]
            /\ DOMAIN source.code[c] = 1 .. Len(source.code[c]) /\ Len(source.code[c]) \in Nat
          BY PlacedShape, SourceCode
    <3>2. ~IsPhi(source.code[c][i])
          BY SourceCode
    <3> HIDE DEF P
    <3>3. i - 1 \in Nat /\ i - 1 <= Len(source.code[c]) /\ P + 1 + (i - 1) = i + P
          BY <3>1
    <3>4. Nearest(g, v, e, k, c, P + 1 + (i - 1))
          BY <1>4, <2>2, <3>3, NearestThrough DEF P
    <3>5. PICK m \in DOMAIN g.code[c][i + P].src :
            IsTemp(g.code[c][i + P].src[m]) /\ g.code[c][i + P].src[m].temp = v
          BY <1>4, <3>1, UsesAt
    <3>6. ReadsAt(g, v, c, i + P, m)
          BY <3>1, <3>5 DEF ReadsAt
    <3>7. ReadBlock(g, c, i + P, m) = c /\ ReadIndex(g, c, i + P, m) = i + P
          BY <3>1, <3>2 DEF ReadBlock, ReadIndex
    <3>8. f.code[c][i + P] \in Needed(f)
      <4>1. Matches(g, f.code, {}, next, c, i + P)
            BY <3>1 DEF Follows
      <4>2. f.code[c][i + P].kind = g.code[c][i + P].kind
            BY <4>1 DEF Matches, Stm
      <4>3. ~IsPhi(f.code[c][i + P])
            BY <3>1, <3>2, <4>2 DEF IsPhi
      <4>4. f.code[c][i + P] \in Statements(f)
        <5>1. DOMAIN f.code[c] = DOMAIN g.code[c]
              BY DEF Follows
        <5>2. Blocks(f) = Blocks(source)
              BY DEF Blocks
        <5> QED
            BY <3>1, <5>1, <5>2 DEF Statements, ToSet
      <4> QED
          BY <1>3, <4>3, <4>4, NeededLimit
    <3>9. Nearest(g, v, e, k, ReadBlock(g, c, i + P, m), ReadIndex(g, c, i + P, m))
          BY <3>3, <3>4, <3>7
    <3> QED
        BY <3>6, <3>8, <3>9, ReadNeeds
  <2> QED
      BY <2>1, <2>2
<1>5. ASSUME NEW a \in B, NEW c \in flow.succ[a], c \in C, Transparent(source, a, v)
      PROVE  a \in C
  <2>0. c \in B /\ v \in flow.liveIn[c] /\ Served(c)
        BY <1>5
  <2>1. v \in flow.liveIn[a]
        BY <1>2, <1>5, <2>0
  <2>2. Flowing(source, flow)
        BY DEF Sound
  <2>3. a \in flow.pred[c]
    <3>1. flow.succ[a] = Exits(source, a)
          BY <2>2, FlowFacts
    <3>2. flow.pred[c] = {x \in B : c \in Exits(source, x)}
          BY <2>0, <2>2, FlowFacts
    <3> QED
        BY <3>1, <3>2
  <2>4. ASSUME NEW e \in B, NEW k \in DOMAIN g.code[e], Nearest(g, v, e, k, a, PhiCount(g, a) + 1)
        PROVE  f.code[e][k] \in Needed(f)
    <3> DEFINE P == PhiCount(g, a)
               End == Len(g.code[a]) + 1
    <3>1. P \in Nat /\ Len(g.code[a]) = P + Len(source.code[a]) /\ Len(source.code[a]) \in Nat
            /\ DOMAIN source.code[a] = 1 .. Len(source.code[a])
          BY PlacedShape, SourceCode
    <3>2. Nearest(g, v, e, k, a, End)
      <4> DEFINE m == Len(source.code[a])
      <4>1. m \in Nat /\ m <= m /\ \A l \in 1 .. m : v \notin Defs(source.code[a][l])
            BY <1>5, <3>1 DEF Transparent
      <4>2. Nearest(g, v, e, k, a, PhiCount(g, a) + 1 + m)
        <5> HIDE DEF m
        <5>1. m <= Len(source.code[a])
              BY <4>1 DEF m
        <5> QED
            BY <2>4, <4>1, <5>1, NearestThrough
      <4>3. End = PhiCount(g, a) + 1 + m
            BY <3>1
      <4> HIDE DEF m, End
      <4> QED
          BY <4>2, <4>3
    <3>3. DefinesAt(g, v, e, k) /\ e \in flow.dom[a]
          BY <3>2 DEF Nearest, Ahead
    <3>4. CASE c \in PhiBlocks(v)
      <4>1. PICK i \in DOMAIN g.code[c] : i <= PhiCount(g, c) /\ g.code[c][i].dst = v
            BY <1>1, <2>0, <3>4, PlacedShape
      <4>2. Nearest(g, v, c, i, c, PhiCount(g, c) + 1)
            BY <1>1, <2>0, <4>1, PhiNearest
      <4>3. f.code[c][i] \in Needed(f)
            BY <2>0, <4>1, <4>2
      <4>4. IsPhi(g.code[c][i]) /\ PhiShape(g.code[c][i], c)
            BY <2>0, <4>1, PlacedShape
      <4>5. PICK m \in DOMAIN g.code[c][i].labels : g.code[c][i].labels[m] = a
            BY <2>3, <4>4 DEF PhiShape, ToSet
      <4>6. m \in DOMAIN g.code[c][i].src /\ g.code[c][i].src[m] = Temp(v)
            BY <4>1, <4>4, <4>5 DEF PhiShape
      <4>7. ReadsAt(g, v, c, i, m)
            BY <2>0, <4>6 DEF ReadsAt, Temp, IsTemp
      <4>8. ReadBlock(g, c, i, m) = a /\ ReadIndex(g, c, i, m) = End
            BY <4>4, <4>5 DEF ReadBlock, ReadIndex
      <4>9. Nearest(g, v, e, k, ReadBlock(g, c, i, m), ReadIndex(g, c, i, m))
        <5> HIDE DEF End
        <5> QED
            BY <3>2, <4>8
      <4> QED
          BY <4>3, <4>7, <4>9, ReadNeeds
    <3>5. CASE c \notin PhiBlocks(v)
      <4>1. \A x \in B : \A y \in DOMAIN g.code[x] : DefinesAt(g, v, x, y) =>
              (Ahead(x, y, a, End) <=> Ahead(x, y, c, PhiCount(g, c) + 1))
            BY <1>5, <2>0, <3>5, AheadAcross
      <4> HIDE DEF End
      <4>2. Nearest(g, v, e, k, c, PhiCount(g, c) + 1)
            BY <3>2, <4>1, NearestSame
      <4> QED
          BY <2>0, <4>2
    <3> QED
        BY <3>4, <3>5
  <2> QED
      BY <2>1, <2>4
<1>6. \A c \in B : v \in flow.liveIn[c] => c \in C
  <2>1. C \in SUBSET B
        OBVIOUS
  <2> HIDE DEF C
  <2> QED
      BY <1>4, <1>5, <2>1, LiveFacts
<1>7. Served(b)
      BY <1>6
<1>8. d \in B /\ j \in DOMAIN g.code[d]
      BY DEF Nearest, DefinesAt
<1> QED
    BY <1>7, <1>8


LEMMA AllNeeded ==
  ASSUME Sound, NEW g, Placed(g, {}), NEW f, f.order = source.order, Shaped(f.code), NEW next,
         Follows(g, f.code, {}, next)
  PROVE  Statements(f) \subseteq Needed(f)
<1>1. IsFiniteSet(Statements(f)) /\ Blocks(f) = Blocks(source)
      BY StatementsFinite
<1>2. \A b \in Blocks(source) : DOMAIN f.code[b] = DOMAIN g.code[b]
      BY DEF Follows
<1>3. ASSUME NEW b \in Blocks(source), NEW i \in DOMAIN g.code[b]
      PROVE  f.code[b][i] \in Statements(f) /\ (IsPhi(f.code[b][i]) <=> IsPhi(g.code[b][i]))
  <2>1. f.code[b][i].kind = g.code[b][i].kind
    <3>1. Matches(g, f.code, {}, next, b, i)
          BY DEF Follows
    <3> QED
        BY <3>1 DEF Matches, Stm
  <2>2. f.code[b][i] \in Statements(f)
        BY <1>1, <1>2 DEF Statements, ToSet
  <2> QED
      BY <2>1, <2>2 DEF IsPhi
<1>4. ASSUME NEW b \in Blocks(source), NEW i \in DOMAIN g.code[b], IsPhi(g.code[b][i])
      PROVE  f.code[b][i] \in Needed(f)
  <2> DEFINE v == g.code[b][i].dst
  <2>1. i <= PhiCount(g, b) /\ PhiShape(g.code[b][i], b)
        BY <1>4, PlacedShape
  <2>2. v \in Defined(source) /\ b \in PhiBlocks(v)
        BY <2>1 DEF PhiShape
  <2>3. v \in flow.liveIn[b]
        BY <2>2, PhiLimit
  <2>4. CASE v \in Renamed(source)
    <3>1. Nearest(g, v, b, i, b, PhiCount(g, b) + 1)
          BY <2>1, <2>2, PhiNearest
    <3> HIDE DEF v
    <3> QED
        BY <2>3, <2>4, <3>1, LiveNeeded
  <2>5. CASE v \notin Renamed(source)
    <3>1. PICK s \in Statements(source) : v \in Uses(s)
          BY <2>3, LiveFacts
    <3>2. PICK c \in Blocks(source) : s \in ToSet(source.code[c])
          BY DEF Statements
    <3>3. PICK m \in DOMAIN source.code[c] : s = source.code[c][m]
          BY <3>2 DEF ToSet
    <3> DEFINE l == m + PhiCount(g, c)
    <3>4. l \in DOMAIN g.code[c] /\ g.code[c][l] = s /\ ~IsPhi(s)
          BY <3>3, PlacedShape, SourceCode
    <3>5. PICK k \in DOMAIN g.code[c][l].src : IsTemp(g.code[c][l].src[k]) /\ g.code[c][l].src[k].temp = v
          BY <3>1, <3>4, UsesAt
    <3> HIDE DEF l
    <3>6. Matches(g, f.code, {}, next, c, l)
          BY <3>4, SMTT(30) DEF Follows
    <3>7. k \in DOMAIN f.code[c][l].src /\ f.code[c][l].src[k] = g.code[c][l].src[k]
          BY <2>5, <3>5, <3>6 DEF Matches
    <3>8. v \in Uses(f.code[c][l])
          BY <3>5, <3>7, UsesAt
    <3>9. f.code[c][l] \in Needed(f)
          BY <1>1, <1>3, <3>4, NeededLimit
    <3>10. f.code[b][i].dst = v
      <4>1. Matches(g, f.code, {}, next, b, i)
            BY DEF Follows
      <4> QED
          BY <2>5, <4>1 DEF Matches
    <3> QED
        BY <1>1, <1>3, <1>4, <3>8, <3>9, <3>10, NeededLimit
  <2> QED
      BY <2>4, <2>5
<1>5. ASSUME NEW s \in Statements(f) PROVE s \in Needed(f)
  <2>1. PICK b \in Blocks(source) : s \in ToSet(f.code[b])
        BY <1>1 DEF Statements
  <2>2. PICK i \in DOMAIN g.code[b] : s = f.code[b][i]
        BY <1>2, <2>1 DEF ToSet
  <2>3. CASE IsPhi(s)
        BY <1>3, <1>4, <2>2, <2>3
  <2>4. CASE ~IsPhi(s)
        BY <1>1, <2>4, NeededLimit
  <2> QED
      BY <2>3, <2>4
<1> QED
    BY <1>5

\* so that the cleanup finds nothing to remove: the value of a phi is read by another statement.
LEMMA NeededRead ==
  ASSUME NEW f, IsFiniteSet(Statements(f)), NEW s \in Needed(f), IsPhi(s)
  PROVE  s.dst \in ReadByOthers(f)
<1> DEFINE S == Statements(f)
           Read(u) == IF IsPhi(u) THEN Uses(u) \ Defs(u) ELSE Uses(u)
           C == {u \in S : IsPhi(u) => u.dst \in ReadByOthers(f)}
<1>1. \A u \in S : \A t \in Read(u) : t \in ReadByOthers(f)
      BY DEF ReadByOthers
<1>2. ASSUME NEW u \in S, NEW t \in C, IsPhi(u), u.dst \in Uses(t) PROVE u \in C
  <2>1. CASE u.dst \in Read(t)
        BY <1>1, <1>2, <2>1
  <2>2. CASE u.dst \notin Read(t)
    <3>1. IsPhi(t) /\ u.dst = t.dst
          BY <1>2, <2>2 DEF Defs
    <3> QED
        BY <1>2, <3>1
  <2> QED
      BY <2>1, <2>2
<1>3. {u \in S : ~IsPhi(u)} \subseteq C /\ C \in SUBSET S
      OBVIOUS
<1> HIDE DEF C
<1>4. Needed(f) \subseteq C
      BY <1>2, <1>3, NeededLimit
<1> QED
    BY <1>4 DEF C

Cleaned(f) ==
  LET kept == {s \in Statements(f) : IsPhi(s) => s.dst \in ReadByOthers(f)}
  IN [f EXCEPT !.code = [b \in DOMAIN @ |-> Only(@[b], kept)]]

LEMMA NothingToClean ==
  ASSUME Sound, NEW g, Placed(g, {}), NEW f, f = Function(source.params, source.order, f.code, f.lastTemp),
         Shaped(f.code), NEW next, Follows(g, f.code, {}, next)
  PROVE  Cleaned(f) = f
<1> DEFINE kept == {s \in Statements(f) : IsPhi(s) => s.dst \in ReadByOthers(f)}
<1>1. f.order = source.order
      BY DEF Function
<1>2. IsFiniteSet(Statements(f)) /\ Blocks(f) = Blocks(source) /\ Statements(f) \subseteq Needed(f)
      BY <1>1, StatementsFinite, AllNeeded
<1>3. Statements(f) \subseteq kept
      BY <1>2, NeededRead
<1>c. Cleaned(f) = [f EXCEPT !.code = [b \in DOMAIN @ |-> Only(@[b], kept)]]
      BY DEF Cleaned
<1> HIDE DEF kept
<1>4. ASSUME NEW b \in Blocks(source) PROVE Only(f.code[b], kept) = f.code[b]
  <2> DEFINE s == f.code[b]
             X == ToSet(s)
  <2>1. s \in Seq(X)
        BY DEF Shaped
  <2>2. \A i \in DOMAIN s : s[i] \in kept
    <3>1. X \subseteq Statements(f)
          BY <1>2 DEF Statements
    <3>2. \A i \in DOMAIN s : s[i] \in X
          BY DEF ToSet
    <3> HIDE DEF X, s
    <3> QED
        BY <1>3, <3>1, <3>2
  <2> HIDE DEF s, X
  <2>3. Selects(Only(s, kept), s, kept, X)
        BY <2>1, OnlyFacts
  <2>4. Only(s, kept) = s
        BY <2>2, <2>3 DEF Selects
  <2> QED
      BY <2>4 DEF s
<1>5. [b \in DOMAIN f.code |-> Only(f.code[b], kept)] = f.code
  <2> DEFINE c == f.code
             Now(b) == Only(c[b], kept)
  <2>1. c = [b \in Blocks(source) |-> c[b]]
        BY DEF Shaped
  <2>2. \A b \in Blocks(source) : Now(b) = c[b]
        BY <1>4
  <2> HIDE DEF c, Now
  <2>3. [b \in DOMAIN c |-> Now(b)] = c
        BY <2>1, <2>2
  <2> QED
      BY <2>3 DEF c, Now
<1>6. [f EXCEPT !.code = f.code] = f
  <2> DEFINE c == f.code
             l == f.lastTemp
  <2>1. f = Function(source.params, source.order, c, l)
        OBVIOUS
  <2> HIDE DEF c, l
  <2>2. [f EXCEPT !.code = c] = f
        BY <2>1 DEF Function
  <2> QED
      BY <2>2 DEF c
<1> QED
    BY <1>c, <1>5, <1>6


-----------------------------------------------------------------------------
\* The inductive invariant.  What placing phis made, a function g, stays in view while it is renamed.
Framed(f) == f = Function(source.params, source.order, f.code, f.lastTemp) /\ Shaped(f.code)

Renaming(f, waiting, pa, st, next) ==
  \E g : Placed(g, {}) /\ Follows(g, f.code, waiting, next) /\ Walk(g, f.code, pa, st, next)

Waiting == IF path = <<>> /\ phase = "rename" THEN Blocks(source) ELSE Open(path)

SsaInv ==
  /\ Sound
  /\ Framed(func)
  /\ toPlace \subseteq Defined(source)
  /\ nextTemp \in Nat /\ source.lastTemp < nextTemp
  /\ stacks \in [Renamed(source) -> Seq(Numbers(nextTemp))]
  /\ phase \in {"place", "rename", "clean", "done"}
  /\ phase = "place" => Placed(func, toPlace)
  /\ phase # "place" => Renaming(func, Waiting, path, stacks, nextTemp)
  /\ phase # "rename" => path = <<>>

LEMMA PlacedFramed ==
  ASSUME NEW g, NEW rest, Placed(g, rest)
  PROVE  Framed(g)
<1>1. Shaped(g.code)
      BY PlacedShaped, SMTT(30)
<1>2. g = Function(source.params, source.order, g.code, source.lastTemp)
      BY Zenon DEF Placed
<1>3. g.lastTemp = source.lastTemp
      BY <1>2 DEF Function
<1> QED
    BY <1>1, <1>2, <1>3 DEF Framed

LEMMA Recoded ==
  ASSUME NEW f, Framed(f), NEW code, Shaped(code), NEW h, h = [f EXCEPT !.code = code]
  PROVE  Framed(h) /\ h.code = code
<1> DEFINE c == f.code
           l == f.lastTemp
<1>1. f = Function(source.params, source.order, c, l)
      BY DEF Framed
<1> HIDE DEF c, l
<1>2. h = Function(source.params, source.order, code, l)
      BY <1>1 DEF Function
<1>3. h.code = code /\ h.lastTemp = l
      BY <1>2 DEF Function
<1> QED
    BY <1>2, <1>3 DEF Framed

LEMMA Renumbered ==
  ASSUME NEW f, Framed(f), NEW last, NEW h, h = [f EXCEPT !.lastTemp = last]
  PROVE  Framed(h) /\ h.code = f.code
<1> DEFINE c == f.code
           l == f.lastTemp
<1>1. f = Function(source.params, source.order, c, l) /\ Shaped(c)
      BY DEF Framed
<1> HIDE DEF c, l
<1>2. h = Function(source.params, source.order, c, last)
      BY <1>1 DEF Function
<1>3. h.code = c /\ h.lastTemp = last
      BY <1>2, SMTT(30) DEF Function
<1> QED
    BY <1>1, <1>2, <1>3 DEF Framed, c

\* The visit of a block, as a step from one state of the walk to the next.
LEMMA EnterStep ==
  ASSUME Sound, NEW f, Framed(f), NEW pa, NEW waiting, waiting = IF pa = <<>> THEN Blocks(source) ELSE Open(pa),
         NEW st, NEW next \in Nat, source.lastTemp < next, Renaming(f, waiting, pa, st, next),
         NEW b, b \in IF pa = <<>> THEN {Entry(source)} ELSE pa[Len(pa)].rest,
         NEW w, w = Versions([stacks |-> st, next |-> next], f.code[b]),
         NEW end, end = w[Len(f.code[b])],
         NEW h, h = [f EXCEPT !.code = Visit(b, w, end, f.code)]
  PROVE  /\ Framed(h)
         /\ end.next \in Nat /\ source.lastTemp < end.next
         /\ end.stacks \in [Renamed(source) -> Seq(Numbers(end.next))]
         /\ Renaming(h, Open(Deeper(pa, b, st)), Deeper(pa, b, st), end.stacks, end.next)
<1> DEFINE code == f.code
           new == Visit(b, w, end, code)
           on == Deeper(pa, b, st)
<1>1. PICK g : Placed(g, {}) /\ Follows(g, code, waiting, next) /\ Walk(g, code, pa, st, next)
      BY DEF Renaming
<1>2. Visitable(g, code, waiting, next, st, b)
  <2>1. CASE pa = <<>>
    <3>1. st \in [Renamed(source) -> Seq(Numbers(next))] /\ b = Entry(source) /\ waiting = Blocks(source)
          BY <1>1, <2>1 DEF Walk
    <3> QED
        BY <1>1, <3>1, WalkStart
  <2>2. CASE pa # <<>>
    <3>1. b \in pa[Len(pa)].rest /\ waiting = Open(pa)
          BY <2>2
    <3> QED
        BY <1>1, <2>2, <3>1, WalkVisitable
  <2> QED
      BY <2>1, <2>2
<1>3. b \in Blocks(source)
      BY <1>2 DEF Visitable
<1>4. Visited(g, code, waiting, next, b, new, end.stacks, end.next)
  <2>1. new = Visit(b, w, w[Len(code[b])], code) /\ end = w[Len(code[b])]
        OBVIOUS
  <2> HIDE DEF new, code
  <2> QED
      BY <1>1, <1>2, <2>1, VisitStep DEF code
<1>5. Shaped(new)
  <2>1. Shaped(code)
        BY DEF Framed
  <2> QED
      BY <1>3, <2>1, VisitShaped
<1>6. Framed(h) /\ h.code = new
      BY <1>5, Recoded
<1> HIDE DEF new
<1>7. Proceeds(g, new, on, waiting \ {b}, end.stacks, end.next)
  <2>1. CASE pa = <<>>
    <3>1. st \in [Renamed(source) -> Seq(Numbers(next))] /\ b = Entry(source) /\ waiting = Blocks(source)
          BY <1>1, <2>1 DEF Walk
    <3>2. Visited(g, code, Blocks(source), next, b, new, end.stacks, end.next)
          BY <1>4, <3>1
    <3> QED
        BY <2>1, <3>1, <3>2, WalkBegun
  <2>2. CASE pa # <<>>
    <3>1. b \in pa[Len(pa)].rest /\ waiting = Open(pa)
          BY <2>2
    <3> QED
        BY <1>1, <1>4, <2>2, <3>1, WalkDown
  <2> QED
      BY <2>1, <2>2
<1>8. source.lastTemp < end.next
  <2>1. source.lastTemp \in Nat
        BY DEF Sound
  <2>2. next <= end.next /\ end.next \in Nat
        BY <1>4, Zenon DEF Visited
  <2> QED
      BY <2>1, <2>2
<1>9. Renaming(h, Open(on), on, end.stacks, end.next)
  <2>1. Open(on) = waiting \ {b} /\ Walk(g, new, on, end.stacks, end.next)
        BY <1>7, Zenon DEF Proceeds
  <2>2. Follows(g, new, Open(on), end.next)
        BY <1>4, <2>1, Zenon DEF Visited
  <2>3. h.code = new
        BY <1>6, Zenon
  <2> QED
      BY <1>1, <2>1, <2>2, <2>3, Zenon DEF Renaming
<1>10. end.next \in Nat /\ end.stacks \in [Renamed(source) -> Seq(Numbers(end.next))]
       BY <1>4 DEF Visited
<1> QED
    BY <1>6, <1>8, <1>9, <1>10, Zenon


-----------------------------------------------------------------------------
\* All of this is said of source and flow, which no step changes.
LEMMA PlacedRigid ==
  ASSUME UNCHANGED <<source, flow>>, NEW g, NEW rest
  PROVE  Placed(g, rest)' <=> Placed(g, rest)
<1>1. source' = source /\ flow' = flow
      OBVIOUS
<1>2. ASSUME NEW v PROVE PhiBlocks(v)' = PhiBlocks(v)
  <2>1. DefBlocks(v)' = DefBlocks(v)
        BY <1>1 DEF DefBlocks
  <2> QED
      BY <1>1, <2>1 DEF PhiBlocks, Rounds
<1>3. ASSUME NEW v, NEW b PROVE NewPhi(v, b)' = NewPhi(v, b)
      BY <1>1 DEF NewPhi
<1>4. ASSUME NEW b PROVE PhiCount(g, b)' = PhiCount(g, b)
      BY <1>1 DEF PhiCount
<1>5. ASSUME NEW s, NEW n, NEW b PROVE PlacedBlock(s, n, rest, b)' <=> PlacedBlock(s, n, rest, b)
      BY <1>1, <1>2, <1>3 DEF PlacedBlock
<1> QED
    BY <1>1, <1>4, <1>5 DEF Placed

LEMMA FollowsRigid ==
  ASSUME UNCHANGED <<source, flow>>
  PROVE  /\ \A g, code, waiting, next : Follows(g, code, waiting, next)' <=> Follows(g, code, waiting, next)
         /\ \A st, g, code, b, i : Holds(st, g, code, b, i)' <=> Holds(st, g, code, b, i)
<1>1. source' = source /\ flow' = flow
      OBVIOUS
<1>2. ASSUME NEW d, NEW j, NEW b, NEW i PROVE Ahead(d, j, b, i)' <=> Ahead(d, j, b, i)
      BY <1>1 DEF Ahead
<1>3. ASSUME NEW g, NEW v, NEW d, NEW j PROVE DefinesAt(g, v, d, j)' <=> DefinesAt(g, v, d, j)
      BY <1>1 DEF DefinesAt
<1>4. ASSUME NEW g, NEW v, NEW d, NEW j, NEW b, NEW i PROVE Nearest(g, v, d, j, b, i)' <=> Nearest(g, v, d, j, b, i)
      BY <1>1, <1>2, <1>3 DEF Nearest
<1>5. ASSUME NEW st, NEW g, NEW code, NEW b, NEW i PROVE Holds(st, g, code, b, i)' <=> Holds(st, g, code, b, i)
      BY <1>1, <1>2, <1>3, <1>4 DEF Holds
<1>6. ASSUME NEW g, NEW code, NEW waiting, NEW next
      PROVE  Follows(g, code, waiting, next)' <=> Follows(g, code, waiting, next)
  <2>1. ASSUME NEW term, NEW v, NEW b, NEW i PROVE Carries(g, code, term, v, b, i)' <=> Carries(g, code, term, v, b, i)
        BY <1>1, <1>4 DEF Carries
  <2>2. ASSUME NEW b, NEW i PROVE Matches(g, code, waiting, next, b, i)' <=> Matches(g, code, waiting, next, b, i)
        BY <1>1, <2>1 DEF Matches, Numbers
  <2>3. Distinct(g, code, waiting)' <=> Distinct(g, code, waiting)
        BY <1>1 DEF Distinct
  <2> QED
      BY <1>1, <2>2, <2>3 DEF Follows
<1> QED
    BY <1>5, <1>6

LEMMA WalkRigid ==
  ASSUME UNCHANGED <<source, flow>>
  PROVE  /\ \A g, code, pa, st, next : Walk(g, code, pa, st, next)' <=> Walk(g, code, pa, st, next)
         /\ \A pa : Open(pa)' = Open(pa)
         /\ \A next : Numbers(next)' = Numbers(next)
<1>1. source' = source /\ flow' = flow
      OBVIOUS
<1>2. ASSUME NEW pa PROVE Open(pa)' = Open(pa)
      BY <1>1 DEF Open
<1>3. ASSUME NEW pa PROVE Tree(pa)' <=> Tree(pa)
      BY <1>1, <1>2 DEF Tree
<1>4. ASSUME NEW next PROVE Activations(next)' = Activations(next) /\ Numbers(next)' = Numbers(next)
      BY <1>1 DEF Activations, Numbers
<1>5. ASSUME NEW g, NEW code, NEW pa, NEW st, NEW next
      PROVE  Walk(g, code, pa, st, next)' <=> Walk(g, code, pa, st, next)
  <2>1. \A s, b, i : Holds(s, g, code, b, i)' <=> Holds(s, g, code, b, i)
        BY FollowsRigid
  <2> QED
      BY <1>1, <1>3, <1>4, <2>1 DEF Walk
<1> QED
    BY <1>2, <1>4, <1>5

LEMMA Rigid ==
  ASSUME UNCHANGED <<source, flow>>
  PROVE  /\ Sound' <=> Sound
         /\ \A f : Framed(f)' <=> Framed(f)
         /\ \A f, waiting, pa, st, next : Renaming(f, waiting, pa, st, next)' <=> Renaming(f, waiting, pa, st, next)
<1>1. source' = source /\ flow' = flow
      OBVIOUS
<1>2. Sound' <=> Sound
      BY <1>1 DEF Sound
<1>3. ASSUME NEW f PROVE Framed(f)' <=> Framed(f)
      BY <1>1 DEF Framed, Shaped
<1>4. ASSUME NEW f, NEW waiting, NEW pa, NEW st, NEW next
      PROVE  Renaming(f, waiting, pa, st, next)' <=> Renaming(f, waiting, pa, st, next)
      BY PlacedRigid, FollowsRigid, WalkRigid DEF Renaming
<1> QED
    BY <1>2, <1>3, <1>4


-----------------------------------------------------------------------------
\* The invariant holds.
LEMMA InitInv == Init => SsaInv
<1> SUFFICES ASSUME Init PROVE SsaInv
    OBVIOUS
<1>1. Sound
      BY InitSound
<1>2. /\ func = source /\ toPlace = Defined(source) /\ path = <<>> /\ phase = "place"
      /\ stacks = [v \in Renamed(source) |-> <<>>] /\ nextTemp = source.lastTemp + 1
      BY DEF Init
<1>3. Placed(source, Defined(source))
      BY <1>1, PlacedAtFirst
<1>4. Framed(func)
      BY <1>2, <1>3, PlacedFramed
<1>5. nextTemp \in Nat /\ source.lastTemp < nextTemp
  <2>1. source.lastTemp \in Nat
        BY <1>1 DEF Sound
  <2> QED
      BY <1>2, <2>1
<1>6. stacks \in [Renamed(source) -> Seq(Numbers(nextTemp))]
      BY <1>2
<1> QED
    BY <1>1, <1>2, <1>3, <1>4, <1>5, <1>6 DEF SsaInv

LEMMA PlacePhiInv == SsaInv /\ PlacePhi => SsaInv'
<1> SUFFICES ASSUME SsaInv, PlacePhi PROVE SsaInv'
    OBVIOUS
<1>1. /\ UNCHANGED <<source, flow>> /\ phase = "place" /\ phase' = "place" /\ path' = path
      /\ stacks' = stacks /\ nextTemp' = nextTemp /\ toPlace # {}
      BY DEF PlacePhi
<1>2. /\ Sound /\ toPlace \subseteq Defined(source) /\ nextTemp \in Nat /\ source.lastTemp < nextTemp
      /\ stacks \in [Renamed(source) -> Seq(Numbers(nextTemp))] /\ Placed(func, toPlace) /\ path = <<>>
      BY <1>1 DEF SsaInv
<1>3. PICK v \in toPlace :
        /\ func' = [func EXCEPT !.code =
                      [b \in DOMAIN @ |-> IF b \in PhiBlocks(v) THEN <<NewPhi(v, b)>> \o @[b] ELSE @[b]]]
        /\ toPlace' = toPlace \ {v}
  <2>1. Min(toPlace) \in toPlace
    <3>1. toPlace \in SUBSET Nat
          BY <1>2 DEF Sound
    <3> QED
        BY <1>1, <3>1, MinElement
  <2> QED
      BY <2>1 DEF PlacePhi
<1>4. Placed(func', toPlace')
  <2>1. Placed(func', toPlace \ {v})
        BY <1>2, <1>3, PlaceMore
  <2> QED
      BY <1>3, <2>1
<1>5. Framed(func')
      BY <1>4, PlacedFramed
<1>6. Sound' /\ Placed(func, toPlace)' /\ Framed(func)'
      BY <1>1, <1>2, <1>4, <1>5, Rigid, PlacedRigid
<1>7. (stacks \in [Renamed(source) -> Seq(Numbers(nextTemp))])'
  <2>1. Numbers(nextTemp)' = Numbers(nextTemp)
        BY <1>1 DEF Numbers
  <2> QED
      BY <1>1, <1>2, <2>1
<1> QED
    BY <1>1, <1>2, <1>3, <1>6, <1>7 DEF SsaInv

LEMMA StartRenameInv == SsaInv /\ StartRename => SsaInv'
<1> SUFFICES ASSUME SsaInv, StartRename PROVE SsaInv'
    OBVIOUS
<1>1. /\ UNCHANGED <<source, flow, func, toPlace, path, stacks, nextTemp>>
      /\ phase = "place" /\ phase' = "rename" /\ toPlace = {}
      BY DEF StartRename
<1>2. /\ Sound /\ nextTemp \in Nat /\ source.lastTemp < nextTemp /\ Framed(func)
      /\ stacks \in [Renamed(source) -> Seq(Numbers(nextTemp))] /\ Placed(func, {}) /\ path = <<>>
      BY <1>1 DEF SsaInv
<1>3. Renaming(func, Blocks(source), path, stacks, nextTemp)
  <2>1. Follows(func, func.code, Blocks(source), nextTemp)
        BY <1>2, FollowsAtFirst
  <2>2. Walk(func, func.code, path, stacks, nextTemp)
    <3>1. path \in Seq(Activations(nextTemp)) /\ DOMAIN path = {}
          BY <1>2
    <3>2. Tree(path)
          BY <3>1 DEF Tree
    <3> QED
        BY <1>2, <3>1, <3>2 DEF Walk
  <2> QED
      BY <1>2, <2>1, <2>2 DEF Renaming
<1>4. Sound' /\ Framed(func)'
      BY <1>1, <1>2, Rigid
<1>5. Renaming(func, Blocks(source), path, stacks, nextTemp)'
      BY <1>1, <1>3, Rigid
<1>6. Waiting' = Blocks(source)'
      BY <1>1, <1>2 DEF Waiting
<1>7. (stacks \in [Renamed(source) -> Seq(Numbers(nextTemp))])'
  <2>1. Numbers(nextTemp)' = Numbers(nextTemp)
        BY <1>1 DEF Numbers
  <2> QED
      BY <1>1, <1>2, <2>1
<1> QED
    BY <1>1, <1>2, <1>4, <1>5, <1>6, <1>7 DEF SsaInv


LEMMA EnterBlockInv == SsaInv /\ EnterBlock => SsaInv'
<1> SUFFICES ASSUME SsaInv, EnterBlock PROVE SsaInv'
    OBVIOUS
<1>1. UNCHANGED <<source, flow>> /\ phase = "rename" /\ phase' = "rename" /\ toPlace' = toPlace /\ Visiting # {}
      BY DEF EnterBlock
<1>2. /\ Sound /\ nextTemp \in Nat /\ source.lastTemp < nextTemp /\ Framed(func) /\ toPlace \subseteq Defined(source)
      /\ stacks \in [Renamed(source) -> Seq(Numbers(nextTemp))]
      /\ Renaming(func, Waiting, path, stacks, nextTemp)
      BY <1>1 DEF SsaInv
<1>3. Waiting = IF path = <<>> THEN Blocks(source) ELSE Open(path)
      BY <1>1 DEF Waiting
<1>4. Visiting = IF path = <<>> THEN {Entry(source)} ELSE path[Len(path)].rest
      BY DEF Visiting, Last
<1>5. Min(Visiting) \in Visiting
  <2>1. Visiting \subseteq Blocks(source)
    <3>1. CASE path = <<>>
          BY <1>2, <1>4, <3>1, TreeFacts
    <3>2. CASE path # <<>>
      <4>1. path \in Seq(Activations(nextTemp))
            BY <1>2 DEF Renaming, Walk
      <4> DEFINE A == Activations(nextTemp)
      <4>2. \A a \in A : a.rest \subseteq Blocks(source)
            BY DEF Activations
      <4> HIDE DEF A
      <4>3. path[Len(path)] \in A
            BY <3>2, <4>1 DEF A
      <4> QED
          BY <1>4, <3>2, <4>2, <4>3
    <3> QED
        BY <3>1, <3>2
  <2>2. Visiting \in SUBSET Nat
        BY <1>2, <2>1 DEF Sound
  <2> QED
      BY <1>1, <2>2, MinElement
<1> DEFINE b == Min(Visiting)
           w == Versions([stacks |-> stacks, next |-> nextTemp], func.code[b])
           end == w[Len(func.code[b])]
           on == Deeper(path, b, stacks)
<1>6. /\ func' = [func EXCEPT !.code = Visit(b, w, end, func.code)]
      /\ stacks' = end.stacks
      /\ nextTemp' = end.next
      /\ path' = on
      BY DEF EnterBlock, Visit, Deeper
<1>7. b \in IF path = <<>> THEN {Entry(source)} ELSE path[Len(path)].rest
      BY <1>4, <1>5
<1> HIDE DEF b, w
<1>8. /\ Framed(func')
      /\ nextTemp' \in Nat /\ source.lastTemp < nextTemp'
      /\ stacks' \in [Renamed(source) -> Seq(Numbers(nextTemp'))]
      /\ Renaming(func', Open(path'), path', stacks', nextTemp')
  <2>1. w = Versions([stacks |-> stacks, next |-> nextTemp], func.code[b])
        BY DEF w
  <2> HIDE DEF end
  <2>2. end = w[Len(func.code[b])]
        BY DEF end
  <2> HIDE DEF on
  <2>3. /\ Framed(func')
        /\ end.next \in Nat /\ source.lastTemp < end.next
        /\ end.stacks \in [Renamed(source) -> Seq(Numbers(end.next))]
        /\ Renaming(func', Open(Deeper(path, b, stacks)), Deeper(path, b, stacks), end.stacks, end.next)
        BY <1>2, <1>3, <1>6, <1>7, <2>1, <2>2, EnterStep, ZenonT(40)
  <2> QED
      BY <1>6, <2>3 DEF on
<1>9. path' # <<>>
  <2>1. path' = Append(IF path = <<>> THEN <<>> ELSE [path EXCEPT ![Len(path)].rest = @ \ {b}],
                       [block |-> b, rest |-> Children(flow, b), outside |-> stacks])
        BY <1>6 DEF Deeper
  <2> QED
      BY <2>1
<1>10. Sound' /\ Framed(func)'
       BY <1>1, <1>2, <1>8, Rigid
<1>11. Renaming(func, Waiting, path, stacks, nextTemp)'
  <2>1. Renaming(func, Open(path), path, stacks, nextTemp)'
    <3>1. Open(path)' = Open(path')
          BY <1>1 DEF Open
    <3> QED
        BY <1>1, <1>8, <3>1, Rigid
  <2>2. Waiting' = Open(path)'
        BY <1>9 DEF Waiting
  <2> QED
      BY <2>1, <2>2
<1>12. (stacks \in [Renamed(source) -> Seq(Numbers(nextTemp))])'
  <2>1. Numbers(nextTemp)' = Numbers(nextTemp')
        BY <1>1 DEF Numbers
  <2> QED
      BY <1>1, <1>8, <2>1
<1> QED
    BY <1>1, <1>2, <1>8, <1>10, <1>11, <1>12 DEF SsaInv

LEMMA LeaveBlockInv == SsaInv /\ LeaveBlock => SsaInv'
<1> SUFFICES ASSUME SsaInv, LeaveBlock PROVE SsaInv'
    OBVIOUS
<1>1. /\ UNCHANGED <<source, flow>> /\ phase = "rename" /\ path # <<>> /\ Visiting = {} /\ toPlace' = toPlace
      /\ nextTemp' = nextTemp /\ path' = Front(path) /\ stacks' = path[Len(path)].outside
      /\ phase' = IF Len(path) = 1 THEN "clean" ELSE phase
      /\ func' = IF Len(path) = 1 THEN [func EXCEPT !.lastTemp = Max({@, nextTemp - 1})] ELSE func
      BY DEF LeaveBlock, Last
<1>2. /\ Sound /\ nextTemp \in Nat /\ source.lastTemp < nextTemp /\ Framed(func) /\ toPlace \subseteq Defined(source)
      /\ Renaming(func, Open(path), path, stacks, nextTemp)
      BY <1>1 DEF SsaInv, Waiting
<1>3. path[Len(path)].rest = {}
      BY <1>1 DEF Visiting, Last
<1>4. Framed(func') /\ func'.code = func.code
      BY <1>1, <1>2, Renumbered
<1>5. PICK g : Placed(g, {}) /\ Follows(g, func.code, Open(path), nextTemp) /\ Walk(g, func.code, path, stacks, nextTemp)
      BY <1>2 DEF Renaming
<1>6. /\ Open(path') = Open(path)
      /\ Walk(g, func.code, path', stacks', nextTemp)
      /\ Len(path) = 1 => path' = <<>>
      /\ Len(path) # 1 => path' # <<>>
      BY <1>1, <1>2, <1>3, <1>5, WalkUp
<1>7. Renaming(func', Open(path'), path', stacks', nextTemp')
      BY <1>1, <1>4, <1>5, <1>6 DEF Renaming
<1>8. Sound' /\ Framed(func)'
      BY <1>1, <1>2, <1>4, Rigid
<1>9. Renaming(func, Waiting, path, stacks, nextTemp)'
  <2>1. Renaming(func, Open(path), path, stacks, nextTemp)'
    <3>1. Open(path)' = Open(path')
          BY <1>1 DEF Open
    <3> QED
        BY <1>1, <1>7, <3>1, Rigid
  <2>2. Waiting' = Open(path)'
        BY <1>1, <1>6 DEF Waiting
  <2> QED
      BY <2>1, <2>2
<1>10. (stacks \in [Renamed(source) -> Seq(Numbers(nextTemp))])'
  <2>1. Numbers(nextTemp)' = Numbers(nextTemp)
        BY <1>1 DEF Numbers
  <2>2. stacks' \in [Renamed(source) -> Seq(Numbers(nextTemp))]
        BY <1>6 DEF Walk
  <2> QED
      BY <1>1, <2>1, <2>2
<1> QED
    BY <1>1, <1>2, <1>6, <1>8, <1>9, <1>10 DEF SsaInv

LEMMA CleanupInv == SsaInv /\ Cleanup => SsaInv' /\ func' = func /\ phase' = "done"
<1> SUFFICES ASSUME SsaInv, Cleanup PROVE SsaInv' /\ func' = func /\ phase' = "done"
    OBVIOUS
<1>1. /\ UNCHANGED <<source, flow, toPlace, path, stacks, nextTemp>> /\ phase = "clean"
      /\ func' = Cleaned(func)
      /\ phase' = IF func' = func THEN "done" ELSE phase
      BY DEF Cleanup, Cleaned
<1>2. /\ Sound /\ nextTemp \in Nat /\ source.lastTemp < nextTemp /\ Framed(func) /\ toPlace \subseteq Defined(source)
      /\ stacks \in [Renamed(source) -> Seq(Numbers(nextTemp))] /\ path = <<>>
      /\ Renaming(func, Open(path), path, stacks, nextTemp)
      BY <1>1 DEF SsaInv, Waiting
<1>3. Open(path) = {}
      BY <1>2 DEF Open
<1>4. PICK g : Placed(g, {}) /\ Follows(g, func.code, {}, nextTemp)
      BY <1>2, <1>3 DEF Renaming
<1>6. func' = func
  <2>1. Cleaned(func) = func
        BY <1>2, <1>4, NothingToClean DEF Framed
  <2> QED
      BY <1>1, <2>1
<1>7. phase' = "done"
      BY <1>1, <1>6
<1>8. Sound' /\ Framed(func)'
      BY <1>1, <1>2, <1>6, Rigid
<1>9. Renaming(func, Waiting, path, stacks, nextTemp)'
  <2>1. Renaming(func, Open(path), path, stacks, nextTemp)'
        BY <1>1, <1>2, <1>6, Rigid, WalkRigid
  <2>2. Waiting' = Open(path)'
        BY <1>7 DEF Waiting
  <2> QED
      BY <2>1, <2>2
<1>10. (stacks \in [Renamed(source) -> Seq(Numbers(nextTemp))])'
  <2>1. Numbers(nextTemp)' = Numbers(nextTemp)
        BY <1>1 DEF Numbers
  <2> QED
      BY <1>1, <1>2, <2>1
<1> QED
    BY <1>1, <1>2, <1>6, <1>7, <1>8, <1>9, <1>10 DEF SsaInv


LEMMA StutterInv == SsaInv /\ UNCHANGED ssaVars => SsaInv'
<1> SUFFICES ASSUME SsaInv, UNCHANGED ssaVars PROVE SsaInv'
    OBVIOUS
<1>1. UNCHANGED <<source, flow, phase, func, toPlace, path, stacks, nextTemp>>
      BY DEF ssaVars
<1>2. Sound' /\ Framed(func)'
      BY <1>1, Rigid DEF SsaInv
<1>3. (phase = "place" => Placed(func, toPlace))'
      BY <1>1, PlacedRigid DEF SsaInv
<1>4. (phase # "place" => Renaming(func, Waiting, path, stacks, nextTemp))'
  <2>1. Waiting' = Waiting
        BY <1>1 DEF Waiting, Open
  <2> QED
      BY <1>1, <2>1, Rigid DEF SsaInv
<1>5. (stacks \in [Renamed(source) -> Seq(Numbers(nextTemp))])'
  <2>1. Numbers(nextTemp)' = Numbers(nextTemp)
        BY <1>1 DEF Numbers
  <2> QED
      BY <1>1, <2>1 DEF SsaInv
<1> QED
    BY <1>1, <1>2, <1>3, <1>4, <1>5 DEF SsaInv

\* The invariant of the conversion: at every moment the function is what placing phis has made so
\* far, and from then on that function renamed in the blocks that have been entered, with the walk's
\* stacks holding, for every variable, the version that the next statement has to read.
THEOREM ConversionInvariant == Spec => []SsaInv
<1>1. Init => SsaInv
      BY InitInv
<1>2. SsaInv /\ [Next]_ssaVars => SsaInv'
  <2> SUFFICES ASSUME SsaInv, [Next]_ssaVars PROVE SsaInv'
      OBVIOUS
  <2>1. CASE PlacePhi
        BY <2>1, PlacePhiInv
  <2>2. CASE StartRename
        BY <2>2, StartRenameInv
  <2>3. CASE EnterBlock
        BY <2>3, EnterBlockInv
  <2>4. CASE LeaveBlock
        BY <2>4, LeaveBlockInv
  <2>5. CASE Cleanup
        BY <2>5, CleanupInv
  <2>6. CASE Finished
        BY <2>6, StutterInv DEF Finished
  <2>7. CASE UNCHANGED ssaVars
        BY <2>7, StutterInv
  <2> QED
      BY <2>1, <2>2, <2>3, <2>4, <2>5, <2>6, <2>7 DEF Next
<1> QED
    BY <1>1, <1>2, PTL DEF Spec

\* The types, and that the versions in scope are temps that were handed out, above those of the source.
THEOREM ConversionTypeCorrect == Spec => []TypeOK
<1>1. SsaInv => TypeOK
  <2> SUFFICES ASSUME SsaInv PROVE TypeOK
      OBVIOUS
  <2>1. phase \in {"place", "rename", "clean", "done", "taken"} /\ toPlace \subseteq Defined(source)
        BY DEF SsaInv
  <2>2. ASSUME NEW v \in DOMAIN stacks PROVE ToSet(stacks[v]) \subseteq source.lastTemp + 1 .. nextTemp - 1
    <3> DEFINE N == Numbers(nextTemp)
    <3>1. stacks \in [Renamed(source) -> Seq(N)]
          BY DEF SsaInv
    <3> HIDE DEF N
    <3>2. stacks[v] \in Seq(N)
          BY <3>1
    <3>3. \A i \in DOMAIN stacks[v] : stacks[v][i] \in N
          BY <3>2
    <3>4. ToSet(stacks[v]) \subseteq N
          BY <3>3 DEF ToSet
    <3> QED
        BY <3>4 DEF N, Numbers
  <2>3. Blocks(func) = Blocks(source)
    <3>1. func.order = source.order
          BY DEF SsaInv, Framed, Function
    <3> QED
        BY <3>1 DEF Blocks
  <2> QED
      BY <2>1, <2>2, <2>3 DEF TypeOK
<1> QED
    BY <1>1, ConversionInvariant, PTL

\* What is left at the end.
LEMMA Converted ==
  ASSUME SsaInv, phase = "done"
  PROVE  /\ Sound
         /\ Framed(func)
         /\ \E g : Placed(g, {}) /\ Follows(g, func.code, {}, nextTemp)
<1>1. path = <<>> /\ Renaming(func, Open(path), path, stacks, nextTemp) /\ Sound /\ Framed(func)
      BY DEF SsaInv, Waiting
<1>2. Open(path) = {}
      BY <1>1 DEF Open
<1> QED
    BY <1>1, <1>2 DEF Renaming

\* No phi is there for nothing: the value of each reaches, perhaps through other phis, a statement
\* that is none.  placePhi puts a phi only where its variable is live, so that the cleanup behind it
\* never finds one to remove, and never leaves a circle of phis that it could not.
THEOREM ConversionNeedsEveryPhi == Spec => []EveryPhiMatters
<1>1. SsaInv => EveryPhiMatters
  <2> SUFFICES ASSUME SsaInv, phase = "done" PROVE Statements(func) \subseteq Needed(func)
      BY DEF EveryPhiMatters
  <2>1. Sound /\ Framed(func)
        BY Converted
  <2>2. PICK g : Placed(g, {}) /\ Follows(g, func.code, {}, nextTemp)
        BY Converted
  <2>3. func.order = source.order /\ Shaped(func.code)
        BY <2>1 DEF Framed, Function
  <2> QED
      BY <2>1, <2>2, <2>3, AllNeeded
<1> QED
    BY <1>1, ConversionInvariant, PTL


-----------------------------------------------------------------------------
\* The verifier, by places.
LEMMA SitesAt ==
  ASSUME NEW f
  PROVE  /\ \A b \in Blocks(f) : \A i \in DOMAIN f.code[b] : <<b, i>> \in Sites(f)
         /\ \A site \in Sites(f) : \E b \in Blocks(f) : \E i \in DOMAIN f.code[b] : site = <<b, i>>
<1> DEFINE At(b) == {b} \X (DOMAIN f.code[b])
<1>1. Sites(f) = UNION {At(b) : b \in Blocks(f)}
      BY DEF Sites
<1>2. \A b : \A i \in DOMAIN f.code[b] : <<b, i>> \in At(b)
      OBVIOUS
<1>3. \A b : \A site \in At(b) : \E i \in DOMAIN f.code[b] : site = <<b, i>>
      OBVIOUS
<1> HIDE DEF At
<1>4. ASSUME NEW site \in Sites(f) PROVE \E b \in Blocks(f) : \E i \in DOMAIN f.code[b] : site = <<b, i>>
  <2>1. PICK b \in Blocks(f) : site \in At(b)
        BY <1>1
  <2> QED
      BY <1>3, <2>1
<1>5. ASSUME NEW b \in Blocks(f), NEW i \in DOMAIN f.code[b] PROVE <<b, i>> \in Sites(f)
      BY <1>1, <1>2
<1> QED
    BY <1>4, <1>5

Definition(t, b, i) == [temp |-> t, at |-> <<b, i>>]

LEMMA SsaDefsAt ==
  ASSUME NEW f
  PROVE  /\ \A t \in Params(f) : Definition(t, Entry(f), 0) \in SsaDefs(f)
         /\ \A b \in Blocks(f) : \A i \in DOMAIN f.code[b] :
              f.code[b][i].dst # NoTemp => Definition(f.code[b][i].dst, b, i) \in SsaDefs(f)
         /\ \A d \in SsaDefs(f) :
              \/ \E t \in Params(f) : d = Definition(t, Entry(f), 0)
              \/ \E b \in Blocks(f) : \E i \in DOMAIN f.code[b] :
                   f.code[b][i].dst # NoTemp /\ d = Definition(f.code[b][i].dst, b, i)
<1> DEFINE Given == {[temp |-> t, at |-> <<Entry(f), 0>>] : t \in Params(f)}
           Here(site) == {[temp |-> t, at |-> site] : t \in Defs(StatementAt(f, site))}
           Made == UNION {Here(site) : site \in Sites(f)}
<1>1. SsaDefs(f) = Given \cup Made
      BY DEF SsaDefs
<1>2. ASSUME NEW b, NEW i PROVE Here(<<b, i>>) = {Definition(t, b, i) : t \in {f.code[b][i].dst} \ {NoTemp}}
      BY DEF StatementAt, Defs, Definition
<1>3. Given = {Definition(t, Entry(f), 0) : t \in Params(f)}
      BY DEF Definition
<1> HIDE DEF Given, Here
<1>4. ASSUME NEW b \in Blocks(f), NEW i \in DOMAIN f.code[b], f.code[b][i].dst # NoTemp
      PROVE  Definition(f.code[b][i].dst, b, i) \in Made
  <2>1. <<b, i>> \in Sites(f)
        BY SitesAt
  <2>2. Definition(f.code[b][i].dst, b, i) \in Here(<<b, i>>)
        BY <1>2, <1>4
  <2> QED
      BY <2>1, <2>2
<1>5. ASSUME NEW d \in Made
      PROVE  \E b \in Blocks(f) : \E i \in DOMAIN f.code[b] :
               f.code[b][i].dst # NoTemp /\ d = Definition(f.code[b][i].dst, b, i)
  <2>1. PICK site \in Sites(f) : d \in Here(site)
        OBVIOUS
  <2>2. \E b \in Blocks(f) : \E i \in DOMAIN f.code[b] : site = <<b, i>>
        BY SitesAt
  <2>3. PICK b \in Blocks(f) : \E i \in DOMAIN f.code[b] : site = <<b, i>>
        BY <2>2
  <2>4. PICK i \in DOMAIN f.code[b] : site = <<b, i>>
        BY <2>3
  <2>5. d \in {Definition(t, b, i) : t \in {f.code[b][i].dst} \ {NoTemp}}
        BY <1>2, <2>1, <2>4
  <2>6. f.code[b][i].dst # NoTemp /\ d = Definition(f.code[b][i].dst, b, i)
        BY <2>5
  <2> QED
      BY <2>6
<1> HIDE DEF Made
<1> QED
    BY <1>1, <1>3, <1>4, <1>5

\* What a definition of the placed function and its uses are in the renamed one.
LEMMA ConvertedDefinition ==
  ASSUME Sound, NEW g, Placed(g, {}), NEW code, NEW next, Follows(g, code, {}, next),
         NEW b \in Blocks(source), NEW i \in DOMAIN g.code[b]
  PROVE  /\ i \in DOMAIN code[b]
         /\ g.code[b][i].dst # NoTemp => g.code[b][i].dst \in Defined(source)
         /\ g.code[b][i].dst \in Renamed(source) => /\ code[b][i].dst \in Numbers(next)
                                                   /\ code[b][i].dst # NoTemp
                                                   /\ code[b][i].dst \notin Params(source)
         /\ g.code[b][i].dst \notin Renamed(source) => code[b][i].dst = g.code[b][i].dst
<1>1. Matches(g, code, {}, next, b, i) /\ DOMAIN code[b] = DOMAIN g.code[b]
      BY DEF Follows
<1>2. ASSUME g.code[b][i].dst # NoTemp PROVE g.code[b][i].dst \in Defined(source)
  <2>1. CASE IsPhi(g.code[b][i])
    <3>1. PhiShape(g.code[b][i], b)
          BY <2>1, PlacedShape
    <3> QED
        BY <3>1 DEF PhiShape
  <2>2. CASE ~IsPhi(g.code[b][i])
    <3>1. PICK j \in DOMAIN source.code[b] : g.code[b][i] = source.code[b][j]
          BY <2>2, PlacedShape
    <3>2. source.code[b][j] \in Statements(source)
          BY SourceCode
    <3> QED
        BY <1>2, <3>1, <3>2 DEF Defined, Defs
  <2> QED
      BY <2>1, <2>2
<1>3. ASSUME g.code[b][i].dst \in Renamed(source)
      PROVE  /\ code[b][i].dst \in Numbers(next)
             /\ code[b][i].dst # NoTemp
             /\ code[b][i].dst \notin Params(source)
  <2>1. code[b][i].dst \in Numbers(next)
        BY <1>1, <1>3 DEF Matches
  <2> DEFINE t == code[b][i].dst
  <2>2. source.lastTemp \in Nat /\ \A p \in Params(source) : p <= source.lastTemp
        BY DEF Sound
  <2>3. t \in Int /\ source.lastTemp + 1 <= t
        BY <2>1, <2>2 DEF Numbers
  <2> HIDE DEF t
  <2>4. t # NoTemp
        BY <2>2, <2>3 DEF NoTemp
  <2>5. t \notin Params(source)
        BY <2>2, <2>3
  <2> QED
      BY <2>1, <2>4, <2>5 DEF t
<1>4. g.code[b][i].dst \notin Renamed(source) => code[b][i].dst = g.code[b][i].dst
      BY <1>1 DEF Matches
<1> QED
    BY <1>1, <1>2, <1>3, <1>4


Unassigned == Defined(source) \cap Params(source) = {}

LEMMA OneDefinition ==
  ASSUME Sound, NEW g, Placed(g, {}), NEW f, f.params = source.params, f.order = source.order,
         NEW next, Follows(g, f.code, {}, next), Unassigned
  PROVE  \A d, e \in SsaDefs(f) : d.temp = e.temp => d = e
<1>1. Blocks(f) = Blocks(source) /\ Params(f) = Params(source)
      BY DEF Blocks, Params
<1>2. ASSUME NEW b \in Blocks(f), NEW i \in DOMAIN f.code[b], f.code[b][i].dst # NoTemp
      PROVE  /\ i \in DOMAIN g.code[b] /\ g.code[b][i].dst \in Renamed(source)
             /\ f.code[b][i].dst \notin Params(f)
  <2>1. i \in DOMAIN g.code[b]
        BY <1>1 DEF Follows
  <2>2. g.code[b][i].dst \in Renamed(source)
    <3>1. g.code[b][i].dst \notin Renamed(source) => f.code[b][i].dst = g.code[b][i].dst
          BY <1>1, <2>1, ConvertedDefinition
    <3>2. g.code[b][i].dst # NoTemp => g.code[b][i].dst \in Defined(source)
          BY <1>1, <2>1, ConvertedDefinition
    <3> QED
        BY <1>2, <3>1, <3>2 DEF Renamed, Unassigned
  <2> QED
      BY <1>1, <2>1, <2>2, ConvertedDefinition
<1>3. ASSUME NEW d \in SsaDefs(f)
      PROVE  \/ \E t \in Params(f) : d = Definition(t, Entry(f), 0)
             \/ \E b \in Blocks(f) : \E i \in DOMAIN f.code[b] :
                  f.code[b][i].dst # NoTemp /\ d = Definition(f.code[b][i].dst, b, i)
      BY SsaDefsAt
<1>4. \A t, b, i : Definition(t, b, i).temp = t
      BY DEF Definition
<1>5. ASSUME NEW d \in SsaDefs(f), NEW e \in SsaDefs(f), d.temp = e.temp PROVE d = e
  <2>1. CASE \E t \in Params(f) : d = Definition(t, Entry(f), 0)
    <3>1. PICK t \in Params(f) : d = Definition(t, Entry(f), 0)
          BY <2>1
    <3>2. CASE \E u \in Params(f) : e = Definition(u, Entry(f), 0)
          BY <1>4, <1>5, <3>1, <3>2
    <3>3. CASE \E b \in Blocks(f) : \E i \in DOMAIN f.code[b] :
                 f.code[b][i].dst # NoTemp /\ e = Definition(f.code[b][i].dst, b, i)
          BY <1>2, <1>4, <1>5, <3>1, <3>3
    <3> QED
        BY <1>3, <3>2, <3>3
  <2>2. CASE \E b \in Blocks(f) : \E i \in DOMAIN f.code[b] :
               f.code[b][i].dst # NoTemp /\ d = Definition(f.code[b][i].dst, b, i)
    <3>1. PICK b \in Blocks(f) :
            \E i \in DOMAIN f.code[b] : f.code[b][i].dst # NoTemp /\ d = Definition(f.code[b][i].dst, b, i)
          BY <2>2
    <3>2. PICK i \in DOMAIN f.code[b] : f.code[b][i].dst # NoTemp /\ d = Definition(f.code[b][i].dst, b, i)
          BY <3>1
    <3>3. i \in DOMAIN g.code[b] /\ g.code[b][i].dst \in Renamed(source) /\ f.code[b][i].dst \notin Params(f)
          BY <1>2, <3>2
    <3>4. CASE \E u \in Params(f) : e = Definition(u, Entry(f), 0)
          BY <1>4, <1>5, <3>2, <3>3, <3>4
    <3>5. CASE \E c \in Blocks(f) : \E j \in DOMAIN f.code[c] :
                 f.code[c][j].dst # NoTemp /\ e = Definition(f.code[c][j].dst, c, j)
      <4>1. PICK c \in Blocks(f) :
              \E j \in DOMAIN f.code[c] : f.code[c][j].dst # NoTemp /\ e = Definition(f.code[c][j].dst, c, j)
            BY <3>5
      <4>2. PICK j \in DOMAIN f.code[c] : f.code[c][j].dst # NoTemp /\ e = Definition(f.code[c][j].dst, c, j)
            BY <4>1
      <4>3. j \in DOMAIN g.code[c] /\ g.code[c][j].dst \in Renamed(source)
            BY <1>2, <4>2
      <4>4. f.code[b][i].dst = f.code[c][j].dst
            BY <1>4, <1>5, <3>2, <4>2
      <4>5. Distinct(g, f.code, {})
            BY DEF Follows
      <4>6. b = c /\ i = j
            BY <1>1, <3>3, <4>3, <4>4, <4>5 DEF Distinct
      <4> QED
          BY <3>2, <4>2, <4>6
    <3> QED
        BY <1>3, <3>4, <3>5
  <2> QED
      BY <1>3, <2>1, <2>2
<1> QED
    BY <1>5

\* What is read has a definition before: the version of the nearest one, or a parameter.
LEMMA ReadConverted ==
  ASSUME Sound, NEW g, Placed(g, {}), NEW f, f.params = source.params, f.order = source.order,
         NEW next, Follows(g, f.code, {}, next), Unassigned,
         NEW b \in Blocks(source), NEW i \in DOMAIN g.code[b], NEW k \in DOMAIN g.code[b][i].src,
         IsTemp(f.code[b][i].src[k])
  PROVE  /\ ReadBlock(g, b, i, k) \in Blocks(source)
         /\ \E c \in Blocks(source) : \E j \in {0} \cup DOMAIN g.code[c] :
              /\ Definition(f.code[b][i].src[k].temp, c, j) \in SsaDefs(f)
              /\ Ahead(c, j, ReadBlock(g, b, i, k), ReadIndex(g, b, i, k))
<1>1. Blocks(f) = Blocks(source) /\ Params(f) = Params(source) /\ Entry(f) = Entry(source)
      BY DEF Blocks, Params, Entry
<1> DEFINE old == g.code[b][i].src[k]
           new == f.code[b][i].src[k]
           at == ReadBlock(g, b, i, k)
           index == ReadIndex(g, b, i, k)
<1>2. Matches(g, f.code, {}, next, b, i)
      BY DEF Follows
<1>3. CASE IsTemp(old) /\ old.temp \in Renamed(source)
  <2>1. Carries(g, f.code, new, old.temp, at, index)
        BY <1>2, <1>3 DEF Matches
  <2>2. PICK c \in Blocks(source) : \E j \in DOMAIN g.code[c] :
          Nearest(g, old.temp, c, j, at, index) /\ new = Temp(f.code[c][j].dst)
        BY <2>1 DEF Carries
  <2>3. PICK j \in DOMAIN g.code[c] : Nearest(g, old.temp, c, j, at, index) /\ new = Temp(f.code[c][j].dst)
        BY <2>2
  <2>4. Ahead(c, j, at, index) /\ g.code[c][j].dst = old.temp
    <3> HIDE DEF old, new, at, index
    <3> QED
        BY <2>3, Zenon DEF Nearest, DefinesAt
  <2>5. j \in DOMAIN f.code[c] /\ f.code[c][j].dst # NoTemp
    <3>1. g.code[c][j].dst \in Renamed(source)
          BY <1>3, <2>4, Zenon
    <3> HIDE DEF old, new, at, index
    <3> QED
        BY <3>1, ConvertedDefinition
  <2>6. new.temp = f.code[c][j].dst
        BY <2>3 DEF Temp
  <2>7. Definition(new.temp, c, j) \in SsaDefs(f)
        BY <1>1, <2>5, <2>6, SsaDefsAt
  <2>8. ReadsAt(g, old.temp, b, i, k)
        BY <1>3 DEF ReadsAt
  <2>9. at \in Blocks(source)
        BY <2>8, ReadDefined
  <2> QED
      BY <2>4, <2>7, <2>9
<1>4. CASE ~ (IsTemp(old) /\ old.temp \in Renamed(source))
  <2>1. new = old
        BY <1>2, <1>4 DEF Matches
  <2>2. ReadsAt(g, old.temp, b, i, k)
        BY <2>1 DEF ReadsAt
  <2>3. /\ at \in Blocks(source)
        /\ old.temp \notin Params(source) => old.temp \in Defined(source)
        BY <2>2, ReadDefined
  <2>4. old.temp \in Params(source)
        BY <1>4, <2>1, <2>3 DEF Renamed
  <2>5. Definition(new.temp, Entry(source), 0) \in SsaDefs(f)
        BY <1>1, <2>1, <2>4, SsaDefsAt
  <2>6. Entry(source) \in flow.dom[at] /\ Entry(source) \in Blocks(source)
        BY <2>3, TreeFacts
  <2>7. 0 < index
    <3>1. CASE IsPhi(g.code[b][i])
      <4>1. at = g.code[b][i].labels[k] /\ index = Len(g.code[at]) + 1
            BY <3>1 DEF ReadBlock, ReadIndex
      <4> DEFINE n == Len(g.code[at])
      <4>2. n \in Nat
            BY <2>3, PlacedShape
      <4>3. index = n + 1
            BY <4>1
      <4> HIDE DEF index, n
      <4> QED
          BY <4>2, <4>3
    <3>2. CASE ~IsPhi(g.code[b][i])
      <4>1. index = i /\ i \in 1 .. Len(g.code[b])
            BY <3>2, PlacedShape DEF ReadIndex
      <4> HIDE DEF index
      <4> QED
          BY <4>1
    <3> QED
        BY <3>1, <3>2
  <2>8. Ahead(Entry(source), 0, at, index)
        BY <2>6, <2>7 DEF Ahead
  <2> QED
      BY <2>3, <2>5, <2>6, <2>8, SMTT(30)
<1> QED
    BY <1>3, <1>4


LEMMA VerifierPasses ==
  ASSUME Sound, NEW g, Placed(g, {}), NEW f, f.params = source.params, f.order = source.order,
         NEW next, Follows(g, f.code, {}, next), Unassigned
  PROVE  VerifySsa(f, flow)
<1>1. Blocks(f) = Blocks(source)
      BY DEF Blocks
<1> DEFINE D == SsaDefs(f)
<1>2. \A d, e \in D : d.temp = e.temp => d = e
      BY OneDefinition
<1>3. IsInjective(f.params)
      BY DEF Sound
<1>4. \A t, b, i : Definition(t, b, i).temp = t /\ Definition(t, b, i).at[1] = b /\ Definition(t, b, i).at[2] = i
      BY DEF Definition
<1>5. ASSUME NEW b \in Blocks(source), NEW i \in DOMAIN f.code[b]
      PROVE  IF IsPhi(f.code[b][i]) THEN PhiOk(D, flow, f.code[b][i], b)
             ELSE \A t \in Uses(f.code[b][i]) : UseOk(D, flow, t, <<b, i>>)
  <2> DEFINE s == f.code[b][i]
             p == g.code[b][i]
  <2>1. i \in DOMAIN g.code[b] /\ Matches(g, f.code, {}, next, b, i)
        BY DEF Follows
  <2>2. DOMAIN s.src = DOMAIN p.src /\ s.kind = p.kind /\ s.labels = p.labels
    <3>1. s = Stm(p.kind, s.dst, p.op, s.src, p.labels) /\ DOMAIN s.src = DOMAIN p.src
          BY <2>1 DEF Matches
    <3> DEFINE d == s.dst
               r == s.src
    <3>2. s = Stm(p.kind, d, p.op, r, p.labels)
          BY <3>1
    <3> HIDE DEF d, r, s, p
    <3>3. s.kind = p.kind /\ s.labels = p.labels
          BY <3>2 DEF Stm
    <3> QED
        BY <3>1, <3>3 DEF r
  <2>3. IsPhi(s) <=> IsPhi(p)
        BY <2>2 DEF IsPhi
  <2>4. ASSUME NEW k \in DOMAIN s.src, IsTemp(s.src[k])
        PROVE  /\ ReadBlock(g, b, i, k) \in Blocks(source)
               /\ \E c \in Blocks(source) : \E j \in {0} \cup DOMAIN g.code[c] :
                    /\ Definition(s.src[k].temp, c, j) \in D
                    /\ Ahead(c, j, ReadBlock(g, b, i, k), ReadIndex(g, b, i, k))
        BY <2>1, <2>2, <2>4, ReadConverted, SMTT(30)
  <2>5. CASE IsPhi(s)
    <3>1. PhiShape(p, b)
          BY <2>1, <2>3, <2>5, PlacedShape
    <3>2. IsInjective(s.labels) /\ ToSet(s.labels) = flow.pred[b]
          BY <2>2, <3>1 DEF PhiShape
    <3>3. ASSUME NEW k \in DOMAIN s.src
          PROVE  \E d \in D : d.temp = s.src[k].temp /\ d.at[1] \in flow.dom[s.labels[k]]
      <4>1. IsTemp(s.src[k])
        <5>1. p.src[k] = Temp(p.dst) /\ k \in DOMAIN p.src
              BY <2>2, <3>1 DEF PhiShape
        <5>2. \/ s.src[k] = p.src[k]
              \/ \E n : s.src[k] = Temp(n)
              BY <2>1, <5>1 DEF Matches, Carries
        <5>3. \A n : IsTemp(Temp(n))
              BY DEF IsTemp, Temp
        <5> QED
            BY <5>1, <5>2, <5>3
      <4>2. PICK c \in Blocks(source) : \E j \in {0} \cup DOMAIN g.code[c] :
              Definition(s.src[k].temp, c, j) \in D /\ Ahead(c, j, ReadBlock(g, b, i, k), ReadIndex(g, b, i, k))
            BY <2>4, <4>1
      <4>3. PICK j : Definition(s.src[k].temp, c, j) \in D /\ Ahead(c, j, ReadBlock(g, b, i, k), ReadIndex(g, b, i, k))
            BY <4>2
      <4>4. ReadBlock(g, b, i, k) = s.labels[k]
            BY <2>2, <2>3, <2>5 DEF ReadBlock
      <4>5. c \in flow.dom[s.labels[k]]
            BY <4>3, <4>4 DEF Ahead
      <4> HIDE DEF D, s
      <4> QED
          BY <1>4, <4>3, <4>5
    <3> HIDE DEF D, s
    <3> QED
        BY <2>5, <3>2, <3>3 DEF PhiOk, s
  <2>6. CASE ~IsPhi(s)
    <3>1. ASSUME NEW t \in Uses(s) PROVE UseOk(D, flow, t, <<b, i>>)
      <4>1. PICK k \in DOMAIN s.src : IsTemp(s.src[k]) /\ s.src[k].temp = t
            BY UsesAt
      <4>2. PICK c \in Blocks(source) : \E j \in {0} \cup DOMAIN g.code[c] :
              Definition(t, c, j) \in D /\ Ahead(c, j, ReadBlock(g, b, i, k), ReadIndex(g, b, i, k))
            BY <2>4, <4>1
      <4>3. PICK j : Definition(t, c, j) \in D /\ Ahead(c, j, ReadBlock(g, b, i, k), ReadIndex(g, b, i, k))
            BY <4>2
      <4>4. ReadBlock(g, b, i, k) = b /\ ReadIndex(g, b, i, k) = i
            BY <2>3, <2>6 DEF ReadBlock, ReadIndex
      <4>5. c \in flow.dom[b] /\ (c # b \/ j < i)
            BY <4>3, <4>4 DEF Ahead
      <4> HIDE DEF D, s
      <4> DEFINE d == Definition(t, c, j)
      <4>6. d \in D /\ d.temp = t /\ d.at[1] = c /\ d.at[2] = j
            BY <1>4, <4>3
      <4> HIDE DEF d
      <4> QED
          BY <4>5, <4>6 DEF UseOk
    <3> QED
        BY <2>6, <3>1
  <2> QED
      BY <2>5, <2>6
<1>6. ASSUME NEW site \in Sites(f)
      PROVE  LET s == StatementAt(f, site)
             IN IF IsPhi(s) THEN PhiOk(D, flow, s, site[1]) ELSE \A t \in Uses(s) : UseOk(D, flow, t, site)
  <2>1. PICK b \in Blocks(f) : \E i \in DOMAIN f.code[b] : site = <<b, i>>
        BY SitesAt
  <2>2. PICK i \in DOMAIN f.code[b] : site = <<b, i>>
        BY <2>1
  <2>3. StatementAt(f, site) = f.code[b][i] /\ site[1] = b
        BY <2>2 DEF StatementAt
  <2> HIDE DEF D
  <2> QED
      BY <1>1, <1>5, <2>2, <2>3
<1> QED
    BY <1>2, <1>3, <1>6 DEF VerifySsa

\* A parameter that is assigned to keeps its temp, so that there are two definitions of it.
LEMMA VerifierFails ==
  ASSUME Sound, NEW g, Placed(g, {}), NEW f, f.params = source.params, f.order = source.order,
         NEW next, Follows(g, f.code, {}, next), ~Unassigned
  PROVE  ~VerifySsa(f, flow)
<1>1. Blocks(f) = Blocks(source) /\ Params(f) = Params(source)
      BY DEF Blocks, Params
<1>2. PICK t \in Defined(source) : t \in Params(source)
      BY DEF Unassigned
<1>3. PICK s \in Statements(source) : t \in Defs(s)
      BY DEF Defined
<1>4. PICK b \in Blocks(source) : s \in ToSet(source.code[b])
      BY <1>3 DEF Statements
<1>5. PICK i \in DOMAIN source.code[b] : s = source.code[b][i]
      BY <1>4 DEF ToSet
<1> DEFINE j == i + PhiCount(g, b)
<1>6. j \in DOMAIN g.code[b] /\ g.code[b][j] = s
      BY <1>5, PlacedShape
<1>7. j # 0
  <2>1. j \in 1 .. Len(g.code[b])
        BY <1>6, PlacedShape
  <2> HIDE DEF j
  <2> QED
      BY <2>1
<1> HIDE DEF j
<1>8. s.dst = t /\ t # NoTemp
      BY <1>3 DEF Defs
<1>9. j \in DOMAIN f.code[b] /\ f.code[b][j].dst = t
  <2>1. t \notin Renamed(source)
        BY <1>2 DEF Renamed
  <2> QED
      BY <1>6, <1>8, <2>1, ConvertedDefinition
<1>10. Definition(t, Entry(f), 0) \in SsaDefs(f) /\ Definition(t, b, j) \in SsaDefs(f)
       BY <1>1, <1>2, <1>8, <1>9, SsaDefsAt
<1>11. /\ Definition(t, Entry(f), 0).temp = t /\ Definition(t, Entry(f), 0).at[2] = 0
       /\ Definition(t, b, j).temp = t /\ Definition(t, b, j).at[2] = j
       BY DEF Definition
<1>12. Definition(t, Entry(f), 0) # Definition(t, b, j)
       BY <1>7, <1>11
<1> QED
    BY <1>10, <1>11, <1>12 DEF VerifySsa

\* The passes behind the conversion test a function with verifySsaFunction and leave it alone if it
\* fails.  The conversion gives them every function (one definition per temp, which dominates each
\* use and reaches each phi argument over its edge), except those that assign to a parameter.
THEOREM ConversionVerified == Spec => []VerifierAccepts
<1>1. SsaInv => VerifierAccepts
  <2> SUFFICES ASSUME SsaInv, phase = "done" PROVE VerifySsa(func, flow) <=> Unassigned
      BY DEF VerifierAccepts, Unassigned
  <2>1. Sound /\ Framed(func)
        BY Converted
  <2>2. PICK g : Placed(g, {}) /\ Follows(g, func.code, {}, nextTemp)
        BY Converted
  <2>3. func.order = source.order /\ func.params = source.params
        BY <2>1 DEF Framed, Function
  <2> QED
      BY <2>1, <2>2, <2>3, VerifierPasses, VerifierFails
<1> QED
    BY <1>1, ConversionInvariant, PTL



-----------------------------------------------------------------------------
\* The conversion keeps what a function does.  A run of the source and one of the renamed function go
\* side by side: their frames agree on the parameters and, for each variable that may still be read, on
\* the value of its nearest version.
Alive(v, b, m) == v \in flow.liveIn[b] \/ \E k \in 1 .. m : source.code[b][k].dst = v

SameParams(old, new) == \A t \in Params(source) : Value(old, Temp(t)) = Value(new, Temp(t))

SameVersions(g, code, old, new, b, m) ==
  \A v \in Renamed(source) : Alive(v, b, m) =>
    \A x \in Blocks(source) : \A y \in DOMAIN g.code[x] :
      Nearest(g, v, x, y, b, PhiCount(g, b) + 1 + m) => Value(old, Temp(v)) = Value(new, Temp(code[x][y].dst))

Beside(g, code, c, d, b, m) ==
  /\ IsConfiguration(c) /\ IsConfiguration(d)
  /\ Agrees(c, d)
  /\ SameParams(c.env, d.env)
  /\ SameVersions(g, code, c.env, d.env, b, m)

LEMMA TermValue ==
  ASSUME NEW env, NEW term, IsTemp(term)
  PROVE  Value(env, term) = Value(env, Temp(term.temp))
BY DEF Value, Temp, IsTemp

\* A statement and what became of it read the same.
LEMMA ReadsAlike ==
  ASSUME Sound, NEW g, Placed(g, {}), NEW code, NEW next, Follows(g, code, {}, next),
         NEW b \in Blocks(source), NEW m \in DOMAIN source.code[b], NEW c, NEW d, Beside(g, code, c, d, b, m - 1)
  PROVE  Alike(c, d, source.code[b][m], code[b][m + PhiCount(g, b)])
<1> DEFINE i == m + PhiCount(g, b)
           s == source.code[b][m]
           t == code[b][i]
<1>1. i \in DOMAIN g.code[b] /\ g.code[b][i] = s /\ ~IsPhi(s)
      BY PlacedShape, SourceCode
<1>2. m \in Nat /\ PhiCount(g, b) \in Nat /\ PhiCount(g, b) + 1 + (m - 1) = i
  <2>1. PhiCount(g, b) \in Nat /\ m \in Nat
        BY PlacedShape, SourceCode
  <2> QED
      BY <2>1
<1>3. Matches(g, code, {}, next, b, i)
      BY <1>1 DEF Follows
<1>4. NoTemp \notin Renamed(source)
      BY DEF Renamed, Defined, Defs
<1>5. t.dst = NoTemp <=> s.dst = NoTemp
      BY <1>1, <1>4, ConvertedDefinition
<1> HIDE DEF i, s, t
<1>6. t = Stm(s.kind, t.dst, s.op, t.src, s.labels) /\ DOMAIN t.src = DOMAIN s.src
      BY <1>1, <1>3 DEF Matches, t
<1>7. ASSUME NEW k \in DOMAIN s.src PROVE Value(c.env, s.src[k]) = Value(d.env, t.src[k])
  <2> DEFINE v == s.src[k].temp
  <2>1. CASE ~IsTemp(s.src[k])
    <3>1. t.src[k] = s.src[k]
          BY <1>1, <1>3, <2>1 DEF Matches, t
    <3> QED
        BY <2>1, <3>1 DEF Value
  <2>2. CASE IsTemp(s.src[k]) /\ v \notin Renamed(source)
    <3>1. t.src[k] = s.src[k]
          BY <1>1, <1>3, <2>2 DEF Matches, t
    <3>2. ReadsAt(g, v, b, i, k)
          BY <1>1, <2>2 DEF ReadsAt
    <3>3. v \in Params(source)
          BY <2>2, <3>2, ReadDefined DEF Renamed
    <3> HIDE DEF v
    <3>4. Value(c.env, Temp(v)) = Value(d.env, Temp(v))
          BY <3>3 DEF Beside, SameParams
    <3> QED
        BY <2>2, <3>1, <3>4, TermValue DEF v
  <2>3. CASE IsTemp(s.src[k]) /\ v \in Renamed(source)
    <3>1. ReadBlock(g, b, i, k) = b /\ ReadIndex(g, b, i, k) = i
          BY <1>1 DEF ReadBlock, ReadIndex
    <3>2. Carries(g, code, t.src[k], v, b, i)
          BY <1>1, <1>3, <2>3, <3>1 DEF Matches, t
    <3>3. PICK x \in Blocks(source) : \E y \in DOMAIN g.code[x] :
            Nearest(g, v, x, y, b, i) /\ t.src[k] = Temp(code[x][y].dst)
          BY <3>2 DEF Carries
    <3>4. PICK y \in DOMAIN g.code[x] : Nearest(g, v, x, y, b, i) /\ t.src[k] = Temp(code[x][y].dst)
          BY <3>3
    <3>5. Alive(v, b, m - 1)
      <4>1. v \in Uses(s)
            BY <2>3, UsesAt
      <4>2. CASE \E l \in 1 .. m - 1 : v \in Defs(source.code[b][l])
            BY <4>2 DEF Alive, Defs
      <4>3. CASE \A l \in 1 .. m - 1 : v \notin Defs(source.code[b][l])
            BY <4>1, <4>3, LiveFacts DEF Alive, s
      <4> QED
          BY <4>2, <4>3
    <3> HIDE DEF v
    <3>6. Nearest(g, v, x, y, b, PhiCount(g, b) + 1 + (m - 1))
          BY <1>2, <3>4
    <3>7. SameVersions(g, code, c.env, d.env, b, m - 1)
          BY DEF Beside
    <3>8. Value(c.env, Temp(v)) = Value(d.env, Temp(code[x][y].dst))
          BY <2>3, <3>5, <3>6, <3>7 DEF SameVersions
    <3> QED
        BY <2>3, <3>4, <3>8, TermValue DEF v
  <2> QED
      BY <2>1, <2>2, <2>3
<1> QED
    BY <1>5, <1>6, <1>7 DEF Alike, s, t, i

\* What a statement of the renamed function assigns is no parameter that the source would not assign
\* as well, and no version that was there.
LEMMA Overwritten ==
  ASSUME Sound, NEW g, Placed(g, {}), NEW code, NEW next, Follows(g, code, {}, next),
         NEW b \in Blocks(source), NEW i \in DOMAIN g.code[b]
  PROVE  /\ \A t \in Params(source) : code[b][i].dst = t <=> g.code[b][i].dst = t
         /\ \A x \in Blocks(source) : \A y \in DOMAIN g.code[x] :
              g.code[x][y].dst \in Renamed(source) /\ code[b][i].dst = code[x][y].dst => x = b /\ y = i
<1>1. ASSUME NEW x \in Blocks(source), NEW y \in DOMAIN g.code[x]
      PROVE  /\ g.code[x][y].dst # NoTemp => g.code[x][y].dst \in Defined(source)
             /\ g.code[x][y].dst \in Renamed(source) =>
                  code[x][y].dst # NoTemp /\ code[x][y].dst \notin Params(source)
             /\ g.code[x][y].dst \notin Renamed(source) => code[x][y].dst = g.code[x][y].dst
      BY ConvertedDefinition
<1>2. Renamed(source) \cap Params(source) = {}
      BY DEF Renamed
<1>3. Distinct(g, code, {})
      BY DEF Follows
<1>4. ASSUME NEW x \in Blocks(source), NEW y \in DOMAIN g.code[x], g.code[x][y].dst \in Renamed(source),
             code[b][i].dst = code[x][y].dst
      PROVE  x = b /\ y = i
  <2>1. g.code[b][i].dst \in Renamed(source)
        BY <1>1, <1>4 DEF Renamed
  <2> QED
      BY <1>3, <1>4, <2>1 DEF Distinct
<1> QED
    BY <1>1, <1>2, <1>4


\* Behind a statement: its own definition is the nearest of its variable, and the others stay.
LEMMA NearestBehind ==
  ASSUME Sound, NEW g, Placed(g, {}), NEW b \in Blocks(source), NEW i \in DOMAIN g.code[b], NEW v \in Renamed(source),
         NEW x \in Blocks(source), NEW y \in DOMAIN g.code[x], Nearest(g, v, x, y, b, i + 1)
  PROVE  IF g.code[b][i].dst = v THEN x = b /\ y = i ELSE Nearest(g, v, x, y, b, i)
<1>1. i \in Nat /\ y \in Nat
      BY PlacedShape
<1>2. ASSUME g.code[b][i].dst = v PROVE x = b /\ y = i
  <2>1. DefinesAt(g, v, b, i) /\ Ahead(b, i, b, i + 1)
        BY <1>1, <1>2, TreeFacts DEF DefinesAt, Ahead
  <2>2. (b = x /\ i = y) \/ Ahead(b, i, x, y)
        BY <2>1 DEF Nearest
  <2>3. ASSUME Ahead(b, i, x, y) PROVE FALSE
    <3>1. Ahead(x, y, b, i + 1)
          BY DEF Nearest
    <3>2. x = b
          BY <2>3, <3>1, TreeFacts DEF Ahead
    <3> QED
        BY <1>1, <2>3, <3>1, <3>2 DEF Ahead
  <2> QED
      BY <2>2, <2>3
<1>3. ASSUME g.code[b][i].dst # v PROVE Nearest(g, v, x, y, b, i)
  <2>1. ASSUME NEW e \in Blocks(source), NEW k \in DOMAIN g.code[e], DefinesAt(g, v, e, k)
        PROVE  Ahead(e, k, b, i + 1) <=> Ahead(e, k, b, i)
    <3>1. CASE e # b
          BY <3>1 DEF Ahead
    <3>2. CASE e = b
      <4>1. k \in Nat /\ k # i
            BY <1>3, <2>1, <3>2, PlacedShape DEF DefinesAt
      <4>2. k < i + 1 <=> k < i
            BY <1>1, <4>1
      <4> QED
          BY <3>2, <4>2 DEF Ahead
    <3> QED
        BY <3>1, <3>2
  <2> QED
      BY <2>1, NearestSame
<1> QED
    BY <1>2, <1>3

\* Side by side in front of a statement, side by side behind it.
LEMMA BesideStatement ==
  ASSUME Sound, NEW g, Placed(g, {}), NEW code, NEW next, Follows(g, code, {}, next),
         NEW b \in Blocks(source), NEW m \in DOMAIN source.code[b], NEW c, NEW d, Beside(g, code, c, d, b, m - 1),
         NEW input
  PROVE  Beside(g, code, ExecStatement(input, c, source.code[b][m]),
                ExecStatement(input, d, code[b][m + PhiCount(g, b)]), b, m)
<1> DEFINE P == PhiCount(g, b)
           i == m + P
           s == source.code[b][m]
           t == code[b][i]
           c2 == ExecStatement(input, c, s)
           d2 == ExecStatement(input, d, t)
<1> SUFFICES Beside(g, code, c2, d2, b, m)
    OBVIOUS
<1>1. m \in Nat /\ P \in Nat /\ m >= 1 /\ P + 1 + (m - 1) = i /\ P + 1 + m = i + 1
  <2>1. P \in Nat /\ m \in 1 .. Len(source.code[b]) /\ Len(source.code[b]) \in Nat
        BY PlacedShape, SourceCode
  <2> HIDE DEF P
  <2> QED
      BY <2>1
<1>2. i \in DOMAIN g.code[b] /\ g.code[b][i] = s
      BY PlacedShape
<1>3. Yields(c, d, s, t, c2, d2)
  <2>1. WellFormedStatement(source, s) /\ ~IsPhi(s)
        BY SourceCode
  <2>2. Alike(c, d, s, t)
        BY ReadsAlike
  <2>3. IsConfiguration(c) /\ IsConfiguration(d) /\ Agrees(c, d)
        BY DEF Beside
  <2> HIDE DEF s, t
  <2> QED
      BY <2>1, <2>2, <2>3, StatementsAgree
<1>4. /\ \A p \in Params(source) : t.dst = p <=> s.dst = p
      /\ \A x \in Blocks(source) : \A y \in DOMAIN g.code[x] :
           g.code[x][y].dst \in Renamed(source) /\ t.dst = code[x][y].dst => x = b /\ y = i
  <2>1. /\ \A p \in Params(source) : code[b][i].dst = p <=> g.code[b][i].dst = p
        /\ \A x \in Blocks(source) : \A y \in DOMAIN g.code[x] :
             g.code[x][y].dst \in Renamed(source) /\ code[b][i].dst = code[x][y].dst => x = b /\ y = i
    <3> HIDE DEF i
    <3> QED
        BY <1>2, Overwritten
  <2> QED
      BY <1>2, <2>1
<1>5. SameParams(c.env, d.env) /\ SameVersions(g, code, c.env, d.env, b, m - 1)
      BY DEF Beside
<1> HIDE DEF s, t, c2, d2, i, P
<1>6. IsConfiguration(c2) /\ IsConfiguration(d2) /\ Agrees(c2, d2)
      BY <1>3 DEF Yields
<1>7. ASSUME NEW v \in Renamed(source), Alive(v, b, m), v # s.dst PROVE Alive(v, b, m - 1)
  <2>1. \A k \in 1 .. m : k \in 1 .. m - 1 \/ k = m
        BY <1>1
  <2> QED
      BY <1>7, <2>1 DEF Alive, s
<1>8. ASSUME NEW v \in Renamed(source), Alive(v, b, m), v # s.dst,
             NEW x \in Blocks(source), NEW y \in DOMAIN g.code[x], Nearest(g, v, x, y, b, P + 1 + m)
      PROVE  Value(c.env, Temp(v)) = Value(d.env, Temp(code[x][y].dst)) /\ code[x][y].dst # t.dst
  <2>1. Nearest(g, v, x, y, b, i)
        BY <1>1, <1>2, <1>8, NearestBehind
  <2>2. Nearest(g, v, x, y, b, P + 1 + (m - 1)) /\ Alive(v, b, m - 1)
        BY <1>1, <1>7, <1>8, <2>1
  <2>3. Value(c.env, Temp(v)) = Value(d.env, Temp(code[x][y].dst))
        BY <1>5, <2>2 DEF SameVersions, P
  <2>4. g.code[x][y].dst = v
        BY <2>1 DEF Nearest, DefinesAt
  <2>5. code[x][y].dst # t.dst
        BY <1>2, <1>4, <1>8, <2>4
  <2> QED
      BY <2>3, <2>5
<1>9. CASE s.dst = NoTemp /\ c2.env = c.env /\ d2.env = d.env
  <2>1. SameParams(c2.env, d2.env)
        BY <1>5, <1>9
  <2>2. NoTemp \notin Renamed(source)
        BY DEF Renamed, Defined, Defs
  <2>3. SameVersions(g, code, c2.env, d2.env, b, m)
        BY <1>8, <1>9, <2>2 DEF SameVersions, P
  <2> QED
      BY <1>6, <2>1, <2>3 DEF Beside
<1>10. CASE \E x : c2.env = Bind(c.env, s.dst, x) /\ d2.env = Bind(d.env, t.dst, x)
  <2>1. PICK val : c2.env = Bind(c.env, s.dst, val) /\ d2.env = Bind(d.env, t.dst, val)
        BY <1>10
  <2>2. \A u : Value(c2.env, Temp(u)) = IF u = s.dst THEN val ELSE Value(c.env, Temp(u))
        BY <2>1, BoundValue
  <2>3. \A u : Value(d2.env, Temp(u)) = IF u = t.dst THEN val ELSE Value(d.env, Temp(u))
        BY <2>1, BoundValue
  <2>4. SameParams(c2.env, d2.env)
        BY <1>4, <1>5, <2>2, <2>3 DEF SameParams
  <2>5. ASSUME NEW v \in Renamed(source), Alive(v, b, m),
               NEW x \in Blocks(source), NEW y \in DOMAIN g.code[x], Nearest(g, v, x, y, b, P + 1 + m)
        PROVE  Value(c2.env, Temp(v)) = Value(d2.env, Temp(code[x][y].dst))
    <3>1. CASE v # s.dst
          BY <1>8, <2>2, <2>3, <2>5, <3>1
    <3>2. CASE v = s.dst
      <4>1. x = b /\ y = i
            BY <1>1, <1>2, <2>5, <3>2, NearestBehind
      <4> QED
          BY <2>2, <2>3, <3>2, <4>1 DEF t
    <3> QED
        BY <3>1, <3>2
  <2>6. SameVersions(g, code, c2.env, d2.env, b, m)
        BY <2>5 DEF SameVersions, P
  <2> QED
      BY <1>6, <2>4, <2>6 DEF Beside
<1> QED
    BY <1>3, <1>9, <1>10 DEF Yields


\* From step to step.
LEMMA Climb ==
  ASSUME NEW n \in Nat, NEW S, 0 \in S, \A i \in 1 .. n : i - 1 \in S => i \in S
  PROVE  \A i \in 0 .. n : i \in S
<1> DEFINE T == {i \in 0 .. n : i \notin S}
<1>1. ASSUME T # {} PROVE FALSE
  <2>1. T \in SUBSET Nat
        OBVIOUS
  <2>2. PICK l \in T : \A j \in T : l <= j
    <3> HIDE DEF T
    <3> QED
        BY <1>1, <2>1, LeastElement
  <2>3. l \in 1 .. n /\ l - 1 \in 0 .. n
        OBVIOUS
  <2>4. l - 1 \notin T
        BY <2>2, <2>3
  <2> QED
      BY <2>3, <2>4
<1> QED
    BY <1>1

\* Side by side along a block: the phis in front of it do nothing where they stand.
LEMMA BesideBlock ==
  ASSUME Sound, NEW g, Placed(g, {}), NEW f, Shaped(f.code), NEW next, Follows(g, f.code, {}, next),
         NEW b \in Blocks(source), NEW c, NEW d, c.at = b, ~c.halted, Beside(g, f.code, c, d, b, 0), NEW input,
         NEW c2, c2 = AlongBlock(source, input, c)[Len(source.code[b])],
         NEW d2, d2 = AlongBlock(f, input, d)[Len(f.code[b])]
  PROVE  /\ Beside(g, f.code, c2, d2, b, Len(source.code[b]))
         /\ ~c2.halted => c2.at \in flow.succ[b]
<1> DEFINE P == PhiCount(g, b)
           N == Len(source.code[b])
           M == Len(f.code[b])
           W == AlongBlock(source, input, c)
           X == AlongBlock(f, input, d)
           Good(i) == /\ Beside(g, f.code, W[i], X[i + P], b, i)
                      /\ i # N => W[i].at = b /\ ~W[i].halted
<1>1. /\ N \in Nat /\ N # 0 /\ DOMAIN source.code[b] = 1 .. N
      /\ \A i \in 1 .. N : /\ WellFormedStatement(source, source.code[b][i])
                           /\ source.code[b][i].kind \in Leaving <=> i = N
  <2>1. N \in Nat /\ DOMAIN source.code[b] = 1 .. N
        BY SourceCode
  <2>2. WellFormed(source)
        BY DEF Sound, Flowing
  <2>3. source.code[b] \in Seq(ToSet(source.code[b])) /\ source.code[b] # <<>>
        BY <2>2 DEF WellFormed
  <2>4. N # 0
        BY <2>3
  <2>5. \A i \in DOMAIN source.code[b] : /\ WellFormedStatement(source, source.code[b][i])
                                         /\ source.code[b][i].kind \in Leaving <=> i = N
        BY <2>2 DEF WellFormed
  <2> QED
      BY <2>1, <2>4, <2>5
<1>2. P \in Nat /\ M = P + N /\ DOMAIN f.code[b] = 1 .. P + N /\ DOMAIN g.code[b] = 1 .. P + N
  <2>1. P \in Nat /\ Len(g.code[b]) = P + N /\ DOMAIN g.code[b] = 1 .. Len(g.code[b])
        BY PlacedShape
  <2>2. f.code[b] \in Seq(ToSet(f.code[b]))
        BY DEF Shaped
  <2>3. M \in Nat /\ DOMAIN f.code[b] = 1 .. M
        BY <2>2
  <2>4. DOMAIN f.code[b] = DOMAIN g.code[b]
        BY DEF Follows
  <2>5. P + N \in Nat
        BY <1>1, <2>1
  <2> HIDE DEF P, M, N
  <2> QED
      BY <2>1, <2>3, <2>4, <2>5
<1>3. d.at = b
      BY DEF Beside, Agrees
<1>4. W[0] = c /\ \A i \in 1 .. N : W[i] = ExecStatement(input, W[i - 1], source.code[b][i])
  <2>1. Len(source.code[c.at]) \in Nat
        BY <1>1
  <2>2. W[0] = c /\ \A i \in 1 .. Len(source.code[c.at]) :
                     W[i] = ExecStatement(input, W[i - 1], source.code[c.at][i])
        BY <2>1, BehindFacts
  <2> HIDE DEF W
  <2> QED
      BY <2>2
<1>5. X[0] = d /\ \A i \in 1 .. P + N : X[i] = ExecStatement(input, X[i - 1], f.code[b][i])
  <2>1. P + N \in Nat
        BY <1>1, <1>2
  <2>2. Len(f.code[d.at]) \in Nat
        BY <1>2, <1>3, <2>1
  <2> QED
      BY <1>2, <1>3, <2>2, BehindFacts
<1> HIDE DEF W, X, M
<1>6. \A i \in 1 .. P : IsPhi(f.code[b][i])
  <2> SUFFICES ASSUME NEW i \in 1 .. P PROVE IsPhi(f.code[b][i])
      OBVIOUS
  <2>1. i \in DOMAIN g.code[b] /\ i <= P
        BY <1>1, <1>2
  <2>2. IsPhi(g.code[b][i]) /\ Matches(g, f.code, {}, next, b, i)
        BY <2>1, PlacedShape DEF Follows
  <2> QED
      BY <2>2 DEF Matches, Stm, IsPhi
<1>7. X[P] = d
  <2> DEFINE S == {i \in 0 .. P : X[i] = d}
  <2>1. ASSUME NEW i \in 1 .. P, i - 1 \in S PROVE i \in S
    <3>1. i \in 1 .. P + N /\ i \in 0 .. P
          BY <1>1, <1>2
    <3>2. X[i] = ExecStatement(input, d, f.code[b][i])
          BY <1>5, <2>1, <3>1
    <3> QED
        BY <1>6, <3>1, <3>2, PhiStays
  <2>2. 0 \in S
        BY <1>2, <1>5
  <2> HIDE DEF S, P
  <2>3. P \in 0 .. P
        BY <1>2
  <2>4. P \in S
        BY <1>2, <2>1, <2>2, <2>3, Climb
  <2> QED
      BY <2>4 DEF S
<1>8. ASSUME NEW i \in 1 .. N, Good(i - 1)
      PROVE  Good(i) /\ Leads(source, W[i - 1], source.code[b][i], W[i])
  <2>1. i \in Nat /\ i - 1 # N /\ i + P \in 1 .. P + N /\ (i + P) - 1 = (i - 1) + P
        BY <1>1, <1>2
  <2>2. Beside(g, f.code, W[i - 1], X[(i + P) - 1], b, i - 1) /\ W[i - 1].at = b /\ ~W[i - 1].halted
        BY <1>8, <2>1
  <2>3. W[i] = ExecStatement(input, W[i - 1], source.code[b][i])
          /\ X[i + P] = ExecStatement(input, X[(i + P) - 1], f.code[b][i + P])
        BY <1>4, <1>5, <2>1
  <2>4. Beside(g, f.code, W[i], X[i + P], b, i)
        BY <1>1, <2>2, <2>3, BesideStatement
  <2>5. Leads(source, W[i - 1], source.code[b][i], W[i])
        BY <1>1, <2>2, <2>3, StatementLeads DEF Beside
  <2>6. i # N => W[i].at = b /\ ~W[i].halted
        BY <1>1, <2>2, <2>5 DEF Leads
  <2> QED
      BY <2>4, <2>5, <2>6
<1>9. \A i \in 0 .. N : Good(i)
  <2> DEFINE S == {i \in 0 .. N : Good(i)}
  <2>1. Good(0)
        BY <1>2, <1>4, <1>7
  <2> HIDE DEF Good
  <2>2. 0 \in S
        BY <1>1, <2>1
  <2>3. \A i \in 1 .. N : i - 1 \in S => i \in S
        BY <1>1, <1>8
  <2> HIDE DEF S, N
  <2>4. \A i \in 0 .. N : i \in S
        BY <1>1, <2>2, <2>3, Climb
  <2> QED
      BY <2>4 DEF S
<1>10. N \in 1 .. N /\ N \in 0 .. N /\ N - 1 \in 0 .. N /\ N - 1 # N
       BY <1>1
<1>11. c2 = W[N] /\ d2 = X[N + P]
  <2>1. M = N + P
        BY <1>1, <1>2
  <2> QED
      BY <2>1 DEF W, X, M
<1>12. Beside(g, f.code, c2, d2, b, N)
       BY <1>9, <1>10, <1>11
<1>13. ASSUME ~c2.halted PROVE c2.at \in flow.succ[b]
  <2>1. Leads(source, W[N - 1], source.code[b][N], W[N]) /\ source.code[b][N].kind \in Leaving
        BY <1>1, <1>8, <1>9, <1>10
  <2>2. c2.at \in ToSet(source.code[b][N].labels)
        BY <1>11, <1>13, <2>1 DEF Leads
  <2>3. Exits(source, b) = ToSet(source.code[b][N].labels)
        BY DEF Exits, Last
  <2>4. flow.succ[b] = Exits(source, b)
        BY FlowFacts DEF Sound
  <2> QED
      BY <2>2, <2>3, <2>4
<1> QED
    BY <1>12, <1>13

\* A variable that is live into a block may still be read at the end of those in front of it.
LEMMA AliveAcross ==
  ASSUME Sound, NEW v, NEW a \in Blocks(source), NEW e \in flow.succ[a], v \in flow.liveIn[e]
  PROVE  Alive(v, a, Len(source.code[a]))
<1>1. CASE Transparent(source, a, v)
      BY <1>1, LiveFacts DEF Alive
<1>2. CASE ~Transparent(source, a, v)
      BY <1>2, SourceCode DEF Transparent, Alive, Defs
<1> QED
    BY <1>1, <1>2

\* Side by side over an edge: a variable with a phi takes the version its argument names, one without
\* keeps its nearest version.
LEMMA BesideEdge ==
  ASSUME Sound, NEW g, Placed(g, {}), NEW f, NEW next, Follows(g, f.code, {}, next),
         NEW a \in Blocks(source), NEW c, NEW d, Beside(g, f.code, c, d, a, Len(source.code[a])),
         c.at \in flow.succ[a]
  PROVE  Beside(g, f.code, ExecPhis(source, c, a), ExecPhis(f, d, a), c.at, 0)
<1> DEFINE e == c.at
           c2 == ExecPhis(source, c, a)
           d2 == ExecPhis(f, d, a)
           P == PhiCount(g, e)
<1> SUFFICES Beside(g, f.code, c2, d2, e, 0)
    OBVIOUS
<1>1. /\ IsConfiguration(c) /\ IsConfiguration(d) /\ Agrees(c, d)
      /\ SameParams(c.env, d.env) /\ SameVersions(g, f.code, c.env, d.env, a, Len(source.code[a]))
      BY DEF Beside
<1>2. d.at = e
      BY <1>1 DEF Agrees
<1>3. e \in Blocks(source) /\ a \in flow.pred[e]
  <2>1. Flowing(source, flow)
        BY DEF Sound
  <2>2. flow.succ[a] = Exits(source, a) /\ e \in Blocks(source)
        BY <2>1, FlowFacts
  <2> QED
      BY <2>1, <2>2, FlowFacts
<1>4. /\ IsConfiguration(c2) /\ Agrees(c, c2)
      /\ \A u : Value(c2.env, Temp(u)) = Value(c.env, Temp(u))
  <2>1. ~ \E i, k : TakesOver(source, c, a, i, k)
        BY <1>3, SourceCode DEF TakesOver
  <2>2. Arrives(source, c, a, c2)
        BY <1>1, PhiValues
  <2> HIDE DEF c2
  <2> QED
      BY <2>1, <2>2 DEF Arrives
<1>5. /\ IsConfiguration(d2) /\ Agrees(d, d2)
      /\ \A u : \/ \E i, k : /\ TakesOver(f, d, a, i, k)
                             /\ f.code[d.at][i].dst = u
                             /\ Value(d2.env, Temp(u)) = Value(d.env, f.code[d.at][i].src[k])
                \/ /\ ~ \E i, k : TakesOver(f, d, a, i, k) /\ f.code[d.at][i].dst = u
                   /\ Value(d2.env, Temp(u)) = Value(d.env, Temp(u))
  <2>1. Arrives(f, d, a, d2)
        BY <1>1, PhiValues
  <2> HIDE DEF d2
  <2> QED
      BY <2>1 DEF Arrives
<1>e. c.at = e /\ e \in flow.succ[a]
      OBVIOUS
<1> HIDE DEF c2, d2, e
<1>6. IsConfiguration(c2) /\ IsConfiguration(d2) /\ Agrees(c2, d2)
      BY <1>1, <1>4, <1>5 DEF Agrees
\* what the phis of the renamed function are
<1>7. ASSUME NEW i, NEW k, TakesOver(f, d, a, i, k)
      PROVE  /\ i \in DOMAIN g.code[e] /\ PhiShape(g.code[e][i], e) /\ k \in DOMAIN g.code[e][i].src
             /\ ReadBlock(g, e, i, k) = a /\ ReadIndex(g, e, i, k) = Len(g.code[a]) + 1
             /\ Matches(g, f.code, {}, next, e, i)
  <2>1. i \in DOMAIN g.code[e] /\ Matches(g, f.code, {}, next, e, i)
        BY <1>2, <1>3, <1>7 DEF TakesOver, Follows
  <2>2. f.code[e][i].kind = g.code[e][i].kind /\ f.code[e][i].labels = g.code[e][i].labels
        BY <2>1 DEF Matches, Stm
  <2>3. IsPhi(g.code[e][i]) /\ k \in DOMAIN g.code[e][i].labels /\ g.code[e][i].labels[k] = a
        BY <1>2, <1>7, <2>2 DEF TakesOver, IsPhi
  <2>4. PhiShape(g.code[e][i], e)
        BY <1>3, <2>1, <2>3, PlacedShape
  <2> QED
      BY <2>1, <2>3, <2>4 DEF PhiShape, ReadBlock, ReadIndex
<1>8. ASSUME NEW i \in DOMAIN g.code[e]
      PROVE  /\ \A p \in Params(source) : f.code[e][i].dst = p <=> g.code[e][i].dst = p
             /\ \A x \in Blocks(source) : \A y \in DOMAIN g.code[x] :
                  g.code[x][y].dst \in Renamed(source) /\ f.code[e][i].dst = f.code[x][y].dst => x = e /\ y = i
      BY <1>3, Overwritten
<1>9. SameParams(c2.env, d2.env)
  <2> SUFFICES ASSUME NEW p \in Params(source) PROVE Value(d2.env, Temp(p)) = Value(d.env, Temp(p))
      BY <1>1, <1>4 DEF SameParams
  <2>1. ASSUME NEW i, NEW k, TakesOver(f, d, a, i, k), f.code[d.at][i].dst = p
        PROVE  f.code[d.at][i].src[k] = Temp(p)
    <3>1. g.code[e][i].dst = p
          BY <1>2, <1>7, <1>8, <2>1
    <3>2. g.code[e][i].src[k] = Temp(p)
          BY <1>7, <2>1, <3>1 DEF PhiShape
    <3>3. p \notin Renamed(source)
          BY DEF Renamed
    <3>4. Temp(p).temp = p
          BY DEF Temp
    <3> QED
        BY <1>2, <1>7, <2>1, <3>2, <3>3, <3>4 DEF Matches
  <2> QED
      BY <1>5, <2>1
<1>10. ASSUME NEW v \in Renamed(source), v \in flow.liveIn[e]
       PROVE  \A x \in Blocks(source) : \A y \in DOMAIN g.code[x] :
                Nearest(g, v, x, y, a, Len(g.code[a]) + 1) =>
                  Value(c.env, Temp(v)) = Value(d.env, Temp(f.code[x][y].dst))
  <2>1. Alive(v, a, Len(source.code[a]))
        BY <1>e, <1>10, AliveAcross
  <2>2. PhiCount(g, a) + 1 + Len(source.code[a]) = Len(g.code[a]) + 1
    <3>1. PhiCount(g, a) \in Nat /\ Len(source.code[a]) \in Nat
            /\ Len(g.code[a]) = PhiCount(g, a) + Len(source.code[a])
          BY PlacedShape, SourceCode
    <3> QED
        BY <3>1, SMTT(30)
  <2> QED
      BY <1>1, <2>1, <2>2 DEF SameVersions
<1>11. ASSUME NEW v \in Renamed(source), v \in flow.liveIn[e], NEW x \in Blocks(source), NEW y \in DOMAIN g.code[x],
              Nearest(g, v, x, y, e, P + 1)
       PROVE  Value(c.env, Temp(v)) = Value(d2.env, Temp(f.code[x][y].dst))
  <2>1. v \in Defined(source) /\ g.code[x][y].dst = v
        BY <1>11 DEF Renamed, Nearest, DefinesAt
  <2>2. CASE e \in PhiBlocks(v)
    <3>1. PICK i \in DOMAIN g.code[e] : i <= P /\ g.code[e][i].dst = v
          BY <1>3, <2>1, <2>2, PlacedShape
    <3>2. Nearest(g, v, e, i, e, P + 1)
          BY <1>3, <2>1, <3>1, PhiNearest
    <3>3. x = e /\ y = i
          BY <1>11, <3>2, NearestUnique
    <3>4. \E k : TakesOver(f, d, a, i, k)
      <4>1. IsPhi(g.code[e][i]) /\ PhiShape(g.code[e][i], e)
            BY <1>3, <3>1, PlacedShape
      <4>2. PICK k \in DOMAIN g.code[e][i].labels : g.code[e][i].labels[k] = a
            BY <1>3, <4>1 DEF PhiShape, ToSet
      <4>3. Matches(g, f.code, {}, next, e, i) /\ DOMAIN f.code[e] = DOMAIN g.code[e]
            BY <1>3 DEF Follows
      <4>4. f.code[e][i].kind = g.code[e][i].kind /\ f.code[e][i].labels = g.code[e][i].labels
            BY <4>3 DEF Matches, Stm
      <4> QED
          BY <1>2, <4>1, <4>2, <4>3, <4>4 DEF TakesOver, IsPhi
    <3>5. PICK i2, k2 : /\ TakesOver(f, d, a, i2, k2)
                        /\ f.code[e][i2].dst = f.code[e][i].dst
                        /\ Value(d2.env, Temp(f.code[e][i].dst)) = Value(d.env, f.code[e][i2].src[k2])
          BY <1>2, <1>5, <3>4
    <3>6. i2 = i
          BY <1>3, <1>7, <1>8, <3>1, <3>5
    <3>7. Carries(g, f.code, f.code[e][i].src[k2], v, a, Len(g.code[a]) + 1)
      <4>1. g.code[e][i].src[k2] = Temp(v)
            BY <1>7, <3>1, <3>5, <3>6 DEF PhiShape
      <4>2. IsTemp(Temp(v)) /\ Temp(v).temp = v
            BY DEF IsTemp, Temp
      <4> QED
          BY <1>7, <3>5, <3>6, <4>1, <4>2 DEF Matches
    <3>8. PICK x2 \in Blocks(source) : \E y2 \in DOMAIN g.code[x2] :
            Nearest(g, v, x2, y2, a, Len(g.code[a]) + 1) /\ f.code[e][i].src[k2] = Temp(f.code[x2][y2].dst)
          BY <3>7 DEF Carries
    <3>9. Value(c.env, Temp(v)) = Value(d.env, f.code[e][i].src[k2])
          BY <1>10, <1>11, <3>8
    <3> QED
        BY <3>3, <3>5, <3>6, <3>9
  <2>3. CASE e \notin PhiBlocks(v)
    <3>1. Nearest(g, v, x, y, a, Len(g.code[a]) + 1)
      <4>1. \A x2 \in Blocks(source) : \A y2 \in DOMAIN g.code[x2] : DefinesAt(g, v, x2, y2) =>
              (Ahead(x2, y2, a, Len(g.code[a]) + 1) <=> Ahead(x2, y2, e, PhiCount(g, e) + 1))
            BY <1>e, <1>11, <2>3, AheadAcross
      <4> QED
          BY <1>11, <4>1, NearestSame
    <3>2. ASSUME NEW i, NEW k, TakesOver(f, d, a, i, k), f.code[d.at][i].dst = f.code[x][y].dst PROVE FALSE
      <4>1. x = e /\ y = i
            BY <1>2, <1>7, <1>8, <1>11, <2>1, <3>2
      <4> QED
          BY <1>7, <2>1, <2>3, <3>2, <4>1 DEF PhiShape
    <3>3. Value(d2.env, Temp(f.code[x][y].dst)) = Value(d.env, Temp(f.code[x][y].dst))
          BY <1>5, <3>2
    <3> QED
        BY <1>10, <1>11, <3>1, <3>3
  <2> QED
      BY <2>2, <2>3
<1>12. SameVersions(g, f.code, c2.env, d2.env, e, 0)
  <2> SUFFICES ASSUME NEW v \in Renamed(source), Alive(v, e, 0), NEW x \in Blocks(source), NEW y \in DOMAIN g.code[x],
                      Nearest(g, v, x, y, e, P + 1 + 0)
               PROVE  Value(c2.env, Temp(v)) = Value(d2.env, Temp(f.code[x][y].dst))
      BY DEF SameVersions
  <2>1. v \in flow.liveIn[e]
        BY DEF Alive
  <2>2. P + 1 + 0 = P + 1
    <3>1. P \in Nat
          BY <1>3, PlacedShape
    <3> QED
        BY <3>1
  <2> QED
      BY <1>4, <1>11, <2>1, <2>2
<1> QED
    BY <1>6, <1>9, <1>12 DEF Beside


\* Two runs go abreast: they have shown the same and are at the same block, side by side in front of it.
Abreast(g, code, c, d) ==
  /\ Agrees(c, d)
  /\ c.halted \/ (c.at \in Blocks(source) /\ Beside(g, code, c, d, c.at, 0))

LEMMA AbreastAtFirst ==
  ASSUME Sound, NEW g, NEW f, f.params = source.params, f.order = source.order, NEW input
  PROVE  Abreast(g, f.code, Start(source, input), Start(f, input))
<1> DEFINE c == Start(source, input)
           d == Start(f, input)
           env == [t \in ToSet(source.params) |->
                     input.args[CHOOSE i \in DOMAIN source.params : source.params[i] = t]]
<1>1. c = [at |-> Entry(source), halted |-> FALSE, trace |-> <<>>, env |-> env]
      BY DEF Start
<1>2. d = [at |-> Entry(f), halted |-> FALSE, trace |-> <<>>, env |-> env]
      BY DEF Start
<1>3. Entry(f) = Entry(source) /\ Entry(source) \in Blocks(source)
      BY TreeFacts DEF Entry
<1> HIDE DEF env, c, d
<1>4. IsConfiguration(c) /\ IsConfiguration(d) /\ Agrees(c, d)
      BY <1>1, <1>2, <1>3 DEF IsConfiguration, Agrees
<1>5. SameParams(c.env, d.env)
      BY <1>1, <1>2 DEF SameParams
<1>6. SameVersions(g, f.code, c.env, d.env, c.at, 0)
  <2> SUFFICES ASSUME NEW v \in Renamed(source), Alive(v, c.at, 0) PROVE FALSE
      BY DEF SameVersions
  <2>1. v \in flow.liveIn[Entry(source)]
        BY <1>1 DEF Alive
  <2> QED
      BY <2>1 DEF Sound, Renamed
<1>7. Abreast(g, f.code, c, d)
      BY <1>1, <1>3, <1>4, <1>5, <1>6 DEF Abreast, Beside
<1> QED
    BY <1>7 DEF c, d

LEMMA AbreastOnward ==
  ASSUME Sound, NEW g, Placed(g, {}), NEW f, Shaped(f.code), NEW next, Follows(g, f.code, {}, next), NEW input,
         NEW c, NEW d, Abreast(g, f.code, c, d)
  PROVE  Abreast(g, f.code, Onward(source, input, c), Onward(f, input, d))
<1>1. c.at = d.at /\ c.halted = d.halted
      BY DEF Abreast, Agrees
<1>2. CASE c.halted
      BY <1>1, <1>2 DEF Onward
<1>3. CASE ~c.halted
  <2> DEFINE b == c.at
             e == AlongBlock(source, input, c)[Len(source.code[b])]
             h == AlongBlock(f, input, d)[Len(f.code[b])]
             N == Len(source.code[b])
  <2>1. Onward(source, input, c) = IF e.halted THEN e ELSE ExecPhis(source, e, b)
        BY <1>3 DEF Onward, ExecBlock, BlockBy, AlongBlock
  <2>2. Onward(f, input, d) = IF h.halted THEN h ELSE ExecPhis(f, h, b)
        BY <1>1, <1>3 DEF Onward, ExecBlock, BlockBy, AlongBlock
  <2>3. b \in Blocks(source) /\ Beside(g, f.code, c, d, b, 0)
        BY <1>3 DEF Abreast
  <2>4. Beside(g, f.code, e, h, b, N) /\ (~e.halted => e.at \in flow.succ[b])
        BY <1>3, <2>3, BesideBlock
  <2> HIDE DEF e, h, N
  <2>5. Agrees(e, h)
        BY <2>4 DEF Beside
  <2>6. CASE e.halted
        BY <2>1, <2>2, <2>5, <2>6 DEF Abreast, Agrees
  <2>7. CASE ~e.halted
    <3> DEFINE e2 == ExecPhis(source, e, b)
               h2 == ExecPhis(f, h, b)
    <3>1. Onward(source, input, c) = e2 /\ Onward(f, input, d) = h2
          BY <2>1, <2>2, <2>5, <2>7 DEF Agrees
    <3>2. Beside(g, f.code, e2, h2, e.at, 0)
          BY <2>3, <2>4, <2>7, BesideEdge DEF N
    <3>3. e2.at = e.at
      <4>1. Arrives(source, e, b, e2)
            BY <2>4, PhiValues DEF Beside
      <4> HIDE DEF e2
      <4> QED
          BY <4>1 DEF Arrives, Agrees
    <3>4. e.at \in Blocks(source)
      <4>1. flow.succ[b] \subseteq Blocks(source)
            BY <2>3, FlowFacts DEF Sound
      <4> QED
          BY <2>4, <2>7, <4>1
    <3> HIDE DEF e2, h2
    <3> QED
        BY <3>1, <3>2, <3>3, <3>4 DEF Abreast, Beside
  <2> QED
      BY <2>6, <2>7
<1> QED
    BY <1>2, <1>3

\* A run of the source and one of the renamed function go abreast all the way.
LEMMA RunsAbreast ==
  ASSUME Sound, NEW g, Placed(g, {}), NEW f, f.params = source.params, f.order = source.order, Shaped(f.code),
         NEW next, Follows(g, f.code, {}, next), NEW input, NEW n \in Nat
  PROVE  \A k \in 0 .. n : Abreast(g, f.code, After(source, input, n)[k], After(f, input, n)[k])
<1> DEFINE W == After(source, input, n)
           X == After(f, input, n)
           S == {k \in 0 .. n : Abreast(g, f.code, W[k], X[k])}
<1>1. W[0] = Start(source, input) /\ \A k \in 1 .. n : W[k] = Onward(source, input, W[k - 1])
      BY AfterFacts
<1>2. X[0] = Start(f, input) /\ \A k \in 1 .. n : X[k] = Onward(f, input, X[k - 1])
      BY AfterFacts
<1> HIDE DEF W, X
<1>3. 0 \in S
      BY <1>1, <1>2, AbreastAtFirst
<1>4. ASSUME NEW k \in 1 .. n, k - 1 \in S PROVE k \in S
      BY <1>1, <1>2, <1>4, AbreastOnward
<1> HIDE DEF S
<1>5. \A k \in 0 .. n : k \in S
      BY <1>3, <1>4, Climb
<1> QED
    BY <1>5 DEF S, W, X


\* The blocks that were removed are never run: a run of the function given is one of the source.
Comprises(f) ==
  /\ f.params = source.params
  /\ Entry(f) = Entry(source)
  /\ \A b \in Blocks(source) : f.code[b] = source.code[b]

LEMMA WholeOnward ==
  ASSUME Sound, NEW g, Placed(g, {}), NEW f, Shaped(f.code), NEW next, Follows(g, f.code, {}, next), NEW input,
         NEW c, NEW d, Abreast(g, f.code, c, d),
         NEW whole, Comprises(whole)
  PROVE  Onward(whole, input, c) = Onward(source, input, c)
<1>1. CASE c.halted
      BY <1>1 DEF Onward
<1>2. CASE ~c.halted
  <2> DEFINE b == c.at
             N == Len(source.code[b])
             W == AlongBlock(source, input, c)
             X == AlongBlock(whole, input, c)
  <2>1. b \in Blocks(source) /\ Beside(g, f.code, c, d, b, 0)
        BY <1>2 DEF Abreast
  <2>2. whole.code[b] = source.code[b] /\ N \in Nat
        BY <2>1, SourceCode DEF Comprises
  <2>3. W[0] = c /\ \A i \in 1 .. N : W[i] = ExecStatement(input, W[i - 1], source.code[b][i])
        BY <2>2, BehindFacts
  <2>4. X[0] = c /\ \A i \in 1 .. N : X[i] = ExecStatement(input, X[i - 1], source.code[b][i])
    <3>1. Len(whole.code[c.at]) \in Nat
          BY <2>2
    <3>2. X[0] = c /\ \A i \in 1 .. Len(whole.code[c.at]) :
                       X[i] = ExecStatement(input, X[i - 1], whole.code[c.at][i])
          BY <3>1, BehindFacts
    <3> HIDE DEF X
    <3> QED
        BY <2>2, <3>2
  <2>5. W[N] = X[N]
    <3> DEFINE S == {i \in 0 .. N : W[i] = X[i]}
    <3> HIDE DEF W, X, N
    <3>1. 0 \in S
          BY <2>2, <2>3, <2>4
    <3>2. \A i \in 1 .. N : i - 1 \in S => i \in S
          BY <2>2, <2>3, <2>4
    <3>3. N \in 0 .. N
          BY <2>2
    <3> HIDE DEF S
    <3>4. N \in S
          BY <2>2, <3>1, <3>2, <3>3, Climb
    <3> QED
        BY <3>4 DEF S
  <2> DEFINE e == W[N]
             h == AlongBlock(f, input, d)[Len(f.code[b])]
  <2>6. IsConfiguration(e) /\ (~e.halted => e.at \in Blocks(source))
    <3>1. Beside(g, f.code, e, h, b, N) /\ (~e.halted => e.at \in flow.succ[b])
          BY <1>2, <2>1, BesideBlock
    <3>2. flow.succ[b] \subseteq Blocks(source)
          BY <2>1, FlowFacts DEF Sound
    <3> HIDE DEF e, h
    <3> QED
        BY <3>1, <3>2 DEF Beside
  <2>7. Onward(source, input, c) = IF e.halted THEN e ELSE ExecPhis(source, e, b)
        BY <1>2 DEF Onward, ExecBlock, BlockBy, AlongBlock
  <2>8. Onward(whole, input, c) = IF e.halted THEN e ELSE ExecPhis(whole, e, b)
    <3>1. Onward(whole, input, c) = IF X[Len(whole.code[b])].halted THEN X[Len(whole.code[b])]
                                    ELSE ExecPhis(whole, X[Len(whole.code[b])], b)
          BY <1>2 DEF Onward, ExecBlock, BlockBy, AlongBlock
    <3> HIDE DEF W, X
    <3> QED
        BY <2>2, <2>5, <3>1
  <2> HIDE DEF e
  <2>9. ASSUME e.at \in Blocks(source) PROVE ExecPhis(whole, e, b) = ExecPhis(source, e, b)
    <3> DEFINE Over(code) ==
                 LET taken == {s \in ToSet(code) : IsPhi(s) /\ b \in ToSet(s.labels)}
                     Of(t) == CHOOSE s \in taken : s.dst = t
                     Arg(s) == s.src[CHOOSE i \in DOMAIN s.labels : s.labels[i] = b]
                     set == {s.dst : s \in taken}
                 IN [e EXCEPT !.env = [t \in DOMAIN @ \cup set |->
                                         IF t \in set THEN Value(e.env, Arg(Of(t))) ELSE e.env[t]]]
    <3>1. ExecPhis(whole, e, b) = Over(whole.code[e.at])
          BY DEF ExecPhis
    <3>2. ExecPhis(source, e, b) = Over(source.code[e.at])
          BY DEF ExecPhis
    <3>3. whole.code[e.at] = source.code[e.at]
          BY <2>9 DEF Comprises
    <3> HIDE DEF Over
    <3> QED
        BY <3>1, <3>2, <3>3
  <2> QED
      BY <2>6, <2>7, <2>8, <2>9
<1> QED
    BY <1>1, <1>2

\* Of a function that was converted a run shows what a run of the function given shows, block for block.
LEMMA ConvertedRuns ==
  ASSUME Sound, Framed(func), NEW g, Placed(g, {}), Follows(g, func.code, {}, nextTemp),
         NEW whole, Comprises(whole), NEW input, NEW n \in Nat
  PROVE  \A k \in 0 .. n : Agrees(After(whole, input, n)[k], After(func, input, n)[k])
<1> DEFINE W == After(source, input, n)
           X == After(func, input, n)
           Y == After(whole, input, n)
           S == {k \in 0 .. n : Y[k] = W[k]}
<1>1. func.params = source.params /\ func.order = source.order /\ Shaped(func.code)
      BY DEF Framed, Function
<1>2. \A k \in 0 .. n : Abreast(g, func.code, W[k], X[k])
      BY <1>1, RunsAbreast
<1>3. W[0] = Start(source, input) /\ \A k \in 1 .. n : W[k] = Onward(source, input, W[k - 1])
      BY AfterFacts
<1>4. Y[0] = Start(whole, input) /\ \A k \in 1 .. n : Y[k] = Onward(whole, input, Y[k - 1])
      BY AfterFacts
<1>5. Start(whole, input) = Start(source, input)
      BY DEF Start, Comprises
<1> HIDE DEF W, X, Y
<1>6. 0 \in S
      BY <1>3, <1>4, <1>5
<1>7. ASSUME NEW k \in 1 .. n, k - 1 \in S PROVE k \in S
  <2>1. k - 1 \in 0 .. n /\ k \in 0 .. n
        OBVIOUS
  <2>2. Abreast(g, func.code, W[k - 1], X[k - 1])
        BY <1>2, <2>1
  <2>3. Shaped(func.code)
        BY <1>1
  <2>4. ASSUME NEW c, NEW d, Abreast(g, func.code, c, d)
        PROVE  Onward(whole, input, c) = Onward(source, input, c)
        BY <2>3, <2>4, WholeOnward, SMTT(30)
  <2> QED
      BY <1>3, <1>4, <1>7, <2>1, <2>2, <2>4
<1> HIDE DEF S
<1>8. \A k \in 0 .. n : k \in S
      BY <1>6, <1>7, Climb
<1> QED
    BY <1>2, <1>8 DEF S, W, X, Y, Abreast

\* A run of a function goes, step by step, where a run of what it was converted to goes: the same blocks
\* in the same order, the same events, the same end.
KeepsRuns ==
  phase = "done" =>
    \E f \in Functions :
      /\ source = EliminateUnreachable(f)
      /\ \A input : \A n \in Nat : Agrees(After(f, input, n)[n], After(func, input, n)[n])

Converts == \E f \in Functions : source = EliminateUnreachable(f)

\* Whatever the function and whatever the input, the conversion changes nothing that an observer of
\* the function sees: renaming, the phis and their pruning included.
THEOREM ConversionKeepsRuns == Spec => []KeepsRuns
<1>1. Init => Converts
      BY SMTT(30) DEF Init, Converts
<1>2. Converts /\ [Next]_ssaVars => Converts'
      BY DEF Converts, Next, PlacePhi, StartRename, EnterBlock, LeaveBlock, Cleanup, Finished, ssaVars
<1>3. SsaInv /\ Converts => KeepsRuns
  <2> SUFFICES ASSUME SsaInv, Converts, phase = "done"
               PROVE  \E f \in Functions :
                        /\ source = EliminateUnreachable(f)
                        /\ \A input : \A n \in Nat : Agrees(After(f, input, n)[n], After(func, input, n)[n])
      BY DEF KeepsRuns
  <2>1. PICK f \in Functions : source = EliminateUnreachable(f)
        BY DEF Converts
  <2>2. WellFormed(f) /\ f = Function(f.params, f.order, f.code, f.lastTemp)
        BY SsaAssumption DEF Convertible
  <2>3. /\ f.params = source.params /\ Entry(f) = Entry(source)
        /\ source.code = [b \in Blocks(source) |-> f.code[b]]
        BY <2>1, <2>2, EliminateUnreachableFlows
  <2>4. Comprises(f)
        BY <2>3 DEF Comprises
  <2>5. Sound /\ Framed(func)
        BY Converted
  <2>6. PICK g : Placed(g, {}) /\ Follows(g, func.code, {}, nextTemp)
        BY Converted
  <2>7. ASSUME NEW input, NEW n \in Nat PROVE Agrees(After(f, input, n)[n], After(func, input, n)[n])
    <3>1. \A k \in 0 .. n : Agrees(After(f, input, n)[k], After(func, input, n)[k])
          BY <2>4, <2>5, <2>6, ConvertedRuns
    <3>2. n \in 0 .. n
          OBVIOUS
    <3> QED
        BY <3>1, <3>2
  <2> QED
      BY <2>1, <2>7
<1> QED
    BY <1>1, <1>2, <1>3, ConversionInvariant, PTL DEF Spec

=============================================================================
