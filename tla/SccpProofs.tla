----------------------------- MODULE SccpProofs -----------------------------
(***************************************************************************)
(* The conditional constant propagation is right for every function, every *)
(* input and every length of run: what the sweeps conclude covers what the *)
(* runs do, and the function that is built from it runs alike.             *)
(*                                                                         *)
(* A statement only raises what is known, along the order of the lattice   *)
(* of values.  A sweep that changes nothing therefore changed nothing at   *)
(* any of its statements, so that every statement of an executable block   *)
(* is settled: what it assigns is among the values of its temp, and where  *)
(* it leads is executable.  A run is then followed statement by statement  *)
(* and block by block.  What remains to be known of the runs, that they    *)
(* read nothing unassigned, is what the verifier of SSA form guarantees.   *)
(*                                                                         *)
(* The run of the new function is followed beside that of the old one: a   *)
(* temp holds the same in both, unless its value is known, and a fresh     *)
(* temp holds the constant it stands for on the edges that read it.        *)
(***************************************************************************)
EXTENDS Sccp, QuadFlowProofs

\* The values an RtValue may have.
Lattice == {{}, Word} \cup {{c} : c \in Word}

\* What a sweep works on, for the function at hand.
Knowledge == [value : [Temps(ssa) -> Lattice], executable : SUBSET Blocks(ssa)]

Below(k, l) ==
  /\ k.executable \subseteq l.executable
  /\ \A t \in Temps(ssa) : k.value[t] \subseteq l.value[t]

-----------------------------------------------------------------------------

\* There is more than one word.
LEMMA WordsTwo == 0 \in Word /\ 1 \in Word /\ MaxInt \in Int /\ MinInt \in Int
  BY MaxIntAssumption DEF Word, MinInt

\* A join lies above both of what it joins, and is the old value only if nothing was added.
LEMMA JoinRises ==
  ASSUME NEW current \in Lattice, NEW incoming \in Lattice
  PROVE  /\ Join(current, incoming) \in Lattice
         /\ current \subseteq Join(current, incoming)
         /\ Join(current, incoming) = current => incoming \subseteq current
<1>1. \A v \in Lattice : v \subseteq Word
      BY DEF Lattice
<1>2. \A c : Word # {c}
      BY WordsTwo
<1> QED
    BY <1>1, <1>2 DEF Join, Lattice, NoValue, ManyValues

\* The machine's operations stay within the words.
LEMMA SumsAreWords ==
  ASSUME NEW a \in Word, NEW b \in Word
  PROVE  AddW(a, b) \in Word /\ SubW(a, b) \in Word
BY MaxIntAssumption DEF AddW, SubW, WrapOnce, Word, MinInt, Modulus

LEMMA ProductsAreWords ==
  ASSUME NEW a \in Word, NEW b \in Word
  PROVE  Product(a, b) \in Word
<1>1. a * b - MinInt \in Int /\ Modulus \in Nat \ {0}
      BY MaxIntAssumption DEF Word, MinInt, Modulus
<1>2. \A x \in Int, m \in Nat \ {0} : x % m \in 0 .. m - 1
      OBVIOUS
<1>3. (a * b - MinInt) % Modulus \in 0 .. Modulus - 1
      BY <1>1, <1>2
<1> QED
    BY <1>3, MaxIntAssumption DEF Product, Word, MinInt, Modulus

LEMMA QuotientsAreWords ==
  ASSUME NEW a \in Word, NEW b \in Word
  PROVE  Quotient(a, b) \in Word
<1> DEFINE x == IF a < 0 THEN -a ELSE a
           y == IF b < 0 THEN -b ELSE b
           q == x \div y
<1>1. CASE b = 0
      BY <1>1, WordsTwo DEF Quotient
<1>2. CASE b # 0
  <2>1. x \in Nat /\ y \in Nat \ {0} /\ x <= MaxInt + 1 /\ (a >= 0 => x <= MaxInt)
        BY <1>2, MaxIntAssumption DEF Word, MinInt
  <2>2. \A u \in Nat, v \in Nat \ {0} : u \div v \in Nat /\ v * (u \div v) <= u
        OBVIOUS
  <2>3. \A u \in Nat, v \in Nat \ {0} : u <= v * u
        OBVIOUS
  <2>4. q \in Nat /\ q <= x
    <3> HIDE DEF x, y
    <3>1. q \in Nat /\ y * q <= x /\ q <= y * q /\ y * q \in Int
          BY <2>1, <2>2, <2>3
    <3> HIDE DEF q
    <3> QED
        BY <3>1, <2>1
  <2>5. Quotient(a, b) = IF (a < 0) = (b < 0) THEN WrapOnce(q) ELSE -q
        BY <1>2 DEF Quotient
  <2> HIDE DEF x, y, q
  <2> QED
      BY <2>1, <2>4, <2>5, MaxIntAssumption DEF WrapOnce, Word, MinInt, Modulus
<1> QED
    BY <1>1, <1>2

LEMMA OperationsAreWords ==
  ASSUME NEW op, NEW a \in Word, NEW b \in Word
  PROVE  Operate(op, a, b) \in Word
<1>1. Undefined \notin {a, b}
      BY MaxIntAssumption DEF Undefined, Word, MinInt
<1> QED
    BY <1>1, SumsAreWords, ProductsAreWords, QuotientsAreWords DEF Operate

\* A value that is one word is the set of that word.
LEMMA OneWord ==
  ASSUME NEW v \in Lattice
  PROVE  IsOne(v) <=> \E c \in Word : v = {c} /\ TheOne(v) = c
<1>1. \A c : Cardinality({c}) = 1 /\ TheOne({c}) = c
      BY FS_Singleton DEF TheOne
<1>2. Cardinality({}) = 0
      BY FS_EmptySet
<1>3. Cardinality(Word) # 1
  <2>1. Cardinality(Word) = MaxInt - MinInt + 1
        BY FS_Interval, MaxIntAssumption DEF Word, MinInt
  <2> QED
      BY <2>1, MaxIntAssumption DEF MinInt
<1> QED
    BY <1>1, <1>2, <1>3 DEF Lattice, IsOne

-----------------------------------------------------------------------------
\* A statement of the function at hand.
GoodStatement(s) ==
  /\ WellFormedStatement(ssa, s)
  /\ Uses(s) \subseteq Temps(ssa)
  /\ Defs(s) \subseteq Temps(ssa)

\* The statements of a well-formed function are good.
LEMMA GoodStatements ==
  ASSUME WellFormed(ssa), NEW b \in Blocks(ssa), NEW i \in DOMAIN ssa.code[b]
  PROVE  GoodStatement(ssa.code[b][i])
<1>1. ssa.code[b][i] \in Statements(ssa)
      BY DEF Statements, ToSet
<1> QED
    BY <1>1 DEF GoodStatement, WellFormed, Temps

\* The operators of calculateBT stay within the lattice.
LEMMA SourceTyped ==
  ASSUME NEW s, GoodStatement(s), NEW val \in [Temps(ssa) -> Lattice], NEW j \in DOMAIN s.src
  PROVE  /\ IsTemp(s.src[j]) => s.src[j].temp \in Temps(ssa) /\ s.src[j].temp \in Uses(s)
         /\ EvalTerm(val, s.src[j]) \in Lattice
<1>1. CASE IsTemp(s.src[j])
  <2>1. s.src[j].temp \in Uses(s)
        BY <1>1 DEF Uses, ToSet
  <2> QED
      BY <1>1, <2>1 DEF GoodStatement, EvalTerm
<1>2. CASE ~IsTemp(s.src[j])
  <2>1. s.src[j].const \in Word
        BY <1>2 DEF GoodStatement, WellFormedStatement
  <2> QED
      BY <1>2, <2>1 DEF EvalTerm, Lattice
<1> QED
    BY <1>1, <1>2

LEMMA FoldedTyped ==
  ASSUME NEW op, NEW l \in Lattice, NEW r \in Lattice
  PROVE  EvalBinop(op, l, r) \in Lattice
<1>1. \A c, d \in Word : {Operate(op, c, d)} \in Lattice
      BY OperationsAreWords DEF Lattice
<1>2. \A c : TheOne({c}) = c
      BY DEF TheOne
<1>3. Word \in Lattice /\ {} \in Lattice
      BY DEF Lattice
<1>4. ASSUME l # Word, l # {}, r # Word, r # {} PROVE {Operate(op, TheOne(l), TheOne(r))} \in Lattice
  <2>1. (\E c \in Word : l = {c}) /\ (\E d \in Word : r = {d})
        BY <1>4 DEF Lattice
  <2>2. TheOne(l) \in Word /\ TheOne(r) \in Word
        BY <1>2, <2>1
  <2> QED
      BY <1>1, <2>2
<1> QED
    BY <1>3, <1>4 DEF EvalBinop, NoValue, ManyValues

LEMMA JoinedTyped ==
  ASSUME NEW s, GoodStatement(s), s.kind = "PHI", NEW b,
         NEW val \in [Temps(ssa) -> Lattice], NEW exec
  PROVE  EvalPhi(val, exec, s, b) \in Lattice
<1> DEFINE J == {j \in DOMAIN s.src : IsEdgeExecutable(val, exec, s.labels[j], b)}
           inputs == {EvalTerm(val, s.src[i]) : i \in J}
<1>1. EvalPhi(val, exec, s, b) = IF NoValue \in inputs THEN ManyValues
                                 ELSE IF Cardinality(inputs) <= 1 THEN UNION inputs ELSE ManyValues
      BY DEF EvalPhi
<1>2. inputs \subseteq Lattice
  <2>1. J \subseteq DOMAIN s.src
        OBVIOUS
  <2> HIDE DEF J
  <2> QED
      BY <2>1, SourceTyped
<1>3. IsFiniteSet(inputs)
  <2>1. DOMAIN s.src = 1 .. Len(s.src) /\ Len(s.src) \in Nat
        BY DEF GoodStatement, WellFormedStatement
  <2>2. IsFiniteSet(1 .. Len(s.src))
        BY <2>1, FS_Interval
  <2>3. IsFiniteSet(J)
        BY <2>1, <2>2, FS_Subset
  <2> HIDE DEF J
  <2> DEFINE g == [i \in J |-> EvalTerm(val, s.src[i])]
  <2>4. g \in Surjection(J, inputs)
        BY DEF Surjection
  <2> HIDE DEF inputs, g
  <2> QED
      BY <2>3, <2>4, FS_Surjection
<1> HIDE DEF inputs
<1>4. ASSUME Cardinality(inputs) <= 1 PROVE UNION inputs \in Lattice
  <2>1. CASE inputs = {}
    <3>1. UNION inputs = {}
          BY <2>1
    <3> QED
        BY <3>1 DEF Lattice
  <2>2. CASE inputs # {}
    <3>1. PICK v \in inputs : TRUE
          BY <2>2
    <3>2. ASSUME NEW w \in inputs, w # v PROVE FALSE
      <4>1. {v, w} \subseteq inputs
            BY <3>1, <3>2
      <4>2. Cardinality({v, w}) <= Cardinality(inputs)
            BY <1>3, <4>1, FS_Subset
      <4>3. Cardinality({v, w}) = 2
        <5> DEFINE One == {v}
        <5>1. {v, w} = One \cup {w} /\ w \notin One
              BY <3>2
        <5>2. IsFiniteSet(One) /\ Cardinality(One) = 1
              BY FS_Singleton
        <5> HIDE DEF One
        <5>3. Cardinality(One \cup {w}) = Cardinality(One) + 1
              BY <5>1, <5>2, FS_AddElement
        <5> QED
            BY <5>1, <5>2, <5>3
      <4>4. Cardinality(inputs) \in Nat
            BY <1>3, FS_CardinalityType
      <4> QED
          BY <1>4, <4>2, <4>3, <4>4
    <3>3. inputs = {v}
          BY <3>1, <3>2
    <3> QED
        BY <1>2, <3>1, <3>3
  <2> QED
      BY <2>1, <2>2
<1>5. ManyValues \in Lattice
      BY DEF Lattice, ManyValues
<1> QED
    BY <1>1, <1>4, <1>5

LEMMA ResultTyped ==
  ASSUME NEW s, GoodStatement(s), NEW b, NEW val \in [Temps(ssa) -> Lattice], NEW exec
  PROVE  Assigned(val, exec, s, b) \in Lattice
<1>1. CASE s.kind = "MOVE"
  <2>1. 1 \in DOMAIN s.src
        BY <1>1 DEF GoodStatement, WellFormedStatement
  <2> QED
      BY <1>1, <2>1, SourceTyped DEF Assigned
<1>2. CASE s.kind = "MOVE_BINOP"
  <2>1. 1 \in DOMAIN s.src /\ 2 \in DOMAIN s.src
        BY <1>2 DEF GoodStatement, WellFormedStatement
  <2>2. EvalTerm(val, s.src[1]) \in Lattice /\ EvalTerm(val, s.src[2]) \in Lattice
        BY <2>1, SourceTyped
  <2> QED
      BY <1>2, <2>2, FoldedTyped DEF Assigned
<1>3. CASE s.kind = "PHI"
      BY <1>3, JoinedTyped DEF Assigned
<1>4. CASE s.kind \notin {"MOVE", "MOVE_BINOP", "PHI"}
      BY <1>4 DEF Assigned, Lattice, ManyValues
<1> QED
    BY <1>1, <1>2, <1>3, <1>4

\* Where a statement may lead is a block.
LEMMA TargetsTyped ==
  ASSUME NEW s, GoodStatement(s), s.kind \in Leaving, NEW val
  PROVE  Targets(val, s) \subseteq Blocks(ssa)
<1>1. ToSet(s.labels) \subseteq Blocks(ssa)
      BY DEF GoodStatement, WellFormedStatement
<1>2. s.kind = "CJUMP" => {s.labels[1], s.labels[2]} \subseteq ToSet(s.labels)
      BY DEF GoodStatement, WellFormedStatement, ToSet
<1> QED
    BY <1>1, <1>2 DEF Targets

\* What the statement assigns and the blocks it leads to are known already.
Settled(k, s, b) ==
  /\ Defs(s) # {} => Assigned(k.value, k.executable, s, b) \subseteq k.value[s.dst]
  /\ s.kind \in {"JUMP", "CJUMP", "FALL"} => Targets(k.value, s) \subseteq k.executable

\* A statement raises what is known, and if it changes nothing it is settled.
LEMMA StatementRaises ==
  ASSUME NEW s, GoodStatement(s), NEW b, NEW k \in Knowledge
  PROVE  /\ Evaluate(k, s, b) \in Knowledge
         /\ Below(k, Evaluate(k, s, b))
         /\ Evaluate(k, s, b) = k => Settled(k, s, b)
<1> DEFINE missing == IF s.kind \in Checking THEN {t \in Uses(s) : k.value[t] = NoValue} ELSE {}
           val == [t \in DOMAIN k.value |-> IF t \in missing THEN ManyValues ELSE k.value[t]]
           result == Assigned(val, k.executable, s, b)
           new == IF Defs(s) = {} THEN val ELSE [val EXCEPT ![s.dst] = Join(@, result)]
           targets == Targets(val, s)
           leads == s.kind \in {"JUMP", "CJUMP", "FALL"}
           exec == IF leads THEN k.executable \cup targets ELSE k.executable
           e == Evaluate(k, s, b)
<1>1. e = [value |-> new, executable |-> exec]
      BY DEF Evaluate
<1>2. k = [value |-> k.value, executable |-> k.executable]
        /\ k.value \in [Temps(ssa) -> Lattice] /\ k.executable \in SUBSET Blocks(ssa)
      BY DEF Knowledge
<1>3. Word \in Lattice /\ Word # {} /\ ManyValues = Word /\ NoValue = {}
      BY WordsTwo DEF Lattice, ManyValues, NoValue
<1>4. val \in [Temps(ssa) -> Lattice] /\ \A t \in Temps(ssa) : k.value[t] \subseteq val[t]
      BY <1>2, <1>3
<1>5. \A t \in Temps(ssa) : t \in missing => val[t] # k.value[t]
      BY <1>2, <1>3
<1>6. missing \subseteq Temps(ssa)
      BY DEF GoodStatement
<1>7. result \in Lattice
      BY <1>4, ResultTyped
<1>8. leads => targets \subseteq Blocks(ssa)
      BY TargetsTyped DEF Leaving
<1>9. Defs(s) = {} \/ s.dst \in Temps(ssa)
      BY DEF Defs, GoodStatement
<1>10. (\A t \in Temps(ssa) : t \notin missing => val[t] = k.value[t])
      BY <1>2
<1> HIDE DEF val, missing, result, targets, e
<1>11. ASSUME Defs(s) # {}
       PROVE  /\ Join(val[s.dst], result) \in Lattice
              /\ val[s.dst] \subseteq Join(val[s.dst], result)
              /\ Join(val[s.dst], result) = val[s.dst] => result \subseteq val[s.dst]
  <2>1. val[s.dst] \in Lattice
        BY <1>4, <1>9, <1>11
  <2> QED
      BY <2>1, <1>7, JoinRises
<1>12. new \in [Temps(ssa) -> Lattice] /\ \A t \in Temps(ssa) : val[t] \subseteq new[t]
      BY <1>4, <1>9, <1>11
<1>13. exec \in SUBSET Blocks(ssa) /\ k.executable \subseteq exec
      BY <1>2, <1>8
<1>14. ASSUME e = k PROVE Settled(k, s, b)
  <2>1. new = k.value /\ exec = k.executable
    <3> HIDE DEF new, exec
    <3>1. e.value = new /\ e.executable = exec
          BY <1>1
    <3> QED
        BY <1>14, <3>1
  <2>2. \A t \in Temps(ssa) : val[t] = k.value[t]
    <3> HIDE DEF new
    <3> QED
        BY <1>4, <1>12, <2>1
  <2>3. val = k.value
        BY <1>2, <1>4, <2>2
  <2>4. ASSUME Defs(s) # {} PROVE result \subseteq k.value[s.dst]
    <3>1. new[s.dst] = Join(val[s.dst], result)
          BY <1>4, <1>9, <2>4
    <3> HIDE DEF new
    <3> QED
        BY <1>11, <2>1, <2>3, <2>4, <3>1
  <2>5. leads => targets \subseteq k.executable
        BY <2>1
  <2> QED
      BY <2>3, <2>4, <2>5 DEF Settled, result, targets
<1>15. e \in Knowledge /\ Below(k, e)
  <2> HIDE DEF new, exec
  <2>1. e.value = new /\ e.executable = exec
        BY <1>1
  <2>2. \A t \in Temps(ssa) : k.value[t] \subseteq new[t]
        BY <1>4, <1>12
  <2>3. e \in Knowledge
        BY <1>1, <1>12, <1>13 DEF Knowledge
  <2> QED
      BY <2>1, <2>2, <2>3, <1>13 DEF Below
<1> QED
    BY <1>14, <1>15 DEF e

-----------------------------------------------------------------------------
\* Along a block.

FollowsBlock(g, k, b) ==
  g = [i \in 0 .. Len(ssa.code[b]) |->
         IF i = 0 THEN k ELSE Evaluate(g[i - 1], ssa.code[b][i], b)]

\* The walk along a block is defined.
LEMMA EvaluatedDefined ==
  ASSUME NEW k, NEW b, Len(ssa.code[b]) \in Nat
  PROVE  \E g : FollowsBlock(g, k, b)
<1> DEFINE code == ssa.code[b]
           N == Len(code)
           From(g, i) == IF i = 0 THEN k ELSE Evaluate(g[i - 1], code[i], b)
           T == {n \in Nat : ~ \E g : g = [i \in 0 .. n |-> From(g, i)]}
<1>1. ASSUME T # {} PROVE FALSE
  <2>1. T \in SUBSET Nat
        OBVIOUS
  <2>2. PICK m \in T : \A j \in T : m <= j
    <3> HIDE DEF T
    <3> QED
        BY <1>1, <2>1, LeastElement
  <2>3. m # 0
    <3> DEFINE g == [i \in 0 .. 0 |-> k]
    <3>1. g = [i \in 0 .. 0 |-> From(g, i)]
          OBVIOUS
    <3> HIDE DEF g
    <3>2. 0 \notin T
          BY <3>1
    <3> QED
        BY <2>2, <3>2
  <2>4. m \in Nat /\ m - 1 \in Nat /\ m - 1 \notin T
    <3> HIDE DEF T
    <3> QED
        BY <2>1, <2>2, <2>3
  <2>5. PICK g : g = [i \in 0 .. m - 1 |-> From(g, i)]
        BY <2>4
  <2> DEFINE h == [i \in 0 .. m |-> From(g, i)]
  <2>6. \A i \in 0 .. m - 1 : g[i] = From(g, i) /\ h[i] = From(g, i)
    <3> HIDE DEF From, T
    <3> QED
        BY <2>4, <2>5
  <2>7. \A i \in 0 .. m : From(g, i) = From(h, i)
    <3> SUFFICES ASSUME NEW i \in 0 .. m, i # 0 PROVE g[i - 1] = h[i - 1]
        OBVIOUS
    <3>1. i - 1 \in 0 .. m - 1
          BY <2>4
    <3> HIDE DEF From, h
    <3> QED
        BY <2>6, <3>1
  <2>8. h = [i \in 0 .. m |-> From(h, i)]
    <3> HIDE DEF From
    <3> QED
        BY <2>7
  <2> HIDE DEF h, From
  <2>9. m \notin T
        BY <2>8
  <2> QED
      BY <2>2, <2>9
<1>2. N \in Nat /\ N \notin T
  <2> HIDE DEF T
  <2> QED
      BY <1>1
<1>3. PICK g : g = [i \in 0 .. N |-> From(g, i)]
      BY <1>2
<1>4. FollowsBlock(g, k, b)
      BY <1>3 DEF FollowsBlock
<1> QED
    BY <1>4

LEMMA EvaluatedFacts ==
  ASSUME NEW k, NEW b, Len(ssa.code[b]) \in Nat
  PROVE  /\ Evaluated(k, b)[0] = k
         /\ \A i \in 1 .. Len(ssa.code[b]) :
              Evaluated(k, b)[i] = Evaluate(Evaluated(k, b)[i - 1], ssa.code[b][i], b)
<1> DEFINE W == CHOOSE g : FollowsBlock(g, k, b)
<1>1. FollowsBlock(W, k, b)
      BY EvaluatedDefined
<1>2. Evaluated(k, b) = W
      BY DEF Evaluated, FollowsBlock
<1> HIDE DEF W
<1>3. /\ 0 \in 0 .. Len(ssa.code[b])
      /\ \A i \in 1 .. Len(ssa.code[b]) : i \in 0 .. Len(ssa.code[b]) /\ i # 0
      OBVIOUS
<1> QED
    BY <1>1, <1>2, <1>3, Zenon DEF FollowsBlock

\* The order of knowledge is one.
LEMMA BelowOrders ==
  ASSUME NEW j \in Knowledge, NEW k \in Knowledge
  PROVE  /\ Below(j, j)
         /\ Below(j, k) /\ Below(k, j) => j = k
         /\ \A l \in Knowledge : Below(j, k) /\ Below(k, l) => Below(j, l)
<1>1. ASSUME Below(j, k), Below(k, j) PROVE j = k
  <2>1. j.value \in [Temps(ssa) -> Lattice] /\ k.value \in [Temps(ssa) -> Lattice]
          /\ j = [value |-> j.value, executable |-> j.executable]
          /\ k = [value |-> k.value, executable |-> k.executable]
        BY DEF Knowledge
  <2>2. \A t \in Temps(ssa) : j.value[t] = k.value[t]
        BY <1>1 DEF Below
  <2>3. j.value = k.value
        BY <2>1, <2>2
  <2>4. j.executable = k.executable
        BY <1>1 DEF Below
  <2> QED
      BY <2>1, <2>3, <2>4
<1> QED
    BY <1>1 DEF Below

\* All that a block knows or finds out; if that is nothing new, each of its
\* statements is settled.
LEMMA BlockRaises ==
  ASSUME WellFormed(ssa), NEW b \in Blocks(ssa), NEW k \in Knowledge
  PROVE  LET l == Evaluated(k, b)[Len(ssa.code[b])] IN
           /\ l \in Knowledge
           /\ Below(k, l)
           /\ l = k => \A i \in DOMAIN ssa.code[b] : Settled(k, ssa.code[b][i], b)
<1> DEFINE W == Evaluated(k, b)
           n == Len(ssa.code[b])
<1>1. n \in Nat /\ DOMAIN ssa.code[b] = 1 .. n
      BY DEF WellFormed
<1>2. W[0] = k /\ \A i \in 1 .. n : W[i] = Evaluate(W[i - 1], ssa.code[b][i], b)
      BY <1>1, EvaluatedFacts
<1> HIDE DEF W, n
<1>3. \A i \in 1 .. n : GoodStatement(ssa.code[b][i])
      BY <1>1, GoodStatements
<1>4. \A i \in 1 .. n : i - 1 \in 0 .. n /\
        (W[i - 1] \in Knowledge => W[i] \in Knowledge /\ Below(W[i - 1], W[i]))
      BY <1>1, <1>2, <1>3, StatementRaises
\* from the front: what is known rises
<1>5. \A i \in 0 .. n : W[i] \in Knowledge /\ Below(k, W[i])
  <2> DEFINE T == {i \in 0 .. n : ~ (W[i] \in Knowledge /\ Below(k, W[i]))}
  <2>1. ASSUME T # {} PROVE FALSE
    <3>1. T \in SUBSET Nat
          BY <1>1
    <3>2. PICK m \in T : \A j \in T : m <= j
      <4> HIDE DEF T
      <4> QED
          BY <2>1, <3>1, LeastElement
    <3>3. m # 0
          BY <1>2, <3>2, BelowOrders
    <3>4. m \in 1 .. n /\ m - 1 \in 0 .. n /\ m - 1 \notin T
      <4>1. m \in 0 .. n
            OBVIOUS
      <4> HIDE DEF T
      <4> QED
          BY <1>1, <3>2, <3>3, <4>1
    <3>5. W[m - 1] \in Knowledge /\ Below(k, W[m - 1])
          BY <3>4
    <3>6. W[m] \in Knowledge /\ Below(W[m - 1], W[m])
          BY <1>4, <3>4, <3>5
    <3>7. Below(k, W[m])
          BY <3>5, <3>6, BelowOrders
    <3> QED
        BY <3>6, <3>7
  <2> QED
      BY <2>1
\* from the end: what is known in front of a statement is known behind the block
<1>6. \A i \in 0 .. n : Below(W[i], W[n])
  <2> DEFINE T == {j \in 0 .. n : ~ Below(W[n - j], W[n])}
  <2>1. ASSUME T # {} PROVE FALSE
    <3>1. T \in SUBSET Nat
          BY <1>1
    <3>2. PICK m \in T : \A j \in T : m <= j
      <4> HIDE DEF T
      <4> QED
          BY <2>1, <3>1, LeastElement
    <3>3. m \in 0 .. n /\ m \in Nat /\ n \in 0 .. n
          BY <1>1
    <3>4. m # 0
      <4>1. Below(W[n - 0], W[n])
        <5>1. n - 0 = n
              BY <1>1
        <5> QED
            BY <1>5, <3>3, <5>1, BelowOrders
      <4> QED
          BY <3>2, <4>1
    <3>5. m - 1 \in 0 .. n /\ n - m \in 0 .. n /\ n - m + 1 \in 1 .. n /\ n - (m - 1) = n - m + 1
            /\ n - m + 1 - 1 = n - m
          BY <1>1, <3>3, <3>4
    <3>6. m - 1 \notin T
      <4> HIDE DEF T
      <4> QED
          BY <3>2, <3>3, <3>4
    <3>7. Below(W[n - m + 1], W[n])
          BY <3>5, <3>6
    <3>8. Below(W[n - m], W[n - m + 1])
          BY <1>4, <1>5, <3>5
    <3>9. W[n - m] \in Knowledge /\ W[n - m + 1] \in Knowledge /\ W[n] \in Knowledge
          BY <1>5, <3>3, <3>5
    <3>10. Below(W[n - m], W[n])
           BY <3>7, <3>8, <3>9, BelowOrders
    <3> QED
        BY <3>2, <3>10
  <2>2. ASSUME NEW i \in 0 .. n PROVE Below(W[i], W[n])
    <3>1. n - i \in 0 .. n /\ n - (n - i) = i
          BY <1>1
    <3>2. n - i \notin T
          BY <2>1
    <3> QED
        BY <3>1, <3>2
  <2> QED
      BY <2>2
<1>7. ASSUME W[n] = k, NEW i \in 1 .. n PROVE Settled(k, ssa.code[b][i], b)
  <2>1. \A j \in 0 .. n : W[j] = k
        BY <1>5, <1>6, <1>7, BelowOrders
  <2>2. i - 1 \in 0 .. n /\ i \in 0 .. n
        BY <1>1
  <2>3. Evaluate(k, ssa.code[b][i], b) = k
        BY <1>2, <2>1, <2>2
  <2> QED
      BY <1>3, <2>3, StatementRaises
<1>8. n \in 0 .. n
      BY <1>1
<1> QED
    BY <1>1, <1>5, <1>7, <1>8 DEF W, n

-----------------------------------------------------------------------------
\* The propagation by itself: it is given functions of the right shape, one after
\* another, and what it made of one is taken before the next.
Take ==
  /\ stage = "done"
  /\ stage' = "taken"
  /\ UNCHANGED <<ssa, executable, value, at, changed, optimized>>

Next == (\E f : WellFormed(f) /\ SccpBegin(f)) \/ SccpSteps \/ Take

Spec == SccpInit /\ [][Next]_sccpVars

Known == [value |-> value, executable |-> executable]

Quiet(b) ==
  b \in executable => \A i \in DOMAIN ssa.code[b] : Settled(Known, ssa.code[b][i], b)

\* Between sweeps nothing is left of the last one; within one, as long as it has
\* changed nothing, the blocks behind it are quiet.
SweepInv ==
  /\ stage \in {"idle", "sweep", "modify", "done", "taken"}
  /\ changed \in BOOLEAN
  /\ stage # "sweep" => at = 1 /\ ~changed
  /\ stage \in {"sweep", "modify"} =>
       /\ WellFormed(ssa)
       /\ at \in 1 .. Len(ssa.order) + 1
       /\ Known \in Knowledge
       /\ Entry(ssa) \in executable
       /\ \A t \in Params(ssa) : value[t] = Word
  /\ stage = "sweep" /\ ~changed => \A j \in 1 .. at - 1 : Quiet(ssa.order[j])
  /\ stage = "modify" => \A b \in Blocks(ssa) : Quiet(b)

\* SccpInit and every step keep the invariant.
LEMMA SweepInit == SccpInit => SweepInv
  BY DEF SccpInit, SweepInv

LEMMA SweepBegin ==
  ASSUME SweepInv, NEW f, WellFormed(f), SccpBegin(f)
  PROVE  SweepInv'
<1>1. stage' = "sweep" /\ ssa' = f /\ executable' = {Entry(f)} /\ at' = 1 /\ changed' = FALSE
        /\ value' = [t \in Temps(f) |-> IF t \in Params(f) THEN ManyValues ELSE NoValue]
      BY DEF SweepInv, SccpBegin
<1>2. f.order \in Seq(Blocks(f)) /\ f.order # <<>>
      BY DEF WellFormed
<1>3. Entry(f) \in Blocks(f) /\ Len(f.order) \in Nat
      BY <1>2 DEF Entry
<1>4. value' \in [Temps(f) -> Lattice]
      BY <1>1 DEF Lattice, ManyValues, NoValue
<1>5. Known' \in Knowledge'
      BY <1>1, <1>3, <1>4 DEF Known, Knowledge
<1>6. \A t \in Params(f) : value'[t] = Word
      BY <1>1 DEF Temps, ManyValues
<1> HIDE DEF Known
<1>7. at' \in 1 .. Len(ssa'.order) + 1 /\ WellFormed(ssa') /\ Entry(ssa') \in executable'
        /\ \A t \in Params(ssa') : value'[t] = Word
      BY <1>1, <1>3, <1>6
<1>8. (\A j \in 1 .. at - 1 : Quiet(ssa.order[j]))'
  <2>1. 1 .. at' - 1 = {}
        BY <1>1
  <2> QED
      BY <2>1
<1> QED
    BY <1>1, <1>5, <1>7, <1>8 DEF SweepInv

\* What a visit of a block does.
LEMMA Visits ==
  ASSUME SweepInv, VisitBlock
  PROVE  LET b == ssa.order[at] IN
           /\ at \in 1 .. Len(ssa.order) /\ b \in Blocks(ssa)
           /\ WellFormed(ssa) /\ Known \in Knowledge
           /\ stage' = stage /\ ssa' = ssa /\ at' = at + 1 /\ changed' \in BOOLEAN
           /\ Known' \in Knowledge /\ Below(Known, Known')
           /\ changed' = FALSE => changed = FALSE /\ Known' = Known /\ Quiet(b)
<1> DEFINE b == ssa.order[at]
           after == IF b \in executable THEN Evaluated(Known, b)[Len(ssa.code[b])] ELSE Known
<1>1. /\ stage = "sweep" /\ at <= Len(ssa.order)
      /\ value' = after.value /\ executable' = after.executable
      /\ changed' = (changed \/ after # Known)
      /\ at' = at + 1 /\ stage' = stage /\ ssa' = ssa
      BY DEF VisitBlock, Known
<1>2. WellFormed(ssa) /\ Known \in Knowledge /\ changed \in BOOLEAN /\ at \in 1 .. Len(ssa.order) + 1
      BY <1>1 DEF SweepInv
<1>3. ssa.order \in Seq(Blocks(ssa))
      BY <1>2 DEF WellFormed
<1>4. at \in 1 .. Len(ssa.order) /\ b \in Blocks(ssa)
  <2>1. Len(ssa.order) \in Nat
        BY <1>3
  <2> QED
      BY <1>1, <1>2, <1>3, <2>1
<1> HIDE DEF b
<1>5. after \in Knowledge /\ Below(Known, after)
        /\ (after = Known => Quiet(b))
  <2> HIDE DEF Known
  <2>1. CASE b \in executable
        BY <1>2, <1>4, <2>1, BlockRaises DEF Quiet
  <2>2. CASE b \notin executable
        BY <1>2, <2>2, BelowOrders DEF Quiet
  <2> QED
      BY <2>1, <2>2
<1> HIDE DEF after
<1>6. Known' = after
  <2>1. Known' = [value |-> after.value, executable |-> after.executable]
        BY <1>1 DEF Known
  <2> QED
      BY <1>5, <2>1 DEF Knowledge
<1> QED
    BY <1>1, <1>2, <1>4, <1>5, <1>6 DEF b

\* A visit that changes nothing leaves a quiet block quiet.
LEMMA QuietKept ==
  ASSUME NEW b, Quiet(b), Known' = Known, ssa' = ssa
  PROVE  Quiet(b)'
<1>1. executable' = executable
  <2>1. Known.executable = executable /\ Known'.executable = executable'
        BY DEF Known
  <2> QED
      BY <2>1
<1>2. \A s : Settled(Known, s, b) => Settled(Known, s, b)'
  <2>1. \A k, s : Settled(k, s, b) <=> Settled(k, s, b)'
        BY DEF Settled, Assigned, EvalPhi, IsEdgeExecutable
  <2> QED
      BY <2>1
<1> QED
    BY <1>1, <1>2 DEF Quiet

LEMMA SweepVisit ==
  ASSUME SweepInv, VisitBlock
  PROVE  SweepInv'
<1>1. stage = "sweep" /\ stage' = "sweep" /\ ssa' = ssa /\ at' = at + 1
      BY DEF VisitBlock
<1> DEFINE b == ssa.order[at]
<1>2. /\ at \in 1 .. Len(ssa.order) /\ b \in Blocks(ssa)
      /\ WellFormed(ssa) /\ Known \in Knowledge
      /\ changed' \in BOOLEAN
      /\ Known' \in Knowledge /\ Below(Known, Known')
      /\ changed' = FALSE => changed = FALSE /\ Known' = Known /\ Quiet(b)
      BY Visits
<1>3. Len(ssa.order) \in Nat
      BY <1>2 DEF WellFormed
<1>4. Known' \in Knowledge'
      BY <1>1, <1>2 DEF Knowledge
<1>5. executable \subseteq executable' /\ \A t \in Temps(ssa) : value[t] \subseteq value'[t]
      BY <1>2 DEF Below, Known
<1>6. value' \in [Temps(ssa) -> Lattice]
      BY <1>2 DEF Known, Knowledge
<1>7. Entry(ssa) \in executable' /\ \A t \in Params(ssa) : value'[t] = Word
  <2>1. Entry(ssa) \in executable /\ \A t \in Params(ssa) : t \in Temps(ssa) /\ value[t] = Word
        BY <1>1 DEF SweepInv, Temps
  <2>2. \A v \in Lattice : Word \subseteq v => v = Word
        BY DEF Lattice
  <2> QED
      BY <1>5, <1>6, <2>1, <2>2
<1>8. ASSUME changed' = FALSE, NEW j \in 1 .. at' - 1 PROVE Quiet(ssa.order[j])'
  <2>1. Known' = Known /\ changed = FALSE /\ Quiet(b)
        BY <1>2, <1>8
  <2>2. Quiet(ssa.order[j])
    <3>1. CASE j = at
          BY <2>1, <3>1
    <3>2. CASE j # at
      <4>1. j \in 1 .. at - 1
            BY <1>1, <1>2, <1>3, <3>2
      <4> QED
          BY <1>1, <2>1, <4>1 DEF SweepInv
    <3> QED
        BY <3>1, <3>2
  <2>3. Quiet(ssa.order[j]) => (Quiet(ssa.order[j]))'
    <3> DEFINE o == ssa.order[j]
    <3>1. o' = o
          BY <1>1
    <3>2. \A c : Quiet(c) => Quiet(c)'
          BY <1>1, <2>1, QuietKept
    <3> HIDE DEF o
    <3>3. Quiet(o) => Quiet(o)'
          BY <3>1, <3>2
    <3> QED
        BY <3>3 DEF o
  <2> QED
      BY <2>2, <2>3
<1>9. WellFormed(ssa') /\ at' \in 1 .. Len(ssa'.order) + 1 /\ Entry(ssa') \in executable'
        /\ \A t \in Params(ssa') : value'[t] = Word
      BY <1>1, <1>2, <1>3, <1>7
<1> HIDE DEF b, Known
<1> QED
    BY <1>1, <1>2, <1>4, <1>8, <1>9 DEF SweepInv

LEMMA SweepStep == SweepInv /\ [Next]_sccpVars => SweepInv'
<1> SUFFICES ASSUME SweepInv, [Next]_sccpVars PROVE SweepInv'
    OBVIOUS
<1>1. ASSUME NEW f, WellFormed(f), SccpBegin(f) PROVE SweepInv'
      BY <1>1, SweepBegin
<1>2. CASE VisitBlock
      BY <1>2, SweepVisit
<1>3. CASE EndSweep
  <2>1. /\ stage = "sweep" /\ at > Len(ssa.order)
        /\ stage' = IF changed THEN "sweep" ELSE "modify"
        /\ at' = 1 /\ changed' = FALSE
        /\ ssa' = ssa /\ executable' = executable /\ value' = value
        BY <1>3 DEF EndSweep
  <2>2. Known' = Known /\ Knowledge' = Knowledge
        BY <2>1 DEF Known, Knowledge
  <2>3. WellFormed(ssa) /\ Known \in Knowledge /\ at \in 1 .. Len(ssa.order) + 1 /\ changed \in BOOLEAN
          /\ Entry(ssa) \in executable /\ \A t \in Params(ssa) : value[t] = Word
        BY <2>1 DEF SweepInv
  <2>4. Len(ssa.order) \in Nat /\ \A b \in Blocks(ssa) : \E j \in 1 .. Len(ssa.order) : b = ssa.order[j]
    <3>1. ssa.order \in Seq(Blocks(ssa))
          BY <2>3 DEF WellFormed
    <3> QED
        BY <3>1 DEF Blocks, ToSet
  <2>5. ASSUME changed = FALSE, NEW b \in Blocks(ssa) PROVE Quiet(b)'
    <3>1. PICK j \in 1 .. Len(ssa.order) : b = ssa.order[j]
          BY <2>4
    <3>2. j \in 1 .. at - 1
          BY <2>1, <2>3, <2>4, <3>1
    <3>3. Quiet(b)
          BY <2>1, <2>5, <3>1, <3>2 DEF SweepInv
    <3> QED
        BY <2>1, <2>2, <3>3, QuietKept
  <2>6. Blocks(ssa)' = Blocks(ssa)
        BY <2>1
  <2>7. (\A j \in 1 .. at - 1 : Quiet(ssa.order[j]))'
    <3>1. 1 .. at' - 1 = {}
          BY <2>1
    <3> QED
        BY <3>1
  <2>8. WellFormed(ssa') /\ at' \in 1 .. Len(ssa'.order) + 1 /\ Entry(ssa') \in executable'
          /\ \A t \in Params(ssa') : value'[t] = Word
        BY <2>1, <2>3, <2>4
  <2> HIDE DEF Known
  <2> QED
      BY <2>1, <2>2, <2>3, <2>5, <2>6, <2>7, <2>8 DEF SweepInv
<1>4. CASE ModifyFunc
      BY <1>4 DEF ModifyFunc, SweepInv
<1>5. CASE Take
      BY <1>5 DEF Take, SweepInv
<1>6. CASE UNCHANGED sccpVars
  <2>1. UNCHANGED <<stage, ssa, executable, value, at, changed>>
        BY <1>6 DEF sccpVars
  <2>2. Known' = Known /\ Knowledge' = Knowledge
        BY <2>1 DEF Known, Knowledge
  <2>3. \A b : Quiet(b) => Quiet(b)'
        BY <2>1, <2>2, QuietKept
  <2> QED
      BY <2>1, <2>2, <2>3 DEF SweepInv
<1> QED
    BY <1>1, <1>2, <1>3, <1>4, <1>5, <1>6 DEF Next, SccpSteps

\* The invariant of the sweeps of calculateBT, from one function to the next.
THEOREM SweepsInvariant == Spec => []SweepInv
  BY SweepInit, SweepStep, PTL DEF Spec

\* Values and executable blocks only rise while a function is propagated (the loop
\* of calculateBT), so that the sweeps of every function stop.
THEOREM Rising == Spec => ValuesRise
<1> DEFINE Rises == stage = "sweep" =>
             /\ executable \subseteq executable'
             /\ \A t \in DOMAIN value : value[t] \subseteq value'[t]
<1>1. ASSUME SweepInv, Next PROVE Rises
  <2> SUFFICES ASSUME stage = "sweep" PROVE Rises
      OBVIOUS
  <2>1. DOMAIN value = Temps(ssa)
    <3>1. Known \in Knowledge
          BY <1>1 DEF SweepInv
    <3> QED
        BY <3>1 DEF Known, Knowledge
  <2>2. CASE VisitBlock
    <3>1. Below(Known, Known')
          BY <1>1, <2>2, Visits
    <3> QED
        BY <2>1, <3>1 DEF Below, Known
  <2>3. CASE EndSweep
        BY <2>3 DEF EndSweep
  <2>4. ~ (\E f : WellFormed(f) /\ SccpBegin(f)) /\ ~ModifyFunc /\ ~Take
        BY DEF SccpBegin, ModifyFunc, Take
  <2> QED
      BY <1>1, <2>2, <2>3, <2>4 DEF Next, SccpSteps
<1> HIDE DEF Rises
<1>2. SweepInv /\ [Next]_sccpVars => [Rises]_sccpVars
      BY <1>1
<1>3. Spec => [][Rises]_sccpVars
      BY <1>2, SweepsInvariant, PTL DEF Spec
<1> QED
    BY <1>3 DEF ValuesRise, Rises

-----------------------------------------------------------------------------
\* Runs.  The frame holds, of each temp that was assigned, one of its values.
Covered(env) == \A t \in DOMAIN env : t \in Temps(ssa) /\ env[t] \in value[t]

\* A term that is read has one of the values that are known of it.
LEMMA ValueCovered ==
  ASSUME Known \in Knowledge, NEW s, GoodStatement(s), NEW env, Covered(env),
         Uses(s) \subseteq DOMAIN env, NEW j \in DOMAIN s.src
  PROVE  Value(env, s.src[j]) \in EvalTerm(value, s.src[j]) /\ Value(env, s.src[j]) \in Word
<1>1. value \in [Temps(ssa) -> Lattice]
      BY DEF Known, Knowledge
<1>2. EvalTerm(value, s.src[j]) \in Lattice /\ (IsTemp(s.src[j]) => s.src[j].temp \in Uses(s))
      BY <1>1, SourceTyped
<1>3. \A v \in Lattice : v \subseteq Word
      BY DEF Lattice
<1>4. Value(env, s.src[j]) \in EvalTerm(value, s.src[j])
      BY <1>2 DEF Value, EvalTerm, Covered
<1> QED
    BY <1>2, <1>3, <1>4

LEMMA BoundCovered ==
  ASSUME NEW env, Covered(env), NEW t \in Temps(ssa), NEW v \in value[t]
  PROVE  Covered(Bind(env, t, v))
BY DEF Covered, Bind

\* A folded operation has the value that the machine computes.
LEMMA FoldCovers ==
  ASSUME NEW op, NEW l \in Lattice, NEW r \in Lattice, NEW x \in l, NEW y \in r
  PROVE  Operate(op, x, y) \in EvalBinop(op, l, r)
<1>1. x \in Word /\ y \in Word
      BY DEF Lattice
<1>2. Operate(op, x, y) \in Word
      BY <1>1, OperationsAreWords
<1>3. l # {} /\ r # {}
      OBVIOUS
<1>4. CASE ManyValues \in {l, r}
      BY <1>2, <1>4 DEF EvalBinop, ManyValues
<1>5. CASE ManyValues \notin {l, r}
  <2>1. l = {x} /\ r = {y}
        BY <1>3, <1>5 DEF Lattice, ManyValues
  <2>2. TheOne(l) = x /\ TheOne(r) = y
        BY <2>1 DEF TheOne
  <2> QED
      BY <1>2, <1>3, <1>5, <2>2 DEF EvalBinop, NoValue, ManyValues
<1> QED
    BY <1>4, <1>5

\* A statement that is settled keeps the frame covered and goes where it is known
\* to lead.
Moves(c, s, d) ==
  /\ IsConfiguration(d)
  /\ Covered(d.env)
  /\ s.kind \notin Leaving => d.at = c.at /\ d.halted = c.halted
  /\ s.kind = "RETURN" => d.halted /\ d.at = c.at
  /\ s.kind \in Leaving => s.kind = "RETURN" \/ d.at \in Targets(value, s)

LEMMA StatementCovered ==
  ASSUME Known \in Knowledge, NEW s, GoodStatement(s), NEW b, Settled(Known, s, b),
         NEW c, IsConfiguration(c), Covered(c.env), ~IsPhi(s) => Uses(s) \subseteq DOMAIN c.env,
         NEW input,
         s.kind \in {"LOAD", "MOVE_EXTCALL"} => ExecStatement(input, c, s).env[s.dst] \in Word
  PROVE  Moves(c, s, ExecStatement(input, c, s))
<1> DEFINE d == ExecStatement(input, c, s)
           vals == [i \in DOMAIN s.src |-> Value(c.env, s.src[i])]
           seen == Append(c.trace, <<s.kind, s.op, vals>>)
<1> SUFFICES Moves(c, s, d)
    OBVIOUS
<1>1. value \in [Temps(ssa) -> Lattice] /\ Known.value = value /\ Known.executable = executable
      BY DEF Known, Knowledge
<1>2. WellFormedStatement(ssa, s)
      BY DEF GoodStatement
<1>3. s.kind \in Assigning =>
        s.dst \in Temps(ssa) /\ Assigned(value, executable, s, b) \subseteq value[s.dst]
  <2>1. s.kind \in Assigning => s.dst \in Defs(s)
        BY <1>2 DEF WellFormedStatement, Defs
  <2> QED
      BY <1>1, <2>1 DEF Settled, GoodStatement
<1>4. ~IsPhi(s) => \A j \in DOMAIN s.src :
        /\ vals[j] \in EvalTerm(value, s.src[j]) /\ vals[j] \in Word
        /\ EvalTerm(value, s.src[j]) \in Lattice
      BY <1>1, ValueCovered, SourceTyped
<1> HIDE DEF vals
<1> DEFINE Binding(v) ==
             /\ d.env = Bind(c.env, s.dst, v)
             /\ d = [at |-> c.at, halted |-> c.halted, trace |-> d.trace, env |-> d.env]
             /\ v \in value[s.dst]
<1>5. ASSUME s.kind \in Assigning, NEW v, Binding(v)
      PROVE  IsConfiguration(d) /\ Covered(d.env) /\ d.at = c.at /\ d.halted = c.halted
  <2> HIDE DEF d
  <2> QED
      BY <1>3, <1>5, BoundCovered DEF IsConfiguration
<1>6. CASE s.kind = "MOVE"
  <2>1. 1 \in DOMAIN s.src
        BY <1>2, <1>6 DEF WellFormedStatement
  <2>2. vals[1] \in value[s.dst]
        BY <1>3, <1>4, <1>6, <2>1 DEF Assigned, Assigning, IsPhi
  <2>3. d = [c EXCEPT !.env = Bind(@, s.dst, vals[1])]
        BY <1>6 DEF ExecStatement, ExecPlain, IsCall, vals
  <2>4. Binding(vals[1])
    <3> HIDE DEF d
    <3> QED
        BY <2>2, <2>3 DEF IsConfiguration
  <2> QED
      BY <1>5, <1>6, <2>4 DEF Assigning, Leaving, Moves
<1>7. CASE s.kind = "MOVE_BINOP"
  <2>1. 1 \in DOMAIN s.src /\ 2 \in DOMAIN s.src
        BY <1>2, <1>7 DEF WellFormedStatement
  <2> DEFINE v == Operate(s.op, vals[1], vals[2])
  <2>2. v \in EvalBinop(s.op, EvalTerm(value, s.src[1]), EvalTerm(value, s.src[2]))
        BY <1>4, <1>7, <2>1, FoldCovers DEF IsPhi
  <2>3. v \in value[s.dst]
        BY <1>3, <1>7, <2>2 DEF Assigned, Assigning
  <2>4. d = [c EXCEPT !.env = Bind(@, s.dst, v)]
        BY <1>7 DEF ExecStatement, ExecPlain, IsCall, vals
  <2>5. Binding(v)
    <3> HIDE DEF d, v
    <3> QED
        BY <2>3, <2>4 DEF IsConfiguration
  <2> QED
      BY <1>5, <1>7, <2>5 DEF Assigning, Leaving, Moves
<1>8. CASE s.kind \in {"LOAD", "MOVE_EXTCALL"}
  <2>1. Word \subseteq value[s.dst] /\ s.dst # NoTemp
        BY <1>2, <1>3, <1>8 DEF Assigned, Assigning, ManyValues, WellFormedStatement
  <2>2. d.env[s.dst] \in Word
        BY <1>8
  <2>3. \E v : /\ d.env = Bind(c.env, s.dst, v)
               /\ d = [at |-> c.at, halted |-> c.halted, trace |-> d.trace, env |-> d.env]
    <3>1. CASE IsCall(s.kind) /\ s.op \in DOMAIN Callees
      <4> DEFINE end == Callee(s.op, [i \in DOMAIN s.src |-> Value(c.env, s.src[i])], input, c.trace)
                 v == Last(end.trace)[3][1]
      <4>1. d = [c EXCEPT !.trace = Front(end.trace), !.env = Bind(@, s.dst, v)]
            BY <2>1, <3>1 DEF ExecStatement, ExecCall
      <4> HIDE DEF d, end, v
      <4> QED
          BY <4>1 DEF IsConfiguration
    <3>2. CASE ~ (IsCall(s.kind) /\ s.op \in DOMAIN Callees)
      <4> DEFINE v == Reply(input, Len(c.trace))
      <4>1. d = [c EXCEPT !.env = Bind(@, s.dst, v), !.trace = seen]
            BY <1>8, <3>2 DEF ExecStatement, ExecPlain, vals
      <4> HIDE DEF d, v, seen
      <4> QED
          BY <4>1 DEF IsConfiguration
    <3> QED
        BY <3>1, <3>2
  <2>4. PICK v : /\ d.env = Bind(c.env, s.dst, v)
                 /\ d = [at |-> c.at, halted |-> c.halted, trace |-> d.trace, env |-> d.env]
        BY <2>3
  <2>5. d.env[s.dst] = v
    <3> HIDE DEF d
    <3> QED
        BY <2>4 DEF Bind
  <2>6. Binding(v)
        BY <2>1, <2>2, <2>4, <2>5
  <2> QED
      BY <1>5, <1>8, <2>6 DEF Assigning, Leaving, Moves
<1>9. CASE s.kind \in {"STORE", "EXTCALL"}
  <2>1. s.dst = NoTemp
        BY <1>2, <1>9 DEF WellFormedStatement, Assigning
  <2>2. d.env = c.env /\ d = [at |-> c.at, halted |-> c.halted, trace |-> d.trace, env |-> d.env]
    <3>1. CASE IsCall(s.kind) /\ s.op \in DOMAIN Callees
      <4> DEFINE end == Callee(s.op, [i \in DOMAIN s.src |-> Value(c.env, s.src[i])], input, c.trace)
      <4>1. d = [c EXCEPT !.trace = Front(end.trace), !.env = @]
            BY <2>1, <3>1 DEF ExecStatement, ExecCall
      <4> HIDE DEF d, end
      <4> QED
          BY <4>1 DEF IsConfiguration
    <3>2. CASE ~ (IsCall(s.kind) /\ s.op \in DOMAIN Callees)
      <4>1. d = [c EXCEPT !.trace = seen]
            BY <1>9, <3>2 DEF ExecStatement, ExecPlain, vals
      <4> HIDE DEF d, seen
      <4> QED
          BY <4>1 DEF IsConfiguration
    <3> QED
        BY <3>1, <3>2
  <2> HIDE DEF d
  <2> QED
      BY <1>9, <2>2 DEF IsConfiguration, Leaving, Moves
<1>10. CASE s.kind \in {"JUMP", "FALL"}
  <2>1. d = [c EXCEPT !.at = s.labels[1]]
        BY <1>10 DEF ExecStatement, ExecPlain, IsCall, vals
  <2>2. s.labels[1] \in Targets(value, s)
        BY <1>2, <1>10 DEF WellFormedStatement, Targets, ToSet
  <2> HIDE DEF d
  <2> QED
      BY <1>10, <2>1, <2>2 DEF IsConfiguration, Leaving, Moves
<1>11. CASE s.kind = "CJUMP"
  <2> DEFINE target == IF Compare(s.op, vals[1], vals[2]) THEN s.labels[1] ELSE s.labels[2]
  <2>1. d = [c EXCEPT !.at = target]
        BY <1>11 DEF ExecStatement, ExecPlain, IsCall, vals
  <2>2. 1 \in DOMAIN s.src /\ 2 \in DOMAIN s.src /\ {s.labels[1], s.labels[2]} \subseteq ToSet(s.labels)
        BY <1>2, <1>11 DEF WellFormedStatement, ToSet
  <2>3. target \in Targets(value, s)
    <3> DEFINE l == EvalTerm(value, s.src[1])
               r == EvalTerm(value, s.src[2])
    <3>1. vals[1] \in l /\ vals[2] \in r /\ l \in Lattice /\ r \in Lattice
          BY <1>4, <1>11, <2>2 DEF IsPhi
    <3>2. IsOne(l) => TheOne(l) = vals[1]
          BY <3>1, OneWord
    <3>3. IsOne(r) => TheOne(r) = vals[2]
          BY <3>1, OneWord
    <3>4. Targets(value, s) = IF IsOne(l) /\ IsOne(r)
                THEN {IF Compare(s.op, TheOne(l), TheOne(r)) THEN s.labels[1] ELSE s.labels[2]}
                ELSE ToSet(s.labels)
          BY <1>11 DEF Targets
    <3> HIDE DEF l, r
    <3> QED
        BY <2>2, <3>2, <3>3, <3>4
  <2> HIDE DEF d, target
  <2> QED
      BY <1>11, <2>1, <2>3 DEF IsConfiguration, Leaving, Moves
<1>12. CASE s.kind = "RETURN"
  <2>1. d = [c EXCEPT !.halted = TRUE, !.trace = seen]
        BY <1>12 DEF ExecStatement, ExecPlain, IsCall, vals
  <2> HIDE DEF d, seen
  <2> QED
      BY <1>12, <2>1 DEF IsConfiguration, Leaving, Moves
<1>13. CASE s.kind = "PHI"
  <2>1. d = c
        BY <1>13 DEF ExecStatement, ExecPlain, IsCall
  <2> QED
      BY <1>13, <2>1 DEF Leaving, Moves
<1>14. s.kind \in {"MOVE", "MOVE_BINOP", "LOAD", "MOVE_EXTCALL", "STORE", "EXTCALL", "JUMP", "FALL",
                  "CJUMP", "RETURN", "PHI"}
       BY <1>2 DEF WellFormedStatement, Leaving, Assigning
<1> HIDE DEF d
<1> QED
    BY <1>6, <1>7, <1>8, <1>9, <1>10, <1>11, <1>12, <1>13, <1>14

\* The phis of a block the run comes to: the edge is executable, so that the value
\* of each argument is among those of the phi.
LEMMA PhisCovered ==
  ASSUME WellFormed(ssa), Known \in Knowledge,
         NEW e, IsConfiguration(e), Covered(e.env), e.at \in executable, Quiet(e.at),
         NEW from \in executable, e.at \in Targets(value, Last(ssa.code[from])),
         \A s \in ToSet(ssa.code[e.at]) : \A j \in DOMAIN s.labels :
           IsPhi(s) /\ s.labels[j] = from => s.src[j].temp \in DOMAIN e.env
  PROVE  LET d == ExecPhis(ssa, e, from) IN
           IsConfiguration(d) /\ Covered(d.env) /\ d.at = e.at
<1> DEFINE taken == {s \in ToSet(ssa.code[e.at]) : IsPhi(s) /\ from \in ToSet(s.labels)}
           Of(t) == CHOOSE s \in taken : s.dst = t
           Place(s) == CHOOSE j \in DOMAIN s.labels : s.labels[j] = from
           set == {s.dst : s \in taken}
           env == [t \in DOMAIN e.env \cup set |->
                     IF t \in set THEN Value(e.env, Of(t).src[Place(Of(t))]) ELSE e.env[t]]
           d == ExecPhis(ssa, e, from)
<1>1. d = [e EXCEPT !.env = env]
      BY DEF ExecPhis
<1>2. executable \subseteq Blocks(ssa) /\ value \in [Temps(ssa) -> Lattice]
        /\ Known.value = value /\ Known.executable = executable
      BY DEF Known, Knowledge
<1>3. \A v \in Lattice : v \subseteq Word
      BY DEF Lattice
<1>4. ASSUME NEW s \in taken
      PROVE  s.dst \in Temps(ssa) /\ Value(e.env, s.src[Place(s)]) \in value[s.dst]
  <2>1. PICK i \in DOMAIN ssa.code[e.at] : s = ssa.code[e.at][i]
        BY DEF ToSet
  <2>2. GoodStatement(s) /\ s.kind = "PHI" /\ from \in ToSet(s.labels) /\ s \in ToSet(ssa.code[e.at])
        BY <1>2, <2>1, GoodStatements DEF IsPhi
  <2>3. Settled(Known, s, e.at)
        BY <2>1 DEF Quiet
  <2> DEFINE j == Place(s)
  <2>4. j \in DOMAIN s.labels /\ s.labels[j] = from
        BY <2>2 DEF ToSet
  <2>5. s.dst \in Temps(ssa) /\ Defs(s) # {} /\ j \in DOMAIN s.src /\ IsTemp(s.src[j])
        BY <2>2, <2>4 DEF GoodStatement, WellFormedStatement, Defs, Assigning
  <2> HIDE DEF j
  <2> DEFINE t == s.src[j].temp
             v == e.env[t]
             J == {l \in DOMAIN s.src : IsEdgeExecutable(value, executable, s.labels[l], e.at)}
             inputs == {EvalTerm(value, s.src[l]) : l \in J}
  <2>6. t \in DOMAIN e.env /\ t \in Temps(ssa) /\ v \in value[t] /\ v \in Word
    <3>1. t \in DOMAIN e.env
          BY <2>2, <2>4 DEF IsPhi
    <3> QED
        BY <1>2, <1>3, <3>1 DEF Covered
  <2>7. Value(e.env, s.src[j]) = v /\ EvalTerm(value, s.src[j]) = value[t]
        BY <2>5, <2>6 DEF Value, EvalTerm
  <2>8. IsEdgeExecutable(value, executable, s.labels[j], e.at)
        BY <2>4 DEF IsEdgeExecutable
  <2>9. value[t] \in inputs
        BY <2>5, <2>7, <2>8
  <2>10. EvalPhi(value, executable, s, e.at) = IF NoValue \in inputs THEN ManyValues
                                 ELSE IF Cardinality(inputs) <= 1 THEN UNION inputs ELSE ManyValues
         BY DEF EvalPhi
  <2>11. v \in EvalPhi(value, executable, s, e.at)
    <3> HIDE DEF inputs, t, v
    <3> QED
        BY <2>6, <2>9, <2>10 DEF ManyValues
  <2>12. EvalPhi(value, executable, s, e.at) \subseteq value[s.dst]
         BY <1>2, <2>2, <2>3, <2>5 DEF Settled, Assigned
  <2> HIDE DEF v
  <2> QED
      BY <2>5, <2>7, <2>11, <2>12 DEF j
<1>5. \A t \in set : Of(t) \in taken /\ Of(t).dst = t
  <2> HIDE DEF taken
  <2> QED
      OBVIOUS
<1>6. Covered(env)
  <2> SUFFICES ASSUME NEW t \in DOMAIN e.env \cup set
               PROVE  t \in Temps(ssa) /\ env[t] \in value[t]
      BY DEF Covered
  <2>1. CASE t \in set
    <3>1. env[t] = Value(e.env, Of(t).src[Place(Of(t))])
          BY <2>1
    <3> HIDE DEF env, taken, Of, Place
    <3> QED
        BY <1>4, <1>5, <2>1, <3>1
  <2>2. CASE t \notin set
    <3>1. env[t] = e.env[t]
          BY <2>2
    <3> HIDE DEF env
    <3> QED
        BY <2>2, <3>1 DEF Covered
  <2> QED
      BY <2>1, <2>2
<1> HIDE DEF env, d
<1>7. IsConfiguration(d) /\ Covered(d.env) /\ d.at = e.at
      BY <1>1, <1>6 DEF IsConfiguration
<1> QED
    BY <1>7 DEF d

\* What holds of a run behind each block.
Inside(c) == IsConfiguration(c) /\ Covered(c.env) /\ c.at \in executable

\* A block's statements, of which each reads what was assigned, keep the frame covered.
StaysInside(input, c) ==
  LET code == ssa.code[c.at]
      m == Len(code)
      W == AlongBlock(ssa, input, c)
  IN /\ m \in Nat \ {0} /\ DOMAIN code = 1 .. m
     /\ W[0] = c /\ \A i \in 1 .. m : W[i] = ExecStatement(input, W[i - 1], code[i])
     /\ \A i \in 1 .. m : GoodStatement(code[i]) /\ (code[i].kind \in Leaving <=> i = m)
     /\ \A i \in 1 .. m : ~IsPhi(code[i]) => Uses(code[i]) \subseteq DOMAIN W[i - 1].env
     /\ \A i \in 0 .. m - 1 : IsConfiguration(W[i]) /\ Covered(W[i].env) /\ W[i].at = c.at
     /\ Moves(W[m - 1], code[m], W[m])
     /\ ~W[m].halted => \A s \in ToSet(ssa.code[W[m].at]) : \A j \in DOMAIN s.labels :
          IsPhi(s) /\ s.labels[j] = c.at => s.src[j].temp \in DOMAIN W[m].env
     /\ ExecBlock(ssa, input, c) = IF W[m].halted THEN W[m] ELSE ExecPhis(ssa, W[m], c.at)

LEMMA BlockInside ==
  ASSUME SweepInv, stage = "modify", NEW input, NEW n \in Nat,
         YieldsWords(ssa, input, n), ReadsAssigned(ssa, input, n),
         NEW c \in Configurations(ssa, input, n), Inside(c), ~c.halted
  PROVE  StaysInside(input, c)
<1> DEFINE b == c.at
           code == ssa.code[b]
           m == Len(code)
           W == AlongBlock(ssa, input, c)
<1>1. /\ WellFormed(ssa) /\ Known \in Knowledge /\ \A a \in Blocks(ssa) : Quiet(a)
      /\ b \in executable /\ b \in Blocks(ssa) /\ executable \subseteq Blocks(ssa)
      BY DEF SweepInv, Known, Knowledge, Inside
<1>2. /\ m \in Nat \ {0} /\ DOMAIN code = 1 .. m
      /\ \A i \in 1 .. m : GoodStatement(code[i]) /\ (code[i].kind \in Leaving <=> i = m)
  <2>1. code \in Seq(ToSet(code)) /\ code # <<>>
        BY <1>1 DEF WellFormed
  <2>2. m \in Nat /\ DOMAIN code = 1 .. m /\ m # 0
        BY <2>1
  <2> QED
      BY <1>1, <2>2, GoodStatements DEF WellFormed
<1>3. W[0] = c /\ \A i \in 1 .. m : W[i] = ExecStatement(input, W[i - 1], code[i])
  <2>1. Len(ssa.code[c.at]) \in Nat
        BY <1>2
  <2> QED
      BY <2>1, BehindFacts
<1>4. \A i \in 1 .. m : Settled(Known, code[i], b)
      BY <1>1, <1>2 DEF Quiet
<1>5. \A i \in 1 .. m : ~IsPhi(code[i]) => Uses(code[i]) \subseteq DOMAIN W[i - 1].env
      BY <1>2 DEF ReadsAssigned
<1>6. \A i \in 1 .. m : code[i].kind \in {"LOAD", "MOVE_EXTCALL"} => W[i].env[code[i].dst] \in Word
      BY <1>2 DEF YieldsWords
<1>7. ~W[m].halted => \A s \in ToSet(ssa.code[W[m].at]) : \A j \in DOMAIN s.labels :
        IsPhi(s) /\ s.labels[j] = b => s.src[j].temp \in DOMAIN W[m].env
      BY DEF ReadsAssigned
<1>8. ExecBlock(ssa, input, c) = IF W[m].halted THEN W[m] ELSE ExecPhis(ssa, W[m], b)
      BY DEF ExecBlock, BlockBy, AlongBlock
<1> HIDE DEF W, m, code
<1>9. ASSUME NEW i \in 1 .. m, IsConfiguration(W[i - 1]), Covered(W[i - 1].env)
      PROVE  Moves(W[i - 1], code[i], W[i])
  <2>1. W[i] = ExecStatement(input, W[i - 1], code[i])
        BY <1>3
  <2> HIDE DEF Known
  <2> QED
      BY <1>1, <1>2, <1>4, <1>5, <1>6, <1>9, <2>1, StatementCovered
<1>10. \A i \in 0 .. m - 1 : IsConfiguration(W[i]) /\ Covered(W[i].env) /\ W[i].at = b
  <2> DEFINE T == {i \in 0 .. m - 1 : ~ (IsConfiguration(W[i]) /\ Covered(W[i].env) /\ W[i].at = b)}
  <2>1. ASSUME T # {} PROVE FALSE
    <3>1. T \in SUBSET Nat
          BY <1>2
    <3>2. PICK l \in T : \A j \in T : l <= j
      <4> HIDE DEF T
      <4> QED
          BY <2>1, <3>1, LeastElement
    <3>3. l # 0
          BY <1>3, <3>2 DEF Inside
    <3>4. l \in 1 .. m - 1 /\ l - 1 \in 0 .. m - 1 /\ l - 1 \notin T /\ l \in 1 .. m /\ l # m
      <4>1. l \in 0 .. m - 1
            OBVIOUS
      <4> HIDE DEF T
      <4> QED
          BY <1>2, <3>2, <3>3, <4>1
    <3>5. IsConfiguration(W[l - 1]) /\ Covered(W[l - 1].env) /\ W[l - 1].at = b
          BY <3>4
    <3>6. Moves(W[l - 1], code[l], W[l]) /\ code[l].kind \notin Leaving
          BY <1>2, <1>9, <3>4, <3>5
    <3> QED
        BY <3>5, <3>6 DEF Moves
  <2> QED
      BY <2>1
<1>11. Moves(W[m - 1], code[m], W[m]) /\ code[m].kind \in Leaving /\ W[m - 1].at = b
  <2>1. m - 1 \in 0 .. m - 1 /\ m \in 1 .. m
        BY <1>2
  <2> QED
      BY <1>2, <1>9, <1>10, <2>1
<1> QED
    BY <1>2, <1>3, <1>5, <1>7, <1>8, <1>10, <1>11 DEF StaysInside, W, m, code

\* A block keeps a run inside,
LEMMA BlockCovered ==
  ASSUME SweepInv, stage = "modify", NEW input, NEW n \in Nat,
         YieldsWords(ssa, input, n), ReadsAssigned(ssa, input, n),
         NEW c \in Configurations(ssa, input, n), Inside(c), ~c.halted
  PROVE  Inside(ExecBlock(ssa, input, c))
<1> DEFINE b == c.at
           code == ssa.code[b]
           m == Len(code)
           W == AlongBlock(ssa, input, c)
<1>1. /\ WellFormed(ssa) /\ Known \in Knowledge /\ \A a \in Blocks(ssa) : Quiet(a)
      /\ b \in executable /\ b \in Blocks(ssa) /\ executable \subseteq Blocks(ssa)
      BY DEF SweepInv, Known, Knowledge, Inside
<1>2. /\ m \in Nat \ {0} /\ DOMAIN code = 1 .. m
      /\ \A i \in 1 .. m : GoodStatement(code[i]) /\ (code[i].kind \in Leaving <=> i = m)
      /\ \A i \in 0 .. m - 1 : IsConfiguration(W[i]) /\ Covered(W[i].env) /\ W[i].at = b
      /\ Moves(W[m - 1], code[m], W[m])
      /\ ~W[m].halted => \A s \in ToSet(ssa.code[W[m].at]) : \A j \in DOMAIN s.labels :
           IsPhi(s) /\ s.labels[j] = b => s.src[j].temp \in DOMAIN W[m].env
      /\ ExecBlock(ssa, input, c) = IF W[m].halted THEN W[m] ELSE ExecPhis(ssa, W[m], b)
  <2>1. StaysInside(input, c)
        BY BlockInside
  <2> QED
      BY <2>1, Zenon DEF StaysInside
<1>3. \A i \in 1 .. m : Settled(Known, code[i], b)
      BY <1>1, <1>2 DEF Quiet
<1>4. ~W[m].halted => \A s \in ToSet(ssa.code[W[m].at]) : \A j \in DOMAIN s.labels :
        IsPhi(s) /\ s.labels[j] = b => s.src[j].temp \in DOMAIN W[m].env
      BY <1>2
<1>5. ExecBlock(ssa, input, c) = IF W[m].halted THEN W[m] ELSE ExecPhis(ssa, W[m], b)
      BY <1>2
<1> HIDE DEF W, m, code
<1>6. Moves(W[m - 1], code[m], W[m]) /\ code[m].kind \in Leaving /\ W[m - 1].at = b
  <2>1. m - 1 \in 0 .. m - 1 /\ m \in 1 .. m
        BY <1>2
  <2> QED
      BY <1>2, <2>1
<1>7. CASE code[m].kind = "RETURN"
  <2>1. Inside(W[m]) /\ W[m].halted
        BY <1>1, <1>6, <1>7 DEF Moves, Inside
  <2> QED
      BY <1>5, <2>1
<1>8. CASE code[m].kind # "RETURN"
  <2>1. IsConfiguration(W[m]) /\ Covered(W[m].env) /\ W[m].at \in Targets(value, code[m])
        BY <1>6, <1>8 DEF Moves
  <2>2. Targets(value, code[m]) \subseteq executable
    <3>1. Settled(Known, code[m], b) /\ code[m].kind \in {"JUMP", "CJUMP", "FALL"}
          BY <1>2, <1>3, <1>6, <1>8 DEF Leaving
    <3> QED
        BY <3>1 DEF Settled, Known
  <2>3. Last(ssa.code[b]) = code[m]
        BY DEF Last, code, m
  <2>4. CASE W[m].halted
        BY <1>5, <2>1, <2>2, <2>4 DEF Inside
  <2>5. CASE ~W[m].halted
    <3> DEFINE e == W[m]
               d == ExecPhis(ssa, e, b)
    <3>1. e.at \in executable /\ Quiet(e.at) /\ e.at \in Targets(value, Last(ssa.code[b]))
            /\ IsConfiguration(e) /\ Covered(e.env)
          BY <1>1, <2>1, <2>2, <2>3
    <3>2. \A s \in ToSet(ssa.code[e.at]) : \A j \in DOMAIN s.labels :
            IsPhi(s) /\ s.labels[j] = b => s.src[j].temp \in DOMAIN e.env
          BY <1>4, <2>5
    <3> HIDE DEF e, b, Known
    <3>3. IsConfiguration(d) /\ Covered(d.env) /\ d.at = e.at
          BY <1>1, <3>1, <3>2, PhisCovered
    <3>4. Inside(d)
          BY <3>1, <3>3 DEF Inside
    <3> QED
        BY <1>5, <2>5, <3>4 DEF e
  <2> QED
      BY <2>4, <2>5
<1> QED
    BY <1>7, <1>8

\* In front of the first block the frame holds the parameters, which may be any word.
LEMMA StartCovered ==
  ASSUME SweepInv, stage = "modify", NEW input, NEW n \in Nat, YieldsWords(ssa, input, n)
  PROVE  Inside(Start(ssa, input))
<1> DEFINE env == [t \in ToSet(ssa.params) |->
                     input.args[CHOOSE i \in DOMAIN ssa.params : ssa.params[i] = t]]
<1>1. Start(ssa, input) = [at |-> Entry(ssa), halted |-> FALSE, trace |-> <<>>, env |-> env]
      BY DEF Start
<1>2. Entry(ssa) \in executable /\ \A t \in Params(ssa) : value[t] = Word
      BY DEF SweepInv
<1>3. Covered(env)
  <2> SUFFICES ASSUME NEW t \in ToSet(ssa.params) PROVE t \in Temps(ssa) /\ env[t] \in value[t]
      BY DEF Covered
  <2> DEFINE i == CHOOSE j \in DOMAIN ssa.params : ssa.params[j] = t
  <2>1. i \in DOMAIN ssa.params
        BY DEF ToSet
  <2>2. env[t] \in Word
    <3> HIDE DEF i
    <3>1. env[t] = input.args[i]
          BY DEF i
    <3> QED
        BY <2>1, <3>1 DEF YieldsWords
  <2> QED
      BY <1>2, <2>2 DEF Temps, Params
<1> HIDE DEF env
<1> QED
    BY <1>1, <1>2, <1>3 DEF Inside, IsConfiguration

\* and so every run of which nothing is unknown stays inside.
LEMMA RunsInside ==
  ASSUME SweepInv, stage = "modify", NEW input, NEW n \in Nat,
         YieldsWords(ssa, input, n), ReadsAssigned(ssa, input, n),
         NEW c \in Configurations(ssa, input, n)
  PROVE  Inside(c)
<1> DEFINE R == After(ssa, input, n)
           T == {k \in 0 .. n : ~Inside(R[k])}
<1>1. R[0] = Start(ssa, input) /\ \A i \in 1 .. n : R[i] = Onward(ssa, input, R[i - 1])
      BY AfterFacts
<1>2. \A k \in 0 .. n : R[k] \in Configurations(ssa, input, n)
      BY DEF Configurations
<1>3. PICK k \in 0 .. n : c = R[k]
      BY DEF Configurations
<1> HIDE DEF R
<1>4. ASSUME T # {} PROVE FALSE
  <2>1. T \in SUBSET Nat
        OBVIOUS
  <2>2. PICK l \in T : \A j \in T : l <= j
    <3> HIDE DEF T
    <3> QED
        BY <1>4, <2>1, LeastElement
  <2>3. l # 0
        BY <1>1, <2>2, StartCovered
  <2>4. l \in 1 .. n /\ l - 1 \in 0 .. n /\ l - 1 \notin T
    <3>1. l \in 0 .. n
          OBVIOUS
    <3> HIDE DEF T
    <3> QED
        BY <2>2, <2>3, <3>1
  <2>5. Inside(R[l - 1]) /\ R[l - 1] \in Configurations(ssa, input, n)
        BY <1>2, <2>4
  <2>6. R[l] = IF R[l - 1].halted THEN R[l - 1] ELSE ExecBlock(ssa, input, R[l - 1])
        BY <1>1, <2>4 DEF Onward
  <2>7. Inside(R[l])
    <3>1. CASE R[l - 1].halted
          BY <2>5, <2>6, <3>1
    <3>2. CASE ~R[l - 1].halted
          BY <2>5, <2>6, <3>2, BlockCovered
    <3> QED
        BY <3>1, <3>2
  <2> QED
      BY <2>2, <2>7
<1> QED
    BY <1>3, <1>4

\* What the sweeps conclude about a function covers its runs of any length on any
\* inputs (calculateBT before modifyFunc): each block that is entered is executable,
\* and each temp holds one of its values.
THEOREM Covering ==
  Spec => [](RunsOnWords(ssa) /\ RunsReadAssigned(ssa) => ValuesCover)
<1>1. SweepInv => (RunsOnWords(ssa) /\ RunsReadAssigned(ssa) => ValuesCover)
  <2> SUFFICES ASSUME SweepInv, RunsOnWords(ssa), RunsReadAssigned(ssa), stage = "modify",
                      NEW input \in Inputs, NEW c \in Configurations(ssa, input, RunLength)
               PROVE  c.at \in executable /\ \A t \in DOMAIN c.env : c.env[t] \in value[t]
      BY DEF ValuesCover
  <2>1. Inside(c)
        BY RunAssumption, RunsInside DEF RunsOnWords, RunsReadAssigned
  <2> QED
      BY <2>1 DEF Inside, Covered
<1> QED
    BY <1>1, SweepsInvariant, PTL

-----------------------------------------------------------------------------
\* What the verifier of SSA form guarantees of the runs.

\* A definition is a parameter or some statement's.
LEMMA DefinitionSites ==
  ASSUME NEW f, NEW d \in SsaDefs(f)
  PROVE  \/ d.temp \in Params(f)
         \/ \E e \in Blocks(f) : \E j \in DOMAIN f.code[e] :
              d.temp \in Defs(f.code[e][j]) /\ d.at[1] = e /\ d.at[2] = j
<1>1. CASE \E t \in Params(f) : d = [temp |-> t, at |-> <<Entry(f), 0>>]
      BY <1>1
<1>2. CASE \E site \in Sites(f) : \E t \in Defs(StatementAt(f, site)) : d = [temp |-> t, at |-> site]
  <2>1. PICK site \in Sites(f) : \E t \in Defs(StatementAt(f, site)) : d = [temp |-> t, at |-> site]
        BY <1>2
  <2>2. PICK e \in Blocks(f) : \E j \in DOMAIN f.code[e] : site = <<e, j>>
        BY DEF Sites
  <2> QED
      BY <2>1, <2>2 DEF StatementAt
<1> QED
    BY <1>1, <1>2 DEF SsaDefs

\* The verifier on a use: the temp is a parameter, or its definition dominates.
LEMMA VerifiedUse ==
  ASSUME NEW f, VerifySsa(f, FlowOf(f)), NEW b \in Blocks(f), NEW i \in DOMAIN f.code[b],
         ~IsPhi(f.code[b][i]), NEW t \in Uses(f.code[b][i])
  PROVE  \/ t \in Params(f)
         \/ \E e \in Blocks(f) : \E j \in DOMAIN f.code[e] :
              /\ t \in Defs(f.code[e][j])
              /\ e \in FlowOf(f).dom[b]
              /\ e # b \/ j < i
<1>1. <<b, i>> \in Sites(f) /\ StatementAt(f, <<b, i>>) = f.code[b][i]
      BY DEF Sites, StatementAt
<1>2. UseOk(SsaDefs(f), FlowOf(f), t, <<b, i>>)
  <2>1. \A site \in Sites(f) : ~IsPhi(StatementAt(f, site)) =>
          \A u \in Uses(StatementAt(f, site)) : UseOk(SsaDefs(f), FlowOf(f), u, site)
        BY DEF VerifySsa
  <2> QED
      BY <1>1, <2>1
<1>3. PICK d \in SsaDefs(f) :
        d.temp = t /\ d.at[1] \in FlowOf(f).dom[b] /\ (d.at[1] # b \/ d.at[2] < i)
      BY <1>2 DEF UseOk
<1> QED
    BY <1>3, DefinitionSites

\* and on an argument of a phi: it does so for the predecessor of its edge.
LEMMA VerifiedPhi ==
  ASSUME NEW f, VerifySsa(f, FlowOf(f)), NEW b \in Blocks(f), NEW i \in DOMAIN f.code[b],
         IsPhi(f.code[b][i])
  PROVE  /\ IsInjective(f.code[b][i].labels)
         /\ ToSet(f.code[b][i].labels) = FlowOf(f).pred[b]
         /\ \A k \in DOMAIN f.code[b][i].src :
              \/ f.code[b][i].src[k].temp \in Params(f)
              \/ \E e \in Blocks(f) : \E j \in DOMAIN f.code[e] :
                   /\ f.code[b][i].src[k].temp \in Defs(f.code[e][j])
                   /\ e \in FlowOf(f).dom[f.code[b][i].labels[k]]
<1>1. <<b, i>> \in Sites(f) /\ StatementAt(f, <<b, i>>) = f.code[b][i]
      BY DEF Sites, StatementAt
<1>2. PhiOk(SsaDefs(f), FlowOf(f), f.code[b][i], b)
  <2>1. \A site \in Sites(f) : IsPhi(StatementAt(f, site)) =>
          PhiOk(SsaDefs(f), FlowOf(f), StatementAt(f, site), site[1])
        BY DEF VerifySsa
  <2>2. PhiOk(SsaDefs(f), FlowOf(f), StatementAt(f, <<b, i>>), <<b, i>>[1])
        BY <1>1, <2>1
  <2> QED
      BY <1>1, <2>2
<1>3. \A k \in DOMAIN f.code[b][i].src : \E d \in SsaDefs(f) :
        /\ d.temp = f.code[b][i].src[k].temp
        /\ d.at[1] \in FlowOf(f).dom[f.code[b][i].labels[k]]
      BY <1>2 DEF PhiOk
<1>4. IsInjective(f.code[b][i].labels) /\ ToSet(f.code[b][i].labels) = FlowOf(f).pred[b]
      BY <1>2 DEF PhiOk
<1>5. ASSUME NEW k \in DOMAIN f.code[b][i].src
      PROVE  \/ f.code[b][i].src[k].temp \in Params(f)
             \/ \E e \in Blocks(f) : \E j \in DOMAIN f.code[e] :
                  /\ f.code[b][i].src[k].temp \in Defs(f.code[e][j])
                  /\ e \in FlowOf(f).dom[f.code[b][i].labels[k]]
  <2>1. PICK d \in SsaDefs(f) :
          /\ d.temp = f.code[b][i].src[k].temp
          /\ d.at[1] \in FlowOf(f).dom[f.code[b][i].labels[k]]
        BY <1>3
  <2> QED
      BY <2>1, DefinitionSites
<1> QED
    BY <1>4, <1>5

\* What a run carries into a block: the parameters, what the phis of the block took
\* on the edge, and whatever is defined in a block that every way there passes.
DefsIn(f, b) == UNION {Defs(s) : s \in ToSet(f.code[b])}
PhiDefs(f, b) == {s.dst : s \in {p \in ToSet(f.code[b]) : IsPhi(p)}}

Carries(f, c) ==
  /\ IsConfiguration(c)
  /\ c.at \in Blocks(f)
  /\ Params(f) \cup PhiDefs(f, c.at) \subseteq DOMAIN c.env
  /\ \A d \in Blocks(f) \ {c.at} : DefsIn(f, d) \subseteq DOMAIN c.env \/ c.at \in ReachAvoiding(f, {d})

\* No read of the block, and none of a phi over the edge out of it, is of a temp
\* that was not assigned.
Reads(f, input, c) ==
  LET behind == AlongBlock(f, input, c)
      end == behind[Len(f.code[c.at])]
  IN /\ \A i \in DOMAIN f.code[c.at] :
          ~IsPhi(f.code[c.at][i]) => Uses(f.code[c.at][i]) \subseteq DOMAIN behind[i - 1].env
     /\ \A s \in ToSet(f.code[end.at]) : \A j \in DOMAIN s.labels :
          ~end.halted /\ IsPhi(s) /\ s.labels[j] = c.at => s.src[j].temp \in DOMAIN end.env

\* Along a block the frame only grows, by what its statements define.
LEMMA BlockFollows ==
  ASSUME NEW f, WellFormed(f), NEW input, NEW c, Carries(f, c), ~c.halted
  PROVE  LET W == AlongBlock(f, input, c)
             m == Len(f.code[c.at])
         IN /\ m \in Nat \ {0} /\ DOMAIN f.code[c.at] = 1 .. m
            /\ \A i \in 0 .. m :
                 /\ IsConfiguration(W[i])
                 /\ DOMAIN c.env \subseteq DOMAIN W[i].env
                 /\ \A j \in 1 .. i : Defs(f.code[c.at][j]) \subseteq DOMAIN W[i].env
            /\ IF W[m].halted THEN W[m].at = c.at ELSE W[m].at \in ToSet(f.code[c.at][m].labels)
<1> DEFINE b == c.at
           code == f.code[b]
           m == Len(code)
           W == AlongBlock(f, input, c)
<1>1. /\ m \in Nat \ {0} /\ DOMAIN code = 1 .. m
      /\ \A i \in 1 .. m : WellFormedStatement(f, code[i]) /\ (code[i].kind \in Leaving <=> i = m)
  <2>1. b \in Blocks(f)
        BY DEF Carries
  <2>2. code \in Seq(ToSet(code)) /\ code # <<>>
        BY <2>1 DEF WellFormed
  <2>3. m \in Nat /\ DOMAIN code = 1 .. m /\ m # 0
        BY <2>2
  <2> QED
      BY <2>1, <2>3 DEF WellFormed
<1>2. W[0] = c /\ \A i \in 1 .. m : W[i] = ExecStatement(input, W[i - 1], code[i])
  <2>1. Len(f.code[c.at]) \in Nat
        BY <1>1
  <2> QED
      BY <2>1, BehindFacts
<1>3. \A i \in 1 .. m : IsPhi(code[i]) => Defs(code[i]) \subseteq DOMAIN c.env
  <2> SUFFICES ASSUME NEW i \in 1 .. m, IsPhi(code[i]) PROVE Defs(code[i]) \subseteq DOMAIN c.env
      OBVIOUS
  <2>1. code[i] \in ToSet(code)
        BY <1>1 DEF ToSet
  <2>2. code[i].dst \in PhiDefs(f, b)
        BY <2>1 DEF PhiDefs
  <2> QED
      BY <2>2 DEF Carries, Defs
<1>4. IsConfiguration(c)
      BY DEF Carries
<1> HIDE DEF W, m, code
<1> DEFINE Good(i) == /\ IsConfiguration(W[i])
                      /\ DOMAIN c.env \subseteq DOMAIN W[i].env
                      /\ \A j \in 1 .. i : Defs(code[j]) \subseteq DOMAIN W[i].env
                      /\ i # m => W[i].at = b /\ ~W[i].halted
<1>5. ASSUME NEW i \in 1 .. m, Good(i - 1)
      PROVE  Good(i) /\ Leads(f, W[i - 1], code[i], W[i])
  <2>1. Leads(f, W[i - 1], code[i], W[i])
        BY <1>1, <1>2, <1>5, StatementLeads
  <2>2. i - 1 \in Int /\ i - 1 # m /\ i \in Nat
        BY <1>1
  <2>3. W[i - 1].at = b /\ ~W[i - 1].halted /\ DOMAIN W[i - 1].env \subseteq DOMAIN W[i].env
        BY <1>5, <2>1, <2>2 DEF Leads
  <2>4. Defs(code[i]) \subseteq DOMAIN W[i].env
        BY <1>3, <1>5, <2>1, <2>3 DEF Leads
  <2>5. \A j \in 1 .. i : Defs(code[j]) \subseteq DOMAIN W[i].env
    <3> SUFFICES ASSUME NEW j \in 1 .. i, j # i PROVE Defs(code[j]) \subseteq DOMAIN W[i].env
        BY <2>4
    <3>1. j \in 1 .. i - 1
          BY <2>2
    <3> QED
        BY <1>5, <2>3, <3>1
  <2>6. i # m => W[i].at = b /\ ~W[i].halted
        BY <1>1, <2>1, <2>3 DEF Leads
  <2> QED
      BY <1>5, <2>1, <2>3, <2>5, <2>6 DEF Leads
<1>6. \A i \in 0 .. m : Good(i)
  <2> DEFINE T == {i \in 0 .. m : ~Good(i)}
  <2>1. ASSUME T # {} PROVE FALSE
    <3>1. T \in SUBSET Nat
          BY <1>1
    <3>2. PICK l \in T : \A j \in T : l <= j
      <4> HIDE DEF T
      <4> QED
          BY <2>1, <3>1, LeastElement
    <3>3. Good(0)
          BY <1>2, <1>4
    <3>4. l \in 1 .. m /\ l - 1 \in 0 .. m /\ l - 1 \notin T
      <4>1. l \in 0 .. m /\ l # 0
            BY <3>3
      <4> HIDE DEF T
      <4> QED
          BY <1>1, <3>2, <4>1
    <3>5. Good(l - 1)
          BY <3>4
    <3>6. Good(l)
      <4> HIDE DEF Good
      <4> QED
          BY <1>5, <3>4, <3>5
    <3> QED
        BY <3>2, <3>6
  <2> QED
      BY <2>1
<1>7. IF W[m].halted THEN W[m].at = b ELSE W[m].at \in ToSet(code[m].labels)
  <2>1. m \in 1 .. m /\ m - 1 \in 0 .. m /\ m - 1 # m
        BY <1>1
  <2>2. Leads(f, W[m - 1], code[m], W[m]) /\ W[m - 1].at = b /\ ~W[m - 1].halted
          /\ code[m].kind \in Leaving
        BY <1>1, <1>5, <1>6, <2>1
  <2> QED
      BY <2>2 DEF Leads
<1> QED
    BY <1>1, <1>6, <1>7 DEF W, m, code

\* A block that is run reads nothing unassigned and hands on what the next may read.
LEMMA BlockReads ==
  ASSUME NEW f, WellFormed(f), VerifySsa(f, FlowOf(f)), NEW input, NEW c, Carries(f, c), ~c.halted
  PROVE  Reads(f, input, c) /\ Carries(f, ExecBlock(f, input, c))
<1> DEFINE b == c.at
           code == f.code[b]
           m == Len(code)
           W == AlongBlock(f, input, c)
           e == W[m]
<1>1. /\ m \in Nat \ {0} /\ DOMAIN code = 1 .. m
      /\ \A i \in 0 .. m : IsConfiguration(W[i]) /\ DOMAIN c.env \subseteq DOMAIN W[i].env
      /\ \A i \in 0 .. m : \A j \in 1 .. i : Defs(code[j]) \subseteq DOMAIN W[i].env
      /\ IF e.halted THEN e.at = b ELSE e.at \in ToSet(code[m].labels)
      BY BlockFollows
<1>2. b \in Blocks(f) /\ Params(f) \subseteq DOMAIN c.env
        /\ \A d \in Blocks(f) \ {b} : DefsIn(f, d) \subseteq DOMAIN c.env \/ b \in ReachAvoiding(f, {d})
      BY DEF Carries
<1>3. ExecBlock(f, input, c) = IF e.halted THEN e ELSE ExecPhis(f, e, b)
      BY DEF ExecBlock, BlockBy, AlongBlock
<1>4. \A d \in Blocks(f) : \A j \in DOMAIN f.code[d] : Defs(f.code[d][j]) \subseteq DefsIn(f, d)
      BY DEF DefsIn, ToSet
<1>5. Exits(f, b) = ToSet(code[m].labels)
      BY DEF Exits, Last
\* what dominates the block has been assigned
<1>6. ASSUME NEW d \in Blocks(f), d \in FlowOf(f).dom[b], d # b
      PROVE  DefsIn(f, d) \subseteq DOMAIN c.env
      BY <1>2, <1>6, DominatorsOnWay
<1> HIDE DEF W, e
<1>7. ASSUME NEW i \in DOMAIN code, ~IsPhi(code[i]), NEW t \in Uses(code[i])
      PROVE  t \in DOMAIN W[i - 1].env
  <2>1. i \in 1 .. m /\ i - 1 \in 0 .. m
        BY <1>1
  <2>2. CASE t \in Params(f)
        BY <1>1, <1>2, <2>1, <2>2
  <2>3. CASE \E d \in Blocks(f) : \E j \in DOMAIN f.code[d] :
               /\ t \in Defs(f.code[d][j])
               /\ d \in FlowOf(f).dom[b]
               /\ d # b \/ j < i
    <3>1. PICK d \in Blocks(f) : \E j \in DOMAIN f.code[d] :
               /\ t \in Defs(f.code[d][j])
               /\ d \in FlowOf(f).dom[b]
               /\ d # b \/ j < i
          BY <2>3
    <3>2. PICK j \in DOMAIN f.code[d] :
               /\ t \in Defs(f.code[d][j])
               /\ d \in FlowOf(f).dom[b]
               /\ d # b \/ j < i
          BY <3>1
    <3>3. CASE d # b
          BY <1>1, <1>4, <1>6, <2>1, <3>2, <3>3
    <3>4. CASE d = b
      <4>1. j \in 1 .. i - 1
            BY <1>1, <2>1, <3>2, <3>4
      <4> QED
          BY <1>1, <2>1, <3>2, <3>4, <4>1
    <3> QED
        BY <3>3, <3>4
  <2> QED
      BY <1>2, <1>7, <2>2, <2>3, VerifiedUse
\* so has, behind the block, what dominates it or is defined in it
<1>8. m \in 0 .. m /\ DefsIn(f, b) \subseteq DOMAIN e.env /\ DOMAIN c.env \subseteq DOMAIN e.env
        /\ IsConfiguration(e)
  <2>1. m \in 0 .. m
        BY <1>1
  <2>2. \A j \in DOMAIN code : Defs(code[j]) \subseteq DOMAIN e.env
        BY <1>1, <2>1 DEF e
  <2> QED
      BY <1>1, <2>1, <2>2 DEF DefsIn, ToSet, e
<1>9. e.at \in Blocks(f) /\ (~e.halted => e.at \in Exits(f, b) /\ b \in FlowOf(f).pred[e.at])
  <2>1. WellFormedStatement(f, code[m]) /\ code[m].kind \in Leaving
        BY <1>1, <1>2 DEF WellFormed
  <2>2. e.at \in Blocks(f)
        BY <1>1, <1>2, <2>1 DEF WellFormedStatement
  <2>3. ASSUME ~e.halted PROVE e.at \in Exits(f, b) /\ b \in FlowOf(f).pred[e.at]
    <3>1. e.at \in Exits(f, b)
          BY <1>1, <1>5, <2>3
    <3> QED
        BY <1>2, <2>2, <3>1 DEF FlowOf
  <2> QED
      BY <2>2, <2>3
<1>10. ASSUME ~e.halted, NEW s \in ToSet(f.code[e.at]), IsPhi(s),
              NEW k \in DOMAIN s.labels, s.labels[k] = b
       PROVE  s.src[k].temp \in DOMAIN e.env
  <2>1. PICK i \in DOMAIN f.code[e.at] : s = f.code[e.at][i]
        BY DEF ToSet
  <2>2. WellFormedStatement(f, s) /\ s.kind = "PHI"
        BY <1>9, <1>10, <2>1 DEF WellFormed, IsPhi
  <2>3. k \in DOMAIN s.src
        BY <2>2 DEF WellFormedStatement
  <2>4. \/ s.src[k].temp \in Params(f)
        \/ \E d \in Blocks(f) : \E j \in DOMAIN f.code[d] :
             s.src[k].temp \in Defs(f.code[d][j]) /\ d \in FlowOf(f).dom[b]
    <3>1. IsPhi(f.code[e.at][i]) /\ e.at \in Blocks(f) /\ k \in DOMAIN f.code[e.at][i].src
            /\ f.code[e.at][i].labels[k] = b
          BY <1>9, <1>10, <2>1, <2>3
    <3> DEFINE phi == f.code[e.at][i]
    <3>2. \/ phi.src[k].temp \in Params(f)
          \/ \E d \in Blocks(f) : \E j \in DOMAIN f.code[d] :
               phi.src[k].temp \in Defs(f.code[d][j]) /\ d \in FlowOf(f).dom[phi.labels[k]]
          BY <3>1, VerifiedPhi
    <3>3. s = phi /\ phi.labels[k] = b
          BY <2>1, <3>1
    <3> HIDE DEF phi, b
    <3> QED
        BY <3>2, <3>3
  <2>5. CASE s.src[k].temp \in Params(f)
        BY <1>2, <1>8, <2>5
  <2>6. ASSUME NEW d \in Blocks(f), NEW j \in DOMAIN f.code[d],
               s.src[k].temp \in Defs(f.code[d][j]), d \in FlowOf(f).dom[b]
        PROVE  s.src[k].temp \in DOMAIN e.env
    <3>1. s.src[k].temp \in DefsIn(f, d)
          BY <1>4, <2>6
    <3>2. DefsIn(f, d) \subseteq DOMAIN e.env
          BY <1>6, <1>8, <2>6
    <3> QED
        BY <3>1, <3>2
  <2> QED
      BY <2>4, <2>5, <2>6
<1>11. Reads(f, input, c)
       BY <1>7, <1>10 DEF Reads, W, e
<1>12. ASSUME e.halted PROVE Carries(f, e)
  <2>1. e.at = b
        BY <1>1, <1>12
  <2>2. Params(f) \cup PhiDefs(f, b) \subseteq DOMAIN c.env
        BY DEF Carries
  <2> HIDE DEF b
  <2> QED
      BY <1>2, <1>8, <2>1, <2>2 DEF Carries
<1>13. ASSUME ~e.halted PROVE Carries(f, ExecPhis(f, e, b))
  <2> DEFINE taken == {s \in ToSet(f.code[e.at]) : IsPhi(s) /\ b \in ToSet(s.labels)}
             Of(t) == CHOOSE s \in taken : s.dst = t
             Place(s) == CHOOSE j \in DOMAIN s.labels : s.labels[j] = b
             set == {s.dst : s \in taken}
             env == [t \in DOMAIN e.env \cup set |->
                       IF t \in set THEN Value(e.env, Of(t).src[Place(Of(t))]) ELSE e.env[t]]
             d == ExecPhis(f, e, b)
  <2>1. d = [e EXCEPT !.env = env]
        BY DEF ExecPhis
  <2>2. DOMAIN env = DOMAIN e.env \cup set
        OBVIOUS
  <2>3. PhiDefs(f, e.at) \subseteq set
    <3> SUFFICES ASSUME NEW s \in ToSet(f.code[e.at]), IsPhi(s) PROVE s \in taken
        BY DEF PhiDefs
    <3>1. PICK i \in DOMAIN f.code[e.at] : s = f.code[e.at][i]
          BY DEF ToSet
    <3>2. ToSet(s.labels) = FlowOf(f).pred[e.at]
          BY <1>9, <3>1, VerifiedPhi
    <3> QED
        BY <1>9, <1>13, <3>2
  <2> HIDE DEF env, d
  <2>4. IsConfiguration(d) /\ d.at = e.at /\ d.env = env
        BY <1>8, <2>1 DEF IsConfiguration
  <2> HIDE DEF set, b
  <2>5. Params(f) \cup PhiDefs(f, d.at) \subseteq DOMAIN d.env
        BY <1>2, <1>8, <2>2, <2>3, <2>4
  <2>6. ASSUME NEW a \in Blocks(f) \ {d.at}
        PROVE  DefsIn(f, a) \subseteq DOMAIN d.env \/ d.at \in ReachAvoiding(f, {a})
    <3>1. CASE a = b
          BY <1>8, <2>2, <2>4, <3>1
    <3>2. CASE a # b /\ b \in ReachAvoiding(f, {a})
      <4>1. (Exits(f, b) \cap Blocks(f)) \ {a} \subseteq ReachAvoiding(f, {a})
            BY <3>2, WalkLimit
      <4> QED
          BY <1>9, <1>13, <2>4, <2>6, <4>1
    <3>3. CASE a # b /\ DefsIn(f, a) \subseteq DOMAIN c.env
          BY <1>8, <2>2, <2>4, <3>3
    <3> QED
        BY <1>2, <3>1, <3>2, <3>3
  <2>7. Carries(f, d)
        BY <1>9, <2>4, <2>5, <2>6 DEF Carries
  <2> QED
      BY <2>7 DEF d
<1> QED
    BY <1>3, <1>11, <1>12, <1>13

LEMMA StartCarries ==
  ASSUME NEW f, WellFormed(f), NEW input
  PROVE  Carries(f, Start(f, input))
<1> DEFINE c == Start(f, input)
           Arg(t) == input.args[CHOOSE i \in DOMAIN f.params : f.params[i] = t]
<1>1. c = [at |-> Entry(f), halted |-> FALSE, trace |-> <<>>, env |-> [t \in ToSet(f.params) |-> Arg(t)]]
      BY DEF Start
<1> HIDE DEF c, Arg
<1>2. IsConfiguration(c) /\ c.at = Entry(f) /\ DOMAIN c.env = Params(f)
      BY <1>1 DEF IsConfiguration, Params
<1>3. Entry(f) \in Blocks(f)
      BY DEF WellFormed, Entry
<1>4. PhiDefs(f, Entry(f)) = {}
      BY DEF PhiDefs, WellFormed, ToSet
<1>5. \A d \in Blocks(f) \ {Entry(f)} : Entry(f) \in ReachAvoiding(f, {d})
      BY WalkLimit
<1>6. Carries(f, c)
      BY <1>2, <1>3, <1>4, <1>5 DEF Carries
<1> QED
    BY <1>6 DEF c

\* A function that verifySsaFunction accepts reads nothing unassigned, however it runs.
THEOREM VerifiedReads ==
  ASSUME NEW f, WellFormed(f), VerifySsa(f, FlowOf(f)), NEW input, NEW n \in Nat
  PROVE  ReadsAssigned(f, input, n)
<1> DEFINE R == After(f, input, n)
           T == {k \in 0 .. n : ~Carries(f, R[k])}
<1>1. R[0] = Start(f, input) /\ \A i \in 1 .. n : R[i] = Onward(f, input, R[i - 1])
      BY AfterFacts
<1>2. Configurations(f, input, n) = {R[k] : k \in 0 .. n}
      BY DEF Configurations
<1> HIDE DEF R
<1>3. ASSUME T # {} PROVE FALSE
  <2>1. T \in SUBSET Nat
        OBVIOUS
  <2>2. PICK l \in T : \A j \in T : l <= j
    <3> HIDE DEF T
    <3> QED
        BY <1>3, <2>1, LeastElement
  <2>3. l # 0
        BY <1>1, <2>2, StartCarries
  <2>4. l \in 1 .. n /\ l - 1 \in 0 .. n /\ l - 1 \notin T
    <3>1. l \in 0 .. n
          OBVIOUS
    <3> HIDE DEF T
    <3> QED
        BY <2>2, <2>3, <3>1
  <2>5. Carries(f, R[l - 1])
        BY <2>4
  <2>6. R[l] = IF R[l - 1].halted THEN R[l - 1] ELSE ExecBlock(f, input, R[l - 1])
        BY <1>1, <2>4 DEF Onward
  <2>7. Carries(f, R[l])
        BY <2>5, <2>6, BlockReads
  <2> QED
      BY <2>2, <2>7
<1>4. \A c \in Configurations(f, input, n) : ~c.halted => Reads(f, input, c)
      BY <1>2, <1>3, BlockReads
<1> QED
    BY <1>4 DEF ReadsAssigned, Reads

\* So the conclusions of the sweeps cover the runs of whatever the verifier accepts.
THEOREM VerifiedCovering ==
  Spec => [](RunsOnWords(ssa) /\ VerifySsa(ssa, FlowOf(ssa)) => ValuesCover)
<1>1. SweepInv /\ VerifySsa(ssa, FlowOf(ssa)) => RunsReadAssigned(ssa) \/ stage # "modify"
      BY RunAssumption, VerifiedReads DEF SweepInv, RunsReadAssigned
<1>2. stage # "modify" => ValuesCover
      BY DEF ValuesCover
<1> QED
    BY <1>1, <1>2, Covering, SweepsInvariant, PTL

-----------------------------------------------------------------------------
\* The function that modifyFunc builds.  What holds when it begins: the sweeps are over,
\* and the function is in SSA form with its temps numbered.
Ready ==
  /\ SweepInv
  /\ stage = "modify"
  /\ VerifySsa(ssa, FlowOf(ssa))
  /\ Numbered(ssa)

LEMMA ReadyFacts ==
  ASSUME Ready
  PROVE  /\ WellFormed(ssa) /\ Known \in Knowledge /\ VerifySsa(ssa, FlowOf(ssa))
         /\ value \in [Temps(ssa) -> Lattice] /\ executable \subseteq Blocks(ssa)
         /\ Entry(ssa) \in executable
         /\ \A b \in Blocks(ssa) : Quiet(b)
         /\ ssa.lastTemp \in Nat /\ Temps(ssa) \subseteq 0 .. ssa.lastTemp
BY DEF Ready, SweepInv, Known, Knowledge, Numbered

\* In SSA form a temp is defined in one place, and a parameter nowhere.
LEMMA DefinedOnce ==
  ASSUME NEW f, WellFormed(f), VerifySsa(f, FlowOf(f)),
         NEW b \in Blocks(f), NEW i \in DOMAIN f.code[b], NEW t \in Defs(f.code[b][i])
  PROVE  /\ t \notin Params(f)
         /\ \A e \in Blocks(f) : \A j \in DOMAIN f.code[e] : t \in Defs(f.code[e][j]) => e = b /\ j = i
<1>1. \A d, e \in SsaDefs(f) : d.temp = e.temp => d = e
      BY DEF VerifySsa
<1>2. ASSUME NEW e \in Blocks(f), NEW j \in DOMAIN f.code[e], t \in Defs(f.code[e][j])
      PROVE  [temp |-> t, at |-> <<e, j>>] \in SsaDefs(f)
  <2>1. <<e, j>> \in Sites(f) /\ StatementAt(f, <<e, j>>) = f.code[e][j]
        BY DEF Sites, StatementAt
  <2> QED
      BY <1>2, <2>1 DEF SsaDefs
<1>3. ASSUME NEW e \in Blocks(f), NEW j \in DOMAIN f.code[e], t \in Defs(f.code[e][j])
      PROVE  e = b /\ j = i
  <2>1. [temp |-> t, at |-> <<e, j>>] \in SsaDefs(f) /\ [temp |-> t, at |-> <<b, i>>] \in SsaDefs(f)
        BY <1>2, <1>3
  <2>2. [temp |-> t, at |-> <<e, j>>] = [temp |-> t, at |-> <<b, i>>]
        BY <1>1, <2>1
  <2>3. <<e, j>> = <<b, i>>
        BY <2>2
  <2> QED
      BY <2>3
<1>4. ASSUME t \in Params(f) PROVE FALSE
  <2>1. [temp |-> t, at |-> <<Entry(f), 0>>] \in SsaDefs(f) /\ [temp |-> t, at |-> <<b, i>>] \in SsaDefs(f)
        BY <1>2, <1>4 DEF SsaDefs
  <2>2. [temp |-> t, at |-> <<Entry(f), 0>>] = [temp |-> t, at |-> <<b, i>>]
        BY <1>1, <2>1
  <2>3. <<Entry(f), 0>> = <<b, i>>
        BY <2>2
  <2>4. i # 0
    <3>1. f.code[b] \in Seq(ToSet(f.code[b]))
          BY DEF WellFormed
    <3> QED
        BY <3>1
  <2> QED
      BY <2>3, <2>4
<1> QED
    BY <1>3, <1>4

\* What a fresh temp is made for: a constant, and the block it flows out of.
Constants == {r \in [src : Temps(ssa), pred : Blocks(ssa)] : IsOne(value[r.src])}

ConstantFor(s, j) == [src |-> s.src[j].temp, pred |-> s.labels[j]]

\* Each constant that flows into s is among cs.
Provided(cs, s, b) ==
  IsPhi(s) /\ value[s.dst] = ManyValues =>
    \A j \in DOMAIN s.src : Edge(s.labels[j], b) /\ IsOne(value[s.src[j].temp]) =>
      \E n \in 1 .. Len(cs) : cs[n] = ConstantFor(s, j)

LEMMA ProvidedFrom ==
  ASSUME NEW cs, NEW s, NEW b, Provided(cs, s, b), NEW ds,
         \A k \in 1 .. Len(cs) : \E n \in 1 .. Len(ds) : ds[n] = cs[k]
  PROVE  Provided(ds, s, b)
<1> SUFFICES ASSUME IsPhi(s), value[s.dst] = ManyValues,
                    NEW j \in DOMAIN s.src, Edge(s.labels[j], b), IsOne(value[s.src[j].temp])
             PROVE  \E n \in 1 .. Len(ds) : ds[n] = ConstantFor(s, j)
    BY DEF Provided
<1>1. PICK k \in 1 .. Len(cs) : cs[k] = ConstantFor(s, j)
      BY Zenon DEF Provided
<1>2. PICK n \in 1 .. Len(ds) : ds[n] = cs[k]
      BY <1>1, Zenon
<1> QED
    BY <1>1, <1>2, Zenon

\* A function on 1 .. n is a sequence.
LEMMA SequenceOf ==
  ASSUME NEW S, NEW n \in Nat, NEW s, s = [i \in 1 .. n |-> s[i]], \A i \in 1 .. n : s[i] \in S
  PROVE  s \in Seq(S) /\ Len(s) = n /\ DOMAIN s = 1 .. n
<1>1. s \in [1 .. n -> S]
      OBVIOUS
<1> QED
    BY <1>1

LEMMA StatementConstants ==
  ASSUME Ready, NEW b \in Blocks(ssa), NEW i \in DOMAIN ssa.code[b]
  PROVE  /\ ConstantsOf(ssa.code[b][i], b) \in Seq(Constants)
         /\ Provided(ConstantsOf(ssa.code[b][i], b), ssa.code[b][i], b)
<1> DEFINE s == ssa.code[b][i]
           I == {j \in DOMAIN s.src : Edge(s.labels[j], b) /\ IsOne(value[s.src[j].temp])}
           hits == Ascending(I)
           cs == ConstantsOf(s, b)
           m == Cardinality(I)
<1>1. cs = IF IsPhi(s) /\ value[s.dst] = ManyValues
           THEN [h \in DOMAIN hits |-> ConstantFor(s, hits[h])] ELSE <<>>
      BY DEF ConstantsOf, ConstantFor
<1>2. GoodStatement(s)
      BY ReadyFacts, GoodStatements
<1> HIDE DEF s, hits, cs
<1>3. CASE IsPhi(s) /\ value[s.dst] = ManyValues
  <2>1. /\ DOMAIN s.src = 1 .. Len(s.src) /\ Len(s.src) \in Nat
        /\ \A j \in DOMAIN s.src : IsTemp(s.src[j]) /\ s.src[j].temp \in Temps(ssa)
    <3>1. WellFormedStatement(ssa, s) /\ s.kind = "PHI" /\ Uses(s) \subseteq Temps(ssa)
          BY <1>2, <1>3 DEF GoodStatement, IsPhi
    <3> QED
        BY <3>1 DEF WellFormedStatement, Uses, ToSet
  <2>2. I \in SUBSET Int /\ IsFiniteSet(I)
    <3>1. I \subseteq 1 .. Len(s.src)
          BY <2>1
    <3>2. Len(s.src) \in Int /\ 1 \in Int
          BY <2>1
    <3>3. IsFiniteSet(1 .. Len(s.src)) /\ 1 .. Len(s.src) \subseteq Int
          BY <3>2, FS_Interval
    <3> HIDE DEF I
    <3>4. IsFiniteSet(I)
          BY <3>1, <3>3, FS_Subset
    <3> QED
        BY <3>1, <3>3, <3>4
  <2>3. m \in Nat /\ hits \in [1 .. m -> I] /\ \A j \in I : \E k \in 1 .. m : hits[k] = j
    <3> HIDE DEF I
    <3> QED
        BY <2>2, AscendingFacts DEF hits
  <2>4. cs = [h \in 1 .. m |-> ConstantFor(s, hits[h])]
        BY <1>1, <1>3, <2>3
  <2>5. \A j \in I : ConstantFor(s, j) \in Constants
    <3> SUFFICES ASSUME NEW j \in I PROVE ConstantFor(s, j) \in Constants
        OBVIOUS
    <3>1. s.labels[j] \in Blocks(ssa)
          BY ReadyFacts DEF Edge, IsEdgeExecutable
    <3> QED
        BY <2>1, <3>1 DEF Constants, ConstantFor
  <2>6. cs \in Seq(Constants) /\ Len(cs) = m
    <3> HIDE DEF I, m
    <3> QED
        BY <2>3, <2>4, <2>5
  <2>7. \A j \in I : \E n \in 1 .. m : cs[n] = ConstantFor(s, j)
    <3> HIDE DEF I, m
    <3> QED
        BY <2>3, <2>4
  <2> QED
      BY <2>6, <2>7 DEF Provided, s, cs
<1>4. CASE ~ (IsPhi(s) /\ value[s.dst] = ManyValues)
  <2>0. <<>> \in Seq(Constants)
        OBVIOUS
  <2>1. cs = <<>> /\ <<>> \in Seq(Constants)
        BY <1>1, <1>4, <2>0, Zenon
  <2>2. Provided(cs, s, b)
        BY <1>4, Zenon DEF Provided
  <2> QED
      BY <2>1, <2>2 DEF s, cs
<1> QED
    BY <1>3, <1>4

\* The pieces of a flattened sequence are found in it.
LEMMA FlattenKeeps ==
  ASSUME NEW S, NEW ss \in Seq(Seq(S)), ss # <<>>
  PROVE  /\ FlattenSeq(ss) \in Seq(S)
         /\ \A i \in 1 .. Len(ss) : \A k \in 1 .. Len(ss[i]) :
              \E n \in 1 .. Len(FlattenSeq(ss)) : FlattenSeq(ss)[n] = ss[i][k]
<1>1. PICK p : Splits(FlattenSeq(ss), ss, p, S)
      BY FlattenFacts
<1> DEFINE r == FlattenSeq(ss)
<1> HIDE DEF r
<1>2. r \in Seq(S) /\ \A i \in 1 .. Len(ss) : \A k \in 1 .. Len(ss[i]) :
        p[i - 1] + k \in 1 .. Len(r) /\ r[p[i - 1] + k] = ss[i][k]
      BY <1>1 DEF Splits, r
<1> QED
    BY <1>2 DEF r

LEMMA AllConstants ==
  ASSUME Ready
  PROVE  /\ PhiConstants \in Seq(Constants)
         /\ \A b \in executable : \A i \in DOMAIN ssa.code[b] : Provided(PhiConstants, ssa.code[b][i], b)
<1> DEFINE In(b) == [i \in DOMAIN ssa.code[b] |-> ConstantsOf(ssa.code[b][i], b)]
           OfBlock(b) == FlattenSeq(In(b))
           pieces == [i \in DOMAIN ssa.order |->
                        IF ssa.order[i] \in executable THEN OfBlock(ssa.order[i]) ELSE <<>>]
<1>1. PhiConstants = FlattenSeq(pieces)
      BY DEF PhiConstants
<1>2. ASSUME NEW b \in Blocks(ssa)
      PROVE  /\ OfBlock(b) \in Seq(Constants)
             /\ \A i \in DOMAIN ssa.code[b] : Provided(OfBlock(b), ssa.code[b][i], b)
  <2>1. ssa.code[b] \in Seq(ToSet(ssa.code[b])) /\ ssa.code[b] # <<>>
        BY ReadyFacts DEF WellFormed
  <2> DEFINE m == Len(ssa.code[b])
  <2>2. m \in Nat \ {0} /\ DOMAIN ssa.code[b] = 1 .. m
        BY <2>1
  <2>3. \A i \in 1 .. m : In(b)[i] = ConstantsOf(ssa.code[b][i], b) /\ In(b)[i] \in Seq(Constants)
                            /\ Provided(In(b)[i], ssa.code[b][i], b)
        BY <2>2, StatementConstants
  <2>4. In(b) = [i \in 1 .. m |-> In(b)[i]]
        BY <2>2
  <2> DEFINE ss == In(b)
  <2> HIDE DEF In, m
  <2>5. ss \in Seq(Seq(Constants)) /\ ss # <<>> /\ Len(ss) = m
        BY <2>2, <2>3, <2>4
  <2> HIDE DEF ss
  <2>6. /\ FlattenSeq(ss) \in Seq(Constants)
        /\ \A i \in 1 .. Len(ss) : \A k \in 1 .. Len(ss[i]) :
             \E n \in 1 .. Len(FlattenSeq(ss)) : FlattenSeq(ss)[n] = ss[i][k]
        BY <2>5, FlattenKeeps
  <2>7. ASSUME NEW i \in DOMAIN ssa.code[b] PROVE Provided(FlattenSeq(ss), ssa.code[b][i], b)
    <3>1. i \in 1 .. m /\ Provided(ss[i], ssa.code[b][i], b)
          BY <2>2, <2>3 DEF ss
    <3> QED
        BY <2>5, <2>6, <3>1, ProvidedFrom
  <2> QED
      BY <2>6, <2>7 DEF ss
<1>3. ssa.order \in Seq(Blocks(ssa)) /\ ssa.order # <<>>
      BY ReadyFacts DEF WellFormed
<1> HIDE DEF OfBlock
<1>4. pieces \in Seq(Seq(Constants)) /\ pieces # <<>> /\ Len(pieces) = Len(ssa.order)
  <2>1. Len(ssa.order) \in Nat \ {0} /\ DOMAIN ssa.order = 1 .. Len(ssa.order)
          /\ \A i \in 1 .. Len(ssa.order) : ssa.order[i] \in Blocks(ssa)
        BY <1>3
  <2>2. <<>> \in Seq(Constants)
        OBVIOUS
  <2>3. \A i \in 1 .. Len(ssa.order) : pieces[i] \in Seq(Constants)
        BY <1>2, <2>1, <2>2
  <2>4. pieces = [i \in 1 .. Len(ssa.order) |-> pieces[i]]
        BY <2>1
  <2>5. Len(ssa.order) \in Nat
        BY <2>1
  <2> HIDE DEF pieces
  <2> DEFINE S == Seq(Constants)
  <2> HIDE DEF S
  <2>6. pieces \in Seq(S) /\ Len(pieces) = Len(ssa.order)
    <3>1. \A i \in 1 .. Len(ssa.order) : pieces[i] \in S
          BY <2>3 DEF S
    <3> QED
        BY <2>4, <2>5, <3>1, SequenceOf
  <2> QED
      BY <2>1, <2>6 DEF S
<1>5. \A j \in DOMAIN ssa.order : ssa.order[j] \in executable => pieces[j] = OfBlock(ssa.order[j])
      OBVIOUS
<1> HIDE DEF pieces
<1>6. /\ PhiConstants \in Seq(Constants)
      /\ \A i \in 1 .. Len(pieces) : \A k \in 1 .. Len(pieces[i]) :
           \E n \in 1 .. Len(PhiConstants) : PhiConstants[n] = pieces[i][k]
  <2>1. /\ FlattenSeq(pieces) \in Seq(Constants)
        /\ \A i \in 1 .. Len(pieces) : \A k \in 1 .. Len(pieces[i]) :
             \E n \in 1 .. Len(FlattenSeq(pieces)) : FlattenSeq(pieces)[n] = pieces[i][k]
        BY <1>4, FlattenKeeps
  <2> QED
      BY <1>1, <2>1, Zenon
<1>7. ASSUME NEW b \in executable, NEW i \in DOMAIN ssa.code[b]
      PROVE  Provided(PhiConstants, ssa.code[b][i], b)
  <2>1. b \in Blocks(ssa)
        BY ReadyFacts
  <2>2. PICK j \in DOMAIN ssa.order : ssa.order[j] = b
        BY <2>1 DEF Blocks, ToSet
  <2>3. pieces[j] = OfBlock(b) /\ j \in 1 .. Len(pieces)
    <3>1. DOMAIN ssa.order = 1 .. Len(ssa.order)
          BY <1>3
    <3> QED
        BY <1>4, <1>5, <2>2, <3>1
  <2>4. Provided(pieces[j], ssa.code[b][i], b)
        BY <1>2, <2>1, <2>3
  <2>5. \A k \in 1 .. Len(pieces[j]) : \E n \in 1 .. Len(PhiConstants) : PhiConstants[n] = pieces[j][k]
        BY <1>6, <2>3
  <2> QED
      BY <2>4, <2>5 DEF Provided
<1> QED
    BY <1>6, <1>7


\* The temp that a kept argument reads: the argument itself, or the one that was made
\* for it.
LEMMA SubstituteFacts ==
  ASSUME Ready, NEW t, NEW a
  PROVE  \/ /\ Substitute(t, a) = t
            /\ \A n \in 1 .. Len(PhiConstants) : PhiConstants[n] # [src |-> t, pred |-> a]
         \/ \E n \in 1 .. Len(PhiConstants) :
              PhiConstants[n] = [src |-> t, pred |-> a] /\ Substitute(t, a) = ssa.lastTemp + n
<1> DEFINE cs == PhiConstants
           made == {n \in DOMAIN cs : cs[n] = [src |-> t, pred |-> a]}
<1>1. Substitute(t, a) = IF made = {} THEN t ELSE ssa.lastTemp + Max(made)
      BY Zenon DEF Substitute
<1>2. cs \in Seq(Constants)
      BY AllConstants
<1> HIDE DEF cs
<1>3. Len(cs) \in Nat /\ DOMAIN cs = 1 .. Len(cs)
      BY <1>2
<1>4. CASE made = {}
      BY <1>1, <1>3, <1>4 DEF cs
<1>5. CASE made # {}
  <2>1. made \subseteq 1 .. Len(cs)
        BY <1>3
  <2>2. IsFiniteSet(1 .. Len(cs))
    <3> DEFINE l == Len(cs)
    <3>1. l \in Int /\ 1 \in Int
          BY <1>3
    <3> HIDE DEF l
    <3>2. IsFiniteSet(1 .. l)
          BY <3>1, FS_Interval
    <3> QED
        BY <3>2 DEF l
  <2> HIDE DEF made
  <2>3. IsFiniteSet(made) /\ made \in SUBSET Nat
    <3>1. IsFiniteSet(made)
          BY <2>1, <2>2, FS_Subset
    <3>2. made \subseteq Nat
          BY <1>3, <2>1
    <3> QED
        BY <3>1, <3>2
  <2>4. \E p \in made : \A q \in made : q <= p
        BY <1>5, <2>3, GreatestElement
  <2>5. \E p \in made : \A q \in made : p >= q
        BY <2>3, <2>4
  <2>6. Max(made) \in made
        BY <2>5, Zenon DEF Max
  <2>7. Max(made) \in 1 .. Len(cs) /\ cs[Max(made)] = [src |-> t, pred |-> a]
        BY <2>1, <2>6 DEF made
  <2> QED
      BY <1>1, <1>5, <2>7 DEF cs
<1> QED
    BY <1>4, <1>5

\* The arguments of a phi whose edges are executable, and the phi that has one only: it
\* becomes a move of what stands for that argument.
KeptOf(s, b) == {k \in DOMAIN s.src : Edge(s.labels[k], b)}
StandIn(s, k) == Temp(Substitute(s.src[k].temp, s.labels[k]))
Single(s, b, k) == IsPhi(s) /\ ~Folded(s) /\ KeptOf(s, b) = {k}

\* A phi that stays a phi has what stands for each argument that is kept.
Remains(u, s, b) ==
  /\ IsPhi(u) /\ u.dst = s.dst
  /\ \A h \in DOMAIN u.labels :
       \E k \in KeptOf(s, b) : u.labels[h] = s.labels[k] /\ u.src[h] = StandIn(s, k)
  /\ \A k \in KeptOf(s, b) : \E h \in DOMAIN u.labels : u.labels[h] = s.labels[k]

LEMMA RemainingPhis ==
  ASSUME Ready, NEW b \in Blocks(ssa), NEW i \in DOMAIN ssa.code[b], NEW s, s = ssa.code[b][i], IsPhi(s)
  PROVE  \/ KeptOf(s, b) = {} /\ RemainingPhi(s, b) = <<>>
         \/ \E k : KeptOf(s, b) = {k} /\ RemainingPhi(s, b) = <<Move(s.dst, StandIn(s, k))>>
         \/ /\ \A k : KeptOf(s, b) # {k}
            /\ \E u : RemainingPhi(s, b) = <<u>> /\ Remains(u, s, b)
<1> DEFINE I == KeptOf(s, b)
           kept == Ascending(I)
           n == Cardinality(I)
           src == [k \in DOMAIN kept |-> StandIn(s, kept[k])]
           labels == [k \in DOMAIN kept |-> s.labels[kept[k]]]
<1>1. RemainingPhi(s, b) =
        IF kept = <<>> THEN <<>>
        ELSE IF Len(kept) = 1 THEN <<Move(s.dst, src[1])>> ELSE <<Phi(s.dst, src, labels)>>
      BY Zenon DEF RemainingPhi, KeptOf, StandIn
<1>2. DOMAIN s.src = 1 .. Len(s.src) /\ Len(s.src) \in Nat
  <2>1. WellFormedStatement(ssa, s)
        BY ReadyFacts, GoodStatements DEF GoodStatement
  <2>2. s.src \in Seq(ToSet(s.src))
        BY <2>1 DEF WellFormedStatement
  <2> QED
      BY <2>2
<1>3. I \in SUBSET Int /\ IsFiniteSet(I)
  <2>1. I \subseteq 1 .. Len(s.src)
        BY <1>2 DEF KeptOf
  <2>2. Len(s.src) \in Int /\ 1 \in Int
        BY <1>2
  <2>3. IsFiniteSet(1 .. Len(s.src)) /\ 1 .. Len(s.src) \subseteq Int
        BY <2>2, FS_Interval
  <2> HIDE DEF I
  <2> QED
      BY <2>1, <2>3, FS_Subset
<1> HIDE DEF I
<1>4. /\ n \in Nat /\ kept \in [1 .. n -> I]
      /\ \A j \in I : \E k \in 1 .. n : kept[k] = j
      /\ \A k, l \in 1 .. n : k < l => kept[k] < kept[l]
      BY <1>3, AscendingFacts
<1> HIDE DEF kept, n
<1>5. kept \in Seq(I) /\ Len(kept) = n
      BY <1>4
<1>6. CASE n = 0
  <2>1. kept = <<>>
        BY <1>5, <1>6
  <2>2. I = {}
        BY <1>4, <1>6
  <2> QED
      BY <1>1, <2>1, <2>2 DEF I
<1>7. CASE n = 1
  <2>0. kept # <<>>
    <3>1. Len(<<>>) = 0
          OBVIOUS
    <3>2. Len(kept) # 0
          BY <1>5, <1>7
    <3> QED
        BY <3>1, <3>2, Zenon
  <2>1. kept # <<>> /\ 1 \in 1 .. n
        BY <1>7, <2>0
  <2>2. I = {kept[1]}
    <3>1. \A j \in I : j = kept[1]
          BY <1>4, <1>7
    <3> QED
        BY <1>4, <2>1, <3>1
  <2>3. src[1] = StandIn(s, kept[1])
        BY <1>4, <2>1
  <2>4. RemainingPhi(s, b) = <<Move(s.dst, StandIn(s, kept[1]))>>
    <3> HIDE DEF src, labels
    <3> QED
        BY <1>1, <1>5, <1>7, <2>1, <2>3
  <2> QED
      BY <2>2, <2>4 DEF I
<1>8. CASE n # 0 /\ n # 1
  <2>1. kept # <<>> /\ Len(kept) # 1 /\ 1 \in 1 .. n /\ 2 \in 1 .. n
        BY <1>4, <1>5, <1>8
  <2>2. \A k : I # {k}
    <3>1. kept[1] \in I /\ kept[2] \in I /\ kept[1] < kept[2]
          BY <1>4, <2>1
    <3>2. kept[1] \in Int /\ kept[2] \in Int
          BY <1>3, <3>1
    <3> QED
        BY <3>1, <3>2
  <2> DEFINE u == Phi(s.dst, src, labels)
  <2>3. RemainingPhi(s, b) = <<u>>
    <3> HIDE DEF src, labels
    <3> QED
        BY <1>1, <2>1, Zenon
  <2>4. IsPhi(u) /\ u.dst = s.dst /\ u.src = src /\ u.labels = labels
        BY DEF Phi, Stm, IsPhi
  <2>5. DOMAIN labels = 1 .. n /\ \A h \in 1 .. n : labels[h] = s.labels[kept[h]] /\ src[h] = StandIn(s, kept[h])
        BY <1>4
  <2> HIDE DEF src, labels, u
  <2>6. Remains(u, s, b)
    <3>1. \A h \in 1 .. n : kept[h] \in I
          BY <1>4
    <3>0. /\ DOMAIN u.labels = 1 .. n
          /\ \A h \in 1 .. n : u.labels[h] = s.labels[kept[h]] /\ u.src[h] = StandIn(s, kept[h])
          BY <2>4, <2>5, Zenon
    <3>2. \A h \in DOMAIN u.labels : \E k \in I : u.labels[h] = s.labels[k] /\ u.src[h] = StandIn(s, k)
          BY <3>0, <3>1, Zenon
    <3>3. \A k \in I : \E h \in DOMAIN u.labels : u.labels[h] = s.labels[k]
      <4> SUFFICES ASSUME NEW k \in I PROVE \E h \in DOMAIN u.labels : u.labels[h] = s.labels[k]
          OBVIOUS
      <4>1. PICK h \in 1 .. n : kept[h] = k
            BY <1>4, Zenon
      <4> QED
          BY <3>0, <4>1
    <3> QED
        BY <2>4, <3>2, <3>3 DEF Remains, I
  <2> QED
      BY <2>2, <2>3, <2>6 DEF I
<1> QED
    BY <1>6, <1>7, <1>8


-----------------------------------------------------------------------------
\* A run of the function that modifyFunc builds keeps up with the run of the one that it is
\* built from: behind the first i statements of block b, and behind what has become of
\* them, each temp holds the same unless its value is known, or it is the temp of a phi
\* that has become a move and still waits for it: then what the move reads holds that.
Awaits(b, i, t) ==
  \E j \in DOMAIN ssa.code[b] : \E k :
    j > i /\ Single(ssa.code[b][j], b, k) /\ ssa.code[b][j].dst = t

SameValues(v, w, b, i) ==
  \A t \in Temps(ssa) : IsOne(value[t]) \/ Awaits(b, i, t) \/ Value(w, Temp(t)) = Value(v, Temp(t))

SameAwaited(v, w, b, i) ==
  \A j \in DOMAIN ssa.code[b] : \A k :
    j > i /\ Single(ssa.code[b][j], b, k) =>
      Value(w, StandIn(ssa.code[b][j], k)) = Value(v, Temp(ssa.code[b][j].dst))

\* What such a move reads is not assigned in its block.
Sourced(b) ==
  \A j \in DOMAIN ssa.code[b] : \A k :
    Single(ssa.code[b][j], b, k) =>
      Substitute(ssa.code[b][j].src[k].temp, ssa.code[b][j].labels[k]) \notin DefsIn(ssa, b)

\* What a statement and what has become of it do to the frames.
Effect(s, b, v, w, v2, w2) ==
  \/ v2 = v /\ w2 = w /\ \A k : ~Single(s, b, k)
  \/ s.dst # NoTemp /\ ~IsPhi(s) /\ \E x : v2 = Bind(v, s.dst, x) /\ w2 = Bind(w, s.dst, x)
  \/ s.dst # NoTemp /\ IsOne(value[s.dst]) /\ w2 = w /\ \E x : v2 = Bind(v, s.dst, x)
  \/ \E k : Single(s, b, k) /\ v2 = v /\ w2 = Bind(w, s.dst, Value(w, StandIn(s, k)))

LEMMA EffectKeeps ==
  ASSUME Ready, NEW b \in Blocks(ssa), Sourced(b), NEW i \in DOMAIN ssa.code[b],
         NEW s, s = ssa.code[b][i], NEW v, NEW w, NEW v2, NEW w2,
         SameValues(v, w, b, i - 1), SameAwaited(v, w, b, i - 1), Effect(s, b, v, w, v2, w2)
  PROVE  SameValues(v2, w2, b, i) /\ SameAwaited(v2, w2, b, i)
<1> DEFINE code == ssa.code[b]
<1>1. WellFormed(ssa) /\ VerifySsa(ssa, FlowOf(ssa)) /\ code \in Seq(ToSet(code))
      BY ReadyFacts DEF WellFormed
<1>2. \A j \in DOMAIN code : j \in Int /\ GoodStatement(code[j])
      BY <1>1, GoodStatements
<1>3. \A j \in DOMAIN code : j > i - 1 <=> j > i \/ j = i
      BY <1>2
<1>4. ASSUME NEW j \in DOMAIN code, NEW k, j > i, Single(code[j], b, k)
      PROVE  /\ code[j].dst # s.dst
             /\ s.dst # NoTemp => Substitute(code[j].src[k].temp, code[j].labels[k]) # s.dst
             /\ j > i - 1
  <2>1. code[j].dst # NoTemp
        BY <1>2, <1>4, Zenon DEF GoodStatement, WellFormedStatement, Single, IsPhi, Assigning
  <2>2. code[j].dst # s.dst
    <3>1. ASSUME code[j].dst = s.dst PROVE FALSE
      <4>1. s.dst \in Defs(code[i]) /\ s.dst \in Defs(code[j])
            BY <2>1, <3>1 DEF Defs
      <4>2. j = i
            BY <1>1, <4>1, DefinedOnce
      <4> QED
          BY <1>2, <1>4, <4>2
    <3> QED
        BY <3>1
  <2>3. Substitute(code[j].src[k].temp, code[j].labels[k]) \notin DefsIn(ssa, b)
        BY <1>4 DEF Sourced
  <2>4. s.dst # NoTemp => s.dst \in DefsIn(ssa, b)
        BY DEF DefsIn, Defs, ToSet
  <2> QED
      BY <1>3, <1>4, <2>2, <2>3, <2>4
<1> HIDE DEF code
<1>5. \A u, x : /\ Value(Bind(v, s.dst, x), Temp(u)) = IF u = s.dst THEN x ELSE Value(v, Temp(u))
                /\ Value(Bind(w, s.dst, x), Temp(u)) = IF u = s.dst THEN x ELSE Value(w, Temp(u))
      BY BoundValue
<1>6. \A u : /\ u # s.dst => /\ Value(v2, Temp(u)) = Value(v, Temp(u))
                             /\ Value(w2, Temp(u)) = Value(w, Temp(u))
             /\ s.dst = NoTemp => /\ Value(v2, Temp(u)) = Value(v, Temp(u))
                                  /\ Value(w2, Temp(u)) = Value(w, Temp(u))
  <2>1. ASSUME NEW k, Single(s, b, k) PROVE s.dst # NoTemp
        BY <1>2, <2>1, Zenon DEF GoodStatement, WellFormedStatement, Single, IsPhi, Assigning, code
  <2>2. /\ v2 = v \/ (s.dst # NoTemp /\ \E x : v2 = Bind(v, s.dst, x))
        /\ w2 = w \/ (s.dst # NoTemp /\ \E x : w2 = Bind(w, s.dst, x))
    <3>1. CASE v2 = v /\ w2 = w
          BY <3>1
    <3>2. CASE s.dst # NoTemp /\ \E x : v2 = Bind(v, s.dst, x) /\ w2 = Bind(w, s.dst, x)
          BY <3>2, Zenon
    <3>3. CASE s.dst # NoTemp /\ w2 = w /\ \E x : v2 = Bind(v, s.dst, x)
          BY <3>3, Zenon
    <3>4. CASE \E k : Single(s, b, k) /\ v2 = v /\ w2 = Bind(w, s.dst, Value(w, StandIn(s, k)))
      <4>1. PICK k : Single(s, b, k) /\ v2 = v /\ w2 = Bind(w, s.dst, Value(w, StandIn(s, k)))
            BY <3>4
      <4> QED
          BY <2>1, <4>1, Zenon
    <3> QED
        BY <3>1, <3>2, <3>3, <3>4, Zenon DEF Effect
  <2>3. ASSUME NEW u, u # s.dst \/ s.dst = NoTemp
        PROVE  Value(v2, Temp(u)) = Value(v, Temp(u)) /\ Value(w2, Temp(u)) = Value(w, Temp(u))
    <3>1. Value(v2, Temp(u)) = Value(v, Temp(u))
      <4>1. \A x : Value(Bind(v, s.dst, x), Temp(u)) = IF u = s.dst THEN x ELSE Value(v, Temp(u))
            BY <1>5, Zenon
      <4> QED
          BY <2>2, <2>3, <4>1, Zenon
    <3>2. Value(w2, Temp(u)) = Value(w, Temp(u))
      <4>1. \A x : Value(Bind(w, s.dst, x), Temp(u)) = IF u = s.dst THEN x ELSE Value(w, Temp(u))
            BY <1>5, Zenon
      <4> QED
          BY <2>2, <2>3, <4>1, Zenon
    <3> QED
        BY <3>1, <3>2, Zenon
  <2> QED
      BY <2>3, Zenon
<1>7. ASSUME NEW t \in Temps(ssa), ~IsOne(value[t]), ~Awaits(b, i, t)
      PROVE  Value(w2, Temp(t)) = Value(v2, Temp(t))
  <2>1. CASE Awaits(b, i - 1, t)
    <3>1. PICK k : Single(s, b, k) /\ s.dst = t
      <4>1. PICK j \in DOMAIN code : \E k : j > i - 1 /\ Single(code[j], b, k) /\ code[j].dst = t
            BY <2>1, Zenon DEF Awaits, code
      <4>2. j = i
            BY <1>3, <1>7, <4>1, Zenon DEF Awaits, code
      <4> QED
          BY <4>1, <4>2, Zenon DEF code
    <3>2. PICK l : Single(s, b, l) /\ v2 = v /\ w2 = Bind(w, s.dst, Value(w, StandIn(s, l)))
          BY <1>7, <3>1, Zenon DEF Effect, Single
    <3>3. Value(w, StandIn(s, l)) = Value(v, Temp(t))
      <4>1. i > i - 1 /\ i \in DOMAIN code /\ code[i] = s
            BY <1>2 DEF code
      <4> QED
          BY <3>1, <3>2, <4>1, Zenon DEF SameAwaited, code
    <3> QED
        BY <1>5, <3>1, <3>2, <3>3, Zenon
  <2>2. CASE ~Awaits(b, i - 1, t)
    <3>1. Value(w, Temp(t)) = Value(v, Temp(t))
          BY <1>7, <2>2, Zenon DEF SameValues
    <3>2. CASE t # s.dst
          BY <1>6, <3>1, <3>2, Zenon
    <3>3. CASE t = s.dst
      <4>1. \A k : ~Single(s, b, k)
        <5>1. i > i - 1 /\ i \in DOMAIN code /\ code[i] = s
              BY <1>2 DEF code
        <5> QED
            BY <2>2, <3>3, <5>1, Zenon DEF Awaits, code
      <4>2. \/ v2 = v /\ w2 = w
            \/ \E x : v2 = Bind(v, s.dst, x) /\ w2 = Bind(w, s.dst, x)
            BY <1>7, <3>3, <4>1, Zenon DEF Effect
      <4>3. CASE v2 = v /\ w2 = w
            BY <3>1, <4>3, Zenon
      <4>4. CASE \E x : v2 = Bind(v, s.dst, x) /\ w2 = Bind(w, s.dst, x)
        <5>1. PICK x : v2 = Bind(v, s.dst, x) /\ w2 = Bind(w, s.dst, x)
              BY <4>4, Zenon
        <5>2. Value(v2, Temp(t)) = x /\ Value(w2, Temp(t)) = x
              BY <1>5, <3>3, <5>1, Zenon
        <5> QED
            BY <5>2, Zenon
      <4> QED
          BY <4>2, <4>3, <4>4, Zenon
    <3> QED
        BY <3>2, <3>3, Zenon
  <2> QED
      BY <2>1, <2>2, Zenon
<1>8. ASSUME NEW j \in DOMAIN code, NEW k, j > i, Single(code[j], b, k)
      PROVE  Value(w2, StandIn(code[j], k)) = Value(v2, Temp(code[j].dst))
  <2>1. Value(w, StandIn(code[j], k)) = Value(v, Temp(code[j].dst))
        BY <1>4, <1>8, Zenon DEF SameAwaited, code
  <2> QED
      BY <1>4, <1>6, <1>8, <2>1, Zenon DEF StandIn
<1> QED
    BY <1>7, <1>8, Zenon DEF SameValues, SameAwaited, code


\* A source that is read holds, in the frame of the old function, what has become of it
\* holds in that of the new one.
LEMMA TermsAlike ==
  ASSUME Ready, NEW b \in Blocks(ssa), NEW i \in DOMAIN ssa.code[b], NEW s, s = ssa.code[b][i],
         ~IsPhi(s), NEW v, NEW w, SameValues(v, w, b, i - 1), Covered(v), Uses(s) \subseteq DOMAIN v,
         NEW k \in DOMAIN s.src
  PROVE  Value(v, s.src[k]) = Value(w, RewriteTerm(s.src[k]))
<1> DEFINE t == s.src[k].temp
<1>1. GoodStatement(s) /\ WellFormed(ssa) /\ VerifySsa(ssa, FlowOf(ssa)) /\ value \in [Temps(ssa) -> Lattice]
      BY ReadyFacts, GoodStatements
<1>2. CASE ~IsTemp(s.src[k])
      BY <1>2 DEF RewriteTerm, Value
<1>3. CASE IsTemp(s.src[k])
  <2>1. t \in Temps(ssa) /\ t \in Uses(s)
        BY <1>1, <1>3, SourceTyped
  <2>2. Value(v, s.src[k]) = v[t] /\ v[t] \in value[t]
        BY <1>3, <2>1 DEF Covered, Value
  <2>3. CASE IsOne(value[t])
    <3>1. value[t] = {TheOne(value[t])}
          BY <1>1, <2>1, <2>3, OneWord
    <3>2. RewriteTerm(s.src[k]) = Const(TheOne(value[t]))
          BY <1>3, <2>3 DEF RewriteTerm
    <3>3. Value(w, Const(TheOne(value[t]))) = TheOne(value[t])
          BY DEF Value, Const, IsTemp
    <3> QED
        BY <2>2, <3>1, <3>2, <3>3
  <2>4. CASE ~IsOne(value[t])
    <3>1. RewriteTerm(s.src[k]) = s.src[k]
          BY <2>4 DEF RewriteTerm
    <3>2. ASSUME Awaits(b, i - 1, t) PROVE FALSE
      <4>1. PICK j \in DOMAIN ssa.code[b] : \E l : j > i - 1 /\ Single(ssa.code[b][j], b, l) /\ ssa.code[b][j].dst = t
            BY <3>2 DEF Awaits
      <4>2. t \in Defs(ssa.code[b][j]) /\ i \in Int /\ j \in Int
        <5>1. GoodStatement(ssa.code[b][j])
              BY ReadyFacts, GoodStatements
        <5>2. ssa.code[b][j].dst # NoTemp
              BY <4>1, <5>1, Zenon DEF GoodStatement, WellFormedStatement, Single, IsPhi, Assigning
        <5>3. ssa.code[b] \in Seq(ToSet(ssa.code[b]))
              BY <1>1 DEF WellFormed
        <5> QED
            BY <4>1, <5>2, <5>3 DEF Defs
      <4> HIDE DEF t
      <4>3. /\ t \notin Params(ssa)
            /\ \A e \in Blocks(ssa) : \A l \in DOMAIN ssa.code[e] : t \in Defs(ssa.code[e][l]) => e = b /\ l = j
            BY <1>1, <4>2, DefinedOnce
      <4>4. \E e \in Blocks(ssa) : \E l \in DOMAIN ssa.code[e] :
              /\ t \in Defs(ssa.code[e][l])
              /\ e \in FlowOf(ssa).dom[b]
              /\ e # b \/ l < i
            BY <1>1, <2>1, <4>3, VerifiedUse
      <4>5. j < i
            BY <4>3, <4>4
      <4> QED
          BY <4>1, <4>2, <4>5
    <3>3. Value(w, Temp(t)) = Value(v, Temp(t))
          BY <2>1, <2>4, <3>2 DEF SameValues
    <3>4. \A x : Value(x, Temp(t)) = Value(x, s.src[k])
          BY <1>3 DEF Value, Temp, IsTemp
    <3> QED
        BY <3>1, <3>3, <3>4
  <2> QED
      BY <2>3, <2>4
<1> QED
    BY <1>2, <1>3

LEMMA MoveRuns ==
  ASSUME NEW input, NEW d, IsConfiguration(d), NEW x, NEW a
  PROVE  /\ IsConfiguration(ExecStatement(input, d, Move(x, a)))
         /\ Agrees(d, ExecStatement(input, d, Move(x, a)))
         /\ ExecStatement(input, d, Move(x, a)).env = Bind(d.env, x, Value(d.env, a))
<1> DEFINE s == Move(x, a)
           e == ExecStatement(input, d, s)
<1>1. s.kind = "MOVE" /\ s.dst = x /\ s.src = <<a>>
      BY DEF Move, Stm
<1>2. [i \in DOMAIN s.src |-> Value(d.env, s.src[i])][1] = Value(d.env, a)
      BY <1>1
<1> HIDE DEF s
<1>3. e = [d EXCEPT !.env = Bind(@, x, Value(d.env, a))]
      BY <1>1, <1>2 DEF ExecStatement, ExecPlain, IsCall
<1>4. e = [at |-> d.at, halted |-> d.halted, trace |-> d.trace, env |-> Bind(d.env, x, Value(d.env, a))]
  <2> DEFINE new == Bind(d.env, x, Value(d.env, a))
  <2> HIDE DEF new
  <2>1. e = [d EXCEPT !.env = new]
        BY <1>3 DEF new
  <2> QED
      BY <2>1 DEF IsConfiguration, new
<1> HIDE DEF e
<1>5. IsConfiguration(e) /\ Agrees(d, e) /\ e.env = Bind(d.env, x, Value(d.env, a))
      BY <1>4 DEF IsConfiguration, Agrees
<1> QED
    BY <1>5 DEF e, s

\* What is folded away only binds its temp.
LEMMA FoldedRuns ==
  ASSUME NEW input, NEW c, IsConfiguration(c), NEW s, s.kind \in {"MOVE", "MOVE_BINOP"}
  PROVE  /\ IsConfiguration(ExecStatement(input, c, s))
         /\ Agrees(c, ExecStatement(input, c, s))
         /\ \E x : ExecStatement(input, c, s).env = Bind(c.env, s.dst, x)
<1> DEFINE e == ExecStatement(input, c, s)
<1>1. \E x : e = [c EXCEPT !.env = Bind(@, s.dst, x)]
      BY DEF ExecStatement, ExecPlain, IsCall
<1>2. PICK x : e = [c EXCEPT !.env = Bind(@, s.dst, x)]
      BY <1>1
<1> HIDE DEF e
<1> DEFINE new == Bind(c.env, s.dst, x)
<1>3. e = [c EXCEPT !.env = new]
      BY <1>2
<1> HIDE DEF new
<1>4. e = [at |-> c.at, halted |-> c.halted, trace |-> c.trace, env |-> new]
      BY <1>3 DEF IsConfiguration
<1>5. IsConfiguration(e) /\ Agrees(c, e) /\ e.env = new
      BY <1>4 DEF IsConfiguration, Agrees
<1> QED
    BY <1>5 DEF e, new

Tracks(c, d, b, i) ==
  /\ IsConfiguration(c) /\ IsConfiguration(d) /\ Agrees(c, d)
  /\ SameValues(c.env, d.env, b, i)
  /\ SameAwaited(c.env, d.env, b, i)


LEMMA TracksOn ==
  ASSUME Ready, NEW b \in Blocks(ssa), Sourced(b), NEW i \in DOMAIN ssa.code[b],
         NEW s, s = ssa.code[b][i], NEW c, NEW d, Tracks(c, d, b, i - 1),
         NEW c2, NEW d2, IsConfiguration(c2), IsConfiguration(d2), Agrees(c2, d2),
         Effect(s, b, c.env, d.env, c2.env, d2.env)
  PROVE  Tracks(c2, d2, b, i)
BY EffectKeeps, Zenon DEF Tracks

\* A statement that stays, with its uses rewritten.
Rewritten(s) == Stm(s.kind, s.dst, s.op, [i \in DOMAIN s.src |-> RewriteTerm(s.src[i])], s.labels)

LEMMA RewrittenRuns ==
  ASSUME Ready, NEW b \in Blocks(ssa), NEW i \in DOMAIN ssa.code[b], NEW s, s = ssa.code[b][i],
         ~IsPhi(s), NEW c, NEW d, Tracks(c, d, b, i - 1), Covered(c.env), Uses(s) \subseteq DOMAIN c.env,
         NEW input
  PROVE  Yields(c, d, s, Rewritten(s), ExecStatement(input, c, s), ExecStatement(input, d, Rewritten(s)))
<1> DEFINE u == Rewritten(s)
<1>1. u = Stm(s.kind, u.dst, s.op, u.src, s.labels) /\ u.dst = s.dst
        /\ u.src = [k \in DOMAIN s.src |-> RewriteTerm(s.src[k])]
      BY DEF Rewritten, Stm
<1> HIDE DEF u
<1>2. \A k \in DOMAIN s.src : Value(c.env, s.src[k]) = Value(d.env, u.src[k])
  <2> SUFFICES ASSUME NEW k \in DOMAIN s.src PROVE Value(c.env, s.src[k]) = Value(d.env, u.src[k])
      OBVIOUS
  <2>1. SameValues(c.env, d.env, b, i - 1)
        BY DEF Tracks
  <2>2. Value(c.env, s.src[k]) = Value(d.env, RewriteTerm(s.src[k]))
        BY <2>1, TermsAlike
  <2> QED
      BY <1>1, <2>2
<1>3. Alike(c, d, s, u)
      BY <1>1, <1>2 DEF Alike
<1>4. WellFormedStatement(ssa, s) /\ IsConfiguration(c) /\ IsConfiguration(d) /\ Agrees(c, d)
      BY ReadyFacts, GoodStatements DEF GoodStatement, Tracks
<1>5. Yields(c, d, s, u, ExecStatement(input, c, s), ExecStatement(input, d, u))
      BY <1>3, <1>4, StatementsAgree
<1> QED
    BY <1>5 DEF u

\* What becomes of a statement that does not leave the block.
LEMMA RebuiltInside ==
  ASSUME NEW s, NEW b, s.kind \notin Leaving
  PROVE  /\ IsPhi(s) /\ Folded(s) => Rebuild(s, b) = <<>>
         /\ IsPhi(s) /\ ~Folded(s) => Rebuild(s, b) = RemainingPhi(s, b)
         /\ ~IsPhi(s) => \/ Rebuild(s, b) = <<>> /\ Folded(s) /\ s.kind \in {"MOVE", "MOVE_BINOP"}
                         \/ Rebuild(s, b) = <<Rewritten(s)>>
<1>1. s.kind # "JUMP" /\ s.kind # "FALL" /\ s.kind # "CJUMP"
      BY DEF Leaving
<1>2. CASE IsPhi(s)
      BY <1>1, <1>2 DEF Rebuild, IsPhi
<1>3. CASE ~IsPhi(s)
  <2>1. s.kind # "PHI"
        BY <1>3 DEF IsPhi
  <2> QED
      BY <1>1, <1>3, <2>1 DEF Rebuild, Rewritten
<1> QED
    BY <1>2, <1>3

\* The two runs over one statement that does not leave the block.
LEMMA StatementKept ==
  ASSUME Ready, NEW b \in Blocks(ssa), Sourced(b), NEW i \in DOMAIN ssa.code[b],
         NEW s, s = ssa.code[b][i], s.kind \notin Leaving, NEW c, NEW d, Tracks(c, d, b, i - 1),
         Covered(c.env), ~IsPhi(s) => Uses(s) \subseteq DOMAIN c.env, NEW input
  PROVE  \/ Rebuild(s, b) = <<>> /\ Tracks(ExecStatement(input, c, s), d, b, i)
         \/ \E u : /\ Rebuild(s, b) = <<u>>
                   /\ Tracks(ExecStatement(input, c, s), ExecStatement(input, d, u), b, i)
<1> DEFINE c2 == ExecStatement(input, c, s)
<1>1. IsConfiguration(c) /\ IsConfiguration(d) /\ Agrees(c, d)
      BY DEF Tracks
<1>2. WellFormedStatement(ssa, s)
      BY ReadyFacts, GoodStatements DEF GoodStatement
<1>3. CASE IsPhi(s)
  <2>1. c2 = c /\ \A u : IsPhi(u) => ExecStatement(input, d, u) = d
        BY <1>3, PhiStays
  <2> HIDE DEF c2
  <2>2. ASSUME \A k : ~Single(s, b, k) PROVE Tracks(c2, d, b, i)
    <3>1. Effect(s, b, c.env, d.env, c2.env, d.env)
          BY <2>1, <2>2, Zenon DEF Effect
    <3> QED
        BY <1>1, <2>1, <3>1, TracksOn
  <2>3. CASE Folded(s)
    <3>1. Rebuild(s, b) = <<>> /\ \A k : ~Single(s, b, k)
          BY <1>3, <2>3, RebuiltInside DEF Single
    <3> QED
        BY <2>2, <3>1 DEF c2
  <2>4. CASE ~Folded(s)
    <3>1. Rebuild(s, b) = RemainingPhi(s, b)
          BY <1>3, <2>4, RebuiltInside
    <3>2. CASE KeptOf(s, b) = {} /\ RemainingPhi(s, b) = <<>>
      <4>1. \A k : ~Single(s, b, k)
            BY <3>2, Zenon DEF Single
      <4> QED
          BY <2>2, <3>1, <3>2, <4>1 DEF c2
    <3>3. ASSUME NEW k, KeptOf(s, b) = {k}, RemainingPhi(s, b) = <<Move(s.dst, StandIn(s, k))>>
          PROVE  \E u : Rebuild(s, b) = <<u>> /\ Tracks(c2, ExecStatement(input, d, u), b, i)
      <4> DEFINE u == Move(s.dst, StandIn(s, k))
                 d2 == ExecStatement(input, d, u)
      <4>1. IsConfiguration(d2) /\ Agrees(d, d2) /\ d2.env = Bind(d.env, s.dst, Value(d.env, StandIn(s, k)))
            BY <1>1, MoveRuns
      <4>2. Single(s, b, k)
            BY <1>3, <2>4, <3>3 DEF Single
      <4> HIDE DEF d2, u
      <4>3. Effect(s, b, c.env, d.env, c2.env, d2.env)
            BY <2>1, <4>1, <4>2, Zenon DEF Effect
      <4>4. Agrees(c2, d2) /\ IsConfiguration(c2)
            BY <1>1, <2>1, <4>1 DEF Agrees
      <4>5. Tracks(c2, d2, b, i)
            BY <4>1, <4>3, <4>4, TracksOn
      <4>6. Rebuild(s, b) = <<u>>
            BY <3>1, <3>3 DEF u
      <4> QED
          BY <4>5, <4>6, Zenon DEF d2
    <3>4. ASSUME \A k : KeptOf(s, b) # {k}, NEW u, RemainingPhi(s, b) = <<u>>, Remains(u, s, b)
          PROVE  \E x : Rebuild(s, b) = <<x>> /\ Tracks(c2, ExecStatement(input, d, x), b, i)
      <4>1. \A k : ~Single(s, b, k)
            BY <3>4, Zenon DEF Single
      <4>2. IsPhi(u)
            BY <3>4 DEF Remains
      <4> QED
          BY <2>1, <2>2, <3>1, <3>4, <4>1, <4>2, Zenon
    <3> QED
        BY <1>3, <3>2, <3>3, <3>4, RemainingPhis, Zenon DEF c2
  <2> QED
      BY <2>3, <2>4
<1>4. CASE ~IsPhi(s) /\ Rebuild(s, b) = <<>> /\ Folded(s) /\ s.kind \in {"MOVE", "MOVE_BINOP"}
  <2>1. IsConfiguration(c2) /\ Agrees(c, c2) /\ \E x : c2.env = Bind(c.env, s.dst, x)
        BY <1>1, <1>4, FoldedRuns
  <2>2. s.dst # NoTemp /\ IsOne(value[s.dst])
        BY <1>4 DEF Folded, Defs
  <2> HIDE DEF c2
  <2>3. Effect(s, b, c.env, d.env, c2.env, d.env)
        BY <2>1, <2>2, Zenon DEF Effect
  <2>4. Agrees(c2, d)
        BY <1>1, <2>1 DEF Agrees
  <2>5. Tracks(c2, d, b, i)
        BY <1>1, <2>1, <2>3, <2>4, TracksOn
  <2> QED
      BY <1>4, <2>5 DEF c2
<1>5. CASE ~IsPhi(s) /\ Rebuild(s, b) = <<Rewritten(s)>>
  <2> DEFINE u == Rewritten(s)
             d2 == ExecStatement(input, d, u)
  <2>1. Yields(c, d, s, u, c2, d2)
        BY <1>5, RewrittenRuns
  <2>2. u.dst = s.dst
        BY DEF Rewritten, Stm
  <2> HIDE DEF c2, d2, u
  <2>3. IsConfiguration(c2) /\ IsConfiguration(d2) /\ Agrees(c2, d2)
        BY <2>1, Zenon DEF Yields
  <2>4. Effect(s, b, c.env, d.env, c2.env, d2.env)
    <3>1. \/ c2.env = c.env /\ d2.env = d.env
          \/ s.dst # NoTemp /\ \E x : c2.env = Bind(c.env, s.dst, x) /\ d2.env = Bind(d.env, s.dst, x)
          BY <2>1, <2>2, Zenon DEF Yields
    <3> QED
        BY <1>5, <3>1, Zenon DEF Effect, Single
  <2>5. Tracks(c2, d2, b, i)
        BY <2>3, <2>4, TracksOn
  <2> QED
      BY <1>5, <2>5, Zenon DEF c2, d2, u
<1> QED
    BY <1>3, <1>4, <1>5, RebuiltInside


-----------------------------------------------------------------------------
\* The end of a block.  Behind the moves that load them the fresh temps of the block hold
\* the constants they stand for.
Freshened(b, w) ==
  \A n \in 1 .. Len(PhiConstants) :
    PhiConstants[n].pred = b =>
      Value(w, Temp(ssa.lastTemp + n)) = TheOne(value[PhiConstants[n].src])

FreshMove(n) == Move(ssa.lastTemp + n, Const(TheOne(value[PhiConstants[n].src])))

LEMMA FreshMovesFacts ==
  ASSUME Ready, NEW b
  PROVE  \E l \in Nat : \E here \in [1 .. l -> 1 .. Len(PhiConstants)] :
           /\ \A n \in 1 .. Len(PhiConstants) : PhiConstants[n].pred = b => \E h \in 1 .. l : here[h] = n
           /\ FreshMoves(b) = [h \in 1 .. l |-> FreshMove(here[h])]
<1> DEFINE cs == PhiConstants
           I == {n \in DOMAIN cs : cs[n].pred = b}
           l == Cardinality(I)
           here == Ascending(I)
<1>1. FreshMoves(b) = [h \in DOMAIN here |-> FreshMove(here[h])]
      BY DEF FreshMoves, FreshMove
<1>2. Len(cs) \in Nat /\ DOMAIN cs = 1 .. Len(cs)
      BY AllConstants
<1> HIDE DEF cs
<1>3. I \in SUBSET Int /\ IsFiniteSet(I) /\ I \subseteq 1 .. Len(cs)
  <2>1. I \subseteq 1 .. Len(cs)
        BY <1>2
  <2>2. Len(cs) \in Int /\ 1 \in Int
        BY <1>2
  <2>3. IsFiniteSet(1 .. Len(cs)) /\ 1 .. Len(cs) \subseteq Int
        BY <2>2, FS_Interval
  <2> HIDE DEF I
  <2>4. IsFiniteSet(I)
        BY <2>1, <2>3, FS_Subset
  <2> QED
      BY <2>1, <2>3, <2>4
<1>4. \A n \in 1 .. Len(cs) : cs[n].pred = b => n \in I
      BY <1>2
<1> HIDE DEF I
<1>5. l \in Nat /\ here \in [1 .. l -> I] /\ \A n \in I : \E h \in 1 .. l : here[h] = n
      BY <1>3, AscendingFacts
<1> HIDE DEF l, here
<1>6. here \in [1 .. l -> 1 .. Len(cs)] /\ DOMAIN here = 1 .. l
      BY <1>3, <1>5
<1>7. \A n \in 1 .. Len(cs) : cs[n].pred = b => \E h \in 1 .. l : here[h] = n
      BY <1>4, <1>5, Zenon
<1>8. FreshMoves(b) = [h \in 1 .. l |-> FreshMove(here[h])]
      BY <1>1, <1>6, Zenon
<1> QED
    BY <1>5, <1>6, <1>7, <1>8, Zenon DEF cs

\* The moves change nothing else that the old function knows.
SameKnown(v, w) == \A t \in Temps(ssa) : Value(w, Temp(t)) = Value(v, Temp(t))

LEMMA FreshRuns ==
  ASSUME Ready, NEW b, NEW d, IsConfiguration(d), NEW input, NEW G, G[0] = d,
         \A q \in 1 .. Len(FreshMoves(b)) : G[q] = ExecStatement(input, G[q - 1], FreshMoves(b)[q])
  PROVE  LET e == G[Len(FreshMoves(b))] IN
           IsConfiguration(e) /\ Agrees(d, e) /\ SameKnown(d.env, e.env) /\ Freshened(b, e.env)
<1>1. PICK l \in Nat : \E here \in [1 .. l -> 1 .. Len(PhiConstants)] :
        /\ \A n \in 1 .. Len(PhiConstants) : PhiConstants[n].pred = b => \E h \in 1 .. l : here[h] = n
        /\ FreshMoves(b) = [h \in 1 .. l |-> FreshMove(here[h])]
      BY FreshMovesFacts
<1>2. PICK here \in [1 .. l -> 1 .. Len(PhiConstants)] :
        /\ \A n \in 1 .. Len(PhiConstants) : PhiConstants[n].pred = b => \E h \in 1 .. l : here[h] = n
        /\ FreshMoves(b) = [h \in 1 .. l |-> FreshMove(here[h])]
      BY <1>1
<1>3. Len(FreshMoves(b)) = l /\ \A q \in 1 .. l : FreshMoves(b)[q] = FreshMove(here[q])
      BY <1>2
<1>4. ssa.lastTemp \in Nat /\ \A t \in Temps(ssa) : t \in Int /\ t <= ssa.lastTemp
      BY ReadyFacts
<1>5. \A q \in 1 .. l : here[q] \in 1 .. Len(PhiConstants) /\ here[q] \in Nat \ {0}
  <2>1. Len(PhiConstants) \in Nat
        BY AllConstants
  <2> QED
      BY <1>2, <2>1
<1> DEFINE Loads(q, h) == Value(G[q].env, Temp(ssa.lastTemp + here[h])) = TheOne(value[PhiConstants[here[h]].src])
           Good(q) == /\ IsConfiguration(G[q]) /\ Agrees(d, G[q]) /\ SameKnown(d.env, G[q].env)
                      /\ \A h \in 1 .. q : Loads(q, h)
           T == {q \in 0 .. l : ~Good(q)}
<1>6. Good(0)
  <2>1. 1 .. 0 = {}
        OBVIOUS
  <2> QED
      BY <2>1 DEF Agrees, SameKnown
<1>7. ASSUME NEW q \in 1 .. l, Good(q - 1) PROVE Good(q)
  <2> DEFINE n == here[q]
             x == ssa.lastTemp + n
             a == Const(TheOne(value[PhiConstants[n].src]))
             e == G[q - 1]
  <2>1. G[q] = ExecStatement(input, e, Move(x, a))
        BY <1>3 DEF FreshMove
  <2>2. IsConfiguration(e) /\ Agrees(d, e) /\ SameKnown(d.env, e.env)
        BY <1>7
  <2>3. Value(e.env, a) = TheOne(value[PhiConstants[n].src])
        BY DEF Value, Const, IsTemp
  <2> HIDE DEF e, a, x
  <2>4. IsConfiguration(G[q]) /\ Agrees(e, G[q]) /\ G[q].env = Bind(e.env, x, Value(e.env, a))
        BY <2>1, <2>2, MoveRuns
  <2>5. \A u : Value(G[q].env, Temp(u)) = IF u = x THEN Value(e.env, a) ELSE Value(e.env, Temp(u))
        BY <2>4, BoundValue
  <2>6. \A t \in Temps(ssa) : t # x
        BY <1>4, <1>5 DEF x
  <2>7. SameKnown(d.env, G[q].env)
        BY <2>2, <2>5, <2>6, Zenon DEF SameKnown
  <2>8. \A h \in 1 .. q : Loads(q, h)
    <3> SUFFICES ASSUME NEW h \in 1 .. q PROVE Loads(q, h)
        OBVIOUS
    <3>1. CASE ssa.lastTemp + here[h] = x
      <4>1. here[h] = n
        <5>1. h \in 1 .. l
              OBVIOUS
        <5>2. here[h] \in Nat /\ here[q] \in Nat
              BY <1>5, <5>1
        <5> QED
            BY <1>4, <3>1, <5>2 DEF x
      <4> HIDE DEF n
      <4> QED
          BY <2>3, <2>5, <3>1, <4>1
    <3>2. CASE ssa.lastTemp + here[h] # x
      <4>1. h # q
            BY <3>2 DEF x
      <4>2. h \in 1 .. q - 1
            BY <4>1
      <4>3. Loads(q - 1, h)
            BY <1>7, <4>2
      <4> QED
          BY <2>5, <3>2, <4>3 DEF e
    <3> QED
        BY <3>1, <3>2
  <2>9. Agrees(d, G[q])
        BY <2>2, <2>4 DEF Agrees
  <2> HIDE DEF Loads
  <2> QED
      BY <2>4, <2>7, <2>8, <2>9
<1>8. ASSUME T # {} PROVE FALSE
  <2> HIDE DEF Good
  <2>1. T \in SUBSET Nat
        OBVIOUS
  <2>2. PICK k \in T : \A j \in T : k <= j
    <3> HIDE DEF T
    <3> QED
        BY <1>8, <2>1, LeastElement
  <2>3. k # 0
        BY <1>6, <2>2
  <2>4. k \in 1 .. l /\ k - 1 \in 0 .. l /\ k - 1 \notin T
    <3>1. k \in 0 .. l
          OBVIOUS
    <3> HIDE DEF T
    <3> QED
        BY <2>2, <2>3, <3>1
  <2>5. Good(k - 1)
        BY <2>4
  <2>6. Good(k)
        BY <1>7, <2>4, <2>5
  <2> QED
      BY <2>2, <2>6
<1>9. Good(l)
  <2> HIDE DEF Good
  <2> QED
      BY <1>8
<1>10. Freshened(b, G[l].env)
  <2> SUFFICES ASSUME NEW n \in 1 .. Len(PhiConstants), PhiConstants[n].pred = b
               PROVE  Value(G[l].env, Temp(ssa.lastTemp + n)) = TheOne(value[PhiConstants[n].src])
      BY DEF Freshened
  <2>1. PICK h \in 1 .. l : here[h] = n
        BY <1>2
  <2>2. Loads(l, h)
        BY <1>9
  <2> QED
      BY <2>1, <2>2
<1> QED
    BY <1>3, <1>9, <1>10


\* What becomes of the statement that leaves a block.
LiveExits(s, b) == {x \in DOMAIN s.labels : Edge(b, s.labels[x])}

RebuiltExit(u, s, b) ==
  \/ s.kind \in {"JUMP", "FALL"} /\ u = Jump(s.labels[1])
  \/ s.kind = "CJUMP" /\ \E x : LiveExits(s, b) = {x} /\ u = Jump(s.labels[x])
  \/ s.kind = "CJUMP" /\ u = Rewritten(s)

LEMMA RebuiltLast ==
  ASSUME NEW s, NEW b, WellFormedStatement(ssa, s), s.kind \in Leaving
  PROVE  \/ s.kind = "RETURN" /\ Rebuild(s, b) = <<Rewritten(s)>>
         \/ \E u : Rebuild(s, b) = FreshMoves(b) \o <<u>> /\ RebuiltExit(u, s, b)
<1> DEFINE live == LiveExits(s, b)
<1>1. s.kind \notin {"MOVE", "MOVE_BINOP", "PHI"} /\ ~IsPhi(s)
      BY DEF Leaving, IsPhi
<1>2. CASE s.kind = "RETURN"
      BY <1>1, <1>2 DEF Rebuild, Rewritten
<1>3. CASE s.kind \in {"JUMP", "FALL"}
  <2>1. Rebuild(s, b) = FreshMoves(b) \o <<Jump(s.labels[1])>>
        BY <1>1, <1>3 DEF Rebuild
  <2> QED
      BY <1>3, <2>1, Zenon DEF RebuiltExit
<1>4. CASE s.kind = "CJUMP"
  <2>1. Rebuild(s, b) =
          FreshMoves(b) \o
            (IF Cardinality(live) = 1 THEN <<Jump(s.labels[TheOne(live)])>> ELSE <<Rewritten(s)>>)
        BY <1>1, <1>4 DEF Rebuild, Rewritten, LiveExits
  <2>2. CASE Cardinality(live) = 1
    <3>1. IsFiniteSet(live)
      <4>1. s.labels \in Seq(ToSet(s.labels)) /\ Len(s.labels) = 2
            BY <1>4 DEF WellFormedStatement
      <4>2. live \subseteq 1 .. 2
            BY <4>1 DEF LiveExits
      <4>3. IsFiniteSet(1 .. 2)
        <5> DEFINE two == 2
        <5>1. two \in Int /\ 1 \in Int
              OBVIOUS
        <5> HIDE DEF two
        <5>2. IsFiniteSet(1 .. two)
              BY <5>1, FS_Interval
        <5> QED
            BY <5>2 DEF two
      <4> HIDE DEF live
      <4> QED
          BY <4>2, <4>3, FS_Subset
    <3> HIDE DEF live
    <3>2. PICK x : live = {x}
          BY <2>2, <3>1, FS_Singleton
    <3>3. TheOne(live) = x
          BY <3>2 DEF TheOne
    <3>4. Rebuild(s, b) = FreshMoves(b) \o <<Jump(s.labels[x])>>
          BY <2>1, <2>2, <3>3, Zenon
    <3> QED
        BY <1>4, <3>2, <3>4, Zenon DEF RebuiltExit, live
  <2>3. CASE Cardinality(live) # 1
    <3>1. Rebuild(s, b) = FreshMoves(b) \o <<Rewritten(s)>>
          BY <2>1, <2>3, Zenon
    <3> QED
        BY <1>4, <3>1, Zenon DEF RebuiltExit
  <2> QED
      BY <2>2, <2>3
<1> QED
    BY <1>2, <1>3, <1>4 DEF Leaving

LEMMA JumpRuns ==
  ASSUME NEW input, NEW d, IsConfiguration(d), NEW y
  PROVE  LET e == ExecStatement(input, d, Jump(y)) IN
           /\ IsConfiguration(e) /\ e.at = y /\ e.halted = d.halted /\ e.trace = d.trace /\ e.env = d.env
<1> DEFINE s == Jump(y)
           e == ExecStatement(input, d, s)
<1>1. s.kind = "JUMP" /\ s.labels[1] = y
      BY DEF Jump, Stm
<1> HIDE DEF s
<1>2. e = [d EXCEPT !.at = y]
      BY <1>1 DEF ExecStatement, ExecPlain, IsCall
<1> HIDE DEF e
<1>3. e = [at |-> y, halted |-> d.halted, trace |-> d.trace, env |-> d.env]
      BY <1>2 DEF IsConfiguration
<1>4. /\ IsConfiguration(e) /\ e.at = y /\ e.halted = d.halted /\ e.trace = d.trace /\ e.env = d.env
      BY <1>3 DEF IsConfiguration
<1> QED
    BY <1>4 DEF e, s

\* A jump that is taken changes the block only.
LEMMA ExitRuns ==
  ASSUME NEW input, NEW c, IsConfiguration(c), NEW s, s.kind \in {"JUMP", "FALL", "CJUMP"}
  PROVE  LET e == ExecStatement(input, c, s) IN
           /\ IsConfiguration(e) /\ e.halted = c.halted /\ e.trace = c.trace /\ e.env = c.env
           /\ s.kind # "CJUMP" => e.at = s.labels[1]
<1> DEFINE e == ExecStatement(input, c, s)
<1>1. \E y : e = [c EXCEPT !.at = y] /\ (s.kind # "CJUMP" => y = s.labels[1])
      BY DEF ExecStatement, ExecPlain, IsCall
<1>2. PICK y : e = [c EXCEPT !.at = y] /\ (s.kind # "CJUMP" => y = s.labels[1])
      BY <1>1
<1> HIDE DEF e
<1>3. e = [at |-> y, halted |-> c.halted, trace |-> c.trace, env |-> c.env]
      BY <1>2 DEF IsConfiguration
<1>4. /\ IsConfiguration(e) /\ e.at = y /\ e.halted = c.halted /\ e.trace = c.trace /\ e.env = c.env
      BY <1>3 DEF IsConfiguration
<1> QED
    BY <1>2, <1>4 DEF e

\* Behind the last statement of a block, which leaves it, all the temps whose value is not
\* known are the same.
LEMMA LastStatement ==
  ASSUME Ready, NEW b \in Blocks(ssa), NEW m, m \in DOMAIN ssa.code[b], m = Len(ssa.code[b])
  PROVE  /\ ~IsPhi(ssa.code[b][m]) /\ ssa.code[b][m].kind \in Leaving /\ ssa.code[b][m].dst = NoTemp
         /\ Last(ssa.code[b]) = ssa.code[b][m]
         /\ \A t : ~Awaits(b, m, t) /\ ~Awaits(b, m - 1, t)
         /\ \A v, w : SameAwaited(v, w, b, m) /\ SameAwaited(v, w, b, m - 1)
<1> DEFINE s == ssa.code[b][m]
<1>1. WellFormedStatement(ssa, s) /\ s.kind \in Leaving
      BY ReadyFacts DEF WellFormed
<1>2. ~IsPhi(s) /\ s.dst = NoTemp
      BY <1>1 DEF WellFormedStatement, Leaving, Assigning, IsPhi
<1>3. \A j \in DOMAIN ssa.code[b] : j > m - 1 => j = m
  <2>1. ssa.code[b] \in Seq(ToSet(ssa.code[b]))
        BY ReadyFacts DEF WellFormed
  <2> QED
      BY <2>1
<1>4. \A j \in DOMAIN ssa.code[b] : ~ (j > m)
  <2>1. ssa.code[b] \in Seq(ToSet(ssa.code[b]))
        BY ReadyFacts DEF WellFormed
  <2> QED
      BY <2>1
<1>5. \A k : ~Single(s, b, k)
      BY <1>2, Zenon DEF Single
<1> HIDE DEF s
<1>6. \A j \in DOMAIN ssa.code[b] : \A k : Single(ssa.code[b][j], b, k) => ~ (j > m) /\ ~ (j > m - 1)
      BY <1>3, <1>4, <1>5, Zenon DEF s
<1>7. \A t : ~Awaits(b, m, t) /\ ~Awaits(b, m - 1, t)
      BY <1>6, Zenon DEF Awaits
<1>8. \A v, w : SameAwaited(v, w, b, m) /\ SameAwaited(v, w, b, m - 1)
      BY <1>6, Zenon DEF SameAwaited
<1> QED
    BY <1>1, <1>2, <1>7, <1>8 DEF Last, s


\* The fresh moves touch nothing that is tracked.
LEMMA FreshTracks ==
  ASSUME Ready, NEW b \in Blocks(ssa), NEW m, m \in DOMAIN ssa.code[b], m = Len(ssa.code[b]),
         NEW c, NEW d, Tracks(c, d, b, m - 1),
         NEW e, IsConfiguration(e), Agrees(d, e), SameKnown(d.env, e.env)
  PROVE  Tracks(c, e, b, m - 1)
<1>1. SameAwaited(c.env, e.env, b, m - 1) /\ \A t : ~Awaits(b, m - 1, t)
      BY LastStatement
<1>2. SameValues(c.env, e.env, b, m - 1)
  <2> SUFFICES ASSUME NEW t \in Temps(ssa), ~IsOne(value[t])
               PROVE  Value(e.env, Temp(t)) = Value(c.env, Temp(t))
      BY Zenon DEF SameValues
  <2>1. Value(d.env, Temp(t)) = Value(c.env, Temp(t))
        BY <1>1, Zenon DEF Tracks, SameValues
  <2> QED
      BY <2>1, Zenon DEF SameKnown
<1>3. IsConfiguration(c) /\ Agrees(c, e)
      BY Zenon DEF Tracks, Agrees
<1> QED
    BY <1>1, <1>2, <1>3, Zenon DEF Tracks

\* What is tracked in front of the last statement and not touched by it is tracked behind it.
LEMMA LeaveTracks ==
  ASSUME Ready, NEW b \in Blocks(ssa), NEW m, m \in DOMAIN ssa.code[b], m = Len(ssa.code[b]),
         NEW c, NEW d, Tracks(c, d, b, m - 1),
         NEW c2, NEW d2, IsConfiguration(c2), IsConfiguration(d2), Agrees(c2, d2),
         c2.env = c.env, d2.env = d.env
  PROVE  Tracks(c2, d2, b, m)
<1>1. SameAwaited(c2.env, d2.env, b, m) /\ \A t : ~Awaits(b, m - 1, t)
      BY LastStatement
<1>2. SameValues(c2.env, d2.env, b, m)
      BY <1>1, Zenon DEF Tracks, SameValues
<1> QED
    BY <1>1, <1>2, Zenon DEF Tracks


\* Where a run is in front of each statement of a piece of code, and behind the last.
RunsOver(G, input, d, code) ==
  G[0] = d /\ \A q \in 1 .. Len(code) : G[q] = ExecStatement(input, G[q - 1], code[q])

\* The two runs over the statement that leaves a block.
LEMMA LeaveKept ==
  ASSUME Ready, NEW b \in executable, NEW m, m \in DOMAIN ssa.code[b], m = Len(ssa.code[b]),
         NEW s, s = ssa.code[b][m], NEW c, NEW d, Tracks(c, d, b, m - 1),
         Covered(c.env), Uses(s) \subseteq DOMAIN c.env, NEW input,
         s.kind # "RETURN" => ExecStatement(input, c, s).at \in Targets(value, s),
         NEW G, RunsOver(G, input, d, Rebuild(s, b))
  PROVE  LET c2 == ExecStatement(input, c, s)
             e == G[Len(Rebuild(s, b))]
         IN /\ IsConfiguration(e) /\ Agrees(c2, e)
            /\ s.kind # "RETURN" => Tracks(c2, e, b, m) /\ Freshened(b, e.env)
<1> DEFINE c2 == ExecStatement(input, c, s)
           fresh == FreshMoves(b)
<1>1. /\ b \in Blocks(ssa) /\ WellFormedStatement(ssa, s) /\ s.kind \in Leaving /\ ~IsPhi(s)
      /\ s.dst = NoTemp /\ Last(ssa.code[b]) = s
  <2>1. b \in Blocks(ssa)
        BY ReadyFacts
  <2>2. GoodStatement(s)
        BY <2>1, ReadyFacts, GoodStatements
  <2> QED
      BY <2>1, <2>2, LastStatement DEF GoodStatement
<1>2. CASE s.kind = "RETURN" /\ Rebuild(s, b) = <<Rewritten(s)>>
  <2> DEFINE u == Rewritten(s)
  <2>1. Yields(c, d, s, u, c2, ExecStatement(input, d, u))
        BY <1>1, RewrittenRuns
  <2> HIDE DEF c2, u
  <2>2. Len(Rebuild(s, b)) = 1 /\ G[1] = ExecStatement(input, d, u)
    <3>1. Rebuild(s, b) = <<u>> /\ Len(<<u>>) = 1 /\ <<u>>[1] = u /\ 1 \in 1 .. 1 /\ 1 - 1 = 0
          BY <1>2 DEF u
    <3> QED
        BY <3>1 DEF RunsOver
  <2> QED
      BY <1>2, <2>1, <2>2 DEF Yields, c2
<1>3. ASSUME s.kind # "RETURN", NEW u, Rebuild(s, b) = fresh \o <<u>>, RebuiltExit(u, s, b)
      PROVE  LET e == G[Len(Rebuild(s, b))]
             IN IsConfiguration(e) /\ Agrees(c2, e) /\ Tracks(c2, e, b, m) /\ Freshened(b, e.env)
  <2> DEFINE l == Len(fresh)
             e1 == G[l]
             e2 == G[l + 1]
  <2>1. /\ l \in Nat /\ Len(Rebuild(s, b)) = l + 1
        /\ \A q \in 1 .. l : Rebuild(s, b)[q] = fresh[q]
        /\ Rebuild(s, b)[l + 1] = u
    <3>1. PICK n \in Nat : \E here \in [1 .. n -> 1 .. Len(PhiConstants)] :
            /\ \A k \in 1 .. Len(PhiConstants) : PhiConstants[k].pred = b => \E h \in 1 .. n : here[h] = k
            /\ FreshMoves(b) = [h \in 1 .. n |-> FreshMove(here[h])]
          BY FreshMovesFacts
    <3>2. PICK here \in [1 .. n -> 1 .. Len(PhiConstants)] : fresh = [h \in 1 .. n |-> FreshMove(here[h])]
          BY <3>1
    <3> DEFINE S == {FreshMove(here[h]) : h \in 1 .. n} \cup {u}
    <3>3. fresh \in [1 .. n -> S]
          BY <3>2
    <3> HIDE DEF fresh
    <3>4. fresh \in Seq(S) /\ <<u>> \in Seq(S)
      <4>1. u \in S
            OBVIOUS
      <4> HIDE DEF S
      <4> QED
          BY <3>3, <4>1
    <3> HIDE DEF S
    <3> QED
        BY <1>3, <3>4
  <2>2. G[0] = d /\ \A q \in 1 .. l : G[q] = ExecStatement(input, G[q - 1], fresh[q])
    <3> HIDE DEF fresh
    <3> QED
        BY <2>1 DEF RunsOver
  <2>3. e2 = ExecStatement(input, e1, u)
    <3>1. l + 1 \in 1 .. l + 1 /\ l + 1 - 1 = l
          BY <2>1
    <3> HIDE DEF fresh, l
    <3> QED
        BY <2>1, <3>1 DEF RunsOver
  <2>4. IsConfiguration(d)
        BY DEF Tracks
  <2>5. IsConfiguration(e1) /\ Agrees(d, e1) /\ SameKnown(d.env, e1.env) /\ Freshened(b, e1.env)
        BY <2>2, <2>4, FreshRuns
  <2> HIDE DEF e1, e2, l, fresh
  <2>6. Tracks(c, e1, b, m - 1)
        BY <1>1, <2>5, FreshTracks
  <2>7. ASSUME IsConfiguration(c2), IsConfiguration(e2), Agrees(c2, e2), c2.env = c.env, e2.env = e1.env
        PROVE  Tracks(c2, e2, b, m) /\ Freshened(b, e2.env)
    <3> HIDE DEF c2
    <3> QED
        BY <1>1, <2>5, <2>6, <2>7, LeaveTracks
  <2>8. s.kind \in {"JUMP", "FALL", "CJUMP"} /\ IsConfiguration(c) /\ Agrees(c, e1)
        BY <1>1, <1>3, <2>6 DEF Leaving, Tracks
  <2>9. /\ IsConfiguration(c2) /\ c2.halted = c.halted /\ c2.trace = c.trace /\ c2.env = c.env
        /\ s.kind # "CJUMP" => c2.at = s.labels[1]
        BY <2>8, ExitRuns
  <2>10. c2.at \in Targets(value, s)
         BY <1>3
  <2> HIDE DEF c2
  <2>11. ASSUME u = Jump(c2.at)
         PROVE  IsConfiguration(e2) /\ Agrees(c2, e2) /\ e2.env = e1.env
    <3>1. /\ IsConfiguration(e2) /\ e2.at = c2.at /\ e2.halted = e1.halted /\ e2.trace = e1.trace
          /\ e2.env = e1.env
          BY <2>3, <2>5, <2>11, JumpRuns
    <3> QED
        BY <2>8, <2>9, <3>1 DEF Agrees
  <2>12. IsConfiguration(e2) /\ Agrees(c2, e2) /\ e2.env = e1.env
    <3>1. CASE s.kind \in {"JUMP", "FALL"} /\ u = Jump(s.labels[1])
          BY <2>9, <2>11, <3>1
    <3>2. CASE s.kind = "CJUMP" /\ \E x : LiveExits(s, b) = {x} /\ u = Jump(s.labels[x])
      <4>1. PICK x : LiveExits(s, b) = {x} /\ u = Jump(s.labels[x])
            BY <3>2
      <4>2. Targets(value, s) \subseteq {s.labels[y] : y \in DOMAIN s.labels}
        <5>1. s.labels \in Seq(ToSet(s.labels)) /\ Len(s.labels) = 2
              BY <1>1, <3>2 DEF WellFormedStatement
        <5>2. 1 \in DOMAIN s.labels /\ 2 \in DOMAIN s.labels
              BY <5>1
        <5> QED
            BY <5>2 DEF Targets, ToSet
      <4>3. PICK y \in DOMAIN s.labels : s.labels[y] = c2.at
            BY <2>10, <4>2
      <4>4. y \in LiveExits(s, b)
            BY <1>1, <2>10, <4>3 DEF LiveExits, Edge, IsEdgeExecutable
      <4>5. u = Jump(c2.at)
            BY <4>1, <4>3, <4>4
      <4> QED
          BY <2>11, <4>5
    <3>3. CASE s.kind = "CJUMP" /\ u = Rewritten(s)
      <4>1. Yields(c, e1, s, u, c2, e2)
            BY <1>1, <2>3, <2>6, <3>3, RewrittenRuns DEF c2
      <4> QED
          BY <1>1, <4>1 DEF Yields
    <3> QED
        BY <1>3, <3>1, <3>2, <3>3 DEF RebuiltExit
  <2>13. G[Len(Rebuild(s, b))] = e2
         BY <2>1 DEF e2
  <2> QED
      BY <2>7, <2>9, <2>12, <2>13 DEF c2
<1>4. \/ s.kind = "RETURN" /\ Rebuild(s, b) = <<Rewritten(s)>>
      \/ \E u : Rebuild(s, b) = fresh \o <<u>> /\ RebuiltExit(u, s, b)
      BY <1>1, RebuiltLast
<1>5. CASE s.kind = "RETURN"
  <2>1. \A u : RebuiltExit(u, s, b) => s.kind # "RETURN"
        BY DEF RebuiltExit
  <2> QED
      BY <1>2, <1>4, <1>5, <2>1, Zenon
<1> QED
    BY <1>3, <1>4, <1>5, Zenon


\* What becomes of a block: what becomes of its statements, one behind the other.
Pieces(b) == [i \in DOMAIN ssa.code[b] |-> Rebuild(ssa.code[b][i], b)]

LEMMA RebuiltSequence ==
  ASSUME Ready, NEW b \in Blocks(ssa), NEW i \in DOMAIN ssa.code[b]
  PROVE  Rebuild(ssa.code[b][i], b) \in Seq(ToSet(Rebuild(ssa.code[b][i], b)))
<1> DEFINE s == ssa.code[b][i]
           r == Rebuild(s, b)
<1>1. WellFormedStatement(ssa, s)
      BY ReadyFacts, GoodStatements DEF GoodStatement
<1>2. ASSUME NEW u, r = <<u>> PROVE r \in Seq(ToSet(r))
  <2>1. <<u>> \in Seq({u}) /\ ToSet(<<u>>) = {u}
        BY DEF ToSet
  <2> HIDE DEF r
  <2> QED
      BY <1>2, <2>1
<1>3. CASE r = <<>>
  <2>1. \A x, X : x = <<>> => x \in Seq(X)
        OBVIOUS
  <2> QED
      BY <1>3, <2>1, Zenon
<1>4. ASSUME NEW u, r = FreshMoves(b) \o <<u>> PROVE r \in Seq(ToSet(r))
  <2>1. PICK n \in Nat : \E here \in [1 .. n -> 1 .. Len(PhiConstants)] :
          /\ \A k \in 1 .. Len(PhiConstants) : PhiConstants[k].pred = b => \E h \in 1 .. n : here[h] = k
          /\ FreshMoves(b) = [h \in 1 .. n |-> FreshMove(here[h])]
        BY FreshMovesFacts
  <2>2. PICK here \in [1 .. n -> 1 .. Len(PhiConstants)] : FreshMoves(b) = [h \in 1 .. n |-> FreshMove(here[h])]
        BY <2>1
  <2> DEFINE S == {FreshMove(here[h]) : h \in 1 .. n} \cup {u}
             fresh == FreshMoves(b)
  <2>3. fresh \in [1 .. n -> S] /\ u \in S
        BY <2>2
  <2> HIDE DEF fresh, S
  <2> DEFINE x == fresh \o <<u>>
  <2>4. x \in Seq(S)
    <3>1. fresh \in Seq(S) /\ <<u>> \in Seq(S)
          BY <2>2, <2>3
    <3> QED
        BY <3>1
  <2> HIDE DEF x
  <2>5. Len(x) \in Nat /\ DOMAIN x = 1 .. Len(x) /\ x \in [1 .. Len(x) -> S]
        BY <2>4
  <2>6. x \in [1 .. Len(x) -> ToSet(x)]
        BY <2>5 DEF ToSet
  <2>7. x \in Seq(ToSet(x))
    <3> DEFINE l == Len(x)
               X == ToSet(x)
    <3>1. l \in Nat /\ x \in [1 .. l -> X]
          BY <2>5, <2>6
    <3> HIDE DEF l, X
    <3>2. x \in Seq(X)
          BY <3>1
    <3> QED
        BY <3>2 DEF X
  <2>8. r = x
        BY <1>4 DEF x, fresh
  <2> HIDE DEF r
  <2> QED
      BY <2>7, <2>8
<1>5. CASE s.kind \in Leaving
  <2>1. \/ s.kind = "RETURN" /\ r = <<Rewritten(s)>>
        \/ \E u : r = FreshMoves(b) \o <<u>> /\ RebuiltExit(u, s, b)
        BY <1>1, <1>5, RebuiltLast
  <2> QED
      BY <1>2, <1>4, <2>1, Zenon
<1>6. CASE s.kind \notin Leaving
  <2>1. /\ IsPhi(s) /\ Folded(s) => r = <<>>
        /\ IsPhi(s) /\ ~Folded(s) => r = RemainingPhi(s, b)
        /\ ~IsPhi(s) => r = <<>> \/ r = <<Rewritten(s)>>
        BY <1>6, RebuiltInside
  <2>2. IsPhi(s) => \/ RemainingPhi(s, b) = <<>>
                    \/ \E k : RemainingPhi(s, b) = <<Move(s.dst, StandIn(s, k))>>
                    \/ \E u : RemainingPhi(s, b) = <<u>>
        BY RemainingPhis
  <2> QED
      BY <1>2, <1>3, <2>1, <2>2, Zenon
<1> QED
    BY <1>5, <1>6

LEMMA ModifiedCode ==
  ASSUME Ready, NEW b \in executable
  PROVE  Len(Pieces(b)) = Len(ssa.code[b]) /\ \E S, p : Splits(Modified.code[b], Pieces(b), p, S)
<1> DEFINE ss == Pieces(b)
           m == Len(ssa.code[b])
           S == UNION {ToSet(ss[i]) : i \in 1 .. m}
<1>1. b \in Blocks(ssa)
      BY ReadyFacts
<1>2. m \in Nat \ {0} /\ DOMAIN ssa.code[b] = 1 .. m
  <2>1. ssa.code[b] \in Seq(ToSet(ssa.code[b])) /\ ssa.code[b] # <<>>
        BY <1>1, ReadyFacts DEF WellFormed
  <2> QED
      BY <2>1
<1>3. Modified.code[b] = FlattenSeq(ss)
      BY DEF Modified, Function, Pieces
<1>4. ss = [i \in 1 .. m |-> ss[i]]
      BY <1>2 DEF Pieces
<1>5. \A i \in 1 .. m : ss[i] \in Seq(ToSet(ss[i]))
  <2> SUFFICES ASSUME NEW i \in 1 .. m PROVE ss[i] \in Seq(ToSet(ss[i]))
      OBVIOUS
  <2>1. ss[i] = Rebuild(ssa.code[b][i], b) /\ i \in DOMAIN ssa.code[b]
        BY <1>2 DEF Pieces
  <2> HIDE DEF ss
  <2> QED
      BY <1>1, <2>1, RebuiltSequence
<1> HIDE DEF ss, m
<1>6. \A i \in 1 .. m : ss[i] \in Seq(S)
  <2> SUFFICES ASSUME NEW i \in 1 .. m PROVE ss[i] \in Seq(S)
      OBVIOUS
  <2> DEFINE r == ss[i]
             X == ToSet(r)
  <2>1. X \subseteq S /\ r \in Seq(X)
        BY <1>5
  <2> HIDE DEF r, X, S
  <2>2. r \in Seq(S)
        BY <2>1
  <2> QED
      BY <2>2 DEF r
<1> HIDE DEF S
<1>7. ss \in Seq(Seq(S)) /\ Len(ss) = m /\ ss # <<>>
  <2> DEFINE X == Seq(S)
  <2>1. \A i \in 1 .. m : ss[i] \in X
        BY <1>6
  <2> HIDE DEF X
  <2>2. ss \in Seq(X) /\ Len(ss) = m
        BY <1>2, <1>4, <2>1, SequenceOf
  <2> QED
      BY <1>2, <2>2 DEF X
<1>8. \E p : Splits(FlattenSeq(ss), ss, p, S)
      BY <1>7, FlattenFacts
<1> QED
    BY <1>3, <1>7, <1>8 DEF ss, m


\* The two runs over a block, up to the edge that leaves it.
LEMMA BlockKept ==
  ASSUME Ready, NEW input, NEW n \in Nat, YieldsWords(ssa, input, n), ReadsAssigned(ssa, input, n),
         NEW c \in Configurations(ssa, input, n), Inside(c), ~c.halted, Sourced(c.at),
         NEW d, Tracks(c, d, c.at, 0)
  PROVE  LET m == Len(ssa.code[c.at])
             x == AlongBlock(ssa, input, c)[m]
             y == AlongBlock(Modified, input, d)[Len(Modified.code[c.at])]
         IN /\ IsConfiguration(y) /\ Agrees(x, y)
            /\ ~x.halted => Tracks(x, y, c.at, m) /\ Freshened(c.at, y.env)
<1> DEFINE b == c.at
           code == ssa.code[b]
           m == Len(code)
           W == AlongBlock(ssa, input, c)
           made == Modified.code[b]
           N == Len(made)
           V == AlongBlock(Modified, input, d)
           ss == Pieces(b)
<1>1. b \in executable /\ b \in Blocks(ssa)
      BY ReadyFacts DEF Inside
<1>2. /\ m \in Nat \ {0} /\ DOMAIN code = 1 .. m
      /\ W[0] = c /\ \A i \in 1 .. m : W[i] = ExecStatement(input, W[i - 1], code[i])
      /\ \A i \in 1 .. m : code[i].kind \in Leaving <=> i = m
      /\ \A i \in 1 .. m : ~IsPhi(code[i]) => Uses(code[i]) \subseteq DOMAIN W[i - 1].env
      /\ \A i \in 0 .. m - 1 : Covered(W[i].env)
      /\ Moves(W[m - 1], code[m], W[m])
  <2>1. SweepInv /\ stage = "modify"
        BY DEF Ready
  <2>2. StaysInside(input, c)
        BY <2>1, BlockInside
  <2>3. /\ m \in Nat \ {0} /\ DOMAIN code = 1 .. m
        /\ W[0] = c /\ \A i \in 1 .. m : W[i] = ExecStatement(input, W[i - 1], code[i])
        /\ \A i \in 1 .. m : GoodStatement(code[i]) /\ (code[i].kind \in Leaving <=> i = m)
        /\ \A i \in 1 .. m : ~IsPhi(code[i]) => Uses(code[i]) \subseteq DOMAIN W[i - 1].env
        /\ \A i \in 0 .. m - 1 : IsConfiguration(W[i]) /\ Covered(W[i].env) /\ W[i].at = b
        /\ Moves(W[m - 1], code[m], W[m])
        BY <2>2, Zenon DEF StaysInside
  <2> HIDE DEF W, m, code, b
  <2> QED
      BY <2>3
<1>3. Len(ss) = m
      BY <1>1, ModifiedCode
<1>4. PICK S, p : Splits(made, ss, p, S)
      BY <1>1, ModifiedCode
<1>5. \A i \in 1 .. m : ss[i] = Rebuild(code[i], b)
      BY <1>2 DEF Pieces
<1>6. N \in Nat /\ V[0] = d /\ \A i \in 1 .. N : V[i] = ExecStatement(input, V[i - 1], made[i])
  <2>1. made \in Seq(S)
        BY <1>4 DEF Splits
  <2>2. d.at = b
        BY DEF Tracks, Agrees
  <2>3. Len(Modified.code[d.at]) \in Nat
        BY <2>1, <2>2
  <2> HIDE DEF made
  <2>4. /\ V[0] = d
        /\ \A i \in 1 .. Len(Modified.code[d.at]) : V[i] = ExecStatement(input, V[i - 1], Modified.code[d.at][i])
        BY <2>3, BehindFacts
  <2> QED
      BY <2>2, <2>3, <2>4 DEF made
<1>7. Tracks(W[0], d, b, 0)
      BY <1>2
<1>8. /\ p[0] = 0 /\ p[m] = N
      /\ \A i \in 0 .. m : p[i] \in 0 .. N
      /\ \A i \in 1 .. m :
           /\ p[i] = p[i - 1] + Len(ss[i])
           /\ \A k \in 1 .. Len(ss[i]) : p[i - 1] + k \in 1 .. N /\ made[p[i - 1] + k] = ss[i][k]
  <2> HIDE DEF ss, made, m
  <2> QED
      BY <1>3, <1>4 DEF Splits
<1> HIDE DEF W, V, m, N, code, made, ss
<1> DEFINE Good(i) == Tracks(W[i], V[p[i]], b, i)
<1>9. Good(0)
      BY <1>6, <1>7, <1>8
<1>10. ASSUME NEW i \in 1 .. m - 1, Good(i - 1) PROVE Good(i)
  <2> DEFINE s == code[i]
             e == V[p[i - 1]]
  <2>1. /\ i \in 1 .. m /\ i - 1 \in 0 .. m - 1 /\ i - 1 \in 0 .. m /\ i # m
        /\ Tracks(W[i - 1], e, b, i - 1) /\ W[i] = ExecStatement(input, W[i - 1], s)
        /\ p[i - 1] \in 0 .. N
    <3>1. i \in 1 .. m /\ i - 1 \in 0 .. m - 1 /\ i - 1 \in 0 .. m /\ i # m
          BY <1>2
    <3> QED
        BY <1>2, <1>8, <1>10, <3>1
  <2>2. s.kind \notin Leaving /\ Covered(W[i - 1].env) /\ (~IsPhi(s) => Uses(s) \subseteq DOMAIN W[i - 1].env)
        /\ i \in DOMAIN ssa.code[b] /\ s = ssa.code[b][i]
        BY <1>2, <2>1 DEF code
  <2>3. \/ Rebuild(s, b) = <<>> /\ Tracks(W[i], e, b, i)
        \/ \E u : Rebuild(s, b) = <<u>> /\ Tracks(W[i], ExecStatement(input, e, u), b, i)
    <3> DEFINE a == W[i - 1]
    <3>1. /\ Sourced(b) /\ Tracks(a, e, b, i - 1) /\ Covered(a.env)
          /\ ~IsPhi(s) => Uses(s) \subseteq DOMAIN a.env
          BY <2>1, <2>2
    <3> HIDE DEF s, e, b, a
    <3>2. \/ Rebuild(s, b) = <<>> /\ Tracks(ExecStatement(input, a, s), e, b, i)
          \/ \E u : Rebuild(s, b) = <<u>> /\ Tracks(ExecStatement(input, a, s), ExecStatement(input, e, u), b, i)
          BY <1>1, <2>2, <3>1, StatementKept
    <3>3. W[i] = ExecStatement(input, a, s)
          BY <2>1 DEF a
    <3> QED
        BY <3>2, <3>3
  <2> HIDE DEF s, e, b
  <2>4. ASSUME Rebuild(s, b) = <<>>, Tracks(W[i], e, b, i) PROVE Good(i)
    <3>1. ss[i] = <<>>
          BY <1>5, <2>1, <2>4 DEF s
    <3>2. Len(ss[i]) = 0
          BY <3>1
    <3>3. p[i] = p[i - 1]
          BY <1>8, <2>1, <3>2
    <3> QED
        BY <2>4, <3>3 DEF e
  <2>5. ASSUME NEW u, Rebuild(s, b) = <<u>>, Tracks(W[i], ExecStatement(input, e, u), b, i) PROVE Good(i)
    <3>1. ss[i] = <<u>>
          BY <1>5, <2>1, <2>5 DEF s
    <3>2. Len(ss[i]) = 1 /\ ss[i][1] = u
          BY <3>1
    <3>3. p[i] = p[i - 1] + 1 /\ p[i] \in 1 .. N /\ made[p[i]] = u /\ p[i] - 1 = p[i - 1]
      <4>1. p[i] = p[i - 1] + 1
            BY <1>8, <2>1, <3>2
      <4>2. 1 \in 1 .. Len(ss[i])
            BY <3>2
      <4>3. p[i - 1] + 1 \in 1 .. N /\ made[p[i - 1] + 1] = ss[i][1]
            BY <1>8, <2>1, <4>2
      <4> QED
          BY <2>1, <3>2, <4>1, <4>3
    <3>4. V[p[i]] = ExecStatement(input, e, u)
          BY <1>6, <3>3 DEF e
    <3> QED
        BY <2>5, <3>4
  <2> QED
      BY <2>3, <2>4, <2>5
<1> DEFINE T == {i \in 0 .. m - 1 : ~Good(i)}
<1>11. ASSUME T # {} PROVE FALSE
  <2> HIDE DEF Good
  <2>1. T \in SUBSET Nat
        BY <1>2
  <2>2. PICK l \in T : \A j \in T : l <= j
    <3> HIDE DEF T
    <3> QED
        BY <1>11, <2>1, LeastElement
  <2>3. l # 0
        BY <1>9, <2>2
  <2>4. l \in 1 .. m - 1 /\ l - 1 \in 0 .. m - 1 /\ l - 1 \notin T
    <3>1. l \in 0 .. m - 1
          OBVIOUS
    <3> HIDE DEF T
    <3> QED
        BY <1>2, <2>2, <2>3, <3>1
  <2>5. Good(l - 1)
        BY <2>4
  <2>6. Good(l)
        BY <1>10, <2>4, <2>5
  <2> QED
      BY <2>2, <2>6
<1>12. m - 1 \in 0 .. m - 1 /\ m \in 1 .. m /\ m - 1 \in 0 .. m
       BY <1>2
<1>13. Tracks(W[m - 1], V[p[m - 1]], b, m - 1)
  <2> HIDE DEF Good
  <2>1. Good(m - 1)
        BY <1>11, <1>12
  <2> QED
      BY <2>1 DEF Good
<1> DEFINE s == code[m]
           e == V[p[m - 1]]
           l == Len(Rebuild(s, b))
           G == [q \in 0 .. l |-> V[p[m - 1] + q]]
<1>14. ss[m] = Rebuild(s, b) /\ p[m] = p[m - 1] + l /\ l \in Nat /\ p[m - 1] \in 0 .. N
  <2>1. ss[m] = Rebuild(s, b)
        BY <1>5, <1>12
  <2>2. Rebuild(s, b) \in Seq(ToSet(Rebuild(s, b)))
    <3>1. m \in DOMAIN ssa.code[b] /\ s = ssa.code[b][m]
          BY <1>2, <1>12 DEF code
    <3> HIDE DEF s, b
    <3> QED
        BY <1>1, <3>1, RebuiltSequence
  <2>3. l \in Nat
    <3> DEFINE r == Rebuild(s, b)
    <3> HIDE DEF r
    <3>1. Len(r) \in Nat
          BY <2>2 DEF r
    <3> QED
        BY <3>1 DEF r
  <2> HIDE DEF s
  <2> QED
      BY <1>8, <1>12, <2>1, <2>3
<1>15. RunsOver(G, input, e, Rebuild(s, b)) /\ G[l] = V[N]
  <2> HIDE DEF s, l
  <2>1. G[0] = V[p[m - 1] + 0] /\ p[m - 1] + 0 = p[m - 1]
        BY <1>14
  <2>2. ASSUME NEW q \in 1 .. l PROVE G[q] = ExecStatement(input, G[q - 1], Rebuild(s, b)[q])
    <3>1. q \in 0 .. l /\ q - 1 \in 0 .. l /\ q \in Nat /\ (p[m - 1] + q) - 1 = p[m - 1] + (q - 1)
          BY <1>14
    <3>2. p[m - 1] + q \in 1 .. N /\ made[p[m - 1] + q] = Rebuild(s, b)[q]
          BY <1>8, <1>12, <1>14 DEF l
    <3>3. V[p[m - 1] + q] = ExecStatement(input, V[(p[m - 1] + q) - 1], made[p[m - 1] + q])
          BY <1>6, <3>2
    <3> QED
        BY <3>1, <3>2, <3>3
  <2>3. l \in 0 .. l /\ G[l] = V[N]
        BY <1>8, <1>14
  <2> HIDE DEF G
  <2> QED
      BY <2>1, <2>2, <2>3 DEF RunsOver, l
<1>16. /\ m \in DOMAIN ssa.code[b] /\ m = Len(ssa.code[b]) /\ s = ssa.code[b][m]
       /\ ~IsPhi(s) /\ Uses(s) \subseteq DOMAIN W[m - 1].env /\ Covered(W[m - 1].env)
       /\ W[m] = ExecStatement(input, W[m - 1], s) /\ s.kind \in Leaving
  <2>1. m \in DOMAIN ssa.code[b] /\ m = Len(ssa.code[b])
        BY <1>2, <1>12 DEF code, m
  <2>2. ~IsPhi(s)
        BY <1>1, <2>1, LastStatement DEF code
  <2> QED
      BY <1>2, <1>12, <2>1, <2>2 DEF code
<1>17. s.kind # "RETURN" => W[m].at \in Targets(value, s)
       BY <1>2, <1>16 DEF Moves
<1>18. s.kind = "RETURN" => W[m].halted
       BY <1>2 DEF Moves
<1> DEFINE end == G[l]
           c1 == W[m - 1]
           c2 == W[m]
<1>19. IsConfiguration(end) /\ Agrees(c2, end) /\ (s.kind # "RETURN" => Tracks(c2, end, b, m) /\ Freshened(b, end.env))
  <2>1. Tracks(c1, e, b, m - 1) /\ RunsOver(G, input, e, Rebuild(s, b))
        BY <1>13, <1>15
  <2>2. c2 = ExecStatement(input, c1, s) /\ Uses(s) \subseteq DOMAIN c1.env /\ Covered(c1.env)
        BY <1>16
  <2>3. m \in DOMAIN ssa.code[b] /\ m = Len(ssa.code[b]) /\ s = ssa.code[b][m]
        BY <1>16
  <2>4. s.kind # "RETURN" => ExecStatement(input, c1, s).at \in Targets(value, s)
        BY <1>17, <2>2
  <2> HIDE DEF c1, c2, e, s, G, b
  <2> QED
      BY <1>1, <2>1, <2>2, <2>3, <2>4, LeaveKept
<1> HIDE DEF G, s, l
<1>20. IsConfiguration(V[N]) /\ Agrees(W[m], V[N]) /\ (~W[m].halted => Tracks(W[m], V[N], b, m) /\ Freshened(b, V[N].env))
       BY <1>15, <1>18, <1>19
<1> QED
    BY <1>20 DEF W, V, m, N, code, made


-----------------------------------------------------------------------------
\* The edges.  What is a phi in the new function is one that remains.
LEMMA RebuiltPhi ==
  ASSUME Ready, NEW b \in Blocks(ssa), NEW i \in DOMAIN ssa.code[b], NEW s, s = ssa.code[b][i],
         NEW k \in 1 .. Len(Rebuild(s, b)), IsPhi(Rebuild(s, b)[k])
  PROVE  IsPhi(s) /\ ~Folded(s) /\ Remains(Rebuild(s, b)[k], s, b)
<1> DEFINE r == Rebuild(s, b)
           u == r[k]
<1>1. WellFormedStatement(ssa, s)
      BY ReadyFacts, GoodStatements DEF GoodStatement
<1>2. \A x : r = <<x>> => u = x
  <2> SUFFICES ASSUME NEW x, r = <<x>> PROVE u = x
      OBVIOUS
  <2>1. Len(<<x>>) = 1 /\ <<x>>[1] = x
        OBVIOUS
  <2>2. Len(r) = 1 /\ r[1] = x /\ k \in 1 .. Len(r)
        BY <2>1
  <2> HIDE DEF r
  <2> QED
      BY <2>2
<1>3. r # <<>>
  <2>1. Len(<<>>) = 0
        OBVIOUS
  <2>2. Len(r) # 0
        OBVIOUS
  <2> HIDE DEF r
  <2> QED
      BY <2>1, <2>2, Zenon
<1>4. IsPhi(Rewritten(s)) => IsPhi(s)
      BY DEF Rewritten, Stm, IsPhi
<1>5. \A x, y : ~IsPhi(Move(x, y)) /\ ~IsPhi(Jump(x))
      BY DEF Move, Jump, Stm, IsPhi
<1>6. ASSUME s.kind \in Leaving PROVE FALSE
  <2>1. ~IsPhi(s)
        BY <1>6 DEF Leaving, IsPhi
  <2>2. r # <<Rewritten(s)>>
        BY <1>2, <1>4, <2>1, Zenon
  <2>3. PICK x : r = FreshMoves(b) \o <<x>> /\ RebuiltExit(x, s, b)
        BY <1>1, <1>6, <2>2, RebuiltLast
  <2>4. ~IsPhi(x)
        BY <1>4, <1>5, <2>1, <2>3, Zenon DEF RebuiltExit
  <2>5. PICK n \in Nat : \E here \in [1 .. n -> 1 .. Len(PhiConstants)] :
          /\ \A h \in 1 .. Len(PhiConstants) : PhiConstants[h].pred = b => \E g \in 1 .. n : here[g] = h
          /\ FreshMoves(b) = [h \in 1 .. n |-> FreshMove(here[h])]
        BY FreshMovesFacts
  <2>6. PICK here \in [1 .. n -> 1 .. Len(PhiConstants)] : FreshMoves(b) = [h \in 1 .. n |-> FreshMove(here[h])]
        BY <2>5
  <2> DEFINE fresh == FreshMoves(b)
             S == {FreshMove(here[h]) : h \in 1 .. n} \cup {x}
  <2>7. fresh \in [1 .. n -> S] /\ x \in S /\ \A h \in 1 .. n : fresh[h] = FreshMove(here[h])
        BY <2>6
  <2> HIDE DEF fresh, S
  <2>8. Len(fresh \o <<x>>) = n + 1 /\ (fresh \o <<x>>)[n + 1] = x
          /\ \A h \in 1 .. n : (fresh \o <<x>>)[h] = fresh[h]
        BY <2>7
  <2>9. k \in 1 .. n + 1 /\ u = (fresh \o <<x>>)[k]
        BY <2>3, <2>8 DEF fresh
  <2>10. CASE k = n + 1
         BY <2>4, <2>8, <2>9, <2>10
  <2>11. CASE k # n + 1
    <3>1. k \in 1 .. n
          BY <2>9, <2>11
    <3>2. u = FreshMove(here[k])
          BY <2>7, <2>8, <2>9, <3>1
    <3> HIDE DEF u
    <3>3. ~IsPhi(u)
          BY <1>5, <3>2 DEF FreshMove
    <3> QED
        BY <3>3 DEF u
  <2> QED
      BY <2>10, <2>11
<1>7. /\ IsPhi(s) /\ Folded(s) => r = <<>>
      /\ IsPhi(s) /\ ~Folded(s) => r = RemainingPhi(s, b)
      /\ ~IsPhi(s) => r = <<>> \/ r = <<Rewritten(s)>>
      BY <1>6, RebuiltInside
<1>8. IsPhi(u)
      OBVIOUS
<1> HIDE DEF u, r
<1>9. IsPhi(s) /\ ~Folded(s) /\ r = RemainingPhi(s, b)
      BY <1>2, <1>3, <1>4, <1>7, <1>8, Zenon
<1>10. \/ RemainingPhi(s, b) = <<>>
       \/ \E x : RemainingPhi(s, b) = <<Move(s.dst, StandIn(s, x))>>
       \/ \E x : RemainingPhi(s, b) = <<x>> /\ Remains(x, s, b)
       BY <1>9, RemainingPhis
<1>11. Remains(u, s, b)
       BY <1>2, <1>3, <1>5, <1>8, <1>9, <1>10, Zenon
<1> QED
    BY <1>9, <1>11 DEF u, r


LEMMA ModifiedPhis ==
  ASSUME Ready, NEW b \in executable
  PROVE  /\ \A q \in DOMAIN Modified.code[b] : IsPhi(Modified.code[b][q]) =>
              \E i \in DOMAIN ssa.code[b] :
                /\ IsPhi(ssa.code[b][i]) /\ ~Folded(ssa.code[b][i])
                /\ Remains(Modified.code[b][q], ssa.code[b][i], b)
         /\ \A i \in DOMAIN ssa.code[b] :
              /\ IsPhi(ssa.code[b][i]) /\ ~Folded(ssa.code[b][i])
              /\ KeptOf(ssa.code[b][i], b) # {} /\ \A k : ~Single(ssa.code[b][i], b, k)
              => \E q \in DOMAIN Modified.code[b] : Remains(Modified.code[b][q], ssa.code[b][i], b)
<1> DEFINE code == ssa.code[b]
           m == Len(code)
           made == Modified.code[b]
           N == Len(made)
           ss == Pieces(b)
<1>1. b \in Blocks(ssa)
      BY ReadyFacts
<1>2. m \in Nat /\ DOMAIN code = 1 .. m
  <2>1. code \in Seq(ToSet(code))
        BY <1>1, ReadyFacts DEF WellFormed
  <2> QED
      BY <2>1
<1>3. Len(ss) = m
      BY ModifiedCode
<1>4. PICK S, p : Splits(made, ss, p, S)
      BY ModifiedCode
<1>5. \A i \in 1 .. m : ss[i] = Rebuild(code[i], b)
      BY <1>2 DEF Pieces
<1>6. \A i \in 1 .. m : Len(ss[i]) \in Nat
  <2> SUFFICES ASSUME NEW i \in 1 .. m PROVE Len(ss[i]) \in Nat
      OBVIOUS
  <2> DEFINE r == Rebuild(code[i], b)
  <2>1. r \in Seq(ToSet(r))
        BY <1>1, <1>2, RebuiltSequence
  <2>2. ss[i] = r
        BY <1>5
  <2> HIDE DEF r, ss
  <2>3. Len(r) \in Nat
        BY <2>1
  <2> QED
      BY <2>2, <2>3
<1>7. N \in Nat /\ DOMAIN made = 1 .. N
  <2>1. made \in Seq(S)
        BY <1>4 DEF Splits
  <2> HIDE DEF made
  <2> QED
      BY <2>1
<1>8. \A i \in 1 .. m : \A k \in 1 .. Len(ss[i]) : \E q \in 1 .. N : made[q] = ss[i][k]
  <2> HIDE DEF made, ss, m
  <2> QED
      BY <1>3, <1>4 DEF Splits
<1>9. \A q \in 1 .. N : \E i \in 1 .. m : \E k \in 1 .. Len(ss[i]) : made[q] = ss[i][k]
  <2> HIDE DEF made, ss, m
  <2>1. Splits(made, ss, p, S) /\ Len(ss) \in Nat /\ \A i \in 1 .. Len(ss) : Len(ss[i]) \in Nat
        BY <1>2, <1>3, <1>4, <1>6
  <2>2. ASSUME NEW q \in 1 .. Len(made)
        PROVE  \E i \in 1 .. Len(ss) : \E k \in 1 .. Len(ss[i]) : made[q] = ss[i][k]
        BY <2>1, SplitsCover
  <2> QED
      BY <1>3, <2>2
<1> HIDE DEF made, ss, m, N
<1>10. ASSUME NEW q \in 1 .. N, IsPhi(made[q])
       PROVE  \E i \in DOMAIN code : IsPhi(code[i]) /\ ~Folded(code[i]) /\ Remains(made[q], code[i], b)
  <2>1. PICK i \in 1 .. m : \E k \in 1 .. Len(ss[i]) : made[q] = ss[i][k]
        BY <1>9
  <2>2. PICK k \in 1 .. Len(ss[i]) : made[q] = ss[i][k]
        BY <2>1
  <2> DEFINE s == code[i]
  <2>3. ss[i] = Rebuild(s, b) /\ i \in DOMAIN ssa.code[b] /\ s = ssa.code[b][i]
        BY <1>2, <1>5
  <2> HIDE DEF s
  <2>4. k \in 1 .. Len(Rebuild(s, b)) /\ IsPhi(Rebuild(s, b)[k]) /\ made[q] = Rebuild(s, b)[k]
        BY <1>10, <2>2, <2>3
  <2>5. IsPhi(s) /\ ~Folded(s) /\ Remains(Rebuild(s, b)[k], s, b)
        BY <1>1, <2>3, <2>4, RebuiltPhi
  <2> QED
      BY <2>3, <2>4, <2>5 DEF s
<1>11. ASSUME NEW i \in DOMAIN code, IsPhi(code[i]), ~Folded(code[i]), KeptOf(code[i], b) # {},
              \A k : ~Single(code[i], b, k)
       PROVE  \E q \in 1 .. N : Remains(made[q], code[i], b)
  <2> DEFINE s == code[i]
  <2>1. \A k : KeptOf(s, b) # {k}
        BY <1>11 DEF Single
  <2>2. PICK u : RemainingPhi(s, b) = <<u>> /\ Remains(u, s, b)
    <3>1. s = ssa.code[b][i] /\ IsPhi(s) /\ KeptOf(s, b) # {} /\ i \in DOMAIN ssa.code[b]
          BY <1>11
    <3> HIDE DEF s
    <3>2. \/ KeptOf(s, b) = {} /\ RemainingPhi(s, b) = <<>>
          \/ \E k : KeptOf(s, b) = {k} /\ RemainingPhi(s, b) = <<Move(s.dst, StandIn(s, k))>>
          \/ /\ \A k : KeptOf(s, b) # {k}
             /\ \E u : RemainingPhi(s, b) = <<u>> /\ Remains(u, s, b)
          BY <1>1, <3>1, RemainingPhis
    <3> QED
        BY <2>1, <3>1, <3>2, Zenon
  <2>3. s.kind \notin Leaving
        BY <1>11 DEF IsPhi, Leaving
  <2>4. Rebuild(s, b) = <<u>>
        BY <1>11, <2>2, <2>3, RebuiltInside
  <2>5. i \in 1 .. m /\ ss[i] = <<u>>
        BY <1>2, <1>5, <2>4
  <2>6. 1 \in 1 .. Len(ss[i]) /\ ss[i][1] = u
    <3>1. Len(<<u>>) = 1 /\ <<u>>[1] = u /\ 1 \in 1 .. 1
          OBVIOUS
    <3> QED
        BY <2>5, <3>1
  <2>7. PICK q \in 1 .. N : made[q] = ss[i][1]
        BY <1>8, <2>5, <2>6
  <2> HIDE DEF s
  <2>8. Remains(made[q], s, b)
        BY <2>2, <2>6, <2>7
  <2> QED
      BY <2>8 DEF s
<1> QED
    BY <1>7, <1>10, <1>11 DEF made, N


\* An executable edge is one of the graph.
LEMMA EdgeExits ==
  ASSUME Ready, NEW a, NEW b, Edge(a, b)
  PROVE  a \in executable /\ a \in Blocks(ssa) /\ b \in Exits(ssa, a)
<1> DEFINE u == Last(ssa.code[a])
<1>1. a \in executable /\ a \in Blocks(ssa) /\ b \in Targets(value, u)
      BY ReadyFacts DEF Edge, IsEdgeExecutable
<1>2. ssa.code[a] \in Seq(ToSet(ssa.code[a])) /\ ssa.code[a] # <<>>
      BY <1>1, ReadyFacts DEF WellFormed
<1>3. Len(ssa.code[a]) \in DOMAIN ssa.code[a] /\ u = ssa.code[a][Len(ssa.code[a])]
      BY <1>2 DEF Last
<1>4. GoodStatement(u)
      BY <1>1, <1>3, ReadyFacts, GoodStatements
<1>5. u.kind = "CJUMP" => {u.labels[1], u.labels[2]} \subseteq ToSet(u.labels)
      BY <1>4 DEF GoodStatement, WellFormedStatement, ToSet
<1>6. b \in ToSet(u.labels)
      BY <1>1, <1>5 DEF Targets
<1> QED
    BY <1>1, <1>6 DEF Exits

\* A phi, at the end of an executable edge: it has one argument for each such edge.
LEMMA PhiEdges ==
  ASSUME Ready, NEW b \in Blocks(ssa), NEW i \in DOMAIN ssa.code[b], NEW s, s = ssa.code[b][i], IsPhi(s)
  PROVE  /\ s.dst # NoTemp /\ s.dst \in Defs(s) /\ s.dst \in Temps(ssa) /\ s.dst \in DefsIn(ssa, b)
         /\ DOMAIN s.src = DOMAIN s.labels
         /\ \A k \in DOMAIN s.src : IsTemp(s.src[k]) /\ s.src[k].temp \in Temps(ssa)
         /\ \A k, l \in DOMAIN s.labels : s.labels[k] = s.labels[l] => k = l
         /\ \A a : Edge(a, b) => \E k \in KeptOf(s, b) : s.labels[k] = a
<1>1. GoodStatement(s) /\ WellFormed(ssa) /\ VerifySsa(ssa, FlowOf(ssa)) /\ executable \subseteq Blocks(ssa)
      BY ReadyFacts, GoodStatements
<1>2. s.kind = "PHI"
      BY DEF IsPhi
<1>3. s.dst # NoTemp /\ s.dst \in Defs(s) /\ s.dst \in Temps(ssa) /\ s.dst \in DefsIn(ssa, b)
  <2>1. s.dst # NoTemp
        BY <1>1, <1>2 DEF GoodStatement, WellFormedStatement, Assigning
  <2>2. s.dst \in Defs(s) /\ s \in ToSet(ssa.code[b])
        BY <2>1 DEF Defs, ToSet
  <2> QED
      BY <1>1, <2>1, <2>2 DEF GoodStatement, DefsIn
<1>4. DOMAIN s.src = DOMAIN s.labels /\ \A k \in DOMAIN s.src : IsTemp(s.src[k]) /\ s.src[k].temp \in Temps(ssa)
  <2>1. /\ s.src \in Seq(ToSet(s.src)) /\ s.labels \in Seq(ToSet(s.labels)) /\ Len(s.src) = Len(s.labels)
        /\ \A k \in DOMAIN s.src : IsTemp(s.src[k])
        BY <1>1, <1>2 DEF GoodStatement, WellFormedStatement
  <2>2. \A k \in DOMAIN s.src : s.src[k].temp \in Uses(s)
        BY <2>1 DEF Uses, ToSet
  <2>3. Uses(s) \subseteq Temps(ssa)
        BY <1>1 DEF GoodStatement
  <2>4. DOMAIN s.src = DOMAIN s.labels
        BY <2>1
  <2> QED
      BY <2>1, <2>2, <2>3, <2>4
<1>5. IsInjective(s.labels) /\ ToSet(s.labels) = FlowOf(ssa).pred[b]
      BY <1>1, VerifiedPhi
<1>6. \A k, l \in DOMAIN s.labels : s.labels[k] = s.labels[l] => k = l
      BY <1>5 DEF IsInjective
<1>7. ASSUME NEW a, Edge(a, b) PROVE \E k \in KeptOf(s, b) : s.labels[k] = a
  <2>1. a \in Blocks(ssa) /\ b \in Targets(value, Last(ssa.code[a]))
        BY <1>1, <1>7 DEF Edge, IsEdgeExecutable
  <2>2. b \in Exits(ssa, a)
        BY <1>7, EdgeExits
  <2>3. a \in FlowOf(ssa).pred[b]
        BY <2>1, <2>2 DEF FlowOf
  <2>4. PICK k \in DOMAIN s.labels : s.labels[k] = a
        BY <1>5, <2>3 DEF ToSet
  <2> QED
      BY <1>4, <1>7, <2>4 DEF KeptOf
<1> QED
    BY <1>3, <1>4, <1>6, <1>7

\* If something flows into a phi that is not folded away, its value is not known.
LEMMA PhiUnfolded ==
  ASSUME Ready, NEW b \in executable, NEW i \in DOMAIN ssa.code[b], NEW s, s = ssa.code[b][i],
         IsPhi(s), ~Folded(s), NEW k \in KeptOf(s, b), value[s.src[k].temp] # {}
  PROVE  value[s.dst] = ManyValues
<1> DEFINE J == {l \in DOMAIN s.src : IsEdgeExecutable(value, executable, s.labels[l], b)}
           inputs == {EvalTerm(value, s.src[l]) : l \in J}
<1>1. /\ b \in Blocks(ssa) /\ value \in [Temps(ssa) -> Lattice] /\ Quiet(b)
      /\ Known.value = value /\ Known.executable = executable
      BY ReadyFacts DEF Known
<1>2. s.dst # NoTemp /\ s.dst \in Defs(s) /\ s.dst \in Temps(ssa) /\ \A l \in DOMAIN s.src : IsTemp(s.src[l])
      BY <1>1, PhiEdges
<1>3. EvalPhi(value, executable, s, b) = IF NoValue \in inputs THEN ManyValues
                                 ELSE IF Cardinality(inputs) <= 1 THEN UNION inputs ELSE ManyValues
      BY DEF EvalPhi
<1>4. value[s.src[k].temp] \in inputs
  <2>1. k \in J
        BY DEF KeptOf, Edge
  <2>2. EvalTerm(value, s.src[k]) = value[s.src[k].temp]
        BY <1>2, <2>1 DEF EvalTerm
  <2> HIDE DEF J
  <2> QED
      BY <2>1, <2>2
<1> HIDE DEF inputs
<1>5. ManyValues # {}
      BY WordsTwo DEF ManyValues
<1>6. EvalPhi(value, executable, s, b) # {}
      BY <1>3, <1>4, <1>5
<1>7. EvalPhi(value, executable, s, b) \subseteq value[s.dst]
  <2>1. Settled(Known, s, b)
        BY <1>1 DEF Quiet
  <2>2. s.kind = "PHI" /\ Defs(s) # {}
        BY <1>2 DEF IsPhi
  <2> HIDE DEF Known
  <2> QED
      BY <1>1, <2>1, <2>2 DEF Settled, Assigned
<1>8. value[s.dst] # {} /\ ~IsOne(value[s.dst]) /\ value[s.dst] \in Lattice
      BY <1>1, <1>2, <1>6, <1>7 DEF Folded
<1>9. \A c : IsOne({c})
      BY FS_Singleton DEF IsOne
<1> QED
    BY <1>8, <1>9 DEF Lattice, ManyValues


\* A run is never in a block that only blocks it dominates lead to: it was not there
\* without having been there before.  Where it is, is on a way that avoids such blocks.
Off(b) ==
  \A y \in Blocks(ssa) \ {Entry(ssa)} :
    (\A a : Edge(a, y) => y \in FlowOf(ssa).dom[a]) => b \in ReachAvoiding(ssa, {y})

LEMMA OffStart ==
  ASSUME Ready
  PROVE  Off(Entry(ssa)) /\ Sourced(Entry(ssa))
<1>1. WellFormed(ssa)
      BY ReadyFacts
<1>2. \A y \in Blocks(ssa) \ {Entry(ssa)} : Entry(ssa) \in ReachAvoiding(ssa, {y})
      BY <1>1, WalkLimit
<1>3. \A j \in DOMAIN ssa.code[Entry(ssa)] : ~IsPhi(ssa.code[Entry(ssa)][j])
      BY <1>1 DEF WellFormed
<1>4. Sourced(Entry(ssa))
      BY <1>3, Zenon DEF Sourced, Single
<1>5. Off(Entry(ssa))
      BY <1>2, Zenon DEF Off
<1> QED
    BY <1>4, <1>5

LEMMA OffKept ==
  ASSUME Ready, NEW a, NEW b \in Blocks(ssa), Edge(a, b), Off(a)
  PROVE  Off(b) /\ Sourced(b)
<1>1. WellFormed(ssa) /\ VerifySsa(ssa, FlowOf(ssa)) /\ a \in Blocks(ssa) /\ b \in Exits(ssa, a)
      BY ReadyFacts, EdgeExits
<1>2. ASSUME NEW y \in Blocks(ssa) \ {Entry(ssa)}, \A x : Edge(x, y) => y \in FlowOf(ssa).dom[x]
      PROVE  a \in ReachAvoiding(ssa, {y}) /\ a # y /\ b # y
  <2>1. a \in ReachAvoiding(ssa, {y})
        BY <1>2, Zenon DEF Off
  <2>2. a # y
        BY <1>1, <2>1, WalkLimit
  <2>3. y \notin FlowOf(ssa).dom[a]
        BY <1>1, <2>1, <2>2, DominatorsOnWay
  <2>4. b # y
        BY <1>2, <2>3
  <2> QED
      BY <2>1, <2>2, <2>4
<1>3. Off(b)
  <2> SUFFICES ASSUME NEW y \in Blocks(ssa) \ {Entry(ssa)}, \A x : Edge(x, y) => y \in FlowOf(ssa).dom[x]
               PROVE  b \in ReachAvoiding(ssa, {y})
      BY Zenon DEF Off
  <2>1. a \in ReachAvoiding(ssa, {y}) /\ b # y
        BY <1>2
  <2>2. (Exits(ssa, a) \cap Blocks(ssa)) \ {y} \subseteq ReachAvoiding(ssa, {y})
        BY <1>1, <2>1, WalkLimit
  <2> QED
      BY <1>1, <2>1, <2>2
<1>4. Sourced(b)
  <2> SUFFICES ASSUME NEW j \in DOMAIN ssa.code[b], NEW k, Single(ssa.code[b][j], b, k)
               PROVE  Substitute(ssa.code[b][j].src[k].temp, ssa.code[b][j].labels[k]) \notin DefsIn(ssa, b)
      BY Zenon DEF Sourced
  <2> DEFINE s == ssa.code[b][j]
             t == s.src[k].temp
             from == s.labels[k]
  <2>1. IsPhi(s) /\ KeptOf(s, b) = {k}
        BY DEF Single
  <2>2. /\ DOMAIN s.src = DOMAIN s.labels
        /\ \A l \in DOMAIN s.src : s.src[l].temp \in Temps(ssa)
        /\ \A x : Edge(x, b) => \E l \in KeptOf(s, b) : s.labels[l] = x
        BY <2>1, PhiEdges
  <2>3. k \in DOMAIN s.src /\ Edge(from, b) /\ \A x : Edge(x, b) => x = from
        BY <2>1, <2>2 DEF KeptOf
  <2>4. from = a
        BY <2>3
  <2>5. b # Entry(ssa)
        BY <1>1, <2>1 DEF WellFormed
  <2>6. ASSUME t \in DefsIn(ssa, b) PROVE FALSE
    <3>1. PICK l \in DOMAIN ssa.code[b] : t \in Defs(ssa.code[b][l])
          BY <2>6 DEF DefsIn, ToSet
    <3>2. t \notin Params(ssa) /\ \A e \in Blocks(ssa) : \A i \in DOMAIN ssa.code[e] : t \in Defs(ssa.code[e][i]) => e = b
          BY <1>1, <3>1, DefinedOnce
    <3>3. \/ t \in Params(ssa)
          \/ \E e \in Blocks(ssa) : \E i \in DOMAIN ssa.code[e] :
               t \in Defs(ssa.code[e][i]) /\ e \in FlowOf(ssa).dom[from]
          BY <1>1, <2>1, <2>3, VerifiedPhi
    <3>4. b \in FlowOf(ssa).dom[a]
          BY <2>4, <3>2, <3>3
    <3>5. \A x : Edge(x, b) => b \in FlowOf(ssa).dom[x]
          BY <2>3, <2>4, <3>4
    <3> QED
        BY <1>2, <2>5, <3>5
  <2>7. DefsIn(ssa, b) \subseteq Temps(ssa)
    <3> SUFFICES ASSUME NEW x \in DefsIn(ssa, b) PROVE x \in Temps(ssa)
        OBVIOUS
    <3>1. PICK l \in DOMAIN ssa.code[b] : x \in Defs(ssa.code[b][l])
          BY DEF DefsIn, ToSet
    <3>2. GoodStatement(ssa.code[b][l])
          BY <1>1, GoodStatements
    <3> QED
        BY <3>1, <3>2 DEF GoodStatement
  <2> HIDE DEF t, from
  <2>8. CASE Substitute(t, from) = t
        BY <2>6, <2>8 DEF t, from
  <2>9. CASE \E n \in 1 .. Len(PhiConstants) : Substitute(t, from) = ssa.lastTemp + n
    <3>1. PICK n \in 1 .. Len(PhiConstants) : Substitute(t, from) = ssa.lastTemp + n
          BY <2>9
    <3>2. ssa.lastTemp + n \notin Temps(ssa)
      <4>1. ssa.lastTemp \in Nat /\ Temps(ssa) \subseteq 0 .. ssa.lastTemp /\ n \in Nat \ {0}
        <5>1. Len(PhiConstants) \in Nat
              BY AllConstants
        <5> QED
            BY <5>1, ReadyFacts
      <4> QED
          BY <4>1
    <3> QED
        BY <2>7, <3>1, <3>2 DEF t, from
  <2>10. Substitute(t, from) = t \/ \E n \in 1 .. Len(PhiConstants) : Substitute(t, from) = ssa.lastTemp + n
         BY SubstituteFacts, Zenon
  <2> QED
      BY <2>8, <2>9, <2>10
<1> QED
    BY <1>3, <1>4


\* At the end of a block the temps whose value is not known are the same,
SameUnknown(v, w) == \A t \in Temps(ssa) : IsOne(value[t]) \/ Value(w, Temp(t)) = Value(v, Temp(t))

\* and what stands for an argument of a phi holds what the argument holds.
LEMMA ArgumentKept ==
  ASSUME Ready, NEW b \in executable, NEW i \in DOMAIN ssa.code[b], NEW s, s = ssa.code[b][i],
         IsPhi(s), ~Folded(s), NEW k \in KeptOf(s, b), NEW v, NEW w,
         Covered(v), s.src[k].temp \in DOMAIN v, Freshened(s.labels[k], w), SameUnknown(v, w)
  PROVE  Value(w, StandIn(s, k)) = Value(v, s.src[k])
<1> DEFINE t == s.src[k].temp
           a == s.labels[k]
           cs == PhiConstants
<1>1. /\ b \in Blocks(ssa) /\ value \in [Temps(ssa) -> Lattice]
      /\ k \in DOMAIN s.src /\ Edge(a, b) /\ IsTemp(s.src[k]) /\ t \in Temps(ssa)
  <2>1. b \in Blocks(ssa) /\ value \in [Temps(ssa) -> Lattice]
        BY ReadyFacts
  <2>2. k \in DOMAIN s.src /\ Edge(a, b)
        BY DEF KeptOf
  <2> QED
      BY <2>1, <2>2, PhiEdges
<1>2. Value(v, s.src[k]) = v[t] /\ v[t] \in value[t] /\ Value(v, Temp(t)) = v[t]
      BY <1>1 DEF Value, Covered, Temp, IsTemp
<1>3. value[s.dst] = ManyValues
      BY <1>2, PhiUnfolded
<1>4. StandIn(s, k) = Temp(Substitute(t, a))
      BY DEF StandIn
<1>5. Freshened(a, w)
      OBVIOUS
<1>6. IsOne(value[t]) => \E n \in 1 .. Len(cs) : cs[n] = [src |-> t, pred |-> a]
  <2>1. Provided(cs, s, b)
        BY AllConstants
  <2>2. IsOne(value[t]) => \E n \in 1 .. Len(cs) : cs[n] = ConstantFor(s, k)
        BY <1>1, <1>3, <2>1 DEF Provided
  <2> QED
      BY <2>2 DEF ConstantFor
<1> HIDE DEF t, a
<1>7. CASE Substitute(t, a) = t /\ ~IsOne(value[t])
  <2>1. Value(w, Temp(t)) = Value(v, Temp(t))
        BY <1>1, <1>7, Zenon DEF SameUnknown
  <2> QED
      BY <1>2, <1>4, <1>7, <2>1
<1>8. ASSUME NEW n \in 1 .. Len(cs), cs[n] = [src |-> t, pred |-> a], Substitute(t, a) = ssa.lastTemp + n
      PROVE  Value(w, StandIn(s, k)) = Value(v, s.src[k])
  <2>1. cs[n].src = t /\ cs[n].pred = a
        BY <1>8
  <2>2. Value(w, Temp(ssa.lastTemp + n)) = TheOne(value[t])
        BY <1>5, <2>1 DEF Freshened
  <2>3. IsOne(value[t])
    <3>1. cs \in Seq(Constants)
          BY AllConstants
    <3> HIDE DEF cs
    <3>2. cs[n] \in Constants
          BY <3>1
    <3> QED
        BY <2>1, <3>2 DEF Constants
  <2>4. v[t] = TheOne(value[t])
    <3>1. value[t] \in Lattice
          BY <1>1
    <3>2. PICK x \in Word : value[t] = {x} /\ TheOne(value[t]) = x
          BY <2>3, <3>1, OneWord
    <3> QED
        BY <1>2, <3>2
  <2> QED
      BY <1>2, <1>4, <1>8, <2>2, <2>4
<1>9. \/ Substitute(t, a) = t /\ \A n \in 1 .. Len(cs) : cs[n] # [src |-> t, pred |-> a]
      \/ \E n \in 1 .. Len(cs) : cs[n] = [src |-> t, pred |-> a] /\ Substitute(t, a) = ssa.lastTemp + n
      BY SubstituteFacts, Zenon
<1> HIDE DEF cs
<1> QED
    BY <1>6, <1>7, <1>8, <1>9


\* The two runs over the edge from block a.
LEMMA EdgeKept ==
  ASSUME Ready, NEW a \in executable, NEW c, NEW d, IsConfiguration(c), IsConfiguration(d), Agrees(c, d),
         c.at \in executable, Edge(a, c.at), Off(a),
         Covered(c.env), SameUnknown(c.env, d.env), Freshened(a, d.env),
         \A s \in ToSet(ssa.code[c.at]) : \A j \in DOMAIN s.labels :
           IsPhi(s) /\ s.labels[j] = a => s.src[j].temp \in DOMAIN c.env
  PROVE  LET x == ExecPhis(ssa, c, a)
             z == ExecPhis(Modified, d, a)
         IN Tracks(x, z, c.at, 0) /\ Off(c.at) /\ Sourced(c.at)
<1> DEFINE b == c.at
           v == c.env
           w == d.env
           x == ExecPhis(ssa, c, a)
           z == ExecPhis(Modified, d, a)
           old(i) == ssa.code[b][i]
           made(q) == Modified.code[b][q]
           Old(i, k) == TakesOver(ssa, c, a, i, k)
           New(q, h) == TakesOver(Modified, d, a, q, h)
<1>1. /\ IsConfiguration(x) /\ Agrees(c, x)
      /\ \A u : \/ \E i, k : /\ Old(i, k) /\ old(i).dst = u
                             /\ Value(x.env, Temp(u)) = Value(v, old(i).src[k])
                \/ /\ ~ \E i, k : Old(i, k) /\ old(i).dst = u
                   /\ Value(x.env, Temp(u)) = Value(v, Temp(u))
  <2>1. Arrives(ssa, c, a, x)
        BY PhiValues
  <2> QED
      BY <2>1, Zenon DEF Arrives
<1>2. /\ IsConfiguration(z) /\ Agrees(d, z)
      /\ \A u : \/ \E q, h : /\ New(q, h) /\ made(q).dst = u
                             /\ Value(z.env, Temp(u)) = Value(w, made(q).src[h])
                \/ /\ ~ \E q, h : New(q, h) /\ made(q).dst = u
                   /\ Value(z.env, Temp(u)) = Value(w, Temp(u))
  <2>1. Arrives(Modified, d, a, z)
        BY PhiValues
  <2> DEFINE Taken(code) ==
               \A u : \/ \E q, h : /\ New(q, h) /\ code[q].dst = u
                                  /\ Value(z.env, Temp(u)) = Value(w, code[q].src[h])
                     \/ /\ ~ \E q, h : New(q, h) /\ code[q].dst = u
                        /\ Value(z.env, Temp(u)) = Value(w, Temp(u))
  <2>2. Modified.code[d.at] = Modified.code[b]
        BY DEF Agrees
  <2> HIDE DEF z
  <2>3. IsConfiguration(z) /\ Agrees(d, z) /\ Taken(Modified.code[d.at])
        BY <2>1, Zenon DEF Arrives
  <2>4. Taken(Modified.code[b])
    <3> HIDE DEF Taken
    <3> QED
        BY <2>2, <2>3
  <2> QED
      BY <2>3, <2>4, Zenon
<1>3. b \in Blocks(ssa) /\ Off(b) /\ Sourced(b)
      BY ReadyFacts, OffKept
<1>4. \A i, k : Old(i, k) => /\ i \in DOMAIN ssa.code[b] /\ IsPhi(old(i))
                             /\ k \in KeptOf(old(i), b) /\ k \in DOMAIN old(i).labels /\ old(i).labels[k] = a
  <2> SUFFICES ASSUME NEW i, NEW k, Old(i, k)
               PROVE  /\ i \in DOMAIN ssa.code[b] /\ IsPhi(old(i))
                      /\ k \in KeptOf(old(i), b) /\ k \in DOMAIN old(i).labels /\ old(i).labels[k] = a
      OBVIOUS
  <2>1. i \in DOMAIN ssa.code[b] /\ IsPhi(old(i)) /\ k \in DOMAIN old(i).labels /\ old(i).labels[k] = a
        BY DEF TakesOver
  <2>2. k \in DOMAIN old(i).src
        BY <1>3, <2>1, PhiEdges
  <2> QED
      BY <2>1, <2>2 DEF KeptOf
<1>5. \A i, k : i \in DOMAIN ssa.code[b] /\ IsPhi(old(i)) /\ k \in KeptOf(old(i), b) /\ old(i).labels[k] = a => Old(i, k)
  <2> SUFFICES ASSUME NEW i \in DOMAIN ssa.code[b], IsPhi(old(i)), NEW k \in KeptOf(old(i), b), old(i).labels[k] = a
               PROVE  Old(i, k)
      OBVIOUS
  <2>1. k \in DOMAIN old(i).src
        BY DEF KeptOf
  <2>2. k \in DOMAIN old(i).labels
        BY <1>3, <2>1, PhiEdges
  <2> QED
      BY <2>2 DEF TakesOver
<1>6. \A q, h : New(q, h) => \E i, k : /\ Old(i, k) /\ ~Folded(old(i)) /\ made(q).dst = old(i).dst
                                       /\ made(q).src[h] = StandIn(old(i), k)
  <2> SUFFICES ASSUME NEW q, NEW h, New(q, h)
               PROVE  \E i, k : /\ Old(i, k) /\ ~Folded(old(i)) /\ made(q).dst = old(i).dst
                                /\ made(q).src[h] = StandIn(old(i), k)
      OBVIOUS
  <2>1. q \in DOMAIN Modified.code[b] /\ IsPhi(made(q)) /\ h \in DOMAIN made(q).labels /\ made(q).labels[h] = a
        BY DEF TakesOver, Agrees
  <2>2. PICK i \in DOMAIN ssa.code[b] : IsPhi(old(i)) /\ ~Folded(old(i)) /\ Remains(made(q), old(i), b)
        BY <2>1, ModifiedPhis
  <2>3. made(q).dst = old(i).dst
          /\ \E k \in KeptOf(old(i), b) : made(q).labels[h] = old(i).labels[k] /\ made(q).src[h] = StandIn(old(i), k)
        BY <2>1, <2>2, Zenon DEF Remains
  <2>4. PICK k \in KeptOf(old(i), b) : made(q).labels[h] = old(i).labels[k] /\ made(q).src[h] = StandIn(old(i), k)
        BY <2>3
  <2>5. Old(i, k)
        BY <1>5, <2>1, <2>2, <2>4
  <2> HIDE DEF Old, old, made
  <2> QED
      BY <2>2, <2>3, <2>4, <2>5, Zenon
<1>7. \A i, k : Old(i, k) /\ ~Folded(old(i)) /\ (\A l : ~Single(old(i), b, l)) =>
        \E q, h : New(q, h) /\ made(q).dst = old(i).dst
  <2> SUFFICES ASSUME NEW i, NEW k, Old(i, k), ~Folded(old(i)), \A l : ~Single(old(i), b, l)
               PROVE  \E q, h : New(q, h) /\ made(q).dst = old(i).dst
      OBVIOUS
  <2>1. i \in DOMAIN ssa.code[b] /\ IsPhi(old(i)) /\ k \in KeptOf(old(i), b) /\ old(i).labels[k] = a
        BY <1>4
  <2>2. PICK q \in DOMAIN Modified.code[b] : Remains(made(q), old(i), b)
        BY <2>1, ModifiedPhis
  <2>3. PICK h \in DOMAIN made(q).labels : made(q).labels[h] = a
        BY <2>1, <2>2, Zenon DEF Remains
  <2>4. d.at = b
        BY DEF Agrees
  <2>5. IsPhi(made(q)) /\ made(q).dst = old(i).dst
        BY <2>2, Zenon DEF Remains
  <2>6. New(q, h)
        BY <2>3, <2>4, <2>5 DEF TakesOver
  <2> QED
      BY <2>5, <2>6
<1>8. \A i, k : Old(i, k) /\ ~Folded(old(i)) => Value(w, StandIn(old(i), k)) = Value(v, old(i).src[k])
  <2> SUFFICES ASSUME NEW i, NEW k, Old(i, k), ~Folded(old(i))
               PROVE  Value(w, StandIn(old(i), k)) = Value(v, old(i).src[k])
      OBVIOUS
  <2> DEFINE s == old(i)
  <2>1. i \in DOMAIN ssa.code[b] /\ IsPhi(s) /\ k \in KeptOf(s, b) /\ k \in DOMAIN s.labels /\ s.labels[k] = a
        BY <1>4
  <2>2. s.src[k].temp \in DOMAIN v
    <3>1. s \in ToSet(ssa.code[b])
          BY <2>1 DEF ToSet
    <3> QED
        BY <2>1, <3>1
  <2>3. Freshened(s.labels[k], w) /\ SameUnknown(v, w) /\ Covered(v) /\ b \in executable /\ ~Folded(s)
          /\ s = ssa.code[b][i]
        BY <2>1
  <2> HIDE DEF s, b, v, w
  <2>4. Value(w, StandIn(s, k)) = Value(v, s.src[k])
        BY <2>1, <2>2, <2>3, ArgumentKept
  <2> QED
      BY <2>4 DEF s, b, v, w
<1>9. \A i, k, j, l : Old(i, k) /\ Old(j, l) /\ old(i).dst = old(j).dst => i = j /\ k = l
  <2> SUFFICES ASSUME NEW i, NEW k, NEW j, NEW l, Old(i, k), Old(j, l), old(i).dst = old(j).dst
               PROVE  i = j /\ k = l
      OBVIOUS
  <2>1. /\ i \in DOMAIN ssa.code[b] /\ IsPhi(old(i)) /\ k \in DOMAIN old(i).labels /\ old(i).labels[k] = a
        /\ j \in DOMAIN ssa.code[b] /\ IsPhi(old(j)) /\ l \in DOMAIN old(j).labels /\ old(j).labels[l] = a
        BY <1>4
  <2>2. old(i).dst \in Defs(old(i)) /\ old(j).dst \in Defs(old(j))
          /\ \A y1, y2 \in DOMAIN old(i).labels : old(i).labels[y1] = old(i).labels[y2] => y1 = y2
        BY <1>3, <2>1, PhiEdges
  <2>3. WellFormed(ssa) /\ VerifySsa(ssa, FlowOf(ssa))
        BY ReadyFacts
  <2>4. i = j
    <3> DEFINE t == old(i).dst
    <3>1. t \in Defs(ssa.code[b][i]) /\ t \in Defs(ssa.code[b][j])
          BY <2>2
    <3> HIDE DEF t, b
    <3> QED
        BY <1>3, <2>1, <2>3, <3>1, DefinedOnce
  <2> QED
      BY <2>1, <2>2, <2>4
<1>10. \A j \in DOMAIN ssa.code[b] : \A k : Single(old(j), b, k) => Old(j, k) /\ ~Folded(old(j)) /\ j > 0
  <2> SUFFICES ASSUME NEW j \in DOMAIN ssa.code[b], NEW k, Single(old(j), b, k)
               PROVE  Old(j, k) /\ ~Folded(old(j)) /\ j > 0
      OBVIOUS
  <2>1. IsPhi(old(j)) /\ ~Folded(old(j)) /\ KeptOf(old(j), b) = {k}
        BY Zenon DEF Single
  <2>2. \E l \in KeptOf(old(j), b) : old(j).labels[l] = a
        BY <1>3, <2>1, PhiEdges
  <2>3. Old(j, k)
        BY <1>5, <2>1, <2>2
  <2>4. j > 0
    <3>1. ssa.code[b] \in Seq(ToSet(ssa.code[b]))
          BY <1>3, ReadyFacts DEF WellFormed
    <3> QED
        BY <3>1
  <2> QED
      BY <2>1, <2>3, <2>4
<1> HIDE DEF x, z, b, v, w, old, made, Old, New
<1>11. SameValues(x.env, z.env, b, 0)
  <2> SUFFICES ASSUME NEW t \in Temps(ssa), ~IsOne(value[t]), ~Awaits(b, 0, t)
               PROVE  Value(z.env, Temp(t)) = Value(x.env, Temp(t))
      BY Zenon DEF SameValues
  <2>1. Value(w, Temp(t)) = Value(v, Temp(t))
        BY Zenon DEF SameUnknown, v, w
  <2>2. ASSUME NEW i, NEW k, Old(i, k), old(i).dst = t, Value(x.env, Temp(t)) = Value(v, old(i).src[k])
        PROVE  Value(z.env, Temp(t)) = Value(x.env, Temp(t))
    <3>1. ~Folded(old(i))
          BY <2>2, Zenon DEF Folded
    <3>2. \A l : ~Single(old(i), b, l)
      <4>1. ASSUME NEW l, Single(old(i), b, l) PROVE FALSE
        <5>1. i \in DOMAIN ssa.code[b] /\ i > 0
              BY <1>4, <1>10, <2>2, <4>1, Zenon
        <5> QED
            BY <2>2, <4>1, <5>1, Zenon DEF Awaits, old
      <4> QED
          BY <4>1
    <3>3. \E q, h : New(q, h) /\ made(q).dst = t
      <4>1. \E q, h : New(q, h) /\ made(q).dst = old(i).dst
            BY <1>7, <2>2, <3>1, <3>2, Zenon
      <4> QED
          BY <2>2, <4>1, Zenon
    <3>4. PICK q, h : New(q, h) /\ made(q).dst = t /\ Value(z.env, Temp(t)) = Value(w, made(q).src[h])
      <4>1. \/ \E q, h : /\ New(q, h) /\ made(q).dst = t
                         /\ Value(z.env, Temp(t)) = Value(w, made(q).src[h])
            \/ /\ ~ \E q, h : New(q, h) /\ made(q).dst = t
               /\ Value(z.env, Temp(t)) = Value(w, Temp(t))
            BY <1>2, Zenon
      <4> QED
          BY <3>3, <4>1, Zenon
    <3>5. PICK j, l : /\ Old(j, l) /\ ~Folded(old(j)) /\ made(q).dst = old(j).dst
                      /\ made(q).src[h] = StandIn(old(j), l)
          BY <1>6, <3>4, Zenon
    <3>6. j = i /\ l = k
          BY <1>9, <2>2, <3>4, <3>5, Zenon
    <3> QED
        BY <1>8, <2>2, <3>1, <3>4, <3>5, <3>6, Zenon
  <2>3. ASSUME ~ \E i, k : Old(i, k) /\ old(i).dst = t, Value(x.env, Temp(t)) = Value(v, Temp(t))
        PROVE  Value(z.env, Temp(t)) = Value(x.env, Temp(t))
    <3>1. ~ \E q, h : New(q, h) /\ made(q).dst = t
          BY <1>6, <2>3, Zenon
    <3> QED
        BY <1>2, <2>1, <2>3, <3>1, Zenon
  <2> QED
      BY <1>1, <2>2, <2>3, Zenon
<1>12. SameAwaited(x.env, z.env, b, 0)
  <2> SUFFICES ASSUME NEW j \in DOMAIN ssa.code[b], NEW k, Single(old(j), b, k)
               PROVE  Value(z.env, StandIn(old(j), k)) = Value(x.env, Temp(old(j).dst))
      BY Zenon DEF SameAwaited, old
  <2>1. Old(j, k) /\ ~Folded(old(j))
        BY <1>10, Zenon
  <2>2. PICK i, l : /\ Old(i, l) /\ old(i).dst = old(j).dst
                    /\ Value(x.env, Temp(old(j).dst)) = Value(v, old(i).src[l])
        BY <1>1, <2>1, Zenon
  <2>3. i = j /\ l = k
        BY <1>9, <2>1, <2>2, Zenon
  <2>4. Value(x.env, Temp(old(j).dst)) = Value(w, StandIn(old(j), k))
        BY <1>8, <2>1, <2>2, <2>3, Zenon
  <2> DEFINE t == Substitute(old(j).src[k].temp, old(j).labels[k])
  <2>5. t \notin DefsIn(ssa, b)
        BY <1>3, Zenon DEF Sourced, old
  <2>6. ASSUME NEW q, NEW h, New(q, h), made(q).dst = t PROVE FALSE
    <3>1. PICK i1, k1 : Old(i1, k1) /\ made(q).dst = old(i1).dst
          BY <1>6, <2>6, Zenon
    <3>2. i1 \in DOMAIN ssa.code[b] /\ IsPhi(old(i1))
          BY <1>4, <3>1, Zenon
    <3>3. old(i1).dst \in DefsIn(ssa, b)
          BY <1>3, <3>2, PhiEdges DEF old
    <3> QED
        BY <2>5, <2>6, <3>1, <3>3
  <2>7. Value(z.env, Temp(t)) = Value(w, Temp(t))
        BY <1>2, <2>6, Zenon
  <2> QED
      BY <2>4, <2>7 DEF StandIn
<1>13. Agrees(x, z)
       BY <1>1, <1>2 DEF Agrees
<1>14. Tracks(x, z, b, 0)
       BY <1>1, <1>2, <1>11, <1>12, <1>13, Zenon DEF Tracks
<1> QED
    BY <1>3, <1>14 DEF x, z, b


-----------------------------------------------------------------------------
\* The whole run.  Once it has ended nothing more is said of the frames.
KeepsUp(c, d) ==
  /\ IsConfiguration(c) /\ IsConfiguration(d) /\ Agrees(c, d)
  /\ ~c.halted => Tracks(c, d, c.at, 0) /\ Off(c.at) /\ Sourced(c.at)

\* The two runs over a block and the edge that leaves it.
LEMMA StepKept ==
  ASSUME Ready, NEW input, NEW n \in Nat, YieldsWords(ssa, input, n), ReadsAssigned(ssa, input, n),
         NEW c \in Configurations(ssa, input, n), Inside(c), ~c.halted, NEW d, KeepsUp(c, d)
  PROVE  KeepsUp(ExecBlock(ssa, input, c), ExecBlock(Modified, input, d))
<1> DEFINE a == c.at
           code == ssa.code[a]
           m == Len(code)
           W == AlongBlock(ssa, input, c)
           x == W[m]
           y == AlongBlock(Modified, input, d)[Len(Modified.code[a])]
<1>1. /\ a \in executable /\ a \in Blocks(ssa) /\ Quiet(a)
      /\ Tracks(c, d, a, 0) /\ Off(a) /\ Sourced(a) /\ d.at = a
      BY ReadyFacts DEF Inside, KeepsUp, Agrees
<1>2. /\ m \in DOMAIN code /\ code[m].kind \in Leaving
      /\ Moves(W[m - 1], code[m], x)
      /\ ~x.halted => \A s \in ToSet(ssa.code[x.at]) : \A j \in DOMAIN s.labels :
           IsPhi(s) /\ s.labels[j] = a => s.src[j].temp \in DOMAIN x.env
      /\ ExecBlock(ssa, input, c) = IF x.halted THEN x ELSE ExecPhis(ssa, x, a)
  <2>1. /\ m \in Nat \ {0} /\ DOMAIN code = 1 .. m
        /\ \A i \in 1 .. m : code[i].kind \in Leaving <=> i = m
        /\ Moves(W[m - 1], code[m], x)
        /\ ~x.halted => \A s \in ToSet(ssa.code[x.at]) : \A j \in DOMAIN s.labels :
             IsPhi(s) /\ s.labels[j] = a => s.src[j].temp \in DOMAIN x.env
        /\ ExecBlock(ssa, input, c) = IF x.halted THEN x ELSE ExecPhis(ssa, x, a)
    <3>1. SweepInv /\ stage = "modify"
          BY DEF Ready
    <3>2. StaysInside(input, c)
          BY <3>1, BlockInside
    <3>3. \A i \in 1 .. m : GoodStatement(code[i]) /\ (code[i].kind \in Leaving <=> i = m)
          BY <3>2, Zenon DEF StaysInside
    <3>4. \A i \in 1 .. m : code[i].kind \in Leaving <=> i = m
          BY <3>3, Zenon
    <3> QED
        BY <3>2, <3>4, Zenon DEF StaysInside
  <2> HIDE DEF W, m, code, x, a
  <2>2. m \in 1 .. m
        BY <2>1
  <2> QED
      BY <2>1, <2>2
<1>3. ExecBlock(Modified, input, d) = IF y.halted THEN y ELSE ExecPhis(Modified, y, a)
      BY <1>1 DEF ExecBlock, BlockBy, AlongBlock
<1>4. IsConfiguration(y) /\ Agrees(x, y) /\ (~x.halted => Tracks(x, y, a, m) /\ Freshened(a, y.env))
  <2>1. Tracks(c, d, c.at, 0) /\ Sourced(c.at)
        BY <1>1
  <2> QED
      BY <2>1, BlockKept
<1>5. IsConfiguration(x) /\ Covered(x.env) /\ (code[m].kind = "RETURN" => x.halted)
        /\ (code[m].kind # "RETURN" => x.at \in Targets(value, code[m]))
      BY <1>2 DEF Moves
<1>6. m \in DOMAIN ssa.code[a] /\ m = Len(ssa.code[a])
      BY <1>2
<1>7. Last(ssa.code[a]) = code[m] /\ \A t : ~Awaits(a, m, t)
      BY <1>1, <1>6, LastStatement
<1>8. Settled(Known, code[m], a)
      BY <1>1, <1>6 DEF Quiet
<1> HIDE DEF x, y, m, W, code, a
<1>9. CASE x.halted
  <2>1. y.halted
        BY <1>4, <1>9 DEF Agrees
  <2> QED
      BY <1>2, <1>3, <1>4, <1>5, <1>9, <2>1 DEF KeepsUp
<1>10. CASE ~x.halted
  <2> DEFINE x2 == ExecPhis(ssa, x, a)
             y2 == ExecPhis(Modified, y, a)
  <2>1. ExecBlock(ssa, input, c) = x2 /\ ExecBlock(Modified, input, d) = y2
    <3>1. ~y.halted
          BY <1>4, <1>10 DEF Agrees
    <3> QED
        BY <1>2, <1>3, <1>10, <3>1
  <2>2. x.at \in Targets(value, code[m]) /\ x.at \in executable /\ Edge(a, x.at)
    <3>1. x.at \in Targets(value, code[m]) /\ code[m].kind \in {"JUMP", "CJUMP", "FALL"}
          BY <1>2, <1>5, <1>10 DEF Leaving
    <3>2. Targets(value, code[m]) \subseteq executable
          BY <1>8, <3>1 DEF Settled, Known
    <3> QED
        BY <1>1, <1>7, <3>1, <3>2 DEF Edge, IsEdgeExecutable
  <2>3. Tracks(x, y, a, m) /\ Freshened(a, y.env)
        BY <1>4, <1>10
  <2>4. SameUnknown(x.env, y.env)
        BY <1>7, <2>3, Zenon DEF Tracks, SameValues, SameUnknown
  <2>5. \A s \in ToSet(ssa.code[x.at]) : \A j \in DOMAIN s.labels :
          IsPhi(s) /\ s.labels[j] = a => s.src[j].temp \in DOMAIN x.env
        BY <1>2, <1>10
  <2>6. Tracks(x2, y2, x.at, 0) /\ Off(x.at) /\ Sourced(x.at)
        BY <1>1, <1>4, <1>5, <2>2, <2>3, <2>4, <2>5, EdgeKept
  <2>7. x2.at = x.at
    <3>1. Arrives(ssa, x, a, x2)
          BY <1>5, PhiValues
    <3> QED
        BY <3>1 DEF Arrives, Agrees
  <2> HIDE DEF x2, y2
  <2> QED
      BY <2>1, <2>6, <2>7 DEF KeepsUp, Tracks
<1> QED
    BY <1>9, <1>10

\* In front of the entry the frames are the same, and nothing waits.
LEMMA StartKept ==
  ASSUME Ready, NEW input
  PROVE  KeepsUp(Start(ssa, input), Start(Modified, input))
<1> DEFINE c == Start(ssa, input)
           d == Start(Modified, input)
           b == Entry(ssa)
<1>1. Modified.params = ssa.params /\ Modified.order = Only(ssa.order, executable)
      BY DEF Modified, Function
<1>2. Entry(Modified) = b
  <2>1. ssa.order \in Seq(Blocks(ssa)) /\ ssa.order # <<>> /\ ssa.order[1] \in executable
        BY ReadyFacts DEF WellFormed, Entry
  <2>2. Selects(Modified.order, ssa.order, executable, Blocks(ssa))
        BY <1>1, <2>1, OnlyFacts
  <2> QED
      BY <2>1, <2>2 DEF Entry, Selects
<1>3. d = c
      BY <1>1, <1>2 DEF Start
<1>4. IsConfiguration(c) /\ c.at = b
      BY DEF Start, IsConfiguration
<1> HIDE DEF c, d
<1>5. Off(b) /\ Sourced(b)
      BY OffStart
<1>6. \A j \in DOMAIN ssa.code[b] : ~IsPhi(ssa.code[b][j])
      BY ReadyFacts DEF WellFormed
<1>7. \A j \in DOMAIN ssa.code[b] : \A k : ~Single(ssa.code[b][j], b, k)
      BY <1>6, Zenon DEF Single
<1>8. Tracks(c, c, b, 0)
      BY <1>4, <1>7 DEF Tracks, Agrees, SameValues, SameAwaited
<1>9. KeepsUp(c, d)
      BY <1>3, <1>4, <1>5, <1>8 DEF KeepsUp, Agrees
<1> QED
    BY <1>9 DEF c, d

\* And so every run of what modifyFunc builds keeps up with the run it replaces.
LEMMA ModifiedKeepsRuns ==
  ASSUME Ready, NEW input, NEW n \in Nat, YieldsWords(ssa, input, n)
  PROVE  Agrees(After(ssa, input, n)[n], After(Modified, input, n)[n])
<1> DEFINE R == After(ssa, input, n)
           Q == After(Modified, input, n)
           T == {k \in 0 .. n : ~KeepsUp(R[k], Q[k])}
<1>1. R[0] = Start(ssa, input) /\ \A i \in 1 .. n : R[i] = Onward(ssa, input, R[i - 1])
      BY AfterFacts
<1>2. Q[0] = Start(Modified, input) /\ \A i \in 1 .. n : Q[i] = Onward(Modified, input, Q[i - 1])
      BY AfterFacts
<1>3. ReadsAssigned(ssa, input, n)
      BY ReadyFacts, VerifiedReads
<1>4. \A k \in 0 .. n : R[k] \in Configurations(ssa, input, n) /\ Inside(R[k])
  <2>1. \A k \in 0 .. n : R[k] \in Configurations(ssa, input, n)
        BY DEF Configurations
  <2> HIDE DEF R
  <2> QED
      BY <1>3, <2>1, RunsInside DEF Ready
<1> HIDE DEF R, Q
<1>5. ASSUME T # {} PROVE FALSE
  <2>1. T \in SUBSET Nat
        OBVIOUS
  <2>2. PICK l \in T : \A j \in T : l <= j
    <3> HIDE DEF T
    <3> QED
        BY <1>5, <2>1, LeastElement
  <2>3. l # 0
        BY <1>1, <1>2, <2>2, StartKept
  <2>4. l \in 1 .. n /\ l - 1 \in 0 .. n /\ l - 1 \notin T
    <3>1. l \in 0 .. n
          OBVIOUS
    <3> HIDE DEF T
    <3> QED
        BY <2>2, <2>3, <3>1
  <2>5. KeepsUp(R[l - 1], Q[l - 1]) /\ Inside(R[l - 1]) /\ R[l - 1] \in Configurations(ssa, input, n)
        BY <1>4, <2>4
  <2>6. R[l - 1].halted = Q[l - 1].halted
        BY <2>5 DEF KeepsUp, Agrees
  <2>7. KeepsUp(R[l], Q[l])
    <3>1. CASE R[l - 1].halted
      <4>1. R[l] = R[l - 1] /\ Q[l] = Q[l - 1]
            BY <1>1, <1>2, <2>4, <2>6, <3>1 DEF Onward
      <4> QED
          BY <2>5, <4>1
    <3>2. CASE ~R[l - 1].halted
      <4>1. R[l] = ExecBlock(ssa, input, R[l - 1]) /\ Q[l] = ExecBlock(Modified, input, Q[l - 1])
            BY <1>1, <1>2, <2>4, <2>6, <3>2 DEF Onward
      <4> QED
          BY <1>3, <2>5, <3>2, <4>1, StepKept
    <3> QED
        BY <3>1, <3>2
  <2> QED
      BY <2>2, <2>7
<1>6. n \in 0 .. n
      OBVIOUS
<1>7. KeepsUp(R[n], Q[n])
      BY <1>5, <1>6
<1> QED
    BY <1>7 DEF KeepsUp, R, Q


\* Both functions go through the same blocks, show the same events and end alike, on
\* every input and for as long as one likes, while what the reads yield are words.
RunsAlike(f, g) ==
  \A input : \A n \in Nat :
    YieldsWords(f, input, n) => Agrees(After(f, input, n)[n], After(g, input, n)[n])

Propagated ==
  stage = "done" /\ VerifySsa(ssa, FlowOf(ssa)) /\ Numbered(ssa) => RunsAlike(ssa, optimized)

\* modifyFunc changes no run of a function in SSA form: the blocks it drops are never
\* entered, each use it replaces has the value it is replaced by, the phis it thins out or
\* turns into moves take over the same values, and the fresh temps hold the constants they
\* stand for on every edge that reads them (Opt::modifyFunc).
THEOREM PropagationKeepsRuns == Spec => []Propagated
<1>1. SccpInit => Propagated
      BY DEF SccpInit, Propagated
<1>2. SweepInv /\ Propagated /\ [Next]_sccpVars => Propagated'
  <2> SUFFICES ASSUME SweepInv, Propagated, [Next]_sccpVars, stage' = "done",
                      VerifySsa(ssa', FlowOf(ssa')), Numbered(ssa')
               PROVE  RunsAlike(ssa', optimized')
      BY DEF Propagated
  <2>1. CASE ModifyFunc
    <3>1. stage = "modify" /\ ssa' = ssa /\ optimized' = Modified
          BY <2>1 DEF ModifyFunc
    <3>2. Ready
      <4>1. VerifySsa(ssa, FlowOf(ssa)) /\ Numbered(ssa)
            BY <3>1
      <4> QED
          BY <3>1, <4>1 DEF Ready
    <3>3. RunsAlike(ssa, Modified)
          BY <3>2, ModifiedKeepsRuns DEF RunsAlike
    <3> QED
        BY <3>1, <3>3
  <2>2. CASE UNCHANGED sccpVars
    <3>1. stage = "done" /\ ssa' = ssa /\ optimized' = optimized
          BY <2>2 DEF sccpVars
    <3>2. VerifySsa(ssa, FlowOf(ssa)) /\ Numbered(ssa)
          BY <3>1
    <3> QED
        BY <3>1, <3>2 DEF Propagated
  <2>3. ~ (\E f : WellFormed(f) /\ SccpBegin(f)) /\ ~Take /\ ~VisitBlock /\ ~EndSweep
    <3>1. ~VisitBlock
          BY DEF VisitBlock
    <3>2. ~EndSweep
          BY DEF EndSweep
    <3> QED
        BY <3>1, <3>2 DEF SccpBegin, Take
  <2> QED
      BY <2>1, <2>2, <2>3 DEF Next, SccpSteps
<1> QED
    BY <1>1, <1>2, SweepsInvariant, PTL DEF Spec

=============================================================================
