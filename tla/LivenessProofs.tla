--------------------------- MODULE LivenessProofs ---------------------------
(***************************************************************************)
(* computeLiveness for every function: whenever the sweeps stop they have  *)
(* reached the least solution of the block equations.                      *)
(***************************************************************************)
EXTENDS Liveness, Induction

\* Program and sets are well typed, the index is in range.
LEMMA NewTypes ==
  ASSUME TypeOK, prog \in Programs, NEW b \in Blocks
  PROVE  NewOut(b) \in SUBSET Temps /\ NewIn(b) \in SUBSET Temps
<1>1. prog.exits[b] \subseteq Blocks
      BY ProgramsAssumption DEF Blocks
<1>2. NewOut(b) \in SUBSET Temps
      BY <1>1 DEF TypeOK, NewOut
<1> QED
    BY <1>2 DEF NewIn, BlockUse

Typed == TypeOK /\ prog \in Programs

LEMMA TypedInit == Init => Typed
<1> SUFFICES ASSUME Init PROVE Typed
    OBVIOUS
<1>1. changed \in BOOLEAN /\ phase \in {"sweep", "done"}
      BY DEF Init
<1>3. index \in 0 .. NumBlocks
  <2>1. index = NumBlocks
        BY DEF Init
  <2> QED
      BY <2>1, BlocksAssumption
<1>2. liveIn \in [Blocks -> SUBSET Temps] /\ liveOut \in [Blocks -> SUBSET Temps]
      BY DEF Init
<1> QED
    BY <1>1, <1>2, <1>3 DEF Init, Typed, TypeOK

LEMMA TypedStep == Typed /\ [Next]_vars => Typed'
<1> SUFFICES ASSUME Typed, [Next]_vars PROVE Typed'
    OBVIOUS
<1> USE DEF Typed
<1>1. CASE Update
  <2>1. index \in Blocks
        BY <1>1, BlocksAssumption DEF Update, TypeOK, Blocks
  <2>2. NewOut(index) \in SUBSET Temps /\ NewIn(index) \in SUBSET Temps
        BY <2>1, NewTypes
  <2>3. liveIn' \in [Blocks -> SUBSET Temps] /\ liveOut' \in [Blocks -> SUBSET Temps]
        BY <1>1, <2>2 DEF Update, TypeOK
  <2>4. changed' \in BOOLEAN
        BY <1>1 DEF Update
  <2>5. index' \in 0 .. NumBlocks
        BY <1>1, BlocksAssumption DEF Update, TypeOK
  <2> QED
      BY <1>1, <2>3, <2>4, <2>5 DEF Update, TypeOK
<1>2. CASE EndSweep
  <2>1. changed' \in BOOLEAN /\ phase' \in {"sweep", "done"}
        BY <1>2 DEF EndSweep
  <2>3. index' \in 0 .. NumBlocks
    <3>1. index' = NumBlocks
          BY <1>2 DEF EndSweep
    <3> QED
        BY <3>1, BlocksAssumption
  <2>2. prog' = prog /\ liveIn' = liveIn /\ liveOut' = liveOut
        BY <1>2 DEF EndSweep
  <2> QED
      BY <2>1, <2>2, <2>3 DEF TypeOK, Blocks
<1>3. CASE UNCHANGED vars
      BY <1>3 DEF vars, TypeOK
<1> QED
    BY <1>1, <1>2, <1>3 DEF Next, Terminated

\* The type invariant of the analysis.
THEOREM LivenessTypes == Spec => []TypeOK
<1>1. Typed => TypeOK
      BY DEF Typed
<1> QED
    BY <1>1, TypedInit, TypedStep, PTL DEF Spec

LEMMA SweepInit == Init => SweepInv
BY BlocksAssumption DEF Init, SweepInv, Blocks

LEMMA SweepStep == Typed /\ SweepInv /\ [Next]_vars => SweepInv'
<1> SUFFICES ASSUME Typed, SweepInv, [Next]_vars PROVE SweepInv'
    OBVIOUS
<1>1. CASE Update
  <2> SUFFICES ASSUME ~changed', NEW b \in Blocks, b > index'
               PROVE  liveOut'[b] = NewOut(b)' /\ liveIn'[b] = NewIn(b)'
      BY <1>1 DEF Update, SweepInv
  <2>1. index \in Blocks /\ index' = index - 1 /\ b \in Int
        BY <1>1, BlocksAssumption DEF Update, Typed, TypeOK, Blocks
  \* nothing changed, so the step wrote back what was there
  <2>2. ~changed /\ NewOut(index) = liveOut[index] /\ NewIn(index) = liveIn[index]
        BY <1>1 DEF Update
  <2>3. liveIn' = liveIn /\ liveOut' = liveOut /\ prog' = prog
        BY <1>1, <2>1, <2>2 DEF Update, Typed, TypeOK
  <2>4. liveOut[b] = NewOut(b) /\ liveIn[b] = NewIn(b)
    <3>1. CASE b > index
          BY <2>2, <3>1 DEF SweepInv
    <3>2. CASE b = index
          BY <2>2, <3>2
    <3> QED
        BY <2>1, <3>1, <3>2 DEF Blocks
  <2> QED
      BY <2>3, <2>4 DEF NewOut, NewIn, BlockUse, BlockDef
<1>2. CASE EndSweep
  <2>1. prog' = prog /\ liveIn' = liveIn /\ liveOut' = liveOut
        BY <1>2 DEF EndSweep
  <2>2. CASE changed
    <3>1. index' = NumBlocks /\ phase' = "sweep"
          BY <1>2, <2>2 DEF EndSweep
    <3> QED
        BY <3>1, BlocksAssumption DEF SweepInv, Blocks
  <2>3. CASE ~changed
    <3>1. \A b \in Blocks : liveOut[b] = NewOut(b) /\ liveIn[b] = NewIn(b)
          BY <1>2, <2>3, BlocksAssumption DEF EndSweep, SweepInv, Blocks
    <3> QED
        BY <2>1, <3>1 DEF SweepInv, NewOut, NewIn, BlockUse, BlockDef
  <2> QED
      BY <2>2, <2>3
<1>3. CASE UNCHANGED vars
      BY <1>3 DEF vars, SweepInv, NewOut, NewIn, BlockUse, BlockDef
<1> QED
    BY <1>1, <1>2, <1>3 DEF Next, Terminated

\* When the sweeps stop, every equation holds, of the blocks at the start
\* of the list as well, whose successors' sets were computed before them.
THEOREM StopsSolved == Spec => []StopsAtSolution
<1>1. SweepInv => StopsAtSolution
      BY DEF SweepInv, StopsAtSolution, Solves, NewOut, NewIn
<1> QED
    BY <1>1, TypedInit, TypedStep, SweepInit, SweepStep, PTL DEF Spec

LEMMA BelowInit == Init => BelowSolutions
BY DEF Init, BelowSolutions

LEMMA BelowStep == Typed /\ BelowSolutions /\ [Next]_vars => BelowSolutions'
<1> SUFFICES ASSUME Typed, BelowSolutions, [Next]_vars,
                    NEW in \in [Blocks -> SUBSET Temps],
                    NEW out \in [Blocks -> SUBSET Temps],
                    Solves(in, out)'
             PROVE  \A b \in Blocks : liveIn'[b] \subseteq in[b] /\ liveOut'[b] \subseteq out[b]
    BY DEF BelowSolutions
<1>1. prog' = prog
      BY DEF Next, Update, EndSweep, Terminated, vars
<1>2. Solves(in, out)
      BY <1>1 DEF Solves, BlockUse, BlockDef
<1>3. \A b \in Blocks : liveIn[b] \subseteq in[b] /\ liveOut[b] \subseteq out[b]
      BY <1>2 DEF BelowSolutions
<1>4. CASE Update
  <2>1. index \in Blocks
        BY <1>4, BlocksAssumption DEF Update, Typed, TypeOK, Blocks
  <2>2. prog.exits[index] \subseteq Blocks
        BY <2>1, ProgramsAssumption DEF Blocks, Typed
  \* the operators that compute a set are monotone
  <2>3. NewOut(index) \subseteq out[index]
        BY <1>2, <1>3, <2>1, <2>2 DEF NewOut, Solves
  <2>4. NewIn(index) \subseteq in[index]
        BY <1>2, <2>1, <2>3 DEF NewIn, Solves
  <2>5. liveIn' = [liveIn EXCEPT ![index] = NewIn(index)]
          /\ liveOut' = [liveOut EXCEPT ![index] = NewOut(index)]
        BY <1>4 DEF Update
  <2> QED
      BY <1>3, <2>1, <2>3, <2>4, <2>5 DEF Typed, TypeOK
<1>5. CASE ~Update
      BY <1>3, <1>5 DEF Next, EndSweep, Terminated, vars
<1> QED
    BY <1>4, <1>5

\* At no time does a set hold more than a solution of the equations, so the
\* solution the sweeps stop at is the least one.
THEOREM LeastSolution == Spec => []BelowSolutions
BY TypedInit, TypedStep, BelowInit, BelowStep, PTL DEF Spec

-----------------------------------------------------------------------------
(* The sets of the statements, against the paths of the function.          *)

Length(b) == Len(prog.stms[b])

\* What the walk back through block b makes of the set O at its end.
Spreads(b, O, G) ==
  /\ G \in [1 .. Length(b) + 1 -> SUBSET Temps]
  /\ G[Length(b) + 1] = O
  /\ \A k \in 1 .. Length(b) :
       G[k] = (G[k + 1] \ prog.stms[b][k].def) \cup prog.stms[b][k].use

LEMMA StatementTypes ==
  ASSUME prog \in Programs, NEW b \in Blocks
  PROVE  /\ prog.exits[b] \subseteq Blocks
         /\ Length(b) \in Nat
         /\ \A k \in 1 .. Length(b) :
              prog.stms[b][k].use \subseteq Temps /\ prog.stms[b][k].def \subseteq Temps
<1>1. prog.stms[b] \in Seq([use : SUBSET Temps, def : SUBSET Temps])
      BY ProgramsAssumption DEF Blocks
<1>2. prog.exits[b] \subseteq Blocks
      BY ProgramsAssumption DEF Blocks
<1>3. Length(b) \in Nat /\ \A k \in 1 .. Length(b) :
        prog.stms[b][k] \in [use : SUBSET Temps, def : SUBSET Temps]
  <2> DEFINE R == [use : SUBSET Temps, def : SUBSET Temps]
             s == prog.stms[b]
  <2>1. s \in Seq(R)
        BY <1>1
  <2> HIDE DEF R, s
  <2>2. Len(s) \in Nat /\ \A k \in 1 .. Len(s) : s[k] \in R
        BY <2>1
  <2> QED
      BY <2>2 DEF Length, R, s
<1> QED
    BY <1>2, <1>3

\* The set at the end of a block determines those of its statements.
LEMMA SpreadUnique ==
  ASSUME prog \in Programs, NEW b \in Blocks, NEW O, NEW G, NEW H,
         Spreads(b, O, G), Spreads(b, O, H)
  PROVE  \A k \in 1 .. Length(b) + 1 : G[k] = H[k]
<1>1. Length(b) \in Nat
      BY StatementTypes
<1> DEFINE L == Length(b)
           T == {n \in 0 .. L : G[L + 1 - n] # H[L + 1 - n]}
<1>2. ASSUME T # {} PROVE FALSE
  <2>1. T \in SUBSET Nat
        BY <1>1
  <2>2. PICK m \in T : \A n \in T : m <= n
    <3> HIDE DEF T
    <3> QED
        BY <1>2, <2>1, LeastElement
  <2>3. m # 0
        BY <1>1, <2>2 DEF Spreads
  <2>4. m - 1 \in 0 .. L /\ m - 1 \notin T /\ L + 1 - m \in 1 .. L
          /\ L + 1 - (m - 1) = (L + 1 - m) + 1
        BY <1>1, <2>2, <2>3
  <2>5. G[(L + 1 - m) + 1] = H[(L + 1 - m) + 1]
        BY <2>4
  <2>6. G[L + 1 - m] = H[L + 1 - m]
        BY <2>4, <2>5 DEF Spreads
  <2> QED
      BY <2>2, <2>6
<1>3. ASSUME NEW k \in 1 .. L + 1 PROVE G[k] = H[k]
  <2>1. L + 1 - k \in 0 .. L /\ L + 1 - (L + 1 - k) = k
        BY <1>1
  <2>2. L + 1 - k \notin T
        BY <1>2
  <2> QED
      BY <2>1, <2>2
<1> QED
    BY <1>3

\* What is used at place k or later before it is defined, and what is not
\* defined there at all.
UsedFrom(b, k) ==
  {v \in Temps : \E i \in k .. Length(b) :
     v \in prog.stms[b][i].use /\ \A j \in k .. i - 1 : v \notin prog.stms[b][j].def}
KeptFrom(b, k) == {v \in Temps : \A i \in k .. Length(b) : v \notin prog.stms[b][i].def}

\* At the head of the block the walk has made of O what NewIn makes of it.
LEMMA SpreadFirst ==
  ASSUME prog \in Programs, NEW b \in Blocks, NEW O \in SUBSET Temps, NEW G, Spreads(b, O, G)
  PROVE  G[1] = BlockUse(b) \cup (O \ BlockDef(b))
<1> DEFINE L == Length(b)
           s == prog.stms[b]
           H == [k \in 1 .. L + 1 |-> UsedFrom(b, k) \cup (O \cap KeptFrom(b, k))]
<1>1. L \in Nat /\ \A k \in 1 .. L : s[k].use \subseteq Temps /\ s[k].def \subseteq Temps
      BY StatementTypes
<1> HIDE DEF L
<1>2. H \in [1 .. L + 1 -> SUBSET Temps]
      BY DEF UsedFrom, KeptFrom
<1>3. H[L + 1] = O
  <2>1. UsedFrom(b, L + 1) = {} /\ KeptFrom(b, L + 1) = Temps
        BY <1>1 DEF UsedFrom, KeptFrom, L
  <2> QED
      BY <1>1, <2>1
<1>4. ASSUME NEW k \in 1 .. L PROVE H[k] = (H[k + 1] \ s[k].def) \cup s[k].use
  <2>1. k \in 1 .. L + 1 /\ k + 1 \in 1 .. L + 1
        BY <1>1
  <2>2. \A i \in Int : i \in k .. L <=> i = k \/ i \in k + 1 .. L
        BY <1>1
  <2>3. KeptFrom(b, k) = KeptFrom(b, k + 1) \ s[k].def
        BY <1>1, <2>2 DEF KeptFrom, L
  <2>4. UsedFrom(b, k) = (UsedFrom(b, k + 1) \ s[k].def) \cup s[k].use
    <3>1. ASSUME NEW v \in Temps, v \in s[k].use PROVE v \in UsedFrom(b, k)
      <4>1. k \in k .. L /\ \A j \in k .. k - 1 : v \notin s[j].def
            BY <1>1
      <4> QED
          BY <3>1, <4>1 DEF UsedFrom, L
    <3>2. ASSUME NEW v \in UsedFrom(b, k + 1), v \notin s[k].def PROVE v \in UsedFrom(b, k)
      <4>1. PICK i \in k + 1 .. L : v \in s[i].use /\ \A j \in k + 1 .. i - 1 : v \notin s[j].def
            BY DEF UsedFrom, L
      <4>2. i \in k .. L /\ \A j \in k .. i - 1 : j = k \/ j \in k + 1 .. i - 1
            BY <1>1
      <4>3. \A j \in k .. i - 1 : v \notin s[j].def
            BY <3>2, <4>1, <4>2
      <4> QED
          BY <4>1, <4>2, <4>3 DEF UsedFrom, L
    <3>3. ASSUME NEW v \in UsedFrom(b, k), v \notin s[k].use
          PROVE  v \in UsedFrom(b, k + 1) /\ v \notin s[k].def
      <4>1. PICK i \in k .. L : v \in s[i].use /\ \A j \in k .. i - 1 : v \notin s[j].def
            BY DEF UsedFrom, L
      <4>2. i \in k + 1 .. L /\ k \in k .. i - 1 /\ \A j \in k + 1 .. i - 1 : j \in k .. i - 1
            BY <1>1, <3>3, <4>1
      <4> QED
          BY <4>1, <4>2 DEF UsedFrom, L
    <3>4. UsedFrom(b, k) \subseteq Temps /\ UsedFrom(b, k + 1) \subseteq Temps
          BY DEF UsedFrom
    <3> QED
        BY <1>1, <3>1, <3>2, <3>3, <3>4
  <2>5. H[k] = UsedFrom(b, k) \cup (O \cap KeptFrom(b, k))
          /\ H[k + 1] = UsedFrom(b, k + 1) \cup (O \cap KeptFrom(b, k + 1))
        BY <2>1
  <2> HIDE DEF H, s
  <2> QED
      BY <2>3, <2>4, <2>5
<1>5. Spreads(b, O, H)
  <2> HIDE DEF H
  <2> QED
      BY <1>2, <1>3, <1>4 DEF Spreads, L
<1>6. 1 \in 1 .. L + 1
      BY <1>1
<1>7. G[1] = H[1]
  <2> HIDE DEF H
  <2> QED
      BY <1>5, <1>6, SpreadUnique DEF L
<1>8. UsedFrom(b, 1) = BlockUse(b)
      BY DEF UsedFrom, BlockUse, Length
<1>9. O \cap KeptFrom(b, 1) = O \ BlockDef(b)
      BY DEF KeptFrom, BlockDef, Length
<1> QED
    BY <1>6, <1>7, <1>8, <1>9

\* Live is the walk back from the live-out set.
LEMMA LiveSpreads ==
  ASSUME prog \in Programs, NEW b \in Blocks, liveOut[b] \in SUBSET Temps
  PROVE  \E G : Spreads(b, liveOut[b], G) /\ \A k : Live(b, k) = G[k]
<1> DEFINE L == Length(b)
           s == prog.stms[b]
           S == 1 .. L + 1
           V == SUBSET Temps
           rank == [j \in S |-> L + 1 - j]
           stop == {L + 1}
           base == [j \in S |-> liveOut[b]]
           next == [j \in S |-> IF j = L + 1 THEN j ELSE j + 1]
           step == [j \in S |-> [X \in V |-> IF j = L + 1 THEN X ELSE (X \ s[j].def) \cup s[j].use]]
           before == CHOOSE G : G = [j \in 1 .. Len(s) + 1 |->
                       IF j = Len(s) + 1 THEN liveOut[b] ELSE (G[j + 1] \ s[j].def) \cup s[j].use]
<1>1. L \in Nat /\ \A k \in 1 .. L : s[k].use \subseteq Temps /\ s[k].def \subseteq Temps
      BY StatementTypes
<1> HIDE DEF L, s
<1>2. \A j \in S \ stop : j \in 1 .. L /\ j + 1 \in S /\ next[j] = j + 1 /\ rank[next[j]] < rank[j]
      BY <1>1
<1>3. rank \in [S -> 0 .. L] /\ stop \in SUBSET S /\ base \in [S -> V] /\ next \in [S -> S]
      BY <1>1
<1>4. step \in [S -> [V -> V]]
  <2> SUFFICES ASSUME NEW j \in S, NEW X \in V, j # L + 1 PROVE (X \ s[j].def) \cup s[j].use \in V
      OBVIOUS
  <2> QED
      BY <1>1
<1>5. Descends(S, V, L, rank, stop, base, next, step)
  <2> HIDE DEF S, V, rank, stop, base, next, step
  <2> QED
      BY <1>1, <1>2, <1>3, <1>4 DEF Descends
<1>6. PICK g \in [S -> V] : \A j \in S : g[j] = IF j \in stop THEN base[j] ELSE step[j][g[next[j]]]
  <2> HIDE DEF S, V, rank, stop, base, next, step
  <2> QED
      BY <1>5, Recursion
<1>7. ASSUME NEW j \in S
      PROVE  g[j] = IF j = L + 1 THEN liveOut[b] ELSE (g[j + 1] \ s[j].def) \cup s[j].use
  <2>1. CASE j = L + 1
        BY <1>6, <2>1
  <2>2. CASE j # L + 1
    <3>1. next[j] = j + 1 /\ g[j + 1] \in V
          BY <1>2, <2>2
    <3>2. g[j] = step[j][g[j + 1]]
          BY <1>6, <2>2, <3>1
    <3> QED
        BY <2>2, <3>1, <3>2
  <2> QED
      BY <2>1, <2>2
<1>8. g = [j \in 1 .. Len(s) + 1 |->
             IF j = Len(s) + 1 THEN liveOut[b] ELSE (g[j + 1] \ s[j].def) \cup s[j].use]
      BY <1>7 DEF L, Length, s
<1>9. before = [j \in 1 .. Len(s) + 1 |->
                  IF j = Len(s) + 1 THEN liveOut[b] ELSE (before[j + 1] \ s[j].def) \cup s[j].use]
      BY <1>8
<1>10. \A k : Live(b, k) = before[k]
       BY DEF Live, s
<1> HIDE DEF before
<1>11. \A j \in S : before[j] = IF j = L + 1 THEN liveOut[b] ELSE (before[j + 1] \ s[j].def) \cup s[j].use
       BY <1>9 DEF L, Length, s
\* the sets are of temporaries, all the way back
<1>20. L + 1 \in S /\ \A k \in 1 .. L : k \in S /\ k + 1 \in S /\ k # L + 1
       BY <1>1
<1> DEFINE T == {n \in 0 .. L : before[L + 1 - n] \notin V}
<1>12. ASSUME T # {} PROVE FALSE
  <2>1. T \in SUBSET Nat
        BY <1>1
  <2>2. PICK m \in T : \A n \in T : m <= n
    <3> HIDE DEF T
    <3> QED
        BY <1>12, <2>1, LeastElement
  <2>3. m \in 0 .. L /\ before[L + 1 - m] \notin V
        OBVIOUS
  <2>4. m # 0
    <3>1. before[L + 1] \in V
          BY <1>11, <1>20
    <3>2. L + 1 - 0 = L + 1
          BY <1>1
    <3> QED
        BY <2>3, <3>1, <3>2
  <2>5. m - 1 \in 0 .. L /\ L + 1 - m \in 1 .. L /\ L + 1 - (m - 1) = (L + 1 - m) + 1 /\ ~ (m <= m - 1)
        BY <1>1, <2>3, <2>4
  <2>6. before[L + 1 - (m - 1)] \in V
        BY <2>2, <2>5
  <2> DEFINE k == L + 1 - m
  <2>7. k \in 1 .. L /\ before[k + 1] \in V
        BY <2>5, <2>6
  <2> HIDE DEF k
  <2>8. before[k] = (before[k + 1] \ s[k].def) \cup s[k].use
        BY <1>11, <1>20, <2>7
  <2>9. before[k] \in V
        BY <1>1, <2>7, <2>8
  <2> QED
      BY <2>3, <2>9 DEF k
<1>13. ASSUME NEW j \in S PROVE before[j] \in V
  <2>1. L + 1 - j \in 0 .. L /\ L + 1 - (L + 1 - j) = j
        BY <1>1
  <2>2. L + 1 - j \notin T
        BY <1>12
  <2> QED
      BY <2>1, <2>2
<1> HIDE DEF S
<1>14. before \in [S -> V]
       BY <1>9, <1>13 DEF L, Length, s, S
<1>15. before[L + 1] = liveOut[b] /\ \A k \in 1 .. L : before[k] = (before[k + 1] \ s[k].def) \cup s[k].use
       BY <1>11, <1>20
<1>16. Spreads(b, liveOut[b], before)
       BY <1>14, <1>15 DEF Spreads, L, s, S
<1> QED
    BY <1>10, <1>16

-----------------------------------------------------------------------------
(* The paths.                                                              *)

LEMMA PlacesFinite == ASSUME prog \in Programs PROVE IsFiniteSet(Places)
<1>1. ASSUME NEW b \in Blocks PROVE IsFiniteSet({b} \X (1 .. Len(prog.stms[b]) + 1))
  <2>1. Length(b) \in Nat
        BY StatementTypes
  <2>2. IsFiniteSet(1 .. Length(b) + 1)
        BY <2>1, FS_Interval
  <2>3. IsFiniteSet({b})
        BY FS_Singleton
  <2> QED
      BY <2>2, <2>3, FS_Product DEF Length
<1> DEFINE Columns == {{b} \X (1 .. Len(prog.stms[b]) + 1) : b \in Blocks}
<1>2. IsFiniteSet(Blocks)
      BY BlocksAssumption, FS_Interval DEF Blocks
<1>3. IsFiniteSet(Columns)
  <2> DEFINE column == [b \in Blocks |-> {b} \X (1 .. Len(prog.stms[b]) + 1)]
  <2>1. column \in Surjection(Blocks, Columns)
        BY DEF Surjection
  <2> QED
      BY <1>2, <2>1, FS_Surjection
<1>4. \A C \in Columns : IsFiniteSet(C)
      BY <1>1
<1> HIDE DEF Columns
<1>5. IsFiniteSet(UNION Columns)
      BY <1>3, <1>4, FS_UNION
<1> QED
    BY <1>5 DEF Places, Columns

\* Where v is used, and where control goes on to X with v as it is.
UsedAt(v) == {p \in Places : v \in StmtAt(p).use}
Before(v) == [X \in SUBSET Places |->
                {p \in Places : v \notin StmtAt(p).def /\ Following(p) \cap X # {}}]

\* NeededAt(v) is the least set with UsedAt(v) that is closed under Before(v).
LEMMA NeededLeast ==
  ASSUME prog \in Programs, NEW v
  PROVE  LeastFixpoint(NeededAt(v), Places, UsedAt(v), Before(v))
<1> DEFINE N == Cardinality(Places)
           Then(X) == {p \in Places : v \notin StmtAt(p).def /\ Following(p) \cap X # {}}
           within == CHOOSE W : W = [n \in 0 .. N |->
                       IF n = 0 THEN {p \in Places : v \in StmtAt(p).use} ELSE W[n - 1] \cup Then(W[n - 1])]
<1>1. IsFiniteSet(Places)
      BY PlacesFinite
<1>2. Saturates(Places, UsedAt(v), Before(v))
      BY <1>1 DEF Saturates, UsedAt, Before
<1>3. \A X \in SUBSET Places : Before(v)[X] = Then(X)
      BY DEF Before
<1>4. N \in Nat
      BY <1>1, FS_CardinalityType
<1>5. PICK W \in [0 .. N -> SUBSET Places] :
        W = [n \in 0 .. N |-> IF n = 0 THEN UsedAt(v) ELSE W[n - 1] \cup Before(v)[W[n - 1]]]
      BY <1>2, SaturationDefined
<1>6. NeededAt(v) = within[N]
      BY DEF NeededAt
<1> HIDE DEF N, Then
<1>7. W = [n \in 0 .. N |-> IF n = 0 THEN UsedAt(v) ELSE W[n - 1] \cup Then(W[n - 1])]
  <2>1. \A n \in 0 .. N : n # 0 => W[n - 1] \in SUBSET Places
        BY <1>4
  <2>2. \A n \in 0 .. N : n # 0 => Before(v)[W[n - 1]] = Then(W[n - 1])
        BY <1>3, <2>1
  <2> QED
      BY <1>5, <2>2
<1>8. within = [n \in 0 .. N |-> IF n = 0 THEN UsedAt(v) ELSE within[n - 1] \cup Then(within[n - 1])]
      BY <1>7 DEF UsedAt
<1> HIDE DEF within
<1>9. Grows(within, Places, UsedAt(v), Before(v))
  <2>1. 0 \in 0 .. N
        BY <1>4
  <2>2. within[0] = UsedAt(v)
        BY <1>8, <2>1
  <2>3. ASSUME NEW n \in 0 .. N, n # 0, within[n - 1] \in SUBSET Places
        PROVE  within[n] = within[n - 1] \cup Before(v)[within[n - 1]]
    <3>1. within[n] = within[n - 1] \cup Then(within[n - 1])
          BY <1>8, <2>3
    <3> QED
        BY <1>3, <2>3, <3>1
  <2> QED
      BY <2>2, <2>3 DEF Grows, N
<1> QED
    BY <1>2, <1>6, <1>9, Saturation DEF N

\* v is needed where it is used, and where it is kept and needed next, only.
LEMMA NeededFixpoint ==
  ASSUME prog \in Programs, NEW v, NEW p \in Places
  PROVE  p \in NeededAt(v) <=>
           v \in StmtAt(p).use \/ (v \notin StmtAt(p).def /\ Following(p) \cap NeededAt(v) # {})
<1> DEFINE R == NeededAt(v)
           C == UsedAt(v) \cup Before(v)[R]
<1>1. UsedAt(v) \subseteq R /\ R \in SUBSET Places /\ Before(v)[R] \subseteq R
        /\ \A D \in SUBSET Places :
             UsedAt(v) \subseteq D /\ (\A X \in SUBSET D : Before(v)[X] \subseteq D) => R \subseteq D
      BY NeededLeast DEF LeastFixpoint
<1> HIDE DEF R
<1>2. \A X \in SUBSET Places :
        Before(v)[X] = {q \in Places : v \notin StmtAt(q).def /\ Following(q) \cap X # {}}
      BY DEF Before
<1>3. C \subseteq R /\ C \in SUBSET Places
      BY <1>1
<1>4. \A X \in SUBSET C : Before(v)[X] \subseteq C
      BY <1>1, <1>2, <1>3
<1>5. R = C
      BY <1>1, <1>3, <1>4
<1> QED
    BY <1>1, <1>2, <1>5 DEF UsedAt, R

\* The temporaries needed before place k of block b, and those at its ends.
NeededIn(b) == [k \in 1 .. Length(b) + 1 |-> {v \in Temps : <<b, k>> \in NeededAt(v)}]
Heads == [b \in Blocks |-> {v \in Temps : <<b, 1>> \in NeededAt(v)}]
Ends == [b \in Blocks |-> {v \in Temps : <<b, Length(b) + 1>> \in NeededAt(v)}]

LEMMA PlaceFacts ==
  ASSUME prog \in Programs, NEW b \in Blocks, NEW k \in 1 .. Length(b) + 1
  PROVE  /\ <<b, k>> \in Places
         /\ k <= Length(b) => Following(<<b, k>>) = {<<b, k + 1>>} /\ StmtAt(<<b, k>>) = prog.stms[b][k]
         /\ k > Length(b) => /\ Following(<<b, k>>) = {<<s, 1>> : s \in prog.exits[b]}
                             /\ StmtAt(<<b, k>>) = [use |-> {}, def |-> {}]
<1>1. Length(b) \in Nat
      BY StatementTypes
<1>2. <<b, k>> \in Places
      BY DEF Places, Length
<1>3. ~ (k <= Length(b)) <=> k > Length(b)
      BY <1>1
<1> QED
    BY <1>2, <1>3 DEF Following, StmtAt, Length

\* Need spreads through a block as the walk back does,
LEMMA NeededSpreads ==
  ASSUME prog \in Programs, NEW b \in Blocks
  PROVE  Spreads(b, Ends[b], NeededIn(b))
<1> DEFINE L == Length(b)
           s == prog.stms[b]
           G == NeededIn(b)
<1>1. L \in Nat /\ \A k \in 1 .. L : s[k].use \subseteq Temps /\ s[k].def \subseteq Temps
      BY StatementTypes
<1> HIDE DEF L
<1>2. G \in [1 .. L + 1 -> SUBSET Temps] /\ L + 1 \in 1 .. L + 1 /\ G[L + 1] = Ends[b]
      BY <1>1 DEF NeededIn, Ends, L
<1>3. ASSUME NEW k \in 1 .. L PROVE G[k] = (G[k + 1] \ s[k].def) \cup s[k].use
  <2>1. k \in 1 .. L + 1 /\ k + 1 \in 1 .. L + 1 /\ k <= L
        BY <1>1
  <2>2. <<b, k>> \in Places /\ Following(<<b, k>>) = {<<b, k + 1>>} /\ StmtAt(<<b, k>>) = s[k]
        BY <2>1, PlaceFacts DEF L
  <2>3. \A v : <<b, k>> \in NeededAt(v) <=>
           v \in s[k].use \/ (v \notin s[k].def /\ <<b, k + 1>> \in NeededAt(v))
        BY <2>2, NeededFixpoint
  <2>4. G[k] = {v \in Temps : <<b, k>> \in NeededAt(v)}
          /\ G[k + 1] = {v \in Temps : <<b, k + 1>> \in NeededAt(v)}
        BY <2>1 DEF NeededIn, L
  <2>5. s[k].use \subseteq Temps
        BY <1>1
  <2> HIDE DEF G, s
  <2> QED
      BY <2>3, <2>4, <2>5
<1> QED
    BY <1>2, <1>3 DEF Spreads, L

\* and from the heads of the successors to the end of the block, so that it
\* solves the equations of the blocks.
LEMMA NeededSolves ==
  ASSUME prog \in Programs
  PROVE  /\ Heads \in [Blocks -> SUBSET Temps]
         /\ Ends \in [Blocks -> SUBSET Temps]
         /\ Solves(Heads, Ends)
<1>1. Heads \in [Blocks -> SUBSET Temps] /\ Ends \in [Blocks -> SUBSET Temps]
      BY DEF Heads, Ends
<1>2. ASSUME NEW b \in Blocks PROVE Ends[b] = UNION {Heads[s] : s \in prog.exits[b]}
  <2> DEFINE p == <<b, Length(b) + 1>>
  <2>1. Length(b) \in Nat /\ prog.exits[b] \subseteq Blocks
        BY StatementTypes
  <2>2. Length(b) + 1 \in 1 .. Length(b) + 1 /\ Length(b) + 1 > Length(b)
        BY <2>1
  <2>3. p \in Places /\ Following(p) = {<<s, 1>> : s \in prog.exits[b]}
          /\ StmtAt(p) = [use |-> {}, def |-> {}]
        BY <2>2, PlaceFacts
  <2>4. Ends[b] = {v \in Temps : p \in NeededAt(v)}
        BY DEF Ends
  <2> HIDE DEF p
  <2>7. StmtAt(p).use = {} /\ StmtAt(p).def = {}
        BY <2>3
  <2>5. ASSUME NEW v PROVE p \in NeededAt(v) <=> \E s \in prog.exits[b] : <<s, 1>> \in NeededAt(v)
    <3>1. p \in NeededAt(v) <=> Following(p) \cap NeededAt(v) # {}
          BY <2>3, <2>7, NeededFixpoint
    <3> QED
        BY <2>3, <3>1
  <2>6. \A s \in prog.exits[b] : Heads[s] = {v \in Temps : <<s, 1>> \in NeededAt(v)}
        BY <2>1 DEF Heads
  <2>8. \A v \in Temps : v \in Ends[b] <=> \E s \in prog.exits[b] : v \in Heads[s]
        BY <2>4, <2>5, <2>6
  <2>9. Ends[b] \subseteq Temps /\ \A s \in prog.exits[b] : Heads[s] \subseteq Temps
        BY <2>4, <2>6
  <2> QED
      BY <2>8, <2>9
<1>3. ASSUME NEW b \in Blocks PROVE Heads[b] = BlockUse(b) \cup (Ends[b] \ BlockDef(b))
  <2>1. Spreads(b, Ends[b], NeededIn(b))
        BY NeededSpreads
  <2>2. NeededIn(b)[1] = BlockUse(b) \cup (Ends[b] \ BlockDef(b))
    <3>1. Ends[b] \in SUBSET Temps
          BY <1>1
    <3> QED
        BY <2>1, <3>1, SpreadFirst
  <2>3. Length(b) \in Nat
        BY StatementTypes
  <2>4. 1 \in 1 .. Length(b) + 1
        BY <2>3
  <2>5. NeededIn(b)[1] = Heads[b]
        BY <2>4 DEF NeededIn, Heads
  <2> QED
      BY <2>2, <2>5
<1> QED
    BY <1>1, <1>2, <1>3 DEF Solves

\* What is needed at the end of a block is in its live-out set: the places
\* where v is in the set of the walk back are closed under Before(v).
LEMMA NeededLive ==
  ASSUME prog \in Programs, Solves(liveIn, liveOut),
         liveIn \in [Blocks -> SUBSET Temps], liveOut \in [Blocks -> SUBSET Temps],
         NEW v \in Temps, NEW p \in Places, p \in NeededAt(v)
  PROVE  v \in Live(p[1], p[2])
<1> DEFINE C == {q \in Places : v \in Live(q[1], q[2])}
<1>1. ASSUME NEW b \in Blocks
      PROVE  \E G : Spreads(b, liveOut[b], G) /\ (\A k : Live(b, k) = G[k]) /\ G[1] = liveIn[b]
  <2>1. PICK G : Spreads(b, liveOut[b], G) /\ \A k : Live(b, k) = G[k]
        BY LiveSpreads
  <2>2. G[1] = BlockUse(b) \cup (liveOut[b] \ BlockDef(b))
        BY <2>1, SpreadFirst
  <2> QED
      BY <2>1, <2>2 DEF Solves
<1>2. ASSUME NEW q \in Places
      PROVE  \E b \in Blocks : \E k \in 1 .. Length(b) + 1 : q = <<b, k>>
      BY DEF Places, Length
<1>3. UsedAt(v) \subseteq C
  <2> SUFFICES ASSUME NEW q \in Places, v \in StmtAt(q).use PROVE v \in Live(q[1], q[2])
      BY DEF UsedAt
  <2>1. PICK b \in Blocks : \E k \in 1 .. Length(b) + 1 : q = <<b, k>>
        BY <1>2
  <2>2. PICK k \in 1 .. Length(b) + 1 : q = <<b, k>>
        BY <2>1
  <2>3. Length(b) \in Nat
        BY StatementTypes
  <2>4. k \in 1 .. Length(b) /\ StmtAt(q) = prog.stms[b][k]
    <3>1. k > Length(b) => StmtAt(q) = [use |-> {}, def |-> {}]
          BY <2>2, PlaceFacts
    <3>2. k <= Length(b)
          BY <2>3, <3>1
    <3> QED
        BY <2>2, <2>3, <3>2, PlaceFacts
  <2>5. PICK G : Spreads(b, liveOut[b], G) /\ \A j : Live(b, j) = G[j]
        BY <1>1
  <2>6. v \in G[k]
        BY <2>4, <2>5 DEF Spreads
  <2> QED
      BY <2>2, <2>5, <2>6
<1>4. ASSUME NEW X \in SUBSET C, NEW q \in Before(v)[X] PROVE q \in C
  <2>1. q \in Places /\ v \notin StmtAt(q).def /\ Following(q) \cap X # {}
        BY DEF Before
  <2>2. PICK r \in Following(q) : r \in Places /\ v \in Live(r[1], r[2])
        BY <2>1
  <2>3. PICK b \in Blocks : \E k \in 1 .. Length(b) + 1 : q = <<b, k>>
        BY <1>2, <2>1
  <2>4. PICK k \in 1 .. Length(b) + 1 : q = <<b, k>>
        BY <2>3
  <2>5. Length(b) \in Nat /\ prog.exits[b] \subseteq Blocks
        BY StatementTypes
  <2>6. PICK G : Spreads(b, liveOut[b], G) /\ \A j : Live(b, j) = G[j]
        BY <1>1
  <2>7. CASE k <= Length(b)
    <3>1. r = <<b, k + 1>> /\ StmtAt(q) = prog.stms[b][k] /\ k \in 1 .. Length(b)
          BY <2>2, <2>4, <2>5, <2>7, PlaceFacts
    <3>2. v \in G[k + 1] /\ v \notin prog.stms[b][k].def
          BY <2>1, <2>2, <2>6, <3>1
    <3>3. v \in G[k]
          BY <2>6, <3>1, <3>2 DEF Spreads
    <3> QED
        BY <2>1, <2>4, <2>6, <3>3
  <2>8. CASE k > Length(b)
    <3>1. PICK s \in prog.exits[b] : r = <<s, 1>>
          BY <2>2, <2>4, <2>8, PlaceFacts
    <3>2. v \in liveIn[s]
          BY <1>1, <2>2, <2>5, <3>1
    <3>3. v \in liveOut[b]
          BY <3>1, <3>2 DEF Solves
    <3>4. k = Length(b) + 1
          BY <2>5, <2>8
    <3>5. v \in G[k]
          BY <2>6, <3>3, <3>4 DEF Spreads
    <3> QED
        BY <2>1, <2>4, <2>6, <3>5
  <2> QED
      BY <2>5, <2>7, <2>8
<1>5. C \in SUBSET Places
      OBVIOUS
<1>6. NeededAt(v) \subseteq C
  <2> HIDE DEF C
  <2> QED
      BY <1>3, <1>4, <1>5, NeededLeast DEF LeastFixpoint
<1> QED
    BY <1>6

LEMMA ExactFromSolution == Typed /\ SweepInv /\ BelowSolutions => LivenessExact
<1> SUFFICES ASSUME Typed, SweepInv, BelowSolutions, phase = "done", NEW p \in Places
             PROVE  Live(p[1], p[2]) = {v \in Temps : p \in NeededAt(v)}
    BY DEF LivenessExact
<1>1. prog \in Programs /\ liveIn \in [Blocks -> SUBSET Temps] /\ liveOut \in [Blocks -> SUBSET Temps]
      BY DEF Typed, TypeOK
<1>2. Solves(liveIn, liveOut)
      BY DEF SweepInv, Solves, NewOut, NewIn
<1>3. \A b \in Blocks : liveOut[b] \subseteq Ends[b]
      BY <1>1, NeededSolves DEF BelowSolutions
<1>4. PICK b \in Blocks : \E k \in 1 .. Length(b) + 1 : p = <<b, k>>
      BY DEF Places, Length
<1>5. PICK k \in 1 .. Length(b) + 1 : p = <<b, k>>
      BY <1>4
<1>6. PICK G : Spreads(b, liveOut[b], G) /\ \A j : Live(b, j) = G[j]
      BY <1>1, LiveSpreads
\* the two sets agree at the end of the block,
<1>7. liveOut[b] = Ends[b]
  <2> SUFFICES ASSUME NEW v \in Ends[b] PROVE v \in liveOut[b]
      BY <1>3
  <2>1. Length(b) \in Nat
        BY <1>1, StatementTypes
  <2> DEFINE e == <<b, Length(b) + 1>>
  <2>2. v \in Temps /\ e \in NeededAt(v)
        BY DEF Ends
  <2>3. e \in Places
        BY <1>1, <2>1, PlaceFacts
  <2>4. v \in Live(e[1], e[2])
    <3> HIDE DEF e
    <3> QED
        BY <1>1, <1>2, <2>2, <2>3, NeededLive
  <2> QED
      BY <1>6, <2>4 DEF Spreads
\* and so they do at every place of it
<1>8. G[k] = NeededIn(b)[k]
  <2>1. Spreads(b, liveOut[b], NeededIn(b))
        BY <1>1, <1>7, NeededSpreads
  <2> QED
      BY <1>1, <1>6, <2>1, SpreadUnique
<1>9. NeededIn(b)[k] = {v \in Temps : p \in NeededAt(v)}
      BY <1>5 DEF NeededIn
<1> QED
    BY <1>5, <1>6, <1>8, <1>9

\* When the analysis is done, a temporary is in the set before a statement
\* exactly if some path from there uses it before it defines it, for every
\* function.
THEOREM LivenessIsPaths == Spec => []LivenessExact
BY ExactFromSolution, TypedInit, TypedStep, SweepInit, SweepStep, BelowInit, BelowStep, PTL DEF Spec

=============================================================================
