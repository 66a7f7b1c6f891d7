------------------------------ MODULE QuadFlow ------------------------------
(***************************************************************************)
(* What the passes over quadruples read of a function: the result of       *)
(* ControlFlowInfo::computeEverything and of the liveness analysis, the    *)
(* natural loops, and the tests that decide whether a pass may touch a     *)
(* function at all (verifySsaFunction, verifyQuadSsaCfg).  The analyses    *)
(* are given here by what they compute; ControlFlow and Liveness show that *)
(* the algorithms compute it.                                              *)
(***************************************************************************)
EXTENDS QuadIR

CONSTANTS
  Inputs,    \* the inputs the functions are run on
  RunLength  \* bound on the blocks of a run

ASSUME RunAssumption == RunLength \in Nat

\* n rounds of a monotone operator on a set.
Rounds(n, Grow(_), S) ==
  LET round[i \in 0 .. n] == IF i = 0 THEN S ELSE Grow(round[i - 1]) IN round[n]

\* The blocks that the entry reaches without passing through a block of A.
ReachAvoiding(f, A) ==
  LET Step(S) == S \cup UNION {(Exits(f, b) \cap Blocks(f)) \ A : b \in S}
  IN Rounds(Cardinality(Blocks(f)), Step, {Entry(f)} \ A)

\* computeEverything removes the blocks that the entry does not reach.
EliminateUnreachable(f) ==
  LET reached == ReachAvoiding(f, {})
  IN [f EXCEPT !.order = Only(@, reached), !.code = Restrict(@, reached)]

\* The temps a block reads before it writes them, given those live behind it.
LiveBefore(code, liveOut) ==
  LET Written(i) == UNION {Defs(code[j]) : j \in 1 .. i - 1}
  IN (liveOut \ Written(Len(code) + 1)) \cup UNION {Uses(code[i]) \ Written(i) : i \in DOMAIN code}

\* A block that is not reached is dominated by itself only.
FlowOf(f) ==
  LET B == Blocks(f)
      edges == {e \in B \X B : e[2] \in Exits(f, e[1])}
      reached == ReachAvoiding(f, {})
      dominates == UNION {{d} \X ({d} \cup (reached \ ReachAvoiding(f, {d}))) : d \in B}
  IN [succ |-> [b \in B |-> Exits(f, b)],
      pred |-> [b \in B |-> {a \in B : <<a, b>> \in edges}],
      dom |-> [b \in B |-> {d \in B : <<d, b>> \in dominates}]]

\* The blocks that b is the nearest to dominate.
Children(flow, b) ==
  {c \in DOMAIN flow.dom : b # c /\ b \in flow.dom[c] /\ flow.dom[c] \ {c} \subseteq flow.dom[b]}

\* The blocks where what b dominates ends.
Frontier(flow, b) ==
  {c \in DOMAIN flow.dom : /\ \E a \in flow.pred[c] : b \in flow.dom[a]
                          /\ (b = c \/ b \notin flow.dom[c])}

\* The blocks t is live into.
LiveInto(f, flow, t) ==
  LET B == Blocks(f)
      Back(S) == S \cup {b \in B : /\ flow.succ[b] \cap S # {}
                                  /\ \A i \in DOMAIN f.code[b] : t \notin Defs(f.code[b][i])}
  IN Rounds(Cardinality(B), Back, {b \in B : t \in LiveBefore(f.code[b], {})})

LiveIn(f, flow) ==
  LET into == [t \in UNION {Uses(s) : s \in Statements(f)} |-> LiveInto(f, flow, t)]
  IN [b \in Blocks(f) |-> {t \in DOMAIN into : b \in into[t]}]

-----------------------------------------------------------------------------
\* eliminateDeadPureQuadDefs, of which this is one round.

Pure == {"MOVE", "MOVE_BINOP", "PHI"}

UsedTemps(f) == UNION {Uses(s) : s \in Statements(f)}

\* Mutation: whatever is not read goes, calls and loads as well.
DeadAtAll(f) == {s \in Statements(f) : s.dst \notin UsedTemps(f) /\ s.dst # NoTemp}

Dead(f) == {s \in Statements(f) : s.kind \in Pure /\ s.dst \notin UsedTemps(f)}

WithoutDead(f) ==
  LET dead == Dead(f)
  IN [f EXCEPT !.code = [b \in DOMAIN @ |-> SelectSeq(@[b], LAMBDA s : s \notin dead)]]

-----------------------------------------------------------------------------
\* What the passes count on in the runs of a function.
RunsOnWords(f) == \A input \in Inputs : YieldsWords(f, input, RunLength)
RunsReadAssigned(f) == \A input \in Inputs : ReadsAssigned(f, input, RunLength)

Params(f) == ToSet(f.params)

\* The places of the statements, and where each temp is defined: a parameter in
\* front of the entry's first statement.
Sites(f) == UNION {{b} \X (DOMAIN f.code[b]) : b \in Blocks(f)}
StatementAt(f, site) == f.code[site[1]][site[2]]
SsaDefs(f) ==
  {[temp |-> t, at |-> <<Entry(f), 0>>] : t \in Params(f)}
    \cup UNION {{[temp |-> t, at |-> site] : t \in Defs(StatementAt(f, site))} : site \in Sites(f)}

UseOk(defs, flow, t, site) ==
  \E d \in defs : /\ d.temp = t
                 /\ d.at[1] \in flow.dom[site[1]]
                 /\ (d.at[1] # site[1] \/ d.at[2] < site[2])

PhiOk(defs, flow, s, b) ==
  /\ IsInjective(s.labels)
  /\ ToSet(s.labels) = flow.pred[b]
  /\ \A i \in DOMAIN s.src :
       \E d \in defs : d.temp = s.src[i].temp /\ d.at[1] \in flow.dom[s.labels[i]]

\* verifySsaFunction.
VerifySsa(f, flow) ==
  LET defs == SsaDefs(f)
  IN /\ IsInjective(f.params)
     /\ \A d, e \in defs : d.temp = e.temp => d = e
     /\ \A site \in Sites(f) :
          LET s == StatementAt(f, site)
          IN IF IsPhi(s) THEN PhiOk(defs, flow, s, site[1])
             ELSE \A t \in Uses(s) : UseOk(defs, flow, t, site)

-----------------------------------------------------------------------------
\* What the passes over loops share (cfg_transform.cc): the natural loops of a
\* function, the edits of its edges and blocks, and the test whether a pass may
\* touch it and may keep what it made (verifyQuadSsaCfg).

\* Whatever reaches a back edge of h, past h itself only if h is the tail of
\* one: then whatever reaches h.
LoopBody(flow, h) ==
  LET tails == {b \in flow.pred[h] : h \in flow.dom[b]}
      Back(S) == S \cup UNION {flow.pred[b] : b \in (S \ {h}) \cup tails}
  IN IF tails = {} THEN {} ELSE Rounds(Cardinality(DOMAIN flow.pred), Back, tails \cup {h})

NaturalLoop(flow, h) ==
  LET body == LoopBody(flow, h)
  IN [header |-> h,
      blocks |-> body,
      outside |-> flow.pred[h] \ body,
      back |-> {b \in flow.pred[h] : h \in flow.dom[b]},
      exits |-> UNION {{b} \X (flow.succ[b] \ body) : b \in body}]

NaturalLoopsOf(flow) ==
  {NaturalLoop(flow, h) : h \in {b \in DOMAIN flow.pred : LoopBody(flow, b) # {}}}

\* Small loops come first, then small labels.
Sooner(l, m) ==
  LET size(k) == Cardinality(k.blocks)
  IN size(l) < size(m) \/ (size(l) = size(m) /\ l.header < m.header)

FirstOf(loops) == {l \in loops : \A m \in loops \ {l} : Sooner(l, m)}

-----------------------------------------------------------------------------
\* The edits.  A new label is greater than those in use.
NewLabel(f) == Max(Blocks(f)) + 1

\* retargetQuadEdge for each of the predecessors.
Retarget(f, preds, old, new) ==
  LET Turn(s) == [s EXCEPT !.labels = [i \in DOMAIN @ |-> IF @[i] = old THEN new ELSE @[i]]]
  IN [f EXCEPT !.code = [b \in DOMAIN @ |->
        IF b \in preds THEN Append(Front(@[b]), Turn(Last(@[b]))) ELSE @[b]]]

ReplacePhiPredecessor(f, target, old, new) ==
  LET Turn(s) ==
        IF IsPhi(s)
        THEN [s EXCEPT !.labels = [i \in DOMAIN @ |-> IF @[i] = old THEN new ELSE @[i]]]
        ELSE s
  IN [f EXCEPT !.code[target] = [i \in DOMAIN @ |-> Turn(@[i])]]

InsertBefore(f, target, label, code) ==
  LET place == CHOOSE i \in DOMAIN f.order : f.order[i] = target
  IN [f EXCEPT !.order = InsertAt(@, place, label), !.code = (label :> code) @@ @]

\* rewriteQuadUses; no replacement is itself replaced.
RewriteUsesBy(map, s) ==
  [s EXCEPT !.src = [i \in DOMAIN @ |->
     IF IsTemp(@[i]) /\ @[i].temp \in DOMAIN map THEN Temp(map[@[i].temp]) ELSE @[i]]]

VerifyQuadSsaCfg(f) ==
  /\ \A b \in Blocks(f) :
       /\ Exits(f, b) \subseteq Blocks(f)
       /\ \A i \in DOMAIN f.code[b] : IsPhi(f.code[b][i]) => i <= Len(PhisOf(f, b))
  /\ VerifySsa(f, FlowOf(f))

=============================================================================
