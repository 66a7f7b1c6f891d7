---------------------------- MODULE LoopSimplify ----------------------------
(***************************************************************************)
(* loopSimplifyProg for one function: round by round, each round one edit, *)
(* every natural loop gets one block in front of its header that leads     *)
(* nowhere else (the preheader), one block from which it is repeated (the  *)
(* latch), and exits that only the loop leads to.  The phis of a header    *)
(* give the arguments of merged edges to a phi in the new block.           *)
(***************************************************************************)
EXTENDS QuadFlow

VARIABLES
  simplifying,  \* "idle", "rounds", "verify", "done"
  uncanonical,  \* the function the pass was given
  canonical,    \* its clone, as it stands
  rounds        \* the edits so far

simplifyVars == <<simplifying, uncanonical, canonical, rounds>>

NoLoops == Function(<<>>, <<>>, <<>>, 0)

MaxRounds == 64

Init ==
  /\ simplifying = "idle"
  /\ uncanonical = NoLoops
  /\ canonical = NoLoops
  /\ rounds = 0

\* A function that the verifier refuses is left alone.
Begin(f) ==
  /\ simplifying = "idle"
  /\ uncanonical' = f
  /\ canonical' = f
  /\ simplifying' = IF VerifyQuadSsaCfg(f) THEN "rounds" ELSE "done"
  /\ UNCHANGED rounds

-----------------------------------------------------------------------------
\* isDedicatedPredecessor.
IsDedicated(flow, preds, target) == \E b \in preds : preds = {b} /\ flow.succ[b] = {target}

\* The exits of a loop that something outside leads to as well.
SharedExits(flow, l) == {e \in l.exits : flow.pred[e[2]] \ l.blocks # {}}

Lacks(flow, l) ==
  IF ~IsDedicated(flow, l.outside, l.header) THEN "preheader"
  ELSE IF ~IsDedicated(flow, l.back, l.header) THEN "latch"
  ELSE IF SharedExits(flow, l) # {} THEN "exit"
  ELSE "nothing"

\* The loops that canonicalizeOne would still edit; one that nothing outside
\* leads to is passed over.
Unfinished(flow) ==
  {l \in NaturalLoopsOf(flow) : l.outside # {} /\ Lacks(flow, l) # "nothing"}

\* The arguments of a phi with their labels.
Args(s) == [i \in DOMAIN s.src |-> <<s.src[i], s.labels[i]>>]
PhiOf(dst, args) == Phi(dst, [i \in DOMAIN args |-> args[i][1]], [i \in DOMAIN args |-> args[i][2]])
ArgsFrom(s, preds) == SelectSeq(Args(s), LAMBDA a : a[2] \in preds)
OtherArgs(s, preds) == SelectSeq(Args(s), LAMBDA a : a[2] \notin preds)

\* Mutation: the first argument stands for all that are merged.
AlwaysAgrees(s, preds) == TRUE

\* Where all merged edges bring one temp it is passed on.
Agrees(s, preds) == \A a, c \in ToSet(ArgsFrom(s, preds)) : a[1] = c[1]

\* mergeEdgesThroughBlock.
MergeEdges(f, target, preds, new) ==
  LET phis == PhisOf(f, target)
      joins == SelectSeq([k \in DOMAIN phis |-> k], LAMBDA k : ~Agrees(phis[k], preds))
      Fresh(k) == f.lastTemp + (CHOOSE n \in DOMAIN joins : joins[n] = k)
      Joined(k) == IF Agrees(phis[k], preds) THEN ArgsFrom(phis[k], preds)[1][1] ELSE Temp(Fresh(k))
      Rejoin(k) == PhiOf(phis[k].dst, Append(OtherArgs(phis[k], preds), <<Joined(k), new>>))
      rest == SelectSeq(f.code[target], LAMBDA s : ~IsPhi(s))
      header == [f EXCEPT !.lastTemp = @ + Len(joins),
                          !.code[target] = [k \in DOMAIN phis |-> Rejoin(k)] \o rest]
      body == [n \in DOMAIN joins |->
                 PhiOf(Fresh(joins[n]), ArgsFrom(phis[joins[n]], preds))]
  IN InsertBefore(Retarget(header, preds, target, new), target, new, Append(body, Jump(target)))

\* splitEdge.
SplitEdge(f, edge, new) ==
  InsertBefore(
    ReplacePhiPredecessor(Retarget(f, {edge[1]}, edge[2], new), edge[2], edge[1], new),
    edge[2], new, <<Jump(edge[2])>>)

\* The exit edges are tried in the order of their labels.
FirstShared(flow, l) ==
  CHOOSE e \in SharedExits(flow, l) :
    \A d \in SharedExits(flow, l) \ {e} : e[1] < d[1] \/ (e[1] = d[1] /\ e[2] < d[2])

\* canonicalizeOne: what the first unfinished loop lacks is made.
CanonicalizeOne ==
  /\ simplifying = "rounds"
  /\ rounds < MaxRounds
  /\ \E flow \in {FlowOf(canonical)} :
       \E l \in FirstOf(Unfinished(flow)) :
         LET new == NewLabel(canonical)
         IN \/ /\ Lacks(flow, l) = "preheader"
               /\ canonical' = MergeEdges(canonical, l.header, l.outside, new)
            \/ /\ Lacks(flow, l) = "latch"
               /\ canonical' = MergeEdges(canonical, l.header, l.back, new)
            \/ /\ Lacks(flow, l) = "exit"
               /\ canonical' = SplitEdge(canonical, FirstShared(flow, l), new)
  /\ rounds' = rounds + 1
  /\ UNCHANGED <<simplifying, uncanonical>>

EndRounds ==
  /\ simplifying = "rounds"
  /\ rounds = MaxRounds \/ Unfinished(FlowOf(canonical)) = {}
  /\ simplifying' = "verify"
  /\ UNCHANGED <<uncanonical, canonical, rounds>>

VerifyLoops ==
  /\ simplifying = "verify"
  /\ simplifying' = "done"
  /\ canonical' = IF VerifyQuadSsaCfg(canonical) THEN canonical ELSE uncanonical
  /\ UNCHANGED <<uncanonical, rounds>>

Steps == CanonicalizeOne \/ EndRounds \/ VerifyLoops

=============================================================================
