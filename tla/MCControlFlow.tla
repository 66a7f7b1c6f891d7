--------------------------- MODULE MCControlFlow ---------------------------
(***************************************************************************)
(* ControlFlow for TLC: five blocks and a label without a block.  The two  *)
(* successors of the entry may go anywhere, the two blocks behind them end *)
(* in at most one edge or jump back into both, so that nested, overlapping *)
(* and irreducible loops, edges back to the entry and unreachable blocks   *)
(* all occur.                                                              *)
(***************************************************************************)
EXTENDS ControlFlow

MCBlocks == 1 .. 5
MCLabels == 1 .. 6

UpTo(n, S) == {e \in SUBSET S : Cardinality(e) <= n}

MCGraphs ==
  {[b \in MCBlocks |-> CASE b = 1 -> e1 [] b = 2 -> e2 [] b = 3 -> e3 [] b = 4 -> e4 [] b = 5 -> e5] :
     e1 \in {{2}, {2, 3}}, e2 \in UpTo(2, 1 .. 5), e3 \in UpTo(2, 1 .. 5) \ {{3}},
     e4 \in UpTo(1, 1 .. 5) \cup {{2, 3}}, e5 \in {{}, {6}, {3}, {2, 4}}}

=============================================================================
