----------------------------- MODULE MCLiveness -----------------------------
(***************************************************************************)
(* Liveness for TLC.  The equations of one temporary do not mention        *)
(* another, so one temporary and functions of three blocks, each with one  *)
(* of four or five contents and at most two successors, show everything    *)
(* but the width of the sets.                                              *)
(***************************************************************************)
EXTENDS Liveness

CONSTANT t

Use == [use |-> {t}, def |-> {}]
Def == [use |-> {}, def |-> {t}]
Both == [use |-> {t}, def |-> {t}]

Contents == {<<>>, <<Use>>, <<Def>>, <<Both>>, <<Def, Use>>}

MCBlocks == 1 .. 3

MCPrograms ==
  {[exits |-> e, stms |-> s] :
     e \in [MCBlocks -> {x \in SUBSET MCBlocks : Cardinality(x) <= 2}],
     s \in {c \in [MCBlocks -> Contents] : c[2] # <<Both>> /\ c[3] # <<Def, Use>>}}

=============================================================================
