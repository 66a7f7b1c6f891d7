------------------------------ MODULE CopyProp ------------------------------
(***************************************************************************)
(* copyPropProg for one function: the uses of a copied temp become uses of *)
(* what it copies, phi arguments included, the copies go, and then, round  *)
(* by round, the pure definitions nobody reads.  A function that is not in *)
(* SSA form is left alone, and the result is given up for the original     *)
(* when it is not.                                                         *)
(***************************************************************************)
EXTENDS QuadFlow

VARIABLES
  copying,    \* "idle", "rewrite", "sweep", "verify", "done"
  original,   \* the function the pass was given
  candidate,  \* its clone, as it stands
  gaveUp      \* was the original taken instead

copyVars == <<copying, original, candidate, gaveUp>>

NothingToCopy == Function(<<>>, <<>>, <<>>, 0)

Init ==
  /\ copying = "idle"
  /\ original = NothingToCopy
  /\ candidate = NothingToCopy
  /\ gaveUp = FALSE

\* The flow of the clone is computed, which drops unreachable blocks; a clone
\* that the verifier refuses is left as it is.
Begin(f) ==
  /\ copying = "idle"
  /\ original' = f
  /\ candidate' = EliminateUnreachable(f)
  /\ copying' = IF VerifySsa(candidate', FlowOf(candidate')) THEN "rewrite" ELSE "verify"
  /\ UNCHANGED gaveUp

-----------------------------------------------------------------------------
IsCopy(s) == s.kind = "MOVE" /\ IsTemp(s.src[1]) /\ s.src[1].temp # s.dst

CopiesOf(f) == {s \in Statements(f) : IsCopy(s)}

\* The temp at the end of a chain of copies.
Resolve(copies, t) ==
  LET Follow(u, i) ==
        IF \E s \in copies : s.dst = u
        THEN (CHOOSE s \in copies : s.dst = u).src[1].temp
        ELSE u
  IN FoldLeft(Follow, t, [i \in 1 .. Cardinality(copies) |-> i])

\* Mutation: the arguments of phis are forgotten.
RewriteOuterUses(copies, s) ==
  [s EXCEPT !.src = [i \in DOMAIN @ |->
     IF IsTemp(@[i]) /\ ~IsPhi(s) THEN Temp(Resolve(copies, @[i].temp)) ELSE @[i]]]

RewriteUses(copies, s) ==
  [s EXCEPT !.src = [i \in DOMAIN @ |->
     IF IsTemp(@[i]) THEN Temp(Resolve(copies, @[i].temp)) ELSE @[i]]]

Replace ==
  /\ copying = "rewrite"
  /\ copying' = "sweep"
  /\ LET copies == CopiesOf(candidate)
         Keeps(s) == ~IsCopy(s)
         Rewritten(code) ==
           LET kept == SelectSeq(code, Keeps)
           IN [i \in DOMAIN kept |-> RewriteUses(copies, kept[i])]
     IN candidate' = [candidate EXCEPT !.code =
                        [b \in DOMAIN @ |-> Rewritten(@[b])]]
  /\ UNCHANGED <<original, gaveUp>>

-----------------------------------------------------------------------------
\* One round of removals; the rounds end with one that removes nothing.
Sweep ==
  /\ copying = "sweep"
  /\ candidate' = WithoutDead(candidate)
  /\ copying' = IF Dead(candidate) = {} THEN "verify" ELSE "sweep"
  /\ UNCHANGED <<original, gaveUp>>

Verify ==
  /\ copying = "verify"
  /\ copying' = "done"
  /\ LET fine == VerifySsa(candidate, FlowOf(candidate))
     IN /\ candidate' = IF fine THEN candidate ELSE original
        /\ gaveUp' = ~fine
  /\ UNCHANGED original

Steps == Replace \/ Sweep \/ Verify

=============================================================================
