---------------------------- MODULE ControlFlow ----------------------------
(***************************************************************************)
(* ControlFlowInfo::computeEverything for one function: the blocks that    *)
(* the entry reaches (breadth first), the removal of the others, the       *)
(* immediate dominators by the iteration of Cooper, Harvey and Kennedy     *)
(* over a reverse postorder, and the dominance frontiers that placePhi     *)
(* reads.  A block is named by its entry label; exits[b] are the labels    *)
(* its last statement may go to, and a label may name no block at all.     *)
(***************************************************************************)
EXTENDS Integers, Sequences, FiniteSets

CONSTANTS
  Labels,   \* the labels of the function
  Blocks,   \* the labels that head a block
  Entry,    \* the entry block
  Graphs    \* the values of exits to consider

ASSUME GraphAssumption ==
  /\ Labels \subseteq Nat
  /\ Blocks \subseteq Labels
  /\ IsFiniteSet(Labels)
  /\ Entry \in Blocks
  /\ 0 \notin Labels
  /\ Graphs \subseteq [Blocks -> SUBSET Labels]

VARIABLES
  exits,
  phase,      \* "reach", "order", "idom", "frontier", "done"
  allBlocks,  \* the blocks still in the function
  reachable, worklist,       \* computeUnreachableBlocks
  dfs, visited, postorder,   \* the depth-first walk of computeDominators
  idom,       \* the candidate immediate dominators, 0 for none yet
  position,   \* the place in the reverse postorder of the current sweep
  changed,    \* has this sweep changed a candidate
  frontiers   \* dominanceFrontiers

orderVars == <<dfs, visited, postorder>>
idomVars == <<idom, position, changed>>
vars == <<exits, phase, allBlocks, reachable, worklist, orderVars, idomVars, frontiers>>

\* Mutation: a label without a block counts as a successor.
LooseSucc(b) == exits[b]

\* The edges of the function as it stands.
Succ(b) == exits[b] \cap allBlocks
Pred(b) == {a \in allBlocks : b \in Succ(a)}

Init ==
  /\ exits \in Graphs
  /\ phase = "reach"
  /\ allBlocks = Blocks
  /\ reachable = {Entry}
  /\ worklist = {Entry}
  /\ dfs = <<Entry>>
  /\ visited = {Entry}
  /\ postorder = <<>>
  /\ idom = [b \in Blocks |-> IF b = Entry THEN Entry ELSE 0]
  /\ position = 2
  /\ changed = FALSE
  /\ frontiers = [b \in Blocks |-> {}]

-----------------------------------------------------------------------------
(* computeUnreachableBlocks and eliminateUnreachableBlocks.                *)

\* Mutation: only the first of the exits is followed.
VisitFirstExit(b) ==
  /\ phase = "reach"
  /\ b \in worklist
  /\ LET new == {s \in Succ(b) \ reachable : \A t \in Succ(b) : s <= t}
     IN  /\ reachable' = reachable \cup new
         /\ worklist' = (worklist \ {b}) \cup new
  /\ UNCHANGED <<exits, phase, allBlocks, orderVars, idomVars, frontiers>>

\* One block of the worklist; the queue's order is left open.
Visit(b) ==
  /\ phase = "reach"
  /\ b \in worklist
  /\ reachable' = reachable \cup Succ(b)
  /\ worklist' = (worklist \ {b}) \cup (Succ(b) \ reachable)
  /\ UNCHANGED <<exits, phase, allBlocks, orderVars, idomVars, frontiers>>

Eliminate ==
  /\ phase = "reach"
  /\ worklist = {}
  /\ phase' = "order"
  /\ allBlocks' = reachable
  /\ UNCHANGED <<exits, reachable, worklist, orderVars, idomVars, frontiers>>

-----------------------------------------------------------------------------
(* computeDominators.                                                      *)

\* Go down to the least successor not yet visited.
Descend ==
  /\ phase = "order"
  /\ dfs # <<>>
  /\ \E s \in Succ(Head(dfs)) \ visited :
       /\ \A t \in Succ(Head(dfs)) \ visited : s <= t
       /\ dfs' = <<s>> \o dfs
       /\ visited' = visited \cup {s}
  /\ UNCHANGED <<exits, phase, allBlocks, reachable, worklist, postorder, idomVars, frontiers>>

Ascend ==
  /\ phase = "order"
  /\ dfs # <<>>
  /\ Succ(Head(dfs)) \subseteq visited
  /\ postorder' = Append(postorder, Head(dfs))
  /\ dfs' = Tail(dfs)
  /\ UNCHANGED <<exits, phase, allBlocks, reachable, worklist, visited, idomVars, frontiers>>

\* The reverse postorder and the place of a block in it.
Rpo == [i \in 1 .. Len(postorder) |-> postorder[Len(postorder) + 1 - i]]
RpoIndex(b) == CHOOSE i \in 1 .. Len(Rpo) : Rpo[i] = b

StartIdom ==
  /\ phase = "order"
  /\ dfs = <<>>
  /\ phase' = "idom"
  /\ UNCHANGED <<exits, allBlocks, reachable, worklist, orderVars, idomVars, frontiers>>

\* The blocks that have a candidate.
Candidates == {b \in allBlocks : idom[b] # 0}

\* Where the chains of candidates above two blocks meet.
Intersect(left, right) ==
  LET meet[p \in Candidates \X Candidates] ==
        IF p[1] = p[2] THEN p[1]
        ELSE IF RpoIndex(p[1]) > RpoIndex(p[2]) THEN meet[<<idom[p[1]], p[2]>>]
        ELSE meet[<<p[1], idom[p[2]]>>]
  IN  meet[<<left, right>>]

Greatest(s) == CHOOSE p \in s : \A q \in s : q <= p

\* The predecessors that have a candidate, intersected in ascending order.
NewIdom(b) ==
  LET ready == Pred(b) \cap Candidates
      common[s \in SUBSET ready] ==
        IF s = {} THEN 0
        ELSE IF s = {Greatest(s)} THEN Greatest(s)
        ELSE Intersect(Greatest(s), common[s \ {Greatest(s)}])
  IN  common[ready]

\* Mutation: a candidate is only computed once.
RefineOnce ==
  /\ phase = "idom"
  /\ position <= Len(Rpo)
  /\ LET b == Rpo[position]
     IN  /\ idom' = [idom EXCEPT ![b] = IF @ = 0 THEN NewIdom(b) ELSE @]
         /\ changed' = (changed \/ idom[b] = 0)
  /\ position' = position + 1
  /\ UNCHANGED <<exits, phase, allBlocks, reachable, worklist, orderVars, frontiers>>

Refine ==
  /\ phase = "idom"
  /\ position <= Len(Rpo)
  /\ LET b == Rpo[position]
     IN  /\ idom' = [idom EXCEPT ![b] = NewIdom(b)]
         /\ changed' = (changed \/ NewIdom(b) # idom[b])
  /\ position' = position + 1
  /\ UNCHANGED <<exits, phase, allBlocks, reachable, worklist, orderVars, frontiers>>

\* Mutation: the flag is not cleared for the next sweep.
StickySweep ==
  /\ phase = "idom"
  /\ position > Len(Rpo)
  /\ position' = 2
  /\ changed' = changed
  /\ phase' = IF changed THEN "idom" ELSE "frontier"
  /\ UNCHANGED <<exits, allBlocks, reachable, worklist, orderVars, idom, frontiers>>

EndSweep ==
  /\ phase = "idom"
  /\ position > Len(Rpo)
  /\ position' = 2
  /\ changed' = FALSE
  /\ phase' = IF changed THEN "idom" ELSE "frontier"
  /\ UNCHANGED <<exits, allBlocks, reachable, worklist, orderVars, idom, frontiers>>

\* The immediate dominator; the entry has none.
ImmediateDominator(b) == IF b = Entry THEN 0 ELSE idom[b]

\* A block and the blocks above it in the dominator tree.
Dominators(b) ==
  LET above[c \in allBlocks] ==
        {c} \cup (IF c = Entry THEN {} ELSE above[ImmediateDominator(c)])
  IN  above[b]

DomTree(b) == {c \in allBlocks : ImmediateDominator(c) = b}

-----------------------------------------------------------------------------
(* computeDominanceFrontiers.                                              *)

\* Mutation: the walk starts above the predecessor.
ShortRunners(a, b) ==
  LET up[c \in allBlocks \cup {0}] ==
        IF c = 0 \/ c = ImmediateDominator(b) THEN {} ELSE {c} \cup up[ImmediateDominator(c)]
  IN  up[a] \ {a}

\* The blocks from a up to, not including, the immediate dominator of b.
Runners(a, b) ==
  LET up[c \in allBlocks \cup {0}] ==
        IF c = 0 \/ c = ImmediateDominator(b) THEN {} ELSE {c} \cup up[ImmediateDominator(c)]
  IN  up[a]

FrontierOf(c) == {b \in allBlocks : \E a \in Pred(b) : c \in Runners(a, b)}

ComputeFrontiers ==
  /\ phase = "frontier"
  /\ phase' = "done"
  /\ frontiers' = [b \in Blocks |-> IF b \in allBlocks THEN FrontierOf(b) ELSE {}]
  /\ UNCHANGED <<exits, allBlocks, reachable, worklist, orderVars, idomVars>>

Terminated == phase = "done" /\ UNCHANGED vars

Next ==
  \/ \E b \in Blocks : Visit(b)
  \/ Eliminate
  \/ Descend
  \/ Ascend
  \/ StartIdom
  \/ Refine
  \/ EndSweep
  \/ ComputeFrontiers
  \/ Terminated

Spec == Init /\ [][Next]_vars

\* The analysis is sequential code: it takes its next step.
FairSpec == Spec /\ WF_vars(Next)

-----------------------------------------------------------------------------
(* Properties.                                                             *)

\* The type invariant.
TypeOK ==
  /\ exits \in [Blocks -> SUBSET Labels]
  /\ phase \in {"reach", "order", "idom", "frontier", "done"}
  /\ allBlocks \in SUBSET Blocks
  /\ reachable \in SUBSET Blocks
  /\ worklist \in SUBSET reachable
  /\ dfs \in Seq(Blocks)
  /\ visited \in SUBSET Blocks
  /\ postorder \in Seq(Blocks)
  /\ idom \in [Blocks -> Blocks \cup {0}]
  /\ position \in Nat
  /\ changed \in BOOLEAN
  /\ frontiers \in [Blocks -> SUBSET Blocks]

\* The blocks that a path from the entry reaches without passing through d.
\* No block is called 0, so Around(0) is everything reachable.
Around(d) ==
  LET within[n \in 0 .. Cardinality(Blocks)] ==
        IF n = 0 THEN {Entry} \ {d}
        ELSE within[n - 1] \cup
               ((UNION {exits[b] : b \in within[n - 1]}) \cap (Blocks \ {d}))
  IN  within[Cardinality(Blocks)]

\* The blocks that every path from the entry to b goes through.
MustPass(b) == {d \in allBlocks : b \notin Around(d)}

\* What the iteration converges to is dominance: d is among the dominators
\* of b exactly when every path from the entry to b goes through d.
DominatorsExact ==
  phase = "done" => \A b \in allBlocks : Dominators(b) = MustPass(b)

\* A frontier holds the blocks where dominance ends: some predecessor is
\* dominated, the block itself is not strictly dominated.  placePhi puts
\* phi functions nowhere else.
FrontiersExact ==
  phase = "done" =>
    \A a \in allBlocks :
      frontiers[a] =
        {b \in allBlocks :
           /\ \E p \in Pred(b) : p \notin Around(a)
           /\ a = b \/ b \in Around(a)}

\* The whole computation ends.
Converges == <>(phase = "done")

\* The worklist holds the reachable blocks whose exits were not followed
\* (the inductive invariant of the reachability part).
ReachInv ==
  /\ Entry \in reachable
  /\ worklist \subseteq reachable
  /\ reachable \subseteq Blocks
  /\ phase = "reach" => allBlocks = Blocks
  /\ phase # "reach" => worklist = {} /\ allBlocks = reachable
  /\ \A b \in reachable \ worklist : exits[b] \cap Blocks \subseteq reachable
  /\ \A S \in SUBSET Blocks :
       Entry \in S /\ (\A b \in S : exits[b] \cap Blocks \subseteq S) => reachable \subseteq S

\* After the elimination the function keeps the blocks that a path from the
\* entry reaches and no other: the least set of blocks that holds the entry
\* and the exits of its members.
LeastClosed ==
  phase # "reach" =>
    /\ Entry \in allBlocks
    /\ \A b \in allBlocks : exits[b] \cap Blocks \subseteq allBlocks
    /\ \A S \in SUBSET Blocks :
         Entry \in S /\ (\A b \in S : exits[b] \cap Blocks \subseteq S) => allBlocks \subseteq S

\* The blocks on the stack of the depth-first walk, and those it has left.
Open == {dfs[i] : i \in 1 .. Len(dfs)}
Left == {postorder[i] : i \in 1 .. Len(postorder)}

\* The walk is the inductive invariant of the numbering: every visited block is
\* once on the stack or once in the postorder, what it has left leads to visited
\* blocks only, the entry is at the bottom of the stack and then the last of the
\* order, and keeps itself as its candidate.
WalkInv ==
  /\ dfs \in Seq(allBlocks)
  /\ postorder \in Seq(allBlocks)
  /\ visited = Open \cup Left
  /\ Open \cap Left = {}
  /\ \A i, j \in 1 .. Len(dfs) : dfs[i] = dfs[j] => i = j
  /\ \A i, j \in 1 .. Len(postorder) : postorder[i] = postorder[j] => i = j
  /\ \A b \in Left : Succ(b) \subseteq visited
  /\ dfs # <<>> => dfs[Len(dfs)] = Entry
  /\ dfs = <<>> => postorder # <<>> /\ postorder[Len(postorder)] = Entry
  /\ phase = "reach" => dfs = <<Entry>> /\ postorder = <<>>
  /\ phase \notin {"reach", "order"} => dfs = <<>>
  /\ position \in Nat /\ position >= 2
  /\ DOMAIN idom = Blocks /\ idom[Entry] = Entry

\* When the candidates are refined, each block that is left has one place in
\* the reverse postorder, which RpoIndex takes for granted, and the entry has the
\* first, where the sweeps never come by and the chains of candidates end.
OrderExact ==
  phase \notin {"reach", "order"} =>
    /\ \A b \in allBlocks : \E i \in 1 .. Len(Rpo) :
         Rpo[i] = b /\ \A j \in 1 .. Len(Rpo) : Rpo[j] = b => j = i
    /\ Rpo[1] = Entry
    /\ idom[Entry] = Entry

\* The walk leaves a block before the one it came from: behind each block but
\* the entry, one of its predecessors is on the stack or comes later in the
\* postorder.
TreeInv ==
  /\ \A i \in 1 .. Len(dfs) - 1 : dfs[i] \in Succ(dfs[i + 1])
  /\ \A i \in 1 .. Len(postorder) :
       \/ postorder[i] = Entry
       \/ \E b \in Open : postorder[i] \in Succ(b)
       \/ \E j \in i + 1 .. Len(postorder) : postorder[i] \in Succ(postorder[j])

\* The candidates never leave the right path: the chain above a block goes down
\* in the order and ends at the entry, and what every path to the block goes
\* through is the block or on every path to its candidate.
ChainInv ==
  \A b \in Candidates \ {Entry} :
    /\ idom[b] \in Candidates
    /\ RpoIndex(idom[b]) < RpoIndex(b)
    /\ MustPass(b) \ {b} \subseteq MustPass(idom[b])

\* Up to the place of the first sweep every block has a candidate, and while a
\* sweep has changed nothing the candidates it has passed are what it computes.
SettledInv ==
  /\ \A b \in allBlocks \ Candidates : phase = "idom" /\ position <= RpoIndex(b)
  /\ \A b \in allBlocks \ {Entry} :
       phase \in {"frontier", "done"} \/ (~changed /\ RpoIndex(b) < position)
         => idom[b] = NewIdom(b)

\* The inductive invariant of the refinement and of what is made of its result.
IdomInv ==
  /\ idom \in [Blocks -> allBlocks \cup {0}]
  /\ phase \in {"reach", "order"} =>
       position = 2 /\ idom = [b \in Blocks |-> IF b = Entry THEN Entry ELSE 0]
  /\ phase \notin {"reach", "order"} => ChainInv /\ SettledInv
  /\ phase = "done" => \A a \in allBlocks : frontiers[a] = FrontierOf(a)

=============================================================================
