------------------------- MODULE ControlFlowProofs -------------------------
(***************************************************************************)
(* What computeUnreachableBlocks and eliminateUnreachableBlocks leave, for *)
(* every control flow graph: the least set of blocks that holds the entry  *)
(* and is closed under the exits; and that the depth-first walk puts each  *)
(* of these once into the order that the dominators are computed in.       *)
(***************************************************************************)
EXTENDS ControlFlow, Induction

LEMMA ReachInit == Init => ReachInv
BY GraphAssumption DEF Init, ReachInv

LEMMA ReachStep == ReachInv /\ [Next]_vars => ReachInv'
<1> SUFFICES ASSUME ReachInv, [Next]_vars PROVE ReachInv'
    OBVIOUS
<1> USE DEF ReachInv
<1>1. ASSUME NEW b \in Blocks, Visit(b) PROVE ReachInv'
  <2>1. Succ(b) = exits[b] \cap Blocks /\ b \in worklist /\ exits' = exits
        BY <1>1 DEF Visit, Succ
  <2>2. reachable' = reachable \cup (exits[b] \cap Blocks)
        BY <1>1, <2>1 DEF Visit
  <2>3. worklist' = (worklist \ {b}) \cup ((exits[b] \cap Blocks) \ reachable)
        BY <1>1, <2>1 DEF Visit
  <2>4. phase' = phase /\ allBlocks' = allBlocks /\ phase = "reach"
        BY <1>1 DEF Visit
  \* a block off the new worklist is b, whose exits are now reachable, or
  \* was off the old one
  <2>5. ASSUME NEW c \in reachable' \ worklist' PROVE exits'[c] \cap Blocks \subseteq reachable'
        BY <2>1, <2>2, <2>3, <2>5
  \* a closed set that held all that was reached holds b's exits as well
  <2>6. ASSUME NEW S \in SUBSET Blocks, Entry \in S,
               \A c \in S : exits'[c] \cap Blocks \subseteq S
        PROVE  reachable' \subseteq S
    <3>1. reachable \subseteq S
          BY <2>1, <2>6
    <3> QED
        BY <2>1, <2>2, <2>6, <3>1
  <2>7. worklist' \subseteq reachable' /\ reachable' \subseteq Blocks /\ Entry \in reachable'
        BY <2>1, <2>2, <2>3
  <2> QED
      BY <2>4, <2>5, <2>6, <2>7
<1>2. CASE Eliminate
      BY <1>2 DEF Eliminate
<1>3. CASE phase # "reach" /\ phase' # "reach"
              /\ UNCHANGED <<exits, allBlocks, reachable, worklist>>
      BY <1>3
<1>4. CASE UNCHANGED vars
      BY <1>4 DEF vars
<1>5. ASSUME Descend \/ Ascend \/ StartIdom \/ Refine \/ EndSweep \/ ComputeFrontiers
      PROVE  phase # "reach" /\ phase' # "reach"
               /\ UNCHANGED <<exits, allBlocks, reachable, worklist>>
      BY <1>5 DEF Descend, Ascend, StartIdom, Refine, EndSweep, ComputeFrontiers
<1> QED
    BY <1>1, <1>2, <1>3, <1>4, <1>5 DEF Next, Terminated

LEMMA Reached == Spec => []ReachInv
BY ReachInit, ReachStep, PTL DEF Spec

\* The elimination keeps exactly the blocks the entry reaches, in whatever
\* order the worklist is emptied.
THEOREM EliminationExact == Spec => []LeastClosed
<1>1. ReachInv => LeastClosed
      BY DEF ReachInv, LeastClosed
<1> QED
    BY <1>1, Reached, PTL

-----------------------------------------------------------------------------
(* The depth-first walk, and the reverse postorder it leaves.              *)

LEMMA WalkInit == Init => WalkInv
<1> SUFFICES ASSUME Init PROVE WalkInv
    OBVIOUS
<1>1. dfs = <<Entry>> /\ postorder = <<>> /\ visited = {Entry} /\ Entry \in allBlocks /\ phase = "reach"
      BY GraphAssumption DEF Init
<1>2. dfs \in Seq(allBlocks) /\ postorder \in Seq(allBlocks) /\ Len(dfs) = 1 /\ Len(postorder) = 0 /\ dfs[1] = Entry
      BY <1>1
<1>3. Open = {Entry} /\ Left = {}
      BY <1>2 DEF Open, Left
<1>4. position = 2 /\ DOMAIN idom = Blocks /\ idom[Entry] = Entry
      BY GraphAssumption DEF Init
<1> QED
    BY <1>1, <1>2, <1>3, <1>4 DEF WalkInv

\* The block on top of the stack stays there while one of its exits is pushed.
LEMMA DescendStep == WalkInv /\ Descend => WalkInv'
<1> SUFFICES ASSUME WalkInv, Descend PROVE WalkInv'
    OBVIOUS
<1> USE DEF WalkInv
<1>1. PICK s \in Succ(Head(dfs)) \ visited : dfs' = <<s>> \o dfs /\ visited' = visited \cup {s}
      BY DEF Descend
<1>2. phase = "order" /\ dfs # <<>> /\ UNCHANGED <<exits, phase, allBlocks, postorder, idom, position>>
      BY DEF Descend, idomVars
<1>3. s \in allBlocks
      BY DEF Succ
<1>4. dfs' \in Seq(allBlocks) /\ Len(dfs') = Len(dfs) + 1 /\ dfs'[1] = s
        /\ \A i \in 2 .. Len(dfs') : dfs'[i] = dfs[i - 1]
      BY <1>1, <1>3
<1>10. Open' = {dfs'[i] : i \in 1 .. Len(dfs')}
      BY DEF Open
<1>5. Open' = Open \cup {s}
  <2>1. Open \subseteq Open'
    <3> SUFFICES ASSUME NEW i \in 1 .. Len(dfs) PROVE dfs[i] \in Open'
        BY DEF Open
    <3>1. i + 1 \in 2 .. Len(dfs') /\ dfs'[i + 1] = dfs[(i + 1) - 1] /\ (i + 1) - 1 = i
          BY <1>4
    <3>2. i + 1 \in 1 .. Len(dfs') /\ dfs'[i + 1] = dfs[i]
          BY <1>4, <3>1
    <3> QED
        BY <3>2, <1>10
  <2>2. Open' \subseteq Open \cup {s}
    <3> SUFFICES ASSUME NEW i \in 1 .. Len(dfs') PROVE dfs'[i] \in Open \cup {s}
        BY <1>10
    <3>1. CASE i = 1
          BY <3>1, <1>4
    <3>2. CASE i # 1
          BY <3>2, <1>4 DEF Open
    <3> QED
        BY <3>1, <3>2
  <2>3. 1 \in 1 .. Len(dfs') /\ dfs'[1] = s
        BY <1>4
  <2>4. s \in Open'
        BY <2>3, <1>10
  <2> QED
      BY <2>1, <2>2, <2>4
<1>6. Left' = Left /\ s \notin Open /\ s \notin Left
      BY <1>1, <1>2 DEF Left
<1>7. \A i, j \in 1 .. Len(dfs') : dfs'[i] = dfs'[j] => i = j
  <2> SUFFICES ASSUME NEW i \in 1 .. Len(dfs'), NEW j \in 1 .. Len(dfs'), dfs'[i] = dfs'[j], i # j PROVE FALSE
      OBVIOUS
  <2>1. \A k \in 2 .. Len(dfs') : dfs'[k] \in Open
        BY <1>4 DEF Open
  <2>2. i # 1 /\ j # 1
        BY <2>1, <1>4, <1>6
  <2>3. i - 1 \in 1 .. Len(dfs) /\ j - 1 \in 1 .. Len(dfs) /\ dfs[i - 1] = dfs[j - 1]
        BY <2>2, <1>4
  <2>4. i - 1 = j - 1
        BY <2>3
  <2> QED
      BY <2>4
<1>8. dfs'[Len(dfs')] = Entry
      BY <1>2, <1>4
<1>9. \A b \in Left' : Succ(b)' \subseteq visited'
      BY <1>1, <1>2, <1>6 DEF Succ
<1> QED
    BY <1>1, <1>2, <1>4, <1>5, <1>6, <1>7, <1>8, <1>9

\* The block on top of the stack leads to nothing new and moves to the order.
LEMMA AscendStep == WalkInv /\ Ascend => WalkInv'
<1> SUFFICES ASSUME WalkInv, Ascend PROVE WalkInv'
    OBVIOUS
<1> USE DEF WalkInv
<1> DEFINE h == Head(dfs)
<1>1. dfs # <<>> /\ phase = "order" /\ Succ(h) \subseteq visited /\ postorder' = Append(postorder, h)
        /\ dfs' = Tail(dfs) /\ UNCHANGED <<exits, phase, allBlocks, visited, idom, position>>
      BY DEF Ascend, idomVars
<1>2. h = dfs[1] /\ h \in allBlocks /\ 1 \in 1 .. Len(dfs) /\ h \in Open
      BY <1>1 DEF Open
<1> HIDE DEF h
<1>3. dfs' \in Seq(allBlocks) /\ Len(dfs') = Len(dfs) - 1
        /\ \A i \in 1 .. Len(dfs') : dfs'[i] = dfs[i + 1]
      BY <1>1
<1>4. postorder' \in Seq(allBlocks) /\ Len(postorder') = Len(postorder) + 1
        /\ postorder'[Len(postorder')] = h
        /\ \A i \in 1 .. Len(postorder) : postorder'[i] = postorder[i]
      BY <1>1, <1>2
<1>12. Left' = {postorder'[i] : i \in 1 .. Len(postorder')} /\ Open' = {dfs'[i] : i \in 1 .. Len(dfs')}
      BY DEF Left, Open
<1>5. Left' = Left \cup {h}
  <2>1. \A i \in 1 .. Len(postorder) : i \in 1 .. Len(postorder')
        BY <1>4
  <2>2. Len(postorder') \in 1 .. Len(postorder')
        BY <1>4
  <2>3. Left \subseteq Left' /\ h \in Left'
        BY <1>4, <1>12, <2>1, <2>2 DEF Left
  <2>4. \A i \in 1 .. Len(postorder') : i \in 1 .. Len(postorder) \/ i = Len(postorder')
        BY <1>4
  <2>5. \A i \in 1 .. Len(postorder') : postorder'[i] \in Left \cup {h}
        BY <1>4, <2>4 DEF Left
  <2> QED
      BY <1>12, <2>3, <2>5
<1>6. Open' = Open \ {h}
  <2>1. \A i \in 1 .. Len(dfs') : dfs'[i] \in Open /\ dfs'[i] # h
        BY <1>2, <1>3 DEF Open
  <2>2. ASSUME NEW i \in 1 .. Len(dfs), dfs[i] # h PROVE dfs[i] \in Open'
    <3>1. i - 1 \in 1 .. Len(dfs') /\ dfs'[i - 1] = dfs[i]
          BY <1>2, <1>3, <2>2
    <3> QED
        BY <3>1 DEF Open
  <2>3. Open' \subseteq Open \ {h}
        BY <2>1 DEF Open
  <2>4. Open \ {h} \subseteq Open'
        BY <2>2 DEF Open
  <2> QED
      BY <2>3, <2>4
<1>7. ASSUME NEW i \in 1 .. Len(dfs'), NEW j \in 1 .. Len(dfs'), dfs'[i] = dfs'[j] PROVE i = j
  <2>1. i + 1 \in 1 .. Len(dfs) /\ j + 1 \in 1 .. Len(dfs) /\ dfs[i + 1] = dfs[j + 1]
        BY <1>1, <1>3, <1>7
  <2>2. i + 1 = j + 1
        BY <2>1
  <2> QED
      BY <2>2
<1>8. \A i, j \in 1 .. Len(postorder') : postorder'[i] = postorder'[j] => i = j
  <2>1. h \notin Left
        BY <1>2
  <2>2. \A i \in 1 .. Len(postorder) : postorder'[i] # h
        BY <1>4, <2>1 DEF Left
  <2> QED
      BY <1>4, <2>2
<1>9. dfs' # <<>> => dfs'[Len(dfs')] = Entry
      BY <1>1, <1>3
<1>10. ASSUME dfs' = <<>> PROVE postorder' # <<>> /\ postorder'[Len(postorder')] = Entry
  <2>1. Len(dfs') = 0 /\ Len(dfs) = 1
        BY <1>3, <1>10
  <2>2. h = Entry
        BY <1>1, <1>2, <2>1
  <2> QED
      BY <1>4, <2>2
<1>11. \A b \in Left' : Succ(b)' \subseteq visited'
      BY <1>1, <1>5 DEF Succ
<1>13. visited' = Open' \cup Left' /\ Open' \cap Left' = {}
  <2>1. visited' = visited /\ visited = Open \cup Left /\ Open \cap Left = {}
        BY <1>1
  <2> QED
      BY <2>1, <1>2, <1>5, <1>6
<1>14. dfs' \in Seq(allBlocks') /\ postorder' \in Seq(allBlocks')
      BY <1>1, <1>3, <1>4
<1>15. (dfs' # <<>> => dfs'[Len(dfs')] = Entry)
         /\ (dfs' = <<>> => postorder' # <<>> /\ postorder'[Len(postorder')] = Entry)
      BY <1>9, <1>10
<1>16. phase' = "order" /\ position' = position /\ idom' = idom
      BY <1>1
<1>17. position \in Nat /\ position >= 2 /\ DOMAIN idom = Blocks /\ idom[Entry] = Entry
      OBVIOUS
<1> QED
    BY <1>7, <1>8, <1>11, <1>13, <1>14, <1>15, <1>16, <1>17

\* The sweeps begin behind the entry.
LEMMA RefineStep == WalkInv /\ phase = "idom" /\ Refine => WalkInv'
<1> SUFFICES ASSUME WalkInv, phase = "idom", Refine PROVE WalkInv'
    OBVIOUS
<1> USE DEF WalkInv
<1>1. position <= Len(Rpo) /\ idom' = [idom EXCEPT ![Rpo[position]] = NewIdom(Rpo[position])]
        /\ position' = position + 1
        /\ UNCHANGED <<exits, phase, allBlocks, dfs, visited, postorder>>
      BY DEF Refine, orderVars
<1>2. Len(Rpo) = Len(postorder) /\ Rpo[position] = postorder[Len(postorder) + 1 - position]
      BY <1>1 DEF Rpo
<1>3. postorder # <<>> /\ postorder[Len(postorder)] = Entry
      OBVIOUS
<1>4. Rpo[position] # Entry
      BY <1>1, <1>2, <1>3
<1>5. idom'[Entry] = Entry /\ DOMAIN idom' = Blocks
      BY <1>1, <1>4, GraphAssumption
<1>6. Open' = Open /\ Left' = Left /\ \A b : Succ(b)' = Succ(b)
      BY <1>1 DEF Open, Left, Succ
<1> QED
    BY <1>1, <1>5, <1>6

LEMMA WalkStep == ReachInv /\ WalkInv /\ [Next]_vars => WalkInv'
<1> SUFFICES ASSUME ReachInv, WalkInv, [Next]_vars PROVE WalkInv'
    OBVIOUS
<1> USE DEF WalkInv
<1>1. ASSUME NEW b \in Blocks, Visit(b) PROVE WalkInv'
  <2>1. UNCHANGED <<exits, phase, allBlocks, dfs, visited, postorder, idom, position>>
        BY <1>1 DEF Visit, orderVars, idomVars
  <2>2. Open' = Open /\ Left' = Left /\ \A c : Succ(c)' = Succ(c)
        BY <2>1 DEF Open, Left, Succ
  <2> QED
      BY <2>1, <2>2
<1>2. CASE Eliminate
  <2>1. UNCHANGED <<dfs, visited, postorder, idom, position>> /\ phase' = "order"
          /\ dfs = <<Entry>> /\ postorder = <<>>
        BY <1>2 DEF Eliminate, orderVars, idomVars
  <2>2. Entry \in allBlocks'
        BY <1>2 DEF Eliminate, ReachInv
  <2>3. dfs' \in Seq(allBlocks') /\ postorder' \in Seq(allBlocks')
        BY <2>1, <2>2
  <2>4. Open' = Open /\ Left' = {} /\ Left = {}
        BY <2>1 DEF Open, Left
  <2> QED
      BY <2>1, <2>3, <2>4
<1>3. CASE Descend
      BY <1>3, DescendStep
<1>4. CASE Ascend
      BY <1>4, AscendStep
<1>5. CASE Refine
      BY <1>5, RefineStep DEF Refine
<1>6. CASE StartIdom \/ EndSweep \/ ComputeFrontiers \/ Terminated \/ UNCHANGED vars
  <2>1. UNCHANGED <<exits, allBlocks, dfs, visited, postorder, idom>>
        BY <1>6 DEF StartIdom, EndSweep, ComputeFrontiers, Terminated, vars, orderVars, idomVars
  <2>2. Open' = Open /\ Left' = Left /\ \A c : Succ(c)' = Succ(c)
        BY <2>1 DEF Open, Left, Succ
  <2>3. position' \in {position, 2}
        BY <1>6 DEF StartIdom, EndSweep, ComputeFrontiers, Terminated, vars, idomVars
  <2>4. phase' = "reach" => phase = "reach"
        BY <1>6 DEF StartIdom, EndSweep, ComputeFrontiers, Terminated, vars
  <2>5. phase' \notin {"reach", "order"} => dfs = <<>>
        BY <1>6 DEF StartIdom, EndSweep, ComputeFrontiers, Terminated, vars
  <2> QED
      BY <2>1, <2>2, <2>3, <2>4, <2>5
<1> QED
    BY <1>1, <1>2, <1>3, <1>4, <1>5, <1>6 DEF Next

\* The least closed set of blocks is what the walk visits, and a walk that is
\* over has left what it visited.
LEMMA OrderDone ==
  ASSUME ReachInv, WalkInv, phase # "reach", dfs = <<>>
  PROVE  /\ \A b \in allBlocks : \E i \in 1 .. Len(Rpo) :
              Rpo[i] = b /\ \A j \in 1 .. Len(Rpo) : Rpo[j] = b => j = i
         /\ Rpo[1] = Entry
         /\ idom[Entry] = Entry
<1> USE DEF WalkInv
<1>1. dfs = <<>> /\ postorder # <<>> /\ postorder[Len(postorder)] = Entry /\ postorder \in Seq(allBlocks)
      OBVIOUS
<1>2. visited = Left
      BY <1>1 DEF Open
<1>3. Entry \in visited /\ visited \subseteq allBlocks
      BY <1>1, <1>2 DEF Left
<1>4. allBlocks = reachable /\ worklist = {} /\ reachable \subseteq Blocks
      BY DEF ReachInv
<1>5. \A b \in visited : exits[b] \cap Blocks \subseteq visited
      BY <1>2, <1>3, <1>4 DEF ReachInv, Succ
<1>6. allBlocks \subseteq Left
      BY <1>2, <1>3, <1>4, <1>5 DEF ReachInv
<1>7. Len(Rpo) = Len(postorder) /\ Len(postorder) \in Nat \ {0}
        /\ \A i \in 1 .. Len(postorder) : Rpo[i] = postorder[Len(postorder) + 1 - i]
      BY <1>1 DEF Rpo
<1>8. Rpo[1] = Entry
      BY <1>1, <1>7
<1>9. ASSUME NEW b \in allBlocks
      PROVE  \E i \in 1 .. Len(Rpo) : Rpo[i] = b /\ \A j \in 1 .. Len(Rpo) : Rpo[j] = b => j = i
  <2>1. PICK k \in 1 .. Len(postorder) : postorder[k] = b
        BY <1>6 DEF Left
  <2>2. Len(postorder) + 1 - k \in 1 .. Len(Rpo) /\ Rpo[Len(postorder) + 1 - k] = b
    <3>1. Len(postorder) + 1 - k \in 1 .. Len(postorder) /\ Len(postorder) + 1 - (Len(postorder) + 1 - k) = k
      <4> HIDE DEF WalkInv
      <4> QED
          BY <1>7
    <3> QED
        BY <1>7, <2>1, <3>1
  <2>3. ASSUME NEW j \in 1 .. Len(Rpo), Rpo[j] = b PROVE j = Len(postorder) + 1 - k
    <3> DEFINE l == Len(postorder) + 1 - j
    <3>1. l \in 1 .. Len(postorder) /\ postorder[l] = postorder[k]
          BY <1>7, <2>1, <2>3
    <3>2. l = k
      <4> HIDE DEF l
      <4> QED
          BY <3>1
    <3> QED
        BY <3>2, <1>7
  <2> QED
      BY <2>2, <2>3
<1> QED
    BY <1>8, <1>9

LEMMA OrderFromWalk == ReachInv /\ WalkInv => OrderExact
<1> SUFFICES ASSUME ReachInv, WalkInv, phase \notin {"reach", "order"} PROVE OrderExact
    BY DEF OrderExact
<1>1. phase # "reach" /\ dfs = <<>>
      BY DEF WalkInv
<1> QED
    BY <1>1, OrderDone DEF OrderExact

\* The reverse postorder holds every block that is left once, the entry first.
THEOREM ReversePostorder == Spec => []OrderExact
<1>1. ReachInv /\ WalkInv => OrderExact
      BY OrderFromWalk
<1>2. Spec => []WalkInv
      BY WalkInit, WalkStep, Reached, PTL DEF Spec
<1> QED
    BY <1>1, <1>2, Reached, PTL

-----------------------------------------------------------------------------
(* The tree of the walk: what it leaves first lies behind what it leaves   *)
(* later.                                                                  *)

LEMMA TreeInit == Init => TreeInv
<1> SUFFICES ASSUME Init PROVE TreeInv
    OBVIOUS
<1>1. Len(dfs) = 1 /\ Len(postorder) = 0
      BY DEF Init
<1> QED
    BY <1>1 DEF TreeInv

LEMMA TreeStep == ReachInv /\ WalkInv /\ TreeInv /\ [Next]_vars => TreeInv'
<1> SUFFICES ASSUME ReachInv, WalkInv, TreeInv, [Next]_vars PROVE TreeInv'
    OBVIOUS
<1>1. CASE Descend
  <2>1. PICK s \in Succ(Head(dfs)) : dfs' = <<s>> \o dfs
        BY <1>1 DEF Descend
  <2>2. dfs # <<>> /\ dfs \in Seq(allBlocks) /\ s \in allBlocks /\ UNCHANGED <<exits, allBlocks, postorder>>
        BY <1>1 DEF Descend, WalkInv, Succ
  <2>3. Len(dfs) \in Nat /\ Len(dfs') = Len(dfs) + 1 /\ dfs'[1] = s /\ Head(dfs) = dfs[1] /\ Len(dfs) >= 1
          /\ \A i \in 1 .. Len(dfs) : dfs'[i + 1] = dfs[i]
        BY <2>1, <2>2
  <2>4. Open \subseteq Open'
    <3>1. \A i \in 1 .. Len(dfs) : i + 1 \in 1 .. Len(dfs')
          BY <2>3
    <3> QED
        BY <2>3, <3>1 DEF Open
  <2>5. ASSUME NEW i \in 1 .. Len(dfs') - 1 PROVE dfs'[i] \in Succ(dfs'[i + 1])
    <3>1. i \in 1 .. Len(dfs) /\ dfs'[i + 1] = dfs[i]
          BY <2>3
    <3>2. CASE i = 1
          BY <2>1, <2>3, <3>1, <3>2
    <3>3. CASE i # 1
      <4>1. i - 1 \in 1 .. Len(dfs) - 1 /\ (i - 1) + 1 = i
            BY <2>3, <3>1, <3>3
      <4>2. dfs[i - 1] \in Succ(dfs[i])
            BY <4>1 DEF TreeInv
      <4>3. dfs'[i] = dfs[i - 1]
            BY <2>3, <4>1
      <4> QED
          BY <3>1, <4>2, <4>3
    <3> QED
        BY <3>2, <3>3
  <2>6. \A b : Succ(b)' = Succ(b)
        BY <2>2 DEF Succ
  <2> QED
      BY <2>2, <2>4, <2>5, <2>6 DEF TreeInv
<1>2. CASE Ascend
  <2> DEFINE h == dfs[1]
             n == Len(postorder)
  <2>1. dfs # <<>> /\ dfs \in Seq(allBlocks) /\ postorder \in Seq(allBlocks)
          /\ dfs[Len(dfs)] = Entry /\ UNCHANGED <<exits, allBlocks>>
          /\ postorder' = Append(postorder, dfs[1]) /\ dfs' = Tail(dfs)
        BY <1>2 DEF Ascend, WalkInv
  <2>2. Len(dfs) \in Nat /\ Len(dfs) >= 1 /\ Len(dfs') = Len(dfs) - 1
          /\ \A i \in 1 .. Len(dfs') : dfs'[i] = dfs[i + 1]
        BY <2>1
  <2>3. n \in Nat /\ Len(postorder') = n + 1 /\ postorder'[n + 1] = h
          /\ \A i \in 1 .. n : postorder'[i] = postorder[i]
        BY <2>1
  <2> HIDE DEF n
  <2>4. \A b : Succ(b)' = Succ(b)
        BY <2>1 DEF Succ
  <2>5. ASSUME NEW i \in 1 .. Len(dfs') - 1 PROVE dfs'[i] \in Succ(dfs'[i + 1])
    <3>1. i + 1 \in 1 .. Len(dfs) - 1 /\ dfs'[i] = dfs[i + 1] /\ dfs'[i + 1] = dfs[(i + 1) + 1]
          BY <2>2
    <3> QED
        BY <3>1 DEF TreeInv
  <2>6. \A b \in Open : b = h \/ b \in Open'
    <3> SUFFICES ASSUME NEW i \in 1 .. Len(dfs), i # 1 PROVE dfs[i] \in Open'
        BY DEF Open
    <3>1. i - 1 \in 1 .. Len(dfs') /\ dfs'[i - 1] = dfs[(i - 1) + 1] /\ (i - 1) + 1 = i
          BY <2>2
    <3> QED
        BY <3>1 DEF Open
  \* the block that is left came from the one below it on the stack
  <2>7. h = Entry \/ \E b \in Open' : h \in Succ(b)
    <3>1. CASE Len(dfs) = 1
          BY <2>1, <3>1
    <3>2. CASE Len(dfs) # 1
      <4>1. 1 \in 1 .. Len(dfs) - 1 /\ 1 \in 1 .. Len(dfs') /\ dfs'[1] = dfs[1 + 1]
            BY <2>2, <3>2
      <4>2. h \in Succ(dfs[1 + 1])
            BY <4>1 DEF TreeInv
      <4> QED
          BY <4>1, <4>2 DEF Open
    <3> QED
        BY <3>1, <3>2
  <2>8. ASSUME NEW i \in 1 .. Len(postorder')
        PROVE  \/ postorder'[i] = Entry
               \/ \E b \in Open' : postorder'[i] \in Succ(b)
               \/ \E j \in i + 1 .. Len(postorder') : postorder'[i] \in Succ(postorder'[j])
    <3>1. CASE i = n + 1
          BY <2>3, <2>7, <3>1
    <3>2. CASE i # n + 1
      <4>1. i \in 1 .. n /\ postorder'[i] = postorder[i] /\ n + 1 \in i + 1 .. Len(postorder')
            BY <2>3, <3>2
      <4>2. \A j \in i + 1 .. n : j \in i + 1 .. Len(postorder') /\ postorder'[j] = postorder[j]
            BY <2>3, <4>1
      <4>3. \/ postorder[i] = Entry
            \/ \E b \in Open : postorder[i] \in Succ(b)
            \/ \E j \in i + 1 .. n : postorder[i] \in Succ(postorder[j])
            BY <4>1 DEF TreeInv, n
      <4>4. CASE \E b \in Open : postorder[i] \in Succ(b)
            BY <2>3, <2>6, <4>1, <4>4
      <4>5. CASE \E j \in i + 1 .. n : postorder[i] \in Succ(postorder[j])
            BY <4>1, <4>2, <4>5
      <4> QED
          BY <4>1, <4>3, <4>4, <4>5
    <3> QED
        BY <3>1, <3>2
  <2> QED
      BY <2>4, <2>5, <2>8 DEF TreeInv
<1>3. CASE Eliminate
  <2>1. dfs' = <<Entry>> /\ postorder' = <<>>
        BY <1>3 DEF Eliminate, orderVars, WalkInv
  <2>2. Len(dfs') = 1 /\ Len(postorder') = 0
        BY <2>1
  <2> QED
      BY <2>2 DEF TreeInv
<1>4. CASE UNCHANGED <<exits, allBlocks, dfs, postorder>>
  <2>1. Open' = Open /\ \A b : Succ(b)' = Succ(b)
        BY <1>4 DEF Open, Succ
  <2> QED
      BY <1>4, <2>1 DEF TreeInv
<1>5. ASSUME ~Descend, ~Ascend, ~Eliminate PROVE UNCHANGED <<exits, allBlocks, dfs, postorder>>
      BY <1>5 DEF Next, Visit, StartIdom, Refine, EndSweep, ComputeFrontiers, Terminated, vars, orderVars
<1> QED
    BY <1>1, <1>2, <1>3, <1>4, <1>5

\* The places of the blocks, and the shape of the order.
LEMMA OrderFacts ==
  ASSUME ReachInv, WalkInv, TreeInv, phase # "reach", dfs = <<>>
  PROVE  /\ Entry \in allBlocks /\ allBlocks \subseteq Blocks
         /\ Len(Rpo) = Len(postorder) /\ Len(Rpo) \in Nat
         /\ RpoIndex(Entry) = 1
         /\ \A b \in allBlocks : RpoIndex(b) \in 1 .. Len(Rpo) /\ Rpo[RpoIndex(b)] = b
         /\ \A i \in 1 .. Len(Rpo) : Rpo[i] \in allBlocks /\ RpoIndex(Rpo[i]) = i
         /\ \A b \in allBlocks \ {Entry} : \E p \in Pred(b) : RpoIndex(p) < RpoIndex(b)
<1> DEFINE n == Len(postorder)
<1>1. /\ \A b \in allBlocks : \E i \in 1 .. Len(Rpo) :
           Rpo[i] = b /\ \A j \in 1 .. Len(Rpo) : Rpo[j] = b => j = i
      /\ Rpo[1] = Entry
      BY OrderDone
<1>2. postorder \in Seq(allBlocks) /\ dfs = <<>>
        /\ \A i, j \in 1 .. n : postorder[i] = postorder[j] => i = j
      BY DEF WalkInv
<1>3. n \in Nat /\ \A i \in 1 .. n : postorder[i] \in allBlocks
      BY <1>2
<1>4. Len(Rpo) = n /\ \A i \in 1 .. n : Rpo[i] = postorder[n + 1 - i]
      BY <1>3 DEF Rpo
<1> HIDE DEF n
<1>5. ASSUME NEW b \in allBlocks PROVE RpoIndex(b) \in 1 .. Len(Rpo) /\ Rpo[RpoIndex(b)] = b
  <2>1. \E i \in 1 .. Len(Rpo) : Rpo[i] = b
        BY <1>1
  <2> QED
      BY <2>1 DEF RpoIndex
<1>6. ASSUME NEW i \in 1 .. n PROVE n + 1 - i \in 1 .. n /\ n + 1 - (n + 1 - i) = i
      BY <1>3
<1>7. ASSUME NEW i \in 1 .. Len(Rpo) PROVE Rpo[i] \in allBlocks /\ RpoIndex(Rpo[i]) = i
  <2>1. Rpo[i] \in allBlocks
        BY <1>3, <1>4, <1>6
  <2>2. PICK k \in 1 .. Len(Rpo) : Rpo[k] = Rpo[i] /\ \A j \in 1 .. Len(Rpo) : Rpo[j] = Rpo[i] => j = k
        BY <1>1, <2>1
  <2> QED
      BY <1>5, <2>1, <2>2
<1>8. Entry \in allBlocks /\ allBlocks \subseteq Blocks
      BY DEF ReachInv
<1>9. RpoIndex(Entry) = 1
  <2>1. Rpo[1] = Entry /\ Len(Rpo) >= 1
    <3>1. \E i \in 1 .. Len(Rpo) : Rpo[i] = Entry
          BY <1>1, <1>8
    <3> QED
        BY <1>1, <1>3, <1>4, <3>1
  <2>2. 1 \in 1 .. Len(Rpo)
        BY <1>3, <1>4, <2>1
  <2> QED
      BY <1>7, <2>1, <2>2
<1>10. ASSUME NEW b \in allBlocks, b # Entry PROVE \E p \in Pred(b) : RpoIndex(p) < RpoIndex(b)
  <2> DEFINE k == RpoIndex(b)
             i == n + 1 - k
  <2>1. k \in 1 .. n /\ Rpo[k] = b
        BY <1>4, <1>5
  <2> HIDE DEF k
  <2>2. i \in 1 .. n /\ postorder[i] = b
        BY <1>4, <1>6, <2>1
  <2> HIDE DEF i
  <2>3. Open = {}
        BY <1>2 DEF Open
  <2>4. PICK j \in i + 1 .. n : b \in Succ(postorder[j])
        BY <1>10, <2>2, <2>3 DEF TreeInv, n
  <2>5. j \in 1 .. n /\ n + 1 - j \in 1 .. n /\ n + 1 - j < k /\ n + 1 - (n + 1 - j) = j
        BY <1>3, <2>1, <2>2 DEF i
  <2> DEFINE p == postorder[j]
  <2>6. p \in Pred(b)
        BY <1>3, <2>4, <2>5 DEF Pred
  <2>7. Rpo[n + 1 - j] = p
        BY <1>4, <2>5
  <2>8. RpoIndex(p) = n + 1 - j
        BY <1>4, <1>7, <2>5, <2>7
  <2> QED
      BY <2>5, <2>6, <2>8 DEF k
<1> QED
    BY <1>3, <1>4, <1>5, <1>7, <1>8, <1>9, <1>10 DEF n

-----------------------------------------------------------------------------
(* The paths that avoid a block.                                           *)

LEMMA BlocksFinite == IsFiniteSet(Blocks)
BY GraphAssumption, FS_Subset

\* One more edge of the paths that avoid d.
PathStep(d) == [X \in SUBSET Blocks |-> (UNION {exits[b] : b \in X}) \cap (Blocks \ {d})]

\* Around(d) is the least set with the entry, if it is not d, that is closed
\* under the exits other than d.
LEMMA AroundLeast ==
  ASSUME NEW d
  PROVE  LeastFixpoint(Around(d), Blocks, {Entry} \ {d}, PathStep(d))
<1> DEFINE N == Cardinality(Blocks)
           I == {Entry} \ {d}
           Then(X) == (UNION {exits[b] : b \in X}) \cap (Blocks \ {d})
           within == CHOOSE W : W = [n \in 0 .. N |->
                       IF n = 0 THEN {Entry} \ {d} ELSE W[n - 1] \cup Then(W[n - 1])]
<1>1. N \in Nat
      BY BlocksFinite, FS_CardinalityType
<1>2. Saturates(Blocks, I, PathStep(d))
      BY BlocksFinite, GraphAssumption DEF Saturates, PathStep
<1>3. \A X \in SUBSET Blocks : PathStep(d)[X] = Then(X)
      BY DEF PathStep
<1>4. Around(d) = within[N]
      BY DEF Around
<1> HIDE DEF N, Then
<1>5. PICK W \in [0 .. N -> SUBSET Blocks] :
        W = [n \in 0 .. N |-> IF n = 0 THEN I ELSE W[n - 1] \cup PathStep(d)[W[n - 1]]]
  <2> HIDE DEF I
  <2> QED
      BY <1>2, SaturationDefined DEF N
<1>6. W = [n \in 0 .. N |-> IF n = 0 THEN I ELSE W[n - 1] \cup Then(W[n - 1])]
  <2>1. \A n \in 0 .. N : n # 0 => W[n - 1] \in SUBSET Blocks
        BY <1>1
  <2>2. \A n \in 0 .. N : n # 0 => PathStep(d)[W[n - 1]] = Then(W[n - 1])
        BY <1>3, <2>1
  <2> QED
      BY <1>5, <2>2
<1>7. within = [n \in 0 .. N |-> IF n = 0 THEN I ELSE within[n - 1] \cup Then(within[n - 1])]
      BY <1>6
<1> HIDE DEF within, I
<1>8. Grows(within, Blocks, I, PathStep(d))
  <2>1. 0 \in 0 .. N
        BY <1>1
  <2>2. within[0] = I
        BY <1>7, <2>1
  <2>3. ASSUME NEW n \in 0 .. N, n # 0, within[n - 1] \in SUBSET Blocks
        PROVE  within[n] = within[n - 1] \cup PathStep(d)[within[n - 1]]
    <3>1. within[n] = within[n - 1] \cup Then(within[n - 1])
          BY <1>7, <2>3
    <3> QED
        BY <1>3, <2>3, <3>1
  <2> QED
      BY <2>2, <2>3 DEF Grows, N
<1>9. LeastFixpoint(within[N], Blocks, I, PathStep(d))
      BY <1>2, <1>8, Saturation DEF N
<1> QED
    BY <1>4, <1>9 DEF I

\* What holds of the analysis once the order is there.
Ordered == ReachInv /\ WalkInv /\ TreeInv /\ phase # "reach" /\ dfs = <<>>

\* Every path to a block goes through it, and through what every path to a
\* predecessor goes through; nothing but the entry is on the path to the entry.
LEMMA MustPassFacts ==
  ASSUME Ordered
  PROVE  /\ MustPass(Entry) \subseteq {Entry}
         /\ \A b \in allBlocks : b \in MustPass(b)
         /\ \A b \in allBlocks : \A p \in Pred(b) : MustPass(b) \ {b} \subseteq MustPass(p)
<1>1. \A d : /\ {Entry} \ {d} \subseteq Around(d)
             /\ Around(d) \in SUBSET Blocks
             /\ PathStep(d)[Around(d)] \subseteq Around(d)
      BY AroundLeast DEF LeastFixpoint
<1>2. allBlocks \subseteq Blocks /\ Entry \in allBlocks
      BY DEF Ordered, ReachInv
<1>3. MustPass(Entry) \subseteq {Entry}
      BY <1>1 DEF MustPass
<1>4. ASSUME NEW b \in allBlocks PROVE b \in MustPass(b)
  <2> DEFINE C == Blocks \ {b}
  <2>1. {Entry} \ {b} \subseteq C
        BY GraphAssumption
  <2>2. \A X \in SUBSET C : PathStep(b)[X] \subseteq C
        BY DEF PathStep
  <2>3. Around(b) \subseteq C
        BY <2>1, <2>2, AroundLeast DEF LeastFixpoint
  <2> QED
      BY <2>3 DEF MustPass
<1>5. ASSUME NEW b \in allBlocks, NEW p \in Pred(b), NEW d \in MustPass(b), d # b
      PROVE  d \in MustPass(p)
  <2>1. p \in allBlocks /\ b \in exits[p] /\ d \in allBlocks /\ b \notin Around(d)
        BY DEF Pred, Succ, MustPass
  <2>2. ASSUME p \in Around(d) PROVE FALSE
    <3>1. b \in PathStep(d)[Around(d)]
          BY <1>1, <1>2, <1>5, <2>1, <2>2 DEF PathStep
    <3> QED
        BY <1>1, <2>1, <3>1
  <2> QED
      BY <2>1, <2>2 DEF MustPass
<1> QED
    BY <1>3, <1>4, <1>5

\* A set of blocks that has the entry and that control leaves to d only holds
\* every block that some path reaches around d.
LEMMA OnlyThrough ==
  ASSUME Ordered, NEW d \in allBlocks, NEW S \in SUBSET allBlocks,
         Entry \in S \cup {d}, \A p \in S : Succ(p) \subseteq S \cup {d}
  PROVE  \A b \in allBlocks \ S : d \in MustPass(b)
<1>1. allBlocks \subseteq Blocks /\ \A b \in allBlocks : exits[b] \cap Blocks \subseteq allBlocks
      BY DEF Ordered, ReachInv
<1>2. S \in SUBSET Blocks /\ {Entry} \ {d} \subseteq S
      BY <1>1
<1>3. ASSUME NEW X \in SUBSET S, NEW c \in PathStep(d)[X] PROVE c \in S
  <2>1. PICK b \in X : c \in exits[b] /\ c \in Blocks /\ c # d
        BY <1>2 DEF PathStep
  <2>2. c \in Succ(b)
        BY <1>1, <2>1 DEF Succ
  <2> QED
      BY <2>1, <2>2
<1>4. Around(d) \subseteq S
      BY <1>2, <1>3, AroundLeast DEF LeastFixpoint
<1> QED
    BY <1>4 DEF MustPass

\* What every path to a block goes through comes no later in the order.
LEMMA MustPassIndex ==
  ASSUME Ordered, NEW y \in allBlocks, NEW d \in MustPass(y)
  PROVE  RpoIndex(d) <= RpoIndex(y)
<1> DEFINE Late == {c \in allBlocks : d \in MustPass(c) /\ RpoIndex(d) > RpoIndex(c)}
           T == {RpoIndex(c) : c \in Late}
<1>1. /\ RpoIndex(Entry) = 1
      /\ \A b \in allBlocks : RpoIndex(b) \in 1 .. Len(Rpo)
      /\ \A b \in allBlocks \ {Entry} : \E p \in Pred(b) : RpoIndex(p) < RpoIndex(b)
      BY OrderFacts DEF Ordered
<1>2. Len(Rpo) \in Nat
      BY OrderFacts DEF Ordered
<1>3. d \in allBlocks
      BY DEF MustPass
<1>4. ASSUME Late # {} PROVE FALSE
  <2>1. T \in SUBSET Nat /\ T # {}
        BY <1>1, <1>2, <1>4
  <2>2. PICK m \in T : \A k \in T : m <= k
    <3> HIDE DEF T
    <3> QED
        BY <2>1, LeastElement
  <2>3. PICK c \in Late : m = RpoIndex(c)
        OBVIOUS
  <2>4. c \in allBlocks /\ d \in MustPass(c) /\ RpoIndex(d) > RpoIndex(c) /\ d # c
    <3>1. RpoIndex(c) \in Int
          BY <1>1, <1>2
    <3> QED
        BY <3>1
  <2>5. c # Entry
        BY <2>4, MustPassFacts
  <2>6. PICK p \in Pred(c) : RpoIndex(p) < RpoIndex(c)
        BY <1>1, <2>4, <2>5
  <2>7. p \in allBlocks /\ d \in MustPass(p)
        BY <2>4, <2>6, MustPassFacts DEF Pred
  <2>8. RpoIndex(d) > RpoIndex(p)
        BY <1>1, <1>2, <1>3, <2>4, <2>6, <2>7
  <2>9. RpoIndex(p) \in T
        BY <2>7, <2>8
  <2>10. RpoIndex(c) <= RpoIndex(p)
         BY <2>2, <2>3, <2>9
  <2>11. RpoIndex(c) \in Int /\ RpoIndex(p) \in Int
         BY <1>1, <1>2, <2>4, <2>7
  <2> QED
      BY <2>6, <2>10, <2>11
<1>5. RpoIndex(d) \in Int /\ RpoIndex(y) \in Int
      BY <1>1, <1>2, <1>3
<1> QED
    BY <1>4, <1>5

-----------------------------------------------------------------------------
(* Where chains of candidates meet.                                        *)

Chained == Ordered /\ idom \in [Blocks -> allBlocks \cup {0}] /\ ChainInv

\* z is where the chains above the blocks of P meet: it is on each of them, and
\* what is on all paths to all of P is on all paths to z.
Meets(z, P) ==
  /\ z \in Candidates
  /\ \A p \in P : RpoIndex(z) <= RpoIndex(p)
  /\ \A p \in P : \A C \in SUBSET Candidates :
       p \in C /\ (\A c \in C : idom[c] \in C) => z \in C
  /\ \A d \in allBlocks : (\A p \in P : d \in MustPass(p)) => d \in MustPass(z)

LEMMA CandidateFacts ==
  ASSUME Chained
  PROVE  /\ Len(Rpo) \in Nat
         /\ Candidates \subseteq allBlocks /\ Entry \in Candidates
         /\ RpoIndex(Entry) = 1 /\ idom[Entry] = Entry
         /\ \A c \in Candidates : RpoIndex(c) \in 1 .. Len(Rpo) /\ idom[c] \in Candidates
         /\ \A c \in Candidates \ {Entry} : RpoIndex(idom[c]) < RpoIndex(c)
         /\ \A x, y \in Candidates : RpoIndex(x) = RpoIndex(y) => x = y
<1>1. /\ Len(Rpo) \in Nat /\ Entry \in allBlocks /\ RpoIndex(Entry) = 1
      /\ \A b \in allBlocks : RpoIndex(b) \in 1 .. Len(Rpo) /\ Rpo[RpoIndex(b)] = b
      BY OrderFacts DEF Chained, Ordered
<1>2. idom[Entry] = Entry
      BY DEF Chained, Ordered, WalkInv
<1>3. Entry # 0
      BY GraphAssumption
<1>4. Candidates \subseteq allBlocks /\ Entry \in Candidates
      BY <1>1, <1>2, <1>3 DEF Candidates
<1>5. \A c \in Candidates \ {Entry} : idom[c] \in Candidates /\ RpoIndex(idom[c]) < RpoIndex(c)
      BY DEF Chained, ChainInv
<1>6. \A x, y \in Candidates : RpoIndex(x) = RpoIndex(y) => x = y
      BY <1>1, <1>4
<1> QED
    BY <1>1, <1>2, <1>4, <1>5, <1>6

\* The finger that is further down the order goes up.
LEMMA MeetsUp ==
  ASSUME Chained, NEW x \in Candidates, NEW y \in Candidates, RpoIndex(y) < RpoIndex(x),
         NEW z, Meets(z, {idom[x], y})
  PROVE  Meets(z, {x, y})
<1>1. /\ Len(Rpo) \in Nat /\ RpoIndex(Entry) = 1 /\ Candidates \subseteq allBlocks
      /\ \A c \in Candidates : RpoIndex(c) \in 1 .. Len(Rpo) /\ idom[c] \in Candidates
      /\ \A c \in Candidates \ {Entry} : RpoIndex(idom[c]) < RpoIndex(c)
      BY CandidateFacts
<1>2. z \in Candidates /\ RpoIndex(z) <= RpoIndex(idom[x]) /\ RpoIndex(z) <= RpoIndex(y)
      BY DEF Meets
<1>3. x # Entry
      BY <1>1
<1>4. RpoIndex(idom[x]) < RpoIndex(x) /\ RpoIndex(idom[x]) \in Int /\ RpoIndex(x) \in Int /\ RpoIndex(z) \in Int
      BY <1>1, <1>2, <1>3
<1>5. RpoIndex(z) <= RpoIndex(x)
      BY <1>2, <1>4
<1>6. \A C \in SUBSET Candidates : x \in C /\ (\A c \in C : idom[c] \in C) => z \in C
      BY DEF Meets
<1>7. ASSUME NEW d \in allBlocks, d \in MustPass(x), d \in MustPass(y) PROVE d \in MustPass(z)
  <2>1. RpoIndex(d) <= RpoIndex(y)
        BY <1>1, <1>7, MustPassIndex DEF Chained
  <2>2. RpoIndex(d) \in Int /\ RpoIndex(y) \in Int
    <3>1. \A b \in allBlocks : RpoIndex(b) \in 1 .. Len(Rpo)
          BY OrderFacts DEF Chained, Ordered
    <3> QED
        BY <1>1, <3>1
  <2>3. d # x
        BY <1>4, <2>1, <2>2
  <2>4. d \in MustPass(idom[x])
        BY <1>3, <1>7, <2>3 DEF Chained, ChainInv
  <2> QED
      BY <1>7, <2>4 DEF Meets
<1> QED
    BY <1>2, <1>5, <1>6, <1>7 DEF Meets

LEMMA IntersectMeets ==
  ASSUME Chained, NEW left \in Candidates, NEW right \in Candidates
  PROVE  Meets(Intersect(left, right), {left, right})
<1> DEFINE S == Candidates \X Candidates
           N == 2 * Len(Rpo)
           rank == [p \in S |-> RpoIndex(p[1]) + RpoIndex(p[2])]
           stop == {p \in S : p[1] = p[2]}
           base == [p \in S |-> p[1]]
           next == [p \in S |-> IF p[1] = p[2] THEN p
                                ELSE IF RpoIndex(p[1]) > RpoIndex(p[2]) THEN <<idom[p[1]], p[2]>>
                                ELSE <<p[1], idom[p[2]]>>]
           step == [p \in S |-> [v \in Candidates |-> v]]
           Up(g, p) == IF p[1] = p[2] THEN p[1]
                       ELSE IF RpoIndex(p[1]) > RpoIndex(p[2]) THEN g[<<idom[p[1]], p[2]>>]
                       ELSE g[<<p[1], idom[p[2]]>>]
           meet == CHOOSE g : g = [p \in S |-> Up(g, p)]
<1>1. /\ Len(Rpo) \in Nat /\ Entry \in Candidates /\ RpoIndex(Entry) = 1
      /\ \A c \in Candidates : RpoIndex(c) \in 1 .. Len(Rpo) /\ idom[c] \in Candidates
      /\ \A c \in Candidates \ {Entry} : RpoIndex(idom[c]) < RpoIndex(c)
      /\ \A x, y \in Candidates : RpoIndex(x) = RpoIndex(y) => x = y
      BY CandidateFacts
<1>2. ASSUME NEW x \in Candidates, NEW y \in Candidates, x # y
      PROVE  \/ /\ RpoIndex(x) > RpoIndex(y) /\ ~ (RpoIndex(x) < RpoIndex(y))
                /\ <<idom[x], y>> \in S /\ RpoIndex(idom[x]) < RpoIndex(x)
             \/ /\ RpoIndex(x) < RpoIndex(y) /\ ~ (RpoIndex(x) > RpoIndex(y))
                /\ <<x, idom[y]>> \in S /\ RpoIndex(idom[y]) < RpoIndex(y)
  <2>1. RpoIndex(x) \in 1 .. Len(Rpo) /\ RpoIndex(y) \in 1 .. Len(Rpo) /\ RpoIndex(x) # RpoIndex(y)
        BY <1>1, <1>2
  <2>2. CASE RpoIndex(x) > RpoIndex(y)
        BY <1>1, <2>1, <2>2
  <2>3. CASE RpoIndex(x) < RpoIndex(y)
        BY <1>1, <2>1, <2>3
  <2> QED
      BY <1>1, <2>1, <2>2, <2>3
<1>12. N \in Nat /\ rank \in [S -> 0 .. N] /\ stop \in SUBSET S /\ base \in [S -> Candidates]
         /\ step \in [S -> [Candidates -> Candidates]]
       BY <1>1
<1>13. next \in [S -> S]
       BY <1>1
\* the walk of the two fingers ends
<1>3. Descends(S, Candidates, N, rank, stop, base, next, step)
  <2>3. ASSUME NEW x \in Candidates, NEW y \in Candidates, x # y
        PROVE  rank[next[<<x, y>>]] < rank[<<x, y>>]
    <3>1. <<x, y>> \in S /\ rank[<<x, y>>] = RpoIndex(x) + RpoIndex(y)
          BY <1>1
    <3>2. CASE RpoIndex(x) > RpoIndex(y)
      <4>1. next[<<x, y>>] = <<idom[x], y>> /\ <<idom[x], y>> \in S /\ RpoIndex(idom[x]) < RpoIndex(x)
            BY <1>1, <1>2, <2>3, <3>1, <3>2
      <4>2. rank[<<idom[x], y>>] = RpoIndex(idom[x]) + RpoIndex(y)
            BY <4>1
      <4> QED
          BY <1>1, <3>1, <4>1, <4>2
    <3>3. CASE ~ (RpoIndex(x) > RpoIndex(y))
      <4>1. next[<<x, y>>] = <<x, idom[y]>> /\ <<x, idom[y]>> \in S /\ RpoIndex(idom[y]) < RpoIndex(y)
            BY <1>1, <1>2, <2>3, <3>1, <3>3
      <4>2. rank[<<x, idom[y]>>] = RpoIndex(x) + RpoIndex(idom[y])
            BY <4>1
      <4> QED
          BY <1>1, <3>1, <4>1, <4>2
    <3> QED
        BY <3>2, <3>3
  <2>4. ASSUME NEW p \in S \ stop PROVE rank[next[p]] < rank[p]
    <3>1. p = <<p[1], p[2]>> /\ p[1] \in Candidates /\ p[2] \in Candidates /\ p[1] # p[2]
          OBVIOUS
    <3> HIDE DEF rank, next
    <3> QED
        BY <2>3, <3>1
  <2> HIDE DEF S, N, rank, stop, base, next, step
  <2> QED
      BY <1>12, <1>13, <2>4 DEF Descends
<1>4. PICK g \in [S -> Candidates] :
        \A p \in S : g[p] = IF p \in stop THEN base[p] ELSE step[p][g[next[p]]]
  <2> HIDE DEF S, N, rank, stop, base, next, step
  <2> QED
      BY <1>3, Recursion
<1>5. ASSUME NEW p \in S PROVE g[p] = Up(g, p)
  <2>1. CASE p[1] = p[2]
    <3>1. p \in stop /\ base[p] = p[1]
          BY <2>1
    <3> QED
        BY <1>4, <2>1, <3>1
  <2>2. CASE p[1] # p[2]
    <3>1. p \notin stop /\ next[p] \in S /\ g[next[p]] \in Candidates
          BY <1>13, <2>2
    <3>2. g[p] = g[next[p]]
          BY <1>4, <3>1
    <3> QED
        BY <2>2, <3>2
  <2> QED
      BY <2>1, <2>2
<1>6. g = [p \in S |-> Up(g, p)]
  <2> HIDE DEF Up
  <2> QED
      BY <1>5
<1>7. meet = [p \in S |-> Up(meet, p)]
      BY <1>6
<1>8. Intersect(left, right) = meet[<<left, right>>]
      BY DEF Intersect
<1> HIDE DEF meet
<1>9. ASSUME NEW x \in Candidates, NEW y \in Candidates
      PROVE  /\ x = y => meet[<<x, y>>] = x
             /\ RpoIndex(x) > RpoIndex(y) => meet[<<x, y>>] = meet[<<idom[x], y>>]
             /\ RpoIndex(x) < RpoIndex(y) => meet[<<x, y>>] = meet[<<x, idom[y]>>]
  <2>1. meet[<<x, y>>] = Up(meet, <<x, y>>)
    <3> HIDE DEF Up
    <3> QED
        BY <1>7
  <2>2. RpoIndex(x) \in Int /\ RpoIndex(y) \in Int
        BY <1>1
  <2> QED
      BY <2>1, <2>2
<1> DEFINE Bad == {p \in S : ~Meets(meet[p], {p[1], p[2]})}
           T == {rank[p] : p \in Bad}
<1>10. ASSUME Bad # {} PROVE FALSE
  <2>1. T \in SUBSET Nat /\ T # {}
    <3>1. Bad \subseteq S
          OBVIOUS
    <3> HIDE DEF rank, S, N, Bad
    <3>2. \A p \in Bad : rank[p] \in Nat
          BY <1>12, <3>1
    <3> QED
        BY <1>10, <3>2
  <2>2. PICK m \in T : \A k \in T : m <= k
    <3> HIDE DEF T
    <3> QED
        BY <2>1, LeastElement
  <2>3. PICK p \in Bad : m = rank[p]
        OBVIOUS
  <2>4. PICK x \in Candidates, y \in Candidates : p = <<x, y>>
        OBVIOUS
  <2>5. ~Meets(meet[<<x, y>>], {x, y}) /\ rank[<<x, y>>] = RpoIndex(x) + RpoIndex(y)
        BY <2>3, <2>4
  <2>6. ASSUME NEW a \in Candidates, NEW b \in Candidates,
               RpoIndex(a) + RpoIndex(b) < RpoIndex(x) + RpoIndex(y)
        PROVE  Meets(meet[<<a, b>>], {a, b})
    <3>1. <<a, b>> \in S /\ rank[<<a, b>>] = RpoIndex(a) + RpoIndex(b)
          OBVIOUS
    <3>2. RpoIndex(a) + RpoIndex(b) \in Int /\ RpoIndex(x) + RpoIndex(y) \in Int
          BY <1>1
    <3>3. ASSUME <<a, b>> \in Bad PROVE FALSE
      <4>1. rank[<<a, b>>] \in T
            BY <3>3
      <4>2. RpoIndex(x) + RpoIndex(y) <= RpoIndex(a) + RpoIndex(b)
        <5> HIDE DEF T, rank
        <5> QED
            BY <2>2, <2>3, <2>4, <2>5, <3>1, <4>1
      <4> QED
          BY <2>6, <3>2, <4>2
    <3> QED
        BY <3>1, <3>3
  <2> HIDE DEF Bad, T, S, N, rank, stop, base, next, step
  <2>7. CASE x = y
    <3>1. meet[<<x, y>>] = x
          BY <1>9, <2>7
    <3>2. RpoIndex(x) \in Int
          BY <1>1
    <3> QED
        BY <2>5, <2>7, <3>1, <3>2 DEF Meets
  <2>8. CASE x # y /\ RpoIndex(x) > RpoIndex(y)
    <3>1. idom[x] \in Candidates /\ RpoIndex(idom[x]) < RpoIndex(x)
          BY <1>1, <1>2, <2>8
    <3>2. RpoIndex(idom[x]) + RpoIndex(y) < RpoIndex(x) + RpoIndex(y)
          BY <1>1, <3>1
    <3>3. Meets(meet[<<idom[x], y>>], {idom[x], y})
          BY <2>6, <3>1, <3>2
    <3>6. meet[<<x, y>>] = meet[<<idom[x], y>>]
          BY <1>9, <2>8
    <3>4. RpoIndex(y) < RpoIndex(x)
          BY <2>8, <1>1
    <3> QED
        BY <2>5, <3>3, <3>4, <3>6, MeetsUp
  <2>9. CASE x # y /\ ~ (RpoIndex(x) > RpoIndex(y))
    <3>1. RpoIndex(x) < RpoIndex(y) /\ idom[y] \in Candidates /\ RpoIndex(idom[y]) < RpoIndex(y)
          BY <1>1, <1>2, <2>9
    <3>2. RpoIndex(x) + RpoIndex(idom[y]) < RpoIndex(x) + RpoIndex(y)
          BY <1>1, <3>1
    <3>3. Meets(meet[<<x, idom[y]>>], {x, idom[y]})
          BY <2>6, <3>1, <3>2
    <3>6. meet[<<x, y>>] = meet[<<x, idom[y]>>]
          BY <1>9, <3>1
    <3>4. {x, idom[y]} = {idom[y], x} /\ {x, y} = {y, x}
          OBVIOUS
    <3>5. Meets(meet[<<x, y>>], {y, x})
          BY <3>1, <3>3, <3>4, <3>6, MeetsUp
    <3> QED
        BY <2>5, <3>4, <3>5
  <2> QED
      BY <2>7, <2>8, <2>9
<1>11. <<left, right>> \in S /\ <<left, right>> \notin Bad
       BY <1>10
<1> QED
    BY <1>8, <1>11

\* The fold of Intersect over the blocks of a set, the greatest label first.
Folds(h, ready) ==
  \A s \in SUBSET ready : s # {} =>
    IF s = {Greatest(s)} THEN h[s] = Greatest(s)
    ELSE h[s \ {Greatest(s)}] \in Candidates =>
           h[s] = Intersect(Greatest(s), h[s \ {Greatest(s)}])

LEMMA CandidatesFinite ==
  ASSUME Chained, NEW s \in SUBSET Candidates
  PROVE  /\ IsFiniteSet(s) /\ Cardinality(s) \in Nat
         /\ s # {} => /\ Greatest(s) \in s
                      /\ Cardinality(s \ {Greatest(s)}) = Cardinality(s) - 1
<1>1. s \subseteq Blocks /\ Blocks \subseteq Nat
      BY GraphAssumption, CandidateFacts DEF Chained, Ordered, ReachInv
<1>2. IsFiniteSet(s)
      BY <1>1, BlocksFinite, FS_Subset
<1>3. Cardinality(s) \in Nat
      BY <1>2, FS_CardinalityType
<1>4. ASSUME s # {} PROVE Greatest(s) \in s
  <2>1. s \in SUBSET Nat
        BY <1>1
  <2>2. \E p \in s : \A q \in s : q <= p
        BY <1>2, <1>4, <2>1, GreatestElement
  <2> QED
      BY <2>2 DEF Greatest
<1>5. ASSUME s # {} PROVE Cardinality(s \ {Greatest(s)}) = Cardinality(s) - 1
      BY <1>2, <1>4, <1>5, FS_RemoveElement
<1> QED
    BY <1>2, <1>3, <1>4, <1>5

\* The chains above all blocks of a set meet where the fold ends.
LEMMA FoldMeets ==
  ASSUME Chained, NEW ready \in SUBSET Candidates, NEW h, Folds(h, ready),
         NEW s \in SUBSET ready, s # {}
  PROVE  Meets(h[s], s)
<1> DEFINE Bad == {r \in SUBSET ready : r # {} /\ ~Meets(h[r], r)}
           T == {Cardinality(r) : r \in Bad}
<1>1. ASSUME Bad # {} PROVE FALSE
  <2>1. T \in SUBSET Nat /\ T # {}
    <3>1. Bad \subseteq SUBSET Candidates
          OBVIOUS
    <3> HIDE DEF Bad
    <3>2. \A r \in Bad : Cardinality(r) \in Nat
          BY <3>1, CandidatesFinite
    <3> QED
        BY <1>1, <3>2
  <2>2. PICK m \in T : \A k \in T : m <= k
    <3> HIDE DEF T
    <3> QED
        BY <2>1, LeastElement
  <2>3. PICK r \in Bad : m = Cardinality(r)
    <3> HIDE DEF Bad
    <3> QED
        OBVIOUS
  <2>4. r \in SUBSET ready /\ r # {} /\ ~Meets(h[r], r) /\ r \in SUBSET Candidates
        OBVIOUS
  <2> DEFINE last == Greatest(r)
             rest == r \ {last}
             z == h[rest]
  <2>5. last \in r /\ last \in Candidates /\ Cardinality(rest) = Cardinality(r) - 1 /\ Cardinality(r) \in Nat
        BY <2>4, CandidatesFinite
  <2>6. CASE r = {last}
    <3>1. h[r] = last
          BY <2>4, <2>6 DEF Folds
    <3> HIDE DEF last
    <3>2. RpoIndex(last) \in Int
          BY <2>5, CandidateFacts
    <3>3. Meets(last, {last})
          BY <2>5, <3>2 DEF Meets
    <3> QED
        BY <2>4, <2>6, <3>1, <3>3
  <2>7. CASE r # {last}
    <3>1. rest # {} /\ rest \in SUBSET ready
          BY <2>4, <2>5, <2>7
    <3>2. ASSUME rest \in Bad PROVE FALSE
      <4>1. Cardinality(rest) \in T
            BY <3>2
      <4>2. Cardinality(r) <= Cardinality(rest)
        <5> HIDE DEF T, rest
        <5> QED
            BY <2>2, <2>3, <4>1
      <4> QED
          BY <2>5, <4>2
    <3>3. Meets(z, rest)
          BY <3>1, <3>2
    <3>4. z \in Candidates
          BY <3>3 DEF Meets
    <3>5. h[r] = Intersect(last, z)
          BY <2>4, <2>7, <3>4 DEF Folds
    <3>6. Meets(h[r], {last, z})
          BY <2>5, <3>4, <3>5, IntersectMeets
    <3>7. r = rest \cup {last}
          BY <2>5
    <3>8. \A c \in Candidates : RpoIndex(c) \in Int
          BY CandidateFacts
    <3> HIDE DEF last, rest, z
    <3>9. h[r] \in Candidates /\ \A d \in allBlocks : (\A p \in r : d \in MustPass(p)) => d \in MustPass(h[r])
          BY <3>3, <3>6, <3>7 DEF Meets
    <3>10. ASSUME NEW p \in r PROVE RpoIndex(h[r]) <= RpoIndex(p)
      <4>1. p = last \/ (RpoIndex(z) <= RpoIndex(p) /\ RpoIndex(h[r]) <= RpoIndex(z))
            BY <3>3, <3>6, <3>7 DEF Meets
      <4>2. p \in Candidates
            BY <2>4
      <4>3. RpoIndex(p) \in Int /\ RpoIndex(z) \in Int /\ RpoIndex(h[r]) \in Int
            BY <3>4, <3>8, <3>9, <4>2
      <4> QED
          BY <3>6, <4>1, <4>3 DEF Meets
    <3>11. ASSUME NEW p \in r, NEW C \in SUBSET Candidates, p \in C, \A c \in C : idom[c] \in C
           PROVE  h[r] \in C
      <4>1. p = last \/ z \in C
            BY <3>3, <3>7, <3>11 DEF Meets
      <4> QED
          BY <3>6, <3>11, <4>1 DEF Meets
    <3> QED
        BY <2>4, <3>9, <3>10, <3>11 DEF Meets
  <2> QED
      BY <2>6, <2>7
<1> QED
    BY <1>1

\* The new candidate of a block is where the chains above its predecessors
\* that have one meet.
LEMMA NewIdomMeets ==
  ASSUME Chained, NEW b, Pred(b) \cap Candidates # {}
  PROVE  Meets(NewIdom(b), Pred(b) \cap Candidates)
<1> DEFINE ready == Pred(b) \cap Candidates
           S == SUBSET ready
           V == Candidates \cup {0}
           N == Cardinality(ready)
           rank == [s \in S |-> Cardinality(s)]
           stop == {s \in S : s = {} \/ s = {Greatest(s)}}
           base == [s \in S |-> IF s = {} THEN 0 ELSE Greatest(s)]
           next == [s \in S |-> s \ {Greatest(s)}]
           step == [s \in S |-> [v \in V |->
                     IF s # {} /\ v \in Candidates THEN Intersect(Greatest(s), v) ELSE 0]]
           From(g, s) == IF s = {} THEN 0
                         ELSE IF s = {Greatest(s)} THEN Greatest(s)
                         ELSE Intersect(Greatest(s), g[s \ {Greatest(s)}])
           common == CHOOSE g : g = [s \in S |-> From(g, s)]
<1>1. \A s \in S : IsFiniteSet(s) /\ Cardinality(s) \in Nat /\ s \in SUBSET Candidates
        /\ (s # {} => Greatest(s) \in s /\ Cardinality(s \ {Greatest(s)}) = Cardinality(s) - 1)
      BY CandidatesFinite
<1>2. N \in Nat /\ \A s \in S : Cardinality(s) \in 0 .. N
  <2>1. IsFiniteSet(ready) /\ N \in Nat
        BY <1>1
  <2>2. \A s \in S : Cardinality(s) <= N
        BY <2>1, FS_Subset
  <2>3. \A s \in S : Cardinality(s) \in Nat
        BY <1>1
  <2> HIDE DEF S, N
  <2> QED
      BY <2>1, <2>2, <2>3
<1>3. rank \in [S -> 0 .. N] /\ stop \in SUBSET S /\ next \in [S -> S]
      BY <1>2
<1>4. base \in [S -> V]
  <2> SUFFICES ASSUME NEW s \in S, s # {} PROVE Greatest(s) \in V
      OBVIOUS
  <2> QED
      BY <1>1
<1>5. step \in [S -> [V -> V]]
  <2> SUFFICES ASSUME NEW s \in S, NEW v \in V, s # {}, v \in Candidates
               PROVE  Intersect(Greatest(s), v) \in V
      OBVIOUS
  <2>1. Greatest(s) \in Candidates
        BY <1>1
  <2> QED
      BY <2>1, IntersectMeets DEF Meets
<1>6. ASSUME NEW s \in S \ stop PROVE rank[next[s]] < rank[s]
  <2>1. s \in S /\ s # {} /\ next[s] = s \ {Greatest(s)} /\ next[s] \in S
        BY <1>3
  <2>2. Cardinality(s \ {Greatest(s)}) = Cardinality(s) - 1 /\ Cardinality(s) \in Nat
        BY <1>1, <2>1
  <2>3. rank[next[s]] = Cardinality(s \ {Greatest(s)}) /\ rank[s] = Cardinality(s)
        BY <2>1
  <2> QED
      BY <2>2, <2>3
<1>7. Descends(S, V, N, rank, stop, base, next, step)
  <2> HIDE DEF S, V, N, rank, stop, base, next, step
  <2> QED
      BY <1>2, <1>3, <1>4, <1>5, <1>6 DEF Descends
<1>8. PICK g \in [S -> V] : \A s \in S : g[s] = IF s \in stop THEN base[s] ELSE step[s][g[next[s]]]
  <2> HIDE DEF S, V, N, rank, stop, base, next, step
  <2> QED
      BY <1>7, Recursion
<1>9. \A s \in S : s = {} \/ s = {Greatest(s)} => g[s] = base[s] /\ base[s] = From(g, s)
      BY <1>8
<1>10. ASSUME NEW s \in S, s # {}, s # {Greatest(s)}, g[s \ {Greatest(s)}] \in Candidates
       PROVE  g[s] = From(g, s)
  <2>1. s \notin stop /\ next[s] = s \ {Greatest(s)} /\ next[s] \in S
        BY <1>10
  <2>2. g[s] = step[s][g[s \ {Greatest(s)}]]
        BY <1>8, <2>1
  <2> QED
      BY <1>10, <2>2
<1>11. ready \in SUBSET Candidates
       OBVIOUS
<1>12. Folds(g, ready)
       BY <1>9, <1>10 DEF Folds
<1>13. ASSUME NEW s \in S PROVE g[s] = From(g, s)
  <2>1. CASE s = {} \/ s = {Greatest(s)}
        BY <1>9, <2>1
  <2>2. CASE s # {} /\ s # {Greatest(s)}
    <3> DEFINE rest == s \ {Greatest(s)}
    <3>1. rest \in SUBSET ready /\ rest # {}
          BY <1>1, <2>2
    <3>2. Meets(g[rest], rest)
      <4> HIDE DEF rest, ready
      <4> QED
          BY <1>11, <1>12, <3>1, FoldMeets
    <3>3. g[rest] \in Candidates
          BY <3>2 DEF Meets
    <3> QED
        BY <1>10, <2>2, <3>3
  <2> QED
      BY <2>1, <2>2
<1>14. g = [s \in S |-> From(g, s)]
  <2> HIDE DEF From
  <2> QED
      BY <1>13
<1>15. common = [s \in S |-> From(common, s)]
       BY <1>14
<1>16. NewIdom(b) = common[ready]
       BY DEF NewIdom
<1> HIDE DEF common
<1>17. Folds(common, ready)
  <2>1. \A s \in S : common[s] = From(common, s)
    <3> HIDE DEF From
    <3> QED
        BY <1>15
  <2> QED
      BY <2>1 DEF Folds
<1>18. Meets(common[ready], ready)
  <2> HIDE DEF ready
  <2> QED
      BY <1>11, <1>17, FoldMeets DEF ready
<1> QED
    BY <1>16, <1>18

-----------------------------------------------------------------------------
(* The sweeps.                                                             *)

LEMMA SameGraph ==
  ASSUME UNCHANGED <<exits, allBlocks, postorder>>
  PROVE  /\ \A b : RpoIndex(b)' = RpoIndex(b)
         /\ \A b : MustPass(b)' = MustPass(b)
         /\ Len(Rpo)' = Len(Rpo)
<1>1. ASSUME NEW d PROVE Around(d)' = Around(d)
      BY DEF Around
<1>2. ASSUME NEW b PROVE RpoIndex(b)' = RpoIndex(b) /\ Len(Rpo)' = Len(Rpo)
      BY DEF RpoIndex, Rpo
<1> QED
    BY <1>1, <1>2 DEF MustPass

LEMMA SameTree ==
  ASSUME UNCHANGED <<exits, allBlocks, postorder, idom>>
  PROVE  /\ Candidates' = Candidates
         /\ \A b : NewIdom(b)' = NewIdom(b)
         /\ \A b : FrontierOf(b)' = FrontierOf(b)
         /\ ChainInv' <=> ChainInv
<1>1. Candidates' = Candidates
      BY DEF Candidates
<1>2. ASSUME NEW b PROVE NewIdom(b)' = NewIdom(b)
      BY DEF NewIdom, Intersect, Candidates, Pred, Succ, RpoIndex, Rpo
<1>3. ASSUME NEW b PROVE FrontierOf(b)' = FrontierOf(b)
      BY DEF FrontierOf, Runners, ImmediateDominator, Pred, Succ
<1>4. ChainInv' <=> ChainInv
      BY <1>1, SameGraph DEF ChainInv
<1> QED
    BY <1>1, <1>2, <1>3, <1>4

\* The sweeps have an order to go by.
LEMMA OrderedThen ==
  ASSUME ReachInv, WalkInv, TreeInv, phase \notin {"reach", "order"}
  PROVE  Ordered
BY DEF Ordered, WalkInv

LEMMA IdomInit == Init => IdomInv
BY GraphAssumption DEF Init, IdomInv

\* One block is refined.
LEMMA IdomRefine ==
  ASSUME ReachInv, WalkInv, TreeInv, IdomInv, Refine
  PROVE  IdomInv'
<1> DEFINE b == Rpo[position]
           z == NewIdom(b)
<1>1. phase = "idom" /\ phase' = "idom" /\ position <= Len(Rpo) /\ position' = position + 1
        /\ idom' = [idom EXCEPT ![b] = z]
        /\ changed' = (changed \/ z # idom[b])
        /\ UNCHANGED <<exits, allBlocks, postorder>>
      BY DEF Refine, orderVars
<1>2. Ordered /\ Chained /\ ChainInv /\ SettledInv /\ idom \in [Blocks -> allBlocks \cup {0}]
      BY <1>1, OrderedThen DEF Chained, IdomInv
<1>3. /\ Len(Rpo) \in Nat /\ RpoIndex(Entry) = 1 /\ allBlocks \subseteq Blocks
      /\ \A c \in allBlocks : RpoIndex(c) \in 1 .. Len(Rpo) /\ Rpo[RpoIndex(c)] = c
      /\ \A i \in 1 .. Len(Rpo) : Rpo[i] \in allBlocks /\ RpoIndex(Rpo[i]) = i
      /\ \A c \in allBlocks \ {Entry} : \E p \in Pred(c) : RpoIndex(p) < RpoIndex(c)
      BY <1>2, OrderFacts DEF Ordered
<1>4. position \in 2 .. Len(Rpo)
      BY <1>1, <1>3 DEF WalkInv
<1>5. b \in allBlocks /\ RpoIndex(b) = position /\ b # Entry
      BY <1>3, <1>4
<1> HIDE DEF b
\* a predecessor that comes earlier in the order has a candidate
<1>6. PICK p \in Pred(b) : RpoIndex(p) < position
      BY <1>3, <1>5
<1>7. p \in Candidates
  <2>1. p \in allBlocks
        BY DEF Pred
  <2>2. ~ (position <= RpoIndex(p))
        BY <1>3, <1>4, <1>6, <2>1
  <2> QED
      BY <1>2, <2>1, <2>2 DEF SettledInv
<1>8. Meets(z, Pred(b) \cap Candidates)
      BY <1>2, <1>6, <1>7, NewIdomMeets
<1> HIDE DEF z
<1>9. z \in Candidates /\ RpoIndex(z) <= RpoIndex(p)
      BY <1>6, <1>7, <1>8 DEF Meets
<1>10. Candidates \subseteq allBlocks /\ 0 \notin Blocks
       BY GraphAssumption DEF Candidates
<1>11. z \in allBlocks /\ z # 0
       BY <1>3, <1>9, <1>10
<1>12. idom' \in [Blocks -> allBlocks \cup {0}] /\ idom'[b] = z /\ \A c \in allBlocks : c # b => idom'[c] = idom[c]
       BY <1>1, <1>2, <1>3, <1>5, <1>11
<1>13. Candidates' = Candidates \cup {b}
       BY <1>1, <1>5, <1>11, <1>12 DEF Candidates
<1>14. RpoIndex(z) < RpoIndex(b)
       BY <1>3, <1>5, <1>6, <1>7, <1>9, <1>10
<1>15. MustPass(b) \ {b} \subseteq MustPass(z)
  <2> SUFFICES ASSUME NEW d \in MustPass(b), d # b PROVE d \in MustPass(z)
      OBVIOUS
  <2>1. \A q \in Pred(b) \cap Candidates : d \in MustPass(q)
        BY <1>2, <1>5, MustPassFacts
  <2> QED
      BY <1>8, <2>1 DEF Meets, MustPass
<1>16. \A c : RpoIndex(c)' = RpoIndex(c) /\ MustPass(c)' = MustPass(c)
       BY <1>1, SameGraph
<1>17. ChainInv'
  <2> SUFFICES ASSUME NEW c \in Candidates' \ {Entry}
               PROVE  /\ idom'[c] \in Candidates'
                      /\ RpoIndex(idom'[c]) < RpoIndex(c)
                      /\ MustPass(c) \ {c} \subseteq MustPass(idom'[c])
      BY <1>16 DEF ChainInv
  <2>1. CASE c = b
        BY <1>9, <1>12, <1>13, <1>14, <1>15, <2>1
  <2>2. CASE c # b
    <3>1. c \in Candidates \ {Entry} /\ idom'[c] = idom[c]
          BY <1>10, <1>12, <1>13, <2>2
    <3> QED
        BY <1>2, <1>13, <3>1 DEF ChainInv
  <2> QED
      BY <2>1, <2>2
<1>18. SettledInv'
  <2>1. ASSUME NEW c \in allBlocks \ Candidates' PROVE position' <= RpoIndex(c)
    <3>1. c \in allBlocks \ Candidates /\ c # b
          BY <1>13, <2>1
    <3>2. position <= RpoIndex(c) /\ RpoIndex(c) # position /\ RpoIndex(c) \in Int /\ position \in Int
          BY <1>2, <1>3, <1>4, <1>5, <3>1 DEF SettledInv
    <3> QED
        BY <1>1, <3>2
  <2>2. ASSUME NEW c \in allBlocks \ {Entry}, ~changed', RpoIndex(c) < position'
        PROVE  idom'[c] = NewIdom(c)'
    <3>1. ~changed /\ z = idom[b]
          BY <1>1, <2>2
    <3>2. idom' = idom
          BY <1>1, <1>2, <3>1
    <3>3. NewIdom(c)' = NewIdom(c)
          BY <1>1, <3>2, SameTree
    <3>4. CASE c = b
          BY <3>1, <3>2, <3>3, <3>4 DEF z
    <3>5. CASE c # b
      <4>1. RpoIndex(c) < position
        <5>1. RpoIndex(c) # position /\ RpoIndex(c) \in Int
              BY <1>3, <1>5, <3>5
        <5> QED
            BY <1>1, <1>4, <2>2, <5>1
      <4> QED
          BY <1>2, <3>1, <3>2, <3>3, <4>1 DEF SettledInv
    <3> QED
        BY <3>4, <3>5
  <2> QED
      BY <1>1, <1>16, <2>1, <2>2 DEF SettledInv
<1> QED
    BY <1>1, <1>12, <1>17, <1>18 DEF IdomInv

LEMMA IdomStep == ReachInv /\ WalkInv /\ TreeInv /\ IdomInv /\ [Next]_vars => IdomInv'
<1> SUFFICES ASSUME ReachInv, WalkInv, TreeInv, IdomInv, [Next]_vars PROVE IdomInv'
    OBVIOUS
<1>1. ASSUME (\E b \in Blocks : Visit(b)) \/ Descend \/ Ascend PROVE IdomInv'
  <2>1. UNCHANGED <<phase, allBlocks, idom, position>> /\ phase \in {"reach", "order"}
        BY <1>1 DEF Visit, Descend, Ascend, idomVars
  <2> QED
      BY <2>1 DEF IdomInv
<1>2. CASE Eliminate
  <2>1. phase = "reach" /\ phase' = "order" /\ UNCHANGED <<idom, position>>
          /\ allBlocks' = reachable /\ Entry \in reachable
        BY <1>2 DEF Eliminate, idomVars, ReachInv
  <2> QED
      BY <2>1 DEF IdomInv
<1>3. CASE StartIdom
  <2>1. phase = "order" /\ phase' = "idom" /\ dfs = <<>>
          /\ UNCHANGED <<exits, allBlocks, postorder, idom, position>>
        BY <1>3 DEF StartIdom, orderVars, idomVars
  <2>2. Ordered /\ position = 2 /\ idom \in [Blocks -> allBlocks \cup {0}]
          /\ idom = [b \in Blocks |-> IF b = Entry THEN Entry ELSE 0]
        BY <2>1 DEF Ordered, IdomInv
  <2>3. /\ RpoIndex(Entry) = 1 /\ allBlocks \subseteq Blocks
        /\ \A c \in allBlocks : RpoIndex(c) \in 1 .. Len(Rpo) /\ Rpo[RpoIndex(c)] = c
        BY <2>2, OrderFacts DEF Ordered
  <2>4. \A c \in allBlocks \ {Entry} : RpoIndex(c) >= 2
    <3> SUFFICES ASSUME NEW c \in allBlocks, c # Entry PROVE RpoIndex(c) >= 2
        OBVIOUS
    <3>1. Entry \in allBlocks
          BY <2>2 DEF Ordered, ReachInv
    <3>2. RpoIndex(c) # 1 /\ RpoIndex(c) \in 1 .. Len(Rpo)
          BY <2>3, <3>1
    <3> QED
        BY <3>2
  <2>5. Candidates \subseteq {Entry} /\ Entry \in Candidates \cup {0}
        BY <2>2, <2>3, GraphAssumption DEF Candidates, Ordered, ReachInv
  <2>6. ChainInv'
        BY <2>1, <2>5, SameTree DEF ChainInv
  <2>7. SettledInv'
    <3>1. Candidates' = Candidates /\ \A c : RpoIndex(c)' = RpoIndex(c)
          BY <2>1, SameGraph, SameTree
    <3>2. ASSUME NEW c \in allBlocks \ Candidates PROVE position' <= RpoIndex(c)
      <4>1. c # Entry
            BY <2>2, <2>3, GraphAssumption DEF Candidates
      <4>2. RpoIndex(c) \in Int /\ RpoIndex(c) >= 2
            BY <2>3, <2>4, <4>1
      <4> QED
          BY <2>1, <2>2, <4>2
    <3>3. ASSUME NEW c \in allBlocks \ {Entry}, RpoIndex(c) < position' PROVE FALSE
      <4>1. RpoIndex(c) \in Int /\ RpoIndex(c) >= 2
            BY <2>3, <2>4
      <4> QED
          BY <2>1, <2>2, <3>3, <4>1
    <3> QED
        BY <2>1, <3>1, <3>2, <3>3 DEF SettledInv
  <2> QED
      BY <2>1, <2>2, <2>6, <2>7 DEF IdomInv
<1>4. CASE Refine
      BY <1>4, IdomRefine
<1>5. CASE EndSweep
  <2>1. phase = "idom" /\ position > Len(Rpo) /\ position' = 2 /\ changed' = FALSE
          /\ phase' = (IF changed THEN "idom" ELSE "frontier")
          /\ UNCHANGED <<exits, allBlocks, postorder, idom>>
        BY <1>5 DEF EndSweep, orderVars
  <2>2. Ordered /\ ChainInv /\ SettledInv
        BY <2>1, OrderedThen DEF IdomInv
  <2>3. /\ RpoIndex(Entry) = 1 /\ Len(Rpo) \in Nat /\ Entry \in allBlocks
        /\ \A c \in allBlocks : RpoIndex(c) \in 1 .. Len(Rpo) /\ Rpo[RpoIndex(c)] = c
        BY <2>2, OrderFacts DEF Ordered
  <2>4. \A c \in allBlocks : RpoIndex(c) < position /\ ~ (position <= RpoIndex(c))
        BY <2>1, <2>3 DEF WalkInv
  <2>5. allBlocks \subseteq Candidates
        BY <2>2, <2>4 DEF SettledInv
  <2>6. Candidates' = Candidates /\ \A c : RpoIndex(c)' = RpoIndex(c) /\ NewIdom(c)' = NewIdom(c)
        BY <2>1, SameGraph, SameTree
  <2>7. ASSUME NEW c \in allBlocks \ {Entry}, RpoIndex(c) < 2 PROVE FALSE
    <3>1. RpoIndex(c) = 1
          BY <2>3, <2>7
    <3> QED
        BY <2>3, <2>7, <3>1
  <2>8. ASSUME NEW c \in allBlocks \ {Entry}, ~changed PROVE idom[c] = NewIdom(c)
        BY <2>2, <2>4, <2>8 DEF SettledInv
  <2>9. SettledInv'
        BY <2>1, <2>5, <2>6, <2>7, <2>8 DEF SettledInv
  <2>10. ChainInv'
         BY <2>1, <2>2, SameTree
  <2>11. phase' \in {"idom", "frontier"} /\ idom' \in [Blocks -> allBlocks' \cup {0}]
         BY <2>1 DEF IdomInv
  <2> QED
      BY <2>9, <2>10, <2>11 DEF IdomInv
<1>6. CASE ComputeFrontiers
  <2>1. phase = "frontier" /\ phase' = "done" /\ UNCHANGED <<exits, allBlocks, postorder, idom, position, changed>>
          /\ frontiers' = [b \in Blocks |-> IF b \in allBlocks THEN FrontierOf(b) ELSE {}]
        BY <1>6 DEF ComputeFrontiers, orderVars, idomVars
  <2>2. ChainInv /\ SettledInv /\ idom \in [Blocks -> allBlocks \cup {0}]
        BY <2>1 DEF IdomInv
  <2>3. ChainInv' /\ Candidates' = Candidates
          /\ \A c : RpoIndex(c)' = RpoIndex(c) /\ NewIdom(c)' = NewIdom(c) /\ FrontierOf(c)' = FrontierOf(c)
        BY <2>1, <2>2, SameGraph, SameTree
  <2>4. SettledInv'
        BY <2>1, <2>2, <2>3 DEF SettledInv
  <2>5. \A a \in allBlocks' : frontiers'[a] = FrontierOf(a)'
        BY <2>1, <2>3 DEF ReachInv
  <2> QED
      BY <2>1, <2>2, <2>3, <2>4, <2>5 DEF IdomInv
<1>7. CASE UNCHANGED vars
  <2>1. UNCHANGED <<exits, phase, allBlocks, postorder, idom, position, changed, frontiers>>
        BY <1>7 DEF vars, orderVars, idomVars
  <2>2. Candidates' = Candidates /\ (ChainInv' <=> ChainInv)
          /\ \A c : RpoIndex(c)' = RpoIndex(c) /\ NewIdom(c)' = NewIdom(c) /\ FrontierOf(c)' = FrontierOf(c)
        BY <2>1, SameGraph, SameTree
  <2>3. SettledInv' <=> SettledInv
        BY <2>1, <2>2 DEF SettledInv
  <2> QED
      BY <2>1, <2>2, <2>3 DEF IdomInv
<1> QED
    BY <1>1, <1>2, <1>3, <1>4, <1>5, <1>6, <1>7 DEF Next, Terminated

LEMMA Refined == Spec => [](ReachInv /\ WalkInv /\ TreeInv /\ IdomInv)
BY ReachInit, ReachStep, WalkInit, WalkStep, TreeInit, TreeStep, IdomInit, IdomStep, PTL DEF Spec

-----------------------------------------------------------------------------
(* What the candidates are when a sweep changes none of them.              *)

Settled ==
  /\ Chained
  /\ Candidates = allBlocks
  /\ \A b \in allBlocks \ {Entry} : idom[b] = NewIdom(b)

LEMMA SettledThen ==
  ASSUME ReachInv, WalkInv, TreeInv, IdomInv, phase \in {"frontier", "done"}
  PROVE  Settled
<1>1. Chained /\ SettledInv
      BY OrderedThen DEF Chained, IdomInv
<1>2. Candidates = allBlocks
      BY <1>1 DEF SettledInv, Candidates
<1> QED
    BY <1>1, <1>2 DEF Settled, SettledInv

\* Induction along the order: a set of blocks has an earliest.
LEMMA Earliest ==
  ASSUME Settled, NEW B \in SUBSET allBlocks, B # {}
  PROVE  \E b \in B : \A c \in B : RpoIndex(b) <= RpoIndex(c)
<1> DEFINE T == {RpoIndex(b) : b \in B}
<1>1. T \in SUBSET Nat /\ T # {}
      BY CandidateFacts DEF Settled
<1>2. PICK m \in T : \A k \in T : m <= k
  <2> HIDE DEF T
  <2> QED
      BY <1>1, LeastElement
<1> QED
    BY <1>2

LEMMA SettledFacts ==
  ASSUME Settled
  PROVE  /\ Entry \in allBlocks /\ 0 \notin allBlocks
         /\ \A b \in allBlocks : RpoIndex(b) \in Int /\ RpoIndex(b) >= 0
         /\ \A b \in allBlocks \ {Entry} : idom[b] \in allBlocks /\ RpoIndex(idom[b]) < RpoIndex(b)
         /\ \A b \in allBlocks \ {Entry} : MustPass(b) \ {b} \subseteq MustPass(idom[b])
         /\ \A b \in allBlocks \ {Entry} : Pred(b) # {} /\ Meets(idom[b], Pred(b))
<1>1. 0 \notin allBlocks
      BY GraphAssumption DEF Settled, Chained, Ordered, ReachInv
<1>2. Entry \in allBlocks /\ (\A b \in allBlocks : RpoIndex(b) \in Int /\ RpoIndex(b) >= 0)
        /\ \A b \in allBlocks \ {Entry} : idom[b] \in allBlocks /\ RpoIndex(idom[b]) < RpoIndex(b)
      BY CandidateFacts DEF Settled
<1>3. \A b \in allBlocks \ {Entry} : MustPass(b) \ {b} \subseteq MustPass(idom[b])
      BY DEF Settled, Chained, ChainInv
<1>4. \A b \in allBlocks \ {Entry} : \E p \in Pred(b) : RpoIndex(p) < RpoIndex(b)
      BY OrderFacts DEF Settled, Chained, Ordered
<1>5. \A b : Pred(b) \cap Candidates = Pred(b)
      BY DEF Settled, Pred
<1>6. ASSUME NEW b \in allBlocks \ {Entry} PROVE Pred(b) # {} /\ Meets(idom[b], Pred(b))
  <2>1. Pred(b) # {} /\ Pred(b) \cap Candidates = Pred(b)
        BY <1>4, <1>5
  <2>2. Meets(NewIdom(b), Pred(b))
        BY <2>1, NewIdomMeets DEF Settled
  <2> QED
      BY <2>1, <2>2 DEF Settled
<1> QED
    BY <1>1, <1>2, <1>3, <1>6

\* The chain above a block ends.
LEMMA DominatorsUp ==
  ASSUME Settled
  PROVE  \A b \in allBlocks :
           /\ Dominators(b) \in SUBSET allBlocks
           /\ Dominators(b) = {b} \cup (IF b = Entry THEN {} ELSE Dominators(idom[b]))
<1> DEFINE S == allBlocks
           V == SUBSET allBlocks
           N == Len(Rpo)
           rank == [c \in S |-> RpoIndex(c)]
           stop == {Entry}
           base == [c \in S |-> {c}]
           next == [c \in S |-> idom[c]]
           step == [c \in S |-> [X \in V |-> {c} \cup X]]
           Above(g, c) == {c} \cup (IF c = Entry THEN {} ELSE g[ImmediateDominator(c)])
           above == CHOOSE g : g = [c \in S |-> Above(g, c)]
<1>1. Candidates = allBlocks
      BY DEF Settled
<1>2. N \in Nat /\ rank \in [S -> 0 .. N] /\ stop \in SUBSET S /\ base \in [S -> V]
        /\ next \in [S -> S] /\ step \in [S -> [V -> V]]
      BY <1>1, CandidateFacts DEF Settled
<1>3. \A c \in S \ stop : rank[next[c]] < rank[c]
      BY SettledFacts
<1>4. Descends(S, V, N, rank, stop, base, next, step)
  <2> HIDE DEF S, V, N, rank, stop, base, next, step
  <2> QED
      BY <1>2, <1>3 DEF Descends
<1>5. PICK g \in [S -> V] : \A c \in S : g[c] = IF c \in stop THEN base[c] ELSE step[c][g[next[c]]]
  <2> HIDE DEF S, V, N, rank, stop, base, next, step
  <2> QED
      BY <1>4, Recursion
<1>6. ASSUME NEW c \in S PROVE g[c] = Above(g, c)
  <2>1. CASE c = Entry
        BY <1>5, <2>1
  <2>2. CASE c # Entry
    <3>1. idom[c] \in S /\ g[idom[c]] \in V
          BY <2>2, SettledFacts
    <3>2. g[c] = {c} \cup g[idom[c]]
          BY <1>5, <2>2, <3>1
    <3> QED
        BY <2>2, <3>2 DEF ImmediateDominator
  <2> QED
      BY <2>1, <2>2
<1>7. g = [c \in S |-> Above(g, c)]
  <2> HIDE DEF Above
  <2> QED
      BY <1>6
<1>8. above = [c \in S |-> Above(above, c)]
      BY <1>7
<1>9. \A b : Dominators(b) = above[b]
      BY DEF Dominators
\* what the recursion picks has blocks as values as well
<1> HIDE DEF above
<1>10. \A c \in S : above[c] = {c} \cup (IF c = Entry THEN {} ELSE above[idom[c]])
       BY <1>8 DEF ImmediateDominator
<1> DEFINE Bad == {c \in S : above[c] \notin V}
<1>11. ASSUME Bad # {} PROVE FALSE
  <2>1. PICK c \in Bad : \A e \in Bad : RpoIndex(c) <= RpoIndex(e)
    <3>1. Bad \in SUBSET allBlocks
          OBVIOUS
    <3> HIDE DEF Bad
    <3> QED
        BY <1>11, <3>1, Earliest
  <2>2. c # Entry
        BY <1>10
  <2>3. idom[c] \in allBlocks /\ RpoIndex(idom[c]) < RpoIndex(c)
          /\ RpoIndex(idom[c]) \in Int /\ RpoIndex(c) \in Int
        BY <2>2, SettledFacts
  <2>4. idom[c] \notin Bad
        BY <2>1, <2>3
  <2> QED
      BY <1>10, <2>2, <2>3, <2>4
<1> QED
    BY <1>9, <1>10, <1>11

\* The dominators of a block are closed upwards and come no later in the order;
\* no block that all paths go through is missing.
LEMMA DominatorFacts ==
  ASSUME Settled, NEW b \in allBlocks
  PROVE  /\ b \in Dominators(b)
         /\ MustPass(b) \subseteq Dominators(b)
         /\ \A c \in Dominators(b) : /\ c \in allBlocks
                                     /\ RpoIndex(c) <= RpoIndex(b)
                                     /\ Dominators(c) \subseteq Dominators(b)
<1> DEFINE Fine(x) == /\ MustPass(x) \subseteq Dominators(x)
                      /\ \A c \in Dominators(x) :
                           /\ RpoIndex(c) <= RpoIndex(x)
                           /\ Dominators(c) \subseteq Dominators(x)
           Bad == {x \in allBlocks : ~Fine(x)}
<1>1. \A x \in allBlocks :
        /\ Dominators(x) \in SUBSET allBlocks
        /\ Dominators(x) = {x} \cup (IF x = Entry THEN {} ELSE Dominators(idom[x]))
      BY DominatorsUp
<1>2. ASSUME Bad # {} PROVE FALSE
  <2>1. PICK x \in Bad : \A e \in Bad : RpoIndex(x) <= RpoIndex(e)
    <3>1. Bad \in SUBSET allBlocks
          OBVIOUS
    <3> HIDE DEF Bad
    <3> QED
        BY <1>2, <3>1, Earliest
  <2>2. x \in allBlocks /\ ~Fine(x) /\ RpoIndex(x) \in Int
        BY SettledFacts
  <2>3. CASE x = Entry
    <3>1. Dominators(x) = {x} /\ MustPass(x) \subseteq {x}
          BY <1>1, <2>2, <2>3, MustPassFacts DEF Settled, Chained
    <3> QED
        BY <2>2, <3>1
  <2>4. CASE x # Entry
    <3> DEFINE u == idom[x]
    <3>1. u \in allBlocks /\ RpoIndex(u) < RpoIndex(x) /\ RpoIndex(u) \in Int
            /\ MustPass(x) \ {x} \subseteq MustPass(u)
          BY <2>2, <2>4, SettledFacts
    <3>2. Dominators(x) = {x} \cup Dominators(u) /\ Dominators(u) \in SUBSET allBlocks
          BY <1>1, <2>2, <2>4, <3>1
    <3> HIDE DEF u
    <3>3. Fine(u)
      <4>1. u \notin Bad
        <5> HIDE DEF Bad
        <5> QED
            BY <2>1, <2>2, <3>1
      <4> QED
          BY <3>1, <4>1
    <3>4. MustPass(x) \subseteq Dominators(x)
          BY <3>1, <3>2, <3>3
    <3>5. ASSUME NEW c \in Dominators(x)
          PROVE  RpoIndex(c) <= RpoIndex(x) /\ Dominators(c) \subseteq Dominators(x)
      <4>1. CASE c = x
            BY <2>2, <4>1
      <4>2. CASE c \in Dominators(u)
        <5>1. RpoIndex(c) <= RpoIndex(u) /\ Dominators(c) \subseteq Dominators(u) /\ c \in allBlocks
              BY <3>2, <3>3, <4>2
        <5>2. RpoIndex(c) \in Int
              BY <5>1, SettledFacts
        <5> QED
            BY <2>2, <3>1, <3>2, <5>1, <5>2
      <4> QED
          BY <3>2, <4>1, <4>2
    <3> QED
        BY <2>2, <3>4, <3>5
  <2> QED
      BY <2>3, <2>4
<1>3. Fine(b)
      BY <1>2
<1> QED
    BY <1>1, <1>3

\* The candidate of a block is on the chain above each of its predecessors.
LEMMA DominatesPredecessors ==
  ASSUME Settled, NEW b \in allBlocks \ {Entry}, NEW p \in Pred(b)
  PROVE  idom[b] \in Dominators(p)
<1>1. p \in allBlocks /\ Meets(idom[b], Pred(b))
      BY SettledFacts DEF Pred
<1>2. p \in Dominators(p) /\ Dominators(p) \subseteq allBlocks
      BY <1>1, DominatorFacts
<1>3. ASSUME NEW c \in Dominators(p) PROVE idom[c] \in Dominators(p)
  <2>1. c \in allBlocks /\ Dominators(c) \subseteq Dominators(p)
        BY <1>1, DominatorFacts
  <2>2. CASE c = Entry
        BY <1>3, <2>2 DEF Settled, Chained, Ordered, WalkInv
  <2>3. CASE c # Entry
    <3>1. Dominators(c) = {c} \cup Dominators(idom[c]) /\ idom[c] \in allBlocks
          BY <2>1, <2>3, DominatorsUp, SettledFacts
    <3> QED
        BY <2>1, <3>1, DominatorFacts
  <2> QED
      BY <2>2, <2>3
<1> QED
    BY <1>1, <1>2, <1>3 DEF Meets, Settled

\* and every path to a block goes through its dominators.
LEMMA DominatorsPass ==
  ASSUME Settled, NEW b \in allBlocks, NEW d \in Dominators(b)
  PROVE  d \in MustPass(b)
<1> DEFINE S == {c \in allBlocks : d \notin Dominators(c)}
<1>1. d \in allBlocks /\ Entry \in allBlocks /\ Dominators(Entry) = {Entry}
      BY DominatorFacts, DominatorsUp, SettledFacts
<1>2. ASSUME NEW p \in S, NEW s \in Succ(p), s # d PROVE s \in S
  <2>1. s \in allBlocks /\ p \in allBlocks /\ p \in Pred(s) /\ d \notin Dominators(p)
        BY DEF Succ, Pred
  <2>2. ASSUME d \in Dominators(s) PROVE FALSE
    <3>1. s # Entry
          BY <1>1, <1>2, <2>2
    <3>2. d \in Dominators(idom[s])
          BY <1>2, <2>1, <2>2, <3>1, DominatorsUp
    <3>3. idom[s] \in Dominators(p)
          BY <2>1, <3>1, DominatesPredecessors
    <3> QED
        BY <2>1, <3>2, <3>3, DominatorFacts
  <2> QED
      BY <2>1, <2>2
<1>3. S \in SUBSET allBlocks /\ Entry \in S \cup {d} /\ b \in allBlocks \ S
        /\ \A p \in S : Succ(p) \subseteq S \cup {d}
      BY <1>1, <1>2
<1> HIDE DEF S
<1> QED
    BY <1>1, <1>3, OnlyThrough DEF Settled, Chained

LEMMA DominatorsAre ==
  ASSUME Settled
  PROVE  \A b \in allBlocks : Dominators(b) = MustPass(b)
BY DominatorFacts, DominatorsPass

\* The iteration of Cooper, Harvey and Kennedy, in whatever order labels are
\* numbered, computes dominance: the chain of immediate dominators above a block
\* holds the blocks that all paths from the entry to it go through.
THEOREM Dominance == Spec => []DominatorsExact
<1>1. ReachInv /\ WalkInv /\ TreeInv /\ IdomInv => DominatorsExact
      BY SettledThen, DominatorsAre DEF DominatorsExact
<1> QED
    BY <1>1, Refined, PTL

-----------------------------------------------------------------------------
(* The dominance frontiers.                                                *)

\* The way up from a predecessor of a block passes the dominators of the
\* predecessor but not those that are strictly above the block.
Strictly(b) == Dominators(b) \ {b}

LEMMA RunnersAre ==
  ASSUME Settled, NEW b \in allBlocks, NEW a \in Pred(b)
  PROVE  Runners(a, b) = Dominators(a) \ Strictly(b)
<1> DEFINE S == allBlocks \cup {0}
           V == SUBSET allBlocks
           N == Len(Rpo)
           top == ImmediateDominator(b)
           stop == {0, top}
           rank == [c \in S |-> IF c = 0 THEN 0 ELSE RpoIndex(c)]
           base == [c \in S |-> {}]
           next == [c \in S |-> IF c = 0 THEN 0 ELSE ImmediateDominator(c)]
           step == [c \in S |-> [X \in V |-> IF c = 0 THEN {} ELSE {c} \cup X]]
           Up(g, c) == IF c = 0 \/ c = ImmediateDominator(b) THEN {}
                       ELSE {c} \cup g[ImmediateDominator(c)]
           up == CHOOSE g : g = [c \in S |-> Up(g, c)]
<1>1. /\ Entry \in allBlocks /\ 0 \notin allBlocks
      /\ \A c \in allBlocks : RpoIndex(c) \in Int /\ RpoIndex(c) >= 0
      /\ \A c \in allBlocks \ {Entry} : idom[c] \in allBlocks /\ RpoIndex(idom[c]) < RpoIndex(c)
      BY SettledFacts
<1>2. N \in Nat /\ \A c \in allBlocks : RpoIndex(c) \in 1 .. N
      BY CandidateFacts DEF Settled
<1>3. ImmediateDominator(Entry) = 0 /\ \A c \in allBlocks \ {Entry} : ImmediateDominator(c) = idom[c]
      BY DEF ImmediateDominator
<1>4. top \in S
      BY <1>1, <1>3
<1> HIDE DEF top
<1>5. rank \in [S -> 0 .. N] /\ stop \in SUBSET S /\ base \in [S -> V]
        /\ next \in [S -> S] /\ step \in [S -> [V -> V]]
      BY <1>1, <1>2, <1>3, <1>4
<1>6. ASSUME NEW c \in S \ stop PROVE rank[next[c]] < rank[c]
  <2>1. c \in allBlocks /\ c # 0 /\ rank[c] = RpoIndex(c) /\ next[c] = ImmediateDominator(c)
        OBVIOUS
  <2>2. CASE c = Entry
    <3>1. rank[next[c]] = 0
          BY <1>3, <2>1, <2>2
    <3> QED
        BY <1>2, <2>1, <3>1
  <2>3. CASE c # Entry
    <3>1. idom[c] \in allBlocks /\ idom[c] # 0 /\ next[c] = idom[c]
          BY <1>1, <1>3, <2>1, <2>3
    <3>2. rank[next[c]] = RpoIndex(idom[c])
          BY <3>1
    <3> QED
        BY <1>1, <2>1, <2>3, <3>2
  <2> QED
      BY <2>2, <2>3
<1>7. Descends(S, V, N, rank, stop, base, next, step)
  <2> HIDE DEF S, V, N, rank, stop, base, next, step
  <2> QED
      BY <1>2, <1>5, <1>6 DEF Descends
<1>8. PICK g \in [S -> V] : \A c \in S : g[c] = IF c \in stop THEN base[c] ELSE step[c][g[next[c]]]
  <2> HIDE DEF S, V, N, rank, stop, base, next, step
  <2> QED
      BY <1>7, Recursion
<1>9. ASSUME NEW c \in S PROVE g[c] = Up(g, c)
  <2>1. CASE c \in stop
        BY <1>8, <2>1 DEF top
  <2>2. CASE c \notin stop
    <3>1. c # 0 /\ c # ImmediateDominator(b) /\ next[c] = ImmediateDominator(c) /\ next[c] \in S /\ g[next[c]] \in V
          BY <1>5, <2>2 DEF top
    <3>2. g[c] = {c} \cup g[next[c]]
          BY <1>8, <2>2, <3>1
    <3> QED
        BY <3>1, <3>2
  <2> QED
      BY <2>1, <2>2
<1>10. g = [c \in S |-> Up(g, c)]
  <2> HIDE DEF Up
  <2> QED
      BY <1>9
<1>11. up = [c \in S |-> Up(up, c)]
       BY <1>10
<1>12. Runners(a, b) = up[a]
       BY DEF Runners
<1> HIDE DEF up
<1>13. \A c \in S : up[c] = IF c = 0 \/ c = top THEN {} ELSE {c} \cup up[ImmediateDominator(c)]
       BY <1>11 DEF top
\* what is strictly above b is what its immediate dominator closes
<1>14. b = Entry => Strictly(b) = {} /\ top = 0
       BY <1>1, <1>3, DominatorsUp DEF Strictly, top
<1>15. ASSUME b # Entry PROVE top = idom[b] /\ top \in allBlocks /\ Strictly(b) = Dominators(top)
  <2>1. top = idom[b] /\ top \in allBlocks /\ RpoIndex(top) < RpoIndex(b)
        BY <1>1, <1>3, <1>15 DEF top
  <2>2. Dominators(b) = {b} \cup Dominators(top)
        BY <1>15, <2>1, DominatorsUp
  <2>3. b \notin Dominators(top)
    <3>1. \A c \in Dominators(top) : RpoIndex(c) <= RpoIndex(top)
          BY <2>1, DominatorFacts
    <3> QED
        BY <1>1, <2>1, <3>1
  <2> QED
      BY <2>1, <2>2, <2>3 DEF Strictly
<1> DEFINE Below(c) == b = Entry \/ top \in Dominators(c)
           Bad == {c \in allBlocks : Below(c) /\ up[c] # Dominators(c) \ Strictly(b)}
<1>16. ASSUME Bad # {} PROVE FALSE
  <2>1. PICK c \in Bad : \A e \in Bad : RpoIndex(c) <= RpoIndex(e)
    <3>1. Bad \in SUBSET allBlocks
          OBVIOUS
    <3> HIDE DEF Bad
    <3> QED
        BY <1>16, <3>1, Earliest
  <2>2. c \in allBlocks /\ Below(c) /\ up[c] # Dominators(c) \ Strictly(b) /\ c # 0
        BY <1>1
  <2>3. CASE c = top
    <3>1. up[c] = {} /\ b # Entry
          BY <1>4, <1>13, <1>14, <2>2, <2>3
    <3> QED
        BY <1>15, <2>2, <2>3, <3>1
  <2>4. CASE c # top /\ c = Entry
    <3>1. Dominators(Entry) = {Entry}
          BY <1>1, DominatorsUp
    <3>2. b = Entry
          BY <2>2, <2>4, <3>1
    <3>3. up[c] = {Entry} \cup up[0] /\ up[0] = {}
          BY <1>1, <1>3, <1>13, <2>2, <2>4
    <3> QED
        BY <1>14, <2>2, <2>4, <3>1, <3>2, <3>3
  <2>5. CASE c # top /\ c # Entry
    <3> DEFINE u == idom[c]
    <3>1. u \in allBlocks /\ RpoIndex(u) < RpoIndex(c) /\ Dominators(c) = {c} \cup Dominators(u)
          BY <1>1, <2>2, <2>5, DominatorsUp
    <3>2. up[c] = {c} \cup up[u]
          BY <1>3, <1>13, <2>2, <2>5
    <3> HIDE DEF u
    <3>3. Below(u)
          BY <2>2, <2>5, <3>1
    <3>4. RpoIndex(u) \in Int /\ RpoIndex(c) \in Int
          BY <1>1, <2>2, <3>1
    <3>5. up[u] = Dominators(u) \ Strictly(b)
      <4>1. u \notin Bad
        <5> HIDE DEF Bad
        <5> QED
            BY <2>1, <3>1, <3>4
      <4> QED
          BY <3>1, <3>3, <4>1
    <3>6. c \notin Strictly(b)
      <4>1. CASE b = Entry
            BY <1>14, <4>1
      <4>2. CASE b # Entry
        <5>1. top \in allBlocks /\ Strictly(b) = Dominators(top) /\ top \in Dominators(u)
              BY <1>15, <2>2, <2>5, <3>1, <4>2
        <5>2. RpoIndex(top) <= RpoIndex(u) /\ RpoIndex(top) \in Int
              BY <1>1, <3>1, <5>1, DominatorFacts
        <5>3. \A e \in Dominators(top) : RpoIndex(e) <= RpoIndex(top)
              BY <5>1, DominatorFacts
        <5> QED
            BY <3>1, <3>4, <5>1, <5>2, <5>3
      <4> QED
          BY <4>1, <4>2
    <3> QED
        BY <2>2, <3>1, <3>2, <3>5, <3>6
  <2> QED
      BY <2>3, <2>4, <2>5
<1>17. a \in allBlocks /\ Below(a)
  <2>1. a \in allBlocks
        BY DEF Pred
  <2>2. ASSUME b # Entry PROVE top \in Dominators(a)
        BY <1>15, <2>2, DominatesPredecessors
  <2> QED
      BY <2>1, <2>2
<1> QED
    BY <1>12, <1>16, <1>17

\* computeDominanceFrontiers walks up from the predecessors of a block; for
\* every graph this leaves in the frontier of a block exactly the blocks where
\* its dominance ends, which are those that placePhi gives a phi function to.
THEOREM Frontiers == Spec => []FrontiersExact
<1>1. ASSUME ReachInv, WalkInv, TreeInv, IdomInv PROVE FrontiersExact
  <2> SUFFICES ASSUME phase = "done", NEW a \in allBlocks
               PROVE  frontiers[a] = {b \in allBlocks : /\ \E p \in Pred(b) : p \notin Around(a)
                                                        /\ a = b \/ b \in Around(a)}
      BY DEF FrontiersExact
  <2>1. Settled /\ frontiers[a] = FrontierOf(a)
        BY <1>1, SettledThen DEF IdomInv
  <2>2. \A c \in allBlocks : a \in Dominators(c) <=> c \notin Around(a)
        BY <2>1, DominatorsAre DEF MustPass
  <2>3. ASSUME NEW b \in allBlocks, NEW p \in Pred(b)
        PROVE  a \in Runners(p, b) <=> (p \notin Around(a) /\ (a = b \/ b \in Around(a)))
    <3>1. p \in allBlocks
          BY DEF Pred
    <3>2. a \in Runners(p, b) <=> (a \in Dominators(p) /\ ~ (a \in Dominators(b) /\ a # b))
          BY <2>1, RunnersAre DEF Strictly
    <3> QED
        BY <2>2, <3>1, <3>2
  <2> QED
      BY <2>1, <2>3 DEF FrontierOf
<1> QED
    BY <1>1, Refined, PTL

-----------------------------------------------------------------------------
(* Types.                                                                  *)

Typed ==
  /\ exits \in Graphs
  /\ phase \in {"reach", "order", "idom", "frontier", "done"}
  /\ changed \in BOOLEAN
  /\ frontiers \in [Blocks -> SUBSET Blocks]

LEMMA TypedInit == Init => Typed
BY DEF Init, Typed

LEMMA TypedStep == ReachInv /\ Typed /\ [Next]_vars => Typed'
<1> SUFFICES ASSUME ReachInv, Typed, [Next]_vars PROVE Typed'
    OBVIOUS
<1>1. exits' = exits
      BY DEF Next, Visit, Eliminate, Descend, Ascend, StartIdom, Refine, EndSweep, ComputeFrontiers, Terminated, vars
<1>2. phase' \in {"reach", "order", "idom", "frontier", "done"}
      BY DEF Typed, Next, Visit, Eliminate, Descend, Ascend, StartIdom, Refine, EndSweep, ComputeFrontiers, Terminated, vars
<1>3. changed' \in BOOLEAN
  <2>1. CASE Refine
        BY <2>1 DEF Refine, Typed
  <2>2. CASE EndSweep
        BY <2>2 DEF EndSweep
  <2>3. ASSUME ~Refine, ~EndSweep PROVE changed' = changed
        BY <2>3 DEF Next, Visit, Eliminate, Descend, Ascend, StartIdom, ComputeFrontiers, Terminated, vars, idomVars
  <2> QED
      BY <2>1, <2>2, <2>3 DEF Typed
<1>4. frontiers' \in [Blocks -> SUBSET Blocks]
  <2>1. CASE ComputeFrontiers
    <3>1. \A b \in Blocks : FrontierOf(b) \subseteq Blocks
          BY <2>1 DEF FrontierOf, ReachInv, ComputeFrontiers
    <3> QED
        BY <2>1, <3>1 DEF ComputeFrontiers
  <2>2. ASSUME ~ComputeFrontiers PROVE frontiers' = frontiers
        BY <2>2 DEF Next, Visit, Eliminate, Descend, Ascend, StartIdom, Refine, EndSweep, Terminated, vars
  <2> QED
      BY <2>1, <2>2 DEF Typed
<1> QED
    BY <1>1, <1>2, <1>3, <1>4 DEF Typed

\* The analysis stays within the labels of the function, and a candidate is
\* always a block of it or none.
THEOREM Types == Spec => []TypeOK
<1>1. ASSUME ReachInv, WalkInv, IdomInv, Typed PROVE TypeOK
  <2>1. allBlocks \subseteq Blocks /\ worklist \subseteq reachable /\ reachable \subseteq Blocks
        BY <1>1 DEF ReachInv
  <2>2. dfs \in Seq(Blocks) /\ postorder \in Seq(Blocks)
    <3>1. dfs \in Seq(allBlocks) /\ postorder \in Seq(allBlocks)
          BY <1>1 DEF WalkInv
    <3> QED
        BY <2>1, <3>1
  <2>3. visited \subseteq Blocks
    <3>1. Open \subseteq Blocks /\ Left \subseteq Blocks
          BY <2>2 DEF Open, Left
    <3> QED
        BY <1>1, <3>1 DEF WalkInv
  <2>4. idom \in [Blocks -> Blocks \cup {0}]
        BY <1>1, <2>1 DEF IdomInv
  <2>5. exits \in [Blocks -> SUBSET Labels]
        BY <1>1, GraphAssumption DEF Typed
  <2> QED
      BY <1>1, <2>1, <2>2, <2>3, <2>4, <2>5 DEF TypeOK, Typed, WalkInv
<1> QED
    BY <1>1, Refined, TypedInit, TypedStep, PTL DEF Spec

=============================================================================
