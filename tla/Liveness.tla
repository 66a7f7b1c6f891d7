------------------------------ MODULE Liveness ------------------------------
(***************************************************************************)
(* DataFlowInfo::computeLiveness for one function: the liveness equations  *)
(* of the basic blocks, solved by sweeps from the last block of the list   *)
(* to the first that update the sets in place, and then spread to the      *)
(* statements of each block.                                               *)
(*                                                                         *)
(* A function is a record: exits[b], the successors of the block at place  *)
(* b of the list, and stms[b], its statements, each with the sets of       *)
(* temporaries it uses and defines.                                        *)
(***************************************************************************)
EXTENDS Integers, Sequences, FiniteSets

CONSTANTS
  NumBlocks,
  Temps,
  Programs

ASSUME BlocksAssumption == NumBlocks \in Nat

ASSUME ProgramsAssumption ==
  \A p \in Programs :
    /\ p.exits \in [1 .. NumBlocks -> SUBSET (1 .. NumBlocks)]
    /\ p.stms \in [1 .. NumBlocks -> Seq([use : SUBSET Temps, def : SUBSET Temps])]

VARIABLES
  prog,
  liveIn, liveOut,  \* blockLiveIn and blockLiveOut
  index,            \* the block the sweep comes to next, 0 at its end
  changed,
  phase             \* "sweep", then "done"

vars == <<prog, liveIn, liveOut, index, changed, phase>>

Blocks == 1 .. NumBlocks

\* Used before any definition in the block, and defined in the block.
BlockUse(b) ==
  LET s == prog.stms[b]
  IN  {v \in Temps : \E k \in 1 .. Len(s) :
         v \in s[k].use /\ \A j \in 1 .. k - 1 : v \notin s[j].def}

BlockDef(b) ==
  {v \in Temps : \E k \in 1 .. Len(prog.stms[b]) : v \in prog.stms[b][k].def}

Init ==
  /\ prog \in Programs
  /\ liveIn = [b \in Blocks |-> {}]
  /\ liveOut = [b \in Blocks |-> {}]
  /\ index = NumBlocks
  /\ changed = FALSE
  /\ phase = "sweep"

NewOut(b) == UNION {liveIn[s] : s \in prog.exits[b]}

\* Mutation: definitions do not end the life of a temporary.
GreedyNewIn(b) == BlockUse(b) \cup NewOut(b)

NewIn(b) == BlockUse(b) \cup (NewOut(b) \ BlockDef(b))

\* Mutation: a change of a live-in set does not ask for another sweep.
ForgetfulUpdate ==
  /\ phase = "sweep"
  /\ index > 0
  /\ liveOut' = [liveOut EXCEPT ![index] = NewOut(index)]
  /\ liveIn' = [liveIn EXCEPT ![index] = NewIn(index)]
  /\ changed' = FALSE
  /\ index' = index - 1
  /\ UNCHANGED <<prog, phase>>

Update ==
  /\ phase = "sweep"
  /\ index > 0
  /\ liveOut' = [liveOut EXCEPT ![index] = NewOut(index)]
  /\ liveIn' = [liveIn EXCEPT ![index] = NewIn(index)]
  /\ changed' = (changed \/ NewOut(index) # liveOut[index] \/ NewIn(index) # liveIn[index])
  /\ index' = index - 1
  /\ UNCHANGED <<prog, phase>>

\* Mutation: the next sweep starts one block past the end of the list.
LateEndSweep ==
  /\ phase = "sweep"
  /\ index = 0
  /\ index' = NumBlocks + 1
  /\ changed' = FALSE
  /\ phase' = IF changed THEN "sweep" ELSE "done"
  /\ UNCHANGED <<prog, liveIn, liveOut>>

\* Mutation: the flag of one sweep is never cleared.
StickyEndSweep ==
  /\ phase = "sweep"
  /\ index = 0
  /\ index' = NumBlocks
  /\ changed' = changed
  /\ phase' = IF changed THEN "sweep" ELSE "done"
  /\ UNCHANGED <<prog, liveIn, liveOut>>

EndSweep ==
  /\ phase = "sweep"
  /\ index = 0
  /\ index' = NumBlocks
  /\ changed' = FALSE
  /\ phase' = IF changed THEN "sweep" ELSE "done"
  /\ UNCHANGED <<prog, liveIn, liveOut>>

\* Mutation: the uses of a statement are dropped with its definitions.
SwappedLive(b, k) ==
  LET s == prog.stms[b]
      before[j \in 1 .. Len(s) + 1] ==
        IF j = Len(s) + 1 THEN liveOut[b] ELSE (before[j + 1] \cup s[j].use) \ s[j].def
  IN  before[k]

\* Live before the statement at place k of block b, one past the end for
\* the block's live-out set; livein of a statement is this set and liveout
\* the one of the next place.
Live(b, k) ==
  LET s == prog.stms[b]
      before[j \in 1 .. Len(s) + 1] ==
        IF j = Len(s) + 1 THEN liveOut[b] ELSE (before[j + 1] \ s[j].def) \cup s[j].use
  IN  before[k]

Terminated == phase = "done" /\ UNCHANGED vars

Next == Update \/ EndSweep \/ Terminated

Spec == Init /\ [][Next]_vars

\* The analysis is sequential code: it takes its next step.
FairSpec == Spec /\ WF_vars(Next)

-----------------------------------------------------------------------------
(* Properties.                                                             *)

\* The type invariant.
TypeOK ==
  /\ liveIn \in [Blocks -> SUBSET Temps]
  /\ liveOut \in [Blocks -> SUBSET Temps]
  /\ index \in 0 .. NumBlocks
  /\ changed \in BOOLEAN
  /\ phase \in {"sweep", "done"}

\* A solution of the liveness equations.
Solves(in, out) ==
  \A b \in Blocks :
    /\ out[b] = UNION {in[s] : s \in prog.exits[b]}
    /\ in[b] = BlockUse(b) \cup (out[b] \ BlockDef(b))

\* The sweeps stop at a solution, although each set is computed from sets
\* that later steps of the same sweep change.
StopsAtSolution == phase = "done" => Solves(liveIn, liveOut)

\* No set ever holds a temporary that some solution does without: with
\* StopsAtSolution, the result is the least solution.
BelowSolutions ==
  \A in, out \in [Blocks -> SUBSET Temps] :
    Solves(in, out) => \A b \in Blocks : liveIn[b] \subseteq in[b] /\ liveOut[b] \subseteq out[b]

\* The places of the function, and where control may go from one.
Places == UNION {{b} \X (1 .. Len(prog.stms[b]) + 1) : b \in Blocks}
Following(p) ==
  IF p[2] <= Len(prog.stms[p[1]]) THEN {<<p[1], p[2] + 1>>}
  ELSE {<<s, 1>> : s \in prog.exits[p[1]]}
StmtAt(p) ==
  IF p[2] <= Len(prog.stms[p[1]]) THEN prog.stms[p[1]][p[2]] ELSE [use |-> {}, def |-> {}]

\* The places from which some path uses v before it defines v.
NeededAt(v) ==
  LET Size == Cardinality(Places)
      within[n \in 0 .. Size] ==
        IF n = 0 THEN {p \in Places : v \in StmtAt(p).use}
        ELSE within[n - 1] \cup
               {p \in Places : v \notin StmtAt(p).def /\ Following(p) \cap within[n - 1] # {}}
  IN  within[Size]

\* The statement-level sets are liveness itself: v is live at a place
\* exactly when some path from there uses it before defining it.
LivenessExact ==
  phase = "done" => \A p \in Places : Live(p[1], p[2]) = {v \in Temps : p \in NeededAt(v)}

\* The sweeps come to an end.
Converges == <>(phase = "done")

\* While a sweep has changed nothing, the blocks it has passed satisfy
\* their equations.
SweepInv ==
  ~changed \/ phase = "done" =>
    \A b \in Blocks :
      b > index \/ phase = "done" => liveOut[b] = NewOut(b) /\ liveIn[b] = NewIn(b)

=============================================================================
