----------------------------- MODULE LoopHoist -----------------------------
(***************************************************************************)
(* runLicmPass for one function: loopHoistFunc moves the divisions whose   *)
(* operands the loop does not define to the end of the block in front of   *)
(* the loop, loop by loop, the smallest first, until nothing moves.  There *)
(* is no test whether the function is in SSA form, before or after.        *)
(***************************************************************************)
EXTENDS QuadFlow

VARIABLES
  hoisting,  \* "idle", "sweep", "done"
  unhoisted, \* the function the pass was given
  hoisted,   \* the function as it stands
  nest,      \* its loops, as the flow had them in front of the first move
  toVisit,   \* the loops this sweep has still to look at
  moved      \* has this sweep moved anything

hoistVars == <<hoisting, unhoisted, hoisted, nest, toVisit, moved>>

NothingToHoist == Function(<<>>, <<>>, <<>>, 0)

Init ==
  /\ hoisting = "idle"
  /\ unhoisted = NothingToHoist
  /\ hoisted = NothingToHoist
  /\ nest = {}
  /\ toVisit = {}
  /\ moved = FALSE

\* findLoopHeadersWithFlow finds the loops that findNaturalLoopInfo finds.
FindLoopHeaders(flow) == NaturalLoopsOf(flow)

\* The flow is computed, which drops unreachable blocks.
Begin(f) ==
  /\ hoisting = "idle"
  /\ hoisting' = "sweep"
  /\ unhoisted' = EliminateUnreachable(f)
  /\ hoisted' = unhoisted'
  /\ nest' = FindLoopHeaders(FlowOf(unhoisted'))
  /\ toVisit' = nest'
  /\ UNCHANGED moved

-----------------------------------------------------------------------------
\* findPreheader: the first block outside the loop with an edge to the header.
PreheadersOf(f, l) ==
  SelectSeq(f.order, LAMBDA b : b \notin l.blocks /\ l.header \in Exits(f, b))

LoopDefs(f, l) ==
  UNION {UNION {Defs(s) : s \in ToSet(f.code[b])} : b \in l.blocks \cap Blocks(f)}

\* The places of the divisions in a loop, in the order of the blocks.
Divisions(f, l) ==
  LET InBlock(b) ==
        SelectSeq([i \in DOMAIN f.code[b] |-> <<b, i>>],
                  LAMBDA at : f.code[b][at[2]].kind = "MOVE_BINOP" /\ f.code[b][at[2]].op = "/")
  IN FlattenSeq([k \in DOMAIN f.order |->
                   IF f.order[k] \in l.blocks THEN InBlock(f.order[k]) ELSE <<>>])

\* Mutation: an operand that the loop defines does not keep a division there.
AnyOperands(s, defs) == TRUE

\* operandsAreInvariant, where defs are what the loop defines and keeps.
OperandsAreInvariant(s, defs) == Uses(s) \cap defs = {}

\* One scan of the loop: acc is the list of places that will move, and what the
\* loop still defines.
Scan(f, l, acc) ==
  LET Consider(a, at) ==
        LET s == f.code[at[1]][at[2]]
        IN IF OperandsAreInvariant(s, a.defs) /\ s.dst \in a.defs
           THEN [places |-> Append(a.places, at), defs |-> a.defs \ {s.dst}]
           ELSE a
  IN FoldLeft(Consider, acc, Divisions(f, l))

\* The scans end when one finds nothing.
ToHoist(f, l) ==
  LET start == [places |-> <<>>, defs |-> LoopDefs(f, l)]
  IN FoldLeft(LAMBDA acc, n : Scan(f, l, acc), start, Divisions(f, l)).places

\* What moves stands in front of the jump, in the order it was found; behind a
\* block that falls through, at its end.
Hoist(f, preheader, places) ==
  LET Stays(b) == SelectSeq([i \in DOMAIN f.code[b] |-> <<b, i>>],
                            LAMBDA at : at \notin ToSet(places))
      Left(b) == [k \in DOMAIN Stays(b) |-> f.code[b][Stays(b)[k][2]]]
      gone == [k \in DOMAIN places |-> f.code[places[k][1]][places[k][2]]]
  IN [f EXCEPT !.code = [b \in DOMAIN @ |->
        IF b = preheader THEN Front(@[b]) \o gone \o <<Last(@[b])>>
        ELSE IF b \in Blocks(f) THEN Left(b) ELSE @[b]]]

HoistOneLoop ==
  /\ hoisting = "sweep"
  /\ \E l \in FirstOf(toVisit) :
       LET preheaders == PreheadersOf(hoisted, l)
           places == ToHoist(hoisted, l)
           moves == preheaders # <<>> /\ places # <<>>
       IN /\ hoisted' = IF moves THEN Hoist(hoisted, preheaders[1], places) ELSE hoisted
          /\ moved' = (moved \/ moves)
          /\ toVisit' = toVisit \ {l}
  /\ UNCHANGED <<hoisting, unhoisted, nest>>

EndHoistSweep ==
  /\ hoisting = "sweep"
  /\ toVisit = {}
  /\ hoisting' = IF moved THEN "sweep" ELSE "done"
  /\ toVisit' = IF moved THEN nest ELSE {}
  /\ moved' = FALSE
  /\ UNCHANGED <<unhoisted, hoisted, nest>>

Steps == HoistOneLoop \/ EndHoistSweep

=============================================================================
