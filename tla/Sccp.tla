-------------------------------- MODULE Sccp --------------------------------
(***************************************************************************)
(* Opt::optFunc, the conditional constant propagation: sweeps over the     *)
(* executable blocks that raise a value per temp (calculateBT), until one  *)
(* changes nothing, and then one pass that builds the function anew        *)
(* (modifyFunc): blocks that are not executable and definitions of         *)
(* constants disappear, uses of constants become constants, and a phi that *)
(* remains gets a fresh temp for each constant that flows into it.         *)
(*                                                                         *)
(* RtValue is the set of words a temp may hold: none (NO_VALUE), one       *)
(* (ONE_VALUE) or all of them (MANY_VALUES).                               *)
(***************************************************************************)
EXTENDS QuadFlow

VARIABLES
  stage,       \* "idle", "sweep", "modify", "done"
  ssa,         \* the function, as optFunc cloned it
  executable,  \* block_executable
  value,       \* temp_value
  at,          \* the next block of the sweep, as a place in the block list
  changed,     \* has this sweep changed anything
  optimized    \* the function that modifyFunc built

sccpVars == <<stage, ssa, executable, value, at, changed, optimized>>

NoValue == {}
ManyValues == Word
NoFunction == Function(<<>>, <<>>, <<>>, 0)

\* The temps of a function; those that are made up later are numbered from lastTemp on.
Temps(f) == Params(f) \cup UNION {Defs(s) \cup Uses(s) : s \in Statements(f)}

Numbered(f) == f.lastTemp \in Nat /\ Temps(f) \subseteq 0 .. f.lastTemp

SccpInit ==
  /\ stage = "idle"
  /\ ssa = NoFunction
  /\ executable = {}
  /\ value = <<>>
  /\ at = 1
  /\ changed = FALSE
  /\ optimized = NoFunction

\* optFunc up to the first sweep: the arguments are unknown, the entry runs.  It
\* runs again on a function with unrolled loops.
SccpBegin(f) ==
  /\ stage \in {"idle", "taken"}
  /\ stage' = "sweep"
  /\ ssa' = f
  /\ executable' = {Entry(f)}
  /\ value' = [t \in Temps(f) |-> IF t \in Params(f) THEN ManyValues ELSE NoValue]
  /\ UNCHANGED <<at, changed, optimized>>

-----------------------------------------------------------------------------
\* calculateBT.  What a sweep works on is a record of value and executable.

IsOne(v) == Cardinality(v) = 1
TheOne(v) == CHOOSE c \in v : TRUE

\* Mutation: two constants that differ join to the newer one.
LatestJoin(current, incoming) == IF incoming = NoValue THEN current ELSE incoming

Join(current, incoming) ==
  IF current = NoValue THEN incoming
  ELSE IF incoming = NoValue \/ incoming = current THEN current
  ELSE ManyValues

EvalTerm(val, term) == IF IsTemp(term) THEN val[term.temp] ELSE {term.const}

\* Mutation: constants are folded in wider integers than the machine's.
WideEvalBinop(op, l, r) ==
  IF ManyValues \in {l, r} THEN ManyValues
  ELSE IF NoValue \in {l, r} THEN NoValue
  ELSE IF op = "/" /\ r = {0} THEN ManyValues
  ELSE IF op = "+" THEN {TheOne(l) + TheOne(r)}
  ELSE {Operate(op, TheOne(l), TheOne(r))}

\* MOVE_BINOP; the division by a constant zero is left to the machine.  The
\* compiler folds with its own int, whose sums wrap like the target's.
EvalBinop(op, l, r) ==
  IF ManyValues \in {l, r} THEN ManyValues
  ELSE IF NoValue \in {l, r} THEN NoValue
  ELSE IF op = "/" /\ r = {0} THEN ManyValues
  ELSE {Operate(op, TheOne(l), TheOne(r))}

\* The targets a block's last statement can go to, as far as is known.
Targets(val, s) ==
  LET l == EvalTerm(val, s.src[1])
      r == EvalTerm(val, s.src[2])
  IN IF s.kind = "CJUMP" /\ IsOne(l) /\ IsOne(r)
     THEN {IF Compare(s.op, TheOne(l), TheOne(r)) THEN s.labels[1] ELSE s.labels[2]}
     ELSE ToSet(s.labels)

IsEdgeExecutable(val, exec, a, b) == a \in exec /\ b \in Targets(val, Last(ssa.code[a]))

\* The join of the arguments over executable edges; one without a value taints.
EvalPhi(val, exec, s, b) ==
  LET inputs == {EvalTerm(val, s.src[i]) :
                   i \in {j \in DOMAIN s.src : IsEdgeExecutable(val, exec, s.labels[j], b)}}
  IN IF NoValue \in inputs THEN ManyValues
     ELSE IF Cardinality(inputs) <= 1 THEN UNION inputs
     ELSE ManyValues

\* What a statement assigns, given the values of its sources.
Assigned(val, exec, s, b) ==
  CASE s.kind = "MOVE" -> EvalTerm(val, s.src[1])
    [] s.kind = "MOVE_BINOP" -> EvalBinop(s.op, EvalTerm(val, s.src[1]), EvalTerm(val, s.src[2]))
    [] s.kind = "PHI" -> EvalPhi(val, exec, s, b)
    [] OTHER -> ManyValues

\* The statements that report and promote a use without a value.
Checking == {"MOVE", "STORE", "EXTCALL", "RETURN", "MOVE_BINOP", "CJUMP"}

Evaluate(acc, s, b) ==
  LET missing == IF s.kind \in Checking THEN {t \in Uses(s) : acc.value[t] = NoValue} ELSE {}
      val == [t \in DOMAIN acc.value |-> IF t \in missing THEN ManyValues ELSE acc.value[t]]
      new == IF Defs(s) = {} THEN val
             ELSE [val EXCEPT ![s.dst] = Join(@, Assigned(val, acc.executable, s, b))]
      exec == acc.executable \cup Targets(val, s)
  IN [value |-> new,
      executable |-> IF s.kind \in {"JUMP", "CJUMP", "FALL"} THEN exec ELSE acc.executable]

\* acc behind the first i statements of block b, for each i.
Evaluated(acc, b) ==
  LET code == ssa.code[b]
      behind[i \in 0 .. Len(code)] ==
        IF i = 0 THEN acc ELSE Evaluate(behind[i - 1], code[i], b)
  IN behind

VisitBlock ==
  /\ stage = "sweep"
  /\ at <= Len(ssa.order)
  /\ LET b == ssa.order[at]
         before == [value |-> value, executable |-> executable]
         after == IF b \in executable THEN Evaluated(before, b)[Len(ssa.code[b])] ELSE before
     IN /\ value' = after.value
        /\ executable' = after.executable
        /\ changed' = (changed \/ after # before)
  /\ at' = at + 1
  /\ UNCHANGED <<stage, ssa, optimized>>

\* Mutation: one sweep is taken to be enough.
OnlySweep ==
  /\ stage = "sweep"
  /\ at > Len(ssa.order)
  /\ stage' = "modify"
  /\ at' = 1
  /\ changed' = FALSE
  /\ UNCHANGED <<ssa, executable, value, optimized>>

EndSweep ==
  /\ stage = "sweep"
  /\ at > Len(ssa.order)
  /\ stage' = IF changed THEN "sweep" ELSE "modify"
  /\ at' = 1
  /\ changed' = FALSE
  /\ UNCHANGED <<ssa, executable, value, optimized>>

-----------------------------------------------------------------------------
\* modifyFunc.

Edge(a, b) == IsEdgeExecutable(value, executable, a, b)

RewriteTerm(term) ==
  IF IsTemp(term) /\ IsOne(value[term.temp]) THEN Const(TheOne(value[term.temp])) ELSE term

Folded(s) == Defs(s) # {} /\ IsOne(value[s.dst])

\* The constants that flow into a phi that remains.
ConstantsOf(s, b) ==
  LET hits == Ascending({i \in DOMAIN s.src : Edge(s.labels[i], b) /\ IsOne(value[s.src[i].temp])})
  IN IF IsPhi(s) /\ value[s.dst] = ManyValues
     THEN [h \in DOMAIN hits |-> [src |-> s.src[hits[h]].temp, pred |-> s.labels[hits[h]]]]
     ELSE <<>>

\* All of them in the order of the scan; the n-th gets the temp lastTemp + n.
PhiConstants ==
  LET OfBlock(b) == FlattenSeq([i \in DOMAIN ssa.code[b] |-> ConstantsOf(ssa.code[b][i], b)])
  IN FlattenSeq([i \in DOMAIN ssa.order |->
                   IF ssa.order[i] \in executable THEN OfBlock(ssa.order[i]) ELSE <<>>])

\* The moves that load the fresh temps at the end of a block.
FreshMoves(b) ==
  LET cs == PhiConstants
      here == Ascending({n \in DOMAIN cs : cs[n].pred = b})
  IN [i \in DOMAIN here |->
        Move(ssa.lastTemp + here[i], Const(TheOne(value[cs[here[i]].src])))]

\* Mutation: the definition of the constant is gone, its phi argument is not.
StaleSubstitute(t, a) == t

\* The temp that stands for t on the edge from a; the last one made for the
\* pair if several phis read it.
Substitute(t, a) ==
  LET cs == PhiConstants
      made == {n \in DOMAIN cs : cs[n] = [src |-> t, pred |-> a]}
  IN IF made = {} THEN t ELSE ssa.lastTemp + Max(made)

\* Mutation: the arguments of edges that fold away are kept.
FullPhi(s, b) ==
  <<[s EXCEPT !.src = [k \in DOMAIN @ |-> Temp(Substitute(@[k].temp, s.labels[k]))]]>>

RemainingPhi(s, b) ==
  LET kept == Ascending({i \in DOMAIN s.src : Edge(s.labels[i], b)})
      src == [k \in DOMAIN kept |-> Temp(Substitute(s.src[kept[k]].temp, s.labels[kept[k]]))]
  IN IF kept = <<>> THEN <<>>
     ELSE IF Len(kept) = 1 THEN <<Move(s.dst, src[1])>>
     ELSE <<Phi(s.dst, src, [k \in DOMAIN kept |-> s.labels[kept[k]]])>>

\* A statement of block b in the new function.
Rebuild(s, b) ==
  LET new == Stm(s.kind, s.dst, s.op, [i \in DOMAIN s.src |-> RewriteTerm(s.src[i])], s.labels)
      live == {i \in DOMAIN s.labels : Edge(b, s.labels[i])}
  IN CASE s.kind \in {"MOVE", "MOVE_BINOP", "PHI"} /\ Folded(s) -> <<>>
       [] IsPhi(s) /\ ~Folded(s) -> RemainingPhi(s, b)
       [] s.kind \in {"JUMP", "FALL"} -> FreshMoves(b) \o <<Jump(s.labels[1])>>
       [] s.kind = "CJUMP" ->
            FreshMoves(b) \o
              (IF Cardinality(live) = 1 THEN <<Jump(s.labels[TheOne(live)])>> ELSE <<new>>)
       [] OTHER -> <<new>>

Modified ==
  LET Code(b) == FlattenSeq([i \in DOMAIN ssa.code[b] |-> Rebuild(ssa.code[b][i], b)])
  IN Function(ssa.params, Only(ssa.order, executable), [b \in executable |-> Code(b)],
              ssa.lastTemp + Len(PhiConstants) + 2)

ModifyFunc ==
  /\ stage = "modify"
  /\ stage' = "done"
  /\ optimized' = Modified
  /\ UNCHANGED <<ssa, executable, value, at, changed>>

SccpSteps == VisitBlock \/ EndSweep \/ ModifyFunc

-----------------------------------------------------------------------------
\* What the sweeps conclude covers what happens: on every run each block that
\* is entered is marked executable, and each temp holds one of its values
\* whenever it has been assigned.  In particular a constant is the value of
\* its temp on every path, the second time round a loop as well.
ValuesCover ==
  stage = "modify" =>
    \A input \in Inputs : \A c \in Configurations(ssa, input, RunLength) :
      c.at \in executable /\ \A t \in DOMAIN c.env : c.env[t] \in value[t]

\* Values and executable blocks only ever rise within a function, which is
\* what lets the sweeps stop.
ValuesRise ==
  [][stage = "sweep" =>
       /\ executable \subseteq executable'
       /\ \A t \in DOMAIN value : value[t] \subseteq value'[t]]_sccpVars

=============================================================================
