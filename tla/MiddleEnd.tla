----------------------------- MODULE MiddleEnd -----------------------------
(***************************************************************************)
(* The passes of compileTreeToAarch64 over quadruples, one after another   *)
(* on one function: SSA construction, conditional constant propagation,    *)
(* algebraic simplification with inlining, the loop passes (canonical      *)
(* form, hoisting, unrolling, and the first two once more if something was *)
(* unrolled, and induction variables), value numbering, copy propagation,  *)
(* and the emission of assembly.  What each leaves is compared with the    *)
(* function the first was given, and the next starts from it.              *)
(***************************************************************************)
EXTENDS SsaConstruction, Sccp, Simplification

CONSTANTS
  Residents,     \* the callee-saved registers that may hold temps (x19 .. x28)
  PhiRegisters,  \* the registers that hold phi inputs on an edge (x12 .. x15)
  HalfWord,      \* what the lower half of a word counts to (2^16)
  MaxTrips, MaxBody, MaxExpanded, MaxNewTemps  \* the limits of unrolling

ASSUME RegisterAssumption ==
  /\ Residents \subseteq 19 .. 28
  /\ PhiRegisters \subseteq 12 .. 15
  /\ HalfWord * HalfWord = Modulus

\* Each exit of a defined function stands behind its block, and what it calls is
\* not defined.
ASSUME CalleesAssumption ==
  \A n \in DOMAIN Callees : LET f == Callees[n] IN
    /\ \A i \in DOMAIN f.order : Exits(f, f.order[i]) \subseteq {f.order[j] : j \in i + 1 .. Len(f.order)}
    /\ \A s \in Statements(f) : IsCall(s.kind) => s.op \notin DOMAIN Callees

ASSUME UnrollAssumption == {MaxTrips, MaxBody, MaxExpanded, MaxNewTemps} \subseteq Nat

VARIABLES
  algebra, simplified,
  simplifying, uncanonical, canonical, rounds,
  hoisting, unhoisted, hoisted, nest, toVisit, moved,
  unrolling, rolled, unrolled, turns,
  inducing, uninduced, induced, recurrences, taken,
  numbering, given, numbered, givenFlow, route, available, replacement, refused,
  copying, original, candidate, gaveUp,
  emission, unit, unitFlow, tracing, rewriting, frame, layout, pending, asm

Loops == INSTANCE LoopSimplify
Licm == INSTANCE LoopHoist
Unroll == INSTANCE LoopUnroll
Induction == INSTANCE LoopInduction
Numbers == INSTANCE Gvn
Copies == INSTANCE CopyProp
Emit == INSTANCE Emitter

algebraVars == <<algebra, simplified>>
simplifyVars == <<simplifying, uncanonical, canonical, rounds>>
hoistVars == <<hoisting, unhoisted, hoisted, nest, toVisit, moved>>
unrollVars == <<unrolling, rolled, unrolled, turns>>
inductionVars == <<inducing, uninduced, induced, recurrences, taken>>
loopVars == <<simplifyVars, hoistVars, unrollVars, inductionVars>>
gvnVars ==
  <<numbering, given, numbered, givenFlow, route, available, replacement, refused>>
copyVars == <<copying, original, candidate, gaveUp>>
emitVars == <<emission, unit, unitFlow, tracing, rewriting, frame, layout, pending, asm>>
allVars ==
  <<ssaVars, sccpVars, algebraVars, loopVars, gvnVars, copyVars, emitVars>>

MiddleInit ==
  /\ Init /\ SccpInit
  /\ algebra = "idle" /\ simplified = Function(<<>>, <<>>, <<>>, 0)
  /\ Loops!Init /\ Licm!Init /\ Unroll!Init /\ Induction!Init
  /\ Numbers!Init /\ Copies!Init /\ Emit!Init

Convert ==
  /\ PlacePhi \/ StartRename \/ EnterBlock \/ LeaveBlock \/ Cleanup
  /\ UNCHANGED <<sccpVars, algebraVars, loopVars, gvnVars, copyVars, emitVars>>

BeginOpt ==
  /\ phase = "done"
  /\ phase' = "taken"
  /\ SccpBegin(func)
  /\ UNCHANGED <<source, flow, func, toPlace, path, stacks, nextTemp>>
  /\ UNCHANGED <<algebraVars, loopVars, gvnVars, copyVars, emitVars>>

RunOpt ==
  SccpSteps /\ UNCHANGED <<ssaVars, algebraVars, loopVars, gvnVars, copyVars, emitVars>>

\* The simplification runs twice, with inlining between; behind unrolling it runs
\* once.
Simplify ==
  /\ stage = "done"
  /\ stage' = "taken"
  /\ algebra' = "done"
  /\ simplified' = IF unrolling = "idle" THEN AlgebraSimp(InlineCalls(AlgebraSimp(optimized)))
                   ELSE AlgebraSimp(optimized)
  /\ UNCHANGED <<ssa, executable, value, at, changed, optimized>>
  /\ UNCHANGED <<ssaVars, loopVars, gvnVars, copyVars, emitVars>>

BeginLoops ==
  /\ algebra = "done"
  /\ unrolling = "idle"
  /\ algebra' = "taken"
  /\ Loops!Begin(simplified)
  /\ UNCHANGED simplified
  /\ UNCHANGED <<ssaVars, sccpVars, hoistVars, unrollVars, inductionVars>>
  /\ UNCHANGED <<gvnVars, copyVars, emitVars>>

RunLoops ==
  /\ Loops!Steps
  /\ UNCHANGED <<ssaVars, sccpVars, algebraVars, hoistVars, unrollVars, inductionVars>>
  /\ UNCHANGED <<gvnVars, copyVars, emitVars>>

BeginHoist ==
  /\ simplifying = "done"
  /\ simplifying' = "taken"
  /\ Licm!Begin(canonical)
  /\ UNCHANGED <<uncanonical, canonical, rounds>>
  /\ UNCHANGED <<ssaVars, sccpVars, algebraVars, unrollVars, inductionVars>>
  /\ UNCHANGED <<gvnVars, copyVars, emitVars>>

RunHoist ==
  /\ Licm!Steps
  /\ UNCHANGED <<ssaVars, sccpVars, algebraVars, simplifyVars, unrollVars, inductionVars>>
  /\ UNCHANGED <<gvnVars, copyVars, emitVars>>

BeginUnroll ==
  /\ hoisting = "done"
  /\ hoisting' = "taken"
  /\ Unroll!Begin(hoisted)
  /\ UNCHANGED <<unhoisted, hoisted, nest, toVisit, moved>>
  /\ UNCHANGED <<ssaVars, sccpVars, algebraVars, simplifyVars, inductionVars>>
  /\ UNCHANGED <<gvnVars, copyVars, emitVars>>

RunUnroll ==
  /\ Unroll!Steps
  /\ UNCHANGED <<ssaVars, sccpVars, algebraVars, simplifyVars, hoistVars, inductionVars>>
  /\ UNCHANGED <<gvnVars, copyVars, emitVars>>

\* What was unrolled is propagated and simplified once more.
BeginCleanup ==
  /\ unrolling = "done"
  /\ turns > 0
  /\ unrolling' = "cleanup"
  /\ SccpBegin(unrolled)
  /\ UNCHANGED <<rolled, unrolled, turns>>
  /\ UNCHANGED <<ssaVars, algebraVars, simplifyVars, hoistVars, inductionVars>>
  /\ UNCHANGED <<gvnVars, copyVars, emitVars>>

BeginInduction ==
  /\ \/ unrolling = "done" /\ turns = 0 /\ Induction!Begin(unrolled)
     \/ unrolling = "cleanup" /\ algebra = "done" /\ Induction!Begin(simplified)
  /\ unrolling' = "taken"
  /\ UNCHANGED <<rolled, unrolled, turns>>
  /\ UNCHANGED <<ssaVars, sccpVars, algebraVars, simplifyVars, hoistVars>>
  /\ UNCHANGED <<gvnVars, copyVars, emitVars>>

RunInduction ==
  /\ Induction!Steps
  /\ UNCHANGED <<ssaVars, sccpVars, algebraVars, simplifyVars, hoistVars, unrollVars>>
  /\ UNCHANGED <<gvnVars, copyVars, emitVars>>

BeginNumbers ==
  /\ inducing = "done"
  /\ inducing' = "taken"
  /\ Numbers!Begin(induced)
  /\ UNCHANGED <<uninduced, induced, recurrences, taken>>
  /\ UNCHANGED <<ssaVars, sccpVars, algebraVars, simplifyVars, hoistVars, unrollVars>>
  /\ UNCHANGED <<copyVars, emitVars>>

RunNumbers ==
  Numbers!Steps /\ UNCHANGED <<ssaVars, sccpVars, algebraVars, loopVars, copyVars, emitVars>>

BeginCopies ==
  /\ numbering = "done"
  /\ numbering' = "taken"
  /\ Copies!Begin(numbered)
  /\ UNCHANGED <<given, numbered, givenFlow, route, available, replacement, refused>>
  /\ UNCHANGED <<ssaVars, sccpVars, algebraVars, loopVars, emitVars>>

RunCopies ==
  Copies!Steps /\ UNCHANGED <<ssaVars, sccpVars, algebraVars, loopVars, gvnVars, emitVars>>

\* Without optimization the function goes to the emitter as it is.
EmitPlain ==
  /\ phase = "done"
  /\ phase' = "taken"
  /\ Emit!Begin(func, FALSE, 0)
  /\ UNCHANGED <<source, flow, func, toPlace, path, stacks, nextTemp>>
  /\ UNCHANGED <<sccpVars, algebraVars, loopVars, gvnVars, copyVars>>

\* With it the flow is computed once more, the blocks are laid out unless that is
\* switched off, and patterns are rewritten.
EmitOptimized ==
  /\ copying = "done"
  /\ copying' = "taken"
  /\ \E trace \in BOOLEAN : Emit!Begin(EliminateUnreachable(candidate), trace, 4)
  /\ UNCHANGED <<original, candidate, gaveUp>>
  /\ UNCHANGED <<ssaVars, sccpVars, algebraVars, loopVars, gvnVars>>

RunEmit ==
  Emit!Steps /\ UNCHANGED <<ssaVars, sccpVars, algebraVars, loopVars, gvnVars, copyVars>>

Compiled == emission = "done" /\ UNCHANGED allVars

MiddleNext ==
  \/ Convert
  \/ BeginOpt \/ RunOpt
  \/ Simplify
  \/ BeginLoops \/ RunLoops
  \/ BeginHoist \/ RunHoist
  \/ BeginUnroll \/ RunUnroll \/ BeginCleanup
  \/ BeginInduction \/ RunInduction
  \/ BeginNumbers \/ RunNumbers
  \/ BeginCopies \/ RunCopies
  \/ EmitPlain \/ EmitOptimized \/ RunEmit
  \/ Compiled

MiddleSpec == MiddleInit /\ [][MiddleNext]_allVars

-----------------------------------------------------------------------------
\* Types of the propagation; a value is nothing, one word or any word, and a
\* constant that was folded is a word.
MiddleTypeOK ==
  /\ TypeOK
  /\ stage \in {"idle", "sweep", "modify", "done", "taken"}
  /\ algebra \in {"idle", "done", "taken"}
  /\ simplifying \in {"idle", "rounds", "verify", "done", "taken"}
  /\ rounds \in 0 .. 64
  /\ hoisting \in {"idle", "sweep", "done", "taken"}
  /\ unrolling \in {"idle", "rounds", "verify", "clean", "recheck", "done", "cleanup", "taken"}
  /\ turns \in 0 .. 16
  /\ inducing \in {"idle", "plan", "insert", "clean", "done", "taken"}
  /\ numbering \in {"idle", "walk", "rewrite", "verify", "done", "taken"}
  /\ refused \in BOOLEAN
  /\ copying \in {"idle", "rewrite", "sweep", "verify", "done", "taken"}
  /\ gaveUp \in BOOLEAN
  /\ emission \in {"idle", "layout", "blocks", "peephole", "done"}
  /\ rewriting \in 0 .. 4
  /\ stage \in {"sweep", "modify"} =>
       /\ executable \subseteq Blocks(ssa)
       /\ \A t \in DOMAIN value :
            value[t] \in {{}, Word} \/ \E c \in Word : value[t] = {c}
       /\ WellFormed(ssa) /\ Numbered(ssa)
       /\ at \in 1 .. Len(ssa.order) + 1
  /\ stage = "modify" => RunsOnWords(ssa) /\ RunsReadAssigned(ssa)

\* What stands after each pass, and within copy propagation after each round,
\* does what the function in front of SSA construction did on every input: a
\* statement or a phi reads the version its variable had on the path taken, a
\* constant or an earlier expression stands for a temp only where it has that
\* value, the second time round a loop as well, and nothing that is seen goes.
PassesPreserve ==
  \A f \in (IF phase = "done" THEN {func} ELSE {})
            \cup (IF stage = "done" THEN {optimized} ELSE {})
            \cup (IF algebra = "done" THEN {simplified} ELSE {})
            \cup (IF simplifying = "done" THEN {canonical} ELSE {})
            \cup (IF hoisting = "done" THEN {hoisted} ELSE {})
            \cup (IF unrolling = "done" THEN {unrolled} ELSE {})
            \cup (IF inducing = "done" THEN {induced} ELSE {})
            \cup (IF numbering = "done" THEN {numbered} ELSE {})
            \cup (IF copying \in {"sweep", "done"} THEN {candidate} ELSE {}) :
    SameBehaviour(source, f, Inputs, RunLength)

\* A pass hands the one behind it a function that the verifier accepts if it was
\* given one, and never has to give up what it made of such a function.
PassesKeepSsa ==
  /\ stage = "done" /\ VerifySsa(ssa, FlowOf(ssa)) => VerifySsa(optimized, FlowOf(optimized))
  /\ simplifying = "verify" => VerifyQuadSsaCfg(canonical)
  /\ hoisting = "done" /\ VerifySsa(unhoisted, FlowOf(unhoisted)) =>
       VerifySsa(hoisted, FlowOf(hoisted))
  /\ unrolling \in {"verify", "recheck"} => VerifyQuadSsaCfg(unrolled)
  /\ refused => ~VerifySsa(given, FlowOf(given))
  /\ gaveUp => ~VerifySsa(original, FlowOf(original))

\* A pass is thorough: value numbering leaves no expression that repeats one of
\* a block on every way to it, copy propagation no copy, and no pure definition
\* without a reader, however long the chains are.
NothingLeftOver ==
  /\ simplifying = "done" /\ VerifyQuadSsaCfg(canonical) =>
       Loops!Unfinished(FlowOf(canonical)) = {}
  /\ numbering = "done" /\ ~refused => Numbers!Repeated(numbered, givenFlow.dom) = {}
  /\ copying = "done" /\ ~gaveUp =>
       Copies!CopiesOf(candidate) = {} /\ Dead(candidate) = {}

\* The assembly does what the function before the conversion did: phis are read
\* together on each edge, homes and scratch cells do not overlap, what falls
\* through falls into the right block, and the caller's registers come back.
EmissionImplements ==
  emission = "done" => Emit!Implements(asm, frame.size, source, Inputs, RunLength)

=============================================================================
