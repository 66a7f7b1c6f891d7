# A verification project for the SysY to AArch64 compiler

The repository is a compiler from SysY (a C subset with `int`, `float` and
multi-dimensional arrays) to AArch64 assembly.  Most of it is a chain of
sequential transformations of intermediate representations; one part, the
automatic parallelizer, produces programs that run on two threads with a runtime
the compiler writes itself.  This directory holds TLA+ models of those parts, TLC
configurations that check them on small instances, and TLAPS proofs of what holds
for every instance.

How to run (TLC and tlapm on the path, inside this directory):

    tlc -workers 2 -config MCParallelRuntime.cfg MCParallelRuntime.tla
    tlapm ParallelRuntimeProofs.tla

`PROJECT.json` lists the components, the runs with their properties, one mutation
per property that the run must reject, the lines of `src/` each definition stands
for, the disagreements found, the hazards and the theorems.

## 1. Inventory

The pipeline, in the order `main.cc` and `optimization.cc` run it:

    lexer -> parser -> semantic checker -> lowering (lower_tree)        AST -> Tree IR
          -> canonicalizer -> tree2quad -> blocking                     Tree IR -> Quad
          -> control flow + data flow -> SSA construction               Quad -> SSA
          -> SCCP, algebraic simplification, inlining, loop passes,
             value numbering, copy propagation                          SSA -> SSA
          -> emitter (phi copies, jumps, runtime text) -> peephole      SSA -> assembly

The components pass whole trees or programs to each other by value or pointer;
there are no callbacks across components and no persistent state.  The only
concurrency is in the emitted program: the caller of a range helper and the one
thread the helper creates.

| Component | State it keeps | Operations | What is hard | What makes it correct |
|---|---|---|---|---|
| **Parallel range runtime** (`emitParallelRuntime`, `backend_driver.cc`) | registers and the stack frame of the helper, the frame shared with the thread | gate, split, `pthread_create`, lower half, join, direct path; twice, once with a sum | two threads, a creation that may fail, a frame that must outlive the thread, wrapped trip counts, caller-saved registers | each iteration once, before the return; the sum; no access to a dead frame; an empty range not split unless its bounds are further apart than the word |
| **Loop planner** (`parallel_plan.cc`) | symbol scopes, per-function purity, access lists with affine coefficients | `analyzeParallelLoopPair`: 20 checks in order, two loop shapes (range, reduction nest), work estimate | deciding independence from syntax: aliases, shadowing, indexes through other variables, bounds hoisted out of the loop | an accepted loop run in two threads in any interleaving computes what it computes in one |
| **Purity summaries** (`collectFunctionPurity`) | map from function to summary | textual check, then sweeps that withdraw purity until nothing changes | unordered visits, mutual recursion, shadowing | a function summarized pure neither reads nor writes anything but its own scalars, through calls too |
| **Lowering of parallel loops** (`lowerParallelLoop`) | temps, worker functions, context struct | conditions, alias guard, `end + 1` guard, worker, write-back | hoisting, capture, write-back only after at least one iteration, INT_MAX | as for the planner; a worker mentions only what it captured |
| **Lexer, parser** (`parser.cc`) | tokens, position | recursive descent, one function per rule | which operand belongs to which operator, which `else` to which `if`; an assignment begins like an expression | the tree is the one the grammar gives the text |
| **Semantic checker** (`semantics.cc`) | stack of scopes, loop depth, return type | one function per kind of node | ranks of partly indexed arrays, shadowing | refuses the faults it looks for, and no program without one; what it does not look at is listed in section 6 |
| **Lowering of expressions, statements, declarations** (`lower_tree.cc`) | scopes, label stacks, next temp and label | one function per kind of node | short circuits, braces of initializers, conversions, code behind jumps | what is lowered means what was written |
| **Tree IR, canonicalizer** (`canon.cc`) | lists of statements and expressions | linearize, reorder | an operand that a later operand's call changes | same effects in the same order |
| **tree2quad, blocking** | quad list; blocks with labels, exits | flatten, split at labels, add jumps | fall through, code behind a jump, which blocking leaves without a label if the lowering put none there | every block has a label of its own and its exits are labels |
| **Control flow** (`controlflowinfo.cc`) | predecessor, successor, idom, dominance frontier maps | reachability, unreachable elimination, iterated idom, frontier runners | irreducible graphs, edges back to the entry, convergence | dominators and frontiers as defined by paths |
| **Data flow** (`dataflowinfo.cc`) | live-in and live-out per block and statement | backward sweeps until nothing changes | convergence on loops; the two different joins of the code | live exactly if some path reads before it writes |
| **SSA construction** (`quadssa.cc`) | phi lists, version stacks, def/use lists | phi placement, renaming along the dominator tree, cleanup of unused phis | pruning by liveness, parameters, loops to the entry, stacks across siblings | one definition per temp, which dominates its uses; same behaviour |
| **SCCP** (`opt.cc`) | lattice value per temp, executable blocks | sweeps until nothing changes, rewriting | optimistic start, phis over edges that fold, definitions that disappear | a constant only where every execution has it |
| **Value numbering, copy propagation** | scoped tables; map of copies | dominator walk; rewriting of uses, rounds of removals, verification | commutative keys, memory; phi arguments, chains of copies, falling back | replaced expressions are equal; same behaviour, nothing left over |
| **Loop passes** (simplify, invariant calls, unroll, induction variables, strength reduction) | loop forest, preheaders | block surgery, cloning | trip counts at the ends of the int range, phis of cloned exits | same behaviour |
| **Inlining, specialization, algebraic simplification, memory forwarding** | call graph, alias classes | cloning, rewriting | recursion, wrapped arithmetic, aliases | same behaviour |
| **Emitter** (`backend_driver.cc`) | slots, resident registers, save slots per function | homes and frame, prologue, blocks, phi copies per edge, calls | parallel copies, overlap of cells, inverted branches and fall through after trace layout, AAPCS64 | assembly does what the quads do, and keeps the callee-saved registers |
| **Block layout, peephole** | placed blocks; instruction list | trace layout, pattern rewriting | each block once; flags and zero-extension of dropped moves | same behaviour |
| **Driver** (`main.cc`) | options | file handling | - | - |
| **`sylib`** (vendored runtime library) | - | I/O, timing | - | outside the project |

## 2. Plan

Order: what runs concurrently first, then what decides whether it may, then the
passes every program goes through, from the analyses outwards.

1. *Done.* `ParallelRuntime` against `RangeContract`, with proofs.
2. *Done.* `ParallelPlan` and `ParallelLoop`: the planner, the lowering and two
   workers, against the sequential loop; `PurityFixpoint`, with proofs, and `FunctionPurity`,
   which extends it.
3. *Done.* `ControlFlow`, `Liveness`: the algorithms against definitions by paths.
4. *Done.* `QuadIR`, `QuadFlow`, `SsaConstruction`, `Sccp`, composed by `MiddleEnd`,
   against the behaviour of the function that went in.
5. *Done.* `Gvn`, `CopyProp` and `Emitter`: value numbering, copy propagation
   and the emission of assembly as the last stages of `MiddleEnd`, up to the run of
   the instructions.
6. *Done.* The front end: `Parser`, `SemanticChecker`, `LowerTree`, `TreeIR` (with the
   canonicalizer) and `Tree2Quad`, composed by `FrontEnd`, against an interpreter of the language.
7. *Done.* `Simplification`, `LoopSimplify`, `LoopHoist`, `LoopUnroll` and `LoopInduction`:
   algebraic simplification, the canonical form of loops, hoisting, unrolling and
   induction variables as stages of `MiddleEnd`; then inlining, with functions that
   call functions.
8. *Done.* The peephole rewriting, as the last step of `Emitter`.
9. *Done.* Proofs about the analyses: dominators, frontiers and liveness are what
   paths say; the propagation only rises and covers every run.
10. *Done.* Proofs about SSA construction: what it leaves is accepted by the verifier, has
   no superfluous phi, and does what the function did.
11. *Done.* What the propagation makes of a function in SSA form does what the function did.
12. *Open.* The same of the passes behind it, each of which starts from what `VerifiedReads`
   says of runs.

## 3. Modules

| Module | Models | State and actions |
|---|---|---|
| `Words` | `int` of the target: two's complement of width given by `MaxInt` | operators only |
| `RangeContract` | what a range helper promises: each iteration of a range once, a word sum, a return; what it leaves open: the iterations of an empty range whose bounds are further apart than the word, and the sum of a worker that writes `x4` | `Call`, one iteration at a time, `Return` |
| `ParallelRuntime` | the assembly text of `emitParallelRuntime` and the loop of a worker | registers and frame as variables; the instructions between two points where the threads meet are one action, one loop iteration is one action; creation succeeds or fails |
| `SysyAst`, `ParallelPlan` | AST nodes; `analyzeParallelLoopPair` check by check | operators only |
| `ParallelLoop` | `lowerParallelLoop` and the run of its result | `Analyze`, then the sequential code or the guarded parallel code; an assignment of a worker reads in one step and stores in the next |
| `PurityFixpoint` | the sweeps of `collectFunctionPurity` | `Withdraw`, `Keep`, `EndSweep`; the unordered map's order is arbitrary |
| `FunctionPurity` | the textual check per function, in front of the sweeps of `PurityFixpoint`, and what calling a function then does | `Summarize` (a step of the sweeps), `CallPure`, `Execute`, `Descend`; one program per behaviour |
| `ControlFlow` | `ControlFlowInfo::computeEverything` | `Visit` (worklist), `Eliminate`, `Refine` (one block of an idom sweep), `EndSweep`, `ComputeFrontiers` |
| `Liveness` | `DataFlowInfo::computeLiveness` | `Update` (one block of a sweep), `EndSweep` |
| `Parser`, `SysyAst`, `SysyProgram` | `parser.cc` on tokens; the nodes, and the spelling of a tree, which is the grammar | operators |
| `SemanticChecker` | `semantics.cc`: scopes, kinds, ranks, conversions | operators, threading the scopes |
| `TreeIR` | the trees, and `canon.cc` | operators |
| `LowerTree` | `lower_tree.cc` without its hook for parallel loops | operators, threading temps, labels and scopes |
| `Tree2Quad` | `tree2quad.cc` and `blocking.cc`; a block without a label stays without one | operators |
| `SysySemantics` | what a program means, or that it has no meaning, and whether that is for the checker to say; what quadruples with memory do; both run with one library | operators |
| `FrontEnd` | the order of the stages | `Parse`, `Check`, `Lower`, `Canonicalize`, `Select`, `SplitIntoBlocks`: one pass over the program each |
| `QuadIR` | statements, what a well-formed function is, and what the emitted code of a function does | operators; a run goes from configuration to configuration, and leaves the trace of loads, stores, calls and the return |
| `QuadFlow` | the inputs and the length of the runs that are looked at; the analyses by their results, the natural loops and the edits of edges (`cfg_transform.cc`), `verifySsaFunction` and `verifyQuadSsaCfg`, removal of dead definitions | operators only |
| `SsaConstruction` | `quad2ssa` | `PlacePhi` (one variable), `StartRename`, `EnterBlock` and `LeaveBlock` (the recursion of `renameBlock` with its stack as `path`: the block, the children still to visit, the version stacks to return to), `Cleanup` (one sweep) |
| `Sccp` | `Opt::optFunc` | `SccpBegin`, `VisitBlock` (one block of a sweep), `EndSweep`, `ModifyFunc`; its own specification takes one well-formed function after another, `MiddleEnd` the one that SSA construction leaves |
| `Simplification` | `algebraSimpProg`; `inlineProg` for the function that calls; the called ones are the constant `Callees` of `QuadIR`, as they stand in front of the pass | one operator per rule; the candidate test, and the rewriting of a call |
| `LoopSimplify` | `loopSimplifyProg` | `Begin`, `CanonicalizeOne` (one preheader, latch or exit), `EndRounds`, `VerifyLoops` |
| `LoopHoist` | `runLicmPass`, `loopHoistFunc` | `Begin`, `HoistOneLoop`, `EndHoistSweep`; there is no verification to model |
| `LoopUnroll` | `loopUnrollProg` | `Begin`, `UnrollOne` (one loop), `EndTurns`, `VerifyUnrolled`, `Clean` (one round of removals), `VerifyCleaned` |
| `LoopInduction` | `runIvPass`: discovery, strength reduction, cleanup | `Begin`, `PlanRecurrences` (all uses and conditions), `InsertRecurrence` (one new counter), `EndInsert`, `CleanInduction` (one round of removals); there is no verification to model |
| `Gvn` | `gvnProg` | `Begin`, `EnterBlock` and `LeaveBlock` (the recursion of `visit` with its stack as `route` and the scoped table as `available`), `Rewrite`, `Verify` (with the return to the original) |
| `CopyProp` | `copyPropProg` and `eliminateDeadPureQuadDefs` | `Begin`, `Replace`, `Sweep` (one round of removals), `Verify` |
| `Emitter` | the instructions that are written and a machine that runs them (registers, frame slots, flags; calls forget the caller-saved registers); `Aarch64StackEmitter`, `buildAarch64TraceLayout` and `optimizeAarch64Assembly` for one function | `Begin` (homes and frame), `PlaceBlock` (one block of a trace), `EndLayout`, `EmitNext` (the instructions of one block), `RewriteLines` (a round of the peephole rewriting) |
| `MiddleEnd` | `compileTreeToAarch64` from the analyses to the assembly | the steps of the passes, and the hand-overs `BeginOpt`, `Simplify`, `BeginLoops`, `BeginHoist`, `BeginUnroll`, `BeginCleanup` (propagation and simplification once more behind an unrolled loop), `BeginInduction`, `BeginNumbers`, `BeginCopies`, `EmitOptimized`, `EmitPlain` (no optimization, blocks as they stand) |

`ControlFlow` and `Liveness` establish that the algorithms compute what
`QuadFlow` takes by definition, so that the passes behind start from exact
analyses and their own steps are what is explored.  `ParallelLoop` likewise cuts
the range anywhere, because `ParallelRuntime` shows that each iteration is
executed once wherever the runtime cuts.

`MiddleEnd` extends `SsaConstruction`, `Sccp` and `Simplification` and instances the other
passes; the variables of a pass and the function it works on are handed over by name.
`Induction` holds what the proofs use in place of the induction theorems of the library
(section 5); the modules named `...Proofs` hold the theorems about the module in front.
`QuadFlowProofs` holds no theorem of its own: it has the lemmas about the graph of a function
and about runs that `SccpProofs` and `SsaProofs` both start from.

Definitions whose comment says *Mutation* are not part of the models.  Each is the
definition behind it with one plausible mistake; putting it in that definition's
place makes the run find the property violated (`mutants` in `PROJECT.json`).

## 4. Runs

| Run | Instance | Shows |
|---|---|---|
| `parallel_runtime` | words of 4 bits, threshold 5, costs 0 to 2, every pair of bounds, both helpers | `ExactlyOnce`, `FrameOutlivesThread`, `ReductionExact`; `NearEmptyDirect`: a range that is split has iterations and a cost, or bounds further apart than the word; refinement of `RangeContract`; every call returns |
| `parallel_runtime_far` | as above | `EmptyRangesDirect`, what the notes say, is violated: the difference of the bounds of an empty range wraps to a positive trip count, and a thread is created |
| `parallel_runtime_clobber` | as above, a reduction worker that makes a call with five int arguments | the sum goes astray: the entry keeps the record's address in `x4`, which AAPCS64 lets the worker change |
| `parallel_loop` | words of 6 bits; 2 statements of a catalogue of reads, writes, reductions, scratch scalars, calls, nests; aliased and separate arrays | an accepted loop in two threads computes what it computes in one; no data race; workers mention only what they captured; a started range completes, at the ends of the int range as well |
| `parallel_loop_shifted` | an index `i + j` with `j` local to the body | two workers write one element: the body-local variable counts as coefficient 0 |
| `parallel_loop_scratch` | an inner bound that reads the scratch scalar | the bound is hoisted although the body changes it |
| `function_purity` | three functions with bodies from a catalogue, and all 32,768 call graphs over three functions and a library name | the summaries are the greatest fixed point, in any order of visits; the sweeps end; a pure function, executed with all it calls, touches its own scalars only |
| `control_flow` | 13,440 graphs of 5 blocks and 6 labels, one of them dangling | reachability, dominators, frontiers; the sweeps end |
| `liveness` | functions of 3 blocks for one temp, all edges, five contents for the first block and four for the others | the sweeps end in the least solution, which is path liveness |
| `middle_end` | 1,688 functions in families of 3 to 7 blocks, one parameter and 3 variables, words of 4 bits, 2 arguments, runs of up to 9 blocks, two block orders; two registers for temps and one for phi inputs; unrolling of up to 3 trips; seven functions to call, three of which are inlined | the passes from SSA construction to copy propagation keep the behaviour of the function they started from; the verifier accepts exactly the functions that do not assign to a parameter; no superfluous phi; values cover the runs and only rise; no loop out of canonical form, repeated expression, copy or dead definition is left; the assembly, optimized or not, its blocks laid out or not, does what the first function did and gives the caller its registers back |
| `middle_end_reassigned` | a function whose branches assign one constant or another to its parameter | the cleanup of induction variables removes the second assignment |
| `front_end` | 3,372 programs in families, each built around one thing the stages have to get right, among them programs with one fault each, of those the checker looks for and of those it does not, and programs that only look faulty; and 201 sequences of tokens with one left out, doubled or swapped; words of 8 bits; two inputs; loops bounded by fuel | `ParsedAsWritten`: the parser's tree spells the text; `CheckerExact`: a program that is compiled does nothing the checker is there to refuse, and one that is refused does, but for two kinds of programs (section 6); what no stage looks at is compiled; `StagesInForm`: no statement hides in an expression behind the canonicalizer, and each block, dead ones included, has a label of its own, its exits and nothing behind a jump; `CompiledMeansSource`: quadruples load, store, call and return what the source means |

Why the bounds are enough to be of interest.  Four bits of word have every case
of the split arithmetic: empty, one iteration, odd and even lengths, ends at the
least and greatest word, differences that wrap either way.  Five blocks are the fewest with a loop of two entries
inside a loop and a block behind it, on which the idom iteration needs a second
pass.  One temp is enough for liveness because the equations of different temps
do not meet.  Four blocks have nested loops that share a header, loops of two
entries, a diamond inside a loop, and unreachable blocks; the fifth is a block that a loop
and something else lead to, and what stands behind a counted loop in a loop.  Three
variables have the swap, whose phis must be read together.  Unrolling stops at 3 trips, 3
statements of a body, 6 of all copies and 5 new temps where the code allows 8, 24, 96
and 64: each limit is met and exceeded.  Three statements of a called function, where the
code inlines 16, have two temps alive at once behind each other's definitions.  Counters with an image rise and fall, by a constant and
by a parameter, with the image in front of the step and behind it, and one within
another; their images and the images of their limits do not wrap in four rounds, since
where a limit's image wraps the pass is wrong (section 6).  Two registers for temps where the code has ten, and one
for phi inputs where it has four, make functions of this size have temps of both
kinds of home and phi inputs in both kinds of scratch cell.  Half a word counts to 4,
so that constants with a lower half of zero are compared with.  Nine blocks of a run go round a loop of
two blocks four times, twice more than a value needs to pass through two phis.

Fairness.  The two threads of a program are each scheduled fairly (`WF` of the
caller's and of the helper's steps): the operating system runs both, and no step of
one disables the other's.  Compiler passes are one sequential process, which runs
while it has a step (`WF_vars(Next)`; for `FunctionPurity`, where the functions are called afterwards,
`WF_vars(Summarize)`: nothing is asked of the calls).  `middle_end` states no liveness: that
its passes end is `ValuesRise` over a finite lattice for the propagation, the
finite dominator tree for the renaming and the numbering, a shrinking function for the cleanups and
a shrinking set of blocks for the layout.

No run turns the deadlock check off: a model that has finished stutters explicitly,
so that any other stop is reported.

## 5. Theorems

| Module | Theorem | Property | Argument |
|---|---|---|---|
| `ParallelRuntimeProofs` | `TypeCorrect` | `TypeOK` | inductive as it stands |
| | `RangesInvariant` | `IInv` | the chunk bounds, where each thread stands and how often each iteration was executed, by position of the two program counters |
| | `ExecutesExactlyOnce`, `DisjointChunks`, `FrameSafe`, `EmptyStaysDirect` | the invariants of the run (the last is `NearEmptyDirect`) | from `IInv` |
| | `ReductionsExact` | `ReductionExact`, of workers that leave `x4` alone | sums as differences of prefix sums, which telescope over adjacent chunks |
| | `RuntimeImplementsContract` | `ImplementsContract` | every step maps to a step of `RangeContract` or a stutter |
| `PurityFixpointProofs` | `PurityTypes`, `ClosedSetsKept`, `PureReachesPure` | `TypeOK`, `ClosedSetsStayPure`, `NothingImpureReached` | a set closed under calls never loses its first member; a sweep without a change has seen every function.  Of `FixpointSpec`, the sweeps over any call graph |
| `ControlFlowProofs` | `Types` | `TypeOK` | with what the walk over the order knows |
| | `EliminationExact` | `LeastClosed` | the visited blocks are inside every closed set, and closed once the worklist is empty |
| | `ReversePostorder` | `OrderExact` (no run) | the walk: every visited block is once on the stack or once in the postorder, and what it has left leads to visited blocks only |
| | `Dominance` | `DominatorsExact` | see *Dominators* below |
| | `Frontiers` | `FrontiersExact` | the runner from a predecessor takes exactly the predecessor's dominators below the dominator of the block |
| `LivenessProofs` | `LivenessTypes`, `StopsSolved`, `LeastSolution` | `TypeOK`, `StopsAtSolution`, `BelowSolutions` | the flag of the sweep is set unless the equations of the blocks behind it hold; each update stays below any solution |
| | `LivenessIsPaths` | `LivenessExact` | what a path needs is itself a solution, and is below every solution |
| `SccpProofs` | `SweepsInvariant` | `SweepInv` | see *Propagation* below |
| | `Rising` | `ValuesRise` | each statement moves what is known up in the lattice |
| | `Covering` | `ValuesCover`, of functions whose runs compute with words and read what was assigned | a run is followed statement by statement through settled blocks |
| | `VerifiedReads` | `ReadsAssigned` for runs of every length | what `verifySsaFunction` accepts reads nothing unassigned: a run carries the definitions of all blocks that dominate the block it is in |
| | `VerifiedCovering` | `ValuesCover`, of functions the verifier accepts | from the two above |
| | `PropagationKeepsRuns` | `Propagated`: `RunsAlike`, of functions the verifier accepts, for all inputs and runs of every length | see *Propagation, two runs* below |
| `SsaProofs` | `ConversionInvariant` | `SsaInv` | see *Renaming* below |
| | `ConversionTypeCorrect` | `TypeOK` | from `SsaInv` |
| | `ConversionNeedsEveryPhi` | `EveryPhiMatters` | a phi is placed where its variable is live; along the way to the read, each phi that takes the value over is live as well |
| | `ConversionVerified` | `VerifierAccepts` | the definition a read was renamed to is above it on the dominator tree; a parameter that is assigned to keeps its name, and has two definitions |
| | `ConversionKeepsRuns` | `KeepsRuns`, for all inputs and runs of every length | see *Two runs* below |

Why inductive invariants are needed: `ExactlyOnce`, for one, speaks of finished calls
only.  `IInv` says at each point which iterations are behind the two induction
variables, so that what a thread has executed when it finishes is its chunk.

Induction.  The library's induction theorems take an operator as a parameter, which the
installed provers cannot instantiate.  `Induction` states what stands in for them about
sets and functions instead: a set of natural numbers that is not empty has a least element
(and a greatest, if it is bounded), so that one argues about the first place where a claim
fails; a recursive function over `Nat` is what its equation says; and the rounds of a set
that only grows inside a finite set end in one that a further round leaves alone, which is
how "some path leads there" is the least closed set.

Dominators.  `TreeInv`: each block but the entry has a predecessor in front of it in the
reverse postorder.  `IdomInv`: the candidates of a block lead strictly down that order to the
entry (`intersect` therefore ends, and ends where two chains meet), a chain never loses a
block that all paths pass, and while a sweep has changed nothing, each block it has seen
has the candidate that its predecessors give it.  Upwards, a block that all paths pass stays on
the chain; downwards, in a sweep without change the chain of a block is inside the chain of
each of its predecessors, so that by the least counterexample along a path nothing else is on it.  TLC
found both invariants to hold on `control_flow` before they were proved.

Propagation.  `StatementRaises`: a statement takes what is known to something above it, with
the values of `RtValue` in a lattice of height two (`Lattice`).  A sweep that ends with what it began with has
therefore, since the order is antisymmetric, changed nothing at any of its statements:
each statement of an executable block is *settled*, that is, its value is among those of
its temp and the blocks it leads to are executable.  Then a run is covered by induction on its steps, in
which the phis of a block are read together and by the edge that was taken.  The
argument needs runs whose arguments, loads and calls yield words, since what an input answers is not
restricted, and runs that read nothing unassigned, since a temp that no statement has
reached has no value at all.  `VerifiedReads` derives the latter from the verifier, which
is what runs in front of the pass.  Both, with `WellFormed`, are part of `MiddleTypeOK`, so that `middle_end` shows that
the propagation meets them of every function it is given; `WellFormed` has no phi in the entry block,
since `lowerFunction` begins with a label nothing jumps to (`lower_tree.cc:878`).

Propagation, two runs.  `Tracks` relates the run of the function that `modifyFunc` builds to that of the
function it is built from, behind the first statements of a block and behind what has become of them: the
traces are equal, and a temp holds the same in both unless its value is known (its definition is
gone, and each use of it is now the constant), or it belongs to a phi that one edge was left
to, which is now a move further down in the block (`Awaits`): then what that move reads has the
phi's value already (`SameAwaited`).  `BlockKept` takes this through the pieces
that the statements of a block became, the moves of fresh temps in front of the jump included;
`EdgeKept` over an executable edge, where the arguments of the phis that remain hold what the arguments of the old
ones held, whether a fresh temp stands for a constant or not.  That a phi has become a
move is harmless only if the block does not assign what the move reads (`Sourced`).  In SSA form that is so
unless the block dominates the only block that leads to it; but such a block is never entered
(`Off`: a run comes into every block by a way that avoids those).  The theorem asks that the function's
temps are numbered up to `last_temp_num` (`Numbered`, which `MiddleTypeOK` checks too), since the fresh ones
are numbered from there.  Of a function with a parameter that is assigned to, which the verifier
refuses and the pass takes all the same, nothing is proved; `middle_end_reassigned` runs such functions.

Renaming.  `Placed` says what placing phis makes of the source: in front of each block one phi
for each variable of which the block is in the iterated frontier of the definitions and which is live
into it, and nothing else.  Since a variable's definitions include its phis, such a function
has for each read a *nearest* definition (`Nearest`, `ReadDefined`): the one that dominates the read and
is dominated by every other definition of the variable that does.  `Follows` relates the renamed function to the placed one: each definition in
the blocks that have been visited has a number of its own above the source's, each read there carries
the number of its nearest definition, and a phi carries, for each predecessor that was
visited, the number of the nearest definition at that predecessor's end.  `Holds` says of the
stacks that the top for each variable is the nearest definition's number at the place where the walk is; and `Walk` says the
same of each activation of the recursion, for the blocks below it that wait (`Open`).  `VisitStep` takes all
of this across one block; `WalkDown` and `WalkUp` take it down to a child and back up.
`EnterBlockInv` and `LeaveBlockInv` are then the two steps that carry the invariant.  That the walk
visits each block once is `ChildrenApart`: the subtrees of two children have no
block in common.  `SsaInv` says with \E that there is such a placed function, over no bounded
set, so that TLC checks what follows from it and not the invariant itself.

Two runs.  `Beside` relates a configuration of the source to one of the result in the same block, in front of
the same statement: the traces are equal, parameters have the same values, and for each variable
that is defined in front of the statement or live into the block, the nearest definition's number in the result has the value that the
variable has in the source.  `BesideBlock` goes
through a block, `BesideEdge` over an edge: the phis take over at once what their arguments had,
and a variable that is live and has no phi has the same nearest definition on both sides.  Therefore the
two runs are in the same place after each number of blocks, with the same trace.  `KeepsRuns`
is about every input and length, and therefore proved only; `PassesPreserve` compares runs of the
bounded length and inputs of the instance, through all passes.

Assumptions.  The theorems about SSA construction assume of each function `Convertible`: what the
lowering makes of a source function.  It is well-formed, with a fresh entry block, as above; it
has no phis, its labels and temps are numbers, its parameters differ (they may be assigned to), and
no other variable is read before it is assigned, since a local without an initializer is set to zero
(`lower_tree.cc:1014`).  Were one read before, the read might have no definition above it, and the
renaming would leave it the source's name.  TLC evaluates the assumption on the functions of
`middle_end` and `middle_end_reassigned`.

The theorems about ranges assume nothing of the ranges: `begin` and `end` are any two words.  A
range that is empty, but whose bounds are so far apart that their difference wraps to a
positive trip count (`FarApart`), is split, and its halves run from `begin` to a point in the middle and from there to
`end`, each as far as it goes (section 6).  `ExactlyOnce` says of such a range that it runs no iteration twice and none
from `end` up to `begin`, `NearEmptyDirect` that it is the only kind of empty range that is split, and `RangeContract`
leaves it open which of those iterations are run and what is returned.  `ReductionsExact` assumes that no reduction
worker writes `x4` (`"reduce"` not in `Clobbers`), which `parallel_runtime_clobber` shows to
be necessary; where one does, `RangeContract` promises no sum, so that the refinement needs no such
assumption.  The others hold under the named
assumptions on the constants, which TLC evaluates in each run: those of liveness
type the statements of each program as well, and those of the propagation ask for words of
some width, runs of some length and nothing else.

Model-checked only.  Liveness (`CallReturns`, `RangeCompletes`, `SweepsEnd`, `Converges`):
fairness and ENABLED are beyond the prover.  `PassesPreserve`, `PassesKeepSsa`,
`NothingLeftOver` and `EmissionImplements` of `MiddleEnd` (beyond SSA construction and the propagation), and the properties of `ParallelLoop`, `FunctionPurity` and
`FrontEnd`, compare the runs of two programs, which the models compute by folds over statements and by `RECURSIVE` operators
over trees and instructions; a module that holds theorems can reach none of the latter.

## 6. Disagreements found

`findings` in `PROJECT.json` quotes the text each contradicts.

* A reduction entry keeps its record in the caller-saved `x4` across the worker
  (`backend_driver.cc:1883`).
* A range helper subtracts its bounds in 32 bits, so that an empty range whose bounds are
  further apart than the word has a positive trip count and is split
  (`backend_driver.cc:1903`); the lowering calls it with whatever bounds the loop has
  (`lower_tree.cc:1570`, `:1577`).
  `contest-docs/parallelization-implementation-notes.md:145` has empty ranges take the direct path.
* The cleanup of induction variables keeps what something visible depends on, but its
  chain of definitions knows only the first definition of a temp
  (`loopinductionelimination.cc:82`, `defusechain.cc:87`).  A parameter that is assigned
  to keeps several definitions; the compiler built from this source returns 1 from
  `int f(int n) { if (n > 5) n = 5; else n = 7; return n; }` and 1.
* An index through a body-local variable counts as a partition by the loop
  variable (`parallel_plan.cc:277`).
* A bound that reads the privatized scratch scalar passes the check for scalars that
  the loop modifies (`parallel_plan.cc:1543`).

Four more, each with a family of `MCMiddleEnd` that the run leaves out, put in the place of
`Functions` by hand, and each shown by the compiler built from this source at its highest
level as well:

* `ReassignedInLoop`: hoisting does not ask whether a function is in SSA form either, so that
  a division that is assigned to a parameter in a loop moves in front of the loop and of the
  test that reads the parameter (`loophoistfunc.cc:111`).  `int f(int p) { int x = 0; int y =
  p; while (x < p) { x = x + 1; p = 2 / y; } return p; }` returns -2 for -1.
* `Chained`: whether an image of a counter is calculated behind the counter's step is judged
  by the place of its last operation (`loopstrengthreduction.cc:571`), which
  `loopinductionbasic.cc:119` calls enough; of `int a = i * 2; i = i + 1; a = a + 1;` the
  first operation is not.
* `Crowded`: the copy of the step that goes in front of the loop can get the number of the
  new counter, which is not yet among those in use (`loopstrengthreduction.cc:619`).
  `while (i < 100) { int s = n * 2; putint(i * 4); i = i + s; }` does not end.
* A limit whose image wraps (`loopstrengthreduction.cc:407`): the loop of `i < 1000000000`
  that uses `4 * i` is not entered, since it compares with the image of the limit.  Any of the
  families of `ManyInductions` shows it with a limit near the end of the word.

The pass may also leave a function that is not in SSA form: a dead phi that reads itself is
kept while the definition of its other operand goes (`loopinductionelimination.cc:96`).
Nothing behind it is harmed in the model, since value numbering and copy propagation leave such
a function alone; hence `PassesKeepSsa` speaks of the other passes.

What `front_end` shows of the checker.  `CheckerExact` names what the checker refuses and has no
reason to, and `Overlook` of `SysySemantics` what it lets through, which the run's families contain and the model
compiles.  The references are to `contest-docs/SysY2022语言定义-V1.md`.

* A hexadecimal literal with the digit E has type float for the checker
  (`semantics.cc:368`), though not for the lowering (`lower_tree.cc:47`): it is refused
  as an operand of `%`, as an index and as a length (`Misread`).
* The dimensions of an array are looked at when its name is declared already
  (`semantics.cc:209`), so that `int k[k + 1]` is refused where `k` is a constant outside (`HidesItself`);
  line 294 has the scope begin at the definition.
* Initializers are not held against the type they are for (`semantics.cc:205`): an array or no value for a
  scalar, and one value for a whole array, which is `a[4] = 4` of line 262, that the language excludes.
* Conditions (`:327`, `:334`), returned values (`:356`) and operands but those of `%` (`:433`) may be
  arrays or no value at all; line 309 has expressions be `int` or `float`.
* A whole array may be assigned (`:491`), rows of another length than the parameter's may be passed
  (`:504`), where line 311 has the types match, and `main` may have parameters (`:227`), where
  line 214 has it have none.

Where the document and C differ or the document is silent, `SysySemantics` goes by C: a float in the braces of an int array is
converted, which line 232 rules out, and in `int x = x + 1` the new `x` is read before it has a value.

Observations that no run shows.  Folding the least int divided by -1 stops the compiler
(`opt.cc:61`, `lower_tree.cc:193`), which `algebrasimp.cc:113` avoids.  `-0.0` is true as a condition, since
conditions test the bits.

Observations that are no disagreement.  The propagation is not the most precise
one: a phi that meets an edge whose source has not been evaluated yet counts as
variable.  Value numbering and copy propagation do nothing
for a function that assigns to one of its parameters.  `findNaturalLoopInfo` starts its search at the tail of
a back edge, so that the loop of a block that jumps to itself takes in whatever leads
to it; for the layout, which only orders blocks by it, this is harmless.
Specialization, which is off by default, never replaces a call: it looks its function up
under a name without the `$spec` it was given (`funcspec.cc:101`, `:307`).

## 7. Not modelled

* Specialization and memory forwarding are off unless
  `SYSY_EXPERIMENTAL_PASSES` names them (`backend_driver.cc:315`).  The functions that are called in
  `middle_end` are themselves not compiled: they stand for what the passes in
  front of inlining left of them, and every other function of the run is compiled alone.
* The optimization modes between none and all, which run a part of the same passes.
* Lexing, string literals, `putf`, the timing functions.
* Within what is modelled: diagnostics, JSON and printing; in the planner and the
  passes behind SSA `float` is an opaque word; in `QuadIR` remainder and pointer
  arithmetic; the bytes of the context struct;
  in the emitter arguments beyond the eighth, calls of `exit` and of formatted output,
  the choice of addressing form by distance, and the peephole patterns that only
  addresses and pointers form.
* In `front_end` the families leave out `-0.0` as a condition, arrays of no elements, the assignment of
  a row or of a global array as a whole, and faults on paths that are not taken, which the reference, being an
  interpreter, does not meet.
* The vendored runtime library, and the driver except for the order of its stages.
