-------------------------- MODULE SsaConstruction --------------------------
(***************************************************************************)
(* quad2ssa for one function: phis at the iterated dominance frontier of   *)
(* the definitions where the variable is live (placePhi), one walk down    *)
(* the dominator tree that gives every definition a temp of its own        *)
(* (renameBlock), and the removal of phis nobody reads (cleanupUnusedPhi). *)
(*                                                                         *)
(* Parameters keep their temp, reassigned or not, so a function that       *)
(* assigns to one is not in SSA form afterwards; the passes behind test    *)
(* for that with verifySsaFunction and leave such a function alone.        *)
(***************************************************************************)
EXTENDS QuadFlow

CONSTANT Functions  \* the functions to convert

Defined(f) == UNION {Defs(s) : s \in Statements(f)}

\* What Tree2Quad makes of a lowered function: no phis yet, labels and temps are
\* numbers, lastTemp is none of a smaller number than a parameter's, and nothing but
\* parameters is live into the entry, since lowering initializes every local.
Convertible(f) ==
  LET g == EliminateUnreachable(f)
  IN /\ f = Function(f.params, f.order, f.code, f.lastTemp)
     /\ WellFormed(f)
     /\ \A s \in Statements(f) : s = Stm(s.kind, s.dst, s.op, s.src, s.labels) /\ ~IsPhi(s)
     /\ Blocks(f) \cup Defined(f) \cup Params(f) \cup {f.lastTemp} \subseteq Nat
     /\ IsInjective(f.params)
     /\ \A t \in Params(f) : t <= f.lastTemp
     /\ LiveIn(g, FlowOf(g))[Entry(g)] \subseteq Params(f)

ASSUME SsaAssumption == \A f \in Functions : Convertible(f)

VARIABLES
  source,   \* the function before the conversion
  flow,     \* its flow and what is live in it, never recomputed
  phase,    \* "place", "rename", "clean", "done"; "taken" by the next pass
  func,     \* the function as it stands
  toPlace,  \* the variables placePhi has still to look at
  path,     \* the activations of renameBlock, outermost first
  stacks,   \* for each variable the temps of its versions in scope
  nextTemp  \* the number of the next version's temp

ssaVars == <<source, flow, phase, func, toPlace, path, stacks, nextTemp>>

\* The variables that are renamed.
Renamed(f) == Defined(f) \ Params(f)

Init ==
  /\ source \in {EliminateUnreachable(f) : f \in Functions}
  /\ flow = LET given == FlowOf(source)
            IN [succ |-> given.succ, pred |-> given.pred, dom |-> given.dom,
                liveIn |-> LiveIn(source, given)]
  /\ phase = "place"
  /\ func = source
  /\ toPlace = Defined(source)
  /\ path = <<>>
  /\ stacks = [v \in Renamed(source) |-> <<>>]
  /\ nextTemp = source.lastTemp + 1

-----------------------------------------------------------------------------
\* placePhi.

DefBlocks(v) == {b \in Blocks(source) : \E s \in ToSet(source.code[b]) : s.dst = v}

\* Mutation: the new definition that a phi is does not call for more phis.
DirectPhiBlocks(v) ==
  {c \in UNION {Frontier(flow, b) : b \in DefBlocks(v)} : v \in flow.liveIn[c]}

\* Mutation: phis are not pruned.
UnprunedPhiBlocks(v) ==
  LET Grow(S) == S \cup UNION {Frontier(flow, b) : b \in DefBlocks(v) \cup S}
  IN Rounds(Len(source.order), Grow, {})

\* The worklist ends with the least set of blocks that contains the frontier
\* of each defining block and of each of its own, where v is live.
PhiBlocks(v) ==
  LET Grow(S) ==
        S \cup {c \in UNION {Frontier(flow, b) : b \in DefBlocks(v) \cup S} :
                  v \in flow.liveIn[c]}
  IN Rounds(Cardinality(Blocks(source)), Grow, {})

\* A phi of v with one argument per predecessor, in the order of the labels.
NewPhi(v, b) ==
  LET preds == Ascending(flow.pred[b])
  IN Phi(v, [i \in DOMAIN preds |-> Temp(v)], preds)

PlacePhi ==
  /\ phase = "place"
  /\ toPlace # {}
  /\ LET v == Min(toPlace) IN
       /\ func' = [func EXCEPT !.code =
                     [b \in DOMAIN @ |->
                        IF b \in PhiBlocks(v) THEN <<NewPhi(v, b)>> \o @[b] ELSE @[b]]]
       /\ toPlace' = toPlace \ {v}
  /\ UNCHANGED <<source, flow, phase, path, stacks, nextTemp>>

-----------------------------------------------------------------------------
\* renameVariables.

\* A variable without a version in scope stays as it is.
VersionUse(st, term) ==
  IF IsTemp(term) /\ term.temp \in DOMAIN st /\ st[term.temp] # <<>>
  THEN Temp(Last(st[term.temp]))
  ELSE term

\* The uses of a statement are renamed before its definition, the arguments
\* of a phi from its predecessors.
RenameStatement(acc, s) ==
  [s EXCEPT !.src = IF IsPhi(s) THEN @ ELSE [i \in DOMAIN @ |-> VersionUse(acc.stacks, @[i])],
            !.dst = IF @ \in DOMAIN acc.stacks THEN acc.next ELSE @]

\* A definition pushes the version it is given.
PushVersion(acc, s) ==
  IF s.dst \in DOMAIN acc.stacks
  THEN [stacks |-> [acc.stacks EXCEPT ![s.dst] = Append(@, acc.next)], next |-> acc.next + 1]
  ELSE acc

\* The stacks and the next number behind the first i statements, for each i.
Versions(acc, code) ==
  LET behind[i \in 0 .. Len(code)] ==
        IF i = 0 THEN acc ELSE PushVersion(behind[i - 1], code[i])
  IN behind

\* The arguments of a phi that belong to the edge from b.
RenameArguments(st, b, s) ==
  IF IsPhi(s)
  THEN [s EXCEPT !.src = [i \in DOMAIN @ |->
                            IF s.labels[i] = b THEN VersionUse(st, @[i]) ELSE @[i]]]
  ELSE s

Visiting == IF path = <<>> THEN {Entry(source)} ELSE Last(path).rest

\* renameBlock up to its first recursive call.
EnterBlock ==
  /\ phase = "rename"
  /\ Visiting # {}
  /\ LET b == Min(Visiting)
         old == func.code[b]
         behind == Versions([stacks |-> stacks, next |-> nextTemp], old)
         end == behind[Len(old)]
         code == [func.code EXCEPT ![b] =
                    [i \in DOMAIN old |-> RenameStatement(behind[i - 1], old[i])]]
         outer == IF path = <<>> THEN <<>>
                  ELSE [path EXCEPT ![Len(path)].rest = @ \ {b}]
     IN /\ func' = [func EXCEPT !.code =
                      [c \in DOMAIN code |->
                         IF c \in flow.succ[b]
                         THEN [i \in DOMAIN code[c] |->
                                 RenameArguments(end.stacks, b, code[c][i])]
                         ELSE code[c]]]
        /\ stacks' = end.stacks
        /\ nextTemp' = end.next
        /\ path' = Append(outer, [block |-> b, rest |-> Children(flow, b), outside |-> stacks])
  /\ UNCHANGED <<source, flow, phase, toPlace>>

\* Mutation: the version counter is rolled back with the stacks.
ForgetfulLeaveBlock ==
  /\ phase = "rename"
  /\ path # <<>>
  /\ Visiting = {}
  /\ stacks' = Last(path).outside
  /\ nextTemp' = Max({source.lastTemp + 1, nextTemp - 1})
  /\ path' = Front(path)
  /\ phase' = IF Len(path) = 1 THEN "clean" ELSE phase
  /\ func' = IF Len(path) = 1 THEN [func EXCEPT !.lastTemp = Max({@, nextTemp - 1})] ELSE func
  /\ UNCHANGED <<source, flow, toPlace>>

\* The return of renameBlock: what it pushed is popped.
LeaveBlock ==
  /\ phase = "rename"
  /\ path # <<>>
  /\ Visiting = {}
  /\ stacks' = Last(path).outside
  /\ path' = Front(path)
  /\ phase' = IF Len(path) = 1 THEN "clean" ELSE phase
  /\ func' = IF Len(path) = 1 THEN [func EXCEPT !.lastTemp = Max({@, nextTemp - 1})] ELSE func
  /\ UNCHANGED <<source, flow, toPlace, nextTemp>>

StartRename ==
  /\ phase = "place"
  /\ toPlace = {}
  /\ phase' = "rename"
  /\ UNCHANGED <<source, flow, func, toPlace, path, stacks, nextTemp>>

-----------------------------------------------------------------------------
\* One sweep of cleanupUnusedPhi.

ReadByOthers(f) ==
  UNION {IF IsPhi(s) THEN Uses(s) \ Defs(s) ELSE Uses(s) : s \in Statements(f)}

Cleanup ==
  /\ phase = "clean"
  /\ LET used == ReadByOthers(func)
         kept == {s \in Statements(func) : IsPhi(s) => s.dst \in used}
     IN func' = [func EXCEPT !.code = [b \in DOMAIN @ |-> Only(@[b], kept)]]
  /\ phase' = IF func' = func THEN "done" ELSE phase
  /\ UNCHANGED <<source, flow, toPlace, path, stacks, nextTemp>>

Finished == phase = "done" /\ UNCHANGED ssaVars

Next == PlacePhi \/ StartRename \/ EnterBlock \/ LeaveBlock \/ Cleanup \/ Finished

Spec == Init /\ [][Next]_ssaVars

-----------------------------------------------------------------------------
\* Types; the versions in scope are temps that were handed out, above those of
\* the source.
TypeOK ==
  /\ phase \in {"place", "rename", "clean", "done", "taken"}
  /\ toPlace \subseteq Defined(source)
  /\ \A v \in DOMAIN stacks : ToSet(stacks[v]) \subseteq source.lastTemp + 1 .. nextTemp - 1
  /\ Blocks(func) = Blocks(source)

\* The passes behind the conversion test a function with verifySsaFunction and
\* skip it if it fails.  The conversion gives them every function (one
\* definition per temp, which dominates each use and reaches each phi argument
\* over its edge) except those that assign to a parameter.
VerifierAccepts ==
  phase = "done" => (VerifySsa(func, flow) <=> Defined(source) \cap Params(source) = {})

\* The statements that are no phis, and the phis whose value reaches one.
Needed(f) ==
  LET S == Statements(f)
      Grow(N) == N \cup {s \in S : IsPhi(s) /\ \E u \in N : s.dst \in Uses(u)}
  IN Rounds(Cardinality(S), Grow, {s \in S : ~IsPhi(s)})

\* No phi is there for nothing: the value of each reaches, perhaps through
\* other phis, a statement that reads it.  Cycles of phis that only read each
\* other, which cleanupUnusedPhi could not remove, are never built.
EveryPhiMatters ==
  phase = "done" => Statements(func) \subseteq Needed(func)

=============================================================================
