--------------------------- MODULE PurityFixpoint ---------------------------
(***************************************************************************)
(* The interprocedural part of summarizeParallelScalarFunctions: which     *)
(* user functions may be called from a parallel loop.  Every function      *)
(* whose own text is pure starts as pure; sweeps over all functions then   *)
(* withdraw purity from one that calls an impure or unknown name, until a  *)
(* sweep changes nothing.  The functions are kept in an unordered_map, so  *)
(* the order inside a sweep is arbitrary, and a function visited early may *)
(* have to wait for the next sweep.                                        *)
(***************************************************************************)
CONSTANTS
  Functions,   \* the functions the program defines
  Names        \* every name a call may mention, library functions included

ASSUME FunctionsAssumption == Functions \subseteq Names

VARIABLES
  candidates,  \* what the scan of each function's text found
  pure,        \* the functions summarized as pure so far
  pending,     \* the functions this sweep has not visited
  changed,     \* has this sweep withdrawn purity from a function
  phase        \* "sweep", then "done"

fixpointVars == <<candidates, pure, pending, changed, phase>>

Candidates == [Functions -> [structurallyPure : BOOLEAN, callees : SUBSET Names]]

StructurallyPure == {f \in Functions : candidates[f].structurallyPure}

Calls(f) == candidates[f].callees

\* Mutation: the summaries start pure whatever the text of the function is.
EagerFixpointInit ==
  /\ candidates \in Candidates
  /\ pure = Functions
  /\ pending = {}
  /\ changed = TRUE
  /\ phase = "sweep"

FixpointInit ==
  /\ candidates \in Candidates
  /\ pure = StructurallyPure
  /\ pending = {}
  /\ changed = TRUE
  /\ phase = "sweep"

StartSweep ==
  /\ phase = "sweep"
  /\ pending = {}
  /\ changed
  /\ pending' = Functions
  /\ changed' = FALSE
  /\ UNCHANGED <<candidates, pure, phase>>

\* Mutation: every visit of a pure function counts as a change.
NoisyKeep(f) ==
  /\ f \in pending
  /\ f \in pure => Calls(f) \subseteq pure
  /\ pending' = pending \ {f}
  /\ changed' = (changed \/ f \in pure)
  /\ UNCHANGED <<candidates, pure, phase>>

Keep(f) ==
  /\ f \in pending
  /\ f \in pure => Calls(f) \subseteq pure
  /\ pending' = pending \ {f}
  /\ UNCHANGED <<candidates, pure, changed, phase>>

\* Mutation: the sweep does not note that it changed a summary.
SilentWithdraw(f) ==
  /\ f \in pending
  /\ f \in pure
  /\ ~ (Calls(f) \subseteq pure)
  /\ pure' = pure \ {f}
  /\ pending' = pending \ {f}
  /\ UNCHANGED <<candidates, changed, phase>>

\* Mutation: only functions this sweep has settled count as pure callees.
PessimisticWithdraw(f) ==
  /\ f \in pending
  /\ f \in pure
  /\ ~ (Calls(f) \subseteq pure \ pending)
  /\ pure' = pure \ {f}
  /\ changed' = TRUE
  /\ pending' = pending \ {f}
  /\ UNCHANGED <<candidates, phase>>

Withdraw(f) ==
  /\ f \in pending
  /\ f \in pure
  /\ ~ (Calls(f) \subseteq pure)
  /\ pure' = pure \ {f}
  /\ changed' = TRUE
  /\ pending' = pending \ {f}
  /\ UNCHANGED <<candidates, phase>>

Stop ==
  /\ phase = "sweep"
  /\ pending = {}
  /\ ~changed
  /\ phase' = "done"
  /\ UNCHANGED <<candidates, pure, pending, changed>>

FixpointNext ==
  \/ StartSweep
  \/ \E f \in Functions : Keep(f) \/ Withdraw(f)
  \/ Stop

FixpointSpec == FixpointInit /\ [][FixpointNext]_fixpointVars

-----------------------------------------------------------------------------
(* Properties.                                                             *)

\* The type invariant.
TypeOK ==
  /\ candidates \in Candidates
  /\ pure \subseteq StructurallyPure
  /\ pending \subseteq Functions
  /\ changed \in BOOLEAN
  /\ phase \in {"sweep", "done"}

\* A set of textually pure functions that only call each other.
Closed(S) == S \subseteq StructurallyPure /\ \A f \in S : Calls(f) \subseteq S

\* Nothing that could be called pure is ever given up: each closed set, a
\* recursive function or a cycle of functions included, stays pure in every
\* order of the visits.
ClosedSetsStayPure == \A S \in SUBSET Functions : Closed(S) => S \subseteq pure

\* While a sweep has changed nothing, the functions it has visited only
\* call functions that are still pure.
SweepInv == (~changed \/ phase = "done") =>
              \A f \in pure \ pending : Calls(f) \subseteq pure

\* The inductive invariant.
IInv == TypeOK /\ SweepInv /\ (phase = "done" => pending = {})

\* The names some chain of calls from f mentions: the least set that holds
\* what f calls and what its functions call.
ReachableFrom(f) ==
  {n \in Names :
     \A S \in SUBSET Names :
       Calls(f) \subseteq S /\ (\A g \in S \cap Functions : Calls(g) \subseteq S)
         => n \in S}

\* No chain of calls from a pure function reaches a library function or one
\* whose text is impure.  The chain is read off the call graph, not off the
\* summaries.
NothingImpureReached ==
  phase = "done" => \A f \in pure : ReachableFrom(f) \subseteq StructurallyPure

\* Purity is only withdrawn, at most once a function, and a sweep that
\* withdraws nothing is the last: the sweeps come to an end.
SweepsEnd == <>(phase = "done")

=============================================================================
