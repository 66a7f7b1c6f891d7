------------------------ MODULE PurityFixpointProofs ------------------------
(***************************************************************************)
(* What PurityFixpoint computes, for every set of functions and every call *)
(* graph: a fixed point that keeps every closed set of pure functions and  *)
(* from which no chain of calls leads to an impure name.                   *)
(***************************************************************************)
EXTENDS PurityFixpoint, TLAPS

LEMMA InitInv == FixpointInit => IInv
BY DEF FixpointInit, IInv, TypeOK, SweepInv, StructurallyPure

LEMMA CallsType == ASSUME TypeOK, NEW f \in Functions PROVE Calls(f) \subseteq Names
BY DEF TypeOK, Candidates, Calls

LEMMA StepInv == IInv /\ [FixpointNext]_fixpointVars => IInv'
<1> SUFFICES ASSUME IInv, [FixpointNext]_fixpointVars PROVE IInv'
    OBVIOUS
<1> USE DEF IInv, TypeOK, SweepInv, StructurallyPure, Calls
<1>1. CASE StartSweep
      BY <1>1 DEF StartSweep
<1>2. ASSUME NEW f \in Functions, Keep(f) PROVE IInv'
      BY <1>2 DEF Keep
<1>3. ASSUME NEW f \in Functions, Withdraw(f) PROVE IInv'
      BY <1>3 DEF Withdraw
<1>4. CASE Stop
      BY <1>4 DEF Stop
<1>5. CASE UNCHANGED fixpointVars
      BY <1>5 DEF fixpointVars
<1> QED
    BY <1>1, <1>2, <1>3, <1>4, <1>5 DEF FixpointNext

LEMMA Invariant == FixpointSpec => []IInv
BY InitInv, StepInv, PTL DEF FixpointSpec

\* The type invariant of the analysis.
THEOREM PurityTypes == FixpointSpec => []TypeOK
<1>1. IInv => TypeOK
      BY DEF IInv
<1> QED
    BY <1>1, Invariant, PTL

LEMMA ClosedInit == FixpointInit => ClosedSetsStayPure
BY DEF FixpointInit, ClosedSetsStayPure, Closed, StructurallyPure

LEMMA ClosedStep == TypeOK /\ ClosedSetsStayPure /\ [FixpointNext]_fixpointVars => ClosedSetsStayPure'
<1> SUFFICES ASSUME TypeOK, ClosedSetsStayPure, [FixpointNext]_fixpointVars,
                    NEW S \in SUBSET Functions, Closed(S)'
             PROVE  S \subseteq pure'
    BY DEF ClosedSetsStayPure
<1>1. UNCHANGED candidates
      BY DEF FixpointNext, StartSweep, Keep, Withdraw, Stop, fixpointVars
<1>2. Closed(S) /\ S \subseteq pure
      BY <1>1 DEF Closed, StructurallyPure, Calls, ClosedSetsStayPure
<1>3. ASSUME NEW f \in Functions, Withdraw(f) PROVE S \subseteq pure'
  \* a function of a closed set only calls functions of the set
  <2>1. f \notin S
        BY <1>2, <1>3 DEF Withdraw, Closed
  <2> QED
      BY <1>2, <1>3, <2>1 DEF Withdraw
<1>4. CASE \A f \in Functions : ~Withdraw(f)
      BY <1>2, <1>4 DEF FixpointNext, StartSweep, Keep, Stop, fixpointVars
<1> QED
    BY <1>3, <1>4

\* In whatever order the functions are visited, no closed set of textually
\* pure functions loses a member: recursion alone never costs purity.
THEOREM ClosedSetsKept == FixpointSpec => []ClosedSetsStayPure
BY ClosedInit, ClosedStep, PurityTypes, PTL DEF FixpointSpec

\* When the sweeps have stopped, no chain of calls from a function summarized
\* as pure mentions a name that is impure or unknown.
THEOREM PureReachesPure == FixpointSpec => []NothingImpureReached
<1>1. ASSUME IInv PROVE NothingImpureReached
  <2> SUFFICES ASSUME phase = "done", NEW f \in pure, NEW n \in ReachableFrom(f)
               PROVE  n \in StructurallyPure
      BY DEF NothingImpureReached
  <2>1. pure \subseteq StructurallyPure /\ pure \in SUBSET Names
        BY <1>1, FunctionsAssumption DEF IInv, TypeOK, StructurallyPure
  <2>2. \A g \in pure : Calls(g) \subseteq pure
        BY <1>1 DEF IInv, SweepInv
  <2>3. n \in pure
        BY <2>1, <2>2 DEF ReachableFrom
  <2> QED
      BY <2>1, <2>3
<1> QED
    BY <1>1, Invariant, PTL

=============================================================================
