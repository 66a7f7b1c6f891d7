--------------------------- MODULE RangeContract ---------------------------
(***************************************************************************)
(* What a call of the parallel range helpers promises to the code that the *)
(* lowering generates around it, without a word about threads: every       *)
(* iteration of the half-open range [lo, hi) is executed exactly once,     *)
(* before the call returns, in an order the caller may not rely on, and a  *)
(* reduction returns the wrapped sum of the addends of the range.          *)
(*                                                                         *)
(* Two cases fall outside the promise.  The bounds of an empty range may   *)
(* be so far apart that their difference, wrapped, counts as a trip count: *)
(* then iterations from its begin on, or before its end, may be executed,  *)
(* still at most once.  And a reduction is vouched for only if its worker  *)
(* leaves alone the register that the thread entry keeps its record in.    *)
(*                                                                         *)
(* The addend of iteration i is given through its prefix sums:             *)
(* Addend(i) = Prefix[i + 1] - Prefix[i] as words.  Every assignment of    *)
(* word addends to the iterations has such a Prefix, and the sum over      *)
(* [lo, hi) is Prefix[hi] - Prefix[lo].                                    *)
(***************************************************************************)
EXTENDS Words

CONSTANTS
  Prefix,   \* a function from Word to Word
  Vouched   \* do the workers of reductions leave that register alone

VARIABLES
  phase,    \* "idle" (the caller runs) or "active" (inside the helper)
  reducing, \* is the call a reduction
  lo, hi,   \* the requested range
  runs,     \* how often each iteration has been executed in this call
  result    \* what the last completed call returned

cvars == <<phase, reducing, lo, hi, runs, result>>

Iterations(from, to) == {i \in Word : from <= i /\ i < to}

\* An empty range whose bounds differ by more than a word holds.
FarApart(from, to) == to - from < MinInt

\* The iterations a call may execute; of a range that is not far apart these
\* are the ones it must execute.
Admissible(from, to) ==
  IF FarApart(from, to) THEN {i \in Word : from <= i \/ i < to}
  ELSE Iterations(from, to)

Addend(i) == SubW(Prefix[i + 1], Prefix[i])

RangeSum(from, to) == IF from < to THEN SubW(Prefix[to], Prefix[from]) ELSE 0

\* What a call may return.
Results ==
  CASE ~reducing -> {0}
    [] reducing /\ Vouched /\ ~FarApart(lo, hi) -> {RangeSum(lo, hi)}
    [] OTHER -> Word

Init ==
  /\ phase = "idle"
  /\ reducing = FALSE
  /\ lo = 0
  /\ hi = 0
  /\ runs = [i \in Word |-> 0]
  /\ result = 0

Enter ==
  /\ phase = "idle"
  /\ phase' = "active"
  /\ reducing' \in BOOLEAN
  /\ lo' \in Word
  /\ hi' \in Word
  /\ runs' = [i \in Word |-> 0]
  /\ result' = 0

Execute(i) ==
  /\ phase = "active"
  /\ i \in Admissible(lo, hi)
  /\ runs[i] = 0
  /\ runs' = [runs EXCEPT ![i] = 1]
  /\ UNCHANGED <<phase, reducing, lo, hi, result>>

Leave ==
  /\ phase = "active"
  /\ \A i \in Iterations(lo, hi) : runs[i] = 1
  /\ phase' = "idle"
  /\ result' \in Results
  /\ UNCHANGED <<reducing, lo, hi, runs>>

Next == Enter \/ Leave \/ \E i \in Word : Execute(i)

Spec == Init /\ [][Next]_cvars

=============================================================================
