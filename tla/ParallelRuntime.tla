-------------------------- MODULE ParallelRuntime --------------------------
(***************************************************************************)
(* The pthread runtime that the AArch64 backend embeds in the generated    *)
(* assembly: __sysy_parallel_for_range and                                 *)
(* __sysy_parallel_reduce_int_range with their two thread entry points     *)
(* (emitParallelRuntime), and the worker loop they run (built by           *)
(* buildParallelWorkerFunction).                                           *)
(*                                                                         *)
(* The calling thread splits the range in two, hands the upper half to one *)
(* pthread through a record in its own stack frame, runs the lower half,   *)
(* joins and returns.  The actions follow the instructions between two     *)
(* points where the threads can observe each other; one iteration of the   *)
(* worker loop is one action.                                              *)
(***************************************************************************)
EXTENDS Words

CONSTANTS
  Threshold,  \* the least trip_count * work_cost worth a thread (16384)
  MaxCost,    \* bound on the fifth argument, the per-iteration work estimate
  Ranges,     \* the pairs of bounds the generated code may pass
  Prefix,     \* prefix sums of the addends, see RangeContract
  Clobbers    \* the kinds of helper whose worker contains a call that
              \* passes five or more integer arguments, hence writes x4

ASSUME RuntimeAssumption ==
  /\ Threshold \in Nat
  /\ MaxCost \in Nat
  /\ Ranges \subseteq Word \X Word
  /\ Prefix \in [Word -> Word]
  /\ Clobbers \subseteq {"for", "reduce"}

VARIABLES
  pc,       \* where the calling thread is
  kind,     \* which of the two helpers was called
  begin,    \* w19, the first argument
  end,      \* w20, the second argument
  cost,     \* w4, the fifth argument
  mid,      \* w23, the split point
  frame,    \* the record at [sp, #0] of the helper's stack frame
  main,     \* the worker activation of the calling thread
  partial,  \* w19 after the lower half of a reduction
  result,   \* w0 when the helper returns
  hpc,      \* where the created thread is
  hx4,      \* what register x4 of the created thread holds
  helper,   \* the worker activation of the created thread
  runs      \* history: how often each iteration was executed in this call

callerVars == <<pc, kind, begin, end, cost, mid, main, partial, result>>
helperVars == <<hpc, hx4, helper>>
vars == <<pc, kind, begin, end, cost, mid, frame, main, partial, result,
          hpc, hx4, helper, runs>>

Kinds == {"for", "reduce"}

\* A worker activation: the induction variable, the exclusive end and the
\* accumulator of the private reduction temp.
Activation(from, to) == [iv |-> from, last |-> to, acc |-> 0]
Activations == [iv : Word, last : Word, acc : Word]
Frames == [live : BOOLEAN, lo : Word, hi : Word, sum : Word]

Addend(i) == SubW(Prefix[i + 1], Prefix[i])

RangeSum(from, to) == IF from < to THEN SubW(Prefix[to], Prefix[from]) ELSE 0

Iterations(from, to) == {i \in Word : from <= i /\ i < to}

\* w9: the trip count as the 32-bit subtraction computes it.
TripCount == SubW(end, begin)

\* The bounds of an empty range are so far apart that this subtraction wraps
\* to a positive number.  Nothing keeps the generated code from such a call:
\* lowerParallelLoop does not test begin < end before it.
FarApart(from, to) == to - from < MinInt

\* Mutation: the trip count taken as unsigned, as a cbz gate would let through.
UnsignedProfitable ==
  /\ TripCount # 0
  /\ cost >= 1
  /\ (IF TripCount < 0 THEN TripCount + Modulus ELSE TripCount) * cost >= Threshold

\* The three branches to the direct path before a thread is considered.
Profitable ==
  /\ TripCount >= 1
  /\ cost >= 1
  /\ TripCount * cost >= Threshold

\* asr w23, w9, #1; add w23, w19, w23
Midpoint == AddW(begin, TripCount \div 2)

Init ==
  /\ pc = "idle"
  /\ kind = "for"
  /\ begin = 0
  /\ end = 0
  /\ cost = 0
  /\ mid = 0
  /\ frame = [live |-> FALSE, lo |-> 0, hi |-> 0, sum |-> MaxInt]
  /\ main = Activation(0, 0)
  /\ partial = 0
  /\ result = 0
  /\ hpc = "none"
  /\ hx4 = "ctx"
  /\ helper = Activation(0, 0)
  /\ runs = [i \in Word |-> 0]

-----------------------------------------------------------------------------
(* The calling thread.                                                     *)

\* bl __sysy_parallel_..._range: the prologue saves the callee-saved
\* registers, opens the 48-byte frame and moves the arguments into them.
\* The registers and the record written later hold residue here that no
\* path reads first; one representative of it keeps finished calls from
\* being told apart by it.
Call(k, b, e, c) ==
  /\ pc = "idle"
  /\ pc' = "gate"
  /\ kind' = k
  /\ begin' = b
  /\ end' = e
  /\ cost' = c
  /\ mid' = 0
  /\ frame' = [live |-> TRUE, lo |-> 0, hi |-> 0, sum |-> MaxInt]
  /\ main' = Activation(0, 0)
  /\ partial' = 0
  /\ result' = 0
  /\ hx4' = "ctx"
  /\ helper' = Activation(0, 0)
  /\ runs' = [i \in Word |-> 0]
  /\ UNCHANGED hpc

\* One of the three gates fails: run the whole range on this thread.
GateDirect ==
  /\ pc = "gate"
  /\ ~Profitable
  /\ pc' = "direct"
  /\ main' = Activation(begin, end)
  /\ UNCHANGED <<kind, begin, end, cost, mid, frame, partial, result,
                 hpc, hx4, helper, runs>>

\* Mutation: the other thread starts one iteration late.
LateGateSplit ==
  /\ pc = "gate"
  /\ Profitable
  /\ pc' = "create"
  /\ mid' = Midpoint
  /\ frame' = [frame EXCEPT !.lo = AddW(Midpoint, 1), !.hi = end,
                            !.sum = IF kind = "reduce" THEN 0 ELSE @]
  /\ UNCHANGED <<kind, begin, end, cost, main, partial, result,
                 hpc, hx4, helper, runs>>

\* Compute the split and fill the record for the other thread.  The
\* reduction helper also clears the slot of the partial sum.
GateSplit ==
  /\ pc = "gate"
  /\ Profitable
  /\ pc' = "create"
  /\ mid' = Midpoint
  /\ frame' = [frame EXCEPT !.lo = Midpoint, !.hi = end,
                            !.sum = IF kind = "reduce" THEN 0 ELSE @]
  /\ UNCHANGED <<kind, begin, end, cost, main, partial, result,
                 hpc, hx4, helper, runs>>

\* pthread_create returns 0: the other thread exists, this one starts the
\* lower half.
CreateSucceeds ==
  /\ pc = "create"
  /\ pc' = "low"
  /\ hpc' = "entry"
  /\ main' = Activation(begin, mid)
  /\ UNCHANGED <<kind, begin, end, cost, mid, frame, partial, result,
                 hx4, helper, runs>>

\* Mutation: after a failed creation only the lower half is run.
HalfCreateFails ==
  /\ pc = "create"
  /\ pc' = "direct"
  /\ main' = Activation(begin, mid)
  /\ UNCHANGED <<kind, begin, end, cost, mid, frame, partial, result,
                 hpc, hx4, helper, runs>>

\* pthread_create returns an error: cbnz w0 to the direct path.
CreateFails ==
  /\ pc = "create"
  /\ pc' = "direct"
  /\ main' = Activation(begin, end)
  /\ UNCHANGED <<kind, begin, end, cost, mid, frame, partial, result,
                 hpc, hx4, helper, runs>>

\* Mutation: the accumulator is not cut to a word.
WideIterate(w) ==
  [w EXCEPT !.iv = AddW(@, 1),
            !.acc = IF kind = "reduce" THEN @ + Addend(w.iv) ELSE @]

\* One iteration of the worker loop on an activation: the body, then the
\* increment of the induction variable.
Iterate(w) ==
  [w EXCEPT !.iv = AddW(@, 1),
            !.acc = IF kind = "reduce" THEN AddW(@, Addend(w.iv)) ELSE @]

MainIterate ==
  /\ pc \in {"low", "direct"}
  /\ main.iv < main.last
  /\ main' = Iterate(main)
  /\ runs' = [runs EXCEPT ![main.iv] = @ + 1]
  /\ UNCHANGED <<pc, kind, begin, end, cost, mid, frame, partial, result,
                 hpc, hx4, helper>>

\* The worker returns from the lower half; a reduction keeps w0 in w19.
LowReturns ==
  /\ pc = "low"
  /\ ~(main.iv < main.last)
  /\ pc' = "join"
  /\ partial' = IF kind = "reduce" THEN main.acc ELSE partial
  /\ UNCHANGED <<kind, begin, end, cost, mid, frame, main, result,
                 hpc, hx4, helper, runs>>

\* The worker returns from the whole range; w0 is the result.
DirectReturns ==
  /\ pc = "direct"
  /\ ~(main.iv < main.last)
  /\ pc' = "leave"
  /\ result' = IF kind = "reduce" THEN main.acc ELSE result
  /\ UNCHANGED <<kind, begin, end, cost, mid, frame, main, partial,
                 hpc, hx4, helper, runs>>

\* Mutation: the helper returns without joining.
DetachedJoin ==
  /\ pc = "join"
  /\ pc' = "leave"
  /\ result' = IF kind = "reduce" THEN AddW(partial, frame.sum) ELSE result
  /\ UNCHANGED <<kind, begin, end, cost, mid, frame, main, partial,
                 hpc, hx4, helper, runs>>

\* pthread_join returns once the other thread has exited; a reduction then
\* adds the partial sum the other thread left in the record.
Join ==
  /\ pc = "join"
  /\ hpc = "exited"
  /\ pc' = "leave"
  /\ hpc' = "none"
  /\ result' = IF kind = "reduce" THEN AddW(partial, frame.sum) ELSE result
  /\ UNCHANGED <<kind, begin, end, cost, mid, frame, main, partial,
                 hx4, helper, runs>>

\* The epilogue closes the frame and returns to the generated code.
Return ==
  /\ pc = "leave"
  /\ pc' = "idle"
  /\ frame' = [frame EXCEPT !.live = FALSE]
  /\ UNCHANGED <<kind, begin, end, cost, mid, main, partial, result,
                 hpc, hx4, helper, runs>>

-----------------------------------------------------------------------------
(* The created thread.                                                     *)

\* mov x4, x0; load the bounds, the context and the worker from the record.
HelperLoads ==
  /\ hpc = "entry"
  /\ hpc' = "run"
  /\ hx4' = "ctx"
  /\ helper' = Activation(frame.lo, frame.hi)
  /\ UNCHANGED <<callerVars, frame, runs>>

HelperIterate ==
  /\ hpc = "run"
  /\ helper.iv < helper.last
  /\ helper' = Iterate(helper)
  /\ runs' = [runs EXCEPT ![helper.iv] = @ + 1]
  /\ UNCHANGED <<callerVars, frame, hpc, hx4>>

\* Mutation: the entry of a for loop never returns to the thread library.
EndlessHelperReturns ==
  /\ hpc = "run"
  /\ ~(helper.iv < helper.last)
  /\ hpc' = IF kind = "reduce" THEN "store" ELSE hpc
  /\ UNCHANGED <<callerVars, frame, hx4, helper, runs>>

\* blr x3 returns.  x4 is caller-saved: a worker that passed a fifth integer
\* argument left that argument, or worse, in it.
HelperReturns ==
  /\ hpc = "run"
  /\ ~(helper.iv < helper.last)
  /\ hpc' = IF kind = "reduce" THEN "store" ELSE "exited"
  /\ hx4' = IF kind \in Clobbers THEN "junk" ELSE hx4
  /\ UNCHANGED <<callerVars, frame, helper, runs>>

\* Mutation: the partial sum goes to the word before its slot.
MisplacedHelperStores ==
  /\ hpc = "store"
  /\ hpc' = "exited"
  /\ frame' = [frame EXCEPT !.hi = helper.acc]
  /\ UNCHANGED <<callerVars, hx4, helper, runs>>

\* str w0, [x4, #24]: the partial sum reaches the record only through an
\* intact x4.
HelperStores ==
  /\ hpc = "store"
  /\ hpc' = "exited"
  /\ frame' = IF hx4 = "ctx" THEN [frame EXCEPT !.sum = helper.acc] ELSE frame
  /\ UNCHANGED <<callerVars, hx4, helper, runs>>

-----------------------------------------------------------------------------

MainNext ==
  \/ GateDirect
  \/ GateSplit
  \/ CreateSucceeds
  \/ CreateFails
  \/ MainIterate
  \/ LowReturns
  \/ DirectReturns
  \/ Join
  \/ Return

HelperNext ==
  \/ HelperLoads
  \/ HelperIterate
  \/ HelperReturns
  \/ HelperStores

CallNext == \E k \in Kinds, r \in Ranges, c \in 0 .. MaxCost :
              Call(k, r[1], r[2], c)

Next == CallNext \/ MainNext \/ HelperNext

\* The kernel schedules both threads; the program may stop calling.
Fairness == WF_vars(MainNext) /\ WF_vars(HelperNext)

Spec == Init /\ [][Next]_vars

FairSpec == Spec /\ Fairness

-----------------------------------------------------------------------------
(* Properties.                                                             *)

TypeOK ==
  /\ pc \in {"idle", "gate", "create", "low", "direct", "join", "leave"}
  /\ kind \in Kinds
  /\ begin \in Word
  /\ end \in Word
  /\ cost \in 0 .. MaxCost
  /\ mid \in Word
  /\ frame \in Frames
  /\ main \in Activations
  /\ partial \in Word
  /\ result \in Word
  /\ hpc \in {"none", "entry", "run", "store", "exited"}
  /\ hx4 \in {"ctx", "junk"}
  /\ helper \in Activations
  /\ runs \in [Word -> Nat]

\* When a helper is about to return, every iteration of the requested range
\* has been executed exactly once, whatever the range, the work estimate, the
\* outcome of pthread_create and the interleaving were.  No other iteration
\* has been executed, except when the bounds are far apart: then iterations
\* from begin on, or before end, may have been, each at most once, although
\* the range is empty.
ExactlyOnce ==
  pc = "leave" =>
    \A i \in Word :
      /\ i \in Iterations(begin, end) => runs[i] = 1
      /\ runs[i] \in {0, 1}
      /\ runs[i] = 1 => IF FarApart(begin, end) THEN begin <= i \/ i < end
                                                ELSE begin <= i /\ i < end

\* The created thread reads its bounds from, and writes its partial sum to,
\* a record in the caller's stack frame: the frame stays open until that
\* thread has exited.
FrameOutlivesThread ==
  hpc \notin {"none", "exited"} => frame.live

\* While both threads run, no iteration is pending on both, and none that is
\* still pending has been executed before.
ChunksDisjoint ==
  /\ (pc = "low" /\ hpc = "run") =>
       Iterations(main.iv, main.last) \cap Iterations(helper.iv, helper.last) = {}
  /\ (pc \in {"low", "direct"}) =>
       \A i \in Iterations(main.iv, main.last) : runs[i] = 0
  /\ (hpc = "run") =>
       \A i \in Iterations(helper.iv, helper.last) : runs[i] = 0

\* A reduction returns the wrapped sum over the whole range: the sum of the
\* two halves joined by one 32-bit add is the sum the sequential loop would
\* have computed.  Of a range whose bounds are far apart, which executes
\* iterations it does not have, nothing is claimed.
ReductionExact ==
  (pc = "leave" /\ kind = "reduce" /\ ~FarApart(begin, end)) =>
    result = RangeSum(begin, end)

\* The documented claim: "The helper takes the direct path for empty ranges,
\* invalid costs, or failed pthread_create".  The wrapped subtraction breaks
\* it for empty ranges whose bounds are far apart.
EmptyRangesDirect ==
  pc \in {"create", "low", "join"} => begin < end /\ cost >= 1

\* What holds of it: a thread is created only for a positive work estimate
\* and a range that has iterations, or an empty one whose bounds are far
\* apart.  In particular the differences of nonempty ranges longer than
\* MaxInt, which wrap to negative numbers, are no danger: they stay direct.
NearEmptyDirect ==
  pc \in {"create", "low", "join"} =>
    /\ cost >= 1
    /\ begin < end \/ FarApart(begin, end)
    /\ end - begin <= MaxInt

\* How far each half has come once the range is split.
LowDone == IF pc = "low" THEN main.iv ELSE mid
HighDone == IF hpc = "entry" THEN mid ELSE helper.iv

\* The iterations executed so far in this call.
Executed ==
  CASE pc = "direct" -> Iterations(begin, main.iv)
    [] pc \in {"low", "join"} ->
         Iterations(begin, LowDone) \cup Iterations(mid, HighDone)
    [] OTHER -> {}

\* An activation that has started at from and has not passed to: it has not
\* moved if there is nothing between the two.
Within(from, iv, to) ==
  /\ from <= iv
  /\ IF from < to THEN iv <= to ELSE iv = from

\* The two threads exist together exactly between creation and join, and
\* the frame is open from the prologue to the epilogue.
ThreadInv ==
  /\ (pc \in {"low", "join"}) <=> (hpc # "none")
  /\ frame.live <=> (pc # "idle")
  /\ pc # "idle" => <<begin, end>> \in Ranges

\* The split point lies inside the range unless the bounds are far apart,
\* the record carries the upper half, and each activation stays in its half.
SplitInv ==
  /\ pc \in {"create", "low", "join"} =>
       /\ cost >= 1
       /\ TripCount >= 1
       /\ FarApart(begin, end) \/ (begin < end /\ begin <= mid /\ mid <= end)
       /\ frame.lo = mid /\ frame.hi = end
  /\ pc = "low" => main.last = mid /\ Within(begin, main.iv, mid)
  /\ pc = "direct" => main.last = end /\ Within(begin, main.iv, end)
  /\ hpc = "run" => helper.last = end /\ Within(mid, helper.iv, end)
  /\ hpc \in {"store", "exited"} => helper.iv = IF mid < end THEN end ELSE mid

\* The history agrees with the progress of the activations, and with the
\* range when they are done.
HistoryInv ==
  /\ pc \notin {"idle", "leave"} =>
       runs = [i \in Word |-> IF i \in Executed THEN 1 ELSE 0]
  /\ ExactlyOnce

IInv == TypeOK /\ ThreadInv /\ SplitInv /\ HistoryInv

\* The accumulators hold the sum of what their activation has executed, and
\* the record holds the upper half's sum once the created thread exited.
\* All of it needs workers that leave x4 alone.
SumInv ==
  (kind = "reduce" /\ "reduce" \notin Clobbers) =>
    /\ pc \in {"low", "direct"} => main.acc = SubW(Prefix[main.iv], Prefix[begin])
    /\ pc = "join" => partial = RangeSum(begin, mid)
    /\ hpc \in {"run", "store"} => /\ hx4 = "ctx"
                                    /\ helper.acc = SubW(Prefix[helper.iv], Prefix[mid])
    /\ hpc = "exited" => frame.sum = RangeSum(mid, end)
    /\ ReductionExact

\* A for loop leaves the result register of its call alone.
ForInv == (kind = "for" /\ pc # "idle") => result = 0

\* The helpers implement their contract.  The call is over for the contract
\* when the result is in place; what is left is the epilogue.
Contract ==
  INSTANCE RangeContract WITH
    phase <- IF pc \in {"idle", "leave"} THEN "idle" ELSE "active",
    reducing <- kind = "reduce",
    lo <- begin,
    hi <- end,
    Vouched <- "reduce" \notin Clobbers

ImplementsContract == Contract!Spec

\* A call returns: the worker loops are finite and the join waits for a
\* thread that never waits for its creator.
CallReturns == (pc = "gate") ~> (pc = "idle")

=============================================================================
