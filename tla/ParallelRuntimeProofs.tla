----------------------- MODULE ParallelRuntimeProofs -----------------------
(***************************************************************************)
(* Theorems about the pthread runtime for every word width, threshold, set *)
(* of call arguments and assignment of addends.  The inductive invariant   *)
(* IInv of ParallelRuntime carries the safety properties of the ranges,    *)
(* SumInv on top of it the value of a reduction.                           *)
(***************************************************************************)
EXTENDS ParallelRuntime, TLAPS

-----------------------------------------------------------------------------
(* Word arithmetic.                                                        *)

\* One add of two words is a word: emitBinop's add of w registers.
LEMMA AddWType ==
  ASSUME NEW a \in Word, NEW b \in Word
  PROVE  AddW(a, b) \in Word
BY MaxIntAssumption DEF AddW, WrapOnce, Word, MinInt, Modulus

\* One sub of two words is a word: emitBinop's sub of w registers.
LEMMA SubWType ==
  ASSUME NEW a \in Word, NEW b \in Word
  PROVE  SubW(a, b) \in Word
BY MaxIntAssumption DEF SubW, WrapOnce, Word, MinInt, Modulus

\* A sum that fits needs no wrap.
LEMMA AddWFits ==
  ASSUME NEW a \in Word, NEW b \in Int, a + b \in Word
  PROVE  AddW(a, b) = a + b
BY MaxIntAssumption DEF AddW, WrapOnce, Word, MinInt, Modulus

\* The induction variable of an unfinished activation increments exactly.
LEMMA Increment ==
  ASSUME NEW a \in Word, NEW b \in Word, a < b
  PROVE  /\ AddW(a, 1) = a + 1
         /\ a + 1 \in Word
BY MaxIntAssumption DEF AddW, WrapOnce, Word, MinInt, Modulus

\* Unless the bounds are far apart, a positive 32-bit trip count is the true
\* one, and its half stays between the bounds.
LEMMA SplitInside ==
  ASSUME NEW b \in Word, NEW e \in Word, ~FarApart(b, e),
         SubW(e, b) >= 1
  PROVE  /\ b < e
         /\ AddW(b, SubW(e, b) \div 2) \in Word
         /\ b <= AddW(b, SubW(e, b) \div 2)
         /\ AddW(b, SubW(e, b) \div 2) <= e
<1> DEFINE t == SubW(e, b)
<1>1. t = e - b
  BY MaxIntAssumption DEF FarApart, SubW, WrapOnce, Word, MinInt, Modulus
<1>2. t \div 2 \in Int /\ 0 <= t \div 2 /\ t \div 2 <= t
  BY <1>1 DEF Word, MinInt
<1>3. b + (t \div 2) \in Word
  BY <1>1, <1>2, MaxIntAssumption DEF Word, MinInt
<1>4. AddW(b, t \div 2) = b + (t \div 2)
  BY <1>2, <1>3, AddWFits
<1> HIDE DEF t
<1>5. QED
  BY <1>1, <1>2, <1>3, <1>4, MaxIntAssumption DEF Word, MinInt, t

\* Wrapped differences telescope: the running sum up to q plus the addend
\* q .. r is the running sum up to r.
LEMMA Telescope ==
  ASSUME NEW p \in Word, NEW q \in Word, NEW r \in Word
  PROVE  AddW(SubW(q, p), SubW(r, q)) = SubW(r, p)
BY MaxIntAssumption DEF AddW, SubW, WrapOnce, Word, MinInt, Modulus

\* The empty sum.
LEMMA SubWSelf ==
  ASSUME NEW p \in Word
  PROVE  SubW(p, p) = 0
BY MaxIntAssumption DEF SubW, WrapOnce, Word, MinInt, Modulus

-----------------------------------------------------------------------------
(* The inductive invariant.                                                *)

\* The history after one more iteration of an activation.
LEMMA OneMore ==
  ASSUME NEW S \in SUBSET Word, NEW x \in Word, x \notin S,
         runs = [i \in Word |-> IF i \in S THEN 1 ELSE 0]
  PROVE  [runs EXCEPT ![x] = @ + 1]
           = [i \in Word |-> IF i \in S \cup {x} THEN 1 ELSE 0]
OBVIOUS

\* Executing the next iteration extends the interval of executed ones.
LEMMA Extend ==
  ASSUME NEW a \in Word, NEW b \in Word, a <= b
  PROVE  Iterations(a, b + 1) = Iterations(a, b) \cup {b}
BY DEF Iterations, Word, MinInt

\* Interval bookkeeping at the boundaries.
LEMMA Empty ==
  ASSUME NEW a \in Word, NEW b \in Word, b <= a
  PROVE  Iterations(a, b) = {}
BY DEF Iterations, Word, MinInt

\* An activation that is done has executed all there is between its ends.
LEMMA Finished ==
  ASSUME NEW a \in Word, NEW x \in Word, NEW b \in Word,
         Within(a, x, b), ~(x < b)
  PROVE  /\ Iterations(a, x) = Iterations(a, b)
         /\ x = IF a < b THEN b ELSE a
<1>1. x = IF a < b THEN b ELSE a
  BY DEF Within, Word, MinInt
<1>2. CASE a < b
  BY <1>1, <1>2
<1>3. CASE ~(a < b)
  <2>1. Iterations(a, a) = {} /\ Iterations(a, b) = {}
    BY <1>3, Empty DEF Word, MinInt
  <2>2. QED
    BY <1>1, <1>3, <2>1
<1>4. QED
  BY <1>1, <1>2, <1>3

LEMMA Concat ==
  ASSUME NEW a \in Word, NEW b \in Word, NEW c \in Word, a <= b, b <= c
  PROVE  Iterations(a, b) \cup Iterations(b, c) = Iterations(a, c)
BY DEF Iterations, Word, MinInt

\* One iteration of an unfinished activation.
LEMMA IterateFacts ==
  ASSUME NEW w \in Activations, w.iv < w.last
  PROVE  /\ Iterate(w) \in Activations
         /\ Iterate(w).iv = w.iv + 1
         /\ Iterate(w).last = w.last
         /\ w.iv \in Word
         /\ Iterate(w).acc = IF kind = "reduce"
                             THEN AddW(w.acc, Addend(w.iv)) ELSE w.acc
<1>1. AddW(w.iv, 1) = w.iv + 1 /\ w.iv + 1 \in Word
  BY Increment DEF Activations
<1>2. Prefix[w.iv] \in Word /\ Prefix[w.iv + 1] \in Word
  BY <1>1, RuntimeAssumption DEF Activations
<1>3. Addend(w.iv) \in Word
  BY <1>2, SubWType DEF Addend
<1>4. AddW(w.acc, Addend(w.iv)) \in Word
  BY <1>3, AddWType DEF Activations
<1>5. QED
  BY <1>1, <1>4 DEF Iterate, Activations

\* Zero is a word.
LEMMA ZeroWord == 0 \in Word /\ MaxInt \in Word
BY MaxIntAssumption DEF Word, MinInt

\* The split point is a word whatever the bounds are.
LEMMA MidpointType ==
  ASSUME TypeOK, Profitable
  PROVE  Midpoint \in Word
<1>1. TripCount \in Word
  BY SubWType DEF TripCount, TypeOK
<1>2. TripCount \div 2 \in Word
  BY <1>1, MaxIntAssumption DEF Profitable, Word, MinInt
<1>3. QED
  BY <1>2, AddWType DEF Midpoint, TypeOK

LEMMA ActivationType ==
  ASSUME NEW a \in Word, NEW b \in Word
  PROVE  Activation(a, b) \in Activations
BY ZeroWord DEF Activation, Activations

\* The initial state satisfies the type invariant.
LEMMA InitTypeOK == Init => TypeOK
<1> SUFFICES ASSUME Init PROVE TypeOK
  OBVIOUS
<1>1. Activation(0, 0) \in Activations
  BY ZeroWord, ActivationType
<1>2. frame \in Frames
  BY ZeroWord DEF Init, Frames
<1>3. runs \in [Word -> Nat]
  BY DEF Init
<1>4. cost \in 0 .. MaxCost
  BY RuntimeAssumption DEF Init
<1>5. QED
  BY <1>1, <1>2, <1>3, <1>4, ZeroWord DEF Init, TypeOK, Kinds

\* Every step preserves the type invariant.
LEMMA NextTypeOK == TypeOK /\ [Next]_vars => TypeOK'
<1> SUFFICES ASSUME TypeOK, [Next]_vars
             PROVE  TypeOK'
  OBVIOUS
<1>1. ASSUME NEW k \in Kinds, NEW r \in Ranges, NEW c \in 0 .. MaxCost,
             Call(k, r[1], r[2], c)
      PROVE  TypeOK'
  <2>1. r[1] \in Word /\ r[2] \in Word
    BY RuntimeAssumption
  <2>2. frame' \in Frames
    BY <1>1, ZeroWord DEF Call, Frames
  <2>3. Activation(0, 0) \in Activations
    BY ZeroWord, ActivationType
  <2>4. runs' \in [Word -> Nat]
    BY <1>1 DEF Call
  <2>5. QED
    BY <1>1, <2>1, <2>2, <2>3, <2>4, ZeroWord DEF Call, TypeOK
<1>2. CASE GateDirect
  BY <1>2, ActivationType DEF GateDirect, TypeOK
<1>3. CASE GateSplit
  <2>1. Midpoint \in Word
    BY <1>3, MidpointType DEF GateSplit
  <2>2. frame' \in Frames
    BY <1>3, <2>1, ZeroWord DEF GateSplit, TypeOK, Frames
  <2>3. QED
    BY <1>3, <2>1, <2>2 DEF GateSplit, TypeOK
<1>4. CASE CreateSucceeds
  BY <1>4, ActivationType DEF CreateSucceeds, TypeOK
<1>5. CASE CreateFails
  BY <1>5, ActivationType DEF CreateFails, TypeOK
<1>6. CASE MainIterate
  <2>1. main' \in Activations /\ main.iv \in Word
    BY <1>6, IterateFacts DEF MainIterate, TypeOK
  <2>2. runs' \in [Word -> Nat]
    BY <1>6, <2>1 DEF MainIterate, TypeOK
  <2>3. QED
    BY <1>6, <2>1, <2>2 DEF MainIterate, TypeOK
<1>7. CASE LowReturns
  BY <1>7 DEF LowReturns, TypeOK, Activations
<1>8. CASE DirectReturns
  BY <1>8 DEF DirectReturns, TypeOK, Activations
<1>9. CASE Join
  BY <1>9, AddWType DEF Join, TypeOK, Frames
<1>10. CASE Return
  BY <1>10 DEF Return, TypeOK, Frames
<1>11. CASE HelperLoads
  BY <1>11, ActivationType DEF HelperLoads, TypeOK, Frames, callerVars
<1>12. CASE HelperIterate
  <2>1. helper' \in Activations /\ helper.iv \in Word
    BY <1>12, IterateFacts DEF HelperIterate, TypeOK
  <2>2. runs' \in [Word -> Nat]
    BY <1>12, <2>1 DEF HelperIterate, TypeOK
  <2>3. QED
    BY <1>12, <2>1, <2>2 DEF HelperIterate, TypeOK, callerVars
<1>13. CASE HelperReturns
  BY <1>13 DEF HelperReturns, TypeOK, callerVars
<1>14. CASE HelperStores
  BY <1>14 DEF HelperStores, TypeOK, Frames, Activations, callerVars
<1>15. CASE UNCHANGED vars
  BY <1>15 DEF vars, TypeOK
<1>16. QED
  BY <1>1, <1>2, <1>3, <1>4, <1>5, <1>6, <1>7, <1>8, <1>9, <1>10, <1>11,
     <1>12, <1>13, <1>14, <1>15
  DEF Next, CallNext, MainNext, HelperNext

\* The registers, the record and the history keep their types in every
\* reachable state, whatever ranges the program passes.
THEOREM TypeCorrect == Spec => []TypeOK
BY InitTypeOK, NextTypeOK, PTL DEF Spec

\* The initial state satisfies the inductive invariant.
LEMMA InitIInv == Init => IInv
<1>1. Init => ThreadInv /\ SplitInv /\ HistoryInv
  BY DEF Init, ThreadInv, SplitInv, HistoryInv, ExactlyOnce
<1>2. QED
  BY <1>1, InitTypeOK DEF IInv

\* A split puts the middle inside the range, unless the bounds are far apart.
LEMMA SplitStep ==
  ASSUME IInv, GateSplit
  PROVE  /\ cost >= 1
         /\ TripCount >= 1
         /\ \/ FarApart(begin, end)
            \/ begin < end /\ begin <= Midpoint /\ Midpoint <= end
<1>1. begin \in Word /\ end \in Word
  BY DEF IInv, TypeOK
<1>2. cost >= 1 /\ SubW(end, begin) >= 1
  BY DEF GateSplit, Profitable, TripCount
<1>3. QED
  BY <1>1, <1>2, SplitInside DEF TripCount, Midpoint

\* The executed set when the calling thread runs one iteration.
LEMMA MainStep ==
  ASSUME IInv, MainIterate
  PROVE  /\ main.iv \in Word /\ main.last \in Word
         /\ main'.iv = main.iv + 1 /\ main'.last = main.last
         /\ main'.iv \in Word
         /\ main.iv \notin Executed
         /\ Executed' = Executed \cup {main.iv}
<1> USE DEF IInv, TypeOK
<1>1. /\ main.iv \in Word /\ main.last \in Word
      /\ main'.iv = main.iv + 1 /\ main'.last = main.last
      /\ main'.iv \in Word
  BY IterateFacts DEF MainIterate, Activations
<1>2. CASE pc = "direct"
  <2>1. main.iv \notin Iterations(begin, main.iv)
    BY <1>1 DEF Iterations, Word, MinInt
  <2>2. begin <= main.iv
    BY <1>2 DEF SplitInv, Within
  <2>3. Iterations(begin, main.iv + 1) = Iterations(begin, main.iv) \cup {main.iv}
    BY <1>1, <2>2, Extend
  <2>4. QED
    BY <1>1, <1>2, <2>1, <2>3 DEF Executed, MainIterate
<1>3. CASE pc = "low"
  <2>1. begin <= main.iv /\ main.iv < mid
    BY <1>3 DEF SplitInv, Within, MainIterate
  <2>2. main.iv \in Int /\ mid \in Int
    BY <1>1 DEF Word
  <2>3. main.iv \notin Iterations(begin, main.iv) \cup Iterations(mid, HighDone)
    BY <2>1, <2>2 DEF Iterations
  <2>4. Iterations(begin, main.iv + 1) = Iterations(begin, main.iv) \cup {main.iv}
    BY <1>1, <2>1, Extend
  <2>5. HighDone' = HighDone /\ LowDone' = main.iv + 1 /\ LowDone = main.iv
    BY <1>1, <1>3 DEF MainIterate, HighDone, LowDone
  <2>6. QED
    BY <1>3, <1>1, <2>3, <2>4, <2>5 DEF Executed, MainIterate
<1>4. QED
  BY <1>2, <1>3 DEF MainIterate

\* The executed set when the created thread runs one iteration.
LEMMA HelperStep ==
  ASSUME IInv, HelperIterate
  PROVE  /\ helper.iv \in Word /\ helper.last \in Word
         /\ helper'.iv = helper.iv + 1 /\ helper'.last = helper.last
         /\ helper'.iv \in Word
         /\ helper.iv \notin Executed
         /\ Executed' = Executed \cup {helper.iv}
<1> USE DEF IInv, TypeOK
<1>1. /\ helper.iv \in Word /\ helper.last \in Word
      /\ helper'.iv = helper.iv + 1 /\ helper'.last = helper.last
      /\ helper'.iv \in Word
  BY IterateFacts DEF HelperIterate, Activations
<1>2. pc \in {"low", "join"}
  BY DEF ThreadInv, HelperIterate
<1>3. mid <= helper.iv
  BY <1>2 DEF SplitInv, Within, HelperIterate
<1>4. LowDone <= mid \/ LowDone = begin
  <2>1. mid \in Int
    BY DEF Word
  <2>2. pc = "low" => main.iv <= mid \/ main.iv = begin
    BY DEF SplitInv, Within
  <2>3. QED
    BY <2>1, <2>2 DEF LowDone
<1>5. helper.iv \notin Iterations(begin, LowDone) \cup Iterations(mid, helper.iv)
  <2>1. helper.iv \in Int /\ mid \in Int /\ LowDone \in Int /\ begin \in Int
    BY <1>1 DEF LowDone, Activations, Word
  <2>2. QED
    BY <1>3, <1>4, <2>1 DEF Iterations
<1>6. Iterations(mid, helper.iv + 1) = Iterations(mid, helper.iv) \cup {helper.iv}
  BY <1>1, <1>3, Extend
<1>7. LowDone' = LowDone /\ HighDone = helper.iv /\ HighDone' = helper.iv + 1
  BY <1>1 DEF HelperIterate, LowDone, HighDone, callerVars
<1>8. QED
  BY <1>1, <1>2, <1>5, <1>6, <1>7 DEF Executed, HelperIterate, callerVars

\* Inside a call the history is that of the executed set.
LEMMA HistoryFrame ==
  ASSUME HistoryInv, pc \notin {"idle", "leave"}, pc' \notin {"idle", "leave"},
         runs' = runs, Executed' = Executed
  PROVE  HistoryInv'
BY DEF HistoryInv, ExactlyOnce

\* The history follows an iteration of either thread.
LEMMA HistoryStep ==
  ASSUME IInv, pc \notin {"idle", "leave"}, pc' = pc,
         NEW x \in Word, x \notin Executed,
         runs' = [runs EXCEPT ![x] = @ + 1],
         Executed' = Executed \cup {x}
  PROVE  HistoryInv'
<1>1. runs = [i \in Word |-> IF i \in Executed THEN 1 ELSE 0]
  BY DEF IInv, HistoryInv
<1>2. runs' = [i \in Word |-> IF i \in Executed \cup {x} THEN 1 ELSE 0]
  BY <1>1
<1>3. QED
  BY <1>2 DEF HistoryInv, ExactlyOnce

\* What the two halves of a range that is not far apart, or the direct path,
\* leave behind when the call is over.
LEMMA HistoryLeave ==
  ASSUME TypeOK, runs = [i \in Word |-> IF i \in Iterations(begin, end) THEN 1 ELSE 0],
         runs' = runs, begin' = begin, end' = end, pc' = "leave"
  PROVE  HistoryInv'
<1>1. ~FarApart(begin, end) \/ Iterations(begin, end) = {}
  BY Empty, MaxIntAssumption DEF FarApart, TypeOK, Word, MinInt
<1>2. \A i \in Word : i \in Iterations(begin, end) <=> begin <= i /\ i < end
  BY DEF Iterations
<1>3. ExactlyOnce'
  BY <1>1, <1>2 DEF ExactlyOnce, Iterations, FarApart, Word, MinInt
<1>4. QED
  BY <1>3 DEF HistoryInv

\* What the two halves of a range whose bounds are far apart leave behind.
LEMMA HistoryLeaveFar ==
  ASSUME TypeOK, FarApart(begin, end),
         runs = [i \in Word |-> IF i \in Iterations(begin, mid) \cup Iterations(mid, end)
                                THEN 1 ELSE 0],
         runs' = runs, begin' = begin, end' = end, pc' = "leave"
  PROVE  HistoryInv'
<1>1. Iterations(begin, end) = {}
  BY Empty, MaxIntAssumption DEF FarApart, TypeOK, Word, MinInt
<1>2. \A i \in Iterations(begin, mid) \cup Iterations(mid, end) :
        begin <= i \/ i < end
  BY DEF Iterations
<1>3. \A i \in Word : runs[i] \in {0, 1} /\ (runs[i] = 1 => begin <= i \/ i < end)
  BY <1>2
<1>4. ExactlyOnce'
  BY <1>1, <1>3 DEF ExactlyOnce, FarApart, Iterations, Word, MinInt
<1>5. QED
  BY <1>4 DEF HistoryInv

\* What has been executed when the created thread is joined.
LEMMA JoinExecuted ==
  ASSUME IInv, Join
  PROVE  Executed = Iterations(begin, mid) \cup Iterations(mid, end)
<1> USE DEF IInv, TypeOK
<1>1. LowDone = mid /\ HighDone = IF mid < end THEN end ELSE mid
  BY DEF Join, LowDone, HighDone, SplitInv
<1>2. mid \in Word /\ end \in Word /\ (mid < end \/ (mid <= mid /\ end <= mid))
  BY DEF Word, MinInt
<1>3. Iterations(mid, HighDone) = Iterations(mid, end)
  BY <1>1, <1>2, Empty
<1>4. QED
  BY <1>1, <1>3 DEF Join, Executed

\* Every step preserves the inductive invariant.
LEMMA NextIInv == IInv /\ [Next]_vars => IInv'
<1> SUFFICES ASSUME IInv, [Next]_vars
             PROVE  ThreadInv' /\ SplitInv' /\ HistoryInv'
  BY NextTypeOK DEF IInv
<1> USE DEF IInv
<1>0. TypeOK /\ ThreadInv /\ SplitInv /\ HistoryInv
  OBVIOUS
<1>1. ASSUME NEW k \in Kinds, NEW r \in Ranges, NEW c \in 0 .. MaxCost,
             Call(k, r[1], r[2], c)
      PROVE  ThreadInv' /\ SplitInv' /\ HistoryInv'
  <2>1. <<r[1], r[2]>> \in Ranges
    BY RuntimeAssumption
  <2>2. hpc' = "none" /\ pc' = "gate"
    BY <1>1 DEF Call, ThreadInv
  <2>3. ThreadInv'
    BY <1>1, <2>1, <2>2 DEF Call, ThreadInv
  <2>4. SplitInv'
    BY <2>2 DEF SplitInv
  <2>5. Executed' = {}
    BY <2>2 DEF Executed
  <2>6. HistoryInv'
    BY <1>1, <2>5 DEF HistoryInv, ExactlyOnce, Call
  <2>7. QED
    BY <2>3, <2>4, <2>6
<1>2. CASE GateDirect
  <2>1. ThreadInv'
    BY <1>2 DEF GateDirect, ThreadInv
  <2>2. SplitInv'
    BY <1>2 DEF GateDirect, SplitInv, Within, ThreadInv, Activation, TypeOK, Word, MinInt
  <2>3. Executed = {} /\ Executed' = Iterations(begin, begin)
    BY <1>2 DEF GateDirect, Executed, Activation
  <2>4. HistoryInv'
    BY <1>2, <2>3, Empty, HistoryFrame DEF GateDirect, TypeOK, Word, MinInt
  <2>5. QED
    BY <2>1, <2>2, <2>4
<1>3. CASE GateSplit
  <2>1. ThreadInv'
    BY <1>3 DEF GateSplit, ThreadInv, TypeOK, Frames
  <2>2. frame'.lo = Midpoint /\ frame'.hi = end
    BY <1>3 DEF GateSplit, TypeOK, Frames
  <2>3. SplitInv'
    BY <1>3, <2>2, SplitStep DEF GateSplit, SplitInv, ThreadInv, TripCount
  <2>4. HistoryInv'
    BY <1>3, HistoryFrame DEF GateSplit, Executed
  <2>5. QED
    BY <2>1, <2>3, <2>4
<1>4. CASE CreateSucceeds
  <2>1. ThreadInv'
    BY <1>4 DEF CreateSucceeds, ThreadInv
  <2>2. SplitInv'
    <3>1. Within(begin, begin, mid)
      BY DEF Within, TypeOK, Word, MinInt
    <3>2. QED
      BY <1>4, <3>1 DEF CreateSucceeds, SplitInv, Within, Activation, TripCount
  <2>3. LowDone' = begin /\ HighDone' = mid
    BY <1>4 DEF CreateSucceeds, LowDone, HighDone, Activation
  <2>4. Executed = {} /\ Executed' = Iterations(begin, begin) \cup Iterations(mid, mid)
    BY <1>4, <2>3 DEF CreateSucceeds, Executed
  <2>5. Iterations(begin, begin) = {} /\ Iterations(mid, mid) = {}
    BY Empty DEF TypeOK, Word, MinInt
  <2>6. HistoryInv'
    BY <1>4, <2>4, <2>5, HistoryFrame DEF CreateSucceeds
  <2>7. QED
    BY <2>1, <2>2, <2>6
<1>5. CASE CreateFails
  <2>1. ThreadInv'
    BY <1>5 DEF CreateFails, ThreadInv
  <2>2. SplitInv'
    BY <1>5 DEF CreateFails, SplitInv, Within, ThreadInv, Activation, TypeOK, Word, MinInt
  <2>3. Executed = {} /\ Executed' = Iterations(begin, begin)
    BY <1>5 DEF CreateFails, Executed, Activation
  <2>4. HistoryInv'
    BY <1>5, <2>3, Empty, HistoryFrame DEF CreateFails, TypeOK, Word, MinInt
  <2>5. QED
    BY <2>1, <2>2, <2>4
<1>6. CASE MainIterate
  <2>1. ThreadInv'
    BY <1>6 DEF MainIterate, ThreadInv
  <2>2. /\ main.iv \in Int /\ main.iv < main.last
        /\ main'.iv = main.iv + 1 /\ main'.last = main.last
    BY <1>6, MainStep DEF MainIterate, Word
  <2>3. begin \in Int /\ end \in Int /\ mid \in Int
    BY DEF TypeOK, Word
  <2>4. UNCHANGED <<pc, begin, end, cost, mid, frame, hpc, helper>>
    BY <1>6 DEF MainIterate
  <2>5. SplitInv'
    BY <2>2, <2>3, <2>4 DEF SplitInv, Within, TripCount
  <2>6. HistoryInv'
    BY <1>6, MainStep, HistoryStep DEF MainIterate
  <2>7. QED
    BY <2>1, <2>5, <2>6
<1>7. CASE LowReturns
  <2>1. ThreadInv'
    BY <1>7 DEF LowReturns, ThreadInv
  <2>2. SplitInv'
    BY <1>7 DEF LowReturns, SplitInv, TripCount
  <2>3. Iterations(begin, main.iv) = Iterations(begin, mid)
    BY <1>7, Finished DEF LowReturns, SplitInv, TypeOK, Activations
  <2>4. HistoryInv'
    BY <1>7, <2>3, HistoryFrame DEF LowReturns, Executed, LowDone, HighDone
  <2>5. QED
    BY <2>1, <2>2, <2>4
<1>8. CASE DirectReturns
  <2>1. ThreadInv'
    BY <1>8 DEF DirectReturns, ThreadInv
  <2>2. SplitInv'
    BY <1>8 DEF DirectReturns, SplitInv, ThreadInv
  <2>3. Iterations(begin, main.iv) = Iterations(begin, end)
    BY <1>8, Finished DEF DirectReturns, SplitInv, TypeOK, Activations
  <2>4. runs = [i \in Word |-> IF i \in Iterations(begin, end) THEN 1 ELSE 0]
    BY <1>8, <2>3 DEF DirectReturns, HistoryInv, Executed
  <2>5. HistoryInv'
    BY <1>8, <2>4, HistoryLeave DEF DirectReturns
  <2>6. QED
    BY <2>1, <2>2, <2>5
<1>9. CASE Join
  <2>1. ThreadInv'
    BY <1>9 DEF Join, ThreadInv
  <2>2. SplitInv'
    BY <1>9 DEF Join, SplitInv
  <2>3. Executed = Iterations(begin, mid) \cup Iterations(mid, end)
    BY <1>9, JoinExecuted
  <2>4. runs = [i \in Word |-> IF i \in Iterations(begin, mid) \cup Iterations(mid, end)
                               THEN 1 ELSE 0]
    BY <1>9, <2>3 DEF Join, HistoryInv
  <2>5. HistoryInv'
    <3>1. CASE FarApart(begin, end)
      BY <1>9, <2>4, <3>1, HistoryLeaveFar DEF Join
    <3>2. CASE ~FarApart(begin, end)
      <4>1. begin <= mid /\ mid <= end
        BY <1>9, <3>2 DEF Join, SplitInv
      <4>2. Iterations(begin, mid) \cup Iterations(mid, end) = Iterations(begin, end)
        BY <4>1, Concat DEF TypeOK
      <4>3. QED
        BY <1>9, <2>4, <4>2, HistoryLeave DEF Join
    <3>3. QED
      BY <3>1, <3>2
  <2>6. QED
    BY <2>1, <2>2, <2>5
<1>10. CASE Return
  BY <1>10 DEF Return, ThreadInv, SplitInv, HistoryInv, ExactlyOnce, TypeOK, Frames
<1>11. CASE HelperLoads
  <2>1. pc \in {"low", "join"}
    BY <1>11 DEF HelperLoads, ThreadInv
  <2>2. helper' = Activation(mid, end)
    BY <1>11, <2>1 DEF HelperLoads, SplitInv
  <2>3. ThreadInv'
    BY <1>11 DEF HelperLoads, ThreadInv, callerVars
  <2>4. SplitInv'
    BY <1>11, <2>1, <2>2
    DEF HelperLoads, SplitInv, Within, callerVars, Activation, TripCount, TypeOK, Word, MinInt
  <2>5. LowDone' = LowDone /\ HighDone = mid /\ HighDone' = mid
    BY <1>11, <2>2 DEF HelperLoads, LowDone, HighDone, callerVars, Activation
  <2>6. HistoryInv'
    BY <1>11, <2>1, <2>5, HistoryFrame DEF HelperLoads, Executed, callerVars
  <2>7. QED
    BY <2>3, <2>4, <2>6
<1>12. CASE HelperIterate
  <2>1. ThreadInv' /\ pc \notin {"idle", "leave"} /\ pc' = pc
    BY <1>12 DEF HelperIterate, ThreadInv, callerVars
  <2>2. SplitInv'
    <3>1. mid \in Int /\ end \in Int /\ helper.iv \in Int
      BY <1>12, HelperStep DEF TypeOK, Word, MinInt
    <3>2. helper.last = end /\ mid <= helper.iv /\ helper.iv < helper.last
      BY <1>12 DEF HelperIterate, SplitInv, Within
    <3>3. helper'.last = end /\ Within(mid, helper'.iv, end)
      BY <1>12, <3>1, <3>2, HelperStep DEF Within
    <3>4. QED
      BY <1>12, <3>3 DEF HelperIterate, SplitInv, Within, callerVars, TripCount
  <2>3. HistoryInv'
    BY <1>12, <2>1, HelperStep, HistoryStep DEF HelperIterate
  <2>4. QED
    BY <2>1, <2>2, <2>3
<1>13. CASE HelperReturns
  <2>1. helper.iv = IF mid < end THEN end ELSE mid
    BY <1>13, Finished DEF HelperReturns, SplitInv, TypeOK, Activations
  <2>2. ThreadInv' /\ pc \in {"low", "join"}
    BY <1>13 DEF HelperReturns, ThreadInv, callerVars
  <2>3. SplitInv'
    BY <1>13, <2>1 DEF HelperReturns, SplitInv, Within, callerVars, TripCount
  <2>4. LowDone' = LowDone /\ HighDone' = HighDone
    BY <1>13 DEF HelperReturns, LowDone, HighDone, callerVars
  <2>5. HistoryInv'
    BY <1>13, <2>2, <2>4, HistoryFrame DEF HelperReturns, Executed, callerVars
  <2>6. QED
    BY <2>2, <2>3, <2>5
<1>14. CASE HelperStores
  <2>1. ThreadInv' /\ pc \in {"low", "join"}
    BY <1>14 DEF HelperStores, ThreadInv, callerVars, TypeOK, Frames
  <2>2. SplitInv'
    BY <1>14 DEF HelperStores, SplitInv, Within, callerVars, TripCount, TypeOK, Frames
  <2>3. LowDone' = LowDone /\ HighDone' = HighDone
    BY <1>14 DEF HelperStores, LowDone, HighDone, callerVars
  <2>4. HistoryInv'
    BY <1>14, <2>1, <2>3, HistoryFrame DEF HelperStores, Executed, callerVars
  <2>5. QED
    BY <2>1, <2>2, <2>4
<1>15. CASE UNCHANGED vars
  <2>1. Executed' = Executed
    BY <1>15 DEF vars, Executed, LowDone, HighDone
  <2>2. QED
    BY <1>15, <2>1
    DEF vars, ThreadInv, SplitInv, Within, TripCount, HistoryInv, ExactlyOnce
<1>16. QED
  BY <1>1, <1>2, <1>3, <1>4, <1>5, <1>6, <1>7, <1>8, <1>9, <1>10, <1>11,
     <1>12, <1>13, <1>14, <1>15
  DEF Next, CallNext, MainNext, HelperNext

\* The inductive invariant always holds, whatever ranges the program passes.
THEOREM RangesInvariant == Spec => []IInv
BY InitIInv, NextIInv, PTL DEF Spec

\* Every iteration of the range is executed exactly once before a helper
\* returns, and no other one unless the bounds are far apart, when some may
\* be executed, at most once: for every word width, threshold and range,
\* whether the thread is created or not, in every interleaving.
THEOREM ExecutesExactlyOnce == Spec => []ExactlyOnce
<1>1. IInv => ExactlyOnce
  BY DEF IInv, HistoryInv
<1>2. QED
  BY <1>1, RangesInvariant, PTL

\* The stack record is never used after its frame is closed.
THEOREM FrameSafe == Spec => []FrameOutlivesThread
<1>1. IInv => FrameOutlivesThread
  BY DEF IInv, ThreadInv, FrameOutlivesThread
<1>2. QED
  BY <1>1, RangesInvariant, PTL

\* A range that reaches the split has a positive estimate and is nonempty
\* and no longer than MaxInt, or empty with bounds that are far apart.
THEOREM EmptyStaysDirect == Spec => []NearEmptyDirect
<1>1. ASSUME IInv PROVE NearEmptyDirect
  <2>1. begin \in Word /\ end \in Word
    BY <1>1 DEF IInv, TypeOK
  <2>2. SubW(end, begin) >= 1 => end - begin <= MaxInt
    BY <2>1, MaxIntAssumption DEF SubW, WrapOnce, Word, MinInt, Modulus
  <2>3. QED
    BY <1>1, <2>2 DEF IInv, SplitInv, TripCount, NearEmptyDirect
<1>2. QED
  BY <1>1, RangesInvariant, PTL

\* The pending iterations of the two threads are disjoint and unexecuted.
THEOREM DisjointChunks == Spec => []ChunksDisjoint
<1>1. ASSUME IInv PROVE ChunksDisjoint
  <2> USE <1>1 DEF IInv, TypeOK
  <2>1. ASSUME pc \in {"low", "direct"}, NEW i \in Iterations(main.iv, main.last)
        PROVE  i \in Word /\ i \notin Executed
    <3>1. i \in Int /\ main.iv \in Int /\ main.last \in Int /\ mid \in Int
      BY DEF Iterations, Activations, Word, MinInt
    <3>2. main.iv <= i /\ i < main.last
      BY DEF Iterations
    <3>3. CASE pc = "direct"
      BY <3>1, <3>2, <3>3 DEF Executed, Iterations
    <3>4. CASE pc = "low"
      <4>1. main.last = mid
        BY <3>4 DEF SplitInv
      <4>2. Executed = Iterations(begin, main.iv) \cup Iterations(mid, HighDone)
        BY <3>4 DEF Executed, LowDone
      <4>3. QED
        BY <3>1, <3>2, <4>1, <4>2 DEF Iterations
    <3>5. QED
      BY <2>1, <3>3, <3>4 DEF Iterations
  <2>2. ASSUME hpc = "run", NEW i \in Iterations(helper.iv, helper.last)
        PROVE  i \in Word /\ i \notin Executed
    <3>1. /\ i \in Int /\ helper.iv \in Int /\ mid \in Int
          /\ main.iv \in Int /\ begin \in Int
      BY DEF Iterations, Activations, Word, MinInt
    <3>2. helper.iv <= i /\ mid <= helper.iv
      BY <2>2 DEF Iterations, SplitInv, Within
    <3>3. pc \in {"low", "join"}
      BY <2>2 DEF ThreadInv
    <3>4. LowDone \in Int /\ (LowDone <= mid \/ LowDone = begin)
      BY <3>1, <3>3 DEF LowDone, SplitInv, Within
    <3>5. Executed = Iterations(begin, LowDone) \cup Iterations(mid, helper.iv)
      BY <2>2, <3>3 DEF Executed, HighDone
    <3>6. QED
      BY <3>1, <3>2, <3>4, <3>5 DEF Iterations
  <2>3. ASSUME pc = "low", hpc = "run"
        PROVE  Iterations(main.iv, main.last) \cap Iterations(helper.iv, helper.last) = {}
    <3>1. main.last = mid /\ mid <= helper.iv /\ mid \in Int /\ helper.iv \in Int
      BY <2>3 DEF SplitInv, Within, Activations, Word, MinInt
    <3>2. QED
      BY <3>1 DEF Iterations, Word, MinInt
  <2>4. pc \notin {"idle", "leave"} =>
          \A i \in Word : i \notin Executed => runs[i] = 0
    BY DEF HistoryInv
  <2>5. hpc = "run" => pc \notin {"idle", "leave"}
    BY DEF ThreadInv
  <2>6. QED
    BY <2>1, <2>2, <2>3, <2>4, <2>5 DEF ChunksDisjoint
<1>2. QED
  BY <1>1, RangesInvariant, PTL

-----------------------------------------------------------------------------
(* Reductions.                                                             *)

\* Prefix sums are words.
LEMMA PrefixType ==
  ASSUME NEW i \in Word
  PROVE  Prefix[i] \in Word
BY RuntimeAssumption

\* One more iteration extends the running sum of an activation.
LEMMA Accumulate ==
  ASSUME NEW a \in Word, NEW w \in Activations, w.iv < w.last,
         kind = "reduce", w.acc = SubW(Prefix[w.iv], Prefix[a])
  PROVE  Iterate(w).acc = SubW(Prefix[Iterate(w).iv], Prefix[a])
<1>1. w.iv \in Word /\ w.iv + 1 \in Word
  BY Increment DEF Activations
<1>2. Iterate(w).iv = w.iv + 1
  BY IterateFacts
<1>3. Iterate(w).acc = AddW(SubW(Prefix[w.iv], Prefix[a]),
                            SubW(Prefix[w.iv + 1], Prefix[w.iv]))
  BY IterateFacts DEF Addend
<1>4. QED
  BY <1>1, <1>2, <1>3, PrefixType, Telescope

\* The sum of an activation that is done.
LEMMA FinishedSum ==
  ASSUME NEW a \in Word, NEW x \in Word, NEW b \in Word,
         x = IF a < b THEN b ELSE a
  PROVE  SubW(Prefix[x], Prefix[a]) = RangeSum(a, b)
BY PrefixType, SubWSelf DEF RangeSum

\* The sums of two halves add up to that of the range.
LEMMA JoinedSum ==
  ASSUME NEW a \in Word, NEW m \in Word, NEW b \in Word, a <= m, m <= b
  PROVE  AddW(RangeSum(a, m), RangeSum(m, b)) = RangeSum(a, b)
<1>0. Prefix[a] \in Word /\ Prefix[m] \in Word /\ Prefix[b] \in Word
  BY PrefixType
<1>1. /\ SubW(Prefix[m], Prefix[a]) = RangeSum(a, m)
      /\ SubW(Prefix[b], Prefix[m]) = RangeSum(m, b)
      /\ SubW(Prefix[b], Prefix[a]) = RangeSum(a, b)
  <2>1. /\ m = IF a < m THEN m ELSE a
        /\ b = IF m < b THEN b ELSE m
        /\ b = IF a < b THEN b ELSE a
    BY DEF Word, MinInt
  <2>2. QED
    BY <2>1, FinishedSum
<1>2. QED
  BY <1>0, <1>1, Telescope

\* Every step preserves the sums.
LEMMA NextSumInv == IInv /\ SumInv /\ [Next]_vars => SumInv'
<1> SUFFICES ASSUME IInv, SumInv, [Next]_vars
             PROVE  SumInv'
  OBVIOUS
<1> USE DEF IInv
<1>w. /\ begin \in Word /\ end \in Word /\ mid \in Word
      /\ main.iv \in Word /\ helper.iv \in Word
  BY DEF TypeOK, Activations
<1>z. \A a \in Word : SubW(Prefix[a], Prefix[a]) = 0
  BY PrefixType, SubWSelf
<1> DEFINE Vouched == kind = "reduce" /\ "reduce" \notin Clobbers
<1>1. ASSUME NEW k \in Kinds, NEW r \in Ranges, NEW c \in 0 .. MaxCost,
             Call(k, r[1], r[2], c)
      PROVE  SumInv'
  BY <1>1 DEF Call, SumInv, ReductionExact, ThreadInv
<1>2. CASE GateDirect
  BY <1>2, <1>w, <1>z DEF GateDirect, SumInv, ReductionExact, ThreadInv, Activation
<1>3. CASE GateSplit
  BY <1>3 DEF GateSplit, SumInv, ReductionExact, ThreadInv
<1>4. CASE CreateSucceeds
  BY <1>4, <1>w, <1>z DEF CreateSucceeds, SumInv, ReductionExact, Activation
<1>5. CASE CreateFails
  BY <1>5, <1>w, <1>z DEF CreateFails, SumInv, ReductionExact, ThreadInv, Activation
<1>6. CASE MainIterate
  <2>1. Vouched => main'.acc = SubW(Prefix[main'.iv], Prefix[begin])
    BY <1>6, <1>w, Accumulate DEF MainIterate, SumInv, TypeOK
  <2>2. QED
    BY <1>6, <2>1 DEF MainIterate, SumInv, ReductionExact, RangeSum
<1>7. CASE LowReturns
  <2>1. main.iv = IF begin < mid THEN mid ELSE begin
    BY <1>7, <1>w, Finished DEF LowReturns, SplitInv
  <2>2. Vouched => main.acc = RangeSum(begin, mid)
    BY <1>7, <1>w, <2>1, FinishedSum DEF LowReturns, SumInv
  <2>3. QED
    BY <1>7, <2>2 DEF LowReturns, SumInv, ReductionExact, RangeSum
<1>8. CASE DirectReturns
  <2>1. hpc = "none"
    BY <1>8 DEF DirectReturns, ThreadInv
  <2>2. main.iv = IF begin < end THEN end ELSE begin
    BY <1>8, <1>w, Finished DEF DirectReturns, SplitInv
  <2>3. Vouched => main.acc = RangeSum(begin, end)
    BY <1>8, <1>w, <2>2, FinishedSum DEF DirectReturns, SumInv
  <2>4. QED
    BY <1>8, <2>1, <2>3 DEF DirectReturns, SumInv, ReductionExact, RangeSum
<1>9. CASE Join
  <2>1. ~FarApart(begin, end) => begin <= mid /\ mid <= end
    BY <1>9 DEF Join, SplitInv
  <2>2. Vouched /\ ~FarApart(begin, end)
          => AddW(partial, frame.sum) = RangeSum(begin, end)
    BY <1>9, <1>w, <2>1, JoinedSum DEF Join, SumInv
  <2>3. QED
    BY <1>9, <2>2 DEF Join, SumInv, ReductionExact, RangeSum
<1>10. CASE Return
  BY <1>10 DEF Return, SumInv, ReductionExact, ThreadInv
<1>11. CASE HelperLoads
  <2>1. helper' = Activation(mid, end) /\ pc \in {"low", "join"}
    BY <1>11 DEF HelperLoads, SplitInv, ThreadInv
  <2>2. QED
    BY <1>11, <1>w, <1>z, <2>1
    DEF HelperLoads, SumInv, ReductionExact, RangeSum, callerVars, Activation
<1>12. CASE HelperIterate
  <2>1. Vouched => helper'.acc = SubW(Prefix[helper'.iv], Prefix[mid])
    BY <1>12, <1>w, Accumulate DEF HelperIterate, SumInv, TypeOK
  <2>2. QED
    BY <1>12, <2>1 DEF HelperIterate, SumInv, ReductionExact, RangeSum, callerVars
<1>13. CASE HelperReturns
  BY <1>13 DEF HelperReturns, SumInv, ReductionExact, RangeSum, callerVars
<1>14. CASE HelperStores
  <2>1. helper.iv = IF mid < end THEN end ELSE mid
    BY <1>14 DEF HelperStores, SplitInv
  <2>2. SubW(Prefix[helper.iv], Prefix[mid]) = RangeSum(mid, end)
    BY <1>w, <2>1, FinishedSum
  <2>3. Vouched => frame'.sum = RangeSum(mid, end)
    BY <1>14, <2>2 DEF HelperStores, SumInv, TypeOK, Frames
  <2>4. QED
    BY <1>14, <2>3 DEF HelperStores, SumInv, ReductionExact, RangeSum, callerVars
<1>15. CASE UNCHANGED vars
  BY <1>15 DEF vars, SumInv, ReductionExact, RangeSum
<1>16. QED
  BY <1>1, <1>2, <1>3, <1>4, <1>5, <1>6, <1>7, <1>8, <1>9, <1>10, <1>11,
     <1>12, <1>13, <1>14, <1>15
  DEF Next, CallNext, MainNext, HelperNext

\* The running sums are right in every reachable state.
LEMMA SumsInvariant == Spec => []SumInv
<1>1. Init => SumInv
  BY DEF Init, SumInv, ReductionExact
<1>2. QED
  BY <1>1, NextSumInv, RangesInvariant, PTL DEF Spec

\* A reduction returns the wrapped sum of its addends, whatever the split
\* and the interleaving: for every word width and every assignment of
\* addends and every range whose bounds are not far apart, provided no
\* worker of a reduction passes a fifth integer argument to a callee.
THEOREM ReductionsExact ==
  ASSUME "reduce" \notin Clobbers
  PROVE  Spec => []ReductionExact
<1>1. SumInv => ReductionExact
  BY DEF SumInv, ReductionExact
<1>2. QED
  BY <1>1, SumsInvariant, PTL

-----------------------------------------------------------------------------
(* The helpers implement their contract.                                   *)

\* A for helper leaves the result of its call alone.
LEMMA ForResult == Spec => []ForInv
<1>1. Init => ForInv
  BY DEF Init, ForInv
<1>2. ForInv /\ [Next]_vars => ForInv'
  BY DEF ForInv, Next, CallNext, MainNext, HelperNext, vars, callerVars, Call,
     GateDirect, GateSplit, CreateSucceeds, CreateFails, MainIterate,
     LowReturns, DirectReturns, Join, Return,
     HelperLoads, HelperIterate, HelperReturns, HelperStores
<1>3. QED
  BY <1>1, <1>2, PTL DEF Spec

\* An iteration of either thread is one the contract still owes.
LEMMA IterationOwed ==
  ASSUME IInv, pc \notin {"idle", "leave"}, NEW x \in Word, x \notin Executed,
         runs' = [runs EXCEPT ![x] = @ + 1]
  PROVE  runs[x] = 0 /\ runs' = [runs EXCEPT ![x] = 1]
<1>1. runs[x] = 0
  BY DEF IInv, HistoryInv
<1>2. runs[x] + 1 = 1
  BY <1>1
<1>3. QED
  BY <1>1, <1>2

\* The contract speaks of the same words, ranges and sums.
LEMMA SameNotions ==
  /\ Contract!Word = Word
  /\ \A a, b : Contract!Iterations(a, b) = Iterations(a, b)
  /\ \A a, b : Contract!RangeSum(a, b) = RangeSum(a, b)
  /\ \A a, b : Contract!FarApart(a, b) = FarApart(a, b)
BY DEF Word, MinInt, Iterations, RangeSum, SubW, WrapOnce, Modulus, FarApart,
   Contract!FarApart, Contract!Word, Contract!MinInt, Contract!Iterations, Contract!RangeSum,
   Contract!SubW, Contract!WrapOnce, Contract!Modulus

\* What a helper leaves in the result register is something the contract
\* allows.
LEMMA ResultAllowed ==
  ASSUME pc' = "leave", begin' = begin, end' = end, kind' = kind,
         IInv', SumInv', ForInv', pc # "idle"
  PROVE  result' \in Contract!Results
<1>1. kind \in {"for", "reduce"} /\ result' \in Word
  BY DEF IInv, TypeOK, Kinds
<1>2. CASE kind = "for"
  BY <1>2 DEF ForInv, Contract!Results
<1>3. CASE kind = "reduce"
  <2>1. ("reduce" \notin Clobbers /\ ~FarApart(begin, end))
          => result' = RangeSum(begin, end)
    BY <1>3 DEF SumInv, ReductionExact, RangeSum, FarApart
  <2>2. QED
    BY <1>1, <1>3, <2>1, SameNotions DEF Contract!Results
<1>4. QED
  BY <1>1, <1>2, <1>3

\* Every step of the helpers is a step of the contract or leaves its state
\* unchanged.
LEMMA StepRefines ==
  IInv /\ IInv' /\ SumInv' /\ ForInv' /\ [Next]_vars
    => [Contract!Next]_(Contract!cvars)
<1> SUFFICES ASSUME IInv, IInv', SumInv', ForInv', [Next]_vars
             PROVE  [Contract!Next]_(Contract!cvars)
  OBVIOUS
<1> USE DEF IInv, Contract!cvars
<1>w. /\ begin \in Word /\ end \in Word /\ mid \in Word
      /\ main.iv \in Word /\ helper.iv \in Word
  BY DEF TypeOK, Activations
<1>1. ASSUME NEW k \in Kinds, NEW r \in Ranges, NEW c \in 0 .. MaxCost,
             Call(k, r[1], r[2], c)
      PROVE  Contract!Enter
  <2>1. r[1] \in Word /\ r[2] \in Word
    BY RuntimeAssumption
  <2>2. QED
    BY <1>1, <2>1, SameNotions DEF Call, Contract!Enter
<1>2. CASE GateDirect
  BY <1>2 DEF GateDirect
<1>3. CASE GateSplit
  BY <1>3 DEF GateSplit
<1>4. CASE CreateSucceeds
  BY <1>4 DEF CreateSucceeds
<1>5. CASE CreateFails
  BY <1>5 DEF CreateFails
<1>6. CASE MainIterate
  <2>1. main.iv \in Word /\ main.iv \notin Executed /\ pc \in {"low", "direct"}
    BY <1>6, MainStep DEF MainIterate
  <2>2. runs[main.iv] = 0 /\ runs' = [runs EXCEPT ![main.iv] = 1]
    BY <1>6, <2>1, IterationOwed DEF MainIterate
  <2>3. main.iv \in Contract!Admissible(begin, end)
    <3>1. /\ begin <= main.iv /\ main.iv < main.last
          /\ main.last = end \/ (main.last = mid /\ (FarApart(begin, end) \/ mid <= end))
      BY <1>6 DEF MainIterate, SplitInv, Within
    <3>2. FarApart(begin, end) \/ main.iv < end
      BY <1>w, <3>1 DEF Word, MinInt
    <3>3. QED
      BY <1>w, <3>1, <3>2, SameNotions DEF Contract!Admissible, Iterations
  <2>4. Contract!Execute(main.iv)
    BY <1>6, <2>1, <2>2, <2>3 DEF MainIterate, Contract!Execute
  <2>5. QED
    BY <2>1, <2>4, SameNotions DEF Contract!Next
<1>7. CASE LowReturns
  BY <1>7 DEF LowReturns
<1>8. CASE DirectReturns
  <2>1. \A i \in Iterations(begin, end) : runs[i] = 1
    BY <1>8 DEF DirectReturns, HistoryInv, ExactlyOnce, Iterations
  <2>2. result' \in Contract!Results
    BY <1>8, ResultAllowed DEF DirectReturns
  <2>3. Contract!Leave
    BY <1>8, <2>1, <2>2, SameNotions DEF DirectReturns, Contract!Leave
  <2>4. QED
    BY <2>3 DEF Contract!Next
<1>9. CASE Join
  <2>1. \A i \in Iterations(begin, end) : runs[i] = 1
    BY <1>9 DEF Join, HistoryInv, ExactlyOnce, Iterations
  <2>2. result' \in Contract!Results
    BY <1>9, ResultAllowed DEF Join
  <2>3. Contract!Leave
    BY <1>9, <2>1, <2>2, SameNotions DEF Join, Contract!Leave
  <2>4. QED
    BY <2>3 DEF Contract!Next
<1>10. CASE Return
  BY <1>10 DEF Return
<1>11. CASE HelperLoads
  BY <1>11 DEF HelperLoads, callerVars
<1>12. CASE HelperIterate
  <2>1. helper.iv \in Word /\ helper.iv \notin Executed /\ pc \in {"low", "join"}
    BY <1>12, HelperStep DEF HelperIterate, ThreadInv
  <2>2. runs[helper.iv] = 0 /\ runs' = [runs EXCEPT ![helper.iv] = 1]
    BY <1>12, <2>1, IterationOwed DEF HelperIterate
  <2>3. helper.iv \in Contract!Admissible(begin, end)
    <3>1. /\ mid <= helper.iv /\ helper.iv < end
          /\ FarApart(begin, end) \/ begin <= mid
      BY <1>12, <2>1 DEF HelperIterate, SplitInv, Within
    <3>2. FarApart(begin, end) \/ begin <= helper.iv
      BY <1>w, <3>1 DEF Word, MinInt
    <3>3. QED
      BY <1>w, <3>1, <3>2, SameNotions DEF Contract!Admissible, Iterations
  <2>4. Contract!Execute(helper.iv)
    BY <1>12, <2>1, <2>2, <2>3 DEF HelperIterate, callerVars, Contract!Execute
  <2>5. QED
    BY <2>1, <2>4, SameNotions DEF Contract!Next
<1>13. CASE HelperReturns
  BY <1>13 DEF HelperReturns, callerVars
<1>14. CASE HelperStores
  BY <1>14 DEF HelperStores, callerVars
<1>15. CASE UNCHANGED vars
  BY <1>15 DEF vars
<1>16. QED
  BY <1>1, <1>2, <1>3, <1>4, <1>5, <1>6, <1>7, <1>8, <1>9, <1>10, <1>11,
     <1>12, <1>13, <1>14, <1>15
  DEF Next, CallNext, MainNext, HelperNext, Contract!Next

\* The runtime helpers implement the contract of a range call, whatever
\* ranges the program passes and whatever its workers do to x4: the requested
\* iterations, each once, before the return; no other one unless the bounds
\* are far apart; and, in the cases the contract vouches for, the wrapped sum
\* as the result of a reduction.
THEOREM RuntimeImplementsContract == Spec => ImplementsContract
<1>1. Init => Contract!Init
  BY SameNotions DEF Init, Contract!Init
<1>2. QED
  BY <1>1, StepRefines, RangesInvariant, SumsInvariant, ForResult, PTL
  DEF Spec, ImplementsContract, Contract!Spec

=============================================================================
