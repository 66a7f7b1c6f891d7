------------------------- MODULE MCParallelRuntime -------------------------
(***************************************************************************)
(* Small instance of ParallelRuntime: 3-bit words, so that a range can be  *)
(* longer than MaxInt and the subtraction of the bounds wraps.             *)
(***************************************************************************)
EXTENDS ParallelRuntime

\* Prefix sums whose differences cover positive, negative and wrapping
\* addends.
MCPrefix ==
  [i \in Word |-> CASE i % 4 = 0 -> MaxInt
                    [] i % 4 = 1 -> MinInt
                    [] i % 4 = 2 -> 1
                    [] OTHER -> i]

\* Every pair of bounds.
AllRanges == Word \X Word

=============================================================================
