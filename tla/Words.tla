------------------------------- MODULE Words -------------------------------
(***************************************************************************)
(* The machine words of the generated code.  A SysY int is a 32-bit two's  *)
(* complement word; its width is the parameter MaxInt (2^31 - 1 in the     *)
(* code), so that the wrap-around of the AArch64 add and sub instructions  *)
(* on w registers is inside the reach of a small instance.  One add or sub *)
(* of two words leaves the range by less than one modulus, so the wrap is  *)
(* a case split, which keeps every fact about it linear.                   *)
(***************************************************************************)
EXTENDS Integers

CONSTANT MaxInt

ASSUME MaxIntAssumption == MaxInt \in Nat \ {0}

MinInt == -MaxInt - 1

Word == MinInt .. MaxInt

Modulus == 2 * MaxInt + 2

\* The wrap of a result that is at most one modulus outside the word range.
WrapOnce(x) ==
  IF x > MaxInt THEN x - Modulus
  ELSE IF x < MinInt THEN x + Modulus
  ELSE x

AddW(a, b) == WrapOnce(a + b)

SubW(a, b) == WrapOnce(a - b)

=============================================================================
