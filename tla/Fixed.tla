-------------------------------- MODULE Fixed ---------------------------------
(***************************************************************************)
(* Q15 arithmetic (fixed.hpp): integers from -One to One stand for -1 to   *)
(* 1.  Division truncates towards zero, as it does in the code.            *)
(***************************************************************************)
EXTENDS Integers

CONSTANT One            \* kQ15One, and the end of the HID axis

ASSUME OneAssumption == One \in Nat \ {0}

Q15 == -One .. One

Clamp(value, low, high) ==
    IF value < low THEN low ELSE IF value > high THEN high ELSE value

Abs32(value) == IF value < 0 THEN -value ELSE value

\* Integer division of the code, for a positive divisor.
Quotient(dividend, divisor) ==
    IF dividend < 0 THEN -((-dividend) \div divisor) ELSE dividend \div divisor

ClampQ15(value) == Clamp(value, -One, One)

\* Mutant: the quotient is rounded down.
MulQ15Floored(lhs, rhs) == ClampQ15((lhs * rhs) \div One)

MulQ15(lhs, rhs) == ClampQ15(Quotient(lhs * rhs, One))

=============================================================================
