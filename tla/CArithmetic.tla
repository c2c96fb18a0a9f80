----------------------------- MODULE CArithmetic -----------------------------
(***************************************************************************)
(* The arithmetic of C where it differs from that of TLA+, and the length  *)
(* of the strings utoa.c makes of numbers.                                 *)
(***************************************************************************)
EXTENDS Integers

Uint8(n) == n % 256

\* Division rounds towards zero, the remainder has the sign of the dividend.
CDiv(a, b) == IF a >= 0 THEN a \div b ELSE -((-a) \div b)
CMod(a, b) == a - b * CDiv(a, b)

MaxInt == 2147483647

\* utoa() makes one digit at least.
Digits[n \in 0 .. MaxInt] == IF n < 10 THEN 1 ELSE 1 + Digits[n \div 10]

\* The parameter of utoa() is unsigned: a negative int becomes a number of
\* 2^31 at least.
UnsignedDigits(n) == IF n < 0 THEN 10 ELSE Digits[n]
=============================================================================
