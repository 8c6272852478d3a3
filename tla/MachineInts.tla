------------------------------ MODULE MachineInts ------------------------------
(***************************************************************************)
(* The integers of the machine cactc is built for: what a value too large  *)
(* for them becomes.                                                       *)
(***************************************************************************)
EXTENDS Integers

\* b^n, as a function that proofs can unfold.
Power(b, n) ==
  LET power[i \in 0..n] == IF i = 0 THEN 1 ELSE b * power[i - 1] IN power[n]

\* The low bits of v, read as two's complement: what gcc and clang make of a
\* cast that narrows, and of a product that does not fit.
TwosComplement(bits, v) == ((v + Power(2, bits - 1)) % Power(2, bits)) - Power(2, bits - 1)
=============================================================================
