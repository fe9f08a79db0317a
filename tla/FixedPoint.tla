----------------------------- MODULE FixedPoint -----------------------------
(***************************************************************************)
(* The checked fixed-point arithmetic of src/src/math: Decimal (192 bits)  *)
(* and Rate (128 bits).  Both hold a natural number scaled by Wad, so both *)
(* are modelled by that scaled number, and the operations the two types    *)
(* share take the largest value w of the type as a parameter.              *)
(*                                                                         *)
(* A Rust Result is a natural number or Err; every operator passes an Err  *)
(* operand on, as the `?` after each call in the source does.              *)
(***************************************************************************)
EXTENDS Integers

CONSTANTS
  Wad,       \* WAD, 10^18 in the source: the scaled value of 1
  MaxU64,    \* u64::MAX, the range of a token amount
  MaxU128,   \* the range of a Rate and of a packed Decimal
  MaxU192    \* the range of a Decimal

(***************************************************************************)
(* What the widths of the source guarantee: a token amount scaled by Wad,  *)
(* and Wad itself, fit a Rate, and a 128-bit number scaled by Wad fits a   *)
(* Decimal, so that the unchecked products in Decimal::from never wrap.  A *)
(* percent is a whole number of units of Wad.                              *)
(***************************************************************************)
ASSUME FixedPointAssumption ==
  /\ Wad \in Nat \ {0} /\ Wad % 100 = 0
  /\ MaxU64 \in Nat \ {0} /\ MaxU128 \in Nat /\ MaxU192 \in Nat
  /\ MaxU64 * Wad <= MaxU128
  /\ Wad * Wad <= MaxU128
  /\ MaxU128 * Wad <= MaxU192

Err == -1

DecimalMax == MaxU192
RateMax    == MaxU128

One     == Wad
HalfWad == Wad \div 2

Checked(x, w) == IF x \in 0..w THEN x ELSE Err

Decimal(n)     == Wad * n
FromPercent(n) == n * (Wad \div 100)

TryAdd(a, b, w) == IF Err \in {a, b} THEN Err ELSE Checked(a + b, w)

TrySub(a, b, w) == IF Err \in {a, b} THEN Err ELSE Checked(a - b, w)

\* Multiplication and division by a u64.
TryMulInt(a, n, w) == IF a = Err THEN Err ELSE Checked(a * n, w)

TryDivInt(a, n) == IF a = Err \/ n = 0 THEN Err ELSE a \div n

\* Multiplication and division by another fixed-point number: the product
\* is taken first and is what may overflow; the quotient is truncated.
TryMul(a, b, w) ==
  IF Err \in {a, b} \/ Checked(a * b, w) = Err THEN Err ELSE (a * b) \div Wad

TryDiv(a, b, w) ==
  IF Err \in {a, b} \/ b = 0 \/ Checked(a * Wad, w) = Err
  THEN Err
  ELSE (a * Wad) \div b

\* Conversions to a token amount: to the nearest (half up), up and down.
TryRoundU64(a, w) ==
  IF a = Err \/ Checked(HalfWad + a, w) = Err
  THEN Err
  ELSE Checked((HalfWad + a) \div Wad, MaxU64)

TryCeilU64(a) ==
  IF a = Err \/ Checked((Wad - 1) + a, DecimalMax) = Err
  THEN Err
  ELSE Checked(((Wad - 1) + a) \div Wad, MaxU64)

TryFloorU64(a) == IF a = Err THEN Err ELSE Checked(a \div Wad, MaxU64)

\* Decimal::to_scaled_val: what fits 128 bits, for packing and Rate::try_from.
ToScaledVal(a) == IF a = Err THEN Err ELSE Checked(a, MaxU128)

=============================================================================
