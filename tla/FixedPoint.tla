----------------------------- MODULE FixedPoint -----------------------------
(***************************************************************************)
(* The fixed-point decimal type sdk.Dec of the Cosmos SDK, used by the     *)
(* allocation planner and the intent code for every weight.  A Dec is an   *)
(* integer d standing for d / Precision; the SDK's Precision is 10^18, a   *)
(* model uses a small power of ten.  Integer division in Go (big.Int.Quo)  *)
(* truncates toward zero, which TLA+'s \div (floor) does not, so it is     *)
(* written out; the rounding of Mul and Quo is the SDK's                   *)
(* chopPrecisionAndRound (round half to even).                             *)
(***************************************************************************)
EXTENDS Integers

CONSTANT Precision

ASSUME PrecisionAssumption == Precision \in Nat \ {0}

AbsInt(x) == IF x < 0 THEN -x ELSE x

\* big.Int.Quo: the quotient truncated toward zero.
TruncQuo(a, b) ==
    IF (a < 0) = (b < 0) THEN AbsInt(a) \div AbsInt(b)
                         ELSE -(AbsInt(a) \div AbsInt(b))

\* chopPrecisionAndRound: divide by Precision, rounding half to even,
\* symmetrically for negative values.
ChopRoundNonNeg(x) ==
    LET q == x \div Precision
        r == x % Precision
    IN  IF 2 * r < Precision THEN q
        ELSE IF 2 * r > Precision THEN q + 1
        ELSE IF q % 2 = 0 THEN q ELSE q + 1

ChopRound(x) == IF x < 0 THEN -ChopRoundNonNeg(-x) ELSE ChopRoundNonNeg(x)

\* sdk.Int.ToDec / sdk.NewDecFromInt: the integer i as a Dec.
ToDec(i) == i * Precision

\* Dec.TruncateInt: the integer part, truncated toward zero.
TruncateInt(d) == TruncQuo(d, Precision)

\* Dec.MulInt and Dec.QuoInt: exact product, truncated quotient.
MulInt(d, i) == d * i
QuoInt(d, i) == TruncQuo(d, i)

\* Dec.Mul: the product, rounded to Precision.
Mul(d1, d2) == ChopRound(d1 * d2)

\* Dec.Quo: (d1 * P * P) / d2 truncated, then rounded to Precision.
Quo(d1, d2) == ChopRound(TruncQuo(d1 * Precision * Precision, d2))

\* Dec.QuoTruncate: as Quo, but the last step truncates.
QuoTruncate(d1, d2) == TruncQuo(TruncQuo(d1 * Precision * Precision, d2), Precision)

=============================================================================
