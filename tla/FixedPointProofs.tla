------------------------- MODULE FixedPointProofs -------------------------
(***************************************************************************)
(* Lemmas about the sdk.Dec arithmetic of module FixedPoint, for every     *)
(* Precision allowed by PrecisionAssumption.                               *)
(***************************************************************************)
EXTENDS FixedPoint, TLAPS

\* Euclidean division of naturals.
LEMMA DivBounds ==
    ASSUME NEW a \in Nat, NEW b \in Nat \ {0}
    PROVE  /\ a \div b \in Nat
           /\ (a \div b) * b <= a
           /\ a < (a \div b) * b + b
           /\ a % b \in 0..(b - 1)
           /\ a % b = a - (a \div b) * b
<1>1. a % b \in 0..(b - 1)
  BY Z3
<1>2. a % b = a - (a \div b) * b
  BY Z3
<1>3. (a \div b) * b <= a /\ a < (a \div b) * b + b
  BY Z3
<1>4. a \div b \in Nat
  BY Z3
<1>. QED BY <1>1, <1>2, <1>3, <1>4

\* big.Int.Quo of naturals is floor division.
LEMMA TruncQuoNat ==
    ASSUME NEW a \in Nat, NEW b \in Nat \ {0}
    PROVE  TruncQuo(a, b) = a \div b
BY DEF TruncQuo, AbsInt

\* The rounding of chopPrecisionAndRound leaves a multiple of Precision
\* exactly as it is.
LEMMA ChopRoundMultiple ==
    ASSUME NEW y \in Int
    PROVE  ChopRound(y * Precision) = y
<1>1. Precision \in Nat \ {0}
  BY PrecisionAssumption
<1>2. ASSUME NEW z \in Nat PROVE ChopRoundNonNeg(z * Precision) = z
  <2>1. (z * Precision) \div Precision = z /\ (z * Precision) % Precision = 0
    BY <1>1, Z3
  <2>. QED BY <1>1, <2>1 DEF ChopRoundNonNeg
<1>3. CASE y >= 0
  BY <1>1, <1>2, <1>3 DEF ChopRound
<1>4. CASE y < 0
  <2>1. -(y * Precision) = (-y) * Precision /\ -y \in Nat
    BY <1>1, <1>4
  <2>2. y * Precision < 0
    BY <1>1, <1>4, Z3
  <2>. QED BY <1>2, <2>1, <2>2 DEF ChopRound
<1>. QED BY <1>3, <1>4

\* Dec.Mul by an integer-valued Dec (ToDec(i), as the intent code does
\* with RedemptionRate * balance and weight * balance) is exact: no rounding.
THEOREM MulToDecExact ==
    ASSUME NEW d \in Int, NEW i \in Int
    PROVE  Mul(d, ToDec(i)) = d * i
<1>1. Precision \in Nat \ {0}
  BY PrecisionAssumption
<1>2. d * (i * Precision) = (d * i) * Precision /\ d * i \in Int
  BY <1>1, Z3
<1>. QED BY <1>2, ChopRoundMultiple DEF Mul, ToDec


\* Dec.QuoTruncate of naturals is the exact quotient a / b, in Decs,
\* rounded down: it never rounds up and loses less than one unit of the
\* last decimal place (Normalize, validator.go:43-58, relies on both).
THEOREM QuoTruncateBounds ==
    ASSUME NEW a \in Nat, NEW b \in Nat \ {0}
    PROVE  /\ QuoTruncate(a, b) \in Nat
           /\ QuoTruncate(a, b) * b <= a * Precision
           /\ a * Precision < QuoTruncate(a, b) * b + b
<1> DEFINE P == Precision
           x == a * P * P
           t == TruncQuo(x, b)
           q == TruncQuo(t, P)
<1>1. P \in Nat \ {0} /\ x \in Nat /\ a * P \in Nat
  BY PrecisionAssumption, Z3
<1>2. /\ t \in Nat
      /\ t * b <= x
      /\ x < t * b + b
  BY <1>1, TruncQuoNat, DivBounds
<1>3. /\ q \in Nat
      /\ q * P <= t
      /\ t < q * P + P
  BY <1>1, <1>2, TruncQuoNat, DivBounds
<1>4. QuoTruncate(a, b) = q
  BY DEF QuoTruncate
<1>5. q * b <= a * P
  <2>1. (q * P) * b <= t * b
    BY <1>1, <1>2, <1>3, Z3
  <2>2. (q * b) * P = (q * P) * b /\ x = (a * P) * P
    BY <1>1, <1>3, Z3
  <2>3. (q * b) * P <= (a * P) * P
    BY <1>1, <1>2, <1>3, <2>1, <2>2
  <2>. QED BY <1>1, <1>3, <2>3, Z3
<1>6. a * P < q * b + b
  <2>1. t * b + b <= (q * P + P) * b
    BY <1>1, <1>2, <1>3, Z3
  <2>2. (q * P + P) * b = (q * b + b) * P /\ x = (a * P) * P
    BY <1>1, <1>3, Z3
  <2>3. (a * P) * P < (q * b + b) * P
    BY <1>1, <1>2, <1>3, <2>1, <2>2
  <2>. QED BY <1>1, <1>3, <2>3, Z3
<1>. QED BY <1>3, <1>4, <1>5, <1>6


\* chopPrecisionAndRound of a natural is its quotient by Precision,
\* rounded down or up.
LEMMA ChopRoundNonNegCases ==
    ASSUME NEW x \in Nat
    PROVE  ChopRound(x) \in {x \div Precision, x \div Precision + 1}
<1>1. ~(x < 0)
  OBVIOUS
<1>. QED BY <1>1 DEF ChopRound, ChopRoundNonNeg

\* chopPrecisionAndRound rounds to nearest: a Dec product or quotient is
\* off by at most half a unit of the last decimal place, either way.
THEOREM ChopRoundNearest ==
    ASSUME NEW x \in Int
    PROVE  2 * AbsInt(ChopRound(x) * Precision - x) <= Precision
<1>1. Precision \in Nat \ {0}
  BY PrecisionAssumption
<1>2. ASSUME NEW z \in Nat
      PROVE  2 * AbsInt(ChopRoundNonNeg(z) * Precision - z) <= Precision
  <2> DEFINE q == z \div Precision
             r == z % Precision
  <2>1. q \in Nat /\ r \in 0..(Precision - 1) /\ r = z - q * Precision
    BY <1>1, DivBounds
  <2>2. CASE 2 * r <= Precision /\ ChopRoundNonNeg(z) = q
    <3>1. q * Precision - z = -r
      BY <1>1, <2>1
    <3>. QED BY <1>1, <2>1, <2>2, <3>1 DEF AbsInt
  <2>3. CASE 2 * r >= Precision /\ ChopRoundNonNeg(z) = q + 1
    <3>1. (q + 1) * Precision - z = Precision - r
      BY <1>1, <2>1, Z3
    <3>. QED BY <1>1, <2>1, <2>3, <3>1 DEF AbsInt
  <2>. QED BY <2>2, <2>3, <2>1, <1>1 DEF ChopRoundNonNeg
<1>3. CASE x >= 0
  BY <1>2, <1>3 DEF ChopRound
<1>4. CASE x < 0
  <2>1. -x \in Nat /\ ChopRound(x) = -ChopRoundNonNeg(-x)
    BY <1>4 DEF ChopRound
  <2>2. ChopRoundNonNeg(-x) \in Int
    BY <1>1, <2>1, DivBounds DEF ChopRoundNonNeg
  <2>3. AbsInt(ChopRound(x) * Precision - x)
          = AbsInt(ChopRoundNonNeg(-x) * Precision - (-x))
    BY <1>1, <2>1, <2>2, Z3 DEF AbsInt
  <2>. QED BY <1>2, <2>1, <2>3
<1>. QED BY <1>3, <1>4

\* Dec.Quo of naturals (AggregateIntents, intent.go:147) is QuoTruncate
\* or one unit more: unlike QuoTruncate, it may round a weight up.
THEOREM QuoRoundsUpAtMostOne ==
    ASSUME NEW a \in Nat, NEW b \in Nat \ {0}
    PROVE  Quo(a, b) \in {QuoTruncate(a, b), QuoTruncate(a, b) + 1}
<1> DEFINE t == TruncQuo(a * Precision * Precision, b)
<1>1. Precision \in Nat \ {0} /\ a * Precision * Precision \in Nat
  BY PrecisionAssumption, Z3
<1>2. t \in Nat
  BY <1>1, TruncQuoNat, DivBounds
<1>3. TruncQuo(t, Precision) = t \div Precision
  BY <1>1, <1>2, TruncQuoNat
<1>. QED BY <1>2, <1>3, ChopRoundNonNegCases DEF Quo, QuoTruncate


\* The equal split of the planner (delegation.go:235): each =
\* equalSplit.Quo(n) with equalSplit = ToDec(e) and n validators.  Because
\* Quo rounds, n * each may exceed the equal split, but by less than n units
\* of the last decimal place; and it falls short of it by less than n.
THEOREM EqualShareBounds ==
    ASSUME NEW e \in Nat, NEW n \in Nat \ {0}
    PROVE  /\ Quo(ToDec(e), ToDec(n)) * n <= ToDec(e) + n
           /\ ToDec(e) < Quo(ToDec(e), ToDec(n)) * n + n
<1> DEFINE P == Precision
           a == ToDec(e)
           b == ToDec(n)
           q == QuoTruncate(a, b)
           each == Quo(a, b)
<1>1. P \in Nat \ {0} /\ a = e * P /\ b = n * P /\ a \in Nat /\ b \in Nat \ {0}
  BY PrecisionAssumption, Z3 DEF ToDec
<1>2. q \in Nat /\ q * b <= a * P /\ a * P < q * b + b
  BY <1>1, QuoTruncateBounds
<1>3. each \in {q, q + 1}
  BY <1>1, QuoRoundsUpAtMostOne
<1>4. q * n <= a /\ a < q * n + n
  <2>1. (q * n) * P <= a * P /\ a * P < (q * n + n) * P
    <3>1. q * b = (q * n) * P /\ q * b + b = (q * n + n) * P
      BY <1>1, <1>2, Z3
    <3>. QED BY <1>1, <1>2, <3>1
  <2>. QED BY <1>1, <1>2, <2>1, Z3
<1>5. each * n <= a + n /\ a < each * n + n
  <2>1. CASE each = q
    BY <1>1, <1>2, <1>4, <2>1
  <2>2. CASE each = q + 1
    <3>1. each * n = q * n + n
      BY <1>2, <2>2, Z3
    <3>. QED BY <1>1, <1>2, <1>4, <3>1
  <2>. QED BY <1>3, <2>1, <2>2
<1>. QED BY <1>5

\* The proportional split of the planner (delegation.go:222-228): a weight
\* w becomes w.QuoInt(sum).MulInt(u).  For naturals, the truncating QuoInt
\* makes it never exceed the exact share w * u / sum.
THEOREM ProportionalShareBound ==
    ASSUME NEW w \in Nat, NEW s \in Nat \ {0}, NEW u \in Nat
    PROVE  /\ MulInt(QuoInt(w, s), u) \in Nat
           /\ MulInt(QuoInt(w, s), u) * s <= w * u
<1>1. QuoInt(w, s) = w \div s
  BY TruncQuoNat DEF QuoInt
<1>2. (w \div s) \in Nat /\ (w \div s) * s <= w
  BY DivBounds
<1>3. ((w \div s) * u) * s <= w * u
  <2>1. ((w \div s) * u) * s = ((w \div s) * s) * u
    BY <1>2, Z3
  <2>2. ((w \div s) * s) * u <= w * u
    BY <1>2, Z3
  <2>. QED BY <1>2, <2>1, <2>2, Z3
<1>4. (w \div s) * u \in Nat
  BY <1>2, Z3
<1>. QED BY <1>1, <1>3, <1>4 DEF MulInt

=============================================================================
