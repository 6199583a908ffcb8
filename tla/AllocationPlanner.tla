-------------------------- MODULE AllocationPlanner --------------------------
(***************************************************************************)
(* The allocation planner of x/interchainstaking/keeper/delegation.go:     *)
(* calculateDeltas, minDeltas and DetermineAllocationsForDelegation, which *)
(* split a deposit of `in` tokens across the validators of the zone's      *)
(* target intent, given the zone's current holdings.                       *)
(*                                                                         *)
(* Validator addresses are numbers: the code compares valoper strings with *)
(* Go's `>`, and the numeric order stands for that lexicographic order.    *)
(* Weights are Decs (module FixedPoint).  The planner is a pure function;  *)
(* every step is an operator taking the deltas `d` (validator -> Int) it   *)
(* is computed from.                                                       *)
(***************************************************************************)
EXTENDS FixedPoint, FiniteSets, Functions

\* Mutant of CalculateDeltas: deltas also taken for validators that hold
\* delegations but have no target entry.
CalculateDeltasOverHeld(cur, csum, tgt) ==
    [v \in DOMAIN tgt \cup DOMAIN cur |->
        (IF v \in DOMAIN tgt THEN TruncateInt(MulInt(tgt[v], csum)) ELSE 0)
          - (IF v \in DOMAIN cur THEN cur[v] ELSE 0)]

\* calculateDeltas: for each validator of the target, the truncated target
\* amount weight * currentSum minus the current holding (0 when absent).
CalculateDeltas(cur, csum, tgt) ==
    [v \in DOMAIN tgt |->
        TruncateInt(MulInt(tgt[v], csum))
          - (IF v \in DOMAIN cur THEN cur[v] ELSE 0)]

\* minDeltas: the lowest delta.  The code starts from math.MaxInt64, which
\* only matters for an empty target, where line 245 then panics; the
\* planner is only called with a non-empty target.
MinDeltas(d) ==
    CHOOSE m \in {d[v] : v \in DOMAIN d} : \A v \in DOMAIN d : m <= d[v]

\* The two sort.SliceStable calls: by address descending, then (stably) by
\* delta descending.  deltas[0] is the validator first in that order.
Precedes(d, v, w) == d[v] > d[w] \/ (d[v] = d[w] /\ v > w)

\* Mutant of FirstInOrder: the delta comparator flipped to ascending.
LastInOrder(d) ==
    CHOOSE v \in DOMAIN d : \A w \in DOMAIN d \ {v} : Precedes(d, w, v)

FirstInOrder(d) ==
    CHOOSE v \in DOMAIN d : \A w \in DOMAIN d \ {v} : Precedes(d, v, w)

\* Every delta raised by |minValue| (a Dec), and their truncated sum.
\* Mutant of Shifted: minValue added without Abs.
ShiftedSigned(d) == [v \in DOMAIN d |-> ToDec(d[v]) + ToDec(MinDeltas(d))]

Shifted(d) == [v \in DOMAIN d |-> ToDec(d[v]) + ToDec(AbsInt(MinDeltas(d)))]

ShiftedSum(d) == SumFunction([v \in DOMAIN d |-> TruncateInt(Shifted(d)[v])])

\* unequalSplit = MinInt(sum, input)
UnequalSplit(d, in) == IF ShiftedSum(d) < in THEN ShiftedSum(d) ELSE in

\* Lines 222-228: each weight becomes weight.QuoInt(sum).MulInt(unequalSplit)
\* unless unequalSplit is zero.
Proportional(d, in) ==
    IF UnequalSplit(d, in) # 0
    THEN [v \in DOMAIN d |->
            MulInt(QuoInt(Shifted(d)[v], ShiftedSum(d)), UnequalSplit(d, in))]
    ELSE Shifted(d)

\* equalSplit, and the share `each` of it every validator gets.
EqualSplit(d, in) == ToDec(in - UnequalSplit(d, in))

Each(d, in) == Quo(EqualSplit(d, in), ToDec(Cardinality(DOMAIN d)))

\* Lines 230-240: `each` added to every weight when equalSplit is non-zero.
Weighted(d, in) ==
    IF EqualSplit(d, in) # 0
    THEN [v \in DOMAIN d |-> Proportional(d, in)[v] + Each(d, in)]
    ELSE Proportional(d, in)

\* outSum: the sum of the weights after the last of the two loops that ran.
\* Mutant of OutSum: the `rezero outsum` of line 234 dropped.
OutSumNotRezeroed(d, in) ==
    (IF UnequalSplit(d, in) # 0 THEN SumFunction(Proportional(d, in)) ELSE 0)
      + (IF EqualSplit(d, in) # 0 THEN SumFunction(Weighted(d, in)) ELSE 0)

OutSum(d, in) ==
    IF EqualSplit(d, in) # 0 \/ UnequalSplit(d, in) # 0
    THEN SumFunction(Weighted(d, in))
    ELSE 0

\* dust = input - outSum.TruncateInt()
Dust(d, in) == in - TruncateInt(OutSum(d, in))

\* Lines 244-252: the dust added to deltas[0], then every weight truncated.
Allocate(d, in) ==
    [v \in DOMAIN d |->
        TruncateInt(Weighted(d, in)[v]
                      + (IF v = FirstInOrder(d) THEN ToDec(Dust(d, in)) ELSE 0))]

DetermineAllocationsForDelegation(cur, csum, tgt, in) ==
    Allocate(CalculateDeltas(cur, csum, tgt), in)

=============================================================================
