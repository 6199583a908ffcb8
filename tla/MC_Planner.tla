----------------------------- MODULE MC_Planner -----------------------------
(***************************************************************************)
(* Bounded exhaustive check of the allocation planner.  The initial state  *)
(* is one call's inputs: the zone's holdings per validator (as             *)
(* GetDelegationMap returns them, with their sum), a target intent over    *)
(* TargetVals and a deposit; the one step, Plan, is the call of            *)
(* DeterminePlanForDelegation, which records the allocation returned.      *)
(* Holdings may include validators outside the target (a validator every   *)
(* delegator has since removed from its intent).                           *)
(***************************************************************************)
EXTENDS AllocationPlanner

CONSTANTS
    TargetVals,   \* validators of the aggregate intent
    HeldVals,     \* validators holding delegations; may exceed TargetVals
    Holdings,     \* amounts a validator may hold
    Deposits      \* deposit amounts

ASSUME PlannerInputsAssumption ==
    /\ TargetVals # {} /\ TargetVals \subseteq Nat
    /\ HeldVals \subseteq Nat
    /\ Holdings \subseteq Nat /\ Deposits \subseteq Nat \ {0}

VARIABLES cur, tgt, in, plan

vars == <<cur, tgt, in, plan>>

NoPlan == [v \in {} |-> 0]

\* Target weights are Decs summing to one, as AggregateIntents leaves them
\* up to rounding.
Targets == {t \in [TargetVals -> 0..Precision] : SumFunction(t) = Precision}

Init ==
    /\ cur \in [HeldVals -> Holdings]
    /\ tgt \in Targets
    /\ in \in Deposits
    /\ plan = NoPlan

\* DeterminePlanForDelegation (delegation.go:158-163).
Plan ==
    /\ plan = NoPlan
    /\ plan' = DetermineAllocationsForDelegation(cur, SumFunction(cur), tgt, in)
    /\ UNCHANGED <<cur, tgt, in>>

Next == Plan

Spec == Init /\ [][Next]_vars

Planned == plan # NoPlan

D == CalculateDeltas(cur, SumFunction(cur), tgt)
-----------------------------------------------------------------------------
TypeOK ==
    /\ cur \in [HeldVals -> Holdings]
    /\ tgt \in Targets
    /\ in \in Deposits
    /\ plan \in [TargetVals -> Int] \cup {NoPlan}

\* Every validator gets a non-negative amount: the shift by |min delta|
\* and the dust keep every weight non-negative (delegation.go:213-249).
PlanNonNegative == Planned => \A v \in TargetVals : plan[v] >= 0

\* The plan never hands out more than the deposit, and what it loses to
\* truncation is less than one token per validator (delegation.go:244-249).
PlanShortfallBounded ==
    Planned =>
        LET total == SumFunction(plan)
        IN  total <= in /\ in - total < Cardinality(TargetVals)

\* A validator further below its target never gets less than one closer to
\* it: the proportional split, the equal split and the dust placed on the
\* highest delta all respect the order of the deltas.
PlanMonotoneInDelta ==
    Planned => \A v, w \in TargetVals : D[v] > D[w] => plan[v] >= plan[w]

\* Spec 8, "Conservation": the plan distributes exactly the deposit.
Conservation == Planned => SumFunction(plan) = in

\* The comment at delegation.go:242 and the test's dust handling
\* (delegation_test.go:121-124): the dust goes to the first validator in
\* alphabetical order, and every other validator gets its truncated weight.
DustToAlphabeticallyFirst ==
    Planned =>
        LET first == CHOOSE v \in TargetVals : \A w \in TargetVals : v <= w
        IN  \A v \in TargetVals \ {first} :
                plan[v] = TruncateInt(Weighted(D, in)[v])

\* Spec 4.4 step 2: the floor shift makes the smallest delta zero, so when
\* the deposit does not exceed the total gap to target, a validator with
\* the smallest delta (most over its target) gets nothing, unless it is the
\* one that takes the dust.
MostOverTargetGetsNothing ==
    Planned =>
        LET gap == SumFunction([v \in TargetVals |-> D[v] - MinDeltas(D)])
        IN  in <= gap =>
              \A v \in TargetVals :
                  D[v] = MinDeltas(D) /\ v # FirstInOrder(D) => plan[v] = 0
=============================================================================
