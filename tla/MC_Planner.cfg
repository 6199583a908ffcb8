CONSTANTS
    Precision = 10
    TargetVals = {1, 2, 3}
    HeldVals = {1, 2, 3, 4}
    Holdings = {0, 1, 3, 7, 20}
    Deposits = {1, 2, 5, 9}
INIT Init
NEXT Next
INVARIANTS
    TypeOK
    PlanNonNegative
    PlanShortfallBounded
    PlanMonotoneInDelta
CHECK_DEADLOCK FALSE
