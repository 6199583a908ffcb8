CONSTANTS
    d1 = d1
    d2 = d2
    va = va
    vb = vb
    vc = vc
    Delegators <- MCDelegators
    Validators <- MCValidators3
    Precision = 10
    Balances = {0, 1, 2}
    CoinAmounts = {1, 2}
    RedemptionRate = 10
SPECIFICATION Spec
INVARIANT AggregationNeverDegenerate
