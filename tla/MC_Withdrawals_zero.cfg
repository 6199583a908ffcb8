CONSTANTS
    v1 = v1
    v2 = v2
    v3 = v3
    Validators <- MCValidators
    WgBits = 3
    MaxQueries = 2
SPECIFICATION Spec
INVARIANT WithdrawOnlyNonzeroRewards
