\* Two queries over three validators: at most 6 operations are counted,
\* below 2^3 (NoWrap).
CONSTANTS
    v1 = v1
    v2 = v2
    v3 = v3
    Validators <- MCValidators
    WgBits = 3
    MaxQueries = 2
SPECIFICATION FairSpec
INVARIANTS
    WaitgroupTracksOutstanding
PROPERTIES
    WithdrawalsComplete
    WaitgroupImplementsCounter
