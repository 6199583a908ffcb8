\* Acknowledgements may be lost.  The two queries count at most 2 * 3 = 6
\* operations, below 2^3, so the waitgroup cannot wrap (NoWrap).
CONSTANTS
    v1 = v1
    v2 = v2
    v3 = v3
    Validators <- MCValidators
    WgBits = 3
    MaxQueries = 2
SPECIFICATION LossySpec
INVARIANTS
    WaitgroupCoversOutstanding
PROPERTIES
    WaitgroupStepsExact
    WaitgroupCountsSentUnderLoss
