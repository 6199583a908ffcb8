------------------------------- MODULE Intents -------------------------------
(***************************************************************************)
(* Delegator intents and their aggregation (keeper/intent.go and           *)
(* types/validator.go).  A delegator's stored intent is a weight vector    *)
(* over validators (a function from the validators it names to Decs).      *)
(* UpdateIntent merges the validators named by a deposit into it with      *)
(* AddOrdinal; AggregateIntents weighs every stored intent by the          *)
(* delegator's balance of the zone's local denom (qAsset) and normalises   *)
(* their sum into the zone's AggregateIntent.  Bank balances change        *)
(* between these calls (deposits mint, redemptions burn, transfers).       *)
(***************************************************************************)
EXTENDS FixedPoint, FiniteSets, Functions

CONSTANTS
    Delegators,      \* depositor accounts
    Validators,      \* validators of the zone
    Balances,        \* balances an account may hold (both denoms)
    CoinAmounts,     \* amounts of one deposited coin
    RedemptionRate   \* zone.RedemptionRate, a Dec

ASSUME IntentsAssumption ==
    /\ Balances \subseteq Nat /\ 0 \in Balances
    /\ CoinAmounts \subseteq Nat \ {0}
    /\ RedemptionRate \in Nat

VARIABLES
    intents,    \* the live store: delegator -> stored intent (empty: none)
    balance,    \* bank balance of each delegator in zone.LocalDenom
    aggregate   \* zone.AggregateIntent

vars == <<intents, balance, aggregate>>

Empty == [v \in {} |-> 0]

\* A weight vector: a function from some validators to Decs.
IsVector(f) == DOMAIN f \subseteq Validators /\ \A v \in DOMAIN f : f[v] \in Nat

Init ==
    /\ intents = [d \in Delegators |-> Empty]
    /\ balance = [d \in Delegators |-> 0]
    /\ aggregate = Empty

\* GetIntent (intent.go:19-30): the stored intent, or an empty one when
\* the delegator has none.
GetIntent(d) == intents[d]

\* SetIntent (intent.go:32-37): the live-namespace record of d is replaced.
SetIntent(d, vec) == intents' = [intents EXCEPT ![d] = vec]

\* DeleteIntent (intent.go:39-43): the live-namespace record of d is
\* removed; GetIntent then returns an empty intent again.
DeleteIntent(d) ==
    /\ intents' = [intents EXCEPT ![d] = Empty]
    /\ UNCHANGED <<balance, aggregate>>

\* The records IterateIntents (intent.go:45-65) visits: the delegators
\* with a stored intent.
IterateIntents == {d \in Delegators : DOMAIN intents[d] # {}}

\* DelegatorIntent.Ordinalize (validator.go:60-66): every weight times m.
Ordinalize(vec, m) == [v \in DOMAIN vec |-> Mul(vec[v], m)]

\* DelegatorIntent.Normalize (validator.go:43-58): a zero sum is left as it
\* is, otherwise every weight is divided by the sum, truncating.
Normalize(vec) ==
    IF SumFunction(vec) = 0 THEN vec
    ELSE [v \in DOMAIN vec |-> QuoTruncate(vec[v], SumFunction(vec))]

\* Pointwise sum of two weight vectors (the OUTER loop of AddOrdinal).
MergeWeights(a, b) ==
    [v \in DOMAIN a \cup DOMAIN b |->
        (IF v \in DOMAIN a THEN a[v] ELSE 0)
          + (IF v \in DOMAIN b THEN b[v] ELSE 0)]

\* Mutant of AddOrdinal: the trailing Normalize dropped.
AddOrdinalUnnormalized(vec, m, in) ==
    IF DOMAIN in = {} THEN vec
    ELSE MergeWeights(Ordinalize(vec, m), in)

\* DelegatorIntent.AddOrdinal (validator.go:16-41).
AddOrdinal(vec, m, in) ==
    IF DOMAIN in = {} THEN vec
    ELSE Normalize(MergeWeights(Ordinalize(vec, m), in))

\* Zone.UpdateIntentWithCoins (outside src/, from spec 4.2): each deposited
\* coin names a validator; its amount, as a Dec, is that validator's
\* incoming weight.
UpdateIntentWithCoins(vec, m, coins) ==
    AddOrdinal(vec, m, [v \in DOMAIN coins |-> ToDec(coins[v])])

\* UpdateIntent (intent.go:155-184) for a deposit of `coins` by d, whose
\* balance of the base denom is `base`.  An empty result is not stored.
UpdateIntent(d, base, coins) ==
    LET new == UpdateIntentWithCoins(GetIntent(d), Mul(RedemptionRate, ToDec(base)), coins)
    IN  /\ DOMAIN new # {}
        /\ SetIntent(d, new)
        /\ UNCHANGED <<balance, aggregate>>

\* A bank transfer, mint or burn sets d's local-denom balance.
SetBalance(d, b) ==
    /\ balance' = [balance EXCEPT ![d] = b]
    /\ UNCHANGED <<intents, aggregate>>

\* The running map of AggregateIntents (intent.go:115-135): every stored
\* intent ordinalised by its owner's balance, summed per validator.
OrdinalizedSum ==
    [v \in UNION {DOMAIN intents[d] : d \in IterateIntents} |->
        SumFunction([d \in {e \in IterateIntents : v \in DOMAIN intents[e]} |->
                        Mul(intents[d][v], ToDec(balance[d]))])]

\* ordinalizedIntentSum: the grand total of the same weights.
OrdinalizedIntentSum == SumFunction(OrdinalizedSum)

\* The error return of intent.go:140-142.
Degenerate == DOMAIN OrdinalizedSum # {} /\ OrdinalizedIntentSum = 0

\* AggregateIntents (intent.go:109-153): the running map divided by the
\* total with Quo, replacing the zone's aggregate; on the error nothing is
\* saved.
AggregateIntents ==
    /\ ~Degenerate
    /\ aggregate' = [v \in DOMAIN OrdinalizedSum |->
                        Quo(OrdinalizedSum[v], OrdinalizedIntentSum)]
    /\ UNCHANGED <<intents, balance>>

Next ==
    \/ \E d \in Delegators, base \in Balances, v \in Validators, a \in CoinAmounts :
          UpdateIntent(d, base, [u \in {v} |-> a])
    \/ \E d \in Delegators, b \in Balances : SetBalance(d, b)
    \/ \E d \in Delegators : DeleteIntent(d)
    \/ AggregateIntents

Spec == Init /\ [][Next]_vars
-----------------------------------------------------------------------------
TypeOK ==
    /\ DOMAIN intents = Delegators /\ \A d \in Delegators : IsVector(intents[d])
    /\ balance \in [Delegators -> Balances]
    /\ IsVector(aggregate)

\* A stored intent is normalised: its weights sum to at most one and lose
\* less than one unit of the last decimal place per validator to the
\* truncating division, whatever balance it was ordinalised by.
StoredIntentsNormalized ==
    \A d \in Delegators :
        DOMAIN intents[d] # {} =>
            /\ SumFunction(intents[d]) <= Precision
            /\ SumFunction(intents[d]) > Precision - Cardinality(DOMAIN intents[d])

\* Spec 4.1: weights are divided truncating so that no rounding lifts their
\* sum above one; the aggregate target never sums above one.
AggregateWeightsAtMostOne == SumFunction(aggregate) <= Precision

\* intent.go:141: "ordinalized intent sum is zero, this should never happen".
AggregationNeverDegenerate == ~Degenerate
=============================================================================
