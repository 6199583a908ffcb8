----------------------------- MODULE Withdrawals -----------------------------
(***************************************************************************)
(* The completion tracker: the zone's WithdrawalWaitgroup.                 *)
(*                                                                         *)
(* Two kinds of operation are counted in it.  A rewards query for the      *)
(* zone's delegation account counts one when it is issued; its callback    *)
(* takes that one back on the in-memory zone and calls                     *)
(* WithdrawDelegationRewardsForResponse (delegation.go:255-292), which     *)
(* builds one MsgWithdrawDelegatorReward per delegation record with a      *)
(* reward, adds their number, saves the zone (in both branches: "always    *)
(* setZone here because calling method update waitgroup", line 279) and   *)
(* submits the messages as one interchain-account transaction.  Every      *)
(* message is acknowledged separately, and HandleWithdrawRewards           *)
(* decrements the waitgroup once per acknowledgement.  The query, its      *)
(* callback and HandleWithdrawRewards are outside src/ and follow the      *)
(* comment at line 279 and spec 4.5.  Responses and acknowledgements       *)
(* arrive in any order, interleaved with other handlers.                   *)
(*                                                                         *)
(* A query is identified by the number of queries issued before it, and a  *)
(* message by the query it answers and its validator.                      *)
(***************************************************************************)
EXTENDS Integers, FiniteSets

CONSTANTS
    Validators,   \* validators of the zone
    WgBits,       \* width of WithdrawalWaitgroup (uint32: 32)
    MaxQueries    \* bound: rewards queries issued

ASSUME WithdrawalsAssumption ==
    /\ IsFiniteSet(Validators)
    /\ WgBits \in Nat \ {0}
    /\ MaxQueries \in Nat

\* The reward of one delegation in the query response: no entry (or an
\* empty DecCoins), an entry whose coins are all zero, or a positive one.
RewardKinds == {"none", "zero", "positive"}

Msgs == [q : Nat, val : Validators, reward : RewardKinds]

VARIABLES
    delegated,  \* validators with a delegation record of the zone's account
    wg,         \* zone.WithdrawalWaitgroup
    queries,    \* rewards queries issued and not yet answered
    inflight,   \* withdrawal messages submitted and not yet acknowledged
    issued,     \* number of rewards queries issued
    lost        \* messages whose acknowledgement never arrives (fault model)

vars == <<delegated, wg, queries, inflight, issued, lost>>

WgMod == 2^WgBits

Init ==
    /\ delegated = {}
    /\ wg = 0
    /\ queries = {}
    /\ inflight = {}
    /\ issued = 0
    /\ lost = {}

\* SetDelegation (delegation.go:105-112): a record is written.
SetDelegation(v) ==
    /\ delegated' = delegated \cup {v}
    /\ UNCHANGED <<wg, queries, inflight, issued, lost>>

\* RemoveDelegation (delegation.go:114-121): a record is deleted.
RemoveDelegation(v) ==
    /\ v \in delegated
    /\ delegated' = delegated \ {v}
    /\ UNCHANGED <<wg, queries, inflight, issued, lost>>

\* The rewards query (outside src/): issuing it counts one in the waitgroup,
\* which its callback takes back (delegation.go:279).
RequestRewards ==
    /\ issued < MaxQueries
    /\ queries' = queries \cup {issued}
    /\ issued' = issued + 1
    /\ wg' = (wg + 1) % WgMod
    /\ UNCHANGED <<delegated, inflight, lost>>

\* The guard of line 272: !amount.IsZero() || !amount.Empty().
WithdrawGuard(r) == ~(r \in {"none", "zero"}) \/ ~(r = "none")

\* The messages of lines 269-276 for the response to query q: one per
\* delegation record passing the guard.
RewardMsgs(q, resp) ==
    {[q |-> q, val |-> v, reward |-> resp[v]] :
        v \in {u \in delegated : WithdrawGuard(resp[u])}}

\* Mutant of WithdrawDelegationRewardsForResponse: the waitgroup grows by
\* the number of delegation records instead of the number of messages.
WithdrawCountingRecords(zwg, q, resp) ==
    LET msgs == RewardMsgs(q, resp) IN
    /\ wg' = (zwg + Cardinality(delegated)) % WgMod
    /\ inflight' = inflight \cup msgs
    /\ UNCHANGED delegated

\* Mutant of WithdrawDelegationRewardsForResponse: the waitgroup grows by
\* one less than the number of messages sent.
WithdrawUndercounting(zwg, q, resp) ==
    LET msgs == RewardMsgs(q, resp) IN
    \/ /\ msgs = {}
       /\ wg' = zwg
       /\ UNCHANGED inflight
    \/ /\ msgs # {}
       /\ wg' = (zwg + Cardinality(msgs) - 1) % WgMod
       /\ inflight' = inflight \cup msgs
    /\ UNCHANGED delegated

\* Mutant of WithdrawDelegationRewardsForResponse: with no message the zone
\* is not saved, so the caller's update of the waitgroup is dropped.
WithdrawNotSavingEmpty(zwg, q, resp) ==
    LET msgs == RewardMsgs(q, resp) IN
    \/ /\ msgs = {}
       /\ UNCHANGED <<wg, inflight>>
    \/ /\ msgs # {}
       /\ wg' = (zwg + Cardinality(msgs)) % WgMod
       /\ inflight' = inflight \cup msgs
    /\ UNCHANGED delegated

\* WithdrawDelegationRewardsForResponse, called with a zone whose waitgroup
\* is zwg.  With no message (lines 278-282) it saves the zone as it got it;
\* otherwise the waitgroup, a uint32, grows by len(msgs), the zone is saved
\* and SubmitTx sends the messages.  A failed SubmitTx returns an error and
\* the transaction's writes are discarded: a stutter.
WithdrawDelegationRewardsForResponse(zwg, q, resp) ==
    LET msgs == RewardMsgs(q, resp) IN
    \/ /\ msgs = {}
       /\ wg' = zwg
       /\ UNCHANGED inflight
    \/ /\ msgs # {}
       /\ wg' = (zwg + Cardinality(msgs)) % WgMod
       /\ inflight' = inflight \cup msgs
    /\ UNCHANGED delegated

\* The callback of the rewards query (outside src/): the answer to query q
\* decrements the in-memory zone's waitgroup and hands the zone to
\* WithdrawDelegationRewardsForResponse, which saves it.
RewardsCallback(q, resp) ==
    /\ q \in queries
    /\ queries' = queries \ {q}
    /\ WithdrawDelegationRewardsForResponse((wg - 1) % WgMod, q, resp)
    /\ UNCHANGED <<issued, lost>>

\* Mutant of HandleWithdrawRewards: a duplicated acknowledgement is handled
\* twice, decrementing the waitgroup by two.
HandleDuplicatedAck(m) ==
    /\ m \in inflight
    /\ wg' = (wg - 2) % WgMod
    /\ inflight' = inflight \ {m}
    /\ UNCHANGED <<delegated, queries, issued, lost>>

\* HandleWithdrawRewards (outside src/, from spec 4.5): the acknowledgement
\* of one message decrements the waitgroup by one.
HandleWithdrawRewards(m) ==
    /\ m \in inflight
    /\ wg' = (wg - 1) % WgMod
    /\ inflight' = inflight \ {m}
    /\ UNCHANGED <<delegated, queries, issued, lost>>

Responses == [Validators -> RewardKinds]

Next ==
    \/ \E v \in Validators : SetDelegation(v) \/ RemoveDelegation(v)
    \/ RequestRewards
    \/ \E q \in queries, resp \in Responses : RewardsCallback(q, resp)
    \/ \E m \in inflight : HandleWithdrawRewards(m)

\* Spec 1: every query is answered and every acknowledgement delivered.
Fairness ==
    /\ WF_vars(\E q \in queries, resp \in Responses : RewardsCallback(q, resp))
    /\ WF_vars(\E m \in inflight : HandleWithdrawRewards(m))

Spec == Init /\ [][Next]_vars

FairSpec == Spec /\ Fairness

\* Fault model (spec 5): the acknowledgement of a message never arrives
\* (its interchain-account packet times out, or no relayer delivers it), so
\* HandleWithdrawRewards never runs for it.
LoseAck(m) ==
    /\ m \in inflight
    /\ inflight' = inflight \ {m}
    /\ lost' = lost \cup {m}
    /\ UNCHANGED <<delegated, wg, queries, issued>>

LossyNext == Next \/ \E m \in inflight : LoseAck(m)

LossySpec == Init /\ [][LossyNext]_vars

\* The most operations one query accounts for: itself, or the messages of
\* its response, at most one per validator.
PerQuery == IF Validators = {} THEN 1 ELSE Cardinality(Validators)

\* The waitgroup cannot wrap: everything the bounded queries can count fits
\* in WgBits bits (for the code's uint32, 2^32 operations).
NoWrap == MaxQueries * PerQuery < WgMod

\* The waitgroup seen as the abstract completion counter, bounded by all
\* that the bounded queries can count.
Counter == INSTANCE CompletionCounter
               WITH pending <- wg, Bound <- MaxQueries * PerQuery
-----------------------------------------------------------------------------
TypeOK ==
    /\ delegated \subseteq Validators
    /\ wg \in 0..(WgMod - 1)
    /\ queries \subseteq 0..(MaxQueries - 1)
    /\ inflight \subseteq Msgs
    /\ issued \in 0..MaxQueries
    /\ lost \subseteq Msgs

\* WithdrawalWaitgroup counts exactly the operations whose completion is
\* still to come: the rewards queries not yet answered and the withdrawal
\* messages not yet acknowledged.  A query answered with no reward to
\* withdraw must take its own count back through the SetZone of the empty
\* branch (delegation.go:278-282), and a response with k messages must
\* leave the waitgroup at k - 1 more (line 287 on the decremented zone).
WaitgroupTracksOutstanding == wg = Cardinality(queries) + Cardinality(inflight)

\* Even when acknowledgements are lost, the waitgroup never counts fewer
\* operations than are really outstanding: losses can only leave it too
\* high (stuck above zero, spec 5), never release the continuation gated
\* on it while a query or a withdrawal is still in flight.
WaitgroupCoversOutstanding == wg >= Cardinality(queries) + Cardinality(inflight)

\* Every step moves the uint32 waitgroup by exactly the operations it
\* starts minus those it completes, also when acknowledgements are lost: a
\* query issued adds one; its answer removes one and adds the messages it
\* sends (the caller's decrement and line 287, saved together); a handled
\* acknowledgement removes one; a lost one, none.  No step wraps.
WaitgroupStepsExact ==
    [][ wg' - wg =   Cardinality(queries' \ queries)
                   + Cardinality(inflight' \ inflight)
                   - Cardinality(queries \ queries')
                   - Cardinality((inflight \ inflight') \ lost') ]_vars

\* Every batch of withdrawals completes: once the waitgroup is non-zero it
\* returns to zero, the signal the reward distribution waits for.
WithdrawalsComplete == (wg # 0) ~> (wg = 0)

\* The waitgroup behaves as a completion counter (module CompletionCounter):
\* a query or a response with two or more messages raises it by at least
\* one without passing the bound or wrapping the uint32, a response with no
\* message or an acknowledgement lowers it by exactly one, a response with
\* one message and the delegation writes leave it alone, and while it is
\* non-zero a completion is always coming.
WaitgroupImplementsCounter == Counter!FairSpec

\* Even when acknowledgements are lost, the waitgroup moves only as a
\* completion counter does (safety part of module CompletionCounter), and a
\* lost acknowledgement does not move it.  Completions may never come, so
\* the fairness of Counter!FairSpec is not claimed.
WaitgroupCountsSentUnderLoss == Counter!Spec

\* Spec 4.5: an instruction is emitted only for a non-zero reward.
WithdrawOnlyNonzeroRewards == \A m \in inflight : m.reward = "positive"
=============================================================================
