-------------------------- MODULE WithdrawalsProofs --------------------------
(***************************************************************************)
(* Proofs about the completion tracker (module Withdrawals), for every     *)
(* set of validators and every width and bound in which the waitgroup      *)
(* cannot wrap (NoWrap), with and without lost acknowledgements.           *)
(*                                                                         *)
(* The invariants are not inductive by themselves.  LInv states what the   *)
(* waitgroup is: the queries not yet answered plus the messages not yet    *)
(* acknowledged plus the lost ones.  To keep that exact through a step it *)
(* needs that the messages of a response are fresh (their query was still *)
(* unanswered, while every message sent or lost belongs to an answered     *)
(* query), that the sets are finite and disjoint, and that the waitgroup  *)
(* stays below 2^WgBits: each answered query has sent at most one message  *)
(* per validator, so the waitgroup is at most the unanswered queries plus  *)
(* |Validators| per answered one, and NoWrap bounds that.                  *)
(***************************************************************************)
EXTENDS Withdrawals, FiniteSetTheorems, TLAPS

\* The queries answered so far.
Answered == issued - Cardinality(queries)

LInv ==
    /\ TypeOK
    /\ IsFiniteSet(inflight) /\ IsFiniteSet(lost)
    /\ inflight \cap lost = {}
    /\ queries \subseteq 0..(issued - 1)
    /\ \A m \in inflight \cup lost : m.q < issued /\ m.q \notin queries
    /\ wg = Cardinality(queries) + Cardinality(inflight) + Cardinality(lost)
    /\ wg <= Cardinality(queries) + Answered * Cardinality(Validators)

\* Below the modulus, the waitgroup's wrapping arithmetic is exact.
LEMMA ModBelow ==
    ASSUME NEW x \in Int, NEW m \in Nat, 0 <= x, x < m
    PROVE  x % m = x
BY Z3

\* Facts about the constants.
LEMMA ConstantFacts ==
    /\ Cardinality(Validators) \in Nat
    /\ WgMod \in Int
    /\ MaxQueries \in Nat
    /\ PerQuery \in Nat /\ 1 <= PerQuery
    /\ Cardinality(Validators) <= PerQuery
<1>1. Cardinality(Validators) \in Nat
  BY FS_CardinalityType, WithdrawalsAssumption
<1>2. 2^WgBits \in Int
  BY WithdrawalsAssumption
<1>3. Validators # {} => Cardinality(Validators) # 0
  BY FS_EmptySet, WithdrawalsAssumption
<1>4. Validators = {} => Cardinality(Validators) = 0
  BY FS_EmptySet
<1>5. PerQuery \in Nat /\ 1 <= PerQuery /\ Cardinality(Validators) <= PerQuery
  <2>1. CASE Validators = {}
    BY <1>4, <2>1 DEF PerQuery
  <2>2. CASE Validators # {}
    BY <1>1, <1>3, <2>2 DEF PerQuery
  <2>. QED BY <2>1, <2>2
<1>. QED BY <1>1, <1>2, <1>5, WithdrawalsAssumption DEF WgMod

\* Under NoWrap the modulus is positive and exceeds every count the
\* bounded queries can make.
LEMMA NoWrapFacts ==
    ASSUME NoWrap
    PROVE  /\ MaxQueries * PerQuery \in Nat
           /\ WgMod \in Nat /\ 0 < WgMod
<1>1. MaxQueries * PerQuery \in Nat /\ WgMod \in Int
  BY ConstantFacts
<1>. QED BY <1>1 DEF NoWrap

\* Unanswered queries plus |Validators| per answered one never exceed
\* PerQuery per query issued.
LEMMA BoundArith ==
    ASSUME NEW c \in Nat, NEW a \in Nat, NEW n \in Nat, NEW p \in Nat,
           n <= p, 1 <= p
    PROVE  c + a * n <= (c + a) * p
<1>1. a * n <= a * p
  BY Z3
<1>2. c <= c * p
  BY Z3
<1>3. (c + a) * p = c * p + a * p
  BY Z3
<1>. QED BY <1>1, <1>2, <1>3, Z3

\* The unanswered queries are finitely many, at most those issued.
LEMMA QueriesFacts ==
    ASSUME LInv
    PROVE  /\ IsFiniteSet(queries)
           /\ Cardinality(queries) \in Nat
           /\ Cardinality(queries) <= issued
           /\ issued \in Nat
           /\ Answered \in Nat
<1>1. issued \in Nat
  BY ConstantFacts DEF LInv, TypeOK
<1>2. IsFiniteSet(0..(issued - 1)) /\ Cardinality(0..(issued - 1)) = issued
  BY <1>1, FS_Interval
<1>3. IsFiniteSet(queries) /\ Cardinality(queries) <= issued
  BY <1>2, FS_Subset DEF LInv
<1>4. Cardinality(queries) \in Nat
  BY <1>3, FS_CardinalityType
<1>. QED BY <1>1, <1>3, <1>4 DEF Answered

\* The waitgroup is within the bound of the abstract counter.
LEMMA WithinBound ==
    ASSUME LInv
    PROVE  wg <= issued * PerQuery
<1> DEFINE c == Cardinality(queries)
           n == Cardinality(Validators)
<1>1. c \in Nat /\ Answered \in Nat /\ issued \in Nat /\ c + Answered = issued
  BY QueriesFacts DEF Answered
<1>2. n \in Nat /\ PerQuery \in Nat /\ n <= PerQuery /\ 1 <= PerQuery
  BY ConstantFacts
<1>3. c + Answered * n <= (c + Answered) * PerQuery
  BY <1>1, <1>2, BoundArith
<1>4. (c + Answered) * PerQuery = issued * PerQuery
  BY <1>1
<1>5. wg <= c + Answered * n /\ wg \in Nat
  BY DEF LInv, TypeOK
<1>6. c + Answered * n \in Int /\ issued * PerQuery \in Int
  BY <1>1, <1>2
<1>. QED BY <1>3, <1>4, <1>5, <1>6

\* The messages of one response are finitely many records of Msgs, at most
\* one per validator, all carrying the query they answer.
LEMMA RewardMsgsFacts ==
    ASSUME TypeOK, NEW q \in Nat, NEW resp \in Responses
    PROVE  /\ IsFiniteSet(RewardMsgs(q, resp))
           /\ RewardMsgs(q, resp) \subseteq Msgs
           /\ \A m \in RewardMsgs(q, resp) : m.q = q
           /\ Cardinality(RewardMsgs(q, resp)) \in Nat
           /\ Cardinality(RewardMsgs(q, resp)) <= Cardinality(Validators)
<1> DEFINE Q == {u \in delegated : WithdrawGuard(resp[u])}
           Op(v) == [q |-> q, val |-> v, reward |-> resp[v]]
<1>1. /\ IsFiniteSet(Q)
      /\ Cardinality(Q) <= Cardinality(Validators)
      /\ Cardinality(Q) \in Nat /\ Cardinality(Validators) \in Nat
  BY FS_Subset, FS_CardinalityType, WithdrawalsAssumption DEF TypeOK
<1>2. [v \in Q |-> Op(v)] \in Surjection(Q, {Op(v) : v \in Q})
  BY DEF Surjection
<1>3. /\ IsFiniteSet({Op(v) : v \in Q})
      /\ Cardinality({Op(v) : v \in Q}) <= Cardinality(Q)
  BY <1>1, <1>2, FS_Surjection
<1>4. Cardinality({Op(v) : v \in Q}) \in Nat
  BY <1>3, FS_CardinalityType
<1>5. RewardMsgs(q, resp) = {Op(v) : v \in Q}
  BY DEF RewardMsgs
<1>6. RewardMsgs(q, resp) \subseteq Msgs
  BY <1>5 DEF TypeOK, Msgs, Responses
<1>. QED BY <1>1, <1>3, <1>4, <1>5, <1>6

\* Issuing a query adds one to the waitgroup without wrapping: the query
\* is fresh, and the waitgroup stays within PerQuery per query issued.
LEMMA RequestEffect ==
    ASSUME NoWrap, LInv, RequestRewards
    PROVE  /\ issued \notin queries
           /\ queries' = queries \cup {issued}
           /\ issued' = issued + 1 /\ issued + 1 <= MaxQueries
           /\ wg' = wg + 1 /\ wg + 1 < WgMod
           /\ wg + 1 <= MaxQueries * PerQuery
           /\ UNCHANGED <<delegated, inflight, lost>>
<1> DEFINE P == PerQuery
<1>1. /\ issued \in Nat /\ wg \in Nat /\ MaxQueries \in Nat
      /\ P \in Nat /\ 1 <= P
      /\ MaxQueries * P \in Nat /\ WgMod \in Nat /\ MaxQueries * P < WgMod
  BY ConstantFacts, NoWrapFacts, QueriesFacts DEF LInv, TypeOK, NoWrap
<1>2. wg <= issued * P
  BY WithinBound
<1>3. issued < MaxQueries
  BY DEF RequestRewards
<1>4. (issued + 1) * P <= MaxQueries * P /\ (issued + 1) * P = issued * P + P
  BY <1>1, <1>3, Z3
<1>5. wg + 1 <= MaxQueries * P /\ wg + 1 < WgMod
  BY <1>1, <1>2, <1>4
<1>6. (wg + 1) % WgMod = wg + 1
  BY <1>1, <1>5, ModBelow
<1>7. issued \notin queries
  BY <1>1 DEF LInv
<1>. QED BY <1>1, <1>3, <1>5, <1>6, <1>7 DEF RequestRewards

\* The answer to query q removes the query's one and adds the messages it
\* sends, without wrapping: the messages are fresh (no message sent or lost
\* before answers q), at most one per validator, and the waitgroup, at
\* least one as q is unanswered, stays within PerQuery per query issued.
LEMMA CallbackEffect ==
    ASSUME NoWrap, LInv, NEW q \in queries, NEW resp \in Responses,
           RewardsCallback(q, resp)
    PROVE  /\ IsFiniteSet(RewardMsgs(q, resp))
           /\ RewardMsgs(q, resp) \subseteq Msgs
           /\ \A m \in RewardMsgs(q, resp) : m.q = q
           /\ Cardinality(RewardMsgs(q, resp)) \in Nat
           /\ Cardinality(RewardMsgs(q, resp)) <= Cardinality(Validators)
           /\ (inflight \cup lost) \cap RewardMsgs(q, resp) = {}
           /\ inflight' = inflight \cup RewardMsgs(q, resp)
           /\ queries' = queries \ {q}
           /\ wg \in Nat \ {0}
           /\ wg' = wg - 1 + Cardinality(RewardMsgs(q, resp))
           /\ wg - 1 + Cardinality(RewardMsgs(q, resp)) <= MaxQueries * PerQuery
           /\ wg - 1 + Cardinality(RewardMsgs(q, resp)) < WgMod
           /\ UNCHANGED <<delegated, issued, lost>>
<1> DEFINE msgs == RewardMsgs(q, resp)
           k == Cardinality(msgs)
           c == Cardinality(queries)
           n == Cardinality(Validators)
           P == PerQuery
<1>1. q \in Nat /\ q < issued
  BY QueriesFacts DEF LInv
<1>2. /\ IsFiniteSet(msgs) /\ msgs \subseteq Msgs
      /\ \A m \in msgs : m.q = q
      /\ k \in Nat /\ k <= n
  BY <1>1, RewardMsgsFacts DEF LInv
<1>3. (inflight \cup lost) \cap msgs = {}
  BY <1>2 DEF LInv
<1>4. /\ c \in Nat /\ c # 0 /\ Answered \in Nat /\ issued \in Nat
      /\ c + Answered = issued /\ issued <= MaxQueries
  <2>1. c \in Nat /\ Answered \in Nat /\ issued \in Nat /\ IsFiniteSet(queries)
    BY QueriesFacts
  <2>2. c # 0
    BY <2>1, FS_EmptySet
  <2>. QED BY <2>1, <2>2 DEF Answered, LInv, TypeOK
<1>5. /\ n \in Nat /\ P \in Nat /\ n <= P /\ 1 <= P
      /\ MaxQueries \in Nat /\ WgMod \in Nat
      /\ MaxQueries * P < WgMod
  BY ConstantFacts, NoWrapFacts DEF NoWrap
<1>6. /\ Cardinality(inflight) \in Nat /\ Cardinality(lost) \in Nat
      /\ wg = c + Cardinality(inflight) + Cardinality(lost)
      /\ wg <= c + Answered * n
      /\ wg \in Nat /\ wg < WgMod
  BY <1>5, FS_CardinalityType DEF LInv, TypeOK
<1>7. wg \in Nat \ {0}
  BY <1>4, <1>6
<1>8. wg - 1 + k <= MaxQueries * P /\ wg - 1 + k < WgMod
  <2>1. (c - 1) + (Answered + 1) * n <= ((c - 1) + (Answered + 1)) * P
    BY <1>4, <1>5, BoundArith
  <2>2. (Answered + 1) * n = Answered * n + n
    BY <1>4, <1>5, Z3
  <2>3. ((c - 1) + (Answered + 1)) * P = issued * P
    BY <1>4
  <2>4. issued * P <= MaxQueries * P
    BY <1>4, <1>5, Z3
  <2>5. Answered * n \in Nat /\ issued * P \in Nat /\ MaxQueries * P \in Nat
    BY <1>4, <1>5
  <2>. QED BY <1>2, <1>4, <1>5, <1>6, <2>1, <2>2, <2>3, <2>4, <2>5
<1>9. (wg - 1) % WgMod = wg - 1
  BY <1>5, <1>6, <1>7, ModBelow
<1>10. /\ queries' = queries \ {q}
       /\ UNCHANGED <<delegated, issued, lost>>
       /\ \/ msgs = {} /\ wg' = wg - 1 /\ inflight' = inflight
          \/ msgs # {} /\ wg' = (wg - 1 + k) % WgMod /\ inflight' = inflight \cup msgs
  BY <1>9 DEF RewardsCallback, WithdrawDelegationRewardsForResponse
<1>11. wg' = wg - 1 + k /\ inflight' = inflight \cup msgs
  <2>1. CASE msgs = {}
    <3>1. k = 0
      BY <2>1, FS_EmptySet
    <3>. QED BY <1>10, <2>1, <3>1, <1>7
  <2>2. CASE msgs # {}
    <3>1. (wg - 1 + k) % WgMod = wg - 1 + k
      BY <1>2, <1>5, <1>7, <1>8, ModBelow
    <3>. QED BY <1>10, <2>2, <3>1
  <2>. QED BY <2>1, <2>2
<1>. QED BY <1>2, <1>3, <1>7, <1>8, <1>10, <1>11

\* The effect of an acknowledgement, handled or lost: one message leaves
\* the in-flight set.
LEMMA RemoveEffect ==
    ASSUME LInv, NEW m \in inflight
    PROVE  /\ IsFiniteSet(inflight \ {m})
           /\ Cardinality(inflight \ {m}) = Cardinality(inflight) - 1
           /\ Cardinality(inflight) \in Nat \ {0}
BY FS_RemoveElement, FS_CardinalityType, FS_EmptySet DEF LInv

\* A handled acknowledgement decrements the waitgroup without wrapping: a
\* message is in flight, so the waitgroup is at least one.
LEMMA HandleEffect ==
    ASSUME NoWrap, LInv, NEW m \in inflight, HandleWithdrawRewards(m)
    PROVE  /\ wg \in Nat \ {0}
           /\ wg' = wg - 1
<1>0. Cardinality(inflight) \in Nat \ {0}
  BY RemoveEffect
<1>1. /\ Cardinality(queries) \in Nat /\ Cardinality(lost) \in Nat
      /\ wg = Cardinality(queries) + Cardinality(inflight) + Cardinality(lost)
      /\ wg \in Nat /\ wg < WgMod /\ WgMod \in Nat
  BY QueriesFacts, NoWrapFacts, FS_CardinalityType DEF LInv, TypeOK
<1>2. wg \in Nat \ {0}
  BY <1>0, <1>1
<1>3. (wg - 1) % WgMod = wg - 1
  BY <1>1, <1>2, ModBelow
<1>. QED BY <1>2, <1>3 DEF HandleWithdrawRewards

LEMMA InitLInv == NoWrap /\ Init => LInv
<1> SUFFICES ASSUME NoWrap, Init PROVE LInv
  OBVIOUS
<1>1. WgMod \in Nat /\ 0 < WgMod /\ MaxQueries \in Nat
      /\ Cardinality(Validators) \in Nat
  BY ConstantFacts, NoWrapFacts
<1>2. Cardinality({}) = 0 /\ IsFiniteSet({})
  BY FS_EmptySet
<1>. QED BY <1>1, <1>2 DEF Init, LInv, TypeOK, Answered
\* LInv is preserved by every step, lost acknowledgements included.
LEMMA LossyNextLInv == NoWrap /\ LInv /\ [LossyNext]_vars => LInv'
<1> SUFFICES ASSUME NoWrap, LInv, [LossyNext]_vars PROVE LInv'
  OBVIOUS
<1> DEFINE c == Cardinality(queries)
           n == Cardinality(Validators)
<1>0. /\ c \in Nat /\ Answered \in Nat /\ issued \in Nat
      /\ Cardinality(inflight) \in Nat /\ Cardinality(lost) \in Nat
      /\ n \in Nat /\ MaxQueries \in Nat /\ WgMod \in Nat
  BY QueriesFacts, ConstantFacts, NoWrapFacts, FS_CardinalityType DEF LInv
<1>1. ASSUME NEW v \in Validators, SetDelegation(v) \/ RemoveDelegation(v)
      PROVE  LInv'
  BY <1>1 DEF LInv, TypeOK, Answered, SetDelegation, RemoveDelegation
<1>2. ASSUME RequestRewards
      PROVE  LInv'
  <2>1. /\ issued \notin queries
        /\ queries' = queries \cup {issued}
        /\ issued' = issued + 1 /\ issued + 1 <= MaxQueries
        /\ wg' = wg + 1 /\ wg + 1 < WgMod
        /\ UNCHANGED <<delegated, inflight, lost>>
    BY <1>2, RequestEffect
  <2>2. IsFiniteSet(queries') /\ Cardinality(queries') = c + 1
    BY <2>1, QueriesFacts, FS_AddElement
  <2>3. Answered' = Answered
    BY <1>0, <2>1, <2>2 DEF Answered
  <2>4. wg' = Cardinality(queries') + Cardinality(inflight') + Cardinality(lost')
    BY <1>0, <2>1, <2>2 DEF LInv
  <2>5. wg' <= Cardinality(queries') + Answered' * n
    BY <1>0, <2>1, <2>2, <2>3 DEF LInv
  <2>6. /\ queries' \subseteq 0..(issued' - 1)
        /\ \A m \in inflight' \cup lost' : m.q < issued' /\ m.q \notin queries'
    BY <1>0, <2>1 DEF LInv, TypeOK, Msgs
  <2>7. TypeOK'
    BY <1>0, <2>1 DEF LInv, TypeOK
  <2>. QED BY <2>1, <2>4, <2>5, <2>6, <2>7 DEF LInv
<1>3. ASSUME NEW q \in queries, NEW resp \in Responses, RewardsCallback(q, resp)
      PROVE  LInv'
  <2> DEFINE msgs == RewardMsgs(q, resp)
             k == Cardinality(msgs)
  <2>1. /\ IsFiniteSet(msgs) /\ msgs \subseteq Msgs
        /\ \A m \in msgs : m.q = q
        /\ k \in Nat /\ k <= n
        /\ (inflight \cup lost) \cap msgs = {}
        /\ inflight' = inflight \cup msgs
        /\ queries' = queries \ {q}
        /\ wg \in Nat \ {0}
        /\ wg' = wg - 1 + k /\ wg - 1 + k < WgMod
        /\ UNCHANGED <<delegated, issued, lost>>
    BY <1>3, CallbackEffect
  <2>2. IsFiniteSet(queries') /\ Cardinality(queries') = c - 1
    BY <2>1, QueriesFacts, FS_RemoveElement
  <2>3. IsFiniteSet(inflight') /\ Cardinality(inflight') = Cardinality(inflight) + k
    <3>1. /\ IsFiniteSet(inflight \cup msgs)
          /\ Cardinality(inflight \cup msgs)
               = Cardinality(inflight) + k - Cardinality(inflight \cap msgs)
      BY <2>1, FS_Union DEF LInv
    <3>2. Cardinality(inflight \cap msgs) = 0
      <4>1. inflight \cap msgs = {}
        BY <2>1
      <4>. QED BY <4>1, FS_EmptySet
    <3>. QED BY <1>0, <2>1, <3>1, <3>2
  <2>4. Answered' = Answered + 1
    BY <1>0, <2>1, <2>2 DEF Answered
  <2>5. wg' = Cardinality(queries') + Cardinality(inflight') + Cardinality(lost')
    BY <1>0, <2>1, <2>2, <2>3 DEF LInv
  <2>6. wg' <= Cardinality(queries') + Answered' * n
    <3>1. (Answered + 1) * n = Answered * n + n
      BY <1>0, Z3
    <3>2. wg <= c + Answered * n /\ Answered * n \in Nat
      BY <1>0 DEF LInv
    <3>. QED BY <1>0, <2>1, <2>2, <2>4, <3>1, <3>2
  <2>7. /\ inflight' \cap lost' = {}
        /\ queries' \subseteq 0..(issued' - 1)
        /\ \A m \in inflight' \cup lost' : m.q < issued' /\ m.q \notin queries'
    <3>1. q < issued
      BY <1>0 DEF LInv
    <3>. QED BY <2>1, <3>1 DEF LInv
  <2>8. TypeOK'
    BY <1>0, <2>1 DEF LInv, TypeOK
  <2>. QED BY <2>1, <2>3, <2>5, <2>6, <2>7, <2>8 DEF LInv
<1>4. ASSUME NEW m \in inflight, HandleWithdrawRewards(m)
      PROVE  LInv'
  <2>1. /\ IsFiniteSet(inflight \ {m})
        /\ Cardinality(inflight \ {m}) = Cardinality(inflight) - 1
        /\ Cardinality(inflight) \in Nat \ {0}
    BY RemoveEffect
  <2>2. wg \in Nat \ {0} /\ wg' = wg - 1
    BY <1>4, HandleEffect
  <2>3. /\ inflight' = inflight \ {m}
        /\ UNCHANGED <<delegated, queries, issued, lost>>
    BY <1>4 DEF HandleWithdrawRewards
  <2>4. Answered' = Answered
    BY <2>3 DEF Answered
  <2>5. /\ wg' = Cardinality(queries') + Cardinality(inflight') + Cardinality(lost')
        /\ wg' <= Cardinality(queries') + Answered' * n
    BY <1>0, <2>1, <2>2, <2>3, <2>4 DEF LInv
  <2>6. TypeOK'
    BY <1>0, <2>2, <2>3 DEF LInv, TypeOK
  <2>. QED BY <2>1, <2>3, <2>5, <2>6 DEF LInv
<1>5. ASSUME NEW m \in inflight, LoseAck(m)
      PROVE  LInv'
  <2>1. /\ IsFiniteSet(inflight \ {m})
        /\ Cardinality(inflight \ {m}) = Cardinality(inflight) - 1
        /\ Cardinality(inflight) \in Nat \ {0}
    BY RemoveEffect
  <2>2. /\ inflight' = inflight \ {m}
        /\ lost' = lost \cup {m}
        /\ UNCHANGED <<delegated, wg, queries, issued>>
    BY <1>5 DEF LoseAck
  <2>3. m \notin lost
    BY DEF LInv
  <2>4. IsFiniteSet(lost') /\ Cardinality(lost') = Cardinality(lost) + 1
    BY <2>2, <2>3, FS_AddElement DEF LInv
  <2>5. Answered' = Answered
    BY <2>2 DEF Answered
  <2>6. /\ wg' = Cardinality(queries') + Cardinality(inflight') + Cardinality(lost')
        /\ wg' <= Cardinality(queries') + Answered' * n
    BY <1>0, <2>1, <2>2, <2>4, <2>5 DEF LInv
  <2>7. /\ inflight' \cap lost' = {}
        /\ \A x \in inflight' \cup lost' : x.q < issued' /\ x.q \notin queries'
    BY <2>2, <2>3 DEF LInv
  <2>8. TypeOK'
    BY <2>2 DEF LInv, TypeOK
  <2>. QED BY <2>1, <2>2, <2>4, <2>6, <2>7, <2>8 DEF LInv
<1>6. CASE UNCHANGED vars
  BY <1>6 DEF LInv, TypeOK, Answered, vars
<1>. QED BY <1>1, <1>2, <1>3, <1>4, <1>5, <1>6 DEF LossyNext, Next
\* Without the fault model no acknowledgement is lost.
LEMMA NextNoLoss ==
    NoWrap /\ LInv /\ lost = {} /\ [Next]_vars => LInv' /\ lost' = {}
<1> SUFFICES ASSUME NoWrap, LInv, lost = {}, [Next]_vars PROVE LInv' /\ lost' = {}
  OBVIOUS
<1>1. [LossyNext]_vars
  BY DEF LossyNext
<1>2. lost' = lost
  BY DEF Next, vars, SetDelegation, RemoveDelegation, RequestRewards,
     RewardsCallback, HandleWithdrawRewards
<1>. QED BY <1>1, <1>2, LossyNextLInv

\* Without lost acknowledgements, WithdrawalWaitgroup always equals the
\* number of operations still to complete: the rewards queries not yet
\* answered and the MsgWithdrawDelegatorReward messages not yet
\* acknowledged.  This is the whole field, the caller's count of the query
\* included: a response with no reward gives its query's count back
\* through the SetZone of delegation.go:280, and a response with messages
\* leaves len(msgs) - 1 more (line 287 on the decremented zone), for every
\* set of validators and every bound within NoWrap.
THEOREM WaitgroupCorrect ==
    ASSUME NoWrap
    PROVE  Spec => []WaitgroupTracksOutstanding
<1> DEFINE NInv == LInv /\ lost = {}
<1>1. Init => NInv
  BY InitLInv DEF Init
<1>2. NInv /\ [Next]_vars => NInv'
  BY NextNoLoss
<1>3. NInv => WaitgroupTracksOutstanding
  BY FS_EmptySet, QueriesFacts, FS_CardinalityType DEF LInv, WaitgroupTracksOutstanding
<1>. QED BY <1>1, <1>2, <1>3, PTL DEF Spec

\* Even when acknowledgements are lost, WithdrawalWaitgroup never counts
\* fewer operations than are outstanding, for every set of validators and
\* every bound within NoWrap: the continuation gated on the waitgroup
\* reaching zero is never released while a rewards query or a withdrawal
\* sent by delegation.go:291 is still unanswered.
THEOREM WaitgroupCoversUnderLoss ==
    ASSUME NoWrap
    PROVE  LossySpec => []WaitgroupCoversOutstanding
<1>1. LInv => WaitgroupCoversOutstanding
  BY FS_CardinalityType, QueriesFacts DEF LInv, WaitgroupCoversOutstanding
<1>. QED BY <1>1, InitLInv, LossyNextLInv, PTL DEF LossySpec

\* The step WaitgroupStepsExact constrains.
ExactStep ==
    wg' - wg =   Cardinality(queries' \ queries)
               + Cardinality(inflight' \ inflight)
               - Cardinality(queries \ queries')
               - Cardinality((inflight \ inflight') \ lost')

\* The cardinalities a step of the tracker produces.
LEMMA SmallSets ==
    /\ Cardinality({}) = 0
    /\ \A x : Cardinality({x}) = 1
BY FS_EmptySet, FS_Singleton

\* Every step, a lost acknowledgement included, moves the waitgroup by the
\* operations it starts minus the ones it completes.
LEMMA LossyStepExact == NoWrap /\ LInv /\ [LossyNext]_vars => ExactStep \/ UNCHANGED vars
<1> SUFFICES ASSUME NoWrap, LInv, [LossyNext]_vars PROVE ExactStep \/ UNCHANGED vars
  OBVIOUS
<1>0. wg \in Nat
  BY DEF LInv, TypeOK
<1>1. ASSUME NEW v \in Validators, SetDelegation(v) \/ RemoveDelegation(v)
      PROVE  ExactStep
  <2>1. /\ queries' \ queries = {} /\ queries \ queries' = {}
        /\ inflight' \ inflight = {} /\ (inflight \ inflight') \ lost' = {}
        /\ wg' = wg
    BY <1>1 DEF SetDelegation, RemoveDelegation
  <2>. QED BY <1>0, <2>1, SmallSets DEF ExactStep
<1>2. ASSUME RequestRewards
      PROVE  ExactStep
  <2>1. /\ issued \notin queries
        /\ queries' = queries \cup {issued}
        /\ wg' = wg + 1
        /\ UNCHANGED <<delegated, inflight, lost>>
    BY <1>2, RequestEffect
  <2>2. /\ queries' \ queries = {issued} /\ queries \ queries' = {}
        /\ inflight' \ inflight = {} /\ (inflight \ inflight') \ lost' = {}
    BY <2>1
  <2>. QED BY <1>0, <2>1, <2>2, SmallSets DEF ExactStep
<1>3. ASSUME NEW q \in queries, NEW resp \in Responses, RewardsCallback(q, resp)
      PROVE  ExactStep
  <2> DEFINE msgs == RewardMsgs(q, resp)
  <2>1. /\ Cardinality(msgs) \in Nat
        /\ (inflight \cup lost) \cap msgs = {}
        /\ inflight' = inflight \cup msgs
        /\ queries' = queries \ {q}
        /\ wg' = wg - 1 + Cardinality(msgs)
        /\ UNCHANGED lost
    BY <1>3, CallbackEffect
  <2>2. /\ queries' \ queries = {} /\ queries \ queries' = {q}
        /\ inflight' \ inflight = msgs /\ (inflight \ inflight') \ lost' = {}
    BY <2>1
  <2>3. /\ Cardinality(queries' \ queries) = 0
        /\ Cardinality(queries \ queries') = 1
        /\ Cardinality(inflight' \ inflight) = Cardinality(msgs)
        /\ Cardinality((inflight \ inflight') \ lost') = 0
    BY <2>2, SmallSets
  <2>. QED BY <1>0, <2>1, <2>3 DEF ExactStep
<1>4. ASSUME NEW m \in inflight, HandleWithdrawRewards(m)
      PROVE  ExactStep
  <2>1. wg' = wg - 1
    BY <1>4, HandleEffect
  <2>2. /\ inflight' = inflight \ {m}
        /\ UNCHANGED <<queries, lost>>
    BY <1>4 DEF HandleWithdrawRewards
  <2>3. m \notin lost
    BY DEF LInv
  <2>4. /\ queries' \ queries = {} /\ queries \ queries' = {}
        /\ inflight' \ inflight = {} /\ (inflight \ inflight') \ lost' = {m}
    BY <2>2, <2>3
  <2>5. /\ Cardinality(queries' \ queries) = 0
        /\ Cardinality(queries \ queries') = 0
        /\ Cardinality(inflight' \ inflight) = 0
        /\ Cardinality((inflight \ inflight') \ lost') = 1
    BY <2>4, SmallSets
  <2>. QED BY <1>0, <2>1, <2>5 DEF ExactStep
<1>5. ASSUME NEW m \in inflight, LoseAck(m)
      PROVE  ExactStep
  <2>1. /\ inflight' = inflight \ {m}
        /\ lost' = lost \cup {m}
        /\ UNCHANGED <<wg, queries>>
    BY <1>5 DEF LoseAck
  <2>2. /\ queries' \ queries = {} /\ queries \ queries' = {}
        /\ inflight' \ inflight = {} /\ (inflight \ inflight') \ lost' = {}
    BY <2>1
  <2>. QED BY <1>0, <2>1, <2>2, SmallSets DEF ExactStep
<1>6. CASE UNCHANGED vars
  BY <1>6
<1>. QED BY <1>1, <1>2, <1>3, <1>4, <1>5, <1>6 DEF LossyNext, Next

\* With acknowledgements lost and the uint32 wide enough (NoWrap), every
\* step moves WithdrawalWaitgroup by exactly the operations it starts
\* minus the ones it completes: the caller's decrement and the += len(msgs)
\* of delegation.go:287, saved together by the SetZone of line 288, net to
\* len(msgs) - 1, a lost acknowledgement does not move it, and no step
\* wraps.
THEOREM WaitgroupStepsExactUnderLoss ==
    ASSUME NoWrap
    PROVE  LossySpec => WaitgroupStepsExact
<1>1. LossySpec => []LInv
  BY InitLInv, LossyNextLInv, PTL DEF LossySpec
<1>2. LossySpec => [][ExactStep]_vars
  BY <1>1, LossyStepExact, PTL DEF LossySpec
<1>. QED BY <1>2 DEF WaitgroupStepsExact, ExactStep
\* Under loss, every step is a step of the counter bounded by all that the
\* bounded queries can count, or leaves the waitgroup alone: a query issued
\* is a Dispatch of one; a response is a Complete when it sends nothing, a
\* stutter when it sends one message and a Dispatch of len(msgs) - 1 when
\* it sends more; a handled acknowledgement is a Complete (the waitgroup
\* covers the message, so it is positive); a lost acknowledgement and a
\* delegation write are stutters.
LEMMA LossyStepRefines ==
    NoWrap /\ LInv /\ [LossyNext]_vars => [Counter!Next]_wg
<1> SUFFICES ASSUME NoWrap, LInv, [LossyNext]_vars PROVE [Counter!Next]_wg
  OBVIOUS
<1> DEFINE B == MaxQueries * PerQuery
<1>0. wg \in Nat /\ B \in Nat
  BY NoWrapFacts DEF LInv, TypeOK
<1>1. ASSUME NEW v \in Validators, SetDelegation(v) \/ RemoveDelegation(v)
      PROVE  UNCHANGED wg
  BY <1>1 DEF SetDelegation, RemoveDelegation
<1>2. ASSUME RequestRewards
      PROVE  Counter!Dispatch
  <2>1. wg' = wg + 1 /\ wg + 1 <= B
    BY <1>2, RequestEffect
  <2>2. 1 \in 1..B
    BY <1>0, <2>1
  <2>. QED BY <2>1, <2>2 DEF Counter!Dispatch
<1>3. ASSUME NEW q \in queries, NEW resp \in Responses, RewardsCallback(q, resp)
      PROVE  [Counter!Next]_wg
  <2> DEFINE k == Cardinality(RewardMsgs(q, resp))
  <2>1. /\ k \in Nat
        /\ wg \in Nat \ {0}
        /\ wg' = wg - 1 + k
        /\ wg - 1 + k <= B
    BY <1>3, CallbackEffect
  <2>2. CASE k = 0
    BY <2>1, <2>2 DEF Counter!Next, Counter!Complete
  <2>3. CASE k = 1
    BY <2>1, <2>3
  <2>4. CASE k >= 2
    <3>1. k - 1 \in 1..B /\ wg + (k - 1) <= B /\ wg' = wg + (k - 1)
      BY <1>0, <2>1, <2>4
    <3>. QED BY <3>1 DEF Counter!Next, Counter!Dispatch
  <2>. QED BY <2>1, <2>2, <2>3, <2>4
<1>4. ASSUME NEW m \in inflight, HandleWithdrawRewards(m)
      PROVE  Counter!Complete
  BY <1>4, HandleEffect DEF Counter!Complete
<1>5. ASSUME NEW m \in inflight, LoseAck(m)
      PROVE  UNCHANGED wg
  BY <1>5 DEF LoseAck
<1>6. CASE UNCHANGED vars
  BY <1>6 DEF vars
<1>. QED BY <1>1, <1>2, <1>3, <1>4, <1>5, <1>6 DEF LossyNext, Next, Counter!Next

\* With acknowledgements lost, and the uint32 wide enough for everything
\* the bounded queries can count (NoWrap), WithdrawalWaitgroup implements
\* the safety part of the completion counter: the rewards query, its
\* callback with WithdrawDelegationRewardsForResponse (delegation.go:
\* 255-292) and HandleWithdrawRewards, seen through the waitgroup alone,
\* only dispatch within the bound and complete one at a time.
THEOREM WaitgroupCountsUnderLoss ==
    ASSUME NoWrap
    PROVE  LossySpec => WaitgroupCountsSentUnderLoss
<1>1. Init => Counter!Init
  BY DEF Init, Counter!Init
<1>2. LossySpec => []LInv
  BY InitLInv, LossyNextLInv, PTL DEF LossySpec
<1>3. LossySpec => Counter!Spec
  BY <1>1, <1>2, LossyStepRefines, PTL DEF LossySpec, Counter!Spec
<1>. QED BY <1>3 DEF WaitgroupCountsSentUnderLoss

\* Without loss the tracker is a refinement of the counter too: the safety
\* part of WaitgroupImplementsCounter.  Its fairness part is liveness and
\* is checked by TLC only.
THEOREM WaitgroupRefinesCounter ==
    ASSUME NoWrap
    PROVE  Spec => Counter!Spec
<1>1. [Next]_vars => [LossyNext]_vars
  BY DEF LossyNext
<1>2. Spec => LossySpec
  BY <1>1, PTL DEF Spec, LossySpec
<1>. QED BY <1>2, WaitgroupCountsUnderLoss DEF WaitgroupCountsSentUnderLoss
=============================================================================
