# Quicksilver interchain staking: TLA+ models

This directory holds the TLA+ models of the delegation-allocation and
intent-aggregation core of the Quicksilver `interchainstaking` module (`src/`),
and of the protobuf wire encoding of its messages (`types/messages.pb.go`).
It also holds the TLC configurations that check them and the TLAPS proofs about
the withdrawal waitgroup. `PROJECT.json` lists:

- every component;
- every run, with its expected outcome;
- the mutants that show each checked property can fail;
- the map from each definition to the Go lines it translates;
- the findings, the hazards and the theorems.

## 1. The system and its parts (inventory)

| Part (spec name) | Code | State | Operations |
|---|---|---|---|
| OrdinalConverter / Normalizer | `types/validator.go` `Ordinalize`, `Normalize` | none (pure) | scale a weight vector by a `Dec`; divide it by its sum with `QuoTruncate` |
| IntentMerger | `types/validator.go` `AddOrdinal` | none (pure) | ordinalise the old intent, add the new coins' weights, normalise |
| Intent store and UpdateIntent | `keeper/intent.go` 12-107, 155-184 | `DelegatorIntent` per (zone, delegator), live and snapshot | `GetIntent`, `SetIntent`, `DeleteIntent`, iterate; `UpdateIntent` on a deposit |
| IntentAggregator | `keeper/intent.go` `AggregateIntents` 109-153 | `zone.AggregateIntent` | a balance-weighted sum of stored intents, normalised with `Quo`, then saved with `SetZone` |
| AllocationPlanner | `keeper/delegation.go` 158-253 | none (pure) | deltas = target − current; shift by \|min\|; proportional split; equal split; dust to `deltas[0]`; truncate |
| Delegation store | `keeper/delegation.go` 16-136, 303-319 | `Delegation` records per (delegator, validator) | set, remove, iterate, `GetDelegationMap` |
| Message preparation | `keeper/delegation.go` 138-156 | none | build `MsgDelegate` / `MsgRedeemTokensforShares` from a plan |
| CompletionTracker | `keeper/delegation.go` 255-301 | `zone.WithdrawalWaitgroup` (uint32) | count one for a rewards query and take it back in its callback (outside `src/`); add the number of reward-withdrawal messages sent and save the zone in both branches; decrement on each acknowledgement (outside `src/`) |
| Wire encoding | `types/messages.pb.go` 446-1128 | the message being decoded; the buffer being written | `Size`, `Marshal` (fills a buffer backwards), `Unmarshal` (a tag loop with bounds checks), `skipMessages` |
| Routing, addresses, codecs | `handler.go`, `utils/address.go`, `airdrop/types/codec.go`, `receipt.go` | none | dispatch, bech32 parsing, codec registration |

How the parts interact:

- A deposit arrives.
- `UpdateIntent` merges the depositor's coins into their stored intent (IntentMerger).
- Periodically `AggregateIntents` turns every stored intent, weighted by the
  holder's qAsset balance, into the zone's target weights.
- A deposit is then split by `DeterminePlanForDelegation`. It reads the current
  holdings (`GetDelegationMap`) and the target (the aggregate), and the split
  is turned into messages.
- Separately, a rewards query (ICQ) is issued for the delegation account, and
  it counts one in the waitgroup. Its callback takes that one back on the
  in-memory zone and calls `WithdrawDelegationRewardsForResponse`. That
  handler sends one withdrawal per reward passing its guard, adds their number
  to the waitgroup, and saves the zone in both branches ("always setZone here
  because calling method update waitgroup", line 279). Each acknowledgement
  decrements the waitgroup, and redistribution waits for zero.

Hard behaviours in the code:

- **Fixed-point arithmetic with mixed rounding.** `QuoInt` and `QuoTruncate`
  truncate, while `Mul` and `Quo` round half to even. The dust step depends on
  both.
- **A sort whose first element receives the dust.**
- **Out-of-order, interleaved acknowledgements.** Several batches of withdrawals
  are acknowledged in any order, and all of them share one uint32 counter.
- **Malformed input.** `Unmarshal` runs on bytes from transactions: every
  varint, length and skipped field must be bounds-checked before it is read.
- **Staleness.** The aggregate and the holdings are read while other
  operations are in flight.

## 2. Modules, and how they correspond to the code

- `FixedPoint.tla` models the `sdk.Dec` operations the core uses.
  - `Precision` is the scale: 10^18 in the SDK and 10 in the runs.
  - `TruncQuo` is `big.Int.Quo`, which truncates toward zero.
  - `ChopRound` is `chopPrecisionAndRound`, which rounds half to even.
  - `Mul`, `Quo`, `QuoTruncate`, `QuoInt`, `MulInt`, `TruncateInt` and `ToDec`
    follow their SDK definitions.
  - `ASSUME PrecisionAssumption` states that the precision is a positive natural.
- `AllocationPlanner.tla` has one operator per step of
  `DetermineAllocationsForDelegation`:
  - `CalculateDeltas` models `calculateDeltas`;
  - `MinDeltas` models `minDeltas`;
  - `Precedes`/`FirstInOrder` give the order left by the two `sort.SliceStable`
    calls, and `FirstInOrder` is `deltas[0]`;
  - `Shifted` is the `Add(minValue.Abs())` loop;
  - `UnequalSplit`, `Proportional`, `EqualSplit`, `Each` and `Weighted` are the
    two splits, with `outSum` re-zeroed as in the code;
  - `Dust` and `Allocate` are the dust and the final truncation.

  Maps keyed by validator are TLA+ functions, and the order of a Go map is
  irrelevant here because every loop is order-independent. Addresses are
  integers, so that the code's address comparison has meaning.
- `MC_Planner.tla` models `DeterminePlanForDelegation`.
  - It is a one-step state machine.
  - `Init` chooses the holdings (held validators may lie outside the target),
    a target whose weights sum to one, and a deposit.
  - `Plan` computes the plan.
- `Withdrawals.tla` is the CompletionTracker. The waitgroup is modelled as
  the whole field: the caller's count for a query as well as the handler's.
  - Variables:
    - `delegated` is the set of validators with a `Delegation` record;
    - `wg` is `WithdrawalWaitgroup`, modulo `2^WgBits` as for a uint32;
    - `queries` is the set of rewards queries issued and not yet answered;
    - `inflight` is the set of withdrawal messages sent and not yet
      acknowledged; a message is identified by its query and validator;
    - `issued` is the number of queries issued (bounded by `MaxQueries`);
    - `lost` is the history of lost acknowledgements (fault model only).
  - `RequestRewards` issues a query and adds one to `wg`. `RewardsCallback(q,
    resp)` answers it: it removes `q`, and it calls the handler with the zone's
    waitgroup decremented by one. Both are outside `src/` and follow the
    comment at line 279.
  - `WithdrawDelegationRewardsForResponse(zwg, q, resp)` models the whole
    handler on a zone whose waitgroup is `zwg`.
    - The ICQ response gives each delegated validator a reward of kind
      none, zero or positive.
    - `WithdrawGuard` is the condition at line 272, and `RewardMsgs` is the
      loop of lines 268-276.
    - With no message, the zone is saved as received (line 280), so the
      caller's decrement persists.
    - Otherwise `wg` becomes `zwg + len(msgs)`, the zone is saved, and the
      transaction is submitted.
  - `HandleWithdrawRewards(m)` is the acknowledgement. It lives outside `src/`
    and is modelled from spec §4.5: it decrements `wg` and drops `m`.
  - `SetDelegation` and `RemoveDelegation` change which records the next
    response covers.
  - `LoseAck(m)` is the fault model of spec §5: an acknowledgement that never
    arrives (a timed-out packet, no relayer). `LossySpec` adds it to `Next`.
  - `PerQuery` is the most one query accounts for: itself, or one message per
    validator. `NoWrap` is `MaxQueries * PerQuery < 2^WgBits`.
  - `Counter` is `INSTANCE CompletionCounter WITH pending <- wg, Bound <-
    MaxQueries * PerQuery`.
- `CompletionCounter.tla` is the abstract specification of the tracker, with
  no messages or validators. `pending` is a count. `Dispatch` adds k >= 1
  without passing `Bound`, `Complete` removes one, and `Complete` is weakly
  fair. Through the refinement, a query is a `Dispatch` of one. A response is
  a `Complete` (no message), a stutter (one message), or a `Dispatch` of
  `len(msgs) - 1`. An acknowledgement is a `Complete`.
  - `WaitgroupImplementsCounter == Counter!FairSpec` is checked without loss.
  - `WaitgroupCountsSentUnderLoss == Counter!Spec` is checked under loss. It
    is safety only, because a lost acknowledgement never completes.
- `Intents.tla` models the intent store and aggregation.
  - Variables: `intents` (the live store), `balance` (qAsset balances) and
    `aggregate` (`zone.AggregateIntent`).
  - `Ordinalize`, `Normalize`, `MergeWeights` and `AddOrdinal` translate
    `validator.go`.
  - `UpdateIntent` translates `intent.go:155-184`. It ordinalises the old intent
    by `RedemptionRate × base-denom balance`, and it stores the result only when
    it is non-empty.
    - `UpdateIntentWithCoins`, which is outside `src/`, is modelled from spec §4.2
      as coins weighted by their amounts.
  - `DeleteIntent` translates `intent.go:39-43`.
  - `AggregateIntents` translates `intent.go:109-153`. It makes no change when
    the sum is zero (the error return).

- `ProtoWire.tla` models the generated encoding of `MsgRequestRedemption`,
  `MsgSignalIntent` and their two responses.
  - A message is a function from field numbers 1..3 to byte sequences. The
    embedded `Coin` of `MsgRequestRedemption.Value` is kept as the opaque
    bytes that `Coin.Size`, `Coin.MarshalToSizedBuffer` and `Coin.Unmarshal`
    measure, copy and store.
  - Encoding:
    - `sovMessages` is `(Len64(x|1)+6)/7`, with `BitLen` as `Len64`;
    - `encodeVarintMessages` writes `VarintBytes(v)` ending at the offset;
    - `PutField` is one `if len > 0` block of `MarshalToSizedBuffer`
      (copy, length, tag, written backwards);
    - `Size…` and `Marshal…` follow the code, including `Value` being written
      and counted even when empty.
  - Decoding:
    - `VarintFrom` is the varint loop every decoder repeats, with its
      `shift >= 64` and `iNdEx >= l` checks;
    - `DecodeBytesField` is one `case` of the `Unmarshal` switch;
    - `DecodeFrom` is the `for iNdEx < l` loop, with the wire-type-4 and
      field-number checks and the `default:` skip from `preIndex`;
    - `SkipFrom`, `SkipPayload` and `SkipVarint` are `skipMessages`, with its
      group depth.
  - Go's `dAtA[i]` is `ByteAt`, and an index or slice out of range yields the
    outcome `Panic` rather than a value. A decoder that forgot a check
    therefore shows up as a state, not as a TLC error.
  - `MC_ProtoWire.tla` is the caller. `Init` chooses a message to marshal or
    a raw byte string. The marshalled bytes may then be extended with an
    unknown field (before or after), or cut short, before `Unmarshal` runs.

## 3. Runs

The model values and bounds are in each `.cfg`.

| Run | Checks | Result |
|---|---|---|
| `planner_bounds` (`MC_Planner.cfg`) | `TypeOK`, `PlanNonNegative`, `PlanShortfallBounded`, `PlanMonotoneInDelta` | pass, 330 000 states |
| `planner_conservation` | `Conservation`: the plan sums to the deposit (spec §8) | violated |
| `planner_dust_order` | `DustToAlphabeticallyFirst`: the line-242 comment and the test | violated |
| `planner_floor_shift` | `MostOverTargetGetsNothing`: spec §4.4, "smallest delta becomes zero" | violated |
| `withdrawals` (`MC_Withdrawals.cfg`) | `WaitgroupTracksOutstanding`, `WithdrawalsComplete`, `WaitgroupImplementsCounter` | pass, 6 504 states |
| `withdrawals_lossy` (`MC_Withdrawals_lossy.cfg`) | `WaitgroupCoversOutstanding`, the action property `WaitgroupStepsExact` and the refinement `WaitgroupCountsSentUnderLoss` under `LossySpec` | pass, 128 024 states |
| `withdrawals_zero_reward` | `WithdrawOnlyNonzeroRewards`: spec §4.5 | violated |
| `intents` (`MC_Intents.cfg`) | `StoredIntentsNormalized` | pass |
| `intents_aggregate_sum` | `AggregateWeightsAtMostOne`: spec §4.1 | violated |
| `protowire` (`MC_ProtoWire.cfg`) | `MarshalRoundTrip`, `UnknownFieldsSkipped`, `TruncatedNeverMisread`, `DecoderNeverPanics` | pass, 290 841 states |
| `intents_degenerate` | `AggregationNeverDegenerate`: the "should never happen" error of `intent.go:141` | violated |

What the passing properties say:

- `PlanShortfallBounded`: the plan never exceeds the deposit and loses fewer
  than one token per target validator.
- `PlanMonotoneInDelta`: a validator further below its target never receives
  less than one closer to or above it, apart from the dust receiver.
- `WaitgroupTracksOutstanding`: the counter equals the unanswered queries plus
  the unacknowledged messages. This holds across overlapping queries, and
  responses and acknowledgements in any order. It fails if the empty branch
  does not save the zone, because the caller's decrement is then lost.
- `WithdrawalsComplete` (liveness): whenever the counter is non-zero it
  eventually becomes zero.
- `WaitgroupImplementsCounter` (refinement, with fairness): seen through
  the waitgroup alone, every behaviour is one of `CompletionCounter`. It
  never passes the bound or wraps, and while it is non-zero a completion
  always comes.
- `WaitgroupCoversOutstanding`: with lost acknowledgements the counter can
  stay above zero forever, as spec §5 warns, but it never counts fewer
  operations than are still outstanding. So the continuation gated on zero
  is never released early.
- `WaitgroupStepsExact` (action property, under loss): every step moves the
  counter by exactly the operations it starts minus those it completes. A
  response moves it by `len(msgs) - 1`, and a lost acknowledgement moves it
  by nothing.
- `MarshalRoundTrip`: `Marshal` writes exactly `Size()` bytes without a
  panic, and `Unmarshal` gives the message back.
- `UnknownFieldsSkipped`: fields the message does not declare are passed
  over, and the known fields still decode. This covers every wire type, a
  group, and a two-byte tag, placed before or after the known fields.
- `TruncatedNeverMisread`: a cut-short encoding is refused, or decodes to
  the fields that arrived whole. No field ever holds part of its value.
- `DecoderNeverPanics`: no input makes any of the four decoders index or
  slice out of range.
- `StoredIntentsNormalized`: every stored intent sums to at most one, and to
  more than `1 - n ulp`.

**Bounds.**

- The planner run enumerates:
  - three target validators and a fourth that is only held;
  - holdings {0,1,3,7,20} on each;
  - every target on a 0.1 grid summing to one;
  - deposits {1,2,5,9}.

  This covers all-positive deltas, all-equal deltas, a zero current sum, ties
  broken by address, and deposits below and above the gap.
- The withdrawals runs have:
  - 3 validators, so a response can send 0 to 3 messages;
  - 2 queries, so a second query can be issued, answered and acknowledged
    while the first one's messages are in flight;
  - a 3-bit counter. At most 2 × 3 = 6 operations are ever counted, so the
    instance satisfies `NoWrap` (6 < 8). With `WgBits = 2` it would not.
  - The lossy run uses the same instance, with `LoseAck` added.
- The protowire run uses:
  - field values of 0, 1, 2 and 128 bytes, the last needing a two-byte
    length;
  - every combination of them in the three fields (64 messages per type);
  - six unknown fields: a two-byte varint, fixed64, length-delimited, a group
    holding a varint, fixed32, and a field whose tag takes two bytes;
  - every cut point of every encoding;
  - every byte string of up to 4 bytes over 13 bytes that matter: tags of
    each wire type for known and unknown fields, lengths, `0x80` and `0xff`.
- The intents run has 2 delegators and 2 validators, balances {0,1,2} and coin
  amounts {1,2}. With these bounds a deposit, a merge, a zero balance and an
  aggregation can each happen in any order. The violation runs add a third
  validator.
- Precision 10 keeps rounding visible, with one ulp = 0.1.

**Fairness.** `FairSpec` adds weak fairness on answering some outstanding
query and on delivering some outstanding acknowledgement. Spec §1 and §5 say
the external relayer delivers each query response and each acknowledgement
exactly once, and this fairness assumes exactly that. Nothing
else is fair, because deposits and ICQ responses are external and may stop.

**Mutants.** Each passing property is broken by a plausible bug in a mapped
definition (`PROJECT.json` "mutants"):

- deltas computed over held validators instead of target ones;
- the shift without `Abs`;
- `outSum` not re-zeroed;
- the dust given to the last validator in sort order;
- the waitgroup counting delegation records instead of messages;
- `AddOrdinal` without `Normalize`;
- the waitgroup growing by one less than the messages sent (breaks the
  refinement and `WaitgroupCoversOutstanding`);
- the empty branch not saving the zone (breaks `WaitgroupTracksOutstanding`
  and `WaitgroupStepsExact`);
- an acknowledgement handled twice (breaks the refinement under loss);
- `sovMessages` counting 8-bit groups instead of 7-bit ones;
- fixed32 skipped as eight bytes;
- an over-long length clamped to the buffer;
- the varint loop without its `iNdEx >= l` check.

## 4. Findings

Details are in `PROJECT.json`.

1. **`delegation.go:244`: a deposit is not fully allocated.**
   - The dust is added before every share is truncated, so up to n−1 tokens are
     lost.
   - With no holdings, a deposit of 2 across three validators is planned as
     0, 0, 0.
   - Spec §8's example (four equal targets, deposit 50) gives 48.
   - The repository's test case 3 expects 50 but gets 48.
2. **`delegation.go:203-211`: the dust goes to the largest delta, not to the
   alphabetically first validator.**
3. **`delegation.go:215`: `Add(minValue.Abs())` doubles a positive minimum.**
   - A positive minimum happens when stake remains on a validator that left
     the target.
   - Over-target validators then receive part of the deposit.
4. **`delegation.go:272`: `||` sends withdrawals for zero-valued rewards.**
5. **`intent.go:146`: the aggregate is normalised with rounding `Quo`, so it
   can sum above one.**
6. **`intent.go:140`: the "impossible" zero-sum error happens whenever no
   intent holder has a qAsset balance.**

## 5. Proofs

`WithdrawalsProofs.tla` proves five theorems with TLAPS. They hold for every
finite set of validators, every counter width and every bound on the queries
that satisfies `NoWrap`:

- `WaitgroupCorrect`: `Spec => []WaitgroupTracksOutstanding`.
- `WaitgroupRefinesCounter`: `Spec => Counter!Spec`. The tracker implements
  the safety part of the abstract `CompletionCounter`.
- `WaitgroupCoversUnderLoss`: `LossySpec => []WaitgroupCoversOutstanding`.
- `WaitgroupStepsExactUnderLoss`: `LossySpec => WaitgroupStepsExact`.
- `WaitgroupCountsUnderLoss`: `LossySpec => WaitgroupCountsSentUnderLoss`.

`NoWrap` (`MaxQueries * PerQuery < 2^WgBits`) says that everything the
bounded queries can count fits in the counter. The code does not impose this
bound. A lost acknowledgement leaves its count in the waitgroup for good, so
the waitgroup is bounded only by everything ever counted. With the code's
uint32, `NoWrap` says that fewer than 2^32 operations are ever counted. The
runs satisfy it (6 < 8).

The theorems rest on one inductive invariant, `LInv`, preserved by every
action of `LossySpec`, `LoseAck` included:

- `TypeOK`, and `inflight` and `lost` are finite and disjoint;
- every unanswered query is below `issued`;
- every message in flight or lost answers a query below `issued` that is no
  longer unanswered. So the messages of a new response are fresh and are
  not absorbed by the set union;
- `wg = |queries| + |inflight| + |lost|`;
- `wg <= |queries| + Answered * |Validators|`, where `Answered` is
  `issued - |queries|`. With `issued <= MaxQueries` and `NoWrap`, this keeps
  every `+` and `-` away from the modulus.

`WaitgroupTracksOutstanding` alone is not inductive. It says nothing of
freshness, so a new response could seem to overlap messages in flight. It
also says nothing of the bound, so an increment could seem to wrap. Without
loss, `lost` stays empty (`NextNoLoss`), and `LInv` then gives the equality.
TLC checked `LInv` on the lossy instance before it was proved.

The proof has these parts:

- `InitLInv`: `Init` establishes `LInv`.
- `LossyNextLInv`: `LInv` is preserved, with one case per action. It rests on
  these lemmas:
  - `RewardMsgsFacts`: a response's messages are finite, at most one per
    validator, and fresh;
  - `RequestEffect`, `CallbackEffect`, `HandleEffect`: with `NoWrap`, each
    of these actions changes `wg` by exactly its count, without wrapping;
  - `ModBelow`: `x % m = x` for `0 <= x < m`.
- `LossyStepExact` derives the action property from `LInv`.
- `LossyStepRefines` maps each step to `Counter!Next` or a stutter:
  - a query is a `Dispatch` of one;
  - a response is a `Complete`, a stutter, or a `Dispatch` of
    `len(msgs) - 1`, kept within the bound by `WithinBound`;
  - a handled acknowledgement is a `Complete`, because `wg` covers it and is
    therefore positive;
  - a lost acknowledgement and a delegation write leave `wg` unchanged.
- PTL combines these into the temporal theorems.

The assumptions used are `WithdrawalsAssumption`: `Validators` is finite,
`WgBits > 0` and `MaxQueries \in Nat`.

`FixedPointProofs.tla` proves facts about the `sdk.Dec` arithmetic, for every
`Precision`:

- `QuoTruncateBounds`: for naturals `a` and `b > 0`, `QuoTruncate(a, b)` is
  `a * Precision / b` rounded down. It is never above the exact quotient and
  less than one unit below it. This is the per-weight fact behind
  `StoredIntentsNormalized`.
- `QuoRoundsUpAtMostOne`: `Quo(a, b)` is `QuoTruncate(a, b)` or one unit
  more. This is how the aggregate of finding 5 can sum above one.
- `ChopRoundNearest`: `chopPrecisionAndRound` is within half a unit.
- `MulToDecExact`: `Mul(d, ToDec(i)) = d * i`. The intent code's
  multiplications by balances are exact.

Two more theorems bound the planner's per-validator divisions:

- `EqualShareBounds` covers `each = ToDec(e).Quo(ToDec(n))`
  (delegation.go:235), with `ToDec(e) - n < n * each <= ToDec(e) + n` in raw
  Dec units. The rounding `Quo` can hand out more than the equal split, by
  less than `n` units. This is the margin the dust computation must absorb
  (the hazard at line 235).
- `ProportionalShareBound`: `w.QuoInt(sum).MulInt(u)` never exceeds the
  exact share `w * u / sum`.

All of these rest on two lemmas about Go's truncating division of naturals,
`DivBounds` and `TruncQuoNat`. Turning these per-validator bounds into the
planner's properties takes sums over the validators, and those stay with
TLC (see below).

**Checked by TLC only:**

- The planner and intent properties. They are stated with
  `SumFunction`, a fold over a finite set. Proving anything about such a sum
  takes the fold lemmas, and every one of them has an operator parameter,
  which the installed provers cannot instantiate. A test instantiating
  `NatInduction` and `FS_Induction` with a concrete predicate fails with
  both SMT and Zenon. The per-weight rounding
  facts these properties rest on are proved in `FixedPointProofs`; their sum
  over a vector is model-checked.
- `WithdrawalsComplete`, and the fairness part of
  `WaitgroupImplementsCounter`. Both are liveness under fairness and
  therefore out of TLAPS's reach.
- The `ProtoWire` properties. The decoders are `RECURSIVE` operators, and
  what they compute for every input is induction over data, which the
  provers cannot do.

## 6. Not modelled, and the plan

Not modelled:

- The deposit flow: `PrepareDelegationMessagesForCoins` and
  `PrepareDelegationMessagesForShares`, and deposits interleaved with their
  `MsgDelegate` acknowledgements. The records they depend on are written by
  acknowledgement and ICQ handlers outside `src/`. A model of the flow would
  check those handlers rather than this code. Every plan a deposit can
  receive, over any holdings, is checked in `MC_Planner`.
- The snapshot intent namespace, and the read-only `AllIntents`,
  `AllIntentsAsPointer` and `AllOrdinalizedIntents`. Only callers outside
  `src/` use them.
- `handler.go`. It only routes two message types and two proposal types to
  keeper methods that are not in `src/`, and it has no state of its own.
- `utils/address.go`. It is bech32 string parsing; addresses are model values
  in every module. Its one caller in the model's scope (`intent.go:116`)
  parses addresses that `UpdateIntent` wrote with `sdk.AccAddress.String`.
- `airdrop/types/codec.go` and `receipt.go`: codec registration at init, and
  an event-attribute map with no caller in `src/`.
- In the wire encoding:
  - `MarshalTo` and the `XXX_` wrappers, which only delegate;
  - `Reset`, `String` and the descriptors;
  - `Coin`'s own decoding. A repeated `Value` field is merged by
    `Coin.Unmarshal` in the code but replaced here; only raw inputs repeat a
    field, and for them the runs compare errors, not values.
  - Paths that need varints of 2^34 and more: the `int32` truncation of the
    field number, and a negative length. TLC's integers are 32-bit.

- Duplicated acknowledgements. IBC rejects a second acknowledgement of a
  packet before any handler runs, so they are not modelled.

Planned work:

- A `Zone` module composing the planner, the delegation store and the deposit
  flow with message loss and reordering.
- A proof that `WithdrawDelegationRewardsForResponse` never submits an empty
  batch.
