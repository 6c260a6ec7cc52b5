# Verification of ic-facilitator

TLA+ models of the facilitator canister in `src/rust/facilitator/src`, TLC
configurations that check them on small instances, and TLAPS proofs of what
holds for every instance. The paths below are relative to the repository; `lib.rs`,
`rpc.rs`, `state.rs`, `batch.rs` and `auto_claim.rs` are those of
`rust/facilitator/src`. `PROJECT.json` maps each definition to the lines it models.

Contents: [1 The system](#1-the-system), [2 Modules](#2-modules),
[3 Settlement](#3-settlement), [4 AutoClaim](#4-autoclaim),
[5 Registry](#5-registry), [6 Proofs](#6-proofs),
[7 Disagreements found](#7-disagreements-found),
[8 Bounds at a glance](#8-bounds-at-a-glance), [9 Not modelled](#9-not-modelled),
[10 Running](#10-running).

## 1 The system

The canister accepts signed x402 payments over HTTP, turns each into one Polygon
transaction signed by its own key, watches the receipt, and charges the seller
a fee from prepaid credit. A canister runs a message atomically between two
awaits. At an await (an HTTPS outcall to an RPC node) any other message may run,
and what the resumed code holds in locals may be stale. That is the
concurrency of this system. A trap undoes only the code since the last await.

| component | state | operations | hard part |
|---|---|---|---|
| exact settlement (`settle_http`, lib.rs 1952-2236) | `SETTLEMENTS` record of the payment | check, lock, reserve fee, journal, nonce, send, confirm, replay | four awaits; ambiguous sends; replays run beside the first call |
| batch settlement (`batch_settle_http`, lib.rs 2401-2821) | the same; key of a settle changes once `totalClaimed` is read | deposit, claim, refund, settle; no-op settles are free | two calls share the provisional key and its lock |
| credit purchase and ledger (lib.rs 3266-3606, 4730-4807) | `SELLER_CREDITS`, `CREDITED_SETTLEMENTS` | reserve, refund, credit once | reservation and refund around awaits |
| active lock and nonces (lib.rs 6186-6301) | `ACTIVE_SETTLEMENTS`, `NONCES` | acquire, rename, release, reserve, roll back | one account nonce for all sellers, a lagging RPC count |
| replacement (lib.rs 6357-6594) | active nonce, transaction of the record | same nonce, higher gas | signed after awaits during which the lock may move |
| RPC layer (`rpc.rs`) | none | quote, sign, send, receipt | error, timeout and ambiguous answers |
| stale recovery (lib.rs 5164-5224) | record, lock, credit | refund an old `checking` record | cannot see an in-flight send |
| settlement index (lib.rs 5853-5998) | `SELLER_SETTLEMENT_INDEX` | insert, move, page | must follow every overwrite of a record |
| seller acceptance (lib.rs 4818-5047) | acceptances; challenges are not kept | challenge, submit | a signed challenge is submitted late, again, or after the documents changed |
| batch channel storage (lib.rs 5515-5677, batch.rs 724-880, `src/icBatchChannelStorage.ts`) | versioned channel rows, audit of deletions | compare-and-set, delete | lost updates, retries by the client |
| auto-claim collector (`auto_claim.rs`) | collection per channel with journaled attempt, `DUE`, `BUSY`, timer | enable, disable, request, hooks of update and delete, worker | crash between fee, journal and send; updates while a worker awaits |
| runtime and fee configuration (lib.rs 540-690, 4503-4728) | environment map | validate and store a profile, fees, tiers | several writes that belong together |
| sellers and writer scopes (lib.rs 1337-1392) | principals per receiver | grant, revoke | authority read at each channel update |
| upgrade (lib.rs 868-890) | stable memory | rebuild the index, restart the timer | callbacks in flight are lost |
| request admission and transaction contents (`batch.rs`, `facilitator.rs`, `eip712.rs`, `tx.rs`, `types.rs`; lib.rs 1733-1990, 2238-2441, 2822-2941, 3172-3264, 4220-4445) | none | verify, accept or refuse, encode | checks and encoding are separate code over optional fields and several signers |
| hexadecimal and amount parsing (`hexutil.rs`) | none | parse | pure functions |
| operator scripts, web console | none | deploy, smoke tests, receipts, display | sequential I/O |

How they interact. The settlements, the credit purchases and the collector share
the ledger, the lock table and the nonce manager. The collector also hooks
channel updates and deletions, and it journals its claims as settlement records.
Acceptance and configuration are read as guards at the start of a settlement.
Clients drive everything but the collector: no pending payment advances without
a resend of its request. The collector is driven by a timer.

What makes a component correct:

* settlements: credit is conserved; an unsent payment is refunded once and a sent
  one never; a nonce is signed for one payment, and a payment for one nonce; what
  a terminal record says happened on chain; a payment in progress holds its lock;
  no lock is left behind; a pending payment resolves under retries;
* collector: every charged payment is claimed or counted, each claim is paid for
  once, the journal, lock and record agree after every interruption, reservations
  stop before the backlog grows too large, no channel is dropped with debt;
* storage: revisions order the writes of a channel, an accepted update is not lost,
  a voucher called valid can be charged, a disabled seller's channels are frozen;
* index: one entry per record, and a client that pages misses and repeats nothing;
* acceptance: it stands for documents its seller signed while they were current;
* configuration: the price charged is the stored one and admissible on its network,
  through every order of updates;
* admission: what is accepted can be encoded, and its contract calls carry the
  signatures the contracts check.

## 2 Modules

| module | content | extends |
|---|---|---|
| `Payment` | abstract: what the engine promises of each payment | |
| `Settlement` | the settlement engine | |
| `SettlementProperties` | its properties, fairness, and the mapping to `Payment` | `Settlement` |
| `MCSettlement` | instances for TLC | `SettlementProperties` |
| `SettlementProofs`, `PaymentProofs` | nonces, fees and credit; the refinement, what follows from its invariant, and the locks | `SettlementProperties` |
| `AutoClaim`, `AutoClaimProperties`, `MCAutoClaim` | the collector, with other settlements as environment | |
| `AutoClaimProofs` | its inductive invariant, what follows from it, and its fees | `AutoClaimProperties` |
| `Sellers` | sellers and writer scopes | |
| `BatchRequest` | batch requests: acceptance by `/verify` and `/settle`, contract calls | |
| `ExactRequest` | exact payments and credit purchases | `BatchRequest` |
| `Admission` | a request from arrival to answer, against what contracts check | `ExactRequest` |
| `ChannelStore`, `ChannelStoreProperties` | versioned rows and their clients | `BatchRequest`, `Sellers` |
| `RuntimeConfig` | profile, documents, fees | |
| `SellerAcceptance` | acceptances while configuration and sellers change | `RuntimeConfig`, `Sellers` |
| `SettlementIndex` | the history index and its pages | |
| `Registry`, `MCRegistry` | the eight modules above as one system, and its instance | all of them |
| `ChannelStoreProofs`, `AdmissionProofs`, `AcceptanceProofs`, `SettlementIndexProofs` | their theorems | |
| `RegistryProofs` | the parts together, in any interleaving | `Registry` and the four above |

Left for later, in this order: the arithmetic of `timer_deadline` and the due queue;
time in the settlement engine (section 7 says what a resend after the payment
window does); one specification of engine, collector and store together. The last
multiplies three state spaces that TLC can only just enumerate each. What they share
is small (lock table, ledger, nonce manager, `before_update` and its relatives), and
each side models the other's use of it as environment actions that are more
permissive than the real ones: `ManualLock`, `OtherReserves`, `OtherSends` and
`OtherGivesUp` in `AutoClaim`, and every accepted row in `ChannelStore`.

## 3 Settlement

### State and actions

`rec`, `lock`, `nextNonce`, `credit` and `credited` are the stable maps
`SETTLEMENTS`, `ACTIVE_SETTLEMENTS`, `NONCES`, `SELLER_CREDITS` and
`CREDITED_SETTLEMENTS`. `hs[h]` is a call in flight: where it awaits (`pc`) and the
locals it will use afterwards. `sent`, `mined`, `chainNonce`, `claimed` and
`paidOut` are the chain and the pools of its nodes: external, modelled from how
`rpc.rs` uses them.

An action is the code between two awaits. The beginnings of a call are
`Settle`, `BatchSettle`, `BuyCredit`, `Refuse`, `Replay` and `ReplayCached`; its
continuations are named for what the awaited answer was:

* `ReadReceiver`, `ReceiverError`, `TargetCached`, `TargetNoop`, `TargetRefuse`,
  `TargetReserve`: a batch settle learns `totalClaimed` and renames its key;
* `ReserveNonce`, `NonceError`: the RPC nonce, taken together with `NONCES`;
* `SendOk`, `SendFailed`, `SendAmbiguous`, `ResendFailed`: outcomes of a send;
* `ReceiptSettled`, `ReceiptFailed`, `ConfirmPending`, `RefreshKeep`, `Replace`:
  answers about a sent transaction, for the first call and for replays.

`Trap(h)` ends a call at any await and keeps what was written before it.
`Recover` is `recover_stale_settlement`.

Definitions marked `Mutant`, here and in the other modules, are plausible wrong
versions of the definition below them. No specification uses them. They show
that each property can be broken by a change of the code it is about.

### Assumptions of the model

* A JSON-RPC error reply to a send means the node did not take the transaction
  (that is what `rpc.rs` concludes). A transport failure means nothing.
* The chain does not reorganise, and pools do not drop what they took. A node reports
  any pending nonce from the account nonce up to the end of the gapless prefix of
  what was sent: it may lag, it does not invent.
* One signing key. Addition to credit does not reach `u128::MAX`.
* Time is nondeterministic: the age check of a recovery is replaced by the
  condition that no call of the key is in flight.
* Deposit, claim and refund share the path of an exact payment (kind `batch`);
  what differs is their payload.
* Gas quote, estimate and signature are one await with the send. They read nothing
  of the shared state, except that the balance and gas limits may refuse.
* Errors of configuration are part of `Refuse`, `TargetRefuse`, `NonceError` and
  `ReceiverError`.

### Runs

| run | instance | checks |
|---|---|---|
| `replace` | 1 seller, 2 payments, 2 gas prices, 2 fees, credit 2, 3 calls | `TypeOK`, `OneNoncePerKey`, `RecordsAgreeWithChain`, `NoOrphanLock`, `NoNonceGap`, `LockHeldWhileOpen`, `RefundOnlyUnsent`, `ImplementsPayment` |
| `ledger` | batch settles of one seller with up to 2 claims on chain, and the purchase of the credit for the second, 3 calls | `TopUpBacked`, `ImplementsPayment` |
| `traps` | 2 sellers, 3 payments (two compete for a lock, the third for nonces), 2 fees, traps at every await and recoveries, 2 calls at a time | `CreditConservation`, `NonceUnique`, `FeeKeptAfterBroadcast` |
| `live` | 2 payments of one seller, 2 calls, fair | `PendingResolves`, `LockReleased` |

The bounds. `MaxNonce` 2 lets every payment of an instance have a nonce and one be
rolled back or wasted. Three calls, in `replace` and `ledger`, are a first call, its
replay and a competitor, or two competitors and the call that frees what they fight
for. `MaxClaimed` 2 gives a batch settle two successive targets. Two fees show
whether a refund uses the fee that was charged, rather than the one configured now;
two gas prices make a replacement a different transaction. Two sellers compete for
nothing but nonces; only `traps` has two, and that nonces are unique whatever their
number is proved (`NonceUniqueness`). There a call that traps makes room for
another, so that two at a time still leave any number of interrupted ones behind.
`NoNonceGap` is stated for one seller: with two, a rollback that is not the last
loses a nonce (the hazard at lib.rs 6295), and it is not checked with traps.
Deadlock is checked except in the runs on batch settles, where the system can really
stop: see the retry disagreement below.

`RefundOnlyUnsent`, `LockHeldWhileOpen` and `ImplementsPayment` are checked
without traps: a callback that traps after its send leaves a record that recovery
refunds although a node has the transaction (section 7).

### What the engine promises

`Payment` says it without calls, locks, nonces or transactions. A payment is
absent, prepared (its fee is taken from the seller's balance), committed (handed to
the chain) or waived (a batch settle with nothing to settle, which is free). It can
be withdrawn, with its fee returned, only while prepared. A committed payment is
decided by the chain once. Clients are told "pending" or the decision, and a
purchase adds its credit once, when its payment is reported.

`ImplementsPayment` maps the engine to it: the phase of a key is read off its record,
the outcome off `mined`, the answer off the record's status, the balance is
`credit`. A late answer may turn a decided payment back to "pending"
(`Report` allows it, since the code does it: section 7), so the answer can lag the
chain but can never contradict it.

### Fairness

`FairSpec` assumes: a canister resumes every call whose outcall has answered (weak
fairness for each call); blocks are produced; clients keep resending a pending
request, and of the answers an RPC node can give again and again (the send was
taken, the receipt is there) none is withheld for ever (strong fairness per
request). It takes the request to stay admissible: see section 7 for resends after the
payment window. The code has no timer for settlements, so without resends nothing
advances; README.md of the repository asks clients for them. The run uses one gas
price because a replacement overwrites the hash of the transaction it replaces: if
the old one is mined its receipt is never read again. It has one seller because of
the nonce holes above. Both are listed as hazards.

## 4 AutoClaim

### State and actions

`enabled` is `POLICIES` for one receiver, `store` its rows of `BATCH_CHANNELS`,
`collection` its rows of `COLLECTIONS` (`due` abstracts `next_due` and the `DUE`
index: due now, in a while, or `u64::MAX`), `worker` the set `BUSY` and the locals
of the workers. `lock`, `credit`, `record`, `nextNonce` are the shared state of the
settlement engine, of which the other settlements appear as environment:
`ManualLock`, `OtherReserves`, `OtherSends`, `OtherGivesUp`. `latest` and `final`
are what the batch contract says of a channel in the latest and in the finalized
block. Amounts count payments: each adds 1 to the charge.

* The server of the store: `Reserve`, `ReserveRefused`, `ReserveUnmanaged`,
  `Commit`, `Cancel`, `Delete`: `batch_update_channel` with its hooks
  `before_update`, `after_update`, `before_delete`, `after_delete`.
* The store owner: `Enable`, `Disable`, `RequestClaim`.
* The worker, from `dispatch` through `run`, `prepare` and `resume`: `DispatchAbandon`,
  `DispatchIdle`, `DispatchMonitor`, then the `Monitored...` actions for the
  branches after the channel state has been read, `StartAttempt` (lock, fee, journal in one
  step), `AlreadyMined`, `NotYetMined`, `NonceAnswered`, `PrepareError`,
  `Prepared` (nonce, signature and journal in one step), `Sent`, and for a journaled
  transaction `RefreshError`, `RefreshPending`, `Settled`, `Reverted`.
* `Trap` ends a worker at any await, with or without the send it had asked for.
  An upgrade does the same to all of them.
* `DueAgain`, `MonitorAges` and `PendingExpires` are time passing.

`force` and `attempt.asked` remember why the code's flag `force` was set. No action
depends on the reason; `EarlyClaimAsked` does.

The next sequence after `MaxSequence` is refused, as after `u64::MAX` in the code.
`Events` selects what the environment may do in a run.

Assumptions: a voucher is worth one payment more than what is charged or claimed
(so a channel deleted and created again, whose charge starts at 0, continues above
the claims of its past); gas quote and estimate are one await; signing does not fail
once the nonce is reserved, so an attempt given up has no nonce to roll back; the two reads of
the monitor are one. The seed stored in a collection is the stored channel once there is
one, so that of `c.seed.charged_cumulative_amount > target` nothing is left
(auto_claim.rs 620). Which due collection is dispatched is arbitrary.
Authority, revision and the vouchers of an update are taken for granted here: they
are the subject of `ChannelStore`.

### Runs

| run | instance | checks |
|---|---|---|
| `collect` | 1 channel, 3 payments, threshold and backlog 2, 2 attempts, credit for 2 claims; errors, traps, reverts, claims from elsewhere, deletions, switching | `TypeOK`, `FeeConserved`, `JournalAgrees`, `AttemptCovered`, `DebtCounted`, `NoSleepingDebt`, `BacklogBounded`, `NotAbandoned`, `JournalKept` |
| `channels` | 2 channels, one worker place, credit for both; other settlements take the lock and nonces | `JournalAgrees`, `NonceUnique` |
| `collect_live` | 1 channel, 2 payments, withdrawals, reverts, fair | `DebtCollected`, `AutoLockReleased` |

Threshold 2 distinguishes below, at and above with 3 payments; 2 attempts are one
that is given up or reverts and one after it. `MaxOutstanding` equals the
threshold, so that the backlog limit is met while claims are wanted. One channel
is enough where channels share nothing but lock, credit and worker places; those
are what `channels` is for.

Fairness of `collect_live`: timers fire and `dispatch` takes collections in the
order of their deadlines (strong fairness of `Dispatch`), RPC calls answer, blocks
are produced and finalized, a transaction sent again and again reaches a node, and
an existing receipt is found in the end. Other settlements are left out there:
the code only looks at the lock when a worker runs, so a receiver whose lock is
taken at each of these moments is never collected, and nothing in the code
prevents it.

## 5 Registry

What surrounds a settlement: who may write which channel row, which requests pass,
what they cost, which documents the seller has accepted, and what history it is shown.

### State and actions

| module | variables | actions |
|---|---|---|
| `Sellers` | `sellers` and `scopes`, the two SQLite tables | `SetSeller`, `SetScope`; `Ensured` inserts a missing seller |
| `ChannelStore` | `rows` = `BATCH_CHANNELS`, `deleted` = `BATCH_DELETED_CHANNELS`, `session`: clients that have read a row; `lastBy`: history | `Put` and `Remove` are the two halves of `batch_update_channel`, done by a session with the revision it read (`SessionPut`, `SessionRemove`, `SessionConflict`) or back to back (`WritePut`, `WriteRemove`); `Expire` is the expiry of a reservation |
| `RuntimeConfig` | `env` = `ENV` | `SetEnv`, `SetRuntimeProfile`, `SetRuntimeConfiguration`, `SetBatchFeeProfile`, `SetBatchClaimFeeSchedule` |
| `SellerAcceptance` | `accepted` = `SELLER_ACCEPTANCES`, `signed`: messages that exist, `clock` | `Challenge`, `Submit`, `Tick`, `Reconfigure` |
| `SettlementIndex` | `records`, `index` = `SELLER_SETTLEMENT_INDEX`, `seconds`, `traversal`: a client that pages | `Insert`, `RemoveRecord`, `Upgrade`, `Begin`, `NextPage`, `Tock` |
| `Admission` | `request`, `charge`, `verdict` | `Ask`, `Answer`, `Finish` |

`BatchRequest` and `ExactRequest` are operators only: `VerifyAccepts`, `SettleAccepts`,
`ExactAccepts`, `CreditAccepts` say which requests pass, `Calls` and `ExactCall` what
becomes of them. Signing is symbolic. The text a key signs is the record of the
fields its digest covers, so that a field the code forgets to cover, or to send,
shows; a signature over another text recovers to nobody. A channel stands for its
configuration, since its id is the hash of it. `CollectorText` and
`CallExecutable` are the contracts' side and external.

`Registry` takes all of it together. The parts meet in the tables of sellers and
scopes and in the environment map, which `Registry` shares between them. What else they
keep is disjoint, so that an interleaving of two parts shows nothing that each does
not show alone; an execution therefore picks a `part`, and TLC explores a sum of state
spaces instead of a product.

Assumptions: a row's channel is one whose token, authorizer and delay fit the runtime
values, which stay (a profile switch under stored rows is left out). The expiry
of a reservation is a flag that falls at any time. Documents, fees and schedules are
taken from small sets, where 0 is a missing or unreadable amount and `Floor` is the
Polygon minimum. `refundNonce` and `lastRequestTimestamp` of a row follow the rule of
`totalClaimed`. A settlement key determines its seller.

### The run

One run, `registry`, for the instance of `MCRegistry`:

| part | instance | checks |
|---|---|---|
| store | 2 channels of one seller of which 1 fits (`MaxStored`), vouchers 1 and 2, revisions to 3, a session, a writer, the controller; 16 payments to verify | `VerifiedChargeable`, `SawItsRow`, `DisabledFrozen`, `DepositStaysSettleable` |
| config | 2 profiles, 2 documents, fees 1 and 2 around the floor 2, 3 kind profiles, 3 schedules | `PricesHonoured` |
| acceptance | the same, challenges good for 1 second, 2 seconds, 2 signed messages | `AcceptedSigned` |
| index | 4 keys (3 of one seller), 2 seconds, pages of 1 | `IndexMatches`, `PagesComplete` |
| admission | well-formed requests of every kind on three channels (own, other receiver, other authorizer), and every request that takes one field or the terms of another | `EncoderFed`, `CallAuthorised`, `SellerConsented` |

`TypeOK` is checked in all of them. `MaxStored` 1 makes the limit and the oldest
entry of the deletion log matter; revision 3 is create, charge, and another write;
a page of 1 makes every record a cursor; 2 seconds and 4 keys give equal and
different creation times. The mixtures are what makes admission interesting: a
well-formed request is accepted anyway.

`VerifiedChargeable` needs a row that holds no later voucher. When a larger request was
reserved and cancelled, the row keeps its voucher (`signed` may not fall), and a smaller
voucher that `/verify` then calls valid cannot be stored: the commit has to carry the
reserved amount as `signed`. `SawItsRow` excepts a row that was deleted and created
anew between read and write, because revisions start at 1 again.

## 6 Proofs

Every theorem holds for all values of the constants that satisfy the ASSUMEs of its
module, which TLC evaluates in the runs.

| theorem | states | module |
|---|---|---|
| `TypeCorrect`, `NonceInvariant`, `NonceUniqueness` | `TypeOK`, `NonceInv`, `NonceUnique` of the engine, traps included | `SettlementProofs` |
| `FeeInvariant`, `FeesKept`, `CreditConserved` | `FeeInv`, `FeeKeptAfterBroadcast`, `CreditConservation`, traps and recoveries included | `SettlementProofs` |
| `EngineImplementsPayment` | without traps, every step of the engine is a step of `Payment` or a stutter | `PaymentProofs` |
| `RecordsTellTruth`, `OneNonce`, `RefundsUnsent`, `TopUpsBacked` | `RecordsAgreeWithChain`, `OneNoncePerKey`, `RefundOnlyUnsent`, `TopUpBacked`, without traps | `PaymentProofs` |
| `LockInvariant`, `LockNeverOrphaned`, `OthersSerial` | `LockInv` and `HeldInv`, `NoOrphanLock`, `SerialBesidesSettles`, without traps | `PaymentProofs` |
| `LockHeld` | `LockHeldWhileOpen`, without traps and batch settles | `PaymentProofs` |
| `NoncesHaveNoGap` | `NoNonceGap`, without traps and batch settles, with one lock scope | `PaymentProofs` |
| `CollectorInvariant` and what follows: `TypeCorrect`, `JournalSound`, `ClaimsCovered`, `DebtNeverLost`, `SleepSafe`, `HistoryBounded`, `NoncesUnique`, `ChannelsNotAbandoned`, `JournalIsKept`; `FeesConserved` | `TypeOK`, `JournalAgrees`, `AttemptCovered`, `DebtCounted`, `NoSleepingDebt`, `BacklogBounded`, `NonceUnique`, `NotAbandoned`, `JournalKept`, `FeeConserved` | `AutoClaimProofs` |
| `StoreTypeCorrect`, `NoLostUpdate`, `FrozenWhenDisabled`, `VerifyKeepsPromise`, `DepositsStaySettleable` | `StoreTypeOK`, `SawItsRow`, `DisabledFrozen`, `VerifiedChargeable`, `DepositStaysSettleable` | `ChannelStoreProofs` |
| `PricesAlwaysHonoured`, `AcceptancesSigned` | `PricesHonoured`, `AcceptedSigned` | `AcceptanceProofs` |
| `IndexFollows`, `TraversalComplete` | `IndexMatches`, `PagesComplete` | `SettlementIndexProofs` |
| `EncoderAlwaysFed`, `CallsAlwaysAuthorised`, `SellersAlwaysConsent` | `EncoderFed`, `CallAuthorised`, `SellerConsented` | `AdmissionProofs` |
| `TypeCorrect`, `PartsComposed`, `StoreStepsComposed` | `TypeOK` of the registry, and all the properties of its parts for the parts together | `RegistryProofs` |

**Nonces.** `NonceUnique` is not inductive: it says nothing of nonces that are reserved
but not yet sent, nor of those a lock entry hands to a replacement. `NonceInv` adds the
users that matter: transactions, lock entries, and calls past `reserve_nonce`. All
users of a nonce agree on the key and lie below `nextNonce`; and a call that has
reserved a nonce and not yet sent is its only user, which is why
`rollback_reserved_nonce` may hand the nonce out again.

**The refinement.** A step of `Payment` looks at one payment, the engine at whatever its
calls remember. `PayInv` ties the two: a record that was broadcast carries
the one nonce of its transactions, its lock entry and its calls (so at most one
of its transactions executes); a settled or failed record has a transaction
executed or refused; and the call that prepares a payment is alone with it.
`QuotedFee` adds that this call remembers the fee the record was charged, so that
what it refunds is what was taken, and `ToppedUp` that a credited purchase is paid. With
traps the refinement is false: see section 7.

**Fees and credit.** Most conservation bugs would be local: a fee refunded twice, or
refunded by a call that is not the one the fee was taken for. `FeeInv` excludes them: at
most one call prepares a payment, its record is `checking`, and the call remembers the
fee the record was charged; a payment somebody watches is committed. It follows that
every step is `Accounted`: it touches the record of one payment, and what leaves
the balance of its seller is in the record and the other way round. `recover_stale_settlement`
fits in because it takes the fee from the record, and a trapped call leaves its record
behind. `CreditConservation` then needs that a sum over records changes by
what one record changes (`FeeSumChange`). The sum is the fold `MapThenSumSet`, a recursive
function on subsets, and the induction over it is done as a least counterexample: of
the subsets for which the fold is wrong, one that contains no other (`LeastSubset`, from
the well-foundedness of strict inclusion in the library). It needs finitely many
requests, `FiniteAssumption`: the records of a canister are a finite map.

**Locks.** `LockInv`: what a lock names is a `checking` or `broadcast` record, or the
provisional key of a batch settle call between taking the lock and renaming it; provisional
keys are never journaled. `HeldInv` is the other direction, an open settlement holds its
lock, and leaves out the targets of batch settles: the call journals the target
whether or not `rename_active_settlement_key` found the lock, which is the disagreement
of `serial_settle` (section 7). This is why `LockHeld` assumes that no request is a batch
settle (`NoSettles`); `OthersSerial` says what stays true beside them: two payments
of other kinds never wait for the chain together. Traps are excluded because a call that
traps leaves its lock behind, a provisional one with no call in flight to release it, and
may leave a reserved nonce that no record or transaction carries.

**No gap.** `rollback_reserved_nonce` gives a nonce back only if it is the last one
reserved. `GapInv` says that it always is: a call at its send holds the nonce
`nextNonce - 1`, because it holds the only lock (`OneScope`, `OnePrepares`). With
two scopes, which is two sellers, or a seller and a purchase of credit, the claim is false: a failed send
below a later reservation leaves a hole (a hazard, section 3).

**The collector.** `Inv` speaks of one channel at a time: where its worker stands
tells whether its attempt is signed; the attempt is covered by the stored charge; each
charged payment above what the chain and the collection know as claimed is
counted, or below the target of the attempt, or waits for a forced
claim; a live reservation has room in the backlog. What channels share, lock,
records and nonces, depends on the journaled attempts only (`JournalInv`,
`NonceInv`). Stale answers of the monitor are handled by one fact, that what a worker
has read was at most what the chain said at some time, which the chain
never takes back. The fees are counted: one per claim the chain has executed and one
per attempt under way (`FeeInv`). That a claim is not counted twice, or after its fee was
given back, rests on two facts: the chain executes a transaction once, and an
auto claim it may still execute is the one journaled now, so an attempt that is
given up was never signed.

**The store.** A session whose row was written since it read holds an older revision
than the row, so the compare-and-set refuses it. Soundness of rows and
the rule that a charge consumes its reservation give the two promises of `/verify`.
The limit of rows needs `StoredRows` to be finite and to grow by one row at a time
(`RowsBounded`), that of the deletion log that an entry goes before one comes
(`LoggedTyped`).

**Prices.** Stored fees and schedules are valid under the stored profile, whichever
update came last. This is why `set_runtime_profile` has to look at what it keeps, and
why the fallback of `scheduled_claim_fee` on an invalid schedule is never taken.

**Pages.** A record that stayed is seen or still ahead of the cursor, and a key that was
seen never comes ahead of it again, not even when its record is removed and made anew:
a new record is not older than the one it follows.

**Admission.** By cases on the kind of request: what was accepted passed the checks
with the charge it was given, and these imply what the encoder and the
contracts ask.

**The registry.** Each part's theorems are first proved of its own specification
(`StoreSpec`, `ConfigSpec`, `AcceptanceSpec`, `IndexSpec`, `AdmissionSpec`).
`RegistryProofs` joins the invariants: what a part keeps does not depend on
what the others change, except for the types of sellers, scopes and environment, and an
acceptance step changes the environment only in ways a configuration update may. It proves
this of `Interleaving`, in which any part may move at any time, so the product of state
spaces that TLC leaves out is covered; `Spec` is the special case of one part per execution.

Model-checked only: liveness (`PendingResolves`, `LockReleased` and the properties of
`collect_live`), which is beyond what TLAPS proves here. `LockHeldWhileOpen` and
`NoNonceGap` are proved for the requests their run has (no batch settle, one scope)
and for any number of them; beyond that they are false, see above.

## 7 Disagreements found

Each is a run whose property TLC finds violated; `PROJECT.json` quotes the lines.

| run | what happens |
|---|---|
| `serial_settle` | Two identical batch settles share their provisional lock. The early return of one frees it, the rename of the other does nothing, and it sends without a lock beside another settlement of the seller. |
| `stale_overwrite` | The pending answer a first call awaited overwrites the settled record a replay has written meanwhile; the record is broadcast again, without lock. |
| `retry` | The broadcast record of a batch settle loses its `batchSettleToken`, so a resend does not find the pending target and is answered 429. |
| `early_claim` | An attempt given up sets `force`, and only a run that finds nothing owed clears it: a later claim may collect one payment for a whole fee although nobody asked. |

Seen while modelling, and true in the models, but not kept as runs:

* A callback that traps after the node took the transaction leaves a checking
  record. `recover_stale_settlement` refunds it, though README.md:253 of the
  repository means unsent records: the record cannot tell. (`RefundOnlyUnsent`
  with `AllowTraps = TRUE`.)
* A claim settles a collection after `SETTLE_MIN_CONFIRMATIONS`, while the monitor
  reads the finalized block. A receiver disabled (and drained) and enabled again
  in between registers the channel afresh, with claimed 0, force set and the
  attempt sequence restarted: the next attempt has the record key of the executed
  claim, writes `checking` over its settled record, finds it already mined and removes
  the record. The ledger stays right (`FeeConserved`).
* A disabled channel whose debt is collected while a reservation is live is kept;
  when the reservation expires, `run` returns early (auto_claim.rs 531) before the
  removal (576), and the collection sleeps for ever. It counts towards the 1000
  collections, and reservations are answered `auto_claim_draining` until one of
  them, 120 seconds after the last monitor run, queues another.

* `/settle` checks the payment window, the seller authorization and the seller's
  acceptance before it looks for a record (lib.rs 1926-1990 against 2005; batch deposits
  likewise, batch.rs 1189-1215). A resend after they have expired, after new documents
  came into force, or, for a deposit, after its charge was committed, is
  refused and never refreshes the broadcast record; its lock stays held. README.md:52
  of the repository promises the refresh for resends without a limit.
* Revisions restart at 1 when a deleted channel is created again (lib.rs 5601), so a
  writer that holds revision 1 of the old row passes the compare-and-set of the new
  one. Only a provisional row, or one without a live reservation, can be deleted.
  Deleting and creating again also resets the stored charge.
* The comment at lib.rs 685 ties the legacy fee to the effective price of 100
  claims. `set_runtime_profile` sets the legacy fee and keeps a schedule. No
  price is wrong (`PricesHonoured`): the legacy fee is only charged where no kind
  fees are configured.
* An acceptance does not name the chain: one made on amoy stays current after a switch
  to polygon with the same, non-draft documents.
* The settlement key is a hash of the request as it was written, so the same deposit
  with an address in other letter case has another key. The chain executes it once.

## 8 Bounds at a glance

| run | distinct states (about) | bounds |
|---|---|---|
| `replace` | 520,000 | 3 calls, 2 gas prices, 2 fees, nonces to 2 |
| `ledger` | 620,000 | 3 calls, 2 claims on chain, nonces to 2 |
| `traps` | 640,000 | 2 calls, 2 sellers, 2 fees, nonces to 2 |
| `live` | 2,200 | 2 calls, 1 gas price, nonces to 2 |
| `collect` | 2,300,000 | 1 channel, 3 payments, 2 attempts |
| `channels` | 910,000 | 2 channels, 1 worker place |
| `collect_live` | 120,000 | 1 channel, 2 payments |
| `registry` | 220,000 | one part at a time, see section 5 |

The bounds that exist only in the models are `MaxNonce`, `MaxClaimed` and the
number of calls (`Settlement`); `MaxCharged`, `MaxSequence`, `MaxNonce` and the
selected `Events` (`AutoClaim`); `MaxRevision`, `MaxTime`, `MaxSigned`, `LastSecond`
and the sets of inputs (`Registry`). Each is a guard of the actions that would
exceed it, and none appears in a property except in the types.

## 9 Not modelled

* Text: hexadecimal, RLP, ABI, JSON and SQL. Hashing and signing are symbolic. Numbers
  do not overflow: amounts are natural numbers.
* The cost arithmetic of outcalls (`http_outcall.rs`): no state.
* The timer deadline and the due index of the collector (auto_claim.rs 391-475):
  abstracted to which collections are due and to fairness.
* Time in the settlement engine: see section 7.
* Reorganisations, dropped transactions, nodes that answer an error after forwarding
  a transaction, several signing keys: assumptions of section 3.
* A profile switch under stored channel rows, and one under pending settlements.
* The list cache of `icBatchChannelStorage.ts` and the paging queries of channels
  and deletions: reads only.
* The one-time migrations of legacy stable formats (lib.rs 868-890 and following).
* Scripts, web console and test contracts: sequential I/O, display and fixtures.
* Engine, collector and store in one specification: section 2 says why.

## 10 Running

In this directory, with TLC and TLAPS installed:

    tlc -workers 2 -config MCSettlementReplace.cfg MCSettlement.tla
    tlc -workers 2 -config MCAutoClaimOne.cfg MCAutoClaim.tla
    tlc -workers 2 -config MCRegistry.cfg MCRegistry.tla
    tlapm AutoClaimProofs.tla
    tlapm RegistryProofs.tla

Each run takes at most a few minutes; the proofs of the collector and of the
refinement take several minutes each from nothing.
