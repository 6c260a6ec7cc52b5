------------------------------- MODULE AutoClaim -------------------------------
(***************************************************************************)
(* The auto-claim collector (auto_claim.rs): for the channels of one        *)
(* receiver it counts the payments committed off chain, watches the chain,  *)
(* and claims what was charged in one transaction.  It shares the           *)
(* receiver's settlement lock, its credit and the nonce manager with the    *)
(* other settlements, which Settlement.tla details and which appear here as *)
(* the environment.                                                         *)
(*                                                                          *)
(* A worker is a timer callback; as in Settlement.tla an action is the code *)
(* between two awaits.  Amounts count payments: each adds 1 to the charge.  *)
(***************************************************************************)
EXTENDS Integers, FiniteSets

CONSTANTS
  Channel,         \* channels of the receiver
  None,            \* absence of a channel, a collection, an attempt or a holder
  Manual,          \* the lock holder that is not an auto claim
  Threshold,       \* THRESHOLD: payments that trigger a claim
  MaxOutstanding,  \* MAX_OUTSTANDING: payments after which reservations stop
  MaxCollections,  \* collections the canister keeps
  Concurrency,     \* CONCURRENCY: workers at a time
  Fee,             \* fee of a one-voucher claim
  InitCredit,      \* credit of the receiver
  Events,          \* what may go wrong or come from elsewhere, see Event
  MaxCharged,      \* bound: payments per channel
  MaxSequence,     \* attempts per collection; u64::MAX in the code
  MaxNonce         \* bound: highest nonce

ASSUME AutoClaimAssumption ==
  /\ {Threshold, MaxOutstanding, MaxCollections, Concurrency} \subseteq Nat \ {0}
  /\ {Fee, InitCredit, MaxCharged, MaxSequence, MaxNonce} \subseteq Nat

(* The runs choose among: RPC and configuration errors, traps, settlements  *)
(* that take the lock, settlements that take nonces, claims from elsewhere, *)
(* reverted claims, withdrawals, deletions, monitors that come too late.    *)
Event == {"error", "trap", "lock", "nonce", "elsewhere", "revert", "withdraw",
          "delete", "stale"}

ASSUME EventsAssumption == Events \subseteq Event

Key == [channel : Channel, target : 0..MaxCharged, sequence : 1..MaxSequence]

ASSUME DistinctAssumption == Manual # None /\ {Manual, None} \cap Key = {}

VARIABLES
  enabled,    \* POLICIES: the receiver collects automatically
  store,      \* BATCH_CHANNELS
  collection, \* COLLECTIONS
  worker,     \* BUSY and the locals of the running workers
  lock,       \* the receiver's entry of ACTIVE_SETTLEMENTS
  credit,     \* the receiver's SELLER_CREDITS
  record,     \* SETTLEMENTS: status of the auto-claim keys
  nextNonce,  \* NONCES
  other,      \* the nonce another settlement reserved and has not sent
  sent,       \* external: transactions some node has accepted
  mined,      \* external: executed claims and whether they succeeded
  chainNonce, \* external: account nonce of the signing address
  latest,     \* external: totalClaimed per channel in the latest block
  final,      \* external: totalClaimed per channel in the finalized block
  leaving     \* external: channels whose payer has requested a withdrawal

shared == <<lock, credit, record, nextNonce, other>>
chain == <<sent, mined, chainNonce, latest, final, leaving>>
vars == <<enabled, store, collection, worker, shared, chain>>

Pending == {"none", "live", "expired"}
StoredChannel == [charged : 0..MaxCharged, pending : Pending]

(* "no", or why the next claim ignores the threshold: it was asked for      *)
(* (request, disabling, balance from before enabling, withdrawal), or an    *)
(* attempt was given up.  The code keeps only whether it is set.            *)
Forced == {"no", "asked", "retry"}
Attempt == [key : Key, nonce : -1..MaxNonce, asked : BOOLEAN]
Collection ==
  [charges : SUBSET (1..MaxCharged), claimed : 0..MaxCharged, force : Forced,
   due : {"now", "later", "never"}, monitored : {"never", "fresh", "stale"},
   withdrawal : BOOLEAN, error : {"none", "busy", "other"}, halted : BOOLEAN,
   attempt : Attempt \cup {None}, sequence : 0..MaxSequence, seed : Pending]
WorkerPC == {"idle", "monitor", "monitored", "latest", "nonce", "quote", "send",
             "refresh", "resend"}
Worker == [pc : WorkerPC, claimed : 0..MaxCharged, withdrawal : BOOLEAN,
           nonce : 0..MaxNonce]
Tx == [key : Key \cup {Manual}, nonce : 0..MaxNonce]

ASSUME AbsentAssumption ==
  None \notin Attempt /\ None \notin Collection /\ None \notin StoredChannel

TypeOK ==
  /\ enabled \in BOOLEAN
  /\ store \in [Channel -> StoredChannel \cup {None}]
  /\ collection \in [Channel -> Collection \cup {None}]
  /\ worker \in [Channel -> Worker]
  /\ lock \in Key \cup {None, Manual}
  /\ credit \in Nat
  /\ record \in [Key -> {"none", "checking", "broadcast", "settled", "failed"}]
  /\ nextNonce \in 0..(MaxNonce + 1)
  /\ other \in -1..MaxNonce
  /\ sent \subseteq Tx
  /\ mined \subseteq [tx : Tx, ok : BOOLEAN]
  /\ chainNonce \in 0..(MaxNonce + 1)
  /\ latest \in [Channel -> 0..MaxCharged]
  /\ final \in [Channel -> 0..MaxCharged]
  /\ leaving \subseteq Channel

IdleWorker == [pc |-> "idle", claimed |-> 0, withdrawal |-> FALSE, nonce |-> 0]

Init ==
  /\ enabled = FALSE
  /\ store = [c \in Channel |-> None]
  /\ collection = [c \in Channel |-> None]
  /\ worker = [c \in Channel |-> IdleWorker]
  /\ lock = None /\ credit = InitCredit
  /\ record = [k \in Key |-> "none"]
  /\ nextNonce = 0 /\ other = -1
  /\ sent = {} /\ mined = {} /\ chainNonce = 0
  /\ latest = [c \in Channel |-> 0] /\ final = [c \in Channel |-> 0]
  /\ leaving = {}

-----------------------------------------------------------------------------
Larger(a, b) == IF a >= b THEN a ELSE b

Managed(c) == collection[c] # None
Busy == {c \in Channel : worker[c].pc # "idle"}

(* A collection of a channel whose stored charge is n and whose reservation *)
(* is p: what was charged before is collected at the first opportunity.     *)
Fresh(n, p) ==
  [charges |-> {}, claimed |-> 0, force |-> IF n > 0 THEN "asked" ELSE "no",
   due |-> "now", monitored |-> "never", withdrawal |-> FALSE, error |-> "none",
   halted |-> FALSE, attempt |-> None, sequence |-> 0, seed |-> p]

Put(c, col) == collection' = [collection EXCEPT ![c] = col]
Drop(c) == Put(c, None)
SetStore(c, n, p) == store' = [store EXCEPT ![c] = [charged |-> n, pending |-> p]]

(* Mutant: the backlog limit is off by one.                                 *)
StopReasonLate(col) ==
  \/ ~enabled
  \/ col.withdrawal
  \/ col.monitored # "fresh"
  \/ Cardinality(col.charges) > MaxOutstanding
  \/ credit < Fee
  \/ col.error = "other"

(* stop_reason: why a new reservation is refused.                           *)
StopReason(col) ==
  \/ ~enabled
  \/ col.withdrawal
  \/ col.monitored # "fresh"
  \/ Cardinality(col.charges) >= MaxOutstanding
  \/ credit < Fee
  \/ col.error = "other"

(* Mutant: an idle collection is not woken by a commit.                     *)
AfterUpdateAsleep(col, old, new, pending) ==
  LET charges == IF new > old THEN col.charges \cup {new} ELSE col.charges
      full(s) == Cardinality(s) >= Threshold
  IN [col EXCEPT !.seed = pending,
                 !.force = IF enabled THEN @ ELSE "asked",
                 !.charges = charges,
                 !.due = IF ~full(col.charges) /\ full(charges) THEN "now" ELSE @]

(* after_update: count the payment, and bring the next run forward when the *)
(* threshold is reached or the collection was asleep.                       *)
AfterUpdate(col, old, new, pending) ==
  LET charges == IF new > old THEN col.charges \cup {new} ELSE col.charges
      full(s) == Cardinality(s) >= Threshold
      wake == \/ ~full(col.charges) /\ full(charges)
              \/ col.due = "never" /\ (new > old \/ pending = "live")
  IN [col EXCEPT !.seed = pending,
                 !.force = IF enabled THEN @ ELSE "asked",
                 !.charges = charges,
                 !.due = IF wake THEN "now" ELSE @]

-----------------------------------------------------------------------------
(* batch_update_channel, by the server adapter of the receiver.             *)

Charged(c) == IF store[c] = None THEN 0 ELSE store[c].charged
Unmonitored(col) == col.monitored # "fresh"

(* The collection as before_update leaves it: registered if it was unknown, *)
(* and scheduled for a monitor run if its view of the chain is too old.     *)
Registered(c) ==
  LET col == IF Managed(c) THEN collection[c] ELSE Fresh(Charged(c), "live")
  IN IF Unmonitored(col) THEN [col EXCEPT !.monitored = "never", !.due = "now"]
     ELSE col

HasRoom(c) ==
  Managed(c) \/ Cardinality({d \in Channel : Managed(d)}) < MaxCollections

(* A new pendingRequest, for a new channel or replacing the stored one.     *)
Reserve(c) ==
  /\ enabled \/ Managed(c)
  /\ HasRoom(c)
  /\ ~StopReason(Registered(c))
  /\ SetStore(c, Charged(c), "live")
  /\ Put(c, AfterUpdate(Registered(c), Charged(c), Charged(c), "live"))
  /\ UNCHANGED <<enabled, worker, shared, chain>>

(* The refused reservation still leaves its monitor seed behind.            *)
ReserveRefused(c) ==
  /\ enabled \/ Managed(c)
  /\ HasRoom(c)
  /\ StopReason(Registered(c))
  /\ Put(c, Registered(c))
  /\ UNCHANGED <<enabled, store, worker, shared, chain>>

(* Auto collection never knew this channel: nothing but the store changes.  *)
ReserveUnmanaged(c) ==
  /\ ~enabled /\ ~Managed(c)
  /\ SetStore(c, Charged(c), "live")
  /\ UNCHANGED <<enabled, collection, worker, shared, chain>>

Updated(c, new, pending) ==
  /\ SetStore(c, new, pending)
  /\ IF Managed(c)
     THEN Put(c, AfterUpdate(collection[c], store[c].charged, new, pending))
     ELSE UNCHANGED collection
  /\ UNCHANGED <<enabled, worker, shared, chain>>

(* An accepted reservation is committed whatever stop_reason says.  The     *)
(* voucher is worth one payment more than what is charged or claimed: a     *)
(* channel that was deleted and created again starts with charge 0.         *)
Commit(c) ==
  LET new == Larger(store[c].charged, latest[c]) + 1 IN
  /\ store[c] # None /\ store[c].pending = "live"
  /\ new <= MaxCharged
  /\ Updated(c, new, "none")

Cancel(c) ==
  /\ store[c] # None /\ store[c].pending # "none"
  /\ Updated(c, store[c].charged, "none")

(* Mutant: deletion looks at the attempt only.                              *)
DeletableEarly(c) == collection[c].attempt = None

(* before_delete                                                            *)
Deletable(c) ==
  /\ collection[c].attempt = None
  /\ store[c].charged <= collection[c].claimed
  /\ store[c].pending # "live"

Delete(c) ==
  /\ "delete" \in Events
  /\ store[c] # None
  /\ store[c].pending = "live" => store[c].charged = 0
  /\ Managed(c) => Deletable(c)
  /\ store' = [store EXCEPT ![c] = None]
  /\ Drop(c)
  /\ UNCHANGED <<enabled, worker, shared, chain>>

-----------------------------------------------------------------------------
(* The receiver's switches.                                                 *)

Enable ==
  LET stored == {c \in Channel : store[c] # None}
      managed == {c \in Channel : Managed(c)} IN
  /\ Cardinality(stored \cup managed) <= MaxCollections
  /\ enabled' = TRUE
  /\ collection' =
       [c \in Channel |->
          IF c \notin stored THEN collection[c]
          ELSE IF Managed(c) THEN [collection[c] EXCEPT !.due = "now"]
          ELSE Fresh(store[c].charged, store[c].pending)]
  /\ UNCHANGED <<store, worker, shared, chain>>

Disable ==
  /\ enabled' = FALSE
  /\ collection' =
       [c \in Channel |->
          IF Managed(c)
          THEN [collection[c] EXCEPT !.force = "asked", !.due = "now"]
          ELSE None]
  /\ UNCHANGED <<store, worker, shared, chain>>

RequestClaim(c) ==
  /\ Managed(c)
  /\ Put(c, [collection[c] EXCEPT !.force = "asked", !.halted = FALSE,
                                  !.due = "now"])
  /\ UNCHANGED <<enabled, store, worker, shared, chain>>

-----------------------------------------------------------------------------
(* The worker.                                                              *)

Sleeps(c, col) ==
  /\ col.attempt = None /\ col.force = "no"
  /\ store[c] # None
  /\ store[c].charged <= col.claimed
  /\ store[c].pending # "live"

(* Mutant: a channel with a transaction under way is not looked at again.   *)
FinishedForgets(c, col, error) ==
  [col EXCEPT !.error = IF error = "none" THEN @ ELSE error,
              !.due = IF Sleeps(c, col) \/ col.attempt # None THEN "never"
                      ELSE "later"]

(* What dispatch does when run has returned: note the error, schedule.      *)
Finished(c, col, error) ==
  [col EXCEPT !.error = IF error = "none" THEN @ ELSE error,
              !.due = IF Sleeps(c, col) THEN "never" ELSE "later"]

End(c, col, error) ==
  /\ Put(c, IF col = None THEN None ELSE Finished(c, col, error))
  /\ worker' = [worker EXCEPT ![c] = IdleWorker]

Await(c, pc) == worker' = [worker EXCEPT ![c].pc = pc]

(* Mutant: the journal is cleared without the refund.                       *)
AbandonUnrefunded(c, error) ==
  LET col == collection[c] IN
  /\ lock' = IF lock = col.attempt.key THEN None ELSE lock
  /\ record' = [record EXCEPT ![col.attempt.key] = "none"]
  /\ End(c, [col EXCEPT !.attempt = None,
                        !.force = IF col.attempt.asked THEN "asked" ELSE "retry"],
         error)
  /\ UNCHANGED credit

(* abandon_prepared: undo an attempt that was never signed.                 *)
Abandon(c, error) ==
  LET col == collection[c] IN
  /\ credit' = credit + Fee
  /\ lock' = IF lock = col.attempt.key THEN None ELSE lock
  /\ record' = [record EXCEPT ![col.attempt.key] = "none"]
  /\ End(c, [col EXCEPT !.attempt = None,
                        !.force = IF col.attempt.asked THEN "asked" ELSE "retry"],
         error)

(* Mutant: any attempt found by run is given up, a signed one included.     *)
UnsignedAny(c) == collection[c].attempt # None

Unsigned(c) == collection[c].attempt # None /\ collection[c].attempt.nonce = -1

Due(c) ==
  /\ Managed(c) /\ collection[c].due = "now"
  /\ worker[c].pc = "idle"
  /\ Cardinality(Busy) < Concurrency

(* run finds the attempt of an interrupted worker: give it up.              *)
DispatchAbandon(c) ==
  /\ Due(c) /\ Unsigned(c)
  /\ Abandon(c, "none")
  /\ UNCHANGED <<enabled, store, nextNonce, other, chain>>

NothingToWatch(c) == Sleeps(c, collection[c]) /\ collection[c].monitored # "never"

DispatchIdle(c) ==
  /\ Due(c) /\ ~Unsigned(c) /\ NothingToWatch(c)
  /\ End(c, collection[c], "none")
  /\ UNCHANGED <<enabled, store, shared, chain>>

DispatchMonitor(c) ==
  /\ Due(c) /\ ~Unsigned(c) /\ ~NothingToWatch(c)
  /\ Await(c, "monitor")
  /\ UNCHANGED <<enabled, store, collection, shared, chain>>

(* external: the node answers from the finalized and the latest block.      *)
ReadChannelState(c) ==
  /\ worker[c].pc = "monitor"
  /\ worker' = [worker EXCEPT ![c] =
                  [@ EXCEPT !.pc = "monitored", !.claimed = final[c],
                            !.withdrawal = c \in leaving]]
  /\ UNCHANGED <<enabled, store, collection, shared, chain>>

(* A configuration or RPC error; the collection may be gone by now.         *)
MonitorError(c) ==
  /\ "error" \in Events
  /\ worker[c].pc = "monitor"
  /\ End(c, collection[c], "other")
  /\ UNCHANGED <<enabled, store, shared, chain>>

(* Mutant: a claim clears the whole history.                                *)
ReconciledAll(col, n) ==
  [col EXCEPT !.claimed = Larger(@, n), !.charges = {}]

(* reconcile: payments up to the claimed amount are collected.              *)
Reconciled(col, n) ==
  LET claimed == Larger(col.claimed, n) IN
  [col EXCEPT !.claimed = claimed, !.charges = {a \in @ : a > claimed}]

(* Mutant: an answer without withdrawal clears the request for a claim.     *)
WatchedForgets(c) ==
  LET col == Reconciled(collection[c], worker[c].claimed) IN
  [col EXCEPT !.monitored = "fresh", !.withdrawal = worker[c].withdrawal,
              !.error = IF col.halted THEN @ ELSE "none",
              !.force = IF worker[c].withdrawal THEN "asked" ELSE "no"]

(* The collection with the answer worked in.                                *)
Watched(c) ==
  LET col == Reconciled(collection[c], worker[c].claimed) IN
  [col EXCEPT !.monitored = "fresh", !.withdrawal = worker[c].withdrawal,
              !.error = IF col.halted THEN @ ELSE "none",
              !.force = IF worker[c].withdrawal THEN "asked" ELSE @]

Answered(c) == worker[c].pc = "monitored" /\ Managed(c)

MonitoredGone(c) ==
  /\ worker[c].pc = "monitored" /\ ~Managed(c)
  /\ End(c, None, "none")
  /\ UNCHANGED <<enabled, store, shared, chain>>

(* A journaled transaction is resolved before anything else.                *)
MonitoredResume(c) ==
  /\ Answered(c) /\ collection[c].attempt # None
  /\ Put(c, Watched(c))
  /\ Await(c, "refresh")
  /\ UNCHANGED <<enabled, store, shared, chain>>

(* No stored channel: a seed whose reservation never came is forgotten.     *)
MonitoredSeed(c) ==
  /\ Answered(c) /\ collection[c].attempt = None /\ store[c] = None
  /\ End(c, IF ~enabled \/ collection[c].seed # "live" THEN None ELSE Watched(c),
         "none")
  /\ UNCHANGED <<enabled, store, shared, chain>>

Owed(c) ==
  /\ Answered(c) /\ collection[c].attempt = None /\ store[c] # None
  /\ store[c].charged > Watched(c).claimed

(* Everything is collected; a disabled receiver's collection ends here.     *)
MonitoredPaid(c) ==
  /\ Answered(c) /\ collection[c].attempt = None /\ store[c] # None
  /\ store[c].charged <= Watched(c).claimed
  /\ End(c, IF ~enabled /\ store[c].pending # "live" THEN None
            ELSE [Watched(c) EXCEPT !.force = "no"],
         "none")
  /\ UNCHANGED <<enabled, store, shared, chain>>

Wanted(col) ==
  ~col.halted /\ (col.force # "no" \/ Cardinality(col.charges) >= Threshold)

MonitoredWait(c) ==
  /\ Owed(c) /\ ~Wanted(Watched(c))
  /\ End(c, Watched(c), "none")
  /\ UNCHANGED <<enabled, store, shared, chain>>

(* Mutants: a claim starts whoever holds the lock; the fee is not checked.  *)
LockIgnored == TRUE
FeeUnchecked == TRUE

LockFree == lock = None
HasFee == credit >= Fee

(* The lock is busy; or the balance, the configuration, the sequence or the *)
(* credit does not allow the claim.                                         *)
MonitoredRefused(c) ==
  /\ Owed(c) /\ Wanted(Watched(c))
  /\ \/ ~LockFree /\ End(c, Watched(c), "busy")
     \/ /\ \/ "error" \in Events \/ ~HasFee
           \/ Watched(c).sequence = MaxSequence
        /\ End(c, Watched(c), "other")
  /\ UNCHANGED <<enabled, store, shared, chain>>

(* Mutant: the claim asks for one payment more than was charged.            *)
TargetBeyond(c) == IF store[c].charged < MaxCharged THEN store[c].charged + 1
                   ELSE store[c].charged

TargetOf(c) == store[c].charged

(* Take the lock, reserve the fee, and journal the attempt.                 *)
StartAttempt(c) ==
  LET col == Watched(c)
      key == [channel |-> c, target |-> TargetOf(c), sequence |-> col.sequence + 1]
  IN
  /\ Owed(c) /\ Wanted(col)
  /\ col.sequence < MaxSequence
  /\ LockFree /\ HasFee
  /\ lock' = key
  /\ credit' = credit - Fee
  /\ record' = [record EXCEPT ![key] = "checking"]
  /\ Put(c, [col EXCEPT !.sequence = @ + 1,
                        !.attempt = [key |-> key, nonce |-> -1,
                                     asked |-> col.force = "asked"],
                        !.force = IF enabled THEN "no" ELSE "asked"])
  /\ Await(c, "latest")
  /\ UNCHANGED <<enabled, store, nextNonce, other, chain>>

(* prepare: a claim that was mined meanwhile makes this one needless.       *)
AlreadyMined(c) ==
  /\ worker[c].pc = "latest"
  /\ latest[c] >= collection[c].attempt.key.target
  /\ Abandon(c, "none")
  /\ UNCHANGED <<enabled, store, nextNonce, other, chain>>

NotYetMined(c) ==
  /\ worker[c].pc = "latest"
  /\ latest[c] < collection[c].attempt.key.target
  /\ Await(c, "nonce")
  /\ UNCHANGED <<enabled, store, collection, shared, chain>>

MayReportNonce(n) ==
  n >= chainNonce /\ \A m \in chainNonce..(n - 1) : \E tx \in sent : tx.nonce = m

NonceAnswered(c, n) ==
  /\ worker[c].pc = "nonce" /\ MayReportNonce(n)
  /\ worker' = [worker EXCEPT ![c] = [@ EXCEPT !.pc = "quote", !.nonce = n]]
  /\ UNCHANGED <<enabled, store, collection, shared, chain>>

PrepareError(c) ==
  /\ "error" \in Events
  /\ worker[c].pc \in {"latest", "nonce", "quote"}
  /\ Abandon(c, "other")
  /\ UNCHANGED <<enabled, store, nextNonce, other, chain>>

(* Mutant: the nonce read before the quote is used as it is.                *)
NonceAsRead(a, b) == b

NonceToReserve(a, b) == Larger(a, b)

(* After the quote, without another await: reserve the nonce, sign, and     *)
(* journal the raw transaction before it is sent.                           *)
Prepared(c) ==
  LET n == NonceToReserve(nextNonce, worker[c].nonce)
      key == collection[c].attempt.key IN
  /\ worker[c].pc = "quote"
  /\ n <= MaxNonce
  /\ nextNonce' = n + 1
  /\ Put(c, [collection[c] EXCEPT !.attempt = [@ EXCEPT !.nonce = n]])
  /\ record' = [record EXCEPT ![key] = "broadcast"]
  /\ Await(c, "send")
  /\ UNCHANGED <<enabled, store, lock, credit, other, chain>>

Journaled(c) == [key |-> collection[c].attempt.key,
                 nonce |-> collection[c].attempt.nonce]

(* A node may have taken the raw transaction, whatever it answered.         *)
MaySend(c) ==
  \/ UNCHANGED sent
  \/ /\ Journaled(c).nonce >= chainNonce
     /\ sent' = sent \cup {Journaled(c)}

(* The answer to the send is ignored.                                       *)
Sent(c) ==
  /\ worker[c].pc \in {"send", "resend"}
  /\ MaySend(c)
  /\ End(c, collection[c], "none")
  /\ UNCHANGED <<enabled, store, shared, mined, chainNonce, latest, final, leaving>>

(* resume: the receipt of the journaled transaction.                        *)
RefreshError(c) ==
  /\ "error" \in Events
  /\ worker[c].pc = "refresh"
  /\ End(c, collection[c], "other")
  /\ UNCHANGED <<enabled, store, shared, chain>>

RefreshPending(c) ==
  /\ worker[c].pc = "refresh"
  /\ Await(c, "resend")
  /\ UNCHANGED <<enabled, store, collection, shared, chain>>

Receipt(c, ok) == [tx |-> Journaled(c), ok |-> ok] \in mined

Unlocked(key) == lock' = IF lock = key THEN None ELSE lock

(* Mutant: the lock outlives the settled claim.                             *)
SettledLocked(c) ==
  LET key == collection[c].attempt.key IN
  /\ worker[c].pc = "refresh" /\ Receipt(c, TRUE)
  /\ record' = [record EXCEPT ![key] = "settled"]
  /\ End(c, [Reconciled(collection[c], key.target) EXCEPT !.attempt = None], "none")
  /\ UNCHANGED <<enabled, store, lock, credit, nextNonce, other, chain>>

Settled(c) ==
  LET key == collection[c].attempt.key IN
  /\ worker[c].pc = "refresh" /\ Receipt(c, TRUE)
  /\ record' = [record EXCEPT ![key] = "settled"]
  /\ Unlocked(key)
  /\ End(c, [Reconciled(collection[c], key.target) EXCEPT !.attempt = None], "none")
  /\ UNCHANGED <<enabled, store, credit, nextNonce, other, chain>>

(* A reverted claim keeps its fee and stops the paid retries.               *)
Reverted(c) ==
  LET key == collection[c].attempt.key IN
  /\ worker[c].pc = "refresh" /\ Receipt(c, FALSE)
  /\ record' = [record EXCEPT ![key] = "failed"]
  /\ Unlocked(key)
  /\ End(c, [collection[c] EXCEPT !.attempt = None, !.force = "asked",
                                  !.halted = TRUE], "other")
  /\ UNCHANGED <<enabled, store, credit, nextNonce, other, chain>>

(* A callback that traps: its guard leaves BUSY, the schedule stays.        *)
Trap(c) ==
  /\ "trap" \in Events
  /\ worker[c].pc # "idle"
  /\ IF worker[c].pc \in {"send", "resend"} THEN MaySend(c) ELSE UNCHANGED sent
  /\ worker' = [worker EXCEPT ![c] = IdleWorker]
  /\ UNCHANGED <<enabled, store, collection, shared, mined, chainNonce, latest,
                 final, leaving>>

-----------------------------------------------------------------------------
(* Time, the other settlements and the chain.                               *)

DueAgain(c) ==
  /\ Managed(c) /\ collection[c].due = "later"
  /\ Put(c, [collection[c] EXCEPT !.due = "now"])
  /\ UNCHANGED <<enabled, store, worker, shared, chain>>

MonitorAges(c) ==
  /\ "stale" \in Events
  /\ Managed(c) /\ collection[c].monitored = "fresh"
  /\ Put(c, [collection[c] EXCEPT !.monitored = "stale"])
  /\ UNCHANGED <<enabled, store, worker, shared, chain>>

(* expiresAt passes for the reservation, wherever it is remembered.         *)
PendingExpires(c) ==
  \/ /\ store[c] # None /\ store[c].pending = "live"
     /\ SetStore(c, store[c].charged, "expired")
     /\ IF Managed(c) /\ collection[c].seed = "live"
        THEN Put(c, [collection[c] EXCEPT !.seed = "expired"])
        ELSE UNCHANGED collection
     /\ UNCHANGED <<enabled, worker, shared, chain>>
  \/ /\ store[c] = None /\ Managed(c) /\ collection[c].seed = "live"
     /\ Put(c, [collection[c] EXCEPT !.seed = "expired"])
     /\ UNCHANGED <<enabled, store, worker, shared, chain>>

(* external: another settlement of the receiver holds the lock for a while; *)
(* another settlement of the canister takes a nonce, and sends or gives up. *)
ManualLock ==
  /\ "lock" \in Events
  /\ lock \in {None, Manual}
  /\ lock' = IF lock = None THEN Manual ELSE None
  /\ UNCHANGED <<enabled, store, collection, worker, credit, record, nextNonce,
                 other, chain>>

OtherReserves ==
  /\ "nonce" \in Events
  /\ other = -1 /\ nextNonce <= MaxNonce
  /\ other' = nextNonce /\ nextNonce' = nextNonce + 1
  /\ UNCHANGED <<enabled, store, collection, worker, lock, credit, record, chain>>

OtherSends ==
  /\ other # -1
  /\ sent' = sent \cup {[key |-> Manual, nonce |-> other]}
  /\ other' = -1
  /\ UNCHANGED <<enabled, store, collection, worker, lock, credit, record,
                 nextNonce, mined, chainNonce, latest, final, leaving>>

OtherGivesUp ==
  /\ other # -1
  /\ nextNonce' = IF nextNonce = other + 1 THEN other ELSE nextNonce
  /\ other' = -1
  /\ UNCHANGED <<enabled, store, collection, worker, lock, credit, record, chain>>

Mine(tx, ok) ==
  /\ ok \/ ("revert" \in Events /\ tx.key # Manual)
  /\ tx.nonce = chainNonce
  /\ chainNonce' = chainNonce + 1
  /\ mined' = mined \cup {[tx |-> tx, ok |-> ok]}
  /\ latest' = IF tx.key = Manual \/ ~ok THEN latest
               ELSE [latest EXCEPT ![tx.key.channel] = Larger(@, tx.key.target)]
  /\ UNCHANGED <<enabled, store, collection, worker, shared, sent, final, leaving>>

(* The vouchers of a channel may be claimed by a manual claim or elsewhere. *)
ClaimedElsewhere(c) ==
  /\ "elsewhere" \in Events
  /\ store[c] # None /\ latest[c] < store[c].charged
  /\ latest' = [latest EXCEPT ![c] = store[c].charged]
  /\ UNCHANGED <<enabled, store, collection, worker, shared, sent, mined,
                 chainNonce, final, leaving>>

Finalize(c) ==
  /\ final[c] < latest[c]
  /\ final' = [final EXCEPT ![c] = latest[c]]
  /\ UNCHANGED <<enabled, store, collection, worker, shared, sent, mined,
                 chainNonce, latest, leaving>>

RequestWithdrawal(c) ==
  /\ "withdraw" \in Events
  /\ c \notin leaving
  /\ leaving' = leaving \cup {c}
  /\ UNCHANGED <<enabled, store, collection, worker, shared, sent, mined,
                 chainNonce, latest, final>>

-----------------------------------------------------------------------------
Update(c) ==
  \/ Reserve(c) \/ ReserveRefused(c) \/ ReserveUnmanaged(c)
  \/ Commit(c) \/ Cancel(c) \/ Delete(c)

Dispatch(c) == DispatchAbandon(c) \/ DispatchIdle(c) \/ DispatchMonitor(c)

Resume(c) ==
  \/ MonitorError(c)
  \/ MonitoredGone(c) \/ MonitoredResume(c) \/ MonitoredSeed(c)
  \/ MonitoredPaid(c) \/ MonitoredWait(c) \/ MonitoredRefused(c)
  \/ StartAttempt(c) \/ AlreadyMined(c) \/ NotYetMined(c)
  \/ \E n \in 0..MaxNonce : NonceAnswered(c, n)
  \/ PrepareError(c) \/ Prepared(c) \/ Sent(c)
  \/ RefreshError(c) \/ RefreshPending(c) \/ Settled(c) \/ Reverted(c)

Time(c) == DueAgain(c) \/ MonitorAges(c) \/ PendingExpires(c)

Environment ==
  \/ ManualLock \/ OtherReserves \/ OtherSends \/ OtherGivesUp
  \/ \E tx \in sent, ok \in BOOLEAN : Mine(tx, ok)
  \/ \E c \in Channel : \/ ReadChannelState(c) \/ Trap(c) \/ ClaimedElsewhere(c)
                        \/ Finalize(c) \/ RequestWithdrawal(c)

Next ==
  \/ Enable \/ Disable
  \/ \E c \in Channel : Update(c) \/ RequestClaim(c) \/ Dispatch(c) \/ Resume(c)
                        \/ Time(c)
  \/ Environment

Spec == Init /\ [][Next]_vars
=============================================================================
