------------------------------ MODULE Settlement ------------------------------
(***************************************************************************)
(* The settlement engine of the facilitator canister (lib.rs): the request *)
(* handlers that turn a signed payment into one Polygon transaction, the   *)
(* settlement records, the per-seller active lock, the nonce manager and   *)
(* the seller credit ledger they share.                                    *)
(*                                                                         *)
(* The Internet Computer runs a handler atomically between two awaits; at  *)
(* an await (an HTTPS outcall to the RPC node) any other handler may run.  *)
(* An action is therefore the code between two awaits, and a handler keeps *)
(* in hs[h] the locals that survive its await.                             *)
(***************************************************************************)
EXTENDS Integers, FiniteSets

CONSTANTS
  Seller,       \* sellers, by normalised address
  Facilitator,  \* the lock scope of credit purchases: the signing address alone
  None,         \* absence of a key
  Handler,      \* calls that can be in flight at the same time
  Request,      \* settlement keys of the payments clients may submit
  Fee,          \* fees the configuration may charge for a settlement
  TopUp,        \* credit a paid seller-credit purchase adds
  InitCredit,   \* credit every seller starts with
  Gas,          \* gas prices a fee quote may return
  MaxNonce,     \* bound: highest nonce the model hands out
  MaxClaimed,   \* bound: claims the batch contract records per seller
  AllowTraps    \* whether a callback may trap (and a controller then recover)

Kind == {"exact", "batch", "credit", "settle", "target"}

(* A settlement key.  "batch" stands for deposit, claim and refund; a       *)
(* "settle" key is the provisional key of a batch settle request and        *)
(* "target" the key it is renamed to once totalClaimed is known.            *)
KeySpace == [kind : Kind, seller : Seller, id : Nat]
Target(s, n) == [kind |-> "target", seller |-> s, id |-> n]
Key == Request \cup {Target(s, n) : s \in Seller, n \in 0..MaxClaimed}

ASSUME KeyAssumption ==
  /\ Request \subseteq KeySpace
  /\ \A r \in Request : r.kind # "target"
  /\ None \notin KeySpace
  /\ Facilitator \notin Seller

(* Keys are Keccak-256 digests (settlement_key), so there are finitely many. *)
ASSUME FiniteAssumption == IsFiniteSet(Request)

ASSUME AmountAssumption ==
  /\ Fee \subseteq Nat /\ Gas \subseteq Nat
  /\ TopUp \in Nat /\ InitCredit \in Nat
  /\ MaxNonce \in Nat /\ MaxClaimed \in Nat
  /\ AllowTraps \in BOOLEAN

VARIABLES
  rec,        \* SETTLEMENTS: [Key -> record]
  lock,       \* ACTIVE_SETTLEMENTS: [Scope -> key and nonce of the active tx]
  nextNonce,  \* NONCES of the signing address
  credit,     \* SELLER_CREDITS
  credited,   \* CREDITED_SETTLEMENTS: purchases already credited
  hs,         \* the calls in flight
  sent,       \* external: signed transactions some node has accepted
  mined,      \* external: executed transactions and whether they succeeded
  chainNonce, \* external: account nonce of the signing address
  claimed,    \* external: receivers().totalClaimed per seller
  paidOut     \* external: receivers().totalSettled per seller

ledger == <<credit, credited>>
chain == <<sent, mined, chainNonce, claimed, paidOut>>
vars == <<rec, lock, nextNonce, ledger, hs, chain>>

Scope == Seller \cup {Facilitator}
ScopeOf(k) == IF k.kind = "credit" THEN Facilitator ELSE k.seller
Free == [key |-> None, nonce |-> -1]
NoRecord == [status |-> "none", nonce |-> -1, gas |-> 0, fee |-> 0]
NothingSeen == [claimed |-> 0, settled |-> 0]
Idle == [pc |-> "idle", key |-> None, fee |-> 0, nonce |-> -1, gas |-> 0,
         seen |-> NothingSeen]

Tx == [key : Key, nonce : 0..MaxNonce, gas : Gas]
PC == {"idle", "receiver", "receiverRead", "nonce", "send", "confirm",
       "refresh", "resend"}
Status == {"none", "checking", "broadcast", "settled", "failed"}

SettlementRecord == [status : Status, nonce : -1..MaxNonce,
                     gas : Gas \cup {0}, fee : Nat]
ActiveSettlement == [key : Key \cup {None}, nonce : -1..MaxNonce]
CallState == [pc : PC, key : Key \cup {None}, fee : Nat, nonce : -1..MaxNonce,
              gas : Gas \cup {0},
              seen : [claimed : 0..MaxClaimed, settled : 0..MaxClaimed]]

(* A call in flight has a key, and one that may sign or has signed a nonce. *)
CallOK(c) ==
  /\ c \in CallState
  /\ c.pc # "idle" => c.key \in Key
  /\ c.pc \in {"send", "resend", "confirm"} => c.nonce # -1
  /\ c.pc = "confirm" => c.gas \in Gas

TypeOK ==
  /\ rec \in [Key -> SettlementRecord]
  /\ lock \in [Scope -> ActiveSettlement]
  /\ nextNonce \in 0..(MaxNonce + 1)
  /\ credit \in [Seller -> Nat]
  /\ credited \subseteq Key
  /\ hs \in [Handler -> CallState] /\ \A h \in Handler : CallOK(hs[h])
  /\ sent \subseteq Tx
  /\ mined \subseteq [tx : Tx, ok : BOOLEAN]
  /\ chainNonce \in 0..(MaxNonce + 1)
  /\ claimed \in [Seller -> 0..MaxClaimed]
  /\ paidOut \in [Seller -> 0..MaxClaimed]

Init ==
  /\ rec = [k \in Key |-> NoRecord]
  /\ lock = [s \in Scope |-> Free]
  /\ nextNonce = 0
  /\ credit = [s \in Seller |-> InitCredit]
  /\ credited = {}
  /\ hs = [h \in Handler |-> Idle]
  /\ sent = {} /\ mined = {} /\ chainNonce = 0
  /\ claimed = [s \in Seller |-> 0]
  /\ paidOut = [s \in Seller |-> 0]

-----------------------------------------------------------------------------
(* Operations on the lock table.                                           *)

(* Mutant: any call may take the lock.                                      *)
AcquireAlways(k) == TRUE

CanAcquire(k) == lock[ScopeOf(k)].key \in {None, k}

Acquired(k) ==
  [lock EXCEPT ![ScopeOf(k)] =
     IF @.key = None THEN [key |-> k, nonce |-> -1] ELSE @]

Released(l, k) == [l EXCEPT ![ScopeOf(k)] = IF @.key = k THEN Free ELSE @]

(* Mutant: a terminal receipt leaves the lock.                              *)
LockKept(k) == lock

ReleasedByKey(k) == [s \in Scope |-> IF lock[s].key = k THEN Free ELSE lock[s]]

(* rename_active_settlement_key does nothing unless the caller's key still  *)
(* holds the lock and no transaction was recorded in it.                    *)
Renamed(old, new) ==
  [lock EXCEPT ![ScopeOf(old)] =
     IF @.key = old /\ @.nonce = -1 THEN [@ EXCEPT !.key = new] ELSE @]

(* Mutant: the broadcast does not note its nonce in the lock.               *)
TxNotRecorded(k, n) == lock

WithActiveTx(k, n) ==
  [lock EXCEPT ![ScopeOf(k)] =
     IF @.key = k THEN [@ EXCEPT !.nonce = n] ELSE @]

HasActiveNonce(k, n) == \E s \in Scope : lock[s].key = k /\ lock[s].nonce = n

(* Mutant: the new record does not inherit the fee of the old one.          *)
InsertedAfresh(k, status, n, g, fee) ==
  [rec EXCEPT ![k] = [status |-> status, nonce |-> n, gas |-> g, fee |-> fee]]

(* insert_settlement overwrites whatever is there; only the metadata (here  *)
(* the charged fee) is inherited from the record it replaces.               *)
Inserted(k, status, n, g, fee) ==
  [rec EXCEPT ![k] = [status |-> status, nonce |-> n, gas |-> g,
                      fee |-> IF @.status = "none" THEN fee ELSE @.fee]]

(* Mutant: the fee is reserved without looking at the balance.              *)
ReserveUnchecked(s, f) == TRUE

(* reserve_seller_credit refuses a fee above the balance.                   *)
HasCredit(s, f) == credit[s] >= f

Call(pc, k, fee, n, g) ==
  [pc |-> pc, key |-> k, fee |-> fee, nonce |-> n, gas |-> g,
   seen |-> NothingSeen]

Step(h, call) == hs' = [hs EXCEPT ![h] = call]

-----------------------------------------------------------------------------
(* A client submits a payment.                                             *)

(* settle_http and batch_settle_http (deposit, claim, refund) up to the     *)
(* first await: lock, reserve the fee, journal a checking record.           *)
Settle(h, r, f) ==
  /\ hs[h].pc = "idle"
  /\ r.kind \in {"exact", "batch"}
  /\ rec[r].status = "none"
  /\ CanAcquire(r)
  /\ HasCredit(r.seller, f)
  /\ credit' = [credit EXCEPT ![r.seller] = @ - f]
  /\ lock' = Acquired(r)
  /\ rec' = Inserted(r, "checking", -1, 0, f)
  /\ Step(h, Call("nonce", r, f, -1, 0))
  /\ UNCHANGED <<nextNonce, credited, chain>>

(* settle_seller_credit_payment up to the first await: no fee is taken.     *)
BuyCredit(h, r) ==
  /\ hs[h].pc = "idle"
  /\ r.kind = "credit"
  /\ rec[r].status = "none"
  /\ CanAcquire(r)
  /\ lock' = Acquired(r)
  /\ rec' = Inserted(r, "checking", -1, 0, 0)
  /\ Step(h, Call("nonce", r, 0, -1, 0))
  /\ UNCHANGED <<nextNonce, ledger, chain>>

(* batch_settle_http for a settle payload: the lock is taken under the      *)
(* provisional key before the receiver state is read; nothing is journaled. *)
BatchSettle(h, r, f) ==
  /\ hs[h].pc = "idle"
  /\ r.kind = "settle"
  /\ CanAcquire(r)
  /\ lock' = Acquired(r)
  /\ Step(h, Call("receiver", r, f, -1, 0))
  /\ UNCHANGED <<rec, nextNonce, ledger, chain>>

(* Insufficient credit or a configuration error after the lock was taken:   *)
(* the handler returns, releasing the lock of its key.                      *)
Refuse(r) ==
  /\ rec[r].status = "none"
  /\ CanAcquire(r)
  /\ lock' = Released(lock, r)
  /\ UNCHANGED <<rec, nextNonce, ledger, hs, chain>>

(* A key a request reaches through the settlement cache: its own, or for a  *)
(* batch settle the target its seller's lock holds, found only while the    *)
(* record carries the batchSettleToken of annotate_batch_settle_target: the *)
(* records that follow the checking one are built without it.               *)
Cached(k) ==
  \/ k \in Request
  \/ /\ k.kind = "target" /\ lock[k.seller].key = k
     /\ rec[k].status = "checking"
     /\ \E r \in Request : r.kind = "settle" /\ r.seller = k.seller

(* The cached response of a broadcast record starts a receipt refresh with  *)
(* the transaction hash read from the record.                               *)
Replay(h, k) ==
  /\ hs[h].pc = "idle"
  /\ Cached(k)
  /\ rec[k].status = "broadcast"
  /\ Step(h, Call("refresh", k, 0, rec[k].nonce, rec[k].gas))
  /\ UNCHANGED <<rec, lock, nextNonce, ledger, chain>>

(* Mutant: every sight of the settled purchase credits it.                  *)
CreditAgain(k) ==
  IF k.kind = "credit"
  THEN /\ credited' = credited \cup {k}
       /\ credit' = [credit EXCEPT ![k.seller] = @ + TopUp]
  ELSE UNCHANGED ledger

CreditOnce(k) ==
  IF k.kind = "credit" /\ k \notin credited
  THEN /\ credited' = credited \cup {k}
       /\ credit' = [credit EXCEPT ![k.seller] = @ + TopUp]
  ELSE UNCHANGED ledger

(* Any other cached record is returned as it is; a settled purchase is      *)
(* credited if it was not.                                                  *)
ReplayCached(k) ==
  /\ Cached(k)
  /\ rec[k].status \in {"checking", "settled", "failed"}
  /\ IF rec[k].status = "settled" THEN CreditOnce(k) ELSE UNCHANGED ledger
  /\ UNCHANGED <<rec, lock, nextNonce, hs, chain>>

-----------------------------------------------------------------------------
(* Batch settle after batch_receiver_state.                                *)

(* external: the RPC node answers the eth_call.                             *)
ReadReceiver(h) ==
  /\ hs[h].pc = "receiver"
  /\ LET s == hs[h].key.seller IN
     Step(h, [hs[h] EXCEPT !.pc = "receiverRead",
                           !.seen = [claimed |-> claimed[s],
                                     settled |-> paidOut[s]]])
  /\ UNCHANGED <<rec, lock, nextNonce, ledger, chain>>

ReceiverError(h) ==
  /\ hs[h].pc = "receiver"
  /\ lock' = Released(lock, hs[h].key)
  /\ Step(h, Idle)
  /\ UNCHANGED <<rec, nextNonce, ledger, chain>>

TargetOf(h) == Target(hs[h].key.seller, hs[h].seen.claimed)

(* The target is already recorded: release and serve the cached record.     *)
TargetCached(h) ==
  LET k == TargetOf(h) IN
  /\ hs[h].pc = "receiverRead"
  /\ rec[k].status # "none"
  /\ lock' = Released(lock, hs[h].key)
  /\ Step(h, IF rec[k].status = "broadcast"
             THEN Call("refresh", k, 0, rec[k].nonce, rec[k].gas)
             ELSE Idle)
  /\ UNCHANGED <<rec, nextNonce, ledger, chain>>

(* Everything claimed is already settled: a free no-op record.              *)
TargetNoop(h) ==
  LET k == TargetOf(h) IN
  /\ hs[h].pc = "receiverRead"
  /\ rec[k].status = "none"
  /\ hs[h].seen.claimed <= hs[h].seen.settled
  /\ rec' = Inserted(k, "settled", -1, 0, 0)
  /\ lock' = Released(Renamed(hs[h].key, k), k)
  /\ Step(h, Idle)
  /\ UNCHANGED <<nextNonce, ledger, chain>>

(* Reserve the fee and journal the target, whether or not the rename found  *)
(* the lock still held.                                                     *)
TargetReserve(h) ==
  LET k == TargetOf(h)
      f == hs[h].fee IN
  /\ hs[h].pc = "receiverRead"
  /\ rec[k].status = "none"
  /\ hs[h].seen.claimed > hs[h].seen.settled
  /\ HasCredit(k.seller, f)
  /\ credit' = [credit EXCEPT ![k.seller] = @ - f]
  /\ rec' = Inserted(k, "checking", -1, 0, f)
  /\ lock' = Renamed(hs[h].key, k)
  /\ Step(h, Call("nonce", k, f, -1, 0))
  /\ UNCHANGED <<nextNonce, credited, chain>>

(* Insufficient credit, or an error whose branch refunds what it reserved.  *)
TargetRefuse(h) ==
  LET k == TargetOf(h) IN
  /\ hs[h].pc = "receiverRead"
  /\ rec[k].status = "none"
  /\ hs[h].seen.claimed > hs[h].seen.settled
  /\ lock' = Released(Renamed(hs[h].key, k), k)
  /\ Step(h, Idle)
  /\ UNCHANGED <<rec, nextNonce, ledger, chain>>

-----------------------------------------------------------------------------
(* Nonce and broadcast.                                                    *)

(* Mutant: the canister trusts the RPC's pending nonce.                     *)
RpcOnly(a, b) == b

Larger(a, b) == IF a >= b THEN a ELSE b

(* The RPC's pending nonce may lag its pool: any count of transactions that *)
(* continue the account nonce without a gap.                                *)
MayReportNonce(n) ==
  \A m \in chainNonce..(n - 1) : \E tx \in sent : tx.nonce = m

(* pending_nonce answered: reserve_nonce, then await the broadcast.         *)
ReserveNonce(h, n) ==
  LET m == Larger(nextNonce, n) IN
  /\ hs[h].pc = "nonce"
  /\ n >= chainNonce /\ MayReportNonce(n)
  /\ m <= MaxNonce
  /\ nextNonce' = m + 1
  /\ Step(h, [hs[h] EXCEPT !.pc = "send", !.nonce = m])
  /\ UNCHANGED <<rec, lock, ledger, chain>>

(* Every failure before the broadcast: drop the record, refund the fee the  *)
(* handler reserved, release the lock.                                      *)
Abandon(h) ==
  LET k == hs[h].key IN
  /\ rec' = [rec EXCEPT ![k] = NoRecord]
  /\ credit' = [credit EXCEPT ![k.seller] = @ + hs[h].fee]
  /\ lock' = Released(lock, k)
  /\ Step(h, Idle)

NonceError(h) ==
  /\ hs[h].pc = "nonce"
  /\ Abandon(h)
  /\ UNCHANGED <<nextNonce, credited, chain>>

(* Mutant: a failed send never rolls back.                                  *)
NeverRolledBack(n) == nextNonce

(* GasTooExpensive or Other: the transaction was not sent.  The nonce is    *)
(* rolled back only when no later one was reserved.                         *)
RolledBack(n) == IF nextNonce = n + 1 THEN n ELSE nextNonce

SendFailed(h) ==
  /\ hs[h].pc = "send"
  /\ nextNonce' = RolledBack(hs[h].nonce)
  /\ Abandon(h)
  /\ UNCHANGED <<credited, chain>>

(* external: some node takes any transaction whose nonce is still open.     *)
(* Pools differ, so one that is underpriced at a node that holds a rival    *)
(* for the nonce may still be taken by another.                             *)
Accepts(tx) == tx.nonce >= chainNonce

Signed(h, g) == [key |-> hs[h].key, nonce |-> hs[h].nonce, gas |-> g]

RecordBroadcast(h, g) ==
  /\ lock' = WithActiveTx(hs[h].key, hs[h].nonce)
  /\ rec' = Inserted(hs[h].key, "broadcast", hs[h].nonce, g, hs[h].fee)

(* The node acknowledged the transaction (or already knew it).              *)
SendOk(h, g) ==
  /\ hs[h].pc \in {"send", "resend"}
  /\ Accepts(Signed(h, g))
  /\ sent' = sent \cup {Signed(h, g)}
  /\ RecordBroadcast(h, g)
  /\ Step(h, [hs[h] EXCEPT !.pc = "confirm", !.gas = g])
  /\ UNCHANGED <<nextNonce, ledger, mined, chainNonce, claimed, paidOut>>

(* Mutant: no usable answer counts as not sent.                             *)
AmbiguousAsFailed(h, g) ==
  /\ hs[h].pc \in {"send", "resend"}
  /\ \/ UNCHANGED sent
     \/ Accepts(Signed(h, g)) /\ sent' = sent \cup {Signed(h, g)}
  /\ Abandon(h)
  /\ UNCHANGED <<nextNonce, credited, mined, chainNonce, claimed, paidOut>>

(* No usable answer: the node may or may not have the transaction; the call *)
(* returns 202 with the locally computed hash.                              *)
SendAmbiguous(h, g) ==
  /\ hs[h].pc \in {"send", "resend"}
  /\ \/ UNCHANGED sent
     \/ Accepts(Signed(h, g)) /\ sent' = sent \cup {Signed(h, g)}
  /\ RecordBroadcast(h, g)
  /\ Step(h, Idle)
  /\ UNCHANGED <<nextNonce, ledger, mined, chainNonce, claimed, paidOut>>

(* A replacement that was refused leaves everything as it was.              *)
ResendFailed(h) ==
  /\ hs[h].pc = "resend"
  /\ Step(h, Idle)
  /\ UNCHANGED <<rec, lock, nextNonce, ledger, chain>>

-----------------------------------------------------------------------------
(* Receipts.                                                               *)

Awaited(h) == [key |-> hs[h].key, nonce |-> hs[h].nonce, gas |-> hs[h].gas]

(* Mutant: any receipt of the transaction will do.                          *)
AnyReceipt(h, ok) == \E m \in mined : m.tx = Awaited(h)

Receipt(h, ok) == [tx |-> Awaited(h), ok |-> ok] \in mined

ReceiptSettled(h) ==
  LET k == hs[h].key IN
  /\ hs[h].pc \in {"confirm", "refresh"}
  /\ Receipt(h, TRUE)
  /\ rec' = Inserted(k, "settled", hs[h].nonce, hs[h].gas, hs[h].fee)
  /\ lock' = ReleasedByKey(k)
  /\ CreditOnce(k)
  /\ Step(h, Idle)
  /\ UNCHANGED <<nextNonce, chain>>

(* The fee of a transaction that reached the chain is kept.                 *)
ReceiptFailed(h) ==
  LET k == hs[h].key IN
  /\ hs[h].pc \in {"confirm", "refresh"}
  /\ Receipt(h, FALSE)
  /\ rec' = Inserted(k, "failed", hs[h].nonce, hs[h].gas, hs[h].fee)
  /\ lock' = ReleasedByKey(k)
  /\ Step(h, Idle)
  /\ UNCHANGED <<nextNonce, ledger, chain>>

(* No receipt yet, too few confirmations, or an RPC error after the         *)
(* broadcast: journal the broadcast again and return 202.                   *)
ConfirmPending(h) ==
  /\ hs[h].pc = "confirm"
  /\ RecordBroadcast(h, hs[h].gas)
  /\ Step(h, Idle)
  /\ UNCHANGED <<nextNonce, ledger, chain>>

(* A refresh that failed, or found the transaction pending with no active   *)
(* nonce or within the retry window, changes nothing.                       *)
RefreshKeep(h) ==
  /\ hs[h].pc = "refresh"
  /\ Step(h, Idle)
  /\ UNCHANGED <<rec, lock, nextNonce, ledger, chain>>

(* Mutant: the replacement reserves a nonce of its own.                     *)
ReplaceWithFreshNonce(h, n) ==
  /\ hs[h].pc = "refresh"
  /\ n = nextNonce
  /\ nextNonce' = n + 1
  /\ Step(h, [hs[h] EXCEPT !.pc = "resend", !.nonce = n])
  /\ UNCHANGED <<rec, lock, ledger, chain>>

(* Pending past the retry window: sign again with the active nonce.         *)
Replace(h, n) ==
  /\ hs[h].pc = "refresh"
  /\ n # -1 /\ HasActiveNonce(hs[h].key, n)
  /\ Step(h, [hs[h] EXCEPT !.pc = "resend", !.nonce = n])
  /\ UNCHANGED <<rec, lock, nextNonce, ledger, chain>>

-----------------------------------------------------------------------------
(* Interrupted callbacks and their recovery.                               *)

(* A callback that traps loses everything after its last await; the raw     *)
(* transaction may have left before.                                        *)
Trap(h) ==
  /\ AllowTraps
  /\ hs[h].pc # "idle"
  /\ \/ UNCHANGED sent
     \/ \E g \in Gas : /\ hs[h].pc \in {"send", "resend"}
                       /\ Accepts(Signed(h, g))
                       /\ sent' = sent \cup {Signed(h, g)}
  /\ Step(h, Idle)
  /\ UNCHANGED <<rec, lock, nextNonce, ledger, mined, chainNonce, claimed,
                 paidOut>>

(* Mutants: recovery takes a broadcast record too; or leaves the record, so *)
(* that a second recovery refunds it again.                                 *)
RecoverBroadcast(k) ==
  /\ AllowTraps
  /\ rec[k].status \in {"checking", "broadcast"}
  /\ \A h \in Handler : hs[h].key # k
  /\ credit' = [credit EXCEPT ![k.seller] = @ + rec[k].fee]
  /\ rec' = [rec EXCEPT ![k] = NoRecord]
  /\ lock' = ReleasedByKey(k)
  /\ UNCHANGED <<nextNonce, credited, hs, chain>>

RecoverTwice(k) ==
  /\ AllowTraps
  /\ rec[k].status = "checking"
  /\ \A h \in Handler : hs[h].key # k
  /\ credit' = [credit EXCEPT ![k.seller] = @ + rec[k].fee]
  /\ lock' = ReleasedByKey(k)
  /\ UNCHANGED <<rec, nextNonce, credited, hs, chain>>

(* recover_stale_settlement, used as its runbook says: after the callbacks  *)
(* were drained, on a checking record old enough to have lost its handler.  *)
Recover(k) ==
  /\ AllowTraps
  /\ rec[k].status = "checking"
  /\ \A s \in Scope : lock[s].key = k => lock[s].nonce = -1
  /\ \A h \in Handler : hs[h].key # k
  /\ credit' = IF k.kind = "credit" THEN credit
               ELSE [credit EXCEPT ![k.seller] = @ + rec[k].fee]
  /\ rec' = [rec EXCEPT ![k] = NoRecord]
  /\ lock' = ReleasedByKey(k)
  /\ UNCHANGED <<nextNonce, credited, hs, chain>>

-----------------------------------------------------------------------------
(* external: the chain.                                                    *)

(* An authorization executes once; a batch settle needs an unsettled claim. *)
CanSucceed(tx) ==
  /\ tx.key.kind = "target" => claimed[tx.key.seller] > paidOut[tx.key.seller]
  /\ tx.key.kind # "target" => \A m \in mined : m.ok => m.tx.key # tx.key

Mine(tx, ok) ==
  /\ tx.nonce = chainNonce
  /\ ok => CanSucceed(tx)
  /\ mined' = mined \cup {[tx |-> tx, ok |-> ok]}
  /\ chainNonce' = chainNonce + 1
  /\ paidOut' = IF ok /\ tx.key.kind = "target"
                THEN [paidOut EXCEPT ![tx.key.seller] = claimed[tx.key.seller]]
                ELSE paidOut
  /\ UNCHANGED <<rec, lock, nextNonce, ledger, hs, sent, claimed>>

(* Anyone may claim a seller's vouchers on the batch contract.              *)
ClaimOnChain(s) ==
  /\ claimed[s] < MaxClaimed
  /\ claimed' = [claimed EXCEPT ![s] = @ + 1]
  /\ UNCHANGED <<rec, lock, nextNonce, ledger, hs, sent, mined, chainNonce,
                 paidOut>>

-----------------------------------------------------------------------------
Submit(h) ==
  \/ \E r \in Request, f \in Fee : Settle(h, r, f) \/ BatchSettle(h, r, f)
  \/ \E r \in Request : BuyCredit(h, r)
  \/ \E k \in Key : Replay(h, k)

Resume(h) ==
  \/ ReceiverError(h) \/ TargetCached(h) \/ TargetNoop(h) \/ TargetReserve(h)
  \/ TargetRefuse(h)
  \/ \E n \in 0..MaxNonce : ReserveNonce(h, n) \/ Replace(h, n)
  \/ NonceError(h) \/ SendFailed(h) \/ ResendFailed(h)
  \/ \E g \in Gas : SendOk(h, g) \/ SendAmbiguous(h, g)
  \/ ReceiptSettled(h) \/ ReceiptFailed(h) \/ ConfirmPending(h)
  \/ RefreshKeep(h)

Environment ==
  \/ \E h \in Handler : ReadReceiver(h) \/ Trap(h)
  \/ \E tx \in sent, ok \in BOOLEAN : Mine(tx, ok)
  \/ \E s \in Seller : ClaimOnChain(s)

Next ==
  \/ \E h \in Handler : Submit(h) \/ Resume(h)
  \/ \E r \in Request : Refuse(r)
  \/ \E k \in Key : ReplayCached(k) \/ Recover(k)
  \/ Environment

Spec == Init /\ [][Next]_vars
=============================================================================
