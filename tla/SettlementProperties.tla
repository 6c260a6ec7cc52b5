------------------------- MODULE SettlementProperties -------------------------
(***************************************************************************)
(* What the settlement engine owes to sellers, payers and the operator.    *)
(* No property is a guard of one action read back: each relates the        *)
(* records, the lock table, the ledger and the chain, and takes several    *)
(* handlers or an unlucky order of answers to break.                       *)
(***************************************************************************)
EXTENDS Settlement, FiniteSetsExt

KeysOf(s) == {k \in Key : k.seller = s}
TxsOf(k) == {tx \in sent : tx.key = k}
Executed(k) == \E m \in mined : m.tx.key = k
Paid(k) == \E m \in mined : m.ok /\ m.tx.key = k
Open(k) == \E tx \in TxsOf(k) : tx.nonce >= chainNonce

(* Money.  What a seller has left and what its settlements were charged add *)
(* up to what it bought: no interleaving of reservations, refunds,          *)
(* recoveries and top-ups loses or invents credit (reserve_seller_credit,   *)
(* refund_seller_credit, credit_seller_once, recover_stale_settlement).     *)
CreditConservation ==
  \A s \in Seller :
    credit[s] + MapThenSumSet(LAMBDA k : rec[k].fee, KeysOf(s))
      = InitCredit + TopUp * Cardinality(credited \cap KeysOf(s))

(* Purchased credit is backed by an executed transfer, and a purchase whose *)
(* record says settled was credited, whichever of the confirming call and   *)
(* its replays saw the receipt (credit_seller_from_record_once).            *)
TopUpBacked ==
  /\ \A k \in credited : Paid(k)
  /\ \A k \in Key : k.kind = "credit" /\ rec[k].status = "settled"
       => k \in credited

(* The signing address never signs two payments with one account nonce:     *)
(* neither of two nodes' pools nor the chain makes them compete             *)
(* (reserve_nonce, rollback_reserved_nonce).                                *)
NonceUnique ==
  \A t1, t2 \in sent : t1.nonce = t2.nonce => t1.key = t2.key

(* A transaction, an active lock entry or a call past reserve_nonce uses a  *)
(* nonce for a key.  Together with NonceUnique this is what every step      *)
(* preserves: the users of a nonce agree on its key, all of them are below  *)
(* nextNonce, and a call that has reserved a nonce and not yet sent is its  *)
(* only user, so rolling it back frees a nonce nobody else signs for.       *)
TxUses(k, n) == \E tx \in sent : tx.key = k /\ tx.nonce = n
LockUses(k, n) == \E s \in Scope : lock[s].key = k /\ lock[s].nonce = n
CallUses(h, k, n) ==
  hs[h].pc \in {"send", "resend", "confirm"} /\ hs[h].key = k /\ hs[h].nonce = n
Uses(k, n) ==
  TxUses(k, n) \/ LockUses(k, n) \/ \E h \in Handler : CallUses(h, k, n)
SoleUser(h, n) ==
  \A k \in Key : /\ ~TxUses(k, n) /\ ~LockUses(k, n)
                 /\ \A g \in Handler \ {h} : ~CallUses(g, k, n)

NonceInv ==
  /\ \A k1, k2 \in Key, n \in 0..MaxNonce : Uses(k1, n) /\ Uses(k2, n) => k1 = k2
  /\ \A k \in Key, n \in 0..MaxNonce : Uses(k, n) => n < nextNonce
  /\ \A h \in Handler : hs[h].pc = "send" => SoleUser(h, hs[h].nonce)

(* With one seller, and no interrupted calls, no reserved nonce is lost: up *)
(* to nextNonce each is in a pool, about to be sent, or kept by a broadcast *)
(* record whose replay signs for it again; so the next transaction is never *)
(* stuck behind a hole (rollback_reserved_nonce, active_nonce_by_key).      *)
NoNonceGap ==
  \A n \in chainNonce..(nextNonce - 1) :
    \/ \E tx \in sent : tx.nonce = n
    \/ \E h \in Handler : hs[h].pc = "send" /\ hs[h].nonce = n
    \/ \E k \in Key : rec[k].status = "broadcast" /\ rec[k].nonce = n

(* A payment is signed for one nonce only, however often it is replaced, so *)
(* at most one of its transactions can ever execute (active_nonce_by_key).  *)
OneNoncePerKey ==
  \A t1, t2 \in sent : t1.key = t2.key => t1.nonce = t2.nonce

(* A terminal record tells the truth about the chain: settled was paid, and *)
(* failed was not paid by any transaction of the key, replaced ones         *)
(* included.  Free no-op settles have no transaction.                       *)
RecordsAgreeWithChain ==
  \A k \in Key :
    /\ rec[k].status = "settled" /\ rec[k].nonce # -1 => Paid(k)
    /\ rec[k].status = "failed" => ~Paid(k)

(* A settlement that is being checked, or whose transaction may still       *)
(* execute, holds its lock: a second settlement of the seller gets 429      *)
(* (acquire_active_settlement, release_active_settlement).                  *)
LockHeldWhileOpen ==
  \A k \in Key :
    \/ rec[k].status = "checking"
    \/ rec[k].status = "broadcast" /\ ~Executed(k)
    => lock[ScopeOf(k)].key = k

(* The lock never outlives its settlement: what it names is journaled, or   *)
(* is the provisional key of a batch settle call still in flight, so a      *)
(* seller is not shut out by a settlement nobody can finish.                *)
NoOrphanLock ==
  \A s \in Scope : lock[s].key # None =>
    LET k == lock[s].key IN
    \/ rec[k].status \in {"checking", "broadcast"}
    \/ \E h \in Handler : /\ hs[h].pc \in {"receiver", "receiverRead"}
                          /\ hs[h].key = k

(* README: /settle answers 429 settlement_queue_busy while the seller has   *)
(* an active transaction, so a seller never has two settlements whose       *)
(* transactions are waiting for the chain.                                  *)
SellerSerial ==
  \A k1, k2 \in Key :
    /\ k1.kind # "credit" /\ k2.kind # "credit" /\ k1.seller = k2.seller
    /\ Open(k1) /\ Open(k2)
    => k1 = k2

(* README: the active transaction is kept until it is settled or failed, so *)
(* a record that says broadcast holds its lock.                             *)
BroadcastKeepsLock ==
  \A k \in Key : rec[k].status = "broadcast" => lock[ScopeOf(k)].key = k

(* report.md F-003: a pending batch transaction is refreshed and            *)
(* nonce-replaced when its request is retried.  A resend serves a broadcast *)
(* record that it finds by its own key or by the active lock, or, for a     *)
(* batch settle, after reading the receiver under the seller's lock.        *)
RetryReachesPending ==
  \A k \in Key : rec[k].status = "broadcast" =>
    \/ Cached(k)
    \/ k.kind = "target" /\ \E r \in Request : /\ r.kind = "settle"
                                             /\ r.seller = k.seller
                                             /\ CanAcquire(r)

(* README: the fee is refunded only when nothing was sent; a record whose   *)
(* reservation is undone has no transaction at any node.                    *)
RefundOnlyUnsent ==
  [][\A k \in Key : rec[k].status # "none" /\ rec'[k].status = "none"
       => TxsOf(k) = {}]_vars

(* README: once broadcast, the record and the fee it was charged stay,      *)
(* whatever the receipt says and however often the payment is replayed.     *)
FeeKeptAfterBroadcast ==
  [][\A k \in Key : rec[k].status \in {"broadcast", "failed"}
       => rec'[k].status # "none" /\ rec'[k].fee = rec[k].fee]_vars

-----------------------------------------------------------------------------
(* The payments of the abstract specification, read off the records, the    *)
(* chain and the ledger.  A settled record without a nonce is the no-op of  *)
(* a batch settle.                                                          *)
PhaseOf(k) ==
  IF rec[k].status = "none" THEN "absent"
  ELSE IF rec[k].status = "checking" THEN "prepared"
  ELSE IF rec[k].status = "settled" /\ rec[k].nonce = -1 THEN "waived"
  ELSE "committed"

OutcomeOf(k) ==
  IF Paid(k) THEN "paid" ELSE IF Executed(k) THEN "refused" ELSE "none"

AnswerOf(k) ==
  IF rec[k].status = "broadcast" THEN "pending"
  ELSE IF rec[k].status = "settled" /\ rec[k].nonce # -1 THEN "paid"
  ELSE IF rec[k].status = "failed" THEN "refused" ELSE "none"

P == INSTANCE Payment WITH
       Payments <- Key, Purchases <- {k \in Key : k.kind = "credit"},
       Sellers <- Seller, OwnerOf <- [k \in Key |-> k.seller],
       Prices <- Fee \cup {0}, InitBalance <- InitCredit,
       phase <- [k \in Key |-> PhaseOf(k)],
       charge <- [k \in Key |-> rec[k].fee],
       outcome <- [k \in Key |-> OutcomeOf(k)],
       answer <- [k \in Key |-> AnswerOf(k)],
       balance <- credit, topped <- credited

(* Without interrupted calls the engine implements Payment: whatever the    *)
(* calls, replays and replacements of a payment do to each other, it is     *)
(* charged and refunded as one, executes at most once, and nobody is told a *)
(* result that the chain did not decide (settle_http, batch_settle_http,    *)
(* settle_seller_credit_payment, cached_settlement_response).               *)
ImplementsPayment == P!Spec

-----------------------------------------------------------------------------
(* Liveness.  The environment the code is written for: a canister resumes   *)
(* every call; blocks are produced; a client keeps resending a request that *)
(* is pending; and of the RPC node's answers that are possible again and    *)
(* again, none is withheld for ever.                                        *)
CallOf(h, k) == hs[h].key = k

Answered(h) == ReceiptSettled(h) \/ ReceiptFailed(h)

Fairness ==
  /\ \A h \in Handler : WF_vars(Resume(h))
  /\ WF_vars(\E tx \in sent, ok \in BOOLEAN : Mine(tx, ok))
  /\ \A k \in Request :
       /\ SF_vars(\E h \in Handler : Replay(h, k))
       /\ SF_vars(\E h \in Handler, n \in 0..MaxNonce : CallOf(h, k) /\ Replace(h, n))
       /\ SF_vars(\E h \in Handler, g \in Gas : CallOf(h, k) /\ SendOk(h, g))
       /\ SF_vars(\E h \in Handler : CallOf(h, k) /\ Answered(h))

FairSpec == Spec /\ Fairness

(* README: resending a pending request refreshes its receipt and replaces   *)
(* its transaction, so every broadcast payment ends settled or failed, the  *)
(* ambiguously sent ones included; and the checking records before it do    *)
(* not linger.                                                              *)
PendingResolves ==
  \A k \in Request :
    rec[k].status \in {"checking", "broadcast"}
      ~> rec[k].status \in {"none", "settled", "failed"}

(* A busy seller is served again: its lock is released in the end.          *)
LockReleased ==
  \A s \in Scope : lock[s].key # None ~> lock[s].key = None
=============================================================================
