----------------------------- MODULE ChannelStore -----------------------------
(***************************************************************************)
(* Batch channel storage: the rows sellers keep in the canister through     *)
(* batch_update_channel, a compare-and-set on the row's revision.           *)
(*                                                                         *)
(* A client reads a row, works (asks the canister to verify a voucher, runs *)
(* its own handler) and writes the row it computed with the revision it had *)
(* read; meanwhile other writers do the same.  A session is such a client;  *)
(* a writer that reads and writes back to back needs none.                  *)
(*                                                                         *)
(* A reservation's expiry is a moment the model may choose at any time, so  *)
(* it is a flag of the reservation.  refundNonce and lastRequestTimestamp   *)
(* follow the rule of totalClaimed; withdrawRequestedAt and onchainSyncedAt *)
(* are only ever asked whether the chain has been seen: synced.  Clients     *)
(* keep the channels Kept; other channels appear in requests only.          *)
(***************************************************************************)
EXTENDS BatchRequest, Sellers

CONSTANTS
  Kept,         \* the channels clients keep in the canister
  Session,      \* clients that keep a row across other calls
  Vouchers,     \* [Kept -> amounts the payer has signed a voucher for]
  Balance,      \* balances writers may report from the contract
  Claimed,      \* totalClaimed writers may report
  RuntimeDelay, \* BATCH_WITHDRAW_DELAY_SECONDS
  MaxStored,    \* MAX_BATCH_CHANNELS_STORED
  MaxRevision   \* bound: highest revision of the model

ASSUME StoreAssumption ==
  /\ Kept \subseteq Channel /\ None \notin Channel
  /\ Vouchers \in [Kept -> SUBSET Nat]
  /\ Balance \subseteq Nat /\ Claimed \subseteq Nat
  /\ MaxStored \in Nat \ {0} /\ MaxRevision \in Nat \ {0}

ASSUME ReceiverAssumption == \A c \in Kept : Config[c].receiver \in Seller

VARIABLES
  rows,     \* BATCH_CHANNELS
  deleted,  \* BATCH_DELETED_CHANNELS, oldest deletion first
  session,  \* what each session has read
  lastBy    \* history: who wrote a row last

StoreVars == <<rows, deleted, session, lastBy, sellers, scopes>>

Amount(c) == Vouchers[c] \cup {0}
Reservation(c) == [signed : Amount(c), live : BOOLEAN]
NoReservation == None

(* A row as a client sends it: the canister stamps the revision.            *)
RowOf(c) ==
  [charged : Amount(c), signed : Vouchers[c], claimed : Claimed,
   balance : Balance, synced : BOOLEAN,
   pending : Reservation(c) \cup {NoReservation}, rev : {0}]

(* What a stored row is made of, whatever the channel.                      *)
Row ==
  [charged : Nat, signed : Nat, claimed : Nat, balance : Nat, synced : BOOLEAN,
   pending : [signed : Nat, live : BOOLEAN] \cup {NoReservation}, rev : Nat]

ASSUME RowAssumption == None \notin Row

Rev(c) == IF rows[c] = None THEN 0 ELSE rows[c].rev
IdleSession == [channel |-> None, rev |-> 0, saw |-> "same"]

StoreInit ==
  /\ SellersInit
  /\ rows = [c \in Kept |-> None]
  /\ deleted = <<>>
  /\ session = [s \in Session |-> IdleSession]
  /\ lastBy = None
-----------------------------------------------------------------------------
(* Which rows are accepted.                                                 *)

(* validate_batch_channel and the voucher it stores.                        *)
RowSound(row) ==
  /\ row.charged <= row.signed
  /\ row.claimed <= row.signed
  /\ row.claimed <= row.balance
  /\ row.pending # None => row.pending.signed >= row.charged

(* validate_batch_channel_runtime_config; a payer authorizer must sign.     *)
Storable(c) ==
  /\ Config[c].token = Token
  /\ Config[c].receiverAuthorizer = Local
  /\ Config[c].withdrawDelay = RuntimeDelay
  /\ Config[c].payerAuthorizer # Zero

Live(row) == row.pending # None /\ row.pending.live

CreateOk(next) ==
  /\ Live(next) /\ next.signed = next.pending.signed
  /\ next.charged = 0 /\ next.claimed = 0 /\ next.balance = 0
  /\ ~next.synced

(* Mutant: a charge may leave the reservation in place.                     *)
ChargeKeepsPending(row, next) ==
  next.charged > row.charged =>
    /\ Live(row)
    /\ next.signed = row.pending.signed
    /\ next.charged = row.pending.signed

ChargeConsumesPending(row, next) ==
  next.charged > row.charged =>
    /\ Live(row) /\ next.pending = None
    /\ next.signed = row.pending.signed
    /\ next.charged = row.pending.signed

TransitionOk(row, next) ==
  IF row = None THEN CreateOk(next)
  ELSE /\ ChargeConsumesPending(row, next)
       /\ next.charged >= row.charged
       /\ next.signed >= row.signed
       /\ next.claimed >= row.claimed

(* Mutant: the amounts of a row are not compared with each other.           *)
RowAcceptedUnsound(c, row, next) == TransitionOk(row, next) /\ Storable(c)

RowAccepted(c, row, next) ==
  RowSound(next) /\ TransitionOk(row, next) /\ Storable(c)

(* authorize_batch_channel_update: the receiver of a channel never changes. *)
Authorized(by, c) == by = Controller \/ ScopeEnabled(by, Config[c].receiver)

StoredRows == {c \in Kept : rows[c] # None}
CanPut(c) == rows[c] # None \/ Cardinality(StoredRows) < MaxStored

(* is_pending_only_provisional_channel                                      *)
Provisional(row) == Live(row) /\ CreateOk(row)

(* put_batch_deleted_channel: a deletion replaces the channel's earlier one; *)
(* a channel without one takes the oldest entry's place when all are taken.  *)
Logged(c) ==
  LET without(i) == SubSeq(deleted, 1, i - 1) \o SubSeq(deleted, i + 1, Len(deleted))
      earlier == {i \in DOMAIN deleted : deleted[i] = c}
  IN  IF earlier # {} THEN Append(without(CHOOSE i \in earlier : TRUE), c)
      ELSE IF Len(deleted) >= MaxStored THEN Append(Tail(deleted), c)
      ELSE Append(deleted, c)
-----------------------------------------------------------------------------
(* History: what happened to the row a session has read.                    *)
SawWrite(c) ==
  [s \in Session |-> IF session[s].channel = c /\ session[s].saw = "same"
                     THEN [session[s] EXCEPT !.saw = "written"] ELSE session[s]]
SawDelete(c) ==
  [s \in Session |-> IF session[s].channel = c
                     THEN [session[s] EXCEPT !.saw = "deleted"] ELSE session[s]]

(* Mutant: the revision is compared only when the writer gives one.         *)
RevisionIfGiven(c, expected) == expected # 0 => expected = Rev(c)

RevisionMatches(c, expected) == expected = Rev(c)

(* batch_update_channel with a row: every check of one call, then the put.  *)
Put(by, c, expected) ==
  /\ RevisionMatches(c, expected)
  /\ Authorized(by, c)
  /\ CanPut(c)
  /\ Rev(c) < MaxRevision
  /\ \E next \in RowOf(c) :
       /\ RowAccepted(c, rows[c], next)
       /\ rows' = [rows EXCEPT ![c] = [next EXCEPT !.rev = Rev(c) + 1]]
  /\ lastBy' = by
  /\ UNCHANGED <<deleted, SellerVars>>

(* batch_update_channel without a row.                                      *)
Remove(by, c, expected) ==
  /\ RevisionMatches(c, expected)
  /\ rows[c] # None
  /\ Authorized(by, c)
  /\ Live(rows[c]) => Provisional(rows[c])
  /\ deleted' = Logged(c)
  /\ rows' = [rows EXCEPT ![c] = None]
  /\ lastBy' = by
  /\ UNCHANGED SellerVars

(* A session reads; its writer works on the row while others go on.         *)
Read(s, c) ==
  /\ session[s].channel = None
  /\ session' = [session EXCEPT ![s] =
                   [channel |-> c, rev |-> Rev(c), saw |-> "same"]]
  /\ UNCHANGED <<rows, deleted, lastBy, SellerVars>>

SessionPut(s, by) ==
  LET c == session[s].channel
  IN  /\ c # None
      /\ Put(by, c, session[s].rev)
      /\ session' = [SawWrite(c) EXCEPT ![s] = IdleSession]

SessionRemove(s, by) ==
  LET c == session[s].channel
  IN  /\ c # None
      /\ Remove(by, c, session[s].rev)
      /\ session' = [SawDelete(c) EXCEPT ![s] = IdleSession]

(* The answer "conflict": the client reads again or gives up.               *)
SessionConflict(s) ==
  /\ session[s].channel # None
  /\ session[s].rev # Rev(session[s].channel)
  /\ session' = [session EXCEPT ![s] = IdleSession]
  /\ UNCHANGED <<rows, deleted, lastBy, SellerVars>>

(* A writer that reads and writes back to back.                             *)
WritePut(by, c) == Put(by, c, Rev(c)) /\ session' = SawWrite(c)
WriteRemove(by, c) == Remove(by, c, Rev(c)) /\ session' = SawDelete(c)

(* The clock passes expiresAt of a reservation.                             *)
Expire(c) ==
  /\ rows[c] # None
  /\ Live(rows[c])
  /\ rows' = [rows EXCEPT ![c].pending.live = FALSE]
  /\ UNCHANGED <<deleted, session, lastBy, SellerVars>>

Administer ==
  SellersNext /\ UNCHANGED <<rows, deleted, session, lastBy>>

Principal == Writer \cup {Controller}

StoreNext ==
  \/ \E s \in Session, c \in Kept : Read(s, c)
  \/ \E s \in Session, by \in Principal :
       SessionPut(s, by) \/ SessionRemove(s, by)
  \/ \E s \in Session : SessionConflict(s)
  \/ \E by \in Principal, c \in Kept : WritePut(by, c) \/ WriteRemove(by, c)
  \/ \E c \in Kept : Expire(c)
  \/ Administer

StoreSpec == StoreInit /\ [][StoreNext]_StoreVars
=============================================================================
