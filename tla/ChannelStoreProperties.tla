------------------------ MODULE ChannelStoreProperties ------------------------
(* What sellers rely on when they keep channels in the canister.            *)
EXTENDS ChannelStore

CONSTANT Offered  \* payments clients ask /verify and /settle about

ASSUME OfferedAssumption == \A q \in Offered : q.payload.channelConfig \in Kept

(* Every stored row is one validate_batch_channel accepts, with a revision  *)
(* that counts its writes (batch.rs 724-770, lib.rs 5515-5613).             *)
StoreTypeOK ==
  /\ SellersTypeOK
  /\ \A c \in Kept : rows[c] # None =>
       /\ [rows[c] EXCEPT !.rev = 0] \in RowOf(c) /\ RowSound(rows[c])
       /\ rows[c].rev \in 1..MaxRevision
  /\ deleted \in Seq(Kept) /\ Len(deleted) <= MaxStored
  /\ Cardinality(StoredRows) <= MaxStored
  /\ session \in [Session -> [channel : Kept \cup {None},
                              rev : 0..MaxRevision,
                              saw : {"same", "written", "deleted"}]]
  /\ lastBy \in Principal \cup {None}

(* A write of a session that kept its row across other calls is accepted    *)
(* only if nobody wrote the row since it was read.  The one exception is a  *)
(* row that was deleted and created anew in between: revisions restart at 1 *)
(* (lib.rs 5523-5533, 5601).                                                *)
SawItsRow ==
  [][\A s \in Session :
       /\ session[s].channel # None /\ session'[s] = IdleSession
       /\ rows'[session[s].channel] # rows[session[s].channel]
       => session[s].saw # "written"]_StoreVars

(* Disabling a seller freezes its channels at once, for writers whose scope *)
(* stays enabled and for sessions that read before it: only a controller    *)
(* writes or deletes them (lib.rs 1026-1045, 1337-1367).                    *)
DisabledFrozen ==
  [][\A c \in Kept :
       /\ \/ rows[c] = None /\ rows'[c] # None
          \/ rows[c] # None /\ (rows'[c] = None \/ rows'[c].rev # rows[c].rev)
       /\ sellers[Config[c].receiver] = "disabled"
       => lastBy' = Controller]_StoreVars

Charge(row, max) ==
  [row EXCEPT !.charged = max, !.signed = max, !.pending = None, !.rev = 0]

(* What /verify promises the seller: the voucher it calls valid can be      *)
(* charged, that is, the row that commits the charge is accepted as long as *)
(* the reservation lives (lib.rs 1829-1868 against batch.rs 772-870).  It   *)
(* needs a row that holds no later voucher, see the README.                 *)
VerifiedChargeable ==
  \A q \in Offered :
    LET c == q.payload.channelConfig
    IN  /\ q.payload.kind \in {"deposit", "voucher"}
        /\ VerifyAccepts(q, rows[c], 0)
        /\ rows[c].signed <= q.payload.voucher.max
        => RowAccepted(c, rows[c], Charge(rows[c], q.payload.voucher.max))

(* A deposit verified against a row is still taken by /settle after other   *)
(* writes to the row, as long as they leave its reservation alone: the      *)
(* charge the voucher continues from cannot move without consuming it       *)
(* (lib.rs 2312-2322, batch.rs 844-870).                                    *)
DepositStaysSettleable ==
  [][\A c \in Kept :
       /\ rows[c] # None /\ rows'[c] # None /\ rows'[c] # rows[c]
       /\ rows'[c].pending = rows[c].pending
       => \A q \in Offered :
            /\ q.payload.kind = "deposit" /\ q.payload.channelConfig = c
            /\ VerifyAccepts(q, rows[c], 0)
            => SettleAccepts(q, rows'[c].charged, 0)]_StoreVars
=============================================================================
