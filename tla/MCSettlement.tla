----------------------------- MODULE MCSettlement -----------------------------
(* Instances of Settlement for TLC: request sets and the symmetry of the    *)
(* interchangeable handlers.                                                *)
EXTENDS SettlementProperties, TLC

CONSTANTS s1, s2

Symmetry == Permutations(Handler)

Pay(kind, seller, id) == [kind |-> kind, seller |-> seller, id |-> id]

(* Two payments of one seller compete for its lock; another seller competes *)
(* for the nonces.                                                          *)
ExactRequests == {Pay("exact", s1, 1), Pay("batch", s1, 2), Pay("exact", s2, 1)}

(* Batch settles of a seller that must buy the credit for the second one.   *)
LedgerRequests == {Pay("settle", s1, 0), Pay("credit", s1, 1)}

(* The provisional key of the seller's batch settles, and a payment.        *)
SettleRequests == {Pay("settle", s1, 0), Pay("exact", s1, 1)}

(* Two payments of one seller, to study replacements.                       *)
OneSellerRequests == {Pay("exact", s1, 1), Pay("batch", s1, 2)}
=============================================================================
