------------------------------- MODULE Admission -------------------------------
(***************************************************************************)
(* What /settle checks before it takes a lock, a fee and a nonce, against   *)
(* what happens later: the contract call is encoded only after the nonce is *)
(* reserved, the contracts check its signatures only when it is mined, and  *)
(* a seller learns of a payment only by its transfer.                       *)
(***************************************************************************)
EXTENDS ExactRequest

CONSTANTS
  Asked,   \* requests clients send
  Charges  \* charges the channel of a request may have in the store

ASSUME AskedAssumption ==
  /\ None \notin Asked
  /\ \A q \in Asked : q = [payload |-> q.payload, required |-> q.required,
                         accepted |-> q.accepted]

VARIABLES
  request,  \* the request being handled
  charge,   \* chargedCumulativeAmount of its stored channel, 0 without one
  verdict   \* "none" until it is answered

AdmissionVars == <<request, charge, verdict>>

AdmissionInit == request = None /\ charge = 0 /\ verdict = "none"

Ask ==
  /\ request = None
  /\ request' \in Asked /\ charge' \in Charges
  /\ UNCHANGED verdict

Accepts(q, charged) ==
  \/ q.payload.kind = "exact"  /\ ExactAccepts(q, 0)
  \/ q.payload.kind = "credit" /\ CreditAccepts(q, 0)
  \/ q.payload.kind \notin {"exact", "credit"} /\ SettleAccepts(q, charged, 0)

Transfers(q) == q.payload.kind \in {"exact", "credit"}

Answer ==
  /\ request # None /\ verdict = "none"
  /\ verdict' = IF Accepts(request, charge) THEN "accepted" ELSE "refused"
  /\ UNCHANGED <<request, charge>>

Finish ==
  /\ verdict # "none"
  /\ request' = None /\ charge' = 0 /\ verdict' = "none"

AdmissionNext == Ask \/ Answer \/ Finish

AdmissionSpec == AdmissionInit /\ [][AdmissionNext]_AdmissionVars
-----------------------------------------------------------------------------
(* What the contracts check of a call.                                      *)

(* ReceiveWithAuthorization of the token, sent by the deposit collector     *)
(* with the amount of the call and a nonce made of channel and salt.        *)
CollectorText(call) ==
  [type |-> "ReceiveWithAuthorization", from |-> Config[call.channel].payer,
   validAfter |-> call.authorization.validAfter,
   validBefore |-> call.authorization.validBefore,
   channel |-> call.channel, salt |-> call.authorization.salt,
   value |-> call.amount]

ClaimsAuthorised(claims, sig, seller) ==
  \A i \in DOMAIN claims :
    LET c == claims[i].channel
    IN  /\ Config[c].receiver = seller
        /\ claims[i].claimed <= claims[i].max
        /\ Recovers(claims[i].sig, Config[c].payerAuthorizer,
                    VoucherText(c, claims[i].max))
        /\ Recovers(sig, Config[c].receiverAuthorizer, ClaimsText(claims))

CallExecutable(call, seller) ==
  \/ /\ call.call = "deposit"
     /\ Config[call.channel].receiver = seller
     /\ Recovers(call.authorization.sig, Config[call.channel].payer,
                 CollectorText(call))
  \/ /\ call.call = "claimWithSignature"
     /\ ClaimsAuthorised(call.claims, call.sig, seller)
  \/ /\ call.call = "refundWithSignature"
     /\ Config[call.channel].receiver = seller
     /\ Recovers(call.sig, Config[call.channel].receiverAuthorizer,
                 RefundText(call.channel, call.nonce, call.amount))
  \/ call.call = "settle" /\ call.receiver = seller /\ call.token = Token
-----------------------------------------------------------------------------
(* The encoder is fed: whatever is accepted has every field its calls are   *)
(* encoded from, so no request fails after its fee and its nonce are taken  *)
(* (lib.rs 2318-2441 against tx.rs 57-148).                                 *)
EncoderFed ==
  verdict = "accepted" /\ ~Transfers(request) => Encodable(request.payload)

(* Every contract call of an accepted request carries the signatures the    *)
(* contract will check over exactly its contents, and touches channels of   *)
(* no other seller than the one that is locked and charged the fee; what a  *)
(* purchase of credit transfers is what its buyer is credited               *)
(* (batch.rs 214-485, lib.rs 2822-2941, 3172-3264, tx.rs 30-248).           *)
CallAuthorised ==
  verdict = "accepted" =>
    IF Transfers(request)
    THEN LET call == ExactCall(request)
             url  == request.payload.url
         IN  /\ Recovers(call.sig, call.from, TransferText(call))
             /\ request.payload.kind = "credit" =>
                  /\ call.from = url.seller /\ call.to = CreditPayTo
                  /\ call.value = url.amount
    ELSE LET calls == Calls(request.payload)
         IN  \A i \in DOMAIN calls : CallExecutable(calls[i], SellerOf(request))

(* The recipient of an exact transfer has itself signed for this transfer:  *)
(* this payer, amount, window and nonce.  An authorization made for another *)
(* payment, or by whoever the fee is charged to, is not enough              *)
(* (lib.rs 4302-4375 together with facilitator.rs 145-192).                 *)
SellerConsented ==
  verdict = "accepted" /\ request.payload.kind = "exact" =>
    LET call == ExactCall(request)
        s    == request.payload.seller
    IN  /\ Recovers(s.sig, call.to, SellerText(s))
        /\ s.payer = call.from /\ s.amount = call.value
        /\ s.validAfter = call.validAfter /\ s.validBefore = call.validBefore
        /\ s.nonce = call.nonce
=============================================================================
