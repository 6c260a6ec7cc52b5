---------------------------- MODULE AdmissionProofs ----------------------------
(***************************************************************************)
(* What /settle has accepted the encoder can encode and the contracts will   *)
(* execute, for any requests, channels and keys.  Everything follows from   *)
(* the fact that an accepted request passed the checks with the charge it    *)
(* was given.                                                               *)
(***************************************************************************)
EXTENDS Admission, TLAPS

AdmissionInv ==
  /\ request \in Asked \cup {None}
  /\ verdict = "accepted" => request \in Asked /\ Accepts(request, charge)

LEMMA AdmissionInvInit == AdmissionInit => AdmissionInv
BY DEF AdmissionInit, AdmissionInv

LEMMA AdmissionInvStep ==
  AdmissionInv /\ [AdmissionNext]_AdmissionVars => AdmissionInv'
<1>. SUFFICES ASSUME AdmissionInv, [AdmissionNext]_AdmissionVars
              PROVE  AdmissionInv'
  OBVIOUS
<1>. USE DEF AdmissionInv
<1>1. CASE UNCHANGED AdmissionVars BY <1>1 DEF AdmissionVars
<1>2. CASE Ask BY <1>2, AskedAssumption DEF Ask
<1>3. CASE Answer BY <1>3 DEF Answer
<1>4. CASE Finish BY <1>4 DEF Finish
<1>. QED BY <1>1, <1>2, <1>3, <1>4 DEF AdmissionNext

LEMMA AdmissionInvariant == AdmissionSpec => []AdmissionInv
BY AdmissionInvInit, AdmissionInvStep, PTL DEF AdmissionSpec
-----------------------------------------------------------------------------
(* The fields an accepted request has.                                      *)

LEMMA AcceptedEncodable ==
  ASSUME NEW q, NEW charged, SettleAccepts(q, charged, 0)
  PROVE  Encodable(q.payload)
<1>1. CASE q.payload.kind = "deposit" /\ PaymentOk(q, charged, 0)
  BY <1>1 DEF PaymentOk, KindFieldsOk, NeededFields, Present, Encodable
<1>2. CASE q.payload.kind = "refund" /\ RefundOk(q, charged, 0)
  BY <1>2 DEF RefundOk, PaymentOk, KindFieldsOk, NeededFields, Present, Encodable
<1>3. CASE q.payload.kind = "claim" /\ ClaimOk(q)
  BY <1>3 DEF ClaimOk, KindFieldsOk, NeededFields, Present, Encodable
<1>4. CASE q.payload.kind = "settle" /\ SettleOk(q)
  BY <1>4 DEF SettleOk, KindFieldsOk, NeededFields, Present, Encodable
<1>. QED BY <1>1, <1>2, <1>3, <1>4 DEF SettleAccepts

LEMMA FedWhenAccepted == AdmissionInv => EncoderFed
BY AcceptedEncodable DEF AdmissionInv, EncoderFed, Accepts, Transfers

(* No accepted request fails in the encoder, after its fee and its nonce    *)
(* are taken (lib.rs 2318-2441, tx.rs 57-148).                              *)
THEOREM EncoderAlwaysFed == AdmissionSpec => []EncoderFed
BY FedWhenAccepted, AdmissionInvariant, PTL
-----------------------------------------------------------------------------
(* Signatures.                                                              *)

LEMMA AuthorizerRecovers ==
  ASSUME NEW sig, NEW expected, NEW text, AuthorizerOk(sig, expected, text)
  PROVE  Recovers(Signed(sig, text), expected, text)
BY LocalAssumption DEF AuthorizerOk, Signed, Recovers

LEMMA ClaimsExecutable ==
  ASSUME NEW p, NEW seller, NEW key,
         \A i \in DOMAIN p.claims :
           /\ Config[p.claims[i].channel].receiver = seller
           /\ Config[p.claims[i].channel].receiverAuthorizer = key
           /\ ClaimSigned(p.claims[i]),
         AuthorizerOk(p.claimAuthorizerSignature, key, ClaimsText(p.claims))
  PROVE  CallExecutable(ClaimCall(p), seller)
<1>1. Recovers(Signed(p.claimAuthorizerSignature, ClaimsText(p.claims)), key,
               ClaimsText(p.claims))
  BY AuthorizerRecovers
<1>2. ClaimsAuthorised(p.claims,
                       Signed(p.claimAuthorizerSignature, ClaimsText(p.claims)),
                       seller)
  BY <1>1 DEF ClaimsAuthorised, ClaimSigned
<1>. QED BY <1>2 DEF CallExecutable, ClaimCall

LEMMA DepositExecutable ==
  ASSUME NEW q, NEW charged, q.payload.kind = "deposit", PaymentOk(q, charged, 0)
  PROVE  CallExecutable(DepositCall(q.payload), SellerOf(q))
<1>. DEFINE c == q.payload.channelConfig
            d == q.payload.deposit
            call == DepositCall(q.payload)
<1>1. Recovers(d.sig, Config[c].payer, DepositText(c, d)) BY DEF PaymentOk
<1>2. /\ call.call = "deposit" /\ call.channel = c
      /\ call.amount = d.amount /\ call.authorization = d
  BY DEF DepositCall
<1>3. CollectorText(call) = DepositText(c, d)
  BY <1>2 DEF CollectorText, DepositText
<1>4. Config[c].receiver = SellerOf(q)
  BY DEF PaymentOk, ConfigMatches, SellerOf
<1>. QED BY <1>1, <1>2, <1>3, <1>4 DEF CallExecutable

LEMMA ClaimExecutable ==
  ASSUME NEW q, q.payload.kind = "claim", ClaimOk(q), AuthorizersOk(q.payload)
  PROVE  CallExecutable(ClaimCall(q.payload), SellerOf(q))
<1>. DEFINE p == q.payload
            key == Config[p.claims[1].channel].receiverAuthorizer
<1>1. p.claims # None /\ p.claims # <<>>
  BY DEF ClaimOk, KindFieldsOk, NeededFields, Present
<1>2. AuthorizerOk(p.claimAuthorizerSignature, key, ClaimsText(p.claims))
  BY <1>1 DEF AuthorizersOk
<1>3. \A i \in DOMAIN p.claims :
        /\ Config[p.claims[i].channel].receiver = SellerOf(q)
        /\ Config[p.claims[i].channel].receiverAuthorizer = key
        /\ ClaimSigned(p.claims[i])
  BY DEF ClaimOk, ConfigMatchesGiven, SellerOf
<1>. HIDE DEF p, key
<1>4. CallExecutable(ClaimCall(p), SellerOf(q)) BY <1>2, <1>3, ClaimsExecutable
<1>. QED BY <1>4 DEF p

LEMMA RefundExecutable ==
  ASSUME NEW q, NEW charged, q.payload.kind = "refund",
         RefundOk(q, charged, 0), AuthorizersOk(q.payload)
  PROVE  /\ CallExecutable(RefundCall(q.payload), SellerOf(q))
         /\ q.payload.claims # None /\ q.payload.claims # <<>> =>
              CallExecutable(ClaimCall(q.payload), SellerOf(q))
<1>. DEFINE p == q.payload
            c == p.channelConfig
            key == Config[c].receiverAuthorizer
            text == RefundText(c, p.refundNonce, p.amount)
<1>1. Config[c].receiver = SellerOf(q)
  BY DEF RefundOk, PaymentOk, ConfigMatches, SellerOf
<1>2. AuthorizerOk(p.refundAuthorizerSignature, key, text) BY DEF AuthorizersOk
<1>3. CallExecutable(RefundCall(p), SellerOf(q))
  <2>1. Recovers(Signed(p.refundAuthorizerSignature, text), key, text)
    BY <1>2, AuthorizerRecovers
  <2>. QED BY <1>1, <2>1 DEF RefundCall, CallExecutable
<1>4. ASSUME p.claims # None, p.claims # <<>>
      PROVE  CallExecutable(ClaimCall(p), SellerOf(q))
  <2>1. AuthorizerOk(p.claimAuthorizerSignature, key, ClaimsText(p.claims))
    BY <1>4 DEF AuthorizersOk
  <2>2. \A i \in DOMAIN p.claims :
          /\ Config[p.claims[i].channel].receiver = SellerOf(q)
          /\ Config[p.claims[i].channel].receiverAuthorizer = key
          /\ ClaimSigned(p.claims[i])
    BY <1>1, <1>4 DEF RefundOk, RefundClaimsOk
  <2>. HIDE DEF p, key
  <2>. QED BY <2>1, <2>2, ClaimsExecutable
<1>. QED BY <1>3, <1>4

LEMMA SettleExecutable ==
  ASSUME NEW q, q.payload.kind = "settle", SettleOk(q)
  PROVE  CallExecutable(SettleCall(q.payload), SellerOf(q))
BY DEF SettleOk, OperationRequirementsOk, SettleCall, CallExecutable, SellerOf

LEMMA CallsExecutable ==
  ASSUME NEW q, NEW charged, SettleAccepts(q, charged, 0)
  PROVE  \A i \in DOMAIN Calls(q.payload) :
           CallExecutable(Calls(q.payload)[i], SellerOf(q))
<1>1. AuthorizersOk(q.payload) BY DEF SettleAccepts
<1>2. CASE q.payload.kind = "deposit" /\ PaymentOk(q, charged, 0)
  BY <1>2, DepositExecutable DEF Calls
<1>3. CASE q.payload.kind = "refund" /\ RefundOk(q, charged, 0)
  <2>1. CASE q.payload.claims = None \/ q.payload.claims = <<>>
    <3>1. Calls(q.payload) = <<RefundCall(q.payload)>> BY <1>3, <2>1 DEF Calls
    <3>. QED BY <1>1, <1>3, <3>1, RefundExecutable
  <2>2. CASE q.payload.claims # None /\ q.payload.claims # <<>>
    <3>1. Calls(q.payload) = <<ClaimCall(q.payload), RefundCall(q.payload)>>
      BY <1>3, <2>2 DEF Calls
    <3>. QED BY <1>1, <1>3, <2>2, <3>1, RefundExecutable
  <2>. QED BY <2>1, <2>2
<1>4. CASE q.payload.kind = "claim" /\ ClaimOk(q)
  BY <1>1, <1>4, ClaimExecutable DEF Calls
<1>5. CASE q.payload.kind = "settle" /\ SettleOk(q)
  BY <1>5, SettleExecutable DEF Calls
<1>. QED BY <1>2, <1>3, <1>4, <1>5 DEF SettleAccepts

TransferAuthorised(q) ==
  LET call == ExactCall(q)
      url  == q.payload.url
  IN  /\ Recovers(call.sig, call.from, TransferText(call))
      /\ q.payload.kind = "credit" =>
           /\ call.from = url.seller /\ call.to = CreditPayTo
           /\ call.value = url.amount

LEMMA TransferRecovers ==
  ASSUME NEW q, Recovers(q.payload.sig, q.payload.authorization.from,
                         TransferText(q.payload.authorization))
  PROVE  LET call == ExactCall(q)
         IN  Recovers(call.sig, call.from, TransferText(call))
<1>1. TransferText(ExactCall(q)) = TransferText(q.payload.authorization)
  BY DEF ExactCall, TransferText
<1>2. /\ ExactCall(q).sig = q.payload.sig
      /\ ExactCall(q).from = q.payload.authorization.from
  BY DEF ExactCall
<1>. QED BY <1>1, <1>2

LEMMA TransfersAuthorised ==
  ASSUME NEW q \in Asked, NEW charged, Transfers(q), Accepts(q, charged)
  PROVE  TransferAuthorised(q)
<1>1. CASE q.payload.kind = "exact"
  BY <1>1, TransferRecovers
  DEF Accepts, ExactAccepts, TransferOk, TransferAuthorised
<1>2. CASE q.payload.kind = "credit"
  <2>. DEFINE terms == CreditTerms(q.payload.url.amount)
              asked == [q EXCEPT !.required = terms]
  <2>1. TransferOk(asked, 0) /\ q.payload.url.seller = q.payload.authorization.from
    BY <1>2 DEF Accepts, CreditAccepts
  <2>2. asked.payload = q.payload /\ asked.required = terms
    BY AskedAssumption
  <2>. HIDE DEF asked
  <2>3. /\ Recovers(q.payload.sig, q.payload.authorization.from,
                    TransferText(q.payload.authorization))
        /\ q.payload.authorization.value = terms.amount
        /\ q.payload.authorization.to = terms.payTo
    BY <2>1, <2>2 DEF TransferOk, PayloadMatches
  <2>4. terms.amount = q.payload.url.amount /\ terms.payTo = CreditPayTo
    BY DEF CreditTerms
  <2>5. /\ ExactCall(q).from = q.payload.authorization.from
        /\ ExactCall(q).to = q.payload.authorization.to
        /\ ExactCall(q).value = q.payload.authorization.value
    BY DEF ExactCall
  <2>. QED
    BY <2>1, <2>3, <2>4, <2>5, TransferRecovers DEF TransferAuthorised
<1>. QED BY <1>1, <1>2 DEF Transfers

LEMMA AuthorisedWhenAccepted == AdmissionInv => CallAuthorised
<1>. SUFFICES ASSUME AdmissionInv, verdict = "accepted"
              PROVE  IF Transfers(request) THEN TransferAuthorised(request)
                     ELSE \A i \in DOMAIN Calls(request.payload) :
                            CallExecutable(Calls(request.payload)[i],
                                           SellerOf(request))
  BY DEF CallAuthorised, TransferAuthorised
<1>1. request \in Asked /\ Accepts(request, charge) BY DEF AdmissionInv
<1>2. CASE Transfers(request) BY <1>1, <1>2, TransfersAuthorised
<1>3. CASE ~Transfers(request)
  <2>1. SettleAccepts(request, charge, 0)
    BY <1>1, <1>3 DEF Accepts, Transfers
  <2>. QED BY <1>3, <2>1, CallsExecutable
<1>. QED BY <1>2, <1>3

(* The contracts find the signatures they check, over the contents of the   *)
(* calls, and no call touches another seller's channels                     *)
(* (batch.rs 214-485, lib.rs 2822-2941, 3172-3264, tx.rs 30-248).           *)
THEOREM CallsAlwaysAuthorised == AdmissionSpec => []CallAuthorised
BY AuthorisedWhenAccepted, AdmissionInvariant, PTL

LEMMA ConsentedWhenAccepted == AdmissionInv => SellerConsented
<1>. SUFFICES ASSUME AdmissionInv, verdict = "accepted",
                     request.payload.kind = "exact"
              PROVE  SellerConsented
  BY DEF SellerConsented
<1>1. ExactAccepts(request, 0) BY DEF AdmissionInv, Accepts
<1>. QED
  BY <1>1 DEF SellerConsented, ExactAccepts, TransferOk, PayloadMatches,
              SellerAuthorizationOk, ExactCall

(* The recipient of an exact transfer signed for this very transfer         *)
(* (lib.rs 4302-4375, facilitator.rs 145-192).                              *)
THEOREM SellersAlwaysConsent == AdmissionSpec => []SellerConsented
BY ConsentedWhenAccepted, AdmissionInvariant, PTL
=============================================================================
