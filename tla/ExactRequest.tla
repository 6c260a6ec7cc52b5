----------------------------- MODULE ExactRequest -----------------------------
(***************************************************************************)
(* An exact payment: one EIP-3009 authorization of the payer, sent by       *)
(* /settle with an authorization of the seller for just this payment, or by *)
(* the purchase of seller credit without one.  Signatures are symbolic, as  *)
(* in BatchRequest; the network is that of the deployment.                  *)
(*                                                                         *)
(* A request is [payload, required, accepted], its payload [kind,           *)
(* authorization, sig, resource] and the sellerAuthorization, or the URL a  *)
(* purchase was posted to.                                                  *)
(***************************************************************************)
EXTENDS BatchRequest

CONSTANTS
  CreditPayTo,   \* SELLER_CREDIT_PAY_TO
  CreditTimeout  \* SELLER_CREDIT_MAX_TIMEOUT_SECONDS

TransferText(a) ==
  [type |-> "TransferWithAuthorization", from |-> a.from, to |-> a.to,
   value |-> a.value, validAfter |-> a.validAfter,
   validBefore |-> a.validBefore, nonce |-> a.nonce]

(* seller_authorization_message: every field but the signature.             *)
SellerText(s) ==
  [type |-> "sellerAuthorization", seller |-> s.seller, payer |-> s.payer,
   amount |-> s.amount, asset |-> s.asset, resource |-> s.resource,
   validAfter |-> s.validAfter, validBefore |-> s.validBefore,
   nonce |-> s.nonce, expiresAt |-> s.expiresAt]

(* validate_payload_matches_requirements                                    *)
PayloadMatches(q) ==
  /\ q.accepted = q.required
  /\ q.payload.authorization.value = q.required.amount
  /\ q.payload.authorization.to = q.required.payTo

(* validate_request                                                         *)
TransferOk(q, now) ==
  LET a == q.payload.authorization
  IN  /\ q.required.asset = Token /\ q.required.version # None
      /\ PayloadMatches(q)
      /\ InWindow(a, q.required.maxTimeoutSeconds, now)
      /\ Recovers(q.payload.sig, a.from, TransferText(a))

(* Mutant: the consent is not tied to the nonce of the transfer.            *)
SellerAuthorizationReused(q, now) ==
  LET s == q.payload.seller
      a == q.payload.authorization
  IN  /\ s # None
      /\ s.seller = q.required.payTo /\ s.payer = a.from
      /\ s.amount = a.value /\ s.expiresAt >= now + 6
      /\ Recovers(s.sig, s.seller, SellerText(s))

(* validate_seller_authorization                                            *)
SellerAuthorizationOk(q, now) ==
  LET s == q.payload.seller
      a == q.payload.authorization
  IN  /\ s # None
      /\ s.seller = q.required.payTo /\ s.payer = a.from
      /\ s.amount = q.required.amount /\ s.amount = a.value
      /\ s.asset = q.required.asset
      /\ q.payload.resource # None /\ s.resource = q.payload.resource
      /\ s.validAfter = a.validAfter /\ s.validBefore = a.validBefore
      /\ s.nonce = a.nonce
      /\ s.expiresAt >= now + 6
      /\ Recovers(s.sig, s.seller, SellerText(s))

ExactAccepts(q, now) ==
  TransferOk(q, now) /\ q.required.version = Version /\ SellerAuthorizationOk(q, now)

(* seller_credit_requirements                                               *)
CreditTerms(amount) ==
  [payTo |-> CreditPayTo, asset |-> Token, amount |-> amount,
   receiverAuthorizer |-> None, withdrawDelay |-> None, version |-> Version,
   maxTimeoutSeconds |-> CreditTimeout]

(* seller_credit_http: the buyer named in the URL pays for itself, on the   *)
(* canister's own terms for the amount in the URL.                          *)
CreditAccepts(q, now) ==
  LET url == q.payload.url
  IN  /\ url.seller = q.payload.authorization.from
      /\ q.payload.resource = url
      /\ TransferOk([q EXCEPT !.required = CreditTerms(url.amount)], now)

ExactCall(q) ==
  LET a == q.payload.authorization
  IN  [call |-> "transferWithAuthorization", from |-> a.from, to |-> a.to,
       value |-> a.value, validAfter |-> a.validAfter,
       validBefore |-> a.validBefore, nonce |-> a.nonce, sig |-> q.payload.sig]
=============================================================================
