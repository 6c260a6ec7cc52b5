----------------------------- MODULE BatchRequest -----------------------------
(***************************************************************************)
(* A batch-settlement request: when /verify and /settle accept it           *)
(* (batch.rs, lib.rs) and which contract calls /settle makes of it (tx.rs). *)
(*                                                                         *)
(* Hashing and signing are symbolic: the text a key signs is a record of    *)
(* the fields the digest covers, two digests are equal only if the records  *)
(* are, and recovering a signature over another text gives an address that  *)
(* belongs to nobody.  A channel stands for its configuration, since its id *)
(* is the hash of it.  Every text also covers the chain and the contract,   *)
(* which one deployment has one of.                                         *)
(***************************************************************************)
EXTENDS Integers, Sequences, FiniteSets

CONSTANTS
  None,       \* an absent field
  Channel,    \* channel ids
  Config,     \* [Channel -> configuration]
  Local,      \* address of BATCH_RECEIVER_AUTHORIZER_PRIVATE_KEY
  Zero,       \* the zero address: no externally owned payer authorizer
  Token,      \* the token of the network profile
  Delay,      \* withdraw delays within the bounds of validate_withdraw_delay
  Version,    \* JPYC_EIP712_VERSION
  MaxClaims   \* MAX_BATCH_CLAIMS

ASSUME ConfigAssumption ==
  \A c \in Channel :
    {"payer", "payerAuthorizer", "receiver", "receiverAuthorizer", "token",
     "withdrawDelay"} \subseteq DOMAIN Config[c]

ASSUME MaxClaimsAssumption == MaxClaims \in Nat \ {0}

(* Nobody has the key of the zero address.                                  *)
ASSUME LocalAssumption == Local # Zero

Fields == {"channelConfig", "voucher", "deposit", "amount", "refundNonce",
           "claims", "receiver", "token", "claimAuthorizerSignature",
           "refundAuthorizerSignature"}

Present(p) == {f \in Fields : p[f] # None}

-----------------------------------------------------------------------------
(* Signed texts.                                                            *)

Sign(key, text) == [by |-> key, over |-> text]
Recovers(sig, key, text) == key # Zero /\ sig = Sign(key, text)

VoucherText(c, max) == [type |-> "Voucher", channel |-> c, max |-> max]

(* Mutant: the deposit authorization does not cover the amount.             *)
DepositTextNoAmount(c, d) ==
  [type |-> "ReceiveWithAuthorization", from |-> Config[c].payer,
   validAfter |-> d.validAfter, validBefore |-> d.validBefore,
   channel |-> c, salt |-> d.salt, value |-> 0]

DepositText(c, d) ==
  [type |-> "ReceiveWithAuthorization", from |-> Config[c].payer,
   validAfter |-> d.validAfter, validBefore |-> d.validBefore,
   channel |-> c, salt |-> d.salt, value |-> d.amount]

ClaimsText(claims) ==
  [type |-> "ClaimBatch",
   entries |-> [i \in DOMAIN claims |->
     [channel |-> claims[i].channel, max |-> claims[i].max,
      claimed |-> claims[i].claimed]]]

RefundText(c, nonce, amount) ==
  [type |-> "Refund", channel |-> c, nonce |-> nonce, amount |-> amount]

-----------------------------------------------------------------------------
(* The shape of a request.                                                  *)

(* Which fields a payload of a kind must carry, and which it may.           *)
NeededFields(kind) ==
  CASE kind = "deposit" -> {"channelConfig", "voucher", "deposit"}
    [] kind \in {"voucher", "refund"} -> {"channelConfig", "voucher"}
    [] kind = "claim"   -> {"claims"}
    [] kind = "settle"  -> {"receiver", "token"}

AllowedFields(kind) ==
  NeededFields(kind) \cup
  CASE kind = "refund" -> {"amount", "refundNonce", "claims",
                           "claimAuthorizerSignature",
                           "refundAuthorizerSignature"}
    [] kind = "claim"  -> {"claimAuthorizerSignature"}
    [] OTHER           -> {}

KindFieldsOk(p) ==
  /\ NeededFields(p.kind) \subseteq Present(p)
  /\ Present(p) \subseteq AllowedFields(p.kind)
  /\ p.kind = "claim" => p.claims # <<>>
  /\ p.amount # None => p.amount > 0

ClaimCountOk(p) == p.claims # None => Len(p.claims) <= MaxClaims

(* Requirements of a payment, and of an operation that pays nothing itself. *)
RequirementsOk(r) ==
  /\ r.asset = Token
  /\ r.receiverAuthorizer # None /\ r.withdrawDelay \in Delay
  /\ r.version # None

OperationRequirementsOk(r) ==
  /\ r.asset = Token
  /\ r.amount = 0
  /\ r.withdrawDelay # None => r.withdrawDelay \in Delay

(* Payments are signed for one EIP-712 version; operations may omit it.     *)
VersionOk(q) ==
  \/ q.required.version = Version /\ q.accepted.version = Version
  \/ /\ q.payload.kind \in {"claim", "settle"}
     /\ q.required.version = None /\ q.accepted.version = None

ConfigMatches(c, r) ==
  /\ Config[c].receiver = r.payTo
  /\ Config[c].token = r.asset
  /\ Config[c].receiverAuthorizer = r.receiverAuthorizer
  /\ Config[c].withdrawDelay = r.withdrawDelay

(* The claims of an operation are compared with the extras that are given.  *)
ConfigMatchesGiven(c, r) ==
  /\ Config[c].receiver = r.payTo
  /\ Config[c].token = r.asset
  /\ r.receiverAuthorizer \in {None, Config[c].receiverAuthorizer}
  /\ r.withdrawDelay \in {None, Config[c].withdrawDelay}

ClaimSigned(claim) ==
  /\ claim.claimed <= claim.max
  /\ Recovers(claim.sig, Config[claim.channel].payerAuthorizer,
              VoucherText(claim.channel, claim.max))

(* The EIP-3009 window, with the six seconds kept for the transaction.      *)
InWindow(d, timeout, now) ==
  /\ d.validBefore >= now + 6
  /\ d.validAfter <= now
  /\ d.validBefore <= now + timeout + 6
-----------------------------------------------------------------------------
(* validate_batch_request_with_charged: a deposit, voucher or refund whose  *)
(* voucher continues from the stored charge.                                *)
PaymentOk(q, charged, now) ==
  LET p == q.payload
      r == q.required
      c == p.channelConfig
  IN  /\ p.kind \in {"deposit", "voucher", "refund"}
      /\ RequirementsOk(r) /\ q.accepted = r
      /\ KindFieldsOk(p)
      /\ ConfigMatches(c, r)
      /\ p.voucher.channel = c
      /\ Recovers(p.voucher.sig, Config[c].payerAuthorizer,
                  VoucherText(c, p.voucher.max))
      /\ p.kind = "deposit" =>
           /\ InWindow(p.deposit, r.maxTimeoutSeconds, now)
           /\ Recovers(p.deposit.sig, Config[c].payer, DepositText(c, p.deposit))
      /\ p.voucher.max = IF p.kind = "refund" THEN charged
                                              ELSE charged + r.amount

(* Claims carried by a refund are claims of the refunded channel.           *)
RefundClaimsOk(p, r) ==
  \A i \in DOMAIN p.claims :
    /\ p.claims[i].channel = p.channelConfig
    /\ ConfigMatches(p.claims[i].channel, r)
    /\ ClaimSigned(p.claims[i])

(* Mutant: a refund may leave its nonce to the contract.                    *)
RefundWithoutNonceOk(q, charged, now) ==
  /\ PaymentOk(q, charged, now)
  /\ q.payload.amount # None
  /\ q.payload.claims # None => RefundClaimsOk(q.payload, q.required)

RefundOk(q, charged, now) ==
  /\ PaymentOk(q, charged, now)
  /\ q.payload.amount # None /\ q.payload.refundNonce # None
  /\ q.payload.claims # None => RefundClaimsOk(q.payload, q.required)

ClaimOk(q) ==
  LET claims == q.payload.claims
      of(i)  == Config[claims[i].channel]
  IN  /\ KindFieldsOk(q.payload)
      /\ OperationRequirementsOk(q.required) /\ q.accepted = q.required
      /\ \A i \in DOMAIN claims :
           /\ ConfigMatchesGiven(claims[i].channel, q.required)
           /\ ClaimSigned(claims[i])
           /\ of(i).receiverAuthorizer = of(1).receiverAuthorizer
           /\ of(i).withdrawDelay = of(1).withdrawDelay

SettleOk(q) ==
  /\ KindFieldsOk(q.payload)
  /\ OperationRequirementsOk(q.required) /\ q.accepted = q.required
  /\ q.payload.receiver = q.required.payTo
  /\ q.payload.token = q.required.asset

(* An authorizer signature is checked if given; else the key is held here.  *)
AuthorizerOk(sig, expected, text) ==
  IF sig # None THEN Recovers(sig, expected, text) ELSE expected = Local

AuthorizersOk(p) ==
  LET hasClaims == p.claims # None /\ p.claims # <<>>
      expected  == IF p.kind = "claim"
                   THEN Config[p.claims[1].channel].receiverAuthorizer
                   ELSE Config[p.channelConfig].receiverAuthorizer
  IN  /\ p.kind = "refund" =>
           AuthorizerOk(p.refundAuthorizerSignature, expected,
                        RefundText(p.channelConfig, p.refundNonce, p.amount))
      /\ p.kind \in {"claim", "refund"} /\ hasClaims =>
           AuthorizerOk(p.claimAuthorizerSignature, expected,
                        ClaimsText(p.claims))

(* /settle takes the request; charged is that of the stored channel, or 0.  *)
SettleAccepts(q, charged, now) ==
  /\ ClaimCountOk(q.payload) /\ VersionOk(q)
  /\ \/ q.payload.kind = "deposit" /\ PaymentOk(q, charged, now)
     \/ q.payload.kind = "refund"  /\ RefundOk(q, charged, now)
     \/ q.payload.kind = "claim"   /\ ClaimOk(q)
     \/ q.payload.kind = "settle"  /\ SettleOk(q)
  /\ AuthorizersOk(q.payload)

(* The seller whose lock, fee and acceptance the settlement uses.           *)
SellerOf(q) ==
  IF q.payload.kind = "settle" THEN q.payload.receiver ELSE q.required.payTo
-----------------------------------------------------------------------------
(* The contract calls of an accepted request, and whether they can be       *)
(* encoded from what the payload carries.                                   *)

Encodable(p) ==
  \/ p.kind = "deposit" /\ p.channelConfig # None /\ p.deposit # None
  \/ p.kind = "claim"   /\ p.claims # None /\ p.claims # <<>>
  \/ p.kind = "settle"  /\ p.receiver # None /\ p.token # None
  \/ p.kind = "refund"  /\ p.channelConfig # None /\ p.amount # None
                         /\ p.refundNonce # None

Signed(sig, text) == IF sig # None THEN sig ELSE Sign(Local, text)

ClaimCall(p) ==
  [call |-> "claimWithSignature", claims |-> p.claims,
   sig |-> Signed(p.claimAuthorizerSignature, ClaimsText(p.claims))]

RefundCall(p) ==
  [call |-> "refundWithSignature", channel |-> p.channelConfig,
   amount |-> p.amount, nonce |-> p.refundNonce,
   sig |-> Signed(p.refundAuthorizerSignature,
                  RefundText(p.channelConfig, p.refundNonce, p.amount))]

DepositCall(p) ==
  [call |-> "deposit", channel |-> p.channelConfig,
   amount |-> p.deposit.amount, authorization |-> p.deposit]

SettleCall(p) == [call |-> "settle", receiver |-> p.receiver, token |-> p.token]

(* A refund with claims is one multicall: the claims, then the refund.      *)
Calls(p) ==
  IF p.kind = "deposit" THEN <<DepositCall(p)>>
  ELSE IF p.kind = "claim" THEN <<ClaimCall(p)>>
  ELSE IF p.kind = "settle" THEN <<SettleCall(p)>>
  ELSE IF p.claims = None \/ p.claims = <<>> THEN <<RefundCall(p)>>
  ELSE <<ClaimCall(p), RefundCall(p)>>
-----------------------------------------------------------------------------
(* /verify reads the stored row of the voucher's channel.                   *)

PendingOk(p, row) ==
  /\ row.pending # None
  /\ row.pending.live
  /\ row.pending.signed = p.voucher.max

SnapshotOk(p, row) ==
  \/ /\ p.kind = "deposit"
     /\ p.voucher.max <= row.balance + p.deposit.amount
     /\ p.voucher.max > row.claimed
  \/ /\ p.kind = "voucher" /\ row.balance # 0
     /\ p.voucher.max <= row.balance
     /\ p.voucher.max > row.claimed
  \/ p.kind = "refund" /\ row.balance # 0 /\ p.voucher.max >= row.claimed

(* Mutant: the reservation is live but need not be for this voucher.        *)
VerifyAcceptsAnyVoucher(q, row, now) ==
  /\ ClaimCountOk(q.payload) /\ VersionOk(q)
  /\ row # None
  /\ PaymentOk(q, row.charged, now)
  /\ row.pending # None /\ row.pending.live
  /\ SnapshotOk(q.payload, row)

VerifyAccepts(q, row, now) ==
  /\ ClaimCountOk(q.payload) /\ VersionOk(q)
  /\ row # None
  /\ PaymentOk(q, row.charged, now)
  /\ PendingOk(q.payload, row)
  /\ SnapshotOk(q.payload, row)
=============================================================================
