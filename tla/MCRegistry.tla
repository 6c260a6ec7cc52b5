------------------------------ MODULE MCRegistry ------------------------------
(* An instance of Registry for TLC: two channels of one seller, of which    *)
(* the store holds one at a time, and three more that only requests name:   *)
(* one like those, one of another receiver, one of another authorizer.      *)
EXTENDS Registry, TLC

CONSTANTS c1, c2, a1, a2, a3, payer, seller, other, local, jpyc

MCKept == {c1, c2}
Named  == {a1, a2, a3}
MCChannel == MCKept \cup Named
MCConfig == [c \in MCChannel |->
  [payer |-> payer, payerAuthorizer |-> payer,
   receiver |-> IF c = a2 THEN other ELSE seller,
   receiverAuthorizer |-> IF c = a3 THEN other ELSE local,
   token |-> jpyc, withdrawDelay |-> IF c \in MCKept THEN 900 ELSE 1000]]
MCVouchers == [c \in MCKept |-> {1, 2}]
MCPayee == [k \in 1..4 |-> IF k = 4 THEN other ELSE seller]

Flat(n) == [t \in Table |-> <<n, n, n, n>>]
MCSchedules == {Flat(1), [Flat(2) EXCEPT !["claim"] = <<2, 2, 3, 3>>],
                [Flat(2) EXCEPT !["refund"] = <<3, 2, 3, 3>>]}
MCKindFees == {[k \in Kind |-> 1]} \cup
              {[k \in Kind |-> IF k = "refund" THEN n ELSE 3] : n \in {0, 2}}

Symmetry == Permutations(MCKept)
-----------------------------------------------------------------------------
(* Well-formed requests.                                                    *)

Terms(payTo, price, authorizer, version) ==
  [payTo |-> payTo, asset |-> jpyc, amount |-> price,
   receiverAuthorizer |-> authorizer,
   withdrawDelay |-> IF version = None THEN None ELSE 1000,
   version |-> version, maxTimeoutSeconds |-> 60]
TermsOf(c, price) ==
  [Terms(Config[c].receiver, price, Config[c].receiverAuthorizer, 1) EXCEPT
     !.withdrawDelay = Config[c].withdrawDelay]

With(p, required) == [payload |-> p, required |-> required, accepted |-> required]

Absent == [f \in Fields |-> None]
Kinded(kind, fields) == [kind |-> kind] @@ fields @@ Absent

Voucher(c, max) ==
  [channel |-> c, max |-> max, sig |-> Sign(payer, VoucherText(c, max))]

Authorization(c, amount, until) ==
  LET d == [amount |-> amount, validAfter |-> 0, validBefore |-> until, salt |-> 0]
  IN  d @@ [sig |-> Sign(payer, DepositText(c, d))]

VoucherRequest(c, max) ==
  Kinded("voucher", [channelConfig |-> c, voucher |-> Voucher(c, max)])
DepositRequest(c, max, amount, until) ==
  Kinded("deposit", [channelConfig |-> c, voucher |-> Voucher(c, max),
                     deposit |-> Authorization(c, amount, until)])

Claim(c, max, claimed) ==
  [channel |-> c, max |-> max, claimed |-> claimed,
   sig |-> Sign(payer, VoucherText(c, max))]
SignedBy(c, text) == Sign(Config[c].receiverAuthorizer, text)

RefundRequest(c, amount, claims, signs) ==
  Kinded("refund",
    [channelConfig |-> c, voucher |-> Voucher(c, 1), amount |-> amount,
     refundNonce |-> 0, claims |-> claims,
     claimAuthorizerSignature |->
       IF signs /\ claims # None THEN SignedBy(c, ClaimsText(claims)) ELSE None,
     refundAuthorizerSignature |->
       IF signs THEN SignedBy(c, RefundText(c, 0, amount)) ELSE None])
ClaimRequest(claims, signs) ==
  Kinded("claim",
    [claims |-> claims,
     claimAuthorizerSignature |->
       IF signs THEN SignedBy(claims[1].channel, ClaimsText(claims)) ELSE None])

MCOffered ==
  {With(p, TermsOf(c1, price)) :
     p \in {VoucherRequest(c, max) : c \in MCKept, max \in {1, 2}} \cup
           {DepositRequest(c, max, 2, 60) : c \in MCKept, max \in {1, 2}},
     price \in {1, 2}}

Payments ==
  UNION {{With(p, TermsOf(c, 1)) :
            p \in {DepositRequest(c, 1, 1, 60), DepositRequest(c, 2, 2, 60),
                   DepositRequest(c, 1, 1, 5), VoucherRequest(c, 1),
                   RefundRequest(c, 1, None, c = a3),
                   RefundRequest(c, 2, <<>>, TRUE),
                   RefundRequest(c, 1, <<Claim(c, 1, 1)>>, c # a1)}} : c \in Named}

Operations ==
  UNION {{With(ClaimRequest(<<Claim(c, 2, 1)>>, c = a3),
               Terms(Config[c].receiver, 0, None, None)),
          With(ClaimRequest(<<Claim(c, 2, 2), Claim(c, 1, 0)>>, TRUE),
               Terms(Config[c].receiver, 0, Config[c].receiverAuthorizer, None)),
          With(Kinded("settle", [receiver |-> Config[c].receiver, token |-> jpyc]),
               Terms(Config[c].receiver, 0, None, None))} : c \in Named}

Transfer(to, value, nonce) ==
  [from |-> payer, to |-> to, value |-> value, validAfter |-> 0,
   validBefore |-> 60, nonce |-> nonce]

Page == [seller |-> seller, amount |-> 0]

Consent(to, value, nonce) ==
  LET s == [seller |-> to, payer |-> payer, amount |-> value, asset |-> jpyc,
            resource |-> Page, validAfter |-> 0, validBefore |-> 60,
            nonce |-> nonce, expiresAt |-> 60]
  IN  s @@ [sig |-> Sign(to, SellerText(s))]

Exact(to, value, nonce) ==
  [kind |-> "exact", authorization |-> Transfer(to, value, nonce),
   sig |-> Sign(payer, TransferText(Transfer(to, value, nonce))),
   resource |-> Page, seller |-> Consent(to, value, nonce)]

Exacts ==
  {With(Exact(to, value, nonce), Terms(to, value, None, 1)) :
     to \in {seller, other}, value \in {1, 2}, nonce \in {1, 2}}
-----------------------------------------------------------------------------
(* What clients send: those, and requests that mix the parts of two.        *)

Mixed(requests) ==
  LET fields(q) == DOMAIN q.payload \ {"kind"}
  IN  requests \cup
      UNION {{[q EXCEPT !.payload[f] = o.payload[f]] : f \in fields(q)} \cup
             {[q EXCEPT !.required = o.required, !.accepted = o.required],
              [q EXCEPT !.accepted = o.required]} : q, o \in requests}

(* Purchases of credit: transfer, signer, URL and terms in any combination. *)
Purchases ==
  LET urls == [seller : {payer, other}, amount : {1, 2}]
  IN  {[payload |-> [kind |-> "credit", authorization |-> t,
                     sig |-> Sign(by, TransferText(t)), resource |-> resource,
                     url |-> url],
        required |-> CreditTerms(url.amount), accepted |-> CreditTerms(paid)] :
         t \in {Transfer(to, value, 1) : to \in {seller, other}, value \in {1, 2}},
         by \in {payer, other}, resource, url \in urls, paid \in {1, 2}}

(* A transfer, a consent and terms of three exact payments.                 *)
Assembled ==
  {With([t.payload EXCEPT !.seller = s.payload.seller], r.required) :
     t, s, r \in Exacts}

MCAsked == Mixed(Payments \cup Operations) \cup Mixed(Exacts) \cup Assembled \cup Purchases
=============================================================================
