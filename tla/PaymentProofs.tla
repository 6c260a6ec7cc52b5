----------------------------- MODULE PaymentProofs -----------------------------
(***************************************************************************)
(* Without interrupted calls the settlement engine implements Payment, for  *)
(* any sellers, calls, payments, fees, gas prices and bounds.               *)
(*                                                                         *)
(* The argument: from its first broadcast on a payment's record carries the *)
(* one nonce that its transactions, its lock entry and its calls use, so at *)
(* most one of the transactions executes; and the call that prepares a      *)
(* payment is alone with it and knows the fee its record was charged.       *)
(*                                                                         *)
(* On top of it, what the locks are for: a lock names something open, what  *)
(* is open holds its lock, and so no reserved nonce is lost.                *)
(***************************************************************************)
EXTENDS SettlementProofs

(* The payment was handed to a node, or may have been, with nonce n.        *)
CommittedAt(k, n) ==
  rec[k].status \in {"broadcast", "settled", "failed"} /\ rec[k].nonce = n

CallFits(c) ==
  /\ Watching(c) => c.nonce # -1 /\ CommittedAt(c.key, c.nonce)
  /\ Preparing(c) => rec[c.key].status = "checking" /\ rec[c.key].fee = c.fee

CallsFit == \A h \in Handler : CallFits(hs[h])

UsesFit ==
  \A k \in Key, n \in 0..MaxNonce :
    TxUses(k, n) \/ LockUses(k, n) => CommittedAt(k, n)

Refused(k) == \E m \in mined : ~m.ok /\ m.tx.key = k

RecordFits(k) ==
  /\ rec[k].status = "none" => rec[k].fee = 0
  /\ rec[k].status \in {"broadcast", "failed"} => rec[k].nonce # -1
  /\ rec[k].status = "settled" /\ rec[k].nonce = -1 => k.kind # "credit"
  /\ rec[k].status = "settled" /\ rec[k].nonce # -1 => Paid(k)
  /\ rec[k].status = "failed" => Refused(k)

RecordsFit == \A k \in Key : RecordFits(k)

MinedOnce ==
  /\ \A m \in mined : m.tx \in sent /\ m.tx.nonce < chainNonce
  /\ \A m1, m2 \in mined : m1.tx.nonce = m2.tx.nonce => m1 = m2

PayInv == CallsFit /\ PreparesAlone /\ UsesFit /\ RecordsFit /\ MinedOnce

-----------------------------------------------------------------------------
(* The invariant, by the kinds of steps the actions are made of.            *)

LEMMA InitPay == Init => PayInv
<1>. SUFFICES ASSUME Init PROVE PayInv OBVIOUS
<1>1. CallsFit /\ PreparesAlone
  BY DEF Init, CallsFit, CallFits, PreparesAlone, Preparing, Watching, Idle
<1>2. UsesFit
  BY AmountAssumption, KeyFacts DEF Init, UsesFit, TxUses, LockUses, Free
<1>3. RecordsFit BY DEF Init, RecordsFit, RecordFits, NoRecord
<1>4. MinedOnce BY DEF Init, MinedOnce
<1>. QED BY <1>1, <1>2, <1>3, <1>4 DEF PayInv

(* A call moves, keeping or giving up what it prepares, and no record does. *)
LEMMA CallMoves ==
  ASSUME TypeOK, PayInv, NEW h \in Handler, NEW c, Step(h, c), CallFits(c),
         Preparing(c) => Preparing(hs[h]) /\ hs[h].key = c.key,
         rec' = rec, sent' = sent, mined' = mined, chainNonce' = chainNonce,
         \A k \in Key, n \in 0..MaxNonce : LockUses(k, n)' => LockUses(k, n)
  PROVE  PayInv'
<1>1. hs'[h] = c /\ \A g \in Handler \ {h} : hs'[g] = hs[g] BY StepFrame
<1>2. CallsFit' BY <1>1 DEF PayInv, CallsFit, CallFits, CommittedAt, Watching, Preparing
<1>3. PreparesAlone' BY <1>1 DEF PayInv, PreparesAlone, Preparing
<1>4. UsesFit' BY DEF PayInv, UsesFit, TxUses, CommittedAt
<1>5. RecordsFit' BY DEF PayInv, RecordsFit, RecordFits, Paid, Refused
<1>6. MinedOnce' BY DEF PayInv, MinedOnce
<1>. QED BY <1>2, <1>3, <1>4, <1>5, <1>6 DEF PayInv

(* No call and no record moves.                                             *)
LEMMA NothingMoves ==
  ASSUME PayInv, hs' = hs, rec' = rec, sent' = sent, mined' = mined,
         chainNonce' = chainNonce,
         \A k \in Key, n \in 0..MaxNonce : LockUses(k, n)' => LockUses(k, n)
  PROVE  PayInv'
<1>1. CallsFit' BY DEF PayInv, CallsFit, CallFits, CommittedAt, Watching, Preparing
<1>2. PreparesAlone' BY DEF PayInv, PreparesAlone, Preparing
<1>3. UsesFit' BY DEF PayInv, UsesFit, TxUses, CommittedAt
<1>4. RecordsFit' BY DEF PayInv, RecordsFit, RecordFits, Paid, Refused
<1>5. MinedOnce' BY DEF PayInv, MinedOnce
<1>. QED BY <1>1, <1>2, <1>3, <1>4, <1>5 DEF PayInv

(* One record moves, of a payment whose calls, transactions and lock entry  *)
(* are accounted for.                                                       *)
LEMMA RecordMoves ==
  ASSUME TypeOK, PayInv, NEW k \in Key, NEW h \in Handler, NEW c, Step(h, c),
         \A j \in Key \ {k} : rec'[j] = rec[j],
         RecordFits(k)', CallFits(c)',
         \A g \in Handler \ {h} : hs[g].pc # "idle" /\ hs[g].key = k
                                    => CallFits(hs[g])',
         Preparing(c) => \A g \in Handler \ {h} :
                           Preparing(hs[g]) => hs[g].key # c.key,
         \A j \in Key, n \in 0..MaxNonce :
           TxUses(j, n)' \/ LockUses(j, n)' =>
             TxUses(j, n) \/ LockUses(j, n) \/ (j = k /\ CommittedAt(k, n)'),
         \A n \in 0..MaxNonce : TxUses(k, n) \/ LockUses(k, n)
                                  => CommittedAt(k, n)',
         sent \subseteq sent', mined' = mined, chainNonce' = chainNonce
  PROVE  PayInv'
<1>1. hs'[h] = c /\ \A g \in Handler \ {h} : hs'[g] = hs[g] BY StepFrame
<1>2. ASSUME NEW g \in Handler PROVE CallFits(hs[g])'
  <2>1. CASE g = h BY <1>1, <2>1 DEF CallFits, CommittedAt, Watching, Preparing
  <2>2. CASE g # h
    <3>1. hs'[g] = hs[g] BY <1>1, <2>2
    <3>2. CASE hs[g].pc = "idle" BY <3>1, <3>2 DEF CallFits, Watching, Preparing
    <3>3. CASE hs[g].pc # "idle" /\ hs[g].key = k
      BY <2>2, <3>1, <3>3 DEF CallFits, CommittedAt, Watching, Preparing
    <3>4. CASE hs[g].pc # "idle" /\ hs[g].key # k
      <4>1. rec'[hs[g].key] = rec[hs[g].key] BY <3>4, CallFacts
      <4>. QED BY <3>1, <4>1
           DEF PayInv, CallsFit, CallFits, CommittedAt, Watching, Preparing
    <3>. QED BY <3>2, <3>3, <3>4
  <2>. QED BY <2>1, <2>2
<1>3. CallsFit' BY <1>2 DEF CallsFit
<1>4. PreparesAlone' BY <1>1 DEF PayInv, PreparesAlone, Preparing
<1>5. ASSUME NEW j \in Key, NEW n \in 0..MaxNonce,
             TxUses(j, n)' \/ LockUses(j, n)'
      PROVE  CommittedAt(j, n)'
  <2>1. CASE j = k BY <1>5, <2>1
  <2>2. CASE j # k
    <3>1. CommittedAt(j, n) BY <1>5, <2>2 DEF PayInv, UsesFit
    <3>. QED BY <2>2, <3>1 DEF CommittedAt
  <2>. QED BY <2>1, <2>2
<1>6. UsesFit' BY <1>5 DEF UsesFit
<1>7. RecordsFit' BY DEF PayInv, RecordsFit, RecordFits, Paid, Refused
<1>8. MinedOnce' BY DEF PayInv, MinedOnce
<1>. QED BY <1>3, <1>4, <1>6, <1>7, <1>8 DEF PayInv

-----------------------------------------------------------------------------
(* The refinement, by the same kinds of steps.                              *)

(* A step that moves one record moves one payment.                          *)
LEMMA OnePaymentMoves ==
  ASSUME NEW k \in Key, \A j \in Key \ {k} : rec'[j] = rec[j], mined' = mined
  PROVE  /\ [j \in Key |-> PhaseOf(j)]'
              = [[j \in Key |-> PhaseOf(j)] EXCEPT ![k] = PhaseOf(k)']
         /\ [j \in Key |-> rec[j].fee]'
              = [[j \in Key |-> rec[j].fee] EXCEPT ![k] = rec'[k].fee]
         /\ [j \in Key |-> OutcomeOf(j)]' = [j \in Key |-> OutcomeOf(j)]
         /\ [j \in Key |-> AnswerOf(j)]'
              = [[j \in Key |-> AnswerOf(j)] EXCEPT ![k] = AnswerOf(k)']
         /\ AnswerOf(k)' = AnswerOf(k)
              => [j \in Key |-> AnswerOf(j)]' = [j \in Key |-> AnswerOf(j)]
         /\ rec'[k].fee = rec[k].fee
              => [j \in Key |-> rec[j].fee]' = [j \in Key |-> rec[j].fee]
<1>1. \A j \in Key \ {k} : PhaseOf(j)' = PhaseOf(j) /\ AnswerOf(j)' = AnswerOf(j)
  BY DEF PhaseOf, AnswerOf
<1>2. \A j \in Key : OutcomeOf(j)' = OutcomeOf(j)
  BY DEF OutcomeOf, Paid, Executed
<1>3. /\ [j \in Key |-> PhaseOf(j)]' = [j \in Key |-> PhaseOf(j)']
      /\ [j \in Key |-> rec[j].fee]' = [j \in Key |-> rec'[j].fee]
      /\ [j \in Key |-> OutcomeOf(j)]' = [j \in Key |-> OutcomeOf(j)']
      /\ [j \in Key |-> AnswerOf(j)]' = [j \in Key |-> AnswerOf(j)']
  OBVIOUS
<1>. QED BY <1>1, <1>2, <1>3

(* No record and no receipt moves.                                          *)
LEMMA RecordsStay ==
  ASSUME rec' = rec, mined' = mined
  PROVE  /\ [j \in Key |-> PhaseOf(j)]' = [j \in Key |-> PhaseOf(j)]
         /\ [j \in Key |-> rec[j].fee]' = [j \in Key |-> rec[j].fee]
         /\ [j \in Key |-> OutcomeOf(j)]' = [j \in Key |-> OutcomeOf(j)]
         /\ [j \in Key |-> AnswerOf(j)]' = [j \in Key |-> AnswerOf(j)]
<1>1. \A j \in Key : /\ PhaseOf(j)' = PhaseOf(j) /\ AnswerOf(j)' = AnswerOf(j)
                     /\ OutcomeOf(j)' = OutcomeOf(j)
  BY DEF PhaseOf, AnswerOf, OutcomeOf, Paid, Executed
<1>. QED BY <1>1

(* Nor does a balance: a stutter.                                           *)
LEMMA NoPaymentMoves ==
  ASSUME rec' = rec, mined' = mined, ledger' = ledger
  PROVE  UNCHANGED P!paymentVars
BY RecordsStay DEF P!paymentVars, ledger

(* A fee is reserved and a checking record journaled.                       *)
LEMMA StartMoves ==
  ASSUME TypeOK, PayInv, NEW h \in Handler, NEW k \in Key,
         NEW f \in Fee \cup {0}, k.kind = "credit" => f = 0,
         rec[k].status = "none", HasCredit(k.seller, f),
         rec' = Inserted(k, "checking", -1, 0, f),
         credit' = [credit EXCEPT ![k.seller] = @ - f], credited' = credited,
         Step(h, Call("nonce", k, f, -1, 0)), chain' = chain,
         \A j \in Key, n \in 0..MaxNonce : LockUses(j, n)' => LockUses(j, n)
  PROVE  PayInv' /\ P!Next
<1>. DEFINE c == Call("nonce", k, f, -1, 0)
<1>. k \in Key /\ k.seller \in Seller BY KeyFacts
<1>. f \in Nat BY AmountAssumption
<1>1. /\ rec'[k] = [status |-> "checking", nonce |-> -1, gas |-> 0, fee |-> f]
      /\ \A j \in Key \ {k} : rec'[j] = rec[j]
  BY DEF Inserted, TypeOK
<1>2. /\ sent' = sent /\ mined' = mined /\ chainNonce' = chainNonce
  BY DEF chain
<1>3. c.pc = "nonce" /\ c.key = k /\ c.fee = f BY DEF Call
<1>4. \A n \in 0..MaxNonce : ~TxUses(k, n) /\ ~LockUses(k, n)
  BY DEF PayInv, UsesFit, CommittedAt
<1>5. \A g \in Handler : hs[g].key = k => ~Preparing(hs[g]) /\ ~Watching(hs[g])
  BY DEF PayInv, CallsFit, CallFits, CommittedAt
<1>6. PayInv'
  <2>1. RecordFits(k)' BY <1>1 DEF RecordFits
  <2>2. CallFits(c)' BY <1>1, <1>3 DEF CallFits, Preparing, Watching
  <2>3. \A g \in Handler \ {h} : hs[g].pc # "idle" /\ hs[g].key = k
                                   => CallFits(hs[g])'
    BY <1>5, StepFrame DEF CallFits, Preparing, Watching
  <2>4. \A j \in Key, n \in 0..MaxNonce :
          TxUses(j, n)' \/ LockUses(j, n)' => TxUses(j, n) \/ LockUses(j, n)
    BY <1>2 DEF TxUses
  <2>5. Step(h, c) OBVIOUS
  <2>. HIDE DEF c
  <2>. QED BY <1>1, <1>2, <1>3, <1>4, <1>5, <2>1, <2>2, <2>3, <2>4, <2>5, RecordMoves
<1>7. P!Prepare(k, f)
  <2>1. PhaseOf(k) = "absent" /\ PhaseOf(k)' = "prepared" BY <1>1 DEF PhaseOf
  <2>2. AnswerOf(k) = "none" /\ AnswerOf(k)' = "none" BY <1>1 DEF AnswerOf
  <2>3. [j \in Key |-> AnswerOf(j)]' = [j \in Key |-> AnswerOf(j)]
    BY <1>1, <1>2, <2>2, OnePaymentMoves
  <2>4. credit[k.seller] >= f BY DEF HasCredit
  <2>5. [j \in Key |-> PhaseOf(j)]'
          = [[j \in Key |-> PhaseOf(j)] EXCEPT ![k] = "prepared"]
    BY <1>1, <1>2, <2>1, OnePaymentMoves
  <2>6. [j \in Key |-> rec[j].fee]' = [[j \in Key |-> rec[j].fee] EXCEPT ![k] = f]
    <3>1. rec'[k].fee = f BY <1>1
    <3>2. [j \in Key |-> rec[j].fee]'
            = [[j \in Key |-> rec[j].fee] EXCEPT ![k] = rec'[k].fee]
      BY <1>1, <1>2, OnePaymentMoves
    <3>. QED BY <3>1, <3>2
  <2>7. [j \in Key |-> OutcomeOf(j)]' = [j \in Key |-> OutcomeOf(j)]
    BY <1>1, <1>2, OnePaymentMoves
  <2>8. [j \in Key |-> PhaseOf(j)][k] = PhaseOf(k) OBVIOUS
  <2>9. [j \in Key |-> j.seller][k] = k.seller OBVIOUS
  <2>. QED BY <2>1, <2>3, <2>4, <2>5, <2>6, <2>7, <2>8, <2>9 DEF P!Prepare
<1>. QED BY <1>6, <1>7 DEF P!Next, P!PayStep

(* A batch settle that finds nothing to pay.                                *)
LEMMA NoopMoves ==
  ASSUME TypeOK, PayInv, NEW h \in Handler, NEW k \in Key, k.kind = "target",
         rec[k].status = "none", rec' = Inserted(k, "settled", -1, 0, 0),
         ledger' = ledger, Step(h, Idle), chain' = chain,
         \A j \in Key, n \in 0..MaxNonce : LockUses(j, n)' => LockUses(j, n)
  PROVE  PayInv' /\ P!Next
<1>1. /\ rec'[k] = [status |-> "settled", nonce |-> -1, gas |-> 0, fee |-> 0]
      /\ \A j \in Key \ {k} : rec'[j] = rec[j]
  BY DEF Inserted, TypeOK
<1>2. /\ sent' = sent /\ mined' = mined /\ chainNonce' = chainNonce
  BY DEF chain
<1>3. \A n \in 0..MaxNonce : ~TxUses(k, n) /\ ~LockUses(k, n)
  BY DEF PayInv, UsesFit, CommittedAt
<1>4. \A g \in Handler : hs[g].key = k => ~Preparing(hs[g]) /\ ~Watching(hs[g])
  BY DEF PayInv, CallsFit, CallFits, CommittedAt
<1>5. rec[k].fee = 0 BY DEF PayInv, RecordsFit, RecordFits
<1>6. PayInv'
  <2>1. RecordFits(k)' BY <1>1 DEF RecordFits
  <2>2. CallFits(Idle)' /\ ~Preparing(Idle)
    BY DEF CallFits, Preparing, Watching, Idle
  <2>3. \A g \in Handler \ {h} : hs[g].pc # "idle" /\ hs[g].key = k
                                   => CallFits(hs[g])'
    BY <1>4, StepFrame DEF CallFits, Preparing, Watching
  <2>4. \A j \in Key, n \in 0..MaxNonce :
          TxUses(j, n)' \/ LockUses(j, n)' => TxUses(j, n) \/ LockUses(j, n)
    BY <1>2 DEF TxUses
  <2>. QED BY <1>1, <1>2, <1>3, <2>1, <2>2, <2>3, <2>4, RecordMoves
<1>7. P!Waive(k)
  <2>1. PhaseOf(k) = "absent" /\ PhaseOf(k)' = "waived" BY <1>1 DEF PhaseOf
  <2>2. AnswerOf(k) = "none" /\ AnswerOf(k)' = "none" BY <1>1 DEF AnswerOf
  <2>3. /\ [j \in Key |-> AnswerOf(j)]' = [j \in Key |-> AnswerOf(j)]
        /\ [j \in Key |-> rec[j].fee]' = [j \in Key |-> rec[j].fee]
    <3>1. rec'[k].fee = rec[k].fee BY <1>1, <1>5
    <3>. QED BY <1>1, <1>2, <2>2, <3>1, OnePaymentMoves
  <2>4. [j \in Key |-> PhaseOf(j)]'
          = [[j \in Key |-> PhaseOf(j)] EXCEPT ![k] = "waived"]
    BY <1>1, <1>2, <2>1, OnePaymentMoves
  <2>5. [j \in Key |-> OutcomeOf(j)]' = [j \in Key |-> OutcomeOf(j)]
    BY <1>1, <1>2, OnePaymentMoves
  <2>6. [j \in Key |-> PhaseOf(j)][k] = PhaseOf(k) OBVIOUS
  <2>. QED BY <2>1, <2>3, <2>4, <2>5, <2>6 DEF P!Waive, ledger
<1>. QED BY <1>6, <1>7 DEF P!Next, P!PayStep

(* A call gives up before its broadcast.                                    *)
LEMMA AbandonMoves ==
  ASSUME TypeOK, PayInv, NEW h \in Handler, NEW k \in Key, hs[h].key = k,
         Preparing(hs[h]), Abandon(h), credited' = credited, chain' = chain
  PROVE  PayInv' /\ P!Next
<1>. k.seller \in Seller BY KeyFacts
<1>1. /\ rec'[k] = NoRecord
      /\ \A j \in Key \ {k} : rec'[j] = rec[j]
  BY DEF Abandon, TypeOK
<1>2. /\ sent' = sent /\ mined' = mined /\ chainNonce' = chainNonce
  BY DEF chain
<1>3. rec[k].status = "checking" /\ rec[k].fee = hs[h].fee
  BY DEF PayInv, CallsFit, CallFits
<1>4. \A n \in 0..MaxNonce : ~TxUses(k, n) /\ ~LockUses(k, n)
  BY <1>3 DEF PayInv, UsesFit, CommittedAt
<1>5. \A g \in Handler \ {h} :
        hs[g].key = k => ~Preparing(hs[g]) /\ ~Watching(hs[g])
  BY <1>3 DEF PayInv, CallsFit, CallFits, CommittedAt, PreparesAlone
<1>6. Step(h, Idle) /\ \A j \in Key, n \in 0..MaxNonce : LockUses(j, n)' => LockUses(j, n)
  BY LockShrinks DEF Abandon
<1>7. PayInv'
  <2>1. RecordFits(k)' BY <1>1 DEF RecordFits, NoRecord
  <2>2. CallFits(Idle)' /\ ~Preparing(Idle)
    BY DEF CallFits, Preparing, Watching, Idle
  <2>3. \A g \in Handler \ {h} : hs[g].pc # "idle" /\ hs[g].key = k
                                   => CallFits(hs[g])'
    BY <1>5, <1>6, StepFrame DEF CallFits, Preparing, Watching
  <2>4. \A j \in Key, n \in 0..MaxNonce :
          TxUses(j, n)' \/ LockUses(j, n)' => TxUses(j, n) \/ LockUses(j, n)
    BY <1>2, <1>6 DEF TxUses
  <2>. QED BY <1>1, <1>2, <1>4, <1>6, <2>1, <2>2, <2>3, <2>4, RecordMoves
<1>8. P!Withdraw(k)
  <2>1. PhaseOf(k) = "prepared" /\ PhaseOf(k)' = "absent"
    BY <1>1, <1>3 DEF PhaseOf, NoRecord
  <2>2. AnswerOf(k) = "none" /\ AnswerOf(k)' = "none"
    BY <1>1, <1>3 DEF AnswerOf, NoRecord
  <2>3. rec'[k].fee = 0 BY <1>1 DEF NoRecord
  <2>4. credit' = [credit EXCEPT ![k.seller] = @ + rec[k].fee]
    BY <1>3 DEF Abandon
  <2>5. [j \in Key |-> PhaseOf(j)]'
          = [[j \in Key |-> PhaseOf(j)] EXCEPT ![k] = "absent"]
    BY <1>1, <1>2, <2>1, OnePaymentMoves
  <2>6. [j \in Key |-> rec[j].fee]' = [[j \in Key |-> rec[j].fee] EXCEPT ![k] = 0]
    <3>1. [j \in Key |-> rec[j].fee]'
            = [[j \in Key |-> rec[j].fee] EXCEPT ![k] = rec'[k].fee]
      BY <1>1, <1>2, OnePaymentMoves
    <3>. QED BY <2>3, <3>1
  <2>7. /\ [j \in Key |-> OutcomeOf(j)]' = [j \in Key |-> OutcomeOf(j)]
        /\ [j \in Key |-> AnswerOf(j)]' = [j \in Key |-> AnswerOf(j)]
    BY <1>1, <1>2, <2>2, OnePaymentMoves
  <2>8. /\ [j \in Key |-> PhaseOf(j)][k] = PhaseOf(k)
        /\ [j \in Key |-> rec[j].fee][k] = rec[k].fee
        /\ [j \in Key |-> j.seller][k] = k.seller
    OBVIOUS
  <2>. QED BY <2>1, <2>4, <2>5, <2>6, <2>7, <2>8 DEF P!Withdraw
<1>. QED BY <1>7, <1>8 DEF P!Next, P!PayStep

(* A transaction was handed to a node, or may have been, or is still        *)
(* awaited: the broadcast is journaled.                                     *)
LEMMA BroadcastMoves ==
  ASSUME TypeOK, PayInv, NEW h \in Handler, NEW c, NEW g \in Gas \cup {0},
         NEW k \in Key, hs[h].key = k, NEW m, hs[h].nonce = m,
         hs[h].pc \in {"send", "resend", "confirm"},
         RecordBroadcast(h, g), Step(h, c), ~Preparing(c),
         Watching(c) => c.key = k /\ c.nonce = m,
         sent' = sent \/ \E p \in Gas : sent' = sent \cup {Signed(h, p)},
         mined' = mined, chainNonce' = chainNonce, ledger' = ledger
  PROVE  PayInv' /\ P!Next
<1>. hs[h].fee \in Nat /\ m \in 0..MaxNonce /\ m # -1
  BY CallFacts, AmountAssumption
<1>0. /\ Preparing(hs[h]) <=> hs[h].pc = "send"
      /\ Watching(hs[h]) <=> hs[h].pc # "send"
  BY DEF Preparing, Watching
<1>1. rec[k].status # "none" /\ (hs[h].pc # "send" => CommittedAt(k, m))
  BY <1>0 DEF PayInv, CallsFit, CallFits, CommittedAt
<1>2. /\ rec'[k] = [status |-> "broadcast", nonce |-> m, gas |-> g,
                    fee |-> rec[k].fee]
      /\ \A j \in Key \ {k} : rec'[j] = rec[j]
  BY <1>1 DEF RecordBroadcast, Inserted, TypeOK
<1>3. CommittedAt(k, m)' BY <1>2 DEF CommittedAt
<1>4. \A n \in 0..MaxNonce : TxUses(k, n) \/ LockUses(k, n) => n = m
  BY <1>0, <1>1 DEF PayInv, CallsFit, CallFits, UsesFit, CommittedAt
<1>5. \A i \in Handler \ {h} : hs[i].key = k =>
        ~Preparing(hs[i]) /\ (Watching(hs[i]) => hs[i].nonce = m)
  BY <1>0, <1>1 DEF PayInv, CallsFit, CallFits, CommittedAt, PreparesAlone
<1>6. PayInv'
  <2>1. RecordFits(k)' BY <1>2 DEF RecordFits
  <2>2. CallFits(c)' BY <1>3 DEF CallFits
  <2>3. \A i \in Handler \ {h} : hs[i].pc # "idle" /\ hs[i].key = k
                                   => CallFits(hs[i])'
    BY <1>3, <1>5, StepFrame DEF CallFits, Preparing, Watching
  <2>4. \A j \in Key, n \in 0..MaxNonce :
          TxUses(j, n)' => TxUses(j, n) \/ (j = k /\ n = m)
    BY DEF TxUses, Signed
  <2>5. \A j \in Key, n \in 0..MaxNonce :
          LockUses(j, n)' => LockUses(j, n) \/ (j = k /\ n = m)
    BY LockBroadcast DEF RecordBroadcast
  <2>6. sent \subseteq sent' OBVIOUS
  <2>. QED BY <1>2, <1>3, <1>4, <2>1, <2>2, <2>3, <2>4, <2>5, <2>6, RecordMoves
<1>7. /\ rec'[k].fee = rec[k].fee
      /\ PhaseOf(k)' = "committed" /\ AnswerOf(k)' = "pending"
      /\ [j \in Key |-> PhaseOf(j)][k] = PhaseOf(k)
  BY <1>2 DEF PhaseOf, AnswerOf
<1>8. /\ [j \in Key |-> PhaseOf(j)]'
           = [[j \in Key |-> PhaseOf(j)] EXCEPT ![k] = "committed"]
      /\ [j \in Key |-> AnswerOf(j)]'
           = [[j \in Key |-> AnswerOf(j)] EXCEPT ![k] = "pending"]
      /\ [j \in Key |-> rec[j].fee]' = [j \in Key |-> rec[j].fee]
      /\ [j \in Key |-> OutcomeOf(j)]' = [j \in Key |-> OutcomeOf(j)]
  <2>. QED BY <1>2, <1>7, OnePaymentMoves
<1>9. CASE hs[h].pc = "send"
  <2>1. PhaseOf(k) = "prepared"
    BY <1>0, <1>9 DEF PayInv, CallsFit, CallFits, PhaseOf
  <2>2. P!Commit(k) BY <1>7, <1>8, <2>1 DEF P!Commit, ledger
  <2>. QED BY <1>6, <2>2 DEF P!Next, P!PayStep
<1>10. CASE hs[h].pc # "send"
  <2>1. PhaseOf(k) = "committed" BY <1>1, <1>10 DEF PhaseOf, CommittedAt
  <2>2. [j \in Key |-> PhaseOf(j)]' = [j \in Key |-> PhaseOf(j)]
    BY <1>8, <2>1
  <2>3. P!Report(k, "pending")
    BY <1>7, <1>8, <2>1, <2>2 DEF P!Report, ledger
  <2>. QED BY <1>6, <2>3 DEF P!Next, P!PayStep
<1>. QED BY <1>9, <1>10

(* What the chain decided of a payment that is committed.                   *)
LEMMA DecidedOnce ==
  ASSUME TypeOK, PayInv, NEW m \in mined
  PROVE  /\ m.tx.key \in Key /\ CommittedAt(m.tx.key, m.tx.nonce)
         /\ \A n \in mined : n.tx.key = m.tx.key => n = m
<1>1. \A n \in mined : /\ n.tx.key \in Key /\ n.tx.nonce \in 0..MaxNonce
                        /\ TxUses(n.tx.key, n.tx.nonce)
  BY DEF PayInv, MinedOnce, TypeOK, Tx, TxUses
<1>2. \A n \in mined : CommittedAt(n.tx.key, n.tx.nonce)
  BY <1>1 DEF PayInv, UsesFit
<1>3. \A n \in mined : n.tx.key = m.tx.key => n.tx.nonce = m.tx.nonce
  BY <1>2 DEF CommittedAt
<1>. QED BY <1>1, <1>2, <1>3 DEF PayInv, MinedOnce

LEMMA OutcomeTold ==
  ASSUME TypeOK, PayInv, NEW k \in Key
  PROVE  /\ Paid(k) => OutcomeOf(k) = "paid"
         /\ Refused(k) => OutcomeOf(k) = "refused" /\ ~Paid(k)
<1>1. Refused(k) => ~Paid(k) /\ Executed(k)
  BY DecidedOnce DEF Refused, Paid, Executed
<1>. QED BY <1>1 DEF OutcomeOf

(* A receipt ends a payment.                                                *)
LEMMA ReceiptMoves ==
  ASSUME TypeOK, PayInv, NEW h \in Handler, NEW k \in Key, hs[h].key = k,
         NEW m, hs[h].nonce = m, ReceiptSettled(h) \/ ReceiptFailed(h)
  PROVE  PayInv' /\ P!Next
<1>0. Watching(hs[h]) /\ hs[h].pc # "idle"
  BY DEF ReceiptSettled, ReceiptFailed, Watching
<1>. m \in -1..MaxNonce /\ hs[h].gas \in Gas \cup {0} /\ hs[h].fee \in Nat
  BY <1>0, CallFacts
<1>1. CommittedAt(k, m) /\ m # -1 BY <1>0 DEF PayInv, CallsFit, CallFits
<1>. DEFINE a == IF ReceiptSettled(h) THEN "paid" ELSE "refused"
            st == IF ReceiptSettled(h) THEN "settled" ELSE "failed"
<1>2. /\ rec'[k] = [status |-> st, nonce |-> m, gas |-> hs[h].gas,
                    fee |-> rec[k].fee]
      /\ \A j \in Key \ {k} : rec'[j] = rec[j]
  BY <1>1 DEF ReceiptSettled, ReceiptFailed, Inserted, TypeOK, CommittedAt
<1>3. /\ sent' = sent /\ mined' = mined /\ chainNonce' = chainNonce
      /\ Step(h, Idle) /\ lock' = ReleasedByKey(k)
  BY DEF ReceiptSettled, ReceiptFailed, chain
<1>4. /\ ReceiptSettled(h) => Paid(k)
      /\ ReceiptFailed(h) => Refused(k)
  BY DEF ReceiptSettled, ReceiptFailed, Receipt, Awaited, Paid, Refused
<1>5. \A i \in Handler \ {h} : hs[i].key = k =>
        ~Preparing(hs[i]) /\ (Watching(hs[i]) => hs[i].nonce = m)
  BY <1>1 DEF PayInv, CallsFit, CallFits, CommittedAt
<1>6. PayInv'
  <2>1. RecordFits(k)'
    <3>1. CASE ReceiptSettled(h)
      BY <1>1, <1>2, <1>3, <1>4, <3>1 DEF RecordFits, Paid
    <3>2. CASE ~ReceiptSettled(h)
      BY <1>1, <1>2, <1>3, <1>4, <3>2 DEF RecordFits, Refused
    <3>. QED BY <3>1, <3>2
  <2>2. CallFits(Idle)' /\ ~Preparing(Idle)
    BY DEF CallFits, Preparing, Watching, Idle
  <2>3. CommittedAt(k, m)' BY <1>2 DEF CommittedAt
  <2>4. \A i \in Handler \ {h} : hs[i].pc # "idle" /\ hs[i].key = k
                                   => CallFits(hs[i])'
    BY <1>1, <1>3, <1>5, <2>3, StepFrame DEF CallFits, Preparing, Watching
  <2>5. \A j \in Key, n \in 0..MaxNonce :
          TxUses(j, n)' \/ LockUses(j, n)' => TxUses(j, n) \/ LockUses(j, n)
    BY <1>3, LockShrinks DEF TxUses
  <2>6. \A n \in 0..MaxNonce : TxUses(k, n) \/ LockUses(k, n) => n = m
    BY <1>1 DEF PayInv, UsesFit, CommittedAt
  <2>7. \A n \in 0..MaxNonce : TxUses(k, n) \/ LockUses(k, n) => CommittedAt(k, n)'
    BY <2>3, <2>6
  <2>. QED BY <1>2, <1>3, <2>1, <2>2, <2>4, <2>5, <2>7, RecordMoves
<1>7. P!Report(k, a)
  <2>1. PhaseOf(k) = "committed" /\ PhaseOf(k)' = "committed"
    BY <1>1, <1>2 DEF PhaseOf, CommittedAt
  <2>2. AnswerOf(k)' = a BY <1>1, <1>2 DEF AnswerOf
  <2>3. OutcomeOf(k) = a BY <1>4, OutcomeTold
  <2>4. rec'[k].fee = rec[k].fee BY <1>2
  <2>. HIDE DEF st
  <2>5. /\ [j \in Key |-> AnswerOf(j)]'
            = [[j \in Key |-> AnswerOf(j)] EXCEPT ![k] = a]
        /\ [j \in Key |-> rec[j].fee]' = [j \in Key |-> rec[j].fee]
        /\ [j \in Key |-> OutcomeOf(j)]' = [j \in Key |-> OutcomeOf(j)]
    BY <1>2, <1>3, <2>2, <2>4, OnePaymentMoves
  <2>6. [j \in Key |-> PhaseOf(j)]' = [j \in Key |-> PhaseOf(j)]
    BY <1>2, <1>3, <2>1, OnePaymentMoves
  <2>7. /\ [j \in Key |-> PhaseOf(j)][k] = PhaseOf(k)
        /\ [j \in Key |-> OutcomeOf(j)][k] = OutcomeOf(k)
        /\ [j \in Key |-> j.seller][k] = k.seller
        /\ k \in {j \in Key : j.kind = "credit"} \ credited
             <=> k.kind = "credit" /\ k \notin credited
    OBVIOUS
  <2>8. CASE ReceiptSettled(h)
    BY <2>1, <2>3, <2>5, <2>6, <2>7, <2>8
    DEF P!Report, ReceiptSettled, CreditOnce, ledger
  <2>9. CASE ~ReceiptSettled(h)
    BY <2>1, <2>3, <2>5, <2>6, <2>7, <2>9 DEF P!Report, ReceiptFailed, ledger
  <2>. QED BY <2>8, <2>9
<1>. QED BY <1>6, <1>7 DEF P!Next, P!PayStep

(* A replay of a finished payment: a purchase is credited if it was not.    *)
LEMMA ReplayMoves ==
  ASSUME TypeOK, PayInv, NEW k \in Key, ReplayCached(k)
  PROVE  PayInv' /\ [P!Next]_(P!paymentVars)
<1>1. /\ rec' = rec /\ hs' = hs /\ lock' = lock /\ sent' = sent
      /\ mined' = mined /\ chainNonce' = chainNonce
  BY DEF ReplayCached, chain
<1>2. PayInv' BY <1>1, NothingMoves DEF LockUses
<1>3. CASE ledger' = ledger BY <1>1, <1>2, <1>3, NoPaymentMoves
<1>4. CASE ledger' # ledger
  <2>1. rec[k].status = "settled" /\ k.kind = "credit" /\ k \notin credited
    BY <1>4 DEF ReplayCached, CreditOnce, ledger
  <2>2. /\ credited' = credited \cup {k}
        /\ credit' = [credit EXCEPT ![k.seller] = @ + TopUp]
    BY <2>1 DEF ReplayCached, CreditOnce
  <2>3. rec[k].nonce # -1 /\ Paid(k)
    BY <2>1 DEF PayInv, RecordsFit, RecordFits
  <2>4. PhaseOf(k) = "committed" /\ AnswerOf(k) = "paid"
    BY <2>1, <2>3 DEF PhaseOf, AnswerOf
  <2>5. OutcomeOf(k) = "paid" BY <2>3, OutcomeTold
  <2>6. /\ [j \in Key |-> PhaseOf(j)]' = [j \in Key |-> PhaseOf(j)]
        /\ [j \in Key |-> rec[j].fee]' = [j \in Key |-> rec[j].fee]
        /\ [j \in Key |-> OutcomeOf(j)]' = [j \in Key |-> OutcomeOf(j)]
        /\ [j \in Key |-> AnswerOf(j)]' = [j \in Key |-> AnswerOf(j)]
    BY <1>1, RecordsStay
  <2>7. /\ [j \in Key |-> PhaseOf(j)][k] = PhaseOf(k)
        /\ [j \in Key |-> OutcomeOf(j)][k] = OutcomeOf(k)
        /\ [j \in Key |-> AnswerOf(j)][k] = AnswerOf(k)
        /\ [j \in Key |-> j.seller][k] = k.seller
        /\ k \in {j \in Key : j.kind = "credit"} \ credited
    BY <2>1
  <2>8. P!Report(k, "paid")
    BY <2>2, <2>4, <2>5, <2>6, <2>7 DEF P!Report
  <2>. QED BY <1>2, <2>8 DEF P!Next, P!PayStep
<1>. QED BY <1>3, <1>4

(* A transaction executes.                                                  *)
LEMMA MineMoves ==
  ASSUME TypeOK, PayInv, NEW tx \in sent, NEW ok \in BOOLEAN, Mine(tx, ok)
  PROVE  PayInv' /\ P!Next
<1>. DEFINE r == [tx |-> tx, ok |-> ok]
<1>0. PICK k \in Key : k = tx.key BY DEF TypeOK, Tx
<1>1. /\ rec' = rec /\ hs' = hs /\ lock' = lock /\ sent' = sent
      /\ mined' = mined \cup {r} /\ chainNonce' = chainNonce + 1
      /\ ledger' = ledger /\ tx.nonce = chainNonce
  BY DEF Mine
<1>2. tx.nonce \in 0..MaxNonce /\ CommittedAt(k, tx.nonce)
  BY <1>0 DEF TypeOK, Tx, PayInv, UsesFit, TxUses
<1>3. ~Executed(k)
  <2>. SUFFICES ASSUME NEW m \in mined, m.tx.key = k PROVE FALSE BY DEF Executed
  <2>1. CommittedAt(k, m.tx.nonce) BY DecidedOnce
  <2>2. m.tx.nonce = chainNonce BY <1>1, <1>2, <2>1 DEF CommittedAt
  <2>. QED BY <1>1, <1>2, <2>2 DEF PayInv, MinedOnce
<1>4. /\ \A j \in Key \ {k} : (Paid(j)' <=> Paid(j)) /\ (Executed(j)' <=> Executed(j))
      /\ \A j \in Key : (Paid(j) => Paid(j)') /\ (Refused(j) => Refused(j)')
      /\ Executed(k)' /\ (Paid(k)' <=> ok)
  <2>1. \A m \in mined' : m \in mined \/ m = r BY <1>1
  <2>2. mined \subseteq mined' /\ r \in mined' BY <1>1
  <2>3. r.tx.key = k /\ (r.ok <=> ok) BY <1>0
  <2>. HIDE DEF r
  <2>4. \A j \in Key \ {k} : (Paid(j)' <=> Paid(j)) /\ (Executed(j)' <=> Executed(j))
    BY <2>1, <2>2, <2>3 DEF Paid, Executed
  <2>5. \A j \in Key : (Paid(j) => Paid(j)') /\ (Refused(j) => Refused(j)')
    BY <2>2 DEF Paid, Refused
  <2>6. Executed(k)' /\ (Paid(k)' <=> ok)
    BY <1>3, <2>1, <2>2, <2>3 DEF Paid, Executed
  <2>. QED BY <2>4, <2>5, <2>6
<1>5. PayInv'
  <2>1. CallsFit' BY <1>1 DEF PayInv, CallsFit, CallFits, CommittedAt, Watching, Preparing
  <2>2. PreparesAlone' BY <1>1 DEF PayInv, PreparesAlone, Preparing
  <2>3. UsesFit' BY <1>1 DEF PayInv, UsesFit, TxUses, LockUses, CommittedAt
  <2>4. RecordsFit' BY <1>1, <1>4 DEF PayInv, RecordsFit, RecordFits
  <2>5. MinedOnce'
    <3>1. \A m \in mined : m.tx.nonce < chainNonce /\ m.tx \in sent
                           /\ m.tx.nonce \in Nat
      BY AmountAssumption DEF PayInv, MinedOnce, TypeOK, Tx
    <3>2. chainNonce \in Nat BY <1>1, <1>2, AmountAssumption
    <3>. QED BY <1>1, <3>1, <3>2 DEF PayInv, MinedOnce
  <2>. QED BY <2>1, <2>2, <2>3, <2>4, <2>5 DEF PayInv
<1>6. PICK v \in {"paid", "refused"} : v = (IF ok THEN "paid" ELSE "refused")
  OBVIOUS
<1>7. P!Decide(k, v)
  <2>1. PhaseOf(k) = "committed" BY <1>2, AmountAssumption DEF PhaseOf, CommittedAt
  <2>2. OutcomeOf(k) = "none" BY <1>3 DEF OutcomeOf, Paid, Executed
  <2>3. OutcomeOf(k)' = v BY <1>4, <1>6 DEF OutcomeOf
  <2>4. \A j \in Key \ {k} : OutcomeOf(j)' = OutcomeOf(j) BY <1>4 DEF OutcomeOf
  <2>5. [j \in Key |-> OutcomeOf(j)]'
          = [[j \in Key |-> OutcomeOf(j)] EXCEPT ![k] = v]
    BY <2>3, <2>4
  <2>6. \A j \in Key : PhaseOf(j)' = PhaseOf(j) /\ AnswerOf(j)' = AnswerOf(j)
    BY <1>1 DEF PhaseOf, AnswerOf
  <2>7. /\ [j \in Key |-> PhaseOf(j)]' = [j \in Key |-> PhaseOf(j)]
        /\ [j \in Key |-> AnswerOf(j)]' = [j \in Key |-> AnswerOf(j)]
        /\ [j \in Key |-> rec[j].fee]' = [j \in Key |-> rec[j].fee]
    BY <1>1, <2>6
  <2>8. /\ [j \in Key |-> PhaseOf(j)][k] = PhaseOf(k)
        /\ [j \in Key |-> OutcomeOf(j)][k] = OutcomeOf(k)
    OBVIOUS
  <2>. QED BY <1>1, <2>1, <2>2, <2>5, <2>7, <2>8 DEF P!Decide, ledger
<1>. QED BY <1>5, <1>7 DEF P!Next, P!PayStep

-----------------------------------------------------------------------------
(* The actions, and the theorems.                                           *)

(* A step of one call that touches no record and no balance, and after      *)
(* which the call prepares nothing new.                                     *)
LEMMA CallStutters ==
  ASSUME TypeOK, PayInv, NEW h \in Handler, NEW c, Step(h, c), CallFits(c),
         Preparing(c) => Preparing(hs[h]) /\ hs[h].key = c.key,
         rec' = rec, ledger' = ledger, chain' = chain,
         \A k \in Key, n \in 0..MaxNonce : LockUses(k, n)' => LockUses(k, n)
  PROVE  PayInv' /\ [P!Next]_(P!paymentVars)
<1>1. sent' = sent /\ mined' = mined /\ chainNonce' = chainNonce BY DEF chain
<1>2. PayInv' BY <1>1, CallMoves
<1>. QED BY <1>1, <1>2, NoPaymentMoves

LEMMA IdleFits == CallFits(Idle) /\ ~Preparing(Idle) /\ ~Watching(Idle)
BY DEF CallFits, Preparing, Watching, Idle

(* A call that follows a broadcast record fits.                             *)
LEMMA RefreshFits ==
  ASSUME PayInv, NEW k \in Key, rec[k].status = "broadcast"
  PROVE  LET c == Call("refresh", k, 0, rec[k].nonce, rec[k].gas)
         IN  CallFits(c) /\ ~Preparing(c)
BY DEF PayInv, RecordsFit, RecordFits, CallFits, Preparing, Watching,
       CommittedAt, Call

LEMMA SubmitMoves ==
  ASSUME TypeOK, PayInv, NEW h \in Handler, Submit(h)
  PROVE  PayInv' /\ [P!Next]_(P!paymentVars)
<1>1. ASSUME NEW r \in Request, NEW f \in Fee, Settle(h, r, f)
      PROVE  PayInv' /\ P!Next
  <2>. r \in Key BY DEF Key
  <2>1. \A k \in Key, n \in 0..MaxNonce : LockUses(k, n)' => LockUses(k, n)
    BY <1>1, LockShrinks DEF Settle
  <2>2. r.kind # "credit" BY <1>1 DEF Settle
  <2>. QED BY <1>1, <2>1, <2>2, StartMoves DEF Settle
<1>2. ASSUME NEW r \in Request, BuyCredit(h, r) PROVE PayInv' /\ P!Next
  <2>. r \in Key /\ r.seller \in Seller BY KeyFacts DEF Key
  <2>1. \A k \in Key, n \in 0..MaxNonce : LockUses(k, n)' => LockUses(k, n)
    BY <1>2, LockShrinks DEF BuyCredit
  <2>2. /\ HasCredit(r.seller, 0) /\ credited' = credited
        /\ credit' = [credit EXCEPT ![r.seller] = @ - 0]
    BY <1>2 DEF BuyCredit, HasCredit, ledger, TypeOK
  <2>. QED BY <1>2, <2>1, <2>2, StartMoves DEF BuyCredit
<1>3. ASSUME NEW r \in Request, NEW f \in Fee, BatchSettle(h, r, f)
      PROVE  PayInv' /\ [P!Next]_(P!paymentVars)
  <2>. r \in Key BY DEF Key
  <2>1. \A k \in Key, n \in 0..MaxNonce : LockUses(k, n)' => LockUses(k, n)
    BY <1>3, LockShrinks DEF BatchSettle
  <2>2. PICK c : c = Call("receiver", r, f, -1, 0) OBVIOUS
  <2>3. CallFits(c) /\ ~Preparing(c)
    BY <2>2 DEF CallFits, Preparing, Watching, Call
  <2>. QED BY <1>3, <2>1, <2>2, <2>3, CallStutters DEF BatchSettle
<1>4. ASSUME NEW k \in Key, Replay(h, k)
      PROVE  PayInv' /\ [P!Next]_(P!paymentVars)
  <2>1. PICK c : c = Call("refresh", k, 0, rec[k].nonce, rec[k].gas) OBVIOUS
  <2>2. CallFits(c) /\ ~Preparing(c) BY <1>4, <2>1, RefreshFits DEF Replay
  <2>3. \A j \in Key, n \in 0..MaxNonce : LockUses(j, n)' => LockUses(j, n)
    BY <1>4 DEF Replay, LockUses
  <2>. QED BY <1>4, <2>1, <2>2, <2>3, CallStutters DEF Replay
<1>. QED BY <1>1, <1>2, <1>3, <1>4 DEF Submit

(* A batch settle keeps the fee it was quoted while it reads the receiver.  *)
QuotedFee ==
  \A h \in Handler : hs[h].pc \in {"receiver", "receiverRead"} => hs[h].fee \in Fee

LEMMA QuotedFeeStays ==
  ASSUME TypeOK, QuotedFee, [Next]_vars PROVE QuotedFee'
<1>1. ASSUME NEW h \in Handler, NEW c, Step(h, c),
             c.pc \in {"receiver", "receiverRead"} => c.fee \in Fee
      PROVE  QuotedFee'
  BY <1>1, StepFrame DEF QuotedFee
<1>2. CASE \E h \in Handler : Submit(h)
  <2>. PICK h \in Handler : Submit(h) BY <1>2
  <2>. QED BY <1>1 DEF Submit, Settle, BuyCredit, BatchSettle, Replay, Call
<1>3. CASE \E h \in Handler : Resume(h)
  <2>. PICK h \in Handler : Resume(h) BY <1>3
  <2>. hs[h] \in CallState BY DEF TypeOK
  <2>1. CASE \E n \in 0..MaxNonce : ReserveNonce(h, n) \/ Replace(h, n)
    BY <1>1, <2>1 DEF ReserveNonce, Replace, CallState
  <2>2. CASE \E g \in Gas : SendOk(h, g) \/ SendAmbiguous(h, g)
    BY <1>1, <2>2 DEF SendOk, SendAmbiguous, Idle, CallState
  <2>3. CASE TargetCached(h) \/ TargetReserve(h)
    BY <1>1, <2>3 DEF TargetCached, TargetReserve, Idle, Call
  <2>4. CASE Step(h, Idle) BY <1>1, <2>4 DEF Idle
  <2>. QED BY <2>1, <2>2, <2>3, <2>4
       DEF Resume, ReceiverError, TargetNoop, TargetRefuse, NonceError,
           SendFailed, Abandon, ResendFailed, ReceiptSettled, ReceiptFailed,
           ConfirmPending, RefreshKeep
<1>4. CASE \E h \in Handler : ReadReceiver(h)
  <2>. PICK h \in Handler : ReadReceiver(h) BY <1>4
  <2>. hs[h] \in CallState BY DEF TypeOK
  <2>. QED BY <1>1 DEF ReadReceiver, QuotedFee, CallState
<1>5. CASE \E h \in Handler : Trap(h)
  BY <1>1, <1>5 DEF Trap, Idle
<1>6. CASE hs' = hs BY <1>6 DEF QuotedFee
<1>. QED BY <1>2, <1>3, <1>4, <1>5, <1>6
     DEF Next, Environment, Refuse, ReplayCached, Recover, Mine, ClaimOnChain, vars

LEMMA TargetMoves ==
  ASSUME TypeOK, PayInv, QuotedFee, NEW h \in Handler,
         \/ ReadReceiver(h) \/ ReceiverError(h) \/ TargetCached(h)
         \/ TargetNoop(h) \/ TargetReserve(h) \/ TargetRefuse(h)
  PROVE  PayInv' /\ [P!Next]_(P!paymentVars)
<1>0. /\ hs[h].key \in Key /\ hs[h].fee \in Nat /\ hs[h] \in CallState
      /\ hs[h].pc \in {"receiver", "receiverRead"}
  BY CallFacts DEF ReadReceiver, ReceiverError, TargetCached, TargetNoop,
     TargetReserve, TargetRefuse, TypeOK
<1>1. PICK k \in Key : k = TargetOf(h) BY <1>0, CallFacts
<1>2. k.kind = "target" BY <1>1 DEF TargetOf, Target
<1>3. \A j \in Key, n \in 0..MaxNonce : LockUses(j, n)' => LockUses(j, n)
  BY <1>0, <1>1, LockShrinks DEF ReadReceiver, ReceiverError, TargetCached,
     TargetNoop, TargetReserve, TargetRefuse
<1>4. CASE ReadReceiver(h)
  <2>1. PICK c : /\ Step(h, c) /\ c.pc = "receiverRead"
    <3>. DEFINE s == hs[h].key.seller
                c == [hs[h] EXCEPT !.pc = "receiverRead",
                        !.seen = [claimed |-> claimed[s], settled |-> paidOut[s]]]
    <3>1. Step(h, c) BY <1>4 DEF ReadReceiver
    <3>2. c.pc = "receiverRead" BY <1>0 DEF CallState
    <3>. QED BY <3>1, <3>2
  <2>2. CallFits(c) /\ ~Preparing(c) BY <2>1 DEF CallFits, Preparing, Watching
  <2>. QED BY <1>3, <1>4, <2>1, <2>2, CallStutters DEF ReadReceiver
<1>5. CASE ReceiverError(h) \/ TargetRefuse(h)
  BY <1>3, <1>5, CallStutters, IdleFits DEF ReceiverError, TargetRefuse
<1>6. CASE TargetCached(h)
  <2>1. PICK c : c = IF rec[k].status = "broadcast"
                     THEN Call("refresh", k, 0, rec[k].nonce, rec[k].gas)
                     ELSE Idle
    OBVIOUS
  <2>2. CallFits(c) /\ ~Preparing(c) BY <2>1, RefreshFits, IdleFits
  <2>3. Step(h, c) BY <1>1, <1>6, <2>1 DEF TargetCached
  <2>. QED BY <1>3, <1>6, <2>2, <2>3, CallStutters DEF TargetCached
<1>7. CASE TargetNoop(h)
  BY <1>1, <1>2, <1>3, <1>7, NoopMoves DEF TargetNoop
<1>8. CASE TargetReserve(h)
  <2>1. PICK f \in Fee : f = hs[h].fee BY <1>0 DEF QuotedFee
  <2>. QED BY <1>1, <1>2, <1>3, <1>8, <2>1, StartMoves DEF TargetReserve
<1>. QED BY <1>4, <1>5, <1>6, <1>7, <1>8

LEMMA CallEndMoves ==
  ASSUME TypeOK, PayInv, NEW h \in Handler,
         \/ \E n \in 0..MaxNonce : ReserveNonce(h, n) \/ Replace(h, n)
         \/ NonceError(h) \/ SendFailed(h) \/ ResendFailed(h)
         \/ \E g \in Gas : SendOk(h, g) \/ SendAmbiguous(h, g)
         \/ ReceiptSettled(h) \/ ReceiptFailed(h) \/ ConfirmPending(h)
         \/ RefreshKeep(h)
  PROVE  PayInv' /\ [P!Next]_(P!paymentVars)
<1>0. hs[h].pc # "idle"
  BY DEF ReserveNonce, Replace, NonceError, SendFailed, ResendFailed, SendOk,
     SendAmbiguous, ReceiptSettled, ReceiptFailed, ConfirmPending, RefreshKeep
<1>1. PICK k \in Key : k = hs[h].key BY <1>0, CallFacts
<1>2. PICK m : m = hs[h].nonce OBVIOUS
<1>. hs[h] \in CallState BY DEF TypeOK
<1>3. ASSUME NEW n \in 0..MaxNonce, ReserveNonce(h, n)
      PROVE  PayInv' /\ [P!Next]_(P!paymentVars)
  <2>1. PICK c : c = [hs[h] EXCEPT !.pc = "send", !.nonce = Larger(nextNonce, n)]
    OBVIOUS
  <2>2. /\ c.pc = "send" /\ c.key = hs[h].key /\ c.fee = hs[h].fee
        /\ Preparing(hs[h]) /\ CallFits(hs[h])
    BY <1>3, <2>1 DEF CallState, ReserveNonce, Preparing, PayInv, CallsFit
  <2>3. CallFits(c) BY <2>2 DEF CallFits, Preparing, Watching
  <2>4. \A j \in Key, i \in 0..MaxNonce : LockUses(j, i)' => LockUses(j, i)
    BY <1>3 DEF ReserveNonce, LockUses
  <2>. QED BY <1>3, <2>1, <2>2, <2>3, <2>4, CallStutters DEF ReserveNonce
<1>4. ASSUME NEW n \in 0..MaxNonce, Replace(h, n)
      PROVE  PayInv' /\ [P!Next]_(P!paymentVars)
  <2>1. PICK c : c = [hs[h] EXCEPT !.pc = "resend", !.nonce = n] OBVIOUS
  <2>2. c.pc = "resend" /\ c.key = k /\ c.nonce = n
    BY <1>1, <2>1 DEF CallState
  <2>3. LockUses(k, n) BY <1>1, <1>4 DEF Replace, HasActiveNonce, LockUses
  <2>4. CallFits(c) /\ ~Preparing(c)
    BY <2>2, <2>3, <1>4 DEF PayInv, UsesFit, CallFits, Preparing, Watching, Replace
  <2>5. \A j \in Key, i \in 0..MaxNonce : LockUses(j, i)' => LockUses(j, i)
    BY <1>4 DEF Replace, LockUses
  <2>. QED BY <1>4, <2>1, <2>4, <2>5, CallStutters DEF Replace
<1>5. CASE NonceError(h) \/ SendFailed(h)
  <2>1. Preparing(hs[h]) BY <1>5 DEF NonceError, SendFailed, Preparing
  <2>. QED BY <1>1, <1>5, <2>1, AbandonMoves DEF NonceError, SendFailed
<1>6. CASE ResendFailed(h) \/ RefreshKeep(h)
  <2>1. \A j \in Key, i \in 0..MaxNonce : LockUses(j, i)' => LockUses(j, i)
    BY <1>6 DEF ResendFailed, RefreshKeep, LockUses
  <2>. QED BY <1>6, <2>1, IdleFits, CallStutters DEF ResendFailed, RefreshKeep
<1>7. ASSUME NEW g \in Gas, SendOk(h, g) PROVE PayInv' /\ P!Next
  <2>1. PICK c : c = [hs[h] EXCEPT !.pc = "confirm", !.gas = g] OBVIOUS
  <2>2. c.pc = "confirm" /\ c.key = k /\ c.nonce = m
    BY <1>1, <1>2, <2>1 DEF CallState
  <2>3. ~Preparing(c) BY <2>2 DEF Preparing
  <2>. QED BY <1>1, <1>2, <1>7, <2>1, <2>2, <2>3, BroadcastMoves DEF SendOk
<1>8. ASSUME NEW g \in Gas, SendAmbiguous(h, g) PROVE PayInv' /\ P!Next
  BY <1>1, <1>2, <1>8, IdleFits, BroadcastMoves DEF SendAmbiguous
<1>9. CASE ReceiptSettled(h) \/ ReceiptFailed(h)
  BY <1>1, <1>2, <1>9, ReceiptMoves
<1>10. CASE ConfirmPending(h)
  <2>1. PICK g \in Gas \cup {0} : g = hs[h].gas BY <1>0, CallFacts
  <2>. QED BY <1>1, <1>2, <1>10, <2>1, IdleFits, BroadcastMoves
       DEF ConfirmPending, chain
<1>. QED BY <1>3, <1>4, <1>5, <1>6, <1>7, <1>8, <1>9, <1>10

LEMMA OutsideMoves ==
  ASSUME TypeOK, PayInv, (\E r \in Request : Refuse(r))
                         \/ \E s \in Seller : ClaimOnChain(s)
  PROVE  PayInv' /\ [P!Next]_(P!paymentVars)
<1>1. /\ rec' = rec /\ hs' = hs /\ sent' = sent /\ mined' = mined
      /\ chainNonce' = chainNonce /\ ledger' = ledger
  BY DEF Refuse, ClaimOnChain, chain
<1>2. lock' = lock \/ \E r \in Key : lock' = Released(lock, r)
  BY DEF Refuse, ClaimOnChain, Key
<1>3. \A k \in Key, n \in 0..MaxNonce : LockUses(k, n)' => LockUses(k, n)
  BY <1>2, LockShrinks
<1>. QED BY <1>1, <1>3, NothingMoves, NoPaymentMoves

LEMMA StepMoves ==
  ASSUME AllowTraps = FALSE, TypeOK, PayInv, QuotedFee, [Next]_vars
  PROVE  PayInv' /\ [P!Next]_(P!paymentVars)
<1>1. CASE \E h \in Handler : Submit(h) BY <1>1, SubmitMoves
<1>2. CASE \E h \in Handler : Resume(h)
  BY <1>2, TargetMoves, CallEndMoves DEF Resume
<1>3. CASE \E r \in Request : Refuse(r) BY <1>3, OutsideMoves
<1>4. CASE \E k \in Key : ReplayCached(k) \/ Recover(k)
  BY <1>4, ReplayMoves DEF Recover
<1>5. CASE Environment
  BY <1>5, TargetMoves, MineMoves, OutsideMoves DEF Environment, Trap
<1>6. CASE UNCHANGED vars
  BY <1>6, NothingMoves, NoPaymentMoves DEF vars, chain, LockUses
<1>. QED BY <1>1, <1>2, <1>3, <1>4, <1>5, <1>6 DEF Next

LEMMA InitMoves == Init => QuotedFee /\ P!Init
<1>. SUFFICES ASSUME Init PROVE QuotedFee /\ P!Init OBVIOUS
<1>1. \A k \in Key : /\ PhaseOf(k) = "absent" /\ rec[k].fee = 0
                     /\ OutcomeOf(k) = "none" /\ AnswerOf(k) = "none"
  BY DEF Init, NoRecord, PhaseOf, OutcomeOf, AnswerOf, Paid, Executed
<1>. QED BY <1>1 DEF Init, Idle, QuotedFee, P!Init

(* Without interrupted calls, every reachable state satisfies PayInv.       *)
THEOREM PayInvariant == AllowTraps = FALSE => (Spec => [](PayInv /\ QuotedFee))
<1>. SUFFICES ASSUME AllowTraps = FALSE PROVE Spec => [](PayInv /\ QuotedFee)
  OBVIOUS
<1>1. Init => PayInv /\ QuotedFee BY InitPay, InitMoves
<1>2. TypeOK /\ PayInv /\ QuotedFee /\ [Next]_vars => (PayInv /\ QuotedFee)'
  BY StepMoves, QuotedFeeStays
<1>. QED BY <1>1, <1>2, TypeCorrect, PTL DEF Spec

(* The settlement engine implements Payment (settle_http,                   *)
(* batch_settle_http, settle_seller_credit_payment): however its calls,     *)
(* replays and replacements interleave, each payment is charged, sent,      *)
(* decided and reported as one.                                             *)
THEOREM EngineImplementsPayment == AllowTraps = FALSE => (Spec => ImplementsPayment)
<1>. SUFFICES ASSUME AllowTraps = FALSE PROVE Spec => ImplementsPayment
  OBVIOUS
<1>1. Init => P!Init BY InitMoves
<1>2. TypeOK /\ PayInv /\ QuotedFee /\ [Next]_vars => [P!Next]_(P!paymentVars)
  BY StepMoves
<1>. QED BY <1>1, <1>2, TypeCorrect, PayInvariant, PTL
     DEF Spec, ImplementsPayment, P!Spec

(* Nobody is told a result the chain did not decide: a settled record was   *)
(* paid, and a failed one was not, by any of its transactions.              *)
THEOREM RecordsTellTruth == AllowTraps = FALSE => (Spec => []RecordsAgreeWithChain)
<1>. SUFFICES ASSUME AllowTraps = FALSE PROVE Spec => []RecordsAgreeWithChain
  OBVIOUS
<1>1. TypeOK /\ PayInv => RecordsAgreeWithChain
  BY OutcomeTold DEF PayInv, RecordsFit, RecordFits, RecordsAgreeWithChain
<1>. QED BY <1>1, TypeCorrect, PayInvariant, PTL

(* However often a payment is replaced, it is signed for one nonce.         *)
THEOREM OneNonce == AllowTraps = FALSE => (Spec => []OneNoncePerKey)
<1>. SUFFICES ASSUME AllowTraps = FALSE PROVE Spec => []OneNoncePerKey
  OBVIOUS
<1>1. TypeOK /\ PayInv => OneNoncePerKey
  <2>. SUFFICES ASSUME TypeOK, PayInv, NEW t1 \in sent, NEW t2 \in sent,
                       t1.key = t2.key
                PROVE  t1.nonce = t2.nonce
    BY DEF OneNoncePerKey
  <2>1. /\ t1.key \in Key /\ t1.nonce \in 0..MaxNonce /\ t2.nonce \in 0..MaxNonce
        /\ TxUses(t1.key, t1.nonce) /\ TxUses(t1.key, t2.nonce)
    BY DEF TypeOK, Tx, TxUses
  <2>2. CommittedAt(t1.key, t1.nonce) /\ CommittedAt(t1.key, t2.nonce)
    BY <2>1 DEF PayInv, UsesFit
  <2>. QED BY <2>2 DEF CommittedAt
<1>. QED BY <1>1, TypeCorrect, PayInvariant, PTL

(* The fee comes back only when no transaction of the payment left: a       *)
(* refund is a Withdraw of Payment, and so precedes the broadcast.          *)
THEOREM RefundsUnsent == AllowTraps = FALSE => (Spec => RefundOnlyUnsent)
<1>. SUFFICES ASSUME AllowTraps = FALSE PROVE Spec => RefundOnlyUnsent
  OBVIOUS
<1>. DEFINE Refunds ==
       \A k \in Key : rec[k].status # "none" /\ rec'[k].status = "none"
                      => TxsOf(k) = {}
<1>1. TypeOK /\ PayInv /\ QuotedFee /\ [Next]_vars => [Refunds]_vars
  <2>. SUFFICES ASSUME TypeOK, PayInv, QuotedFee, [Next]_vars, NEW k \in Key,
                       rec[k].status # "none", rec'[k].status = "none"
                PROVE  TxsOf(k) = {}
    OBVIOUS
  <2>1. /\ [j \in Key |-> PhaseOf(j)][k] # "absent"
        /\ [j \in Key |-> PhaseOf(j)]'[k] = "absent"
    BY DEF PhaseOf
  <2>2. [P!Next]_(P!paymentVars) BY StepMoves
  <2>3. PICK i \in Key : P!PayStep(i)
    BY <2>1, <2>2 DEF P!Next, P!paymentVars
  <2>4. [j \in Key |-> PhaseOf(j)][k] = "prepared"
    <3>1. CASE \E f \in Fee \cup {0} : P!Prepare(i, f)
      BY <2>1, <3>1 DEF P!Prepare
    <3>2. CASE P!Withdraw(i) BY <2>1, <3>2 DEF P!Withdraw
    <3>3. CASE P!Waive(i) BY <2>1, <3>3 DEF P!Waive
    <3>4. CASE P!Commit(i) BY <2>1, <3>4 DEF P!Commit
    <3>5. CASE \E v \in {"paid", "refused"} : P!Decide(i, v)
      BY <2>1, <3>5 DEF P!Decide
    <3>6. CASE \E a \in {"pending", "paid", "refused"} : P!Report(i, a)
      BY <2>1, <3>6 DEF P!Report
    <3>. QED BY <2>3, <3>1, <3>2, <3>3, <3>4, <3>5, <3>6 DEF P!PayStep
  <2>5. rec[k].status = "checking" BY <2>4 DEF PhaseOf
  <2>6. \A tx \in sent : tx.key = k => TxUses(k, tx.nonce) /\ tx.nonce \in 0..MaxNonce
    BY DEF TypeOK, Tx, TxUses
  <2>. QED BY <2>5, <2>6 DEF PayInv, UsesFit, CommittedAt, TxsOf
<1>. QED BY <1>1, TypeCorrect, PayInvariant, PTL DEF Spec, RefundOnlyUnsent

(* Purchased credit is backed by an executed transfer, and a purchase that  *)
(* clients are told is settled was credited: inherited from Payment, whose  *)
(* Report tops a seller up and tells so in one step.                        *)
ToppedUp ==
  /\ \A k \in credited : OutcomeOf(k) = "paid"
  /\ \A k \in Key : k.kind = "credit" /\ AnswerOf(k) = "paid" => k \in credited

LEMMA ToppedUpStays ==
  ASSUME TypeOK, ToppedUp, [P!Next]_(P!paymentVars)
  PROVE  ToppedUp'
<1>1. \A k \in Key : /\ [j \in Key |-> OutcomeOf(j)][k] = OutcomeOf(k)
                     /\ [j \in Key |-> OutcomeOf(j)]'[k] = OutcomeOf(k)'
                     /\ [j \in Key |-> AnswerOf(j)][k] = AnswerOf(k)
                     /\ [j \in Key |-> AnswerOf(j)]'[k] = AnswerOf(k)'
  OBVIOUS
<1>. credited \subseteq Key BY DEF TypeOK
<1>2. CASE UNCHANGED P!paymentVars BY <1>1, <1>2 DEF P!paymentVars, ToppedUp
<1>3. ASSUME NEW i \in Key, P!PayStep(i) PROVE ToppedUp'
  <2>1. CASE \E f \in Fee \cup {0} : P!Prepare(i, f)
    BY <1>1, <2>1 DEF P!Prepare, ToppedUp
  <2>2. CASE P!Withdraw(i) \/ P!Waive(i)
    BY <1>1, <2>2 DEF P!Withdraw, P!Waive, ToppedUp
  <2>3. CASE P!Commit(i) BY <1>1, <2>3 DEF P!Commit, ToppedUp
  <2>4. CASE \E v \in {"paid", "refused"} : P!Decide(i, v)
    BY <1>1, <2>4 DEF P!Decide, ToppedUp
  <2>5. ASSUME NEW a \in {"pending", "paid", "refused"}, P!Report(i, a)
        PROVE  ToppedUp'
    <3>1. \A k \in Key : OutcomeOf(k)' = OutcomeOf(k) BY <1>1, <2>5 DEF P!Report
    <3>2. \A k \in Key \ {i} : AnswerOf(k)' = AnswerOf(k)
      BY <1>1, <2>5 DEF P!Report
    <3>3. AnswerOf(i)' = a BY <1>1, <2>5 DEF P!Report
    <3>4. /\ credited \subseteq credited' /\ credited' \subseteq credited \cup {i}
          /\ a # "paid" => credited' = credited
          /\ a = "paid" => OutcomeOf(i) = "paid"
          /\ a = "paid" /\ i.kind = "credit" => i \in credited'
      BY <1>1, <2>5 DEF P!Report
    <3>. QED BY <3>1, <3>2, <3>3, <3>4 DEF ToppedUp
  <2>. QED BY <1>3, <2>1, <2>2, <2>3, <2>4, <2>5 DEF P!PayStep
<1>. QED BY <1>2, <1>3 DEF P!Next

THEOREM TopUpsBacked == AllowTraps = FALSE => (Spec => []TopUpBacked)
<1>. SUFFICES ASSUME AllowTraps = FALSE PROVE Spec => []TopUpBacked
  OBVIOUS
<1>1. Init => ToppedUp
  BY DEF Init, NoRecord, ToppedUp, AnswerOf
<1>2. TypeOK /\ PayInv /\ QuotedFee /\ ToppedUp /\ [Next]_vars => ToppedUp'
  BY StepMoves, ToppedUpStays
<1>3. TypeOK /\ PayInv /\ ToppedUp => TopUpBacked
  BY DEF TypeOK, PayInv, RecordsFit, RecordFits, ToppedUp, TopUpBacked,
         OutcomeOf, AnswerOf
<1>. QED BY <1>1, <1>2, <1>3, TypeCorrect, PayInvariant, PTL DEF Spec

-----------------------------------------------------------------------------
(* Locks.  Without interrupted calls what the lock names is live: a record  *)
(* that is being checked or was broadcast, or a batch settle call in flight *)
(* that reads the receiver.                                                 *)
Receiving(c) == c.pc \in {"receiver", "receiverRead"}
Live(k) == rec[k].status \in {"checking", "broadcast"}

LockNamesLive(s) ==
  lock[s].key # None =>
    LET k == lock[s].key IN
    /\ ScopeOf(k) = s
    /\ k.kind # "settle" => Live(k)
    /\ k.kind = "settle" =>
         lock[s].nonce = -1 /\ \E h \in Handler : Receiving(hs[h]) /\ hs[h].key = k

CallKind(c) == c.pc # "idle" => (Receiving(c) <=> c.key.kind = "settle")

(* Provisional keys are never journaled.                                    *)
Unrecorded == \A k \in Key : k.kind = "settle" => rec[k].status = "none"

LockInv ==
  /\ \A s \in Scope : LockNamesLive(s)
  /\ \A h \in Handler : CallKind(hs[h])
  /\ Unrecorded

LEMMA InitLock == Init => LockInv
BY DEF Init, LockInv, LockNamesLive, CallKind, Unrecorded, Free, Idle, NoRecord

(* What a step does to one entry: it is free, or as it was and still live,  *)
(* or names what the step journals or the batch settle call it starts.      *)
EntryKept(s, h, c) ==
  LET k == lock[s].key IN
  /\ lock'[s].key = k /\ k \in Key
  /\ k.kind # "settle" /\ Live(k) => Live(k)'
  /\ k.kind = "settle" =>
       /\ lock'[s].nonce = lock[s].nonce
       /\ Receiving(hs[h]) /\ hs[h].key = k => Receiving(c) /\ c.key = k

EntryNew(s, c) ==
  LET k == lock'[s].key IN
  /\ ScopeOf(k) = s
  /\ k.kind # "settle" => rec'[k].status \in {"checking", "broadcast"}
  /\ k.kind = "settle" => lock'[s].nonce = -1 /\ Receiving(c) /\ c.key = k

LEMMA CallStepLock ==
  ASSUME TypeOK, LockInv, NEW h \in Handler, NEW c, Step(h, c), CallKind(c),
         \A k \in Key : k.kind = "settle" => rec'[k].status = rec[k].status,
         \A s \in Scope : lock'[s].key # None => EntryKept(s, h, c) \/ EntryNew(s, c)
  PROVE  LockInv'
<1>1. hs'[h] = c /\ \A g \in Handler \ {h} : hs'[g] = hs[g] BY StepFrame
<1>2. ASSUME NEW s \in Scope, lock'[s].key # None PROVE LockNamesLive(s)'
  <2>1. CASE EntryNew(s, c)
    BY <1>1, <2>1 DEF EntryNew, LockNamesLive, Live, ScopeOf
  <2>2. CASE EntryKept(s, h, c)
    <3>1. PICK k \in Key : k = lock[s].key /\ k = lock'[s].key
      BY <2>2 DEF EntryKept
    <3>2. k # None /\ ScopeOf(k) = s BY <1>2, <3>1 DEF LockInv, LockNamesLive
    <3>3. CASE k.kind # "settle"
      BY <2>2, <3>1, <3>2, <3>3 DEF EntryKept, LockInv, LockNamesLive, ScopeOf, Live
    <3>4. CASE k.kind = "settle"
      <4>1. /\ lock[s].nonce = -1
            /\ \E g \in Handler : Receiving(hs[g]) /\ hs[g].key = k
        BY <3>1, <3>2, <3>4 DEF LockInv, LockNamesLive
      <4>2. PICK g \in Handler : Receiving(hs[g]) /\ hs[g].key = k BY <4>1
      <4>3. lock'[s].nonce = -1 BY <2>2, <3>1, <3>4, <4>1 DEF EntryKept
      <4>4. Receiving(hs'[g]) /\ hs'[g].key = k
        BY <1>1, <2>2, <3>1, <3>4, <4>2 DEF EntryKept
      <4>. QED BY <3>1, <3>2, <3>4, <4>3, <4>4 DEF LockNamesLive, Receiving, ScopeOf
    <3>. QED BY <3>3, <3>4
  <2>. QED BY <1>2, <2>1, <2>2
<1>3. \A s \in Scope : LockNamesLive(s)'
  <2>. SUFFICES ASSUME NEW s \in Scope PROVE LockNamesLive(s)' OBVIOUS
  <2>. QED BY <1>2 DEF LockNamesLive
<1>4. \A g \in Handler : CallKind(hs[g])'
  BY <1>1 DEF LockInv, CallKind, Receiving
<1>5. Unrecorded' BY DEF LockInv, Unrecorded
<1>. QED BY <1>3, <1>4, <1>5 DEF LockInv

(* No call and no record moves, and no entry but to become free.            *)
LEMMA QuietStepLock ==
  ASSUME LockInv, hs' = hs, rec' = rec,
         \A s \in Scope : lock'[s] = lock[s] \/ lock'[s].key = None
  PROVE  LockInv'
<1>1. \A s \in Scope : LockNamesLive(s)'
  BY DEF LockInv, LockNamesLive, Live, Receiving, ScopeOf
<1>2. \A g \in Handler : CallKind(hs[g])' BY DEF LockInv, CallKind, Receiving
<1>3. Unrecorded' BY DEF LockInv, Unrecorded
<1>. QED BY <1>1, <1>2, <1>3 DEF LockInv

(* A settlement that is being checked or may still execute holds its lock:  *)
(* the disjunct of LockHeldWhileOpen for one key.  The target of a batch    *)
(* settle is journaled whether or not the rename found its lock.            *)
HoldsLock(k) ==
  \/ rec[k].status = "checking"
  \/ rec[k].status = "broadcast" /\ ~Executed(k)
  => lock[ScopeOf(k)].key = k

HeldInv == \A k \in Key : k.kind # "target" => HoldsLock(k)

(* Records and entries of other keys stay, and those of k are accounted for. *)
LEMMA HeldFrame ==
  ASSUME HeldInv, NEW k \in Key, k.kind # "target" => HoldsLock(k)',
         \A j \in Key \ {k} : rec'[j] = rec[j],
         mined \subseteq mined',
         \A j \in Key \ {k} : rec[j].status # "none" /\ lock[ScopeOf(j)].key = j
                                => lock'[ScopeOf(j)].key = j
  PROVE  HeldInv'
<1>. SUFFICES ASSUME NEW j \in Key, j.kind # "target" PROVE HoldsLock(j)'
  BY DEF HeldInv
<1>1. CASE j = k BY <1>1
<1>2. CASE j # k
  <2>1. HoldsLock(j) /\ rec'[j] = rec[j] BY <1>2 DEF HeldInv
  <2>2. Executed(j) => Executed(j)' BY DEF Executed
  <2>3. ScopeOf(j)' = ScopeOf(j) BY DEF ScopeOf
  <2>. QED BY <1>2, <2>1, <2>2, <2>3 DEF HoldsLock
<1>. QED BY <1>1, <1>2

(* Records and receipts stay, and no entry loses a key that is recorded.    *)
LEMMA HeldQuiet ==
  ASSUME HeldInv, rec' = rec, mined \subseteq mined',
         \A j \in Key : rec[j].status # "none" /\ lock[ScopeOf(j)].key = j
                          => lock'[ScopeOf(j)].key = j
  PROVE  HeldInv'
<1>1. \A j \in Key : Executed(j) => Executed(j)' BY DEF Executed
<1>2. \A j \in Key : ScopeOf(j)' = ScopeOf(j) BY DEF ScopeOf
<1>. QED BY <1>1, <1>2 DEF HeldInv, HoldsLock

(* The operations on the lock table, entry by entry.                        *)
LEMMA LockEntries ==
  ASSUME TypeOK, NEW k \in Key, NEW s \in Scope
  PROVE  /\ CanAcquire(k) =>
              /\ Acquired(k)[s].key = IF s = ScopeOf(k) THEN k ELSE lock[s].key
              /\ Acquired(k)[s].nonce
                   = IF s = ScopeOf(k) /\ lock[s].key = None THEN -1
                     ELSE lock[s].nonce
         /\ \A l \in [Scope -> ActiveSettlement] :
              Released(l, k)[s] = IF s = ScopeOf(k) /\ l[s].key = k THEN Free
                                  ELSE l[s]
         /\ ReleasedByKey(k)[s] = IF lock[s].key = k THEN Free ELSE lock[s]
         /\ \A n \in 0..MaxNonce :
              /\ WithActiveTx(k, n)[s].key = lock[s].key
              /\ lock[s].key # k => WithActiveTx(k, n)[s].nonce = lock[s].nonce
         /\ \A new \in Key :
              /\ Renamed(k, new)[s].nonce = lock[s].nonce
              /\ Renamed(k, new)[s].key
                   = IF s = ScopeOf(k) /\ lock[s].key = k /\ lock[s].nonce = -1
                     THEN new ELSE lock[s].key
<1>. lock \in [Scope -> ActiveSettlement] /\ ScopeOf(k) \in Scope /\ k # None
  BY KeyFacts DEF TypeOK
<1>. lock[s] \in ActiveSettlement OBVIOUS
<1>1. CanAcquire(k) =>
        /\ Acquired(k)[s].key = IF s = ScopeOf(k) THEN k ELSE lock[s].key
        /\ Acquired(k)[s].nonce
             = IF s = ScopeOf(k) /\ lock[s].key = None THEN -1 ELSE lock[s].nonce
  BY DEF CanAcquire, Acquired
<1>2. \A l \in [Scope -> ActiveSettlement] :
        Released(l, k)[s] = IF s = ScopeOf(k) /\ l[s].key = k THEN Free ELSE l[s]
  BY DEF Released
<1>3. ReleasedByKey(k)[s] = IF lock[s].key = k THEN Free ELSE lock[s]
  BY DEF ReleasedByKey
<1>4. \A n \in 0..MaxNonce :
        /\ WithActiveTx(k, n)[s].key = lock[s].key
        /\ lock[s].key # k => WithActiveTx(k, n)[s].nonce = lock[s].nonce
  BY DEF WithActiveTx, ActiveSettlement
<1>5. \A new \in Key :
        /\ Renamed(k, new)[s].nonce = lock[s].nonce
        /\ Renamed(k, new)[s].key
             = IF s = ScopeOf(k) /\ lock[s].key = k /\ lock[s].nonce = -1
               THEN new ELSE lock[s].key
  BY DEF Renamed, ActiveSettlement
<1>. QED BY <1>1, <1>2, <1>3, <1>4, <1>5

(* A call that moves without touching a record or the lock table.           *)
LEMMA IdleLock ==
  ASSUME TypeOK, LockInv, NEW h \in Handler, NEW c, Step(h, c), CallKind(c),
         Receiving(hs[h]) => Receiving(c) /\ c.key = hs[h].key,
         rec' = rec, lock' = lock, mined' = mined
  PROVE  LockInv' /\ (HeldInv => HeldInv')
<1>1. \A s \in Scope : lock'[s].key # None => EntryKept(s, h, c)
  BY DEF EntryKept, Live, TypeOK, ActiveSettlement
<1>2. LockInv' BY <1>1, CallStepLock
<1>. QED BY <1>2, HeldQuiet

(* The lock is taken and a checking record journaled.                       *)
LEMMA StartLock ==
  ASSUME TypeOK, LockInv, NEW h \in Handler, NEW k \in Key,
         k.kind \notin {"settle", "target"}, hs[h].pc = "idle",
         CanAcquire(k), lock' = Acquired(k), NEW f \in Nat, rec[k].status = "none",
         rec' = Inserted(k, "checking", -1, 0, f), mined' = mined,
         Step(h, Call("nonce", k, f, -1, 0))
  PROVE  LockInv' /\ (HeldInv => HeldInv')
<1>. DEFINE c == Call("nonce", k, f, -1, 0)
<1>1. /\ rec'[k].status = "checking" /\ \A j \in Key \ {k} : rec'[j] = rec[j]
  BY DEF Inserted, TypeOK
<1>2. CallKind(c) /\ ~Receiving(hs[h]) BY DEF Call, CallKind, Receiving
<1>3. ASSUME NEW s \in Scope, lock'[s].key # None
      PROVE  EntryKept(s, h, c) \/ EntryNew(s, c)
  <2>. HIDE DEF c
  <2>1. CASE s = ScopeOf(k)
    <3>1. lock'[s].key = k BY <2>1, LockEntries
    <3>. QED BY <1>1, <2>1, <3>1 DEF EntryNew, Live
  <2>2. CASE s # ScopeOf(k)
    <3>1. lock'[s].key = lock[s].key /\ lock'[s].nonce = lock[s].nonce
      BY <2>2, LockEntries
    <3>2. lock[s].key \in Key BY <1>3, <3>1 DEF TypeOK, ActiveSettlement
    <3>. QED BY <1>1, <1>2, <3>1, <3>2 DEF EntryKept, Live
  <2>. QED BY <2>1, <2>2
<1>4. LockInv'
  <2>1. \A j \in Key : j.kind = "settle" => rec'[j].status = rec[j].status BY <1>1
  <2>2. Step(h, c) OBVIOUS
  <2>. HIDE DEF c
  <2>. QED BY <1>2, <1>3, <2>1, <2>2, CallStepLock
<1>5. HoldsLock(k)'
  <2>1. lock'[ScopeOf(k)].key = k BY KeyFacts, LockEntries
  <2>. QED BY <2>1 DEF HoldsLock, ScopeOf
<1>6. ASSUME NEW j \in Key \ {k}, lock[ScopeOf(j)].key = j
      PROVE  lock'[ScopeOf(j)].key = j
  <2>1. ScopeOf(j) # ScopeOf(k) BY <1>6, KeyFacts DEF CanAcquire
  <2>. QED BY <1>6, <2>1, KeyFacts, LockEntries
<1>. QED BY <1>1, <1>4, <1>5, <1>6, HeldFrame

(* A call gives up before its broadcast: its record and its entry go.       *)
LEMMA AbandonLock ==
  ASSUME TypeOK, LockInv, NEW h \in Handler, NEW k \in Key, hs[h].key = k,
         Preparing(hs[h]), Abandon(h), mined' = mined
  PROVE  LockInv' /\ (HeldInv => HeldInv')
<1>1. rec'[k] = NoRecord /\ \A j \in Key \ {k} : rec'[j] = rec[j]
  BY DEF Abandon, TypeOK
<1>2. ~Receiving(hs[h]) /\ k.kind # "settle" /\ CallKind(Idle)
  BY DEF Preparing, Receiving, LockInv, CallKind, Idle
<1>3. lock \in [Scope -> ActiveSettlement] /\ lock' = Released(lock, k)
      /\ Step(h, Idle)
  BY DEF TypeOK, Abandon
<1>4. ASSUME NEW s \in Scope, lock'[s].key # None PROVE EntryKept(s, h, Idle)
  <2>1. lock'[s] = lock[s] /\ ~(s = ScopeOf(k) /\ lock[s].key = k)
    BY <1>3, <1>4, LockEntries DEF Free
  <2>2. lock[s].key \in Key BY <1>4, <2>1 DEF TypeOK, ActiveSettlement
  <2>3. lock[s].key # k BY <1>4, <2>1, <2>2 DEF LockInv, LockNamesLive
  <2>. QED BY <1>1, <1>2, <2>1, <2>2, <2>3 DEF EntryKept, Live
<1>5. LockInv' BY <1>1, <1>2, <1>3, <1>4, CallStepLock
<1>6. HoldsLock(k)' BY <1>1 DEF HoldsLock, NoRecord
<1>7. \A j \in Key \ {k} : lock[ScopeOf(j)].key = j => lock'[ScopeOf(j)].key = j
  BY <1>3, KeyFacts, LockEntries
<1>. QED BY <1>1, <1>5, <1>6, <1>7, HeldFrame

(* A broadcast is journaled, the first time or again.  If the payment was   *)
(* decided meanwhile the entry may be gone, but then it has executed.       *)
LEMMA BroadcastLock ==
  ASSUME TypeOK, LockInv, PayInv, NEW h \in Handler, NEW k \in Key,
         NEW g \in Gas \cup {0}, hs[h].key = k,
         hs[h].pc \in {"send", "resend", "confirm"},
         RecordBroadcast(h, g), mined' = mined,
         NEW c, Step(h, c), c.pc \in {"idle", "confirm"},
         c.pc = "confirm" => c.key = k
  PROVE  LockInv' /\ (HeldInv => HeldInv')
<1>1. rec'[k].status = "broadcast" /\ \A j \in Key \ {k} : rec'[j] = rec[j]
  BY DEF RecordBroadcast, Inserted, TypeOK
<1>2. ~Receiving(hs[h]) /\ ~Receiving(c) /\ k.kind # "settle" /\ CallKind(c)
  BY DEF Receiving, LockInv, CallKind
<1>3. hs[h].nonce \in 0..MaxNonce /\ lock' = WithActiveTx(k, hs[h].nonce)
  <2>1. hs[h].nonce \in -1..MaxNonce /\ hs[h].nonce # -1 BY CallFacts
  <2>. QED BY <2>1, AmountAssumption DEF RecordBroadcast
<1>4. ASSUME NEW s \in Scope
      PROVE  /\ lock'[s].key = lock[s].key
             /\ lock[s].key # k => lock'[s].nonce = lock[s].nonce
  BY <1>3, LockEntries
<1>5. ASSUME NEW s \in Scope, lock'[s].key # None PROVE EntryKept(s, h, c)
  <2>1. lock[s].key \in Key BY <1>4, <1>5 DEF TypeOK, ActiveSettlement
  <2>. QED BY <1>1, <1>2, <1>4, <2>1 DEF EntryKept, Live
<1>6. LockInv' BY <1>1, <1>2, <1>5, CallStepLock
<1>7. ASSUME HeldInv, k.kind # "target" PROVE HoldsLock(k)'
  <2>1. \/ rec[k].status = "checking"
        \/ rec[k].status = "broadcast"
        \/ Executed(k)
    <3>1. CASE hs[h].pc = "send"
      BY <3>1 DEF PayInv, CallsFit, CallFits, Preparing
    <3>2. CASE hs[h].pc \in {"resend", "confirm"}
      <4>1. CommittedAt(k, hs[h].nonce) /\ hs[h].nonce # -1
        BY <3>2 DEF PayInv, CallsFit, CallFits, Watching
      <4>2. RecordFits(k) BY DEF PayInv, RecordsFit
      <4>. QED BY <4>1, <4>2 DEF CommittedAt, RecordFits, Paid, Refused, Executed
    <3>. QED BY <3>1, <3>2
  <2>2. Executed(k)' <=> Executed(k) BY DEF Executed
  <2>3. HoldsLock(k) BY <1>7 DEF HeldInv
  <2>4. lock'[ScopeOf(k)].key = lock[ScopeOf(k)].key BY <1>4, KeyFacts
  <2>. QED BY <1>1, <2>1, <2>2, <2>3, <2>4 DEF HoldsLock, ScopeOf
<1>8. \A j \in Key \ {k} : lock[ScopeOf(j)].key = j => lock'[ScopeOf(j)].key = j
  BY <1>4, KeyFacts
<1>. QED BY <1>1, <1>6, <1>7, <1>8, HeldFrame

(* What a step of a call leaves it with.                                     *)
LEMMA CallLeaves ==
  ASSUME TypeOK, NEW h \in Handler
  PROVE  /\ \A n \in 0..MaxNonce : ReserveNonce(h, n) =>
              \E c : /\ Step(h, c) /\ c.pc = "send" /\ c.key = hs[h].key
                    /\ c.nonce = Larger(nextNonce, n)
         /\ \A n \in 0..MaxNonce : Replace(h, n) =>
              \E c : Step(h, c) /\ c.pc = "resend" /\ c.key = hs[h].key
         /\ \A g \in Gas : SendOk(h, g) =>
              \E c : Step(h, c) /\ c.pc = "confirm" /\ c.key = hs[h].key
         /\ \A g \in Gas : SendAmbiguous(h, g) => Step(h, Idle)
         /\ Idle.pc = "idle"
<1>1. hs[h] \in CallState BY DEF TypeOK
<1>2. ASSUME NEW n \in 0..MaxNonce, ReserveNonce(h, n)
      PROVE  \E c : /\ Step(h, c) /\ c.pc = "send" /\ c.key = hs[h].key
                   /\ c.nonce = Larger(nextNonce, n)
  <2>1. PICK c : c = [hs[h] EXCEPT !.pc = "send", !.nonce = Larger(nextNonce, n)]
    OBVIOUS
  <2>2. c.pc = "send" /\ c.key = hs[h].key /\ c.nonce = Larger(nextNonce, n)
    BY <1>1, <2>1 DEF CallState
  <2>. QED BY <1>2, <2>1, <2>2 DEF ReserveNonce
<1>3. ASSUME NEW n \in 0..MaxNonce, Replace(h, n)
      PROVE  \E c : Step(h, c) /\ c.pc = "resend" /\ c.key = hs[h].key
  <2>1. PICK c : c = [hs[h] EXCEPT !.pc = "resend", !.nonce = n] OBVIOUS
  <2>2. c.pc = "resend" /\ c.key = hs[h].key BY <1>1, <2>1 DEF CallState
  <2>. QED BY <1>3, <2>1, <2>2 DEF Replace
<1>4. ASSUME NEW g \in Gas, SendOk(h, g)
      PROVE  \E c : Step(h, c) /\ c.pc = "confirm" /\ c.key = hs[h].key
  <2>1. PICK c : c = [hs[h] EXCEPT !.pc = "confirm", !.gas = g] OBVIOUS
  <2>2. c.pc = "confirm" /\ c.key = hs[h].key BY <1>1, <2>1 DEF CallState
  <2>. QED BY <1>4, <2>1, <2>2 DEF SendOk
<1>. QED BY <1>2, <1>3, <1>4 DEF SendAmbiguous, Idle

LEMMA CallBegins ==
  ASSUME NEW h \in Handler, Submit(h)
  PROVE  /\ hs[h].pc = "idle"
         /\ \E c : Step(h, c) /\ c.pc \in {"nonce", "receiver", "refresh"}
<1>1. \A pc, k, f, n, g : Call(pc, k, f, n, g).pc = pc BY DEF Call
<1>2. ASSUME NEW r \in Request, NEW f \in Fee, Settle(h, r, f) \/ BatchSettle(h, r, f)
      PROVE  /\ hs[h].pc = "idle"
             /\ \E c : Step(h, c) /\ c.pc \in {"nonce", "receiver", "refresh"}
  BY <1>1, <1>2 DEF Settle, BatchSettle
<1>3. ASSUME NEW r \in Request, BuyCredit(h, r)
      PROVE  /\ hs[h].pc = "idle"
             /\ \E c : Step(h, c) /\ c.pc \in {"nonce", "receiver", "refresh"}
  BY <1>1, <1>3 DEF BuyCredit
<1>4. ASSUME NEW k \in Key, Replay(h, k)
      PROVE  /\ hs[h].pc = "idle"
             /\ \E c : Step(h, c) /\ c.pc \in {"nonce", "receiver", "refresh"}
  BY <1>1, <1>4 DEF Replay
<1>. QED BY <1>2, <1>3, <1>4 DEF Submit

(* A receipt decides the payment: its record is terminal, its entry free.   *)
LEMMA ReceiptLock ==
  ASSUME TypeOK, LockInv, NEW h \in Handler, NEW k \in Key, hs[h].key = k,
         ReceiptSettled(h) \/ ReceiptFailed(h)
  PROVE  LockInv' /\ (HeldInv => HeldInv')
<1>0. hs[h].pc \in {"confirm", "refresh"} BY DEF ReceiptSettled, ReceiptFailed
<1>1. /\ rec'[k].status \in {"settled", "failed"}
      /\ \A j \in Key \ {k} : rec'[j] = rec[j]
  <2>1. PICK st \in {"settled", "failed"} :
          rec' = Inserted(k, st, hs[h].nonce, hs[h].gas, hs[h].fee)
    <3>1. CASE ReceiptSettled(h) BY <3>1 DEF ReceiptSettled
    <3>2. CASE ReceiptFailed(h) BY <3>2 DEF ReceiptFailed
    <3>. QED BY <3>1, <3>2
  <2>2. DOMAIN rec = Key BY DEF TypeOK
  <2>. QED BY <2>1, <2>2 DEF Inserted
<1>2. ~Receiving(hs[h]) /\ k.kind # "settle" /\ CallKind(Idle)
  BY <1>0 DEF Receiving, LockInv, CallKind, Idle
<1>3. lock' = ReleasedByKey(k) /\ mined' = mined /\ Step(h, Idle)
  BY DEF ReceiptSettled, ReceiptFailed, chain
<1>4. ASSUME NEW s \in Scope, lock'[s].key # None PROVE EntryKept(s, h, Idle)
  <2>1. lock'[s] = lock[s] /\ lock[s].key # k
    BY <1>3, <1>4, LockEntries DEF Free
  <2>2. lock[s].key \in Key BY <1>4, <2>1 DEF TypeOK, ActiveSettlement
  <2>. QED BY <1>1, <1>2, <2>1, <2>2 DEF EntryKept, Live
<1>5. LockInv' BY <1>1, <1>2, <1>3, <1>4, CallStepLock
<1>6. HoldsLock(k)' BY <1>1 DEF HoldsLock
<1>7. \A j \in Key \ {k} : lock[ScopeOf(j)].key = j => lock'[ScopeOf(j)].key = j
  BY <1>3, KeyFacts, LockEntries
<1>. QED BY <1>1, <1>3, <1>5, <1>6, <1>7, HeldFrame

(* A batch settle call starts.                                              *)
LEMMA BatchSettleLock ==
  ASSUME TypeOK, LockInv, NEW h \in Handler, NEW r \in Request, NEW f \in Fee,
         BatchSettle(h, r, f)
  PROVE  LockInv' /\ (HeldInv => HeldInv')
<1>. r \in Key BY DEF Key
<1>. DEFINE c == Call("receiver", r, f, -1, 0)
<1>1. /\ r.kind = "settle" /\ Receiving(c) /\ c.key = r /\ CallKind(c)
      /\ ~Receiving(hs[h]) /\ Step(h, c)
  BY DEF BatchSettle, Call, CallKind, Receiving
<1>2. rec' = rec /\ lock' = Acquired(r) /\ CanAcquire(r) /\ mined' = mined
  BY DEF BatchSettle, chain
<1>. HIDE DEF c
<1>3. ASSUME NEW s \in Scope, lock'[s].key # None
      PROVE  EntryKept(s, h, c) \/ EntryNew(s, c)
  <2>1. CASE s = ScopeOf(r)
    <3>1. lock'[s].key = r BY <1>2, <2>1, LockEntries
    <3>2. lock[s].key \in {None, r} BY <1>2, <2>1 DEF CanAcquire
    <3>3. lock'[s].nonce = -1
      BY <1>1, <1>2, <2>1, <3>2, LockEntries, KeyFacts DEF LockInv, LockNamesLive
    <3>. QED BY <1>1, <2>1, <3>1, <3>3 DEF EntryNew
  <2>2. CASE s # ScopeOf(r)
    <3>1. lock'[s].key = lock[s].key /\ lock'[s].nonce = lock[s].nonce
      BY <1>2, <2>2, LockEntries
    <3>2. lock[s].key \in Key BY <1>3, <3>1 DEF TypeOK, ActiveSettlement
    <3>. QED BY <1>1, <1>2, <3>1, <3>2 DEF EntryKept, Live
  <2>. QED BY <2>1, <2>2
<1>4. LockInv' BY <1>1, <1>2, <1>3, CallStepLock
<1>5. ASSUME NEW j \in Key, lock[ScopeOf(j)].key = j
      PROVE  lock'[ScopeOf(j)].key = j
  <2>1. ScopeOf(j) = ScopeOf(r) => j = r
    BY <1>2, <1>5, KeyFacts DEF CanAcquire
  <2>. QED BY <1>2, <1>5, <2>1, KeyFacts, LockEntries
<1>. QED BY <1>2, <1>4, <1>5, HeldQuiet

(* A batch settle call reads the receiver, gives up, finds its target       *)
(* recorded, or journals it: its provisional entry goes or is renamed.      *)
LEMMA TargetLock ==
  ASSUME TypeOK, LockInv, NEW h \in Handler,
         \/ ReadReceiver(h) \/ ReceiverError(h) \/ TargetCached(h)
         \/ TargetNoop(h) \/ TargetReserve(h) \/ TargetRefuse(h)
  PROVE  LockInv' /\ (HeldInv => HeldInv')
<1>0. hs[h] \in CallState /\ hs[h].pc \in {"receiver", "receiverRead"}
  BY DEF ReadReceiver, ReceiverError, TargetCached, TargetNoop, TargetReserve,
         TargetRefuse, TypeOK
<1>1. PICK o \in Key : o = hs[h].key BY <1>0, CallFacts
<1>2. PICK k \in Key : k = TargetOf(h) BY <1>0, CallFacts
<1>3. /\ o.kind = "settle" /\ rec[o].status = "none" /\ Receiving(hs[h])
      /\ CallKind(Idle)
  BY <1>0, <1>1 DEF LockInv, Unrecorded, CallKind, Receiving, Idle
<1>4. k.kind = "target" /\ ScopeOf(k) = ScopeOf(o) /\ ScopeOf(o) \in Scope
  BY <1>1, <1>2, <1>3, KeyFacts DEF TargetOf, Target, ScopeOf
<1>5. mined' = mined /\ lock \in [Scope -> ActiveSettlement]
  BY DEF ReadReceiver, ReceiverError, TargetCached, TargetNoop, TargetReserve,
         TargetRefuse, chain, TypeOK
<1>6. CASE ReadReceiver(h)
  <2>. DEFINE q == hs[h].key.seller
              c == [hs[h] EXCEPT !.pc = "receiverRead",
                      !.seen = [claimed |-> claimed[q], settled |-> paidOut[q]]]
  <2>1. Step(h, c) /\ rec' = rec /\ lock' = lock BY <1>6 DEF ReadReceiver
  <2>2. Receiving(c) /\ c.key = hs[h].key /\ CallKind(c)
    BY <1>0, <1>1, <1>3 DEF Receiving, CallState, CallKind
  <2>. HIDE DEF c
  <2>. QED BY <1>5, <2>1, <2>2, IdleLock
<1>7. ASSUME NEW c, Step(h, c), CallKind(c), rec' = rec, lock' = Released(lock, o)
      PROVE  LockInv' /\ (HeldInv => HeldInv')
  <2>1. ASSUME NEW s \in Scope, lock'[s].key # None PROVE EntryKept(s, h, c)
    <3>1. lock'[s] = lock[s] /\ ~(s = ScopeOf(o) /\ lock[s].key = o)
      BY <1>5, <1>7, <2>1, LockEntries DEF Free
    <3>2. lock[s].key \in Key BY <2>1, <3>1 DEF TypeOK, ActiveSettlement
    <3>3. lock[s].key # o BY <2>1, <3>1, <3>2 DEF LockInv, LockNamesLive
    <3>. QED BY <1>1, <1>7, <3>1, <3>2, <3>3 DEF EntryKept, Live
  <2>2. LockInv' BY <1>7, <2>1, CallStepLock
  <2>3. ASSUME NEW j \in Key, rec[j].status # "none", lock[ScopeOf(j)].key = j
        PROVE  lock'[ScopeOf(j)].key = j
    BY <1>3, <1>5, <1>7, <2>3, KeyFacts, LockEntries
  <2>. QED BY <1>5, <1>7, <2>2, <2>3, HeldQuiet
<1>8. CASE ReceiverError(h) BY <1>1, <1>3, <1>7, <1>8 DEF ReceiverError
<1>9. CASE TargetCached(h)
  <2>1. PICK c : c = IF rec[k].status = "broadcast"
                     THEN Call("refresh", k, 0, rec[k].nonce, rec[k].gas)
                     ELSE Idle
    OBVIOUS
  <2>2. CallKind(c)
    BY <1>4, <2>1 DEF Call, CallKind, Idle, Receiving
  <2>3. Step(h, c) /\ rec' = rec /\ lock' = Released(lock, o)
    BY <1>1, <1>2, <1>9, <2>1 DEF TargetCached
  <2>. QED BY <1>7, <2>2, <2>3
<1>10. ASSUME rec[k].status = "none",
              NEW s \in Scope, lock[s].key # None
       PROVE  /\ lock[s].key \in Key /\ lock[s].key # k
              /\ lock[s].key = o => s = ScopeOf(o) /\ lock[s].nonce = -1
  BY <1>1, <1>3, <1>4, <1>10 DEF LockInv, LockNamesLive, Live, TypeOK, ActiveSettlement
<1>11. ASSUME rec[k].status = "none", NEW s \in Scope
       PROVE  /\ lock[s].key = o =>
                   /\ Renamed(o, k)[s].key = k
                   /\ Released(Renamed(o, k), k)[s] = Free
              /\ lock[s].key # o =>
                   /\ Renamed(o, k)[s].key = lock[s].key
                   /\ Renamed(o, k)[s].nonce = lock[s].nonce
                   /\ lock[s].key # None =>
                        Released(Renamed(o, k), k)[s] = Renamed(o, k)[s]
  <2>1. /\ Renamed(o, k)[s].nonce = lock[s].nonce
        /\ Renamed(o, k)[s].key
             = IF s = ScopeOf(o) /\ lock[s].key = o /\ lock[s].nonce = -1
               THEN k ELSE lock[s].key
    BY LockEntries
  <2>2. Renamed(o, k) \in [Scope -> ActiveSettlement] BY LockTypes
  <2>3. Released(Renamed(o, k), k)[s]
          = IF s = ScopeOf(k) /\ Renamed(o, k)[s].key = k THEN Free
            ELSE Renamed(o, k)[s]
    BY <2>2, LockEntries
  <2>4. o # None BY KeyFacts
  <2>. QED BY <1>4, <1>10, <1>11, <2>1, <2>3, <2>4
<1>12. ASSUME rec[k].status = "none", NEW c, Step(h, c), CallKind(c),
              \A j \in Key \ {k} : rec'[j] = rec[j],
              \/ lock' = Released(Renamed(o, k), k)
              \/ lock' = Renamed(o, k) /\ Live(k)'
       PROVE  LockInv' /\ (HeldInv => HeldInv')
  <2>1. ASSUME NEW s \in Scope, lock'[s].key # None
        PROVE  EntryKept(s, h, c) \/ EntryNew(s, c)
    <3>1. CASE lock[s].key = o
      <4>1. lock' = Renamed(o, k) /\ Live(k)' /\ lock'[s].key = k
        BY <1>11, <1>12, <2>1, <3>1 DEF Free, Live
      <4>2. s = ScopeOf(k) BY <1>4, <1>10, <1>12, <3>1, KeyFacts
      <4>. QED BY <1>4, <4>1, <4>2 DEF EntryNew, Live
    <3>2. CASE lock[s].key = None
      <4>1. k # None /\ o # None BY KeyFacts
      <4>2. Renamed(o, k)[s].key = None BY <1>11, <1>12, <3>2, <4>1
      <4>3. Renamed(o, k) \in [Scope -> ActiveSettlement] BY LockTypes
      <4>4. Released(Renamed(o, k), k)[s] = Renamed(o, k)[s]
        BY <4>1, <4>2, <4>3, LockEntries
      <4>. QED BY <1>12, <2>1, <4>2, <4>4
    <3>3. CASE lock[s].key # o /\ lock[s].key # None
      <4>1. lock'[s].key = lock[s].key /\ lock'[s].nonce = lock[s].nonce
        BY <1>11, <1>12, <3>3
      <4>2. lock[s].key \in Key /\ lock[s].key # k BY <1>10, <1>12, <3>3
      <4>. QED BY <1>1, <1>12, <3>3, <4>1, <4>2 DEF EntryKept, Live
    <3>. QED BY <3>1, <3>2, <3>3
  <2>2. \A j \in Key : j.kind = "settle" => rec'[j].status = rec[j].status
    BY <1>4, <1>12
  <2>3. LockInv' BY <1>12, <2>1, <2>2, CallStepLock
  <2>4. ASSUME NEW j \in Key \ {k}, rec[j].status # "none", lock[ScopeOf(j)].key = j
        PROVE  lock'[ScopeOf(j)].key = j
    BY <1>3, <1>11, <1>12, <2>4, KeyFacts
  <2>. QED BY <1>4, <1>5, <1>12, <2>3, <2>4, HeldFrame
<1>13. CASE TargetNoop(h)
  <2>1. \A j \in Key \ {k} : rec'[j] = rec[j]
    BY <1>2, <1>13 DEF TargetNoop, Inserted, TypeOK
  <2>. QED BY <1>1, <1>2, <1>3, <1>12, <1>13, <2>1 DEF TargetNoop
<1>14. CASE TargetReserve(h)
  <2>1. Live(k)' /\ \A j \in Key \ {k} : rec'[j] = rec[j]
    BY <1>2, <1>14 DEF TargetReserve, Inserted, TypeOK, Live
  <2>2. PICK c : c = Call("nonce", k, hs[h].fee, -1, 0) OBVIOUS
  <2>3. CallKind(c) BY <1>4, <2>2 DEF Call, CallKind, Receiving
  <2>. QED BY <1>1, <1>2, <1>12, <1>14, <2>1, <2>2, <2>3 DEF TargetReserve
<1>15. CASE TargetRefuse(h)
  BY <1>1, <1>2, <1>3, <1>12, <1>15 DEF TargetRefuse
<1>. QED BY <1>6, <1>8, <1>9, <1>13, <1>14, <1>15

LEMMA SubmitLock ==
  ASSUME TypeOK, LockInv, NEW h \in Handler, Submit(h)
  PROVE  LockInv' /\ (HeldInv => HeldInv')
<1>1. CASE \E r \in Request, f \in Fee : Settle(h, r, f)
  <2>. PICK r \in Request, f \in Fee : Settle(h, r, f) BY <1>1
  <2>1. r \in Key /\ f \in Nat /\ r.kind \notin {"settle", "target"}
    BY AmountAssumption DEF Key, Settle
  <2>. QED BY <2>1, StartLock DEF Settle, chain
<1>2. CASE \E r \in Request, f \in Fee : BatchSettle(h, r, f)
  BY <1>2, BatchSettleLock
<1>3. CASE \E r \in Request : BuyCredit(h, r)
  <2>. PICK r \in Request : BuyCredit(h, r) BY <1>3
  <2>1. r \in Key /\ r.kind \notin {"settle", "target"} BY DEF Key, BuyCredit
  <2>. QED BY <2>1, StartLock DEF BuyCredit, chain
<1>4. CASE \E k \in Key : Replay(h, k)
  <2>. PICK k \in Key : Replay(h, k) BY <1>4
  <2>1. PICK c : c = Call("refresh", k, 0, rec[k].nonce, rec[k].gas) OBVIOUS
  <2>2. k.kind # "settle" BY DEF Replay, LockInv, Unrecorded
  <2>3. CallKind(c) /\ ~Receiving(hs[h])
    BY <2>1, <2>2 DEF CallKind, Receiving, Call, Replay
  <2>. QED BY <2>1, <2>3, IdleLock DEF Replay, chain
<1>. QED BY <1>1, <1>2, <1>3, <1>4 DEF Submit

LEMMA ResumeLock ==
  ASSUME TypeOK, PayInv, LockInv, NEW h \in Handler, Resume(h)
  PROVE  LockInv' /\ (HeldInv => HeldInv')
<1>0. CallKind(Idle) /\ hs[h] \in CallState BY DEF CallKind, Idle, TypeOK
<1>1. CASE \/ ReceiverError(h) \/ TargetCached(h) \/ TargetNoop(h)
           \/ TargetReserve(h) \/ TargetRefuse(h)
  BY <1>1, TargetLock
<1>2. ASSUME NEW n \in 0..MaxNonce, ReserveNonce(h, n) \/ Replace(h, n)
      PROVE  LockInv' /\ (HeldInv => HeldInv')
  <2>1. PICK pc \in {"send", "resend"} :
          \E m : Step(h, [hs[h] EXCEPT !.pc = pc, !.nonce = m])
    <3>1. CASE ReserveNonce(h, n) BY <3>1 DEF ReserveNonce
    <3>2. CASE Replace(h, n) BY <3>2 DEF Replace
    <3>. QED BY <1>2, <3>1, <3>2
  <2>2. PICK m, c : c = [hs[h] EXCEPT !.pc = pc, !.nonce = m] /\ Step(h, c)
    BY <2>1
  <2>3. c.pc = pc /\ c.key = hs[h].key BY <1>0, <2>2 DEF CallState
  <2>4. hs[h].pc \in {"nonce", "refresh"} BY <1>2 DEF ReserveNonce, Replace
  <2>5. CallKind(hs[h]) BY DEF LockInv
  <2>6. CallKind(c) /\ ~Receiving(hs[h])
    BY <2>3, <2>4, <2>5 DEF CallKind, Receiving
  <2>. QED BY <1>2, <2>2, <2>6, IdleLock DEF ReserveNonce, Replace, chain
<1>3. CASE NonceError(h) \/ SendFailed(h)
  <2>1. Preparing(hs[h]) BY <1>3 DEF NonceError, SendFailed, Preparing
  <2>2. hs[h].key \in Key BY <2>1, CallFacts DEF Preparing
  <2>. QED BY <1>3, <2>1, <2>2, AbandonLock DEF NonceError, SendFailed, chain
<1>4. CASE ResendFailed(h) \/ RefreshKeep(h)
  <2>1. ~Receiving(hs[h]) BY <1>4 DEF ResendFailed, RefreshKeep, Receiving
  <2>. QED BY <1>0, <1>4, <2>1, IdleLock DEF ResendFailed, RefreshKeep, chain
<1>5. ASSUME NEW g \in Gas, SendOk(h, g) \/ SendAmbiguous(h, g)
      PROVE  LockInv' /\ (HeldInv => HeldInv')
  <2>1. hs[h].pc \in {"send", "resend"} BY <1>5 DEF SendOk, SendAmbiguous
  <2>2. hs[h].key \in Key BY <2>1, CallFacts
  <2>3. PICK c : /\ Step(h, c) /\ c.pc \in {"idle", "confirm"}
                 /\ c.pc = "confirm" => c.key = hs[h].key
    <3>1. CASE SendOk(h, g) BY <1>5, <3>1, CallLeaves
    <3>2. CASE SendAmbiguous(h, g) BY <1>5, <3>2, CallLeaves
    <3>. QED BY <1>5, <3>1, <3>2
  <2>. QED BY <1>5, <2>1, <2>2, <2>3, BroadcastLock
       DEF SendOk, SendAmbiguous
<1>6. CASE ReceiptSettled(h) \/ ReceiptFailed(h)
  <2>1. hs[h].key \in Key BY <1>6, CallFacts DEF ReceiptSettled, ReceiptFailed
  <2>. QED BY <1>6, <2>1, ReceiptLock
<1>7. CASE ConfirmPending(h)
  <2>1. hs[h].pc = "confirm" BY <1>7 DEF ConfirmPending
  <2>2. hs[h].key \in Key /\ hs[h].gas \in Gas \cup {0} BY <2>1, CallFacts
  <2>3. Idle.pc = "idle" BY DEF Idle
  <2>. QED BY <1>7, <2>1, <2>2, <2>3, BroadcastLock DEF ConfirmPending, chain
<1>. QED BY <1>1, <1>2, <1>3, <1>4, <1>5, <1>6, <1>7 DEF Resume

LEMMA OutsideLock ==
  ASSUME TypeOK, LockInv,
         \/ \E r \in Request : Refuse(r)
         \/ \E k \in Key : ReplayCached(k)
         \/ \E tx \in sent, ok \in BOOLEAN : Mine(tx, ok)
         \/ \E s \in Seller : ClaimOnChain(s)
         \/ UNCHANGED vars
  PROVE  LockInv' /\ (HeldInv => HeldInv')
<1>1. hs' = hs /\ rec' = rec /\ mined \subseteq mined'
  BY DEF Refuse, ReplayCached, Mine, ClaimOnChain, vars, chain
<1>2. CASE lock' = lock BY <1>1, <1>2, QuietStepLock, HeldQuiet
<1>3. CASE \E r \in Request : Refuse(r)
  <2>. PICK r \in Request : Refuse(r) BY <1>3
  <2>1. r \in Key /\ lock \in [Scope -> ActiveSettlement] BY DEF Key, TypeOK
  <2>2. rec[r].status = "none" /\ lock' = Released(lock, r) BY DEF Refuse
  <2>3. \A s \in Scope : lock'[s] = lock[s] \/ (lock[s].key = r /\ lock'[s] = Free)
    BY <2>1, <2>2, LockEntries
  <2>4. LockInv' BY <1>1, <2>3, QuietStepLock DEF Free
  <2>5. \A j \in Key : rec[j].status # "none" /\ lock[ScopeOf(j)].key = j
                         => lock'[ScopeOf(j)].key = j
    BY <2>2, <2>3, KeyFacts
  <2>. QED BY <1>1, <2>4, <2>5, HeldQuiet
<1>. QED BY <1>2, <1>3 DEF ReplayCached, Mine, ClaimOnChain, vars

LEMMA StepLock ==
  ASSUME AllowTraps = FALSE, TypeOK, PayInv, LockInv, [Next]_vars
  PROVE  LockInv' /\ (HeldInv => HeldInv')
<1>1. CASE \E h \in Handler : Submit(h) BY <1>1, SubmitLock
<1>2. CASE \E h \in Handler : Resume(h) BY <1>2, ResumeLock
<1>3. CASE \E r \in Request : Refuse(r) BY <1>3, OutsideLock
<1>4. CASE \E k \in Key : ReplayCached(k) \/ Recover(k)
  BY <1>4, OutsideLock DEF Recover
<1>5. CASE Environment
  BY <1>5, TargetLock, OutsideLock DEF Environment, Trap
<1>6. CASE UNCHANGED vars BY <1>6, OutsideLock
<1>. QED BY <1>1, <1>2, <1>3, <1>4, <1>5, <1>6 DEF Next

(* Without interrupted calls what a lock names is live, and every           *)
(* settlement that is open, other than a batch settle's, holds its lock     *)
(* (acquire_active_settlement, rename_active_settlement_key,                *)
(* update_active_broadcast, release_active_settlement).                     *)
THEOREM LockInvariant == AllowTraps = FALSE => (Spec => [](LockInv /\ HeldInv))
<1>. SUFFICES ASSUME AllowTraps = FALSE PROVE Spec => [](LockInv /\ HeldInv)
  OBVIOUS
<1>1. Init => LockInv /\ HeldInv
  BY InitLock DEF Init, NoRecord, HeldInv, HoldsLock
<1>2. TypeOK /\ PayInv /\ LockInv /\ HeldInv /\ [Next]_vars => (LockInv /\ HeldInv)'
  BY StepLock
<1>. QED BY <1>1, <1>2, TypeCorrect, PayInvariant, PTL DEF Spec

(* A seller is never shut out by a settlement nobody can finish: the lock   *)
(* does not outlive what it was taken for.                                  *)
THEOREM LockNeverOrphaned == AllowTraps = FALSE => (Spec => []NoOrphanLock)
<1>. SUFFICES ASSUME AllowTraps = FALSE PROVE Spec => []NoOrphanLock
  OBVIOUS
<1>1. LockInv => NoOrphanLock
  BY DEF LockInv, LockNamesLive, Live, Receiving, NoOrphanLock
<1>. QED BY <1>1, LockInvariant, PTL

-----------------------------------------------------------------------------
(* Sellers that submit no batch settle: their targets are never touched, so *)
(* every open settlement holds its lock.                                    *)
NoSettles == \A r \in Request : r.kind # "settle"

TargetsUnused ==
  /\ \A k \in Key : k.kind = "target" => rec[k].status = "none"
  /\ \A h \in Handler : hs[h].pc # "idle" => hs[h].key.kind # "target"

LEMMA CallKeepsTargets ==
  ASSUME TypeOK, TargetsUnused, NEW h \in Handler, NEW c, Step(h, c),
         c.pc # "idle" => c.key.kind # "target",
         NEW k, k.kind # "target", \A j \in Key \ {k} : rec'[j] = rec[j]
  PROVE  TargetsUnused'
<1>1. hs'[h] = c /\ \A g \in Handler \ {h} : hs'[g] = hs[g] BY StepFrame
<1>. QED BY <1>1 DEF TargetsUnused

LEMMA StepTargets ==
  ASSUME AllowTraps = FALSE, NoSettles, TypeOK, LockInv, TargetsUnused,
         [Next]_vars
  PROVE  TargetsUnused'
<1>0. \A h \in Handler : hs[h].pc \notin {"receiver", "receiverRead"}
  <2>. SUFFICES ASSUME NEW h \in Handler, Receiving(hs[h]) PROVE FALSE
    BY DEF Receiving
  <2>1. hs[h].pc # "idle" /\ hs[h].key.kind = "settle"
    BY DEF LockInv, CallKind, Receiving
  <2>2. hs[h].key \in Key BY <2>1, CallFacts
  <2>. QED BY <2>1, <2>2 DEF NoSettles, Key, Target
<1>1. ASSUME NEW h \in Handler, Submit(h) PROVE TargetsUnused'
  <2>1. ASSUME NEW r \in Request, NEW f \in Fee, Settle(h, r, f)
        PROVE  TargetsUnused'
    <3>1. /\ r.kind # "target" /\ \A j \in Key \ {r} : rec'[j] = rec[j]
          /\ Step(h, Call("nonce", r, f, -1, 0))
      BY <2>1 DEF Settle, Inserted, TypeOK
    <3>. QED BY <3>1, CallKeepsTargets DEF Call
  <2>2. ASSUME NEW r \in Request, BuyCredit(h, r) PROVE TargetsUnused'
    <3>1. /\ r.kind # "target" /\ \A j \in Key \ {r} : rec'[j] = rec[j]
          /\ Step(h, Call("nonce", r, 0, -1, 0))
      BY <2>2 DEF BuyCredit, Inserted, TypeOK
    <3>. QED BY <3>1, CallKeepsTargets DEF Call
  <2>3. ASSUME NEW k \in Key, Replay(h, k) PROVE TargetsUnused'
    <3>1. k.kind # "target" /\ rec' = rec
      BY <2>3 DEF Replay, TargetsUnused
    <3>2. Step(h, Call("refresh", k, 0, rec[k].nonce, rec[k].gas))
      BY <2>3 DEF Replay
    <3>. QED BY <3>1, <3>2, CallKeepsTargets DEF Call
  <2>. QED BY <1>1, <2>1, <2>2, <2>3 DEF Submit, BatchSettle, NoSettles
<1>2. ASSUME NEW h \in Handler, Resume(h) PROVE TargetsUnused'
  <2>1. hs[h].pc # "idle" /\ hs[h].key.kind # "target"
    BY <1>0, <1>2 DEF Resume, ReceiverError, TargetCached, TargetNoop,
       TargetReserve, TargetRefuse, ReserveNonce, Replace, NonceError,
       SendFailed, ResendFailed, SendOk, SendAmbiguous, ReceiptSettled,
       ReceiptFailed, ConfirmPending, RefreshKeep, TargetsUnused
  <2>2. \A j \in Key \ {hs[h].key} : rec'[j] = rec[j]
    BY <1>0, <1>2 DEF Resume, ReceiverError, TargetCached, TargetNoop,
       TargetReserve, TargetRefuse, ReserveNonce, Replace, NonceError,
       SendFailed, ResendFailed, SendOk, SendAmbiguous, ReceiptSettled,
       ReceiptFailed, ConfirmPending, RefreshKeep, Abandon, RecordBroadcast,
       Inserted, TypeOK
  <2>3. \E c : Step(h, c) /\ (c.pc # "idle" => c.key = hs[h].key)
    <3>1. CASE \E n \in 0..MaxNonce : ReserveNonce(h, n)
      BY <3>1, CallLeaves
    <3>2. CASE \E n \in 0..MaxNonce : Replace(h, n) BY <3>2, CallLeaves
    <3>3. CASE \E g \in Gas : SendOk(h, g) BY <3>3, CallLeaves
    <3>4. CASE Step(h, Idle) BY <3>4, CallLeaves
    <3>. QED BY <1>0, <1>2, <3>1, <3>2, <3>3, <3>4
         DEF Resume, ReceiverError, TargetCached, TargetNoop, TargetReserve,
             TargetRefuse, NonceError, SendFailed, ResendFailed, SendAmbiguous,
             ReceiptSettled, ReceiptFailed, ConfirmPending, RefreshKeep, Abandon
  <2>. QED BY <2>1, <2>2, <2>3, CallKeepsTargets
<1>3. CASE rec' = rec /\ hs' = hs BY <1>3 DEF TargetsUnused
<1>. QED BY <1>0, <1>1, <1>2, <1>3
     DEF Next, Environment, Refuse, ReplayCached, Recover, ReadReceiver, Trap,
         Mine, ClaimOnChain, vars

(* Only a batch settle journals under a receiver and token of its own       *)
(* (rename_active_settlement_key).                                          *)
THEOREM TargetsStayUnused ==
  AllowTraps = FALSE /\ NoSettles => (Spec => []TargetsUnused)
<1>. SUFFICES ASSUME AllowTraps = FALSE, NoSettles PROVE Spec => []TargetsUnused
  OBVIOUS
<1>1. Init => TargetsUnused BY DEF Init, TargetsUnused, NoRecord, Idle
<1>2. TypeOK /\ LockInv /\ TargetsUnused /\ [Next]_vars => TargetsUnused'
  BY StepTargets
<1>. QED BY <1>1, <1>2, TypeCorrect, LockInvariant, PTL DEF Spec

(* Without interrupted calls, and for sellers that submit no batch settle,  *)
(* a settlement holds its lock from its checking record until the chain has *)
(* decided it, so the next one of the seller gets 429.                      *)
THEOREM LockHeld ==
  AllowTraps = FALSE /\ NoSettles => (Spec => []LockHeldWhileOpen)
<1>. SUFFICES ASSUME AllowTraps = FALSE, NoSettles
              PROVE  Spec => []LockHeldWhileOpen
  OBVIOUS
<1>1. HeldInv /\ TargetsUnused => LockHeldWhileOpen
  BY DEF HeldInv, HoldsLock, TargetsUnused, LockHeldWhileOpen
<1>. QED BY <1>1, LockInvariant, TargetsStayUnused, PTL

(* A transaction that may still execute belongs to an undecided broadcast.  *)
LEMMA OpenUndecided ==
  ASSUME TypeOK, PayInv, NEW k \in Key, Open(k)
  PROVE  rec[k].status = "broadcast" /\ ~Executed(k)
<1>1. PICK tx \in sent : tx.key = k /\ tx.nonce >= chainNonce
  BY DEF Open, TxsOf
<1>2. tx.nonce \in 0..MaxNonce BY DEF TypeOK, Tx
<1>3. CommittedAt(k, tx.nonce) BY <1>1, <1>2 DEF PayInv, UsesFit, TxUses
<1>4. ~Executed(k)
  <2>. SUFFICES ASSUME NEW m \in mined, m.tx.key = k PROVE FALSE
    BY DEF Executed
  <2>1. m.tx \in sent /\ m.tx.nonce < chainNonce BY DEF PayInv, MinedOnce
  <2>2. m.tx.nonce \in 0..MaxNonce /\ chainNonce \in Nat
    BY <2>1 DEF TypeOK, Tx
  <2>3. CommittedAt(k, m.tx.nonce) BY <2>1, <2>2 DEF PayInv, UsesFit, TxUses
  <2>. QED BY <1>1, <1>2, <1>3, <2>1, <2>2, <2>3 DEF CommittedAt
<1>5. RecordFits(k) BY DEF PayInv, RecordsFit
<1>6. tx.nonce # -1 BY <1>2, AmountAssumption
<1>. QED BY <1>3, <1>4, <1>5, <1>6
     DEF CommittedAt, RecordFits, Paid, Refused, Executed

(* README, 429 settlement_queue_busy: two settlements of a seller never     *)
(* have transactions waiting for the chain, unless one is a batch settle.   *)
SerialBesidesSettles ==
  \A k1, k2 \in Key :
    /\ k1.kind \notin {"credit", "target"} /\ k2.kind \notin {"credit", "target"}
    /\ k1.seller = k2.seller /\ Open(k1) /\ Open(k2)
    => k1 = k2

(* A second settlement of the seller waits for the first, even beside batch *)
(* settles that lost their lock (acquire_active_settlement).                *)
THEOREM OthersSerial == AllowTraps = FALSE => (Spec => []SerialBesidesSettles)
<1>. SUFFICES ASSUME AllowTraps = FALSE PROVE Spec => []SerialBesidesSettles
  OBVIOUS
<1>1. TypeOK /\ PayInv /\ HeldInv => SerialBesidesSettles
  <2>. SUFFICES ASSUME TypeOK, PayInv, HeldInv, NEW k1 \in Key, NEW k2 \in Key,
                       k1.kind \notin {"credit", "target"},
                       k2.kind \notin {"credit", "target"},
                       k1.seller = k2.seller, Open(k1), Open(k2)
                PROVE  k1 = k2
    BY DEF SerialBesidesSettles
  <2>1. HoldsLock(k1) /\ HoldsLock(k2) BY DEF HeldInv
  <2>2. lock[ScopeOf(k1)].key = k1 /\ lock[ScopeOf(k2)].key = k2
    BY <2>1, OpenUndecided DEF HoldsLock
  <2>. QED BY <2>2 DEF ScopeOf
<1>. QED BY <1>1, TypeCorrect, PayInvariant, LockInvariant, PTL

-----------------------------------------------------------------------------
(* Nonces of a single lock scope: only one call at a time prepares a        *)
(* payment, so the nonce it gives back is the last one handed out.          *)
OneScope == \A r1, r2 \in Request : ScopeOf(r1) = ScopeOf(r2)

(* A node has a transaction with nonce n, or a replay will sign one.        *)
FilledBy(n, records, txs) ==
  \/ \E tx \in txs : tx.nonce = n
  \/ \E k \in Key : records[k].status = "broadcast" /\ records[k].nonce = n

Filled(n) == FilledBy(n, rec, sent)
FilledNext(n) == FilledBy(n, rec', sent')

SendIsLast(c) ==
  c.pc = "send" => c.nonce = nextNonce - 1 /\ c.nonce >= chainNonce

GapInv ==
  /\ NoNonceGap
  /\ chainNonce <= nextNonce
  /\ \A h \in Handler : SendIsLast(hs[h])

LEMMA OnePrepares ==
  ASSUME NoSettles, OneScope, TypeOK, PayInv, LockInv, HeldInv, TargetsUnused,
         NEW g \in Handler, NEW h \in Handler, Preparing(hs[g]), Preparing(hs[h])
  PROVE  g = h
<1>1. ASSUME NEW i \in Handler, Preparing(hs[i])
      PROVE  hs[i].key \in Request /\ lock[ScopeOf(hs[i].key)].key = hs[i].key
  <2>1. hs[i].key \in Key /\ hs[i].key.kind # "target"
    BY <1>1, CallFacts DEF Preparing, TargetsUnused
  <2>2. hs[i].key \in Request BY <2>1 DEF Key, Target
  <2>3. rec[hs[i].key].status = "checking"
    BY <1>1 DEF PayInv, CallsFit, CallFits
  <2>. QED BY <2>1, <2>2, <2>3 DEF HeldInv, HoldsLock
<1>2. hs[g].key = hs[h].key BY <1>1 DEF OneScope
<1>. QED BY <1>2 DEF PayInv, PreparesAlone

(* A step that hands out no nonce and gives none back: what filled a nonce  *)
(* still does, and a call about to send waits, or its nonce is filled.      *)
LEMMA GapFrame ==
  ASSUME TypeOK, GapInv, nextNonce' = nextNonce, chainNonce' = chainNonce,
         \A n \in 0..MaxNonce : Filled(n) => FilledNext(n),
         \A h \in Handler : hs'[h].pc = "send" => hs'[h] = hs[h],
         \A h \in Handler : hs[h].pc = "send"
                              => hs'[h] = hs[h] \/ FilledNext(hs[h].nonce)
  PROVE  GapInv'
<1>1. ASSUME NEW n \in chainNonce..(nextNonce - 1)
      PROVE  FilledNext(n) \/ \E h \in Handler : hs'[h].pc = "send" /\ hs'[h].nonce = n
  <2>1. n \in 0..MaxNonce BY AmountAssumption DEF TypeOK
  <2>2. Filled(n) \/ \E h \in Handler : hs[h].pc = "send" /\ hs[h].nonce = n
    BY DEF GapInv, NoNonceGap, Filled, FilledNext, FilledBy
  <2>. QED BY <2>1, <2>2
<1>2. NoNonceGap' BY <1>1 DEF NoNonceGap, Filled, FilledNext, FilledBy
<1>3. \A h \in Handler : SendIsLast(hs[h])' BY DEF GapInv, SendIsLast
<1>. QED BY <1>2, <1>3 DEF GapInv

(* The same for a step of one call, whose record stays or is broadcast or   *)
(* decided with a nonce a node has.                                         *)
LEMMA CallKeepsGap ==
  ASSUME TypeOK, GapInv, nextNonce' = nextNonce, chainNonce' = chainNonce,
         NEW h \in Handler, NEW c, Step(h, c), c.pc # "send",
         hs[h].pc = "send" => FilledNext(hs[h].nonce),
         sent \subseteq sent', NEW k, \A j \in Key \ {k} : rec'[j] = rec[j],
         k \in Key /\ rec[k].status = "broadcast" => FilledNext(rec[k].nonce)
  PROVE  GapInv'
<1>1. hs'[h] = c /\ \A g \in Handler \ {h} : hs'[g] = hs[g] BY StepFrame
<1>2. ASSUME NEW n \in 0..MaxNonce, Filled(n) PROVE FilledNext(n)
  BY <1>2 DEF Filled, FilledNext, FilledBy
<1>. QED BY <1>1, <1>2, GapFrame

LEMMA ReserveKeepsGap ==
  ASSUME NoSettles, OneScope, TypeOK, PayInv, LockInv, HeldInv, TargetsUnused,
         NonceInv, GapInv, NEW h \in Handler, NEW n \in 0..MaxNonce,
         ReserveNonce(h, n)
  PROVE  GapInv'
<1>1. /\ nextNonce \in Nat /\ chainNonce \in Nat /\ MaxNonce \in Nat
      /\ chainNonce <= nextNonce /\ n \in Nat
  BY AmountAssumption DEF TypeOK, GapInv
<1>2. n <= nextNonce
  <2>. SUFFICES ASSUME n > nextNonce PROVE FALSE BY <1>1
  <2>1. nextNonce \in chainNonce..(n - 1) BY <1>1
  <2>2. PICK tx \in sent : tx.nonce = nextNonce
    BY <2>1 DEF ReserveNonce, MayReportNonce
  <2>3. tx.key \in Key /\ nextNonce \in 0..MaxNonce BY <2>2 DEF TypeOK, Tx
  <2>4. Uses(tx.key, nextNonce) BY <2>2 DEF Uses, TxUses
  <2>. QED BY <1>1, <2>3, <2>4 DEF NonceInv
<1>3. Larger(nextNonce, n) = nextNonce BY <1>1, <1>2 DEF Larger
<1>4. /\ nextNonce' = nextNonce + 1 /\ rec' = rec /\ sent' = sent
      /\ chainNonce' = chainNonce /\ hs[h].pc = "nonce"
  BY <1>3 DEF ReserveNonce, chain
<1>5. /\ hs'[h].pc = "send" /\ hs'[h].nonce = nextNonce
      /\ \A g \in Handler \ {h} : hs'[g] = hs[g]
  <2>1. PICK c : Step(h, c) /\ c.pc = "send" /\ c.nonce = nextNonce
    BY <1>1, <1>3, CallLeaves
  <2>. QED BY <2>1, StepFrame
<1>6. ASSUME NEW g \in Handler, hs'[g].pc = "send" PROVE g = h
  <2>. SUFFICES ASSUME g # h PROVE FALSE OBVIOUS
  <2>1. Preparing(hs[g]) /\ Preparing(hs[h]) BY <1>4, <1>5, <1>6 DEF Preparing
  <2>. QED BY <2>1, OnePrepares
<1>7. \A g \in Handler : SendIsLast(hs[g])'
  BY <1>1, <1>4, <1>5, <1>6 DEF SendIsLast
<1>8. ASSUME NEW m \in chainNonce'..(nextNonce' - 1)
      PROVE  FilledNext(m) \/ \E g \in Handler : hs'[g].pc = "send" /\ hs'[g].nonce = m
  <2>1. CASE m = nextNonce BY <1>5, <2>1
  <2>2. CASE m # nextNonce
    <3>1. m \in chainNonce..(nextNonce - 1) BY <1>1, <1>4, <2>2
    <3>2. Filled(m) \/ \E g \in Handler : hs[g].pc = "send" /\ hs[g].nonce = m
      BY <3>1 DEF GapInv, NoNonceGap, Filled, FilledNext, FilledBy
    <3>3. Filled(m) => FilledNext(m) BY <1>4 DEF Filled, FilledNext, FilledBy
    <3>4. \A g \in Handler : hs[g].pc = "send" => hs'[g] = hs[g] BY <1>4, <1>5
    <3>. QED BY <3>2, <3>3, <3>4
  <2>. QED BY <2>1, <2>2
<1>9. NoNonceGap' BY <1>8 DEF NoNonceGap, Filled, FilledNext, FilledBy
<1>. QED BY <1>1, <1>4, <1>7, <1>9 DEF GapInv

(* The last nonce is given back.                                            *)
LEMMA FailureKeepsGap ==
  ASSUME NoSettles, OneScope, TypeOK, PayInv, LockInv, HeldInv, TargetsUnused,
         GapInv, NEW h \in Handler, SendFailed(h)
  PROVE  GapInv'
<1>1. /\ hs[h].pc = "send" /\ hs[h].key \in Key
      /\ hs[h].nonce = nextNonce - 1 /\ hs[h].nonce >= chainNonce
      /\ nextNonce \in Int /\ chainNonce \in Int
  BY CallFacts DEF SendFailed, GapInv, SendIsLast, TypeOK
<1>2. nextNonce' = nextNonce - 1 /\ sent' = sent /\ chainNonce' = chainNonce
  BY <1>1 DEF SendFailed, RolledBack, chain
<1>3. /\ \A j \in Key \ {hs[h].key} : rec'[j] = rec[j]
      /\ rec[hs[h].key].status = "checking"
  BY <1>1 DEF SendFailed, Abandon, TypeOK, PayInv, CallsFit, CallFits, Preparing
<1>4. hs'[h].pc = "idle" /\ \A g \in Handler \ {h} : hs'[g] = hs[g]
  BY StepFrame DEF SendFailed, Abandon, Idle
<1>5. \A g \in Handler : hs[g].pc = "send" => g = h
  BY <1>1, OnePrepares DEF Preparing
<1>6. \A g \in Handler : hs'[g].pc # "send" BY <1>4, <1>5
<1>7. ASSUME NEW m \in chainNonce..(nextNonce' - 1) PROVE FilledNext(m)
  <2>1. m \in chainNonce..(nextNonce - 1) /\ m # hs[h].nonce BY <1>1, <1>2
  <2>2. Filled(m) BY <1>5, <2>1 DEF GapInv, NoNonceGap, Filled, FilledNext, FilledBy
  <2>. QED BY <1>2, <1>3, <2>2 DEF Filled, FilledNext, FilledBy
<1>8. NoNonceGap' BY <1>2, <1>7 DEF NoNonceGap, Filled, FilledNext, FilledBy
<1>. QED BY <1>1, <1>2, <1>6, <1>8 DEF GapInv, SendIsLast

(* The chain executes the transaction with the lowest open nonce, which is  *)
(* not the one of a call that has not sent yet.                             *)
LEMMA MineKeepsGap ==
  ASSUME TypeOK, NonceInv, GapInv, NEW tx \in sent, NEW ok \in BOOLEAN,
         Mine(tx, ok)
  PROVE  GapInv'
<1>1. /\ tx.key \in Key /\ tx.nonce \in 0..MaxNonce /\ tx.nonce = chainNonce
      /\ TxUses(tx.key, tx.nonce)
      /\ nextNonce \in Int /\ chainNonce \in Int
  BY DEF TypeOK, Tx, TxUses, Mine
<1>2. /\ chainNonce' = chainNonce + 1 /\ nextNonce' = nextNonce /\ rec' = rec
      /\ sent' = sent /\ hs' = hs
  BY DEF Mine
<1>3. chainNonce < nextNonce BY <1>1 DEF NonceInv, Uses
<1>4. ASSUME NEW h \in Handler PROVE SendIsLast(hs[h])'
  <2>. SUFFICES ASSUME hs[h].pc = "send" PROVE hs[h].nonce # chainNonce
    <3>1. hs[h].pc = "send" => hs[h].nonce \in Int BY CallFacts
    <3>. QED BY <1>1, <1>2, <3>1 DEF SendIsLast, GapInv
  <2>. QED BY <1>1 DEF NonceInv, SoleUser
<1>5. NoNonceGap'
  BY <1>1, <1>2 DEF GapInv, NoNonceGap
<1>. QED BY <1>1, <1>2, <1>3, <1>4, <1>5 DEF GapInv

LEMMA SubmitKeepsGap ==
  ASSUME NoSettles, TypeOK, GapInv, NEW h \in Handler, Submit(h)
  PROVE  GapInv'
<1>0. /\ nextNonce' = nextNonce /\ chainNonce' = chainNonce /\ sent' = sent
      /\ hs[h].pc = "idle"
  BY DEF Submit, Settle, BatchSettle, BuyCredit, Replay, chain
<1>1. \E c : Step(h, c) /\ c.pc # "send" BY CallBegins
<1>2. PICK k : /\ k \in Key => rec[k].status # "broadcast" \/ rec' = rec
               /\ \A j \in Key \ {k} : rec'[j] = rec[j]
  BY DEF Submit, Settle, BatchSettle, BuyCredit, Replay, Inserted, TypeOK
<1>3. k \in Key /\ rec[k].status = "broadcast" => FilledNext(rec[k].nonce)
  BY <1>2 DEF Filled, FilledNext, FilledBy
<1>. QED BY <1>0, <1>1, <1>2, <1>3, CallKeepsGap

LEMMA ResumeKeepsGap ==
  ASSUME NoSettles, OneScope, TypeOK, PayInv, LockInv, HeldInv, TargetsUnused,
         NonceInv, GapInv, NEW h \in Handler, Resume(h)
  PROVE  GapInv'
<1>0. hs[h].pc \notin {"receiver", "receiverRead"}
  <2>. SUFFICES ASSUME Receiving(hs[h]) PROVE FALSE BY DEF Receiving
  <2>1. hs[h].pc # "idle" /\ hs[h].key.kind = "settle"
    BY DEF LockInv, CallKind, Receiving
  <2>2. hs[h].key \in Key BY <2>1, CallFacts
  <2>. QED BY <2>1, <2>2 DEF NoSettles, Key, Target
<1>1. PICK k \in Key : k = hs[h].key
  BY <1>0, CallFacts DEF Resume, ReceiverError, TargetCached, TargetNoop,
     TargetReserve, TargetRefuse, ReserveNonce, Replace, NonceError,
     SendFailed, ResendFailed, SendOk, SendAmbiguous, ReceiptSettled,
     ReceiptFailed, ConfirmPending, RefreshKeep
<1>2. hs[h] \in CallState /\ CallFits(hs[h]) BY DEF TypeOK, PayInv, CallsFit
<1>3. ASSUME NEW n \in 0..MaxNonce, Replace(h, n) PROVE GapInv'
  <2>1. PICK c : c = [hs[h] EXCEPT !.pc = "resend", !.nonce = n] OBVIOUS
  <2>2. c.pc = "resend" BY <1>2, <2>1 DEF CallState
  <2>3. rec' = rec /\ sent' = sent /\ chainNonce' = chainNonce /\ Step(h, c)
        /\ nextNonce' = nextNonce /\ hs[h].pc = "refresh"
    BY <1>3, <2>1 DEF Replace, chain
  <2>4. rec[k].status = "broadcast" => FilledNext(rec[k].nonce)
    BY <2>3 DEF Filled, FilledNext, FilledBy
  <2>. QED BY <2>2, <2>3, <2>4, CallKeepsGap
<1>4. CASE ResendFailed(h) \/ RefreshKeep(h)
  <2>1. rec' = rec /\ sent' = sent /\ chainNonce' = chainNonce /\ Step(h, Idle)
        /\ nextNonce' = nextNonce /\ hs[h].pc # "send" /\ Idle.pc # "send"
    BY <1>4 DEF ResendFailed, RefreshKeep, chain, Idle
  <2>2. rec[k].status = "broadcast" => FilledNext(rec[k].nonce)
    BY <2>1 DEF Filled, FilledNext, FilledBy
  <2>. QED BY <2>1, <2>2, CallKeepsGap
<1>5. CASE NonceError(h)
  <2>1. rec[k].status = "checking"
    BY <1>1, <1>2, <1>5 DEF NonceError, CallFits, Preparing
  <2>2. /\ \A j \in Key \ {k} : rec'[j] = rec[j]
        /\ sent' = sent /\ chainNonce' = chainNonce /\ Step(h, Idle)
        /\ nextNonce' = nextNonce /\ hs[h].pc # "send" /\ Idle.pc # "send"
    BY <1>1, <1>5 DEF NonceError, Abandon, chain, Idle, TypeOK
  <2>. QED BY <2>1, <2>2, CallKeepsGap
<1>6. ASSUME NEW g \in Gas \cup {0}, RecordBroadcast(h, g), sent \subseteq sent',
             nextNonce' = nextNonce, chainNonce' = chainNonce,
             NEW c, Step(h, c), c.pc # "send",
             hs[h].pc \in {"send", "resend", "confirm"}
      PROVE  GapInv'
  <2>1. /\ rec'[k].status = "broadcast" /\ rec'[k].nonce = hs[h].nonce
        /\ \A j \in Key \ {k} : rec'[j] = rec[j]
    BY <1>1, <1>6 DEF RecordBroadcast, Inserted, TypeOK
  <2>2. FilledNext(hs[h].nonce) BY <2>1, StepFrame DEF Filled, FilledNext, FilledBy
  <2>3. rec[k].status = "broadcast" => rec[k].nonce = hs[h].nonce
    BY <1>1, <1>2, <1>6 DEF CallFits, Preparing, Watching, CommittedAt
  <2>. QED BY <1>6, <2>1, <2>2, <2>3, CallKeepsGap
<1>7. ASSUME NEW g \in Gas, SendOk(h, g) \/ SendAmbiguous(h, g) PROVE GapInv'
  <2>1. PICK c : Step(h, c) /\ c.pc # "send" BY <1>7, CallLeaves
  <2>2. /\ RecordBroadcast(h, g) /\ sent \subseteq sent' /\ nextNonce' = nextNonce
        /\ chainNonce' = chainNonce /\ hs[h].pc \in {"send", "resend"}
    BY <1>7 DEF SendOk, SendAmbiguous
  <2>. QED BY <1>6, <2>1, <2>2
<1>8. CASE ConfirmPending(h)
  <2>1. hs[h].gas \in Gas \cup {0} /\ Idle.pc # "send"
    BY <1>2 DEF CallState, Idle
  <2>. QED BY <1>6, <1>8, <2>1 DEF ConfirmPending, chain
<1>9. CASE ReceiptSettled(h) \/ ReceiptFailed(h)
  <2>1. /\ \A j \in Key \ {k} : rec'[j] = rec[j]
        /\ sent' = sent /\ chainNonce' = chainNonce /\ Step(h, Idle)
        /\ nextNonce' = nextNonce /\ hs[h].pc \in {"confirm", "refresh"}
        /\ Idle.pc # "send"
    BY <1>1, <1>9 DEF ReceiptSettled, ReceiptFailed, Inserted, chain, Idle, TypeOK
  <2>2. PICK m \in mined : m.tx = Awaited(h)
    BY <1>9 DEF ReceiptSettled, ReceiptFailed, Receipt
  <2>3. m.tx \in sent /\ m.tx.nonce = hs[h].nonce
    BY <2>2 DEF Awaited, PayInv, MinedOnce
  <2>4. CommittedAt(k, hs[h].nonce) BY <1>1, <1>2, <2>1 DEF CallFits, Watching
  <2>5. FilledNext(rec[k].nonce) BY <2>1, <2>3, <2>4 DEF Filled, FilledNext, FilledBy, CommittedAt
  <2>. QED BY <2>1, <2>5, CallKeepsGap
<1>. QED BY <1>0, <1>3, <1>4, <1>5, <1>7, <1>8, <1>9, ReserveKeepsGap,
     FailureKeepsGap
     DEF Resume, ReceiverError, TargetCached, TargetNoop, TargetReserve,
         TargetRefuse

LEMMA StepGap ==
  ASSUME AllowTraps = FALSE, NoSettles, OneScope, TypeOK, PayInv, LockInv,
         HeldInv, TargetsUnused, NonceInv, GapInv, [Next]_vars
  PROVE  GapInv'
<1>1. CASE \E h \in Handler : Submit(h) BY <1>1, SubmitKeepsGap
<1>2. CASE \E h \in Handler : Resume(h) BY <1>2, ResumeKeepsGap
<1>3. CASE \E tx \in sent, ok \in BOOLEAN : Mine(tx, ok) BY <1>3, MineKeepsGap
<1>4. CASE \E h \in Handler : ReadReceiver(h)
  <2>. PICK h \in Handler : ReadReceiver(h) BY <1>4
  <2>1. hs[h].pc = "receiver" /\ hs[h].key \in Key
    BY CallFacts DEF ReadReceiver
  <2>2. hs[h].key.kind = "settle" BY <2>1 DEF LockInv, CallKind, Receiving
  <2>. QED BY <2>1, <2>2 DEF NoSettles, Key, Target
<1>5. CASE /\ rec' = rec /\ hs' = hs /\ sent' = sent /\ nextNonce' = nextNonce
           /\ chainNonce' = chainNonce
  BY <1>5 DEF GapInv, NoNonceGap, SendIsLast
<1>. QED BY <1>1, <1>2, <1>3, <1>4, <1>5
     DEF Next, Environment, Refuse, ReplayCached, Recover, Trap, ClaimOnChain,
         vars, chain

(* No reserved nonce is lost: with one lock scope, no batch settles and no  *)
(* interrupted calls, every nonce up to nextNonce is in a pool, about to be *)
(* sent, or kept by a broadcast record (reserve_nonce,                      *)
(* rollback_reserved_nonce).                                                *)
THEOREM NoncesHaveNoGap ==
  AllowTraps = FALSE /\ NoSettles /\ OneScope => (Spec => []NoNonceGap)
<1>. SUFFICES ASSUME AllowTraps = FALSE, NoSettles, OneScope
              PROVE  Spec => []NoNonceGap
  OBVIOUS
<1>1. Init => GapInv BY DEF Init, GapInv, NoNonceGap, SendIsLast, Idle
<1>2. /\ TypeOK /\ PayInv /\ LockInv /\ HeldInv /\ TargetsUnused /\ NonceInv
      /\ GapInv /\ [Next]_vars
      => GapInv'
  BY StepGap
<1>3. GapInv => NoNonceGap BY DEF GapInv
<1>. QED BY <1>1, <1>2, <1>3, TypeCorrect, PayInvariant, LockInvariant,
     TargetsStayUnused, NonceInvariant, PTL DEF Spec
=============================================================================
