--------------------------- MODULE SettlementProofs ---------------------------
(***************************************************************************)
(* What holds of the settlement engine for any number of sellers, calls    *)
(* and payments, any fees, gas prices and bounds, traps included: types,   *)
(* nonces, fees and the sellers' credit.                                   *)
(***************************************************************************)
EXTENDS SettlementProperties, FiniteSetTheorems, TLAPS

-----------------------------------------------------------------------------
(* Types of what the actions are built from.                               *)

(* A key has a kind, a seller and a scope, and is not None.                 *)
LEMMA KeyFacts ==
  ASSUME NEW k \in Key
  PROVE  /\ k \in KeySpace /\ k # None
         /\ k.kind \in Kind /\ k.seller \in Seller
         /\ ScopeOf(k) \in Scope
BY KeyAssumption DEF Key, KeySpace, Target, Kind, Scope, ScopeOf

(* insert_settlement keeps the record table well typed.                     *)
LEMMA InsertedType ==
  ASSUME TypeOK, NEW k \in Key, NEW st \in Status, NEW n \in -1..MaxNonce,
         NEW g \in Gas \cup {0}, NEW f \in Nat
  PROVE  Inserted(k, st, n, g, f) \in [Key -> SettlementRecord]
BY DEF TypeOK, Inserted, SettlementRecord

LEMMA NoRecordType ==
  ASSUME TypeOK, NEW k \in Key
  PROVE  [rec EXCEPT ![k] = NoRecord] \in [Key -> SettlementRecord]
BY AmountAssumption DEF TypeOK, NoRecord, SettlementRecord, Status

(* Every operation on the lock table keeps it well typed.                   *)
LEMMA LockTypes ==
  ASSUME TypeOK, NEW k \in Key
  PROVE  /\ Acquired(k) \in [Scope -> ActiveSettlement]
         /\ \A l \in [Scope -> ActiveSettlement] :
              Released(l, k) \in [Scope -> ActiveSettlement]
         /\ ReleasedByKey(k) \in [Scope -> ActiveSettlement]
         /\ \A new \in Key : Renamed(k, new) \in [Scope -> ActiveSettlement]
         /\ \A n \in -1..MaxNonce :
              WithActiveTx(k, n) \in [Scope -> ActiveSettlement]
<1>. /\ lock \in [Scope -> ActiveSettlement]
     /\ ScopeOf(k) \in Scope /\ Free \in ActiveSettlement
  BY KeyFacts, AmountAssumption DEF TypeOK, ActiveSettlement, Free
<1>1. Acquired(k) \in [Scope -> ActiveSettlement]
  BY AmountAssumption DEF Acquired, ActiveSettlement
<1>2. \A l \in [Scope -> ActiveSettlement] :
        Released(l, k) \in [Scope -> ActiveSettlement]
  BY DEF Released, ActiveSettlement
<1>3. ReleasedByKey(k) \in [Scope -> ActiveSettlement]
  BY DEF ReleasedByKey, ActiveSettlement
<1>4. \A new \in Key : Renamed(k, new) \in [Scope -> ActiveSettlement]
  BY DEF Renamed, ActiveSettlement
<1>5. \A n \in -1..MaxNonce : WithActiveTx(k, n) \in [Scope -> ActiveSettlement]
  BY DEF WithActiveTx, ActiveSettlement
<1>. QED BY <1>1, <1>2, <1>3, <1>4, <1>5

(* A call that moves to a well-typed state keeps the calls well typed.      *)
LEMMA StepType ==
  ASSUME TypeOK, NEW h \in Handler, NEW c, CallOK(c), Step(h, c)
  PROVE  hs' \in [Handler -> CallState] /\ \A g \in Handler : CallOK(hs'[g])
<1>. hs' = [hs EXCEPT ![h] = c] /\ c \in CallState
  BY DEF Step, CallOK
<1>. QED BY DEF TypeOK

LEMMA IdleOK == CallOK(Idle)
BY AmountAssumption DEF CallOK, CallState, Idle, PC, NothingSeen

LEMMA CallTypes ==
  ASSUME NEW k \in Key, NEW pc \in PC, NEW f \in Nat, NEW n \in -1..MaxNonce,
         NEW g \in Gas \cup {0},
         pc \in {"send", "resend", "confirm"} => n # -1,
         pc = "confirm" => g \in Gas
  PROVE  CallOK(Call(pc, k, f, n, g))
BY AmountAssumption DEF CallOK, CallState, Call, NothingSeen

LEMMA SigningCallType ==
  ASSUME NEW c, CallOK(c), c.pc # "idle", NEW pc \in {"send", "resend"},
         NEW n \in 0..MaxNonce
  PROVE  CallOK([c EXCEPT !.pc = pc, !.nonce = n])
<1>. DEFINE d == [c EXCEPT !.pc = pc, !.nonce = n]
<1>1. n \in -1..MaxNonce /\ n # -1 BY AmountAssumption
<1>2. c \in CallState /\ c.key \in Key /\ pc \in PC BY DEF CallOK, PC
<1>3. d \in CallState BY <1>1, <1>2 DEF CallState
<1>4. d.pc = pc /\ d.nonce = n /\ d.key = c.key BY <1>2 DEF CallState
<1>. QED BY <1>1, <1>2, <1>3, <1>4 DEF CallOK

(* What TypeOK says of the record of a key and of a call in flight.         *)
LEMMA RecordFacts ==
  ASSUME TypeOK, NEW k \in Key
  PROVE  /\ rec[k].nonce \in -1..MaxNonce /\ rec[k].gas \in Gas \cup {0}
         /\ rec[k].fee \in Nat /\ rec[k].status \in Status
BY DEF TypeOK, SettlementRecord

LEMMA CallFacts ==
  ASSUME TypeOK, NEW h \in Handler, hs[h].pc # "idle"
  PROVE  /\ hs[h].key \in Key /\ hs[h].fee \in Nat
         /\ hs[h].nonce \in -1..MaxNonce /\ hs[h].gas \in Gas \cup {0}
         /\ TargetOf(h) \in Key
         /\ hs[h].pc \in {"send", "resend", "confirm"} => hs[h].nonce # -1
         /\ hs[h].pc = "confirm" => hs[h].gas \in Gas
<1>1. CallOK(hs[h]) BY DEF TypeOK
<1>2. hs[h].key.seller \in Seller BY <1>1, KeyFacts DEF CallOK
<1>3. TargetOf(h) \in Key
  BY <1>1, <1>2 DEF TargetOf, Key, CallOK, CallState
<1>. QED BY <1>1, <1>3 DEF CallOK, CallState

LEMMA InitType == Init => TypeOK
<1>. SUFFICES ASSUME Init PROVE TypeOK OBVIOUS
<1>1. NoRecord \in SettlementRecord /\ Free \in ActiveSettlement
  BY AmountAssumption DEF NoRecord, SettlementRecord, Status, Free, ActiveSettlement
<1>2. CallOK(Idle) /\ Idle \in CallState BY IdleOK DEF CallOK
<1>. QED BY <1>1, <1>2, AmountAssumption DEF Init, TypeOK

-----------------------------------------------------------------------------
(* Type correctness, one lemma per group of actions.                       *)

LEMMA SubmitType ==
  ASSUME TypeOK, NEW h \in Handler, Submit(h)
  PROVE  TypeOK'
<1>1. CASE \E r \in Request, f \in Fee : Settle(h, r, f)
  <2>. PICK r \in Request, f \in Fee : Settle(h, r, f) BY <1>1
  <2>. r \in Key /\ r.seller \in Seller /\ f \in Nat
    BY KeyFacts, AmountAssumption DEF Key
  <2>1. CallOK(Call("nonce", r, f, -1, 0))
    BY CallTypes, AmountAssumption DEF PC
  <2>2. hs' \in [Handler -> CallState] /\ \A g \in Handler : CallOK(hs'[g])
    BY <2>1, StepType DEF Settle
  <2>3. rec' \in [Key -> SettlementRecord]
    BY InsertedType, AmountAssumption DEF Settle, Status
  <2>4. lock' \in [Scope -> ActiveSettlement] BY LockTypes DEF Settle
  <2>. QED BY <2>2, <2>3, <2>4 DEF Settle, HasCredit, TypeOK, chain
<1>2. CASE \E r \in Request, f \in Fee : BatchSettle(h, r, f)
  <2>. PICK r \in Request, f \in Fee : BatchSettle(h, r, f) BY <1>2
  <2>. r \in Key /\ f \in Nat BY AmountAssumption DEF Key
  <2>1. CallOK(Call("receiver", r, f, -1, 0))
    BY CallTypes, AmountAssumption DEF PC
  <2>2. hs' \in [Handler -> CallState] /\ \A g \in Handler : CallOK(hs'[g])
    BY <2>1, StepType DEF BatchSettle
  <2>3. lock' \in [Scope -> ActiveSettlement] BY LockTypes DEF BatchSettle
  <2>. QED BY <2>2, <2>3 DEF BatchSettle, TypeOK, chain, ledger
<1>3. CASE \E r \in Request : BuyCredit(h, r)
  <2>. PICK r \in Request : BuyCredit(h, r) BY <1>3
  <2>. r \in Key BY DEF Key
  <2>1. CallOK(Call("nonce", r, 0, -1, 0))
    BY CallTypes, AmountAssumption DEF PC
  <2>2. hs' \in [Handler -> CallState] /\ \A g \in Handler : CallOK(hs'[g])
    BY <2>1, StepType DEF BuyCredit
  <2>3. rec' \in [Key -> SettlementRecord]
    BY InsertedType, AmountAssumption DEF BuyCredit, Status
  <2>4. lock' \in [Scope -> ActiveSettlement] BY LockTypes DEF BuyCredit
  <2>. QED BY <2>2, <2>3, <2>4 DEF BuyCredit, TypeOK, chain, ledger
<1>4. CASE \E k \in Key : Replay(h, k)
  <2>. PICK k \in Key : Replay(h, k) BY <1>4
  <2>1. CallOK(Call("refresh", k, 0, rec[k].nonce, rec[k].gas))
    BY CallTypes, RecordFacts DEF PC
  <2>2. hs' \in [Handler -> CallState] /\ \A g \in Handler : CallOK(hs'[g])
    BY <2>1, StepType DEF Replay
  <2>. QED BY <2>2 DEF Replay, TypeOK, chain, ledger
<1>. QED BY <1>1, <1>2, <1>3, <1>4 DEF Submit

(* A batch settle call resumes with the receiver state.                     *)
LEMMA TargetType ==
  ASSUME TypeOK, NEW h \in Handler,
         \/ ReadReceiver(h) \/ ReceiverError(h) \/ TargetCached(h)
         \/ TargetNoop(h) \/ TargetReserve(h) \/ TargetRefuse(h)
  PROVE  TypeOK'
<1>. DEFINE k == TargetOf(h)
<1>. /\ hs[h].pc # "idle" /\ hs[h].key \in Key /\ hs[h].key.seller \in Seller
     /\ k \in Key /\ k.seller \in Seller /\ hs[h].fee \in Nat
  BY CallFacts, KeyFacts DEF ReadReceiver, ReceiverError, TargetCached,
     TargetNoop, TargetReserve, TargetRefuse
<1>. CallOK(Idle) BY IdleOK
<1>. lock \in [Scope -> ActiveSettlement] BY DEF TypeOK
<1>. HIDE DEF k
<1>1. CASE ReadReceiver(h)
  <2>. DEFINE s == hs[h].key.seller
              c == [hs[h] EXCEPT !.pc = "receiverRead",
                                 !.seen = [claimed |-> claimed[s],
                                           settled |-> paidOut[s]]]
  <2>1. claimed[s] \in 0..MaxClaimed /\ paidOut[s] \in 0..MaxClaimed
    BY DEF TypeOK
  <2>2. CallOK(c)
    BY <2>1 DEF TypeOK, CallOK, CallState, PC
  <2>3. hs' \in [Handler -> CallState] /\ \A g \in Handler : CallOK(hs'[g])
    BY <1>1, <2>2, StepType DEF ReadReceiver
  <2>. QED BY <1>1, <2>3 DEF ReadReceiver, TypeOK, chain, ledger
<1>2. CASE ReceiverError(h)
  <2>1. hs' \in [Handler -> CallState] /\ \A g \in Handler : CallOK(hs'[g])
    BY <1>2, StepType DEF ReceiverError
  <2>2. lock' \in [Scope -> ActiveSettlement]
    BY <1>2, LockTypes DEF ReceiverError
  <2>. QED BY <1>2, <2>1, <2>2 DEF ReceiverError, TypeOK, chain, ledger
<1>3. CASE TargetCached(h)
  <2>1. CallOK(Call("refresh", k, 0, rec[k].nonce, rec[k].gas))
    BY CallTypes, RecordFacts DEF PC
  <2>2. hs' \in [Handler -> CallState] /\ \A g \in Handler : CallOK(hs'[g])
    BY <1>3, <2>1, StepType DEF TargetCached, k
  <2>3. lock' \in [Scope -> ActiveSettlement]
    BY <1>3, LockTypes DEF TargetCached
  <2>. QED BY <1>3, <2>2, <2>3 DEF TargetCached, TypeOK, chain, ledger
<1>4. CASE TargetNoop(h)
  <2>1. hs' \in [Handler -> CallState] /\ \A g \in Handler : CallOK(hs'[g])
    BY <1>4, StepType DEF TargetNoop
  <2>2. rec' \in [Key -> SettlementRecord]
    BY <1>4, InsertedType, AmountAssumption DEF TargetNoop, Status, k
  <2>3. lock' \in [Scope -> ActiveSettlement]
    BY <1>4, LockTypes DEF TargetNoop, k
  <2>. QED BY <1>4, <2>1, <2>2, <2>3 DEF TargetNoop, TypeOK, chain, ledger
<1>5. CASE TargetReserve(h)
  <2>1. CallOK(Call("nonce", k, hs[h].fee, -1, 0))
    BY CallTypes, AmountAssumption DEF PC
  <2>2. hs' \in [Handler -> CallState] /\ \A g \in Handler : CallOK(hs'[g])
    BY <1>5, <2>1, StepType DEF TargetReserve, k
  <2>3. rec' \in [Key -> SettlementRecord]
    BY <1>5, InsertedType, AmountAssumption DEF TargetReserve, Status, k
  <2>4. lock' \in [Scope -> ActiveSettlement]
    BY <1>5, LockTypes DEF TargetReserve, k
  <2>5. credit' \in [Seller -> Nat]
    BY <1>5 DEF TargetReserve, HasCredit, TypeOK, k
  <2>. QED BY <1>5, <2>2, <2>3, <2>4, <2>5 DEF TargetReserve, TypeOK, chain
<1>6. CASE TargetRefuse(h)
  <2>1. hs' \in [Handler -> CallState] /\ \A g \in Handler : CallOK(hs'[g])
    BY <1>6, StepType DEF TargetRefuse
  <2>2. lock' \in [Scope -> ActiveSettlement]
    BY <1>6, LockTypes DEF TargetRefuse, k
  <2>. QED BY <1>6, <2>1, <2>2 DEF TargetRefuse, TypeOK, chain, ledger
<1>. QED BY <1>1, <1>2, <1>3, <1>4, <1>5, <1>6

(* A call past the lock reserves its nonce, sends, or gives up.             *)
LEMMA BroadcastType ==
  ASSUME TypeOK, NEW h \in Handler,
         \/ \E n \in 0..MaxNonce : ReserveNonce(h, n) \/ Replace(h, n)
         \/ NonceError(h) \/ SendFailed(h) \/ ResendFailed(h)
         \/ \E g \in Gas : SendOk(h, g) \/ SendAmbiguous(h, g)
  PROVE  TypeOK'
<1>. DEFINE k == hs[h].key
<1>. /\ hs[h].pc # "idle" /\ k \in Key /\ k.seller \in Seller
     /\ hs[h].fee \in Nat /\ hs[h].nonce \in -1..MaxNonce
  BY CallFacts, KeyFacts DEF ReserveNonce, Replace, NonceError, SendFailed,
     ResendFailed, SendOk, SendAmbiguous
<1>. CallOK(hs[h]) /\ CallOK(Idle) BY IdleOK DEF TypeOK
<1>. lock \in [Scope -> ActiveSettlement] BY DEF TypeOK
<1>a. ASSUME Abandon(h)
      PROVE  /\ hs' \in [Handler -> CallState] /\ \A g \in Handler : CallOK(hs'[g])
             /\ rec' \in [Key -> SettlementRecord]
             /\ lock' \in [Scope -> ActiveSettlement]
             /\ credit' \in [Seller -> Nat]
  <2>1. hs' \in [Handler -> CallState] /\ \A g \in Handler : CallOK(hs'[g])
    BY <1>a, StepType DEF Abandon
  <2>2. rec' \in [Key -> SettlementRecord]
    BY <1>a, NoRecordType DEF Abandon
  <2>3. lock' \in [Scope -> ActiveSettlement] BY <1>a, LockTypes DEF Abandon
  <2>4. credit' \in [Seller -> Nat] BY <1>a DEF Abandon, TypeOK
  <2>. QED BY <2>1, <2>2, <2>3, <2>4
<1>b. ASSUME NEW g \in Gas, RecordBroadcast(h, g)
      PROVE  /\ rec' \in [Key -> SettlementRecord]
             /\ lock' \in [Scope -> ActiveSettlement]
  BY <1>b, InsertedType, LockTypes DEF RecordBroadcast, Status
<1>1. CASE \E n \in 0..MaxNonce : ReserveNonce(h, n)
  <2>. PICK n \in 0..MaxNonce : ReserveNonce(h, n) BY <1>1
  <2>. DEFINE m == Larger(nextNonce, n)
  <2>1. nextNonce \in Nat /\ n \in Nat /\ MaxNonce \in Nat
    BY AmountAssumption DEF TypeOK
  <2>2. m \in Nat BY <2>1 DEF Larger
  <2>3. m <= MaxNonce /\ nextNonce' = m + 1 BY DEF ReserveNonce
  <2>4. Step(h, [hs[h] EXCEPT !.pc = "send", !.nonce = m])
    BY DEF ReserveNonce
  <2>. HIDE DEF m
  <2>5. m \in 0..MaxNonce /\ nextNonce' \in 0..(MaxNonce + 1)
    BY <2>1, <2>2, <2>3
  <2>6. CallOK([hs[h] EXCEPT !.pc = "send", !.nonce = m])
    BY <2>5, SigningCallType
  <2>7. hs' \in [Handler -> CallState] /\ \A g \in Handler : CallOK(hs'[g])
    BY <2>4, <2>6, StepType
  <2>. QED BY <2>5, <2>7 DEF ReserveNonce, TypeOK, chain, ledger
<1>2. CASE \E n \in 0..MaxNonce : Replace(h, n)
  <2>. PICK n \in 0..MaxNonce : Replace(h, n) BY <1>2
  <2>1. CallOK([hs[h] EXCEPT !.pc = "resend", !.nonce = n])
    BY SigningCallType
  <2>2. hs' \in [Handler -> CallState] /\ \A g \in Handler : CallOK(hs'[g])
    BY <2>1, StepType DEF Replace
  <2>. QED BY <2>2 DEF Replace, TypeOK, chain, ledger
<1>3. CASE NonceError(h)
  BY <1>3, <1>a DEF NonceError, TypeOK, chain
<1>4. CASE SendFailed(h)
  <2>1. nextNonce' \in 0..(MaxNonce + 1)
    BY <1>4, AmountAssumption, CallFacts DEF SendFailed, RolledBack, TypeOK
  <2>2. Abandon(h) BY <1>4 DEF SendFailed
  <2>. QED BY <1>4, <1>a, <2>1, <2>2 DEF SendFailed, TypeOK, chain
<1>5. CASE ResendFailed(h)
  <2>1. hs' \in [Handler -> CallState] /\ \A g \in Handler : CallOK(hs'[g])
    BY <1>5, StepType DEF ResendFailed
  <2>. QED BY <1>5, <2>1 DEF ResendFailed, TypeOK, chain, ledger
<1>6. CASE \E g \in Gas : SendOk(h, g) \/ SendAmbiguous(h, g)
  <2>. PICK g \in Gas : SendOk(h, g) \/ SendAmbiguous(h, g) BY <1>6
  <2>. hs[h].pc \in {"send", "resend"} /\ RecordBroadcast(h, g)
    BY DEF SendOk, SendAmbiguous
  <2>1. Signed(h, g) \in Tx
    BY CallFacts, AmountAssumption DEF Signed, Tx
  <2>2. sent' \subseteq Tx
    BY <2>1 DEF SendOk, SendAmbiguous, TypeOK
  <2>3. CallOK([hs[h] EXCEPT !.pc = "confirm", !.gas = g])
    BY DEF CallOK, CallState, PC
  <2>4. hs' \in [Handler -> CallState] /\ \A i \in Handler : CallOK(hs'[i])
    BY <2>3, StepType DEF SendOk, SendAmbiguous
  <2>. QED BY <1>b, <2>2, <2>4 DEF SendOk, SendAmbiguous, TypeOK, ledger
<1>. QED BY <1>1, <1>2, <1>3, <1>4, <1>5, <1>6

LEMMA CreditOnceType ==
  ASSUME TypeOK, NEW k \in Key, CreditOnce(k)
  PROVE  credit' \in [Seller -> Nat] /\ credited' \subseteq Key
BY KeyFacts, AmountAssumption DEF CreditOnce, TypeOK, ledger

(* A call gets its receipt, or no answer it can use.                        *)
LEMMA ReceiptType ==
  ASSUME TypeOK, NEW h \in Handler,
         \/ ReceiptSettled(h) \/ ReceiptFailed(h) \/ ConfirmPending(h)
         \/ RefreshKeep(h)
  PROVE  TypeOK'
<1>. DEFINE k == hs[h].key
<1>. /\ hs[h].pc # "idle" /\ k \in Key
     /\ hs[h].fee \in Nat /\ hs[h].nonce \in -1..MaxNonce
     /\ hs[h].gas \in Gas \cup {0}
  BY CallFacts DEF ReceiptSettled, ReceiptFailed, ConfirmPending, RefreshKeep
<1>1. hs' \in [Handler -> CallState] /\ \A g \in Handler : CallOK(hs'[g])
  BY IdleOK, StepType DEF ReceiptSettled, ReceiptFailed, ConfirmPending,
     RefreshKeep
<1>2. ASSUME ReceiptSettled(h) \/ ReceiptFailed(h)
      PROVE  rec' \in [Key -> SettlementRecord]
             /\ lock' \in [Scope -> ActiveSettlement]
  <2>1. rec' \in [Key -> SettlementRecord]
    <3>1. \A st \in Status :
            Inserted(k, st, hs[h].nonce, hs[h].gas, hs[h].fee)
              \in [Key -> SettlementRecord]
      BY InsertedType
    <3>. QED BY <1>2, <3>1 DEF ReceiptSettled, ReceiptFailed, Status
  <2>2. lock' = ReleasedByKey(k)
    BY <1>2 DEF ReceiptSettled, ReceiptFailed
  <2>. QED BY <2>1, <2>2, LockTypes
<1>3. ASSUME ConfirmPending(h)
      PROVE  rec' \in [Key -> SettlementRecord]
             /\ lock' \in [Scope -> ActiveSettlement]
  <2>1. /\ lock' = WithActiveTx(k, hs[h].nonce)
        /\ rec' = Inserted(k, "broadcast", hs[h].nonce, hs[h].gas, hs[h].fee)
    BY <1>3 DEF ConfirmPending, RecordBroadcast
  <2>2. "broadcast" \in Status BY DEF Status
  <2>. QED BY <2>1, <2>2, LockTypes, InsertedType
<1>4. credit' \in [Seller -> Nat] /\ credited' \subseteq Key
  BY CreditOnceType DEF ReceiptSettled, ReceiptFailed, ConfirmPending,
     RefreshKeep, TypeOK, ledger
<1>. QED BY <1>1, <1>2, <1>3, <1>4 DEF ReceiptSettled, ReceiptFailed,
     ConfirmPending, RefreshKeep, TypeOK, chain

(* Steps outside the calls: refusals, cached answers, recovery, the chain.  *)
LEMMA OutsideType ==
  ASSUME TypeOK,
         \/ \E r \in Request : Refuse(r)
         \/ \E k \in Key : ReplayCached(k) \/ Recover(k)
         \/ \E h \in Handler : Trap(h)
         \/ \E tx \in sent, ok \in BOOLEAN : Mine(tx, ok)
         \/ \E s \in Seller : ClaimOnChain(s)
  PROVE  TypeOK'
<1>1. CASE \E r \in Request : Refuse(r)
  <2>. PICK r \in Request : Refuse(r) BY <1>1
  <2>1. lock' \in [Scope -> ActiveSettlement]
    BY LockTypes DEF Refuse, Key, TypeOK
  <2>. QED BY <2>1 DEF Refuse, TypeOK, chain, ledger
<1>2. CASE \E k \in Key : ReplayCached(k)
  <2>. PICK k \in Key : ReplayCached(k) BY <1>2
  <2>1. credit' \in [Seller -> Nat] /\ credited' \subseteq Key
    BY CreditOnceType DEF ReplayCached, TypeOK, ledger
  <2>. QED BY <2>1 DEF ReplayCached, TypeOK, chain
<1>3. CASE \E k \in Key : Recover(k)
  <2>. PICK k \in Key : Recover(k) BY <1>3
  <2>1. lock' \in [Scope -> ActiveSettlement] BY LockTypes DEF Recover
  <2>2. rec' \in [Key -> SettlementRecord] BY NoRecordType DEF Recover
  <2>3. credit' \in [Seller -> Nat]
    BY KeyFacts, RecordFacts DEF Recover, TypeOK
  <2>. QED BY <2>1, <2>2, <2>3 DEF Recover, TypeOK, chain
<1>4. CASE \E h \in Handler : Trap(h)
  <2>. PICK h \in Handler : Trap(h) BY <1>4
  <2>1. hs' \in [Handler -> CallState] /\ \A g \in Handler : CallOK(hs'[g])
    BY IdleOK, StepType DEF Trap
  <2>2. ASSUME NEW g \in Gas, hs[h].pc \in {"send", "resend"}
        PROVE  Signed(h, g) \in Tx
    BY <2>2, CallFacts, AmountAssumption DEF Signed, Tx
  <2>3. sent' \subseteq Tx BY <2>2 DEF Trap, TypeOK
  <2>. QED BY <2>1, <2>3 DEF Trap, TypeOK, ledger
<1>5. CASE \E tx \in sent, ok \in BOOLEAN : Mine(tx, ok)
  <2>. PICK tx \in sent, ok \in BOOLEAN : Mine(tx, ok) BY <1>5
  <2>. tx \in Tx /\ tx.nonce \in 0..MaxNonce /\ tx.key \in Key
    BY DEF TypeOK, Tx
  <2>1. chainNonce' \in 0..(MaxNonce + 1)
    BY AmountAssumption DEF Mine, TypeOK
  <2>2. mined' \subseteq [tx : Tx, ok : BOOLEAN] BY DEF Mine, TypeOK
  <2>3. paidOut' \in [Seller -> 0..MaxClaimed]
    BY KeyFacts DEF Mine, TypeOK
  <2>. QED BY <2>1, <2>2, <2>3 DEF Mine, TypeOK, ledger
<1>6. CASE \E s \in Seller : ClaimOnChain(s)
  <2>. PICK s \in Seller : ClaimOnChain(s) BY <1>6
  <2>1. claimed' \in [Seller -> 0..MaxClaimed]
    BY AmountAssumption DEF ClaimOnChain, TypeOK
  <2>. QED BY <2>1 DEF ClaimOnChain, TypeOK, ledger
<1>. QED BY <1>1, <1>2, <1>3, <1>4, <1>5, <1>6

(* Every call, record, lock entry and balance stays in its range; in        *)
(* particular no interleaving takes a seller's credit below zero            *)
(* (reserve_seller_credit) and no call signs without a nonce.               *)
THEOREM TypeCorrect == Spec => []TypeOK
<1>1. Init => TypeOK BY InitType
<1>2. TypeOK /\ [Next]_vars => TypeOK'
  <2>. SUFFICES ASSUME TypeOK, [Next]_vars PROVE TypeOK' OBVIOUS
  <2>1. CASE \E h \in Handler : Submit(h) BY <2>1, SubmitType
  <2>2. CASE \E h \in Handler : Resume(h)
    BY <2>2, TargetType, BroadcastType, ReceiptType DEF Resume
  <2>3. CASE \E r \in Request : Refuse(r) BY <2>3, OutsideType
  <2>4. CASE \E k \in Key : ReplayCached(k) \/ Recover(k)
    BY <2>4, OutsideType
  <2>5. CASE Environment BY <2>5, TargetType, OutsideType DEF Environment
  <2>6. CASE UNCHANGED vars BY <2>6 DEF vars, TypeOK, chain, ledger
  <2>. QED BY <2>1, <2>2, <2>3, <2>4, <2>5, <2>6 DEF Next
<1>. QED BY <1>1, <1>2, PTL DEF Spec

-----------------------------------------------------------------------------
(* Nonces.  NonceInv is inductive relative to TypeOK; NonceUnique is what   *)
(* it says of the transactions the nodes hold.                              *)

(* Of the operations on the lock table only update_active_broadcast makes   *)
(* an entry use a nonce.                                                    *)
LEMMA LockShrinks ==
  ASSUME TypeOK, NEW k \in Key, NEW new \in Key,
         \/ lock' = lock \/ lock' = Acquired(k) \/ lock' = Released(lock, k)
         \/ lock' = Renamed(k, new) \/ lock' = Released(Renamed(k, new), new)
         \/ lock' = ReleasedByKey(k)
  PROVE  \A j \in Key, n \in 0..MaxNonce : LockUses(j, n)' => LockUses(j, n)
<1>. SUFFICES ASSUME NEW j \in Key, NEW n \in 0..MaxNonce, NEW s \in Scope,
                     lock'[s].key = j, lock'[s].nonce = n
              PROVE  \/ lock[s].key = j /\ lock[s].nonce = n
                     \/ \E t \in Scope : lock[t].key = j /\ lock[t].nonce = n
  BY DEF LockUses
<1>. n # -1 /\ j # None BY KeyFacts, AmountAssumption
<1>. lock \in [Scope -> ActiveSettlement] BY DEF TypeOK
<1>. lock[s] \in ActiveSettlement OBVIOUS
<1>. ScopeOf(k) \in Scope /\ ScopeOf(new) \in Scope BY KeyFacts
<1>1. CASE lock' = lock BY <1>1
<1>2. CASE lock' = Acquired(k) BY <1>2 DEF Acquired
<1>3. CASE lock' = Released(lock, k) BY <1>3 DEF Released, Free
<1>4. ASSUME Renamed(k, new)[s].key = j, Renamed(k, new)[s].nonce = n
      PROVE  lock[s].key = j /\ lock[s].nonce = n
  BY <1>4 DEF Renamed, ActiveSettlement
<1>5. CASE lock' = Renamed(k, new) BY <1>4, <1>5
<1>6. CASE lock' = Released(Renamed(k, new), new)
  <2>1. Renamed(k, new) \in [Scope -> ActiveSettlement] BY LockTypes
  <2>2. lock'[s] = Renamed(k, new)[s] \/ lock'[s] = Free
    BY <1>6, <2>1 DEF Released
  <2>. QED BY <1>4, <2>2 DEF Free
<1>7. CASE lock' = ReleasedByKey(k) BY <1>7 DEF ReleasedByKey, Free
<1>. QED BY <1>1, <1>2, <1>3, <1>5, <1>6, <1>7

LEMMA LockBroadcast ==
  ASSUME TypeOK, NEW k \in Key, NEW m \in 0..MaxNonce, lock' = WithActiveTx(k, m)
  PROVE  \A j \in Key, n \in 0..MaxNonce :
           LockUses(j, n)' => LockUses(j, n) \/ (j = k /\ n = m)
<1>. lock \in [Scope -> ActiveSettlement] /\ ScopeOf(k) \in Scope
  BY KeyFacts DEF TypeOK
<1>. QED BY DEF LockUses, WithActiveTx, ActiveSettlement

(* A step of one call that leaves it without a reserved, unsent nonce, and  *)
(* hands at most the nonce it used to a node, or to the lock, or takes one  *)
(* from the lock.                                                           *)
LEMMA CallStepKeepsNonces ==
  ASSUME TypeOK, NonceInv, NEW h \in Handler,
         nextNonce' = nextNonce,
         hs'[h].pc # "send",
         \A g \in Handler \ {h} : hs'[g] = hs[g],
         \A k \in Key, n \in 0..MaxNonce :
           /\ TxUses(k, n)' => TxUses(k, n) \/ CallUses(h, k, n)
           /\ LockUses(k, n)' => LockUses(k, n) \/ CallUses(h, k, n)
           /\ CallUses(h, k, n)' => CallUses(h, k, n) \/ LockUses(k, n)
  PROVE  NonceInv'
<1>1. \A g \in Handler \ {h}, k \in Key, n \in 0..MaxNonce :
        CallUses(g, k, n)' <=> CallUses(g, k, n)
  BY DEF CallUses
<1>2. \A k \in Key, n \in 0..MaxNonce : Uses(k, n)' => Uses(k, n)
  BY <1>1 DEF Uses
<1>3. ASSUME NEW g \in Handler, hs'[g].pc = "send"
      PROVE  SoleUser(g, hs[g].nonce)'
  <2>1. g # h /\ hs'[g] = hs[g] /\ hs[g].pc = "send" BY <1>3
  <2>2. PICK n \in 0..MaxNonce : n = hs[g].nonce
    BY <2>1, CallFacts, AmountAssumption
  <2>3. SoleUser(g, n) BY <2>1, <2>2 DEF NonceInv
  <2>4. \A k \in Key : ~TxUses(k, n)' /\ ~LockUses(k, n)'
    BY <2>1, <2>3 DEF SoleUser
  <2>5. \A k \in Key, i \in Handler \ {g} : ~CallUses(i, k, n)'
    BY <1>1, <2>1, <2>3 DEF SoleUser
  <2>6. SoleUser(g, n)' BY <2>4, <2>5 DEF SoleUser
  <2>. QED BY <2>1, <2>2, <2>6
<1>. QED BY <1>2, <1>3 DEF NonceInv

(* A step that moves no call and hands no nonce to a node.                  *)
LEMMA QuietStepKeepsNonces ==
  ASSUME NonceInv, nextNonce' = nextNonce, hs' = hs, sent' = sent,
         \A k \in Key, n \in 0..MaxNonce : LockUses(k, n)' => LockUses(k, n),
         TypeOK
  PROVE  NonceInv'
<1>1. \A k \in Key, n \in 0..MaxNonce : TxUses(k, n)' <=> TxUses(k, n)
  BY DEF TxUses
<1>2. \A g \in Handler, k \in Key, n \in 0..MaxNonce :
        CallUses(g, k, n)' <=> CallUses(g, k, n)
  BY DEF CallUses
<1>3. \A k \in Key, n \in 0..MaxNonce : Uses(k, n)' => Uses(k, n)
  BY <1>1, <1>2 DEF Uses
<1>4. ASSUME NEW g \in Handler, hs'[g].pc = "send"
      PROVE  SoleUser(g, hs[g].nonce)'
  <2>1. hs'[g] = hs[g] /\ hs[g].pc = "send" BY <1>4
  <2>2. PICK n \in 0..MaxNonce : n = hs[g].nonce
    BY <2>1, CallFacts, AmountAssumption
  <2>3. SoleUser(g, n) BY <2>1, <2>2 DEF NonceInv
  <2>4. SoleUser(g, n)' BY <1>1, <1>2, <2>3 DEF SoleUser
  <2>. QED BY <2>1, <2>2, <2>4
<1>. QED BY <1>3, <1>4 DEF NonceInv

(* reserve_nonce hands out a nonce above every nonce in use.                *)
LEMMA ReserveKeepsNonces ==
  ASSUME TypeOK, NonceInv, NEW h \in Handler, NEW r \in 0..MaxNonce,
         ReserveNonce(h, r)
  PROVE  NonceInv'
<1>1. PICK m \in Nat : /\ m >= nextNonce /\ m <= MaxNonce /\ nextNonce' = m + 1
                       /\ Step(h, [hs[h] EXCEPT !.pc = "send", !.nonce = m])
  <2>1. nextNonce \in Nat /\ r \in Nat BY AmountAssumption DEF TypeOK
  <2>2. Larger(nextNonce, r) \in Nat /\ Larger(nextNonce, r) >= nextNonce
    BY <2>1 DEF Larger
  <2>. QED BY <2>2 DEF ReserveNonce
<1>. nextNonce \in Nat BY AmountAssumption DEF TypeOK
<1>. m \in 0..MaxNonce BY <1>1, AmountAssumption
<1>2. hs[h].pc = "nonce" /\ hs[h] \in CallState BY DEF ReserveNonce, TypeOK
<1>3. /\ hs'[h] = [hs[h] EXCEPT !.pc = "send", !.nonce = m]
      /\ \A g \in Handler \ {h} : hs'[g] = hs[g]
  BY <1>1 DEF Step, TypeOK
<1>4. hs'[h].pc = "send" /\ hs'[h].nonce = m /\ hs'[h].key = hs[h].key
  BY <1>2, <1>3 DEF CallState
<1>5. \A k \in Key, n \in 0..MaxNonce :
        /\ TxUses(k, n)' <=> TxUses(k, n)
        /\ LockUses(k, n)' <=> LockUses(k, n)
        /\ \A g \in Handler \ {h} : CallUses(g, k, n)' <=> CallUses(g, k, n)
        /\ CallUses(h, k, n)' <=> k = hs[h].key /\ n = m
        /\ ~CallUses(h, k, n)
  BY <1>2, <1>3, <1>4 DEF ReserveNonce, chain, TxUses, LockUses, CallUses
<1>6. \A k \in Key, n \in 0..MaxNonce :
        Uses(k, n)' => Uses(k, n) \/ (k = hs[h].key /\ n = m)
  BY <1>5 DEF Uses
<1>7. \A k \in Key : ~Uses(k, m)
  <2>1. \A k \in Key : Uses(k, m) => m < nextNonce BY DEF NonceInv
  <2>. QED BY <1>1, <2>1
<1>8. \A k1, k2 \in Key, n \in 0..MaxNonce :
        Uses(k1, n)' /\ Uses(k2, n)' => k1 = k2
  BY <1>6, <1>7 DEF NonceInv
<1>9. ASSUME NEW k \in Key, NEW n \in 0..MaxNonce, Uses(k, n)'
      PROVE  n < nextNonce'
  <2>1. Uses(k, n) => n < nextNonce BY DEF NonceInv
  <2>2. Uses(k, n) \/ n = m BY <1>6, <1>9
  <2>. QED BY <1>1, <2>1, <2>2
<1>10. ASSUME NEW g \in Handler, hs'[g].pc = "send"
       PROVE  SoleUser(g, hs[g].nonce)'
  <2>1. CASE g = h
    <3>1. \A k \in Key : /\ ~TxUses(k, m) /\ ~LockUses(k, m)
                         /\ \A i \in Handler : ~CallUses(i, k, m)
      BY <1>7 DEF Uses
    <3>2. SoleUser(g, m)' BY <1>5, <2>1, <3>1 DEF SoleUser
    <3>. QED BY <1>4, <2>1, <3>2
  <2>2. CASE g # h
    <3>1. hs'[g] = hs[g] /\ hs[g].pc = "send" BY <1>3, <1>10, <2>2
    <3>2. PICK n \in 0..MaxNonce : n = hs[g].nonce
      BY <3>1, CallFacts, AmountAssumption
    <3>3. SoleUser(g, n) BY <3>1, <3>2 DEF NonceInv
    <3>4. Uses(hs[g].key, n) /\ hs[g].key \in Key
      BY <3>1, <3>2, CallFacts DEF Uses, CallUses
    <3>5. n # m BY <1>7, <3>4
    <3>6. SoleUser(g, n)' BY <1>5, <3>3, <3>5 DEF SoleUser
    <3>. QED BY <3>1, <3>2, <3>6
  <2>. QED BY <2>1, <2>2
<1>. QED BY <1>8, <1>9, <1>10 DEF NonceInv

(* rollback_reserved_nonce takes back only a nonce nobody else uses.        *)
LEMMA RollbackKeepsNonces ==
  ASSUME TypeOK, NonceInv, NEW h \in Handler, SendFailed(h)
  PROVE  NonceInv'
<1>. hs[h].pc = "send" /\ hs[h].key \in Key
  BY CallFacts DEF SendFailed
<1>1. PICK m \in 0..MaxNonce : m = hs[h].nonce BY CallFacts, AmountAssumption
<1>2. SoleUser(h, m) BY <1>1 DEF NonceInv
<1>3. /\ hs' = [hs EXCEPT ![h] = Idle] /\ sent' = sent
      /\ lock' = Released(lock, hs[h].key)
      /\ nextNonce' = IF nextNonce = m + 1 THEN m ELSE nextNonce
  BY <1>1 DEF SendFailed, Abandon, Step, chain, RolledBack
<1>4. hs'[h] = Idle /\ \A g \in Handler \ {h} : hs'[g] = hs[g]
  BY <1>3 DEF TypeOK
<1>5. \A k \in Key, n \in 0..MaxNonce :
        /\ TxUses(k, n)' <=> TxUses(k, n)
        /\ LockUses(k, n)' => LockUses(k, n)
        /\ ~CallUses(h, k, n)'
        /\ \A g \in Handler \ {h} : CallUses(g, k, n)' <=> CallUses(g, k, n)
  <2>1. \A k \in Key, n \in 0..MaxNonce : LockUses(k, n)' => LockUses(k, n)
    BY <1>3, LockShrinks
  <2>. QED BY <1>3, <1>4, <2>1 DEF TxUses, CallUses, Idle
<1>6. \A k \in Key, n \in 0..MaxNonce : Uses(k, n)' => Uses(k, n) /\ n # m
  BY <1>2, <1>5 DEF Uses, SoleUser
<1>7. ASSUME NEW k \in Key, NEW n \in 0..MaxNonce, Uses(k, n)'
      PROVE  n < nextNonce'
  <2>1. n < nextNonce /\ n # m BY <1>6, <1>7 DEF NonceInv
  <2>2. nextNonce \in Int BY AmountAssumption DEF TypeOK
  <2>. QED BY <1>3, <2>1, <2>2
<1>8. ASSUME NEW g \in Handler, hs'[g].pc = "send"
      PROVE  SoleUser(g, hs[g].nonce)'
  <2>1. g # h /\ hs'[g] = hs[g] /\ hs[g].pc = "send"
    BY <1>4, <1>8 DEF Idle
  <2>2. PICK n \in 0..MaxNonce : n = hs[g].nonce
    BY <2>1, CallFacts, AmountAssumption
  <2>3. SoleUser(g, n) BY <2>1, <2>2 DEF NonceInv
  <2>4. SoleUser(g, n)' BY <1>5, <2>3 DEF SoleUser
  <2>. QED BY <2>1, <2>2, <2>4
<1>. QED BY <1>6, <1>7, <1>8 DEF NonceInv

LEMMA StepFrame ==
  ASSUME TypeOK, NEW h \in Handler, NEW c, Step(h, c)
  PROVE  hs'[h] = c /\ \A g \in Handler \ {h} : hs'[g] = hs[g]
BY DEF Step, TypeOK

(* A step of a call that ends without a nonce to sign for, sends nothing    *)
(* and records no transaction in the lock.                                  *)
LEMMA PlainStepKeepsNonces ==
  ASSUME TypeOK, NonceInv, NEW h \in Handler, NEW c, Step(h, c),
         c.pc \notin {"send", "resend", "confirm"},
         nextNonce' = nextNonce, sent' = sent,
         \A k \in Key, n \in 0..MaxNonce : LockUses(k, n)' => LockUses(k, n)
  PROVE  NonceInv'
<1>1. hs'[h] = c /\ \A g \in Handler \ {h} : hs'[g] = hs[g] BY StepFrame
<1>2. \A k \in Key, n \in 0..MaxNonce : TxUses(k, n)' => TxUses(k, n)
  BY DEF TxUses
<1>3. \A k \in Key, n \in 0..MaxNonce : ~CallUses(h, k, n)'
  BY <1>1 DEF CallUses
<1>. QED BY <1>1, <1>2, <1>3, CallStepKeepsNonces

LEMMA SubmitKeepsNonces ==
  ASSUME TypeOK, NonceInv, NEW h \in Handler, Submit(h)
  PROVE  NonceInv'
<1>1. ASSUME NEW r \in Request, NEW f \in Fee, Settle(h, r, f) PROVE NonceInv'
  <2>. r \in Key BY DEF Key
  <2>1. \A k \in Key, n \in 0..MaxNonce : LockUses(k, n)' => LockUses(k, n)
    BY <1>1, LockShrinks DEF Settle
  <2>. QED BY <1>1, <2>1, PlainStepKeepsNonces DEF Settle, Call, chain
<1>2. ASSUME NEW r \in Request, NEW f \in Fee, BatchSettle(h, r, f)
      PROVE  NonceInv'
  <2>. r \in Key BY DEF Key
  <2>1. \A k \in Key, n \in 0..MaxNonce : LockUses(k, n)' => LockUses(k, n)
    BY <1>2, LockShrinks DEF BatchSettle
  <2>. QED BY <1>2, <2>1, PlainStepKeepsNonces DEF BatchSettle, Call, chain
<1>3. ASSUME NEW r \in Request, BuyCredit(h, r) PROVE NonceInv'
  <2>. r \in Key BY DEF Key
  <2>1. \A k \in Key, n \in 0..MaxNonce : LockUses(k, n)' => LockUses(k, n)
    BY <1>3, LockShrinks DEF BuyCredit
  <2>. QED BY <1>3, <2>1, PlainStepKeepsNonces DEF BuyCredit, Call, chain
<1>4. ASSUME NEW k \in Key, Replay(h, k) PROVE NonceInv'
  <2>1. \A j \in Key, n \in 0..MaxNonce : LockUses(j, n)' => LockUses(j, n)
    BY <1>4, LockShrinks DEF Replay
  <2>. QED BY <1>4, <2>1, PlainStepKeepsNonces DEF Replay, Call, chain
<1>. QED BY <1>1, <1>2, <1>3, <1>4 DEF Submit

LEMMA TargetKeepsNonces ==
  ASSUME TypeOK, NonceInv, NEW h \in Handler,
         \/ ReadReceiver(h) \/ ReceiverError(h) \/ TargetCached(h)
         \/ TargetNoop(h) \/ TargetReserve(h) \/ TargetRefuse(h)
  PROVE  NonceInv'
<1>. hs[h].key \in Key /\ TargetOf(h) \in Key /\ hs[h] \in CallState
  BY CallFacts DEF ReadReceiver, ReceiverError, TargetCached,
     TargetNoop, TargetReserve, TargetRefuse, TypeOK
<1>1. \A k \in Key, n \in 0..MaxNonce : LockUses(k, n)' => LockUses(k, n)
  BY LockShrinks DEF ReadReceiver, ReceiverError, TargetCached,
     TargetNoop, TargetReserve, TargetRefuse
<1>2. nextNonce' = nextNonce /\ sent' = sent
  BY DEF ReadReceiver, ReceiverError, TargetCached,
     TargetNoop, TargetReserve, TargetRefuse, chain
<1>3. PICK c : Step(h, c) /\ c.pc \notin {"send", "resend", "confirm"}
  <2>1. CASE ReadReceiver(h)
    <3>. DEFINE s == hs[h].key.seller
                c == [hs[h] EXCEPT !.pc = "receiverRead",
                                   !.seen = [claimed |-> claimed[s],
                                             settled |-> paidOut[s]]]
    <3>1. Step(h, c) BY <2>1 DEF ReadReceiver
    <3>2. c.pc = "receiverRead" BY DEF CallState
    <3>. QED BY <3>1, <3>2
  <2>2. CASE ReceiverError(h) \/ TargetNoop(h) \/ TargetRefuse(h)
    BY <2>2 DEF ReceiverError, TargetNoop, TargetRefuse, Idle
  <2>3. CASE TargetCached(h) BY <2>3 DEF TargetCached, Call, Idle
  <2>4. CASE TargetReserve(h) BY <2>4 DEF TargetReserve, Call
  <2>. QED BY <2>1, <2>2, <2>3, <2>4
<1>. QED BY <1>1, <1>2, <1>3, PlainStepKeepsNonces

(* Sending: the call hands the nonce it holds to a node and to the lock.    *)
LEMMA SendKeepsNonces ==
  ASSUME TypeOK, NonceInv, NEW h \in Handler, NEW g \in Gas,
         SendOk(h, g) \/ SendAmbiguous(h, g)
  PROVE  NonceInv'
<1>. /\ hs[h].pc \in {"send", "resend"} /\ hs[h].key \in Key
     /\ hs[h] \in CallState
  BY CallFacts DEF SendOk, SendAmbiguous, TypeOK
<1>1. PICK m \in 0..MaxNonce : m = hs[h].nonce BY CallFacts, AmountAssumption
<1>2. PICK c : /\ Step(h, c) /\ c.pc # "send"
               /\ c.pc = "confirm" => c.key = hs[h].key /\ c.nonce = m
               /\ c.pc \in {"confirm", "idle"}
  <2>1. CASE SendOk(h, g)
    <3>. DEFINE c == [hs[h] EXCEPT !.pc = "confirm", !.gas = g]
    <3>1. Step(h, c) BY <2>1 DEF SendOk
    <3>2. c.pc = "confirm" /\ c.key = hs[h].key /\ c.nonce = m
      BY <1>1 DEF CallState
    <3>. QED BY <3>1, <3>2
  <2>2. CASE SendAmbiguous(h, g) BY <2>2 DEF SendAmbiguous, Idle
  <2>. QED BY <2>1, <2>2
<1>3. hs'[h] = c /\ \A i \in Handler \ {h} : hs'[i] = hs[i]
  BY <1>2, StepFrame
<1>4. \A k \in Key, n \in 0..MaxNonce : CallUses(h, k, n) <=> k = hs[h].key /\ n = m
  BY <1>1 DEF CallUses
<1>5. \A k \in Key, n \in 0..MaxNonce : CallUses(h, k, n)' => CallUses(h, k, n)
  BY <1>2, <1>3, <1>4 DEF CallUses
<1>6. \A k \in Key, n \in 0..MaxNonce :
        TxUses(k, n)' => TxUses(k, n) \/ CallUses(h, k, n)
  <2>1. sent' = sent \/ sent' = sent \cup {Signed(h, g)}
    BY DEF SendOk, SendAmbiguous
  <2>2. Signed(h, g).key = hs[h].key /\ Signed(h, g).nonce = m
    BY <1>1 DEF Signed
  <2>. QED BY <1>4, <2>1, <2>2 DEF TxUses
<1>7. \A k \in Key, n \in 0..MaxNonce :
        LockUses(k, n)' => LockUses(k, n) \/ CallUses(h, k, n)
  <2>1. lock' = WithActiveTx(hs[h].key, m)
    BY <1>1 DEF SendOk, SendAmbiguous, RecordBroadcast
  <2>. QED BY <1>4, <2>1, LockBroadcast
<1>8. nextNonce' = nextNonce BY DEF SendOk, SendAmbiguous
<1>. QED BY <1>2, <1>3, <1>5, <1>6, <1>7, <1>8, CallStepKeepsNonces

(* A replacement takes its nonce from the lock entry of its key.            *)
LEMMA ReplaceKeepsNonces ==
  ASSUME TypeOK, NonceInv, NEW h \in Handler, NEW m \in 0..MaxNonce,
         Replace(h, m)
  PROVE  NonceInv'
<1>. hs[h].key \in Key /\ hs[h] \in CallState
  BY CallFacts DEF Replace, TypeOK
<1>1. /\ hs'[h] = [hs[h] EXCEPT !.pc = "resend", !.nonce = m]
      /\ \A i \in Handler \ {h} : hs'[i] = hs[i]
  BY StepFrame DEF Replace
<1>2. hs'[h].pc = "resend" /\ hs'[h].key = hs[h].key /\ hs'[h].nonce = m
  BY <1>1 DEF CallState
<1>3. LockUses(hs[h].key, m) BY DEF Replace, HasActiveNonce, LockUses
<1>4. \A k \in Key, n \in 0..MaxNonce : CallUses(h, k, n)' => LockUses(k, n)
  BY <1>2, <1>3 DEF CallUses
<1>5. \A k \in Key, n \in 0..MaxNonce :
        /\ TxUses(k, n)' => TxUses(k, n)
        /\ LockUses(k, n)' => LockUses(k, n)
  BY DEF Replace, chain, TxUses, LockUses
<1>6. nextNonce' = nextNonce BY DEF Replace
<1>. QED BY <1>1, <1>2, <1>4, <1>5, <1>6, CallStepKeepsNonces

LEMMA GiveUpKeepsNonces ==
  ASSUME TypeOK, NonceInv, NEW h \in Handler,
         \/ NonceError(h) \/ ResendFailed(h) \/ ReceiptSettled(h)
         \/ ReceiptFailed(h) \/ RefreshKeep(h)
  PROVE  NonceInv'
<1>. hs[h].key \in Key
  BY CallFacts DEF NonceError, ResendFailed, ReceiptSettled, ReceiptFailed,
     RefreshKeep
<1>1. \A k \in Key, n \in 0..MaxNonce : LockUses(k, n)' => LockUses(k, n)
  BY LockShrinks DEF NonceError, Abandon, ResendFailed, ReceiptSettled,
     ReceiptFailed, RefreshKeep
<1>2. Step(h, Idle) /\ nextNonce' = nextNonce /\ sent' = sent
  BY DEF NonceError, Abandon, ResendFailed, ReceiptSettled, ReceiptFailed,
     RefreshKeep, chain
<1>. QED BY <1>1, <1>2, PlainStepKeepsNonces DEF Idle

(* A pending receipt writes the nonce of the call to the lock once more.    *)
LEMMA PendingKeepsNonces ==
  ASSUME TypeOK, NonceInv, NEW h \in Handler, ConfirmPending(h)
  PROVE  NonceInv'
<1>. hs[h].pc = "confirm" /\ hs[h].key \in Key
  BY CallFacts DEF ConfirmPending
<1>1. PICK m \in 0..MaxNonce : m = hs[h].nonce BY CallFacts, AmountAssumption
<1>2. hs'[h] = Idle /\ \A i \in Handler \ {h} : hs'[i] = hs[i]
  BY StepFrame DEF ConfirmPending
<1>3. \A k \in Key, n \in 0..MaxNonce :
        LockUses(k, n)' => LockUses(k, n) \/ CallUses(h, k, n)
  <2>1. lock' = WithActiveTx(hs[h].key, m)
    BY <1>1 DEF ConfirmPending, RecordBroadcast
  <2>. QED BY <1>1, <2>1, LockBroadcast DEF CallUses
<1>4. \A k \in Key, n \in 0..MaxNonce :
        (TxUses(k, n)' => TxUses(k, n)) /\ ~CallUses(h, k, n)'
  BY <1>2 DEF ConfirmPending, chain, TxUses, CallUses, Idle
<1>5. nextNonce' = nextNonce /\ hs'[h].pc # "send"
  BY <1>2 DEF ConfirmPending, Idle
<1>. QED BY <1>2, <1>3, <1>4, <1>5, CallStepKeepsNonces

LEMMA OutsideKeepsNonces ==
  ASSUME TypeOK, NonceInv,
         \/ \E r \in Request : Refuse(r)
         \/ \E k \in Key : ReplayCached(k) \/ Recover(k)
         \/ \E tx \in sent, ok \in BOOLEAN : Mine(tx, ok)
         \/ \E s \in Seller : ClaimOnChain(s)
         \/ UNCHANGED vars
  PROVE  NonceInv'
<1>1. nextNonce' = nextNonce /\ hs' = hs /\ sent' = sent
  BY DEF Refuse, ReplayCached, Recover, Mine, ClaimOnChain, vars, chain
<1>2. \/ lock' = lock
      \/ \E k \in Key : lock' = Released(lock, k) \/ lock' = ReleasedByKey(k)
  BY DEF Refuse, ReplayCached, Recover, Mine, ClaimOnChain, vars, Key
<1>3. \A k \in Key, n \in 0..MaxNonce : LockUses(k, n)' => LockUses(k, n)
  <2>1. CASE lock' = lock BY <2>1 DEF LockUses
  <2>2. CASE \E k \in Key : lock' = Released(lock, k) \/ lock' = ReleasedByKey(k)
    BY <2>2, LockShrinks
  <2>. QED BY <1>2, <2>1, <2>2
<1>. QED BY <1>1, <1>3, QuietStepKeepsNonces

(* A trap forgets the call; what it was sending may still reach a node.     *)
LEMMA TrapKeepsNonces ==
  ASSUME TypeOK, NonceInv, NEW h \in Handler, Trap(h)
  PROVE  NonceInv'
<1>1. hs'[h] = Idle /\ \A i \in Handler \ {h} : hs'[i] = hs[i]
  BY StepFrame DEF Trap
<1>2. \A k \in Key, n \in 0..MaxNonce :
        TxUses(k, n)' => TxUses(k, n) \/ CallUses(h, k, n)
  <2>1. CASE sent' = sent BY <2>1 DEF TxUses
  <2>2. CASE \E g \in Gas : /\ hs[h].pc \in {"send", "resend"}
                            /\ sent' = sent \cup {Signed(h, g)}
    BY <2>2 DEF TxUses, CallUses, Signed
  <2>. QED BY <2>1, <2>2 DEF Trap
<1>3. \A k \in Key, n \in 0..MaxNonce :
        (LockUses(k, n)' => LockUses(k, n)) /\ ~CallUses(h, k, n)'
  BY <1>1 DEF Trap, LockUses, CallUses, Idle
<1>4. nextNonce' = nextNonce /\ hs'[h].pc # "send" BY <1>1 DEF Trap, Idle
<1>. QED BY <1>1, <1>2, <1>3, <1>4, CallStepKeepsNonces

(* Whatever the calls of any number of sellers do at the same time, replays *)
(* and replacements, failed sends and their rollbacks, traps and recoveries *)
(* included, a nonce of the signing address is used for one settlement key  *)
(* (reserve_nonce, rollback_reserved_nonce, active_nonce_by_key).           *)
THEOREM NonceInvariant == Spec => []NonceInv
<1>1. Init => NonceInv
  <2>. SUFFICES ASSUME Init PROVE NonceInv OBVIOUS
  <2>1. \A k \in Key, n \in 0..MaxNonce :
          ~TxUses(k, n) /\ ~LockUses(k, n) /\ \A h \in Handler : ~CallUses(h, k, n)
    BY AmountAssumption, KeyFacts DEF Init, TxUses, LockUses, CallUses, Idle, Free
  <2>2. \A h \in Handler : hs[h].pc # "send" BY DEF Init, Idle
  <2>. QED BY <2>1, <2>2 DEF NonceInv, Uses
<1>2. TypeOK /\ NonceInv /\ [Next]_vars => NonceInv'
  <2>. SUFFICES ASSUME TypeOK, NonceInv, [Next]_vars PROVE NonceInv' OBVIOUS
  <2>1. CASE \E h \in Handler : Submit(h) BY <2>1, SubmitKeepsNonces
  <2>2. CASE \E h \in Handler : Resume(h)
    BY <2>2, TargetKeepsNonces, ReserveKeepsNonces, RollbackKeepsNonces,
       SendKeepsNonces, ReplaceKeepsNonces, GiveUpKeepsNonces,
       PendingKeepsNonces DEF Resume
  <2>3. CASE \/ \E r \in Request : Refuse(r)
             \/ \E k \in Key : ReplayCached(k) \/ Recover(k)
             \/ UNCHANGED vars
    BY <2>3, OutsideKeepsNonces
  <2>4. CASE Environment
    BY <2>4, TargetKeepsNonces, TrapKeepsNonces, OutsideKeepsNonces
    DEF Environment
  <2>. QED BY <2>1, <2>2, <2>3, <2>4 DEF Next
<1>. QED BY <1>1, <1>2, TypeCorrect, PTL DEF Spec

(* No two settlements ever compete for one account nonce.                   *)
THEOREM NonceUniqueness == Spec => []NonceUnique
<1>1. TypeOK /\ NonceInv => NonceUnique
  <2>. SUFFICES ASSUME TypeOK, NonceInv, NEW t1 \in sent, NEW t2 \in sent,
                       t1.nonce = t2.nonce
                PROVE  t1.key = t2.key
    BY DEF NonceUnique
  <2>1. /\ t1.key \in Key /\ t2.key \in Key /\ t1.nonce \in 0..MaxNonce
        /\ Uses(t1.key, t1.nonce) /\ Uses(t2.key, t1.nonce)
    BY DEF TypeOK, Tx, Uses, TxUses
  <2>. QED BY <2>1 DEF NonceInv
<1>. QED BY <1>1, TypeCorrect, NonceInvariant, PTL

-----------------------------------------------------------------------------
(* Fees.  What is charged for a payment is in its record; the call that     *)
(* prepares the payment is alone with it and knows the fee, and a call that *)
(* watches a transaction finds a record that is beyond refunding.  Traps    *)
(* and recoveries keep this: only a checking record is recovered, and only  *)
(* when no call is left that has its key.                                   *)
Preparing(c) == c.pc \in {"nonce", "send"}
Watching(c) == c.pc \in {"confirm", "refresh", "resend"}
Committed == {"broadcast", "settled", "failed"}

CallMatches(c) ==
  /\ Preparing(c) => rec[c.key].status = "checking" /\ rec[c.key].fee = c.fee
  /\ Watching(c) => rec[c.key].status \in Committed

CallsMatch == \A h \in Handler : CallMatches(hs[h])

PreparesAlone ==
  \A g, h \in Handler :
    g # h /\ Preparing(hs[g]) /\ Preparing(hs[h]) => hs[g].key # hs[h].key

FreeOfCharge(k) == rec[k].status = "none" \/ k.kind = "credit" => rec[k].fee = 0

FeeInv == CallsMatch /\ PreparesAlone /\ \A k \in Key : FreeOfCharge(k)

(* What a step does to the money of one payment and its seller: a fee that  *)
(* leaves the balance is in the record and one that leaves the record is in *)
(* the balance, a purchase is credited once, and what is charged for a      *)
(* committed payment stays.                                                 *)
Accounted(k) ==
  /\ \A j \in Key \ {k} : rec'[j] = rec[j]
  /\ \A s \in Seller \ {k.seller} : credit'[s] = credit[s]
  /\ credited \subseteq credited' /\ credited' \subseteq credited \cup {k}
  /\ credit'[k.seller] + rec'[k].fee
       = credit[k.seller] + rec[k].fee + IF credited' = credited THEN 0 ELSE TopUp
  /\ rec[k].status \in Committed =>
       rec'[k].status \in Committed /\ rec'[k].fee = rec[k].fee

Balanced == UNCHANGED <<rec, ledger>> \/ \E k \in Key : Accounted(k)

LEMMA InitFees == Init => FeeInv
BY DEF Init, FeeInv, CallsMatch, CallMatches, PreparesAlone, Preparing,
       Watching, FreeOfCharge, Idle, NoRecord

(* A call moves, keeping or giving up what it prepares, and no record does. *)
LEMMA CallMovesFees ==
  ASSUME TypeOK, FeeInv, NEW h \in Handler, NEW c, Step(h, c), CallMatches(c),
         Preparing(c) => Preparing(hs[h]) /\ hs[h].key = c.key,
         rec' = rec
  PROVE  FeeInv'
<1>1. hs'[h] = c /\ \A g \in Handler \ {h} : hs'[g] = hs[g] BY StepFrame
<1>2. CallsMatch' BY <1>1 DEF FeeInv, CallsMatch, CallMatches, Watching, Preparing
<1>3. PreparesAlone' BY <1>1 DEF FeeInv, PreparesAlone, Preparing
<1>. QED BY <1>2, <1>3 DEF FeeInv, FreeOfCharge

(* One record moves, and with it a call that had its key or gets it.        *)
LEMMA RecordMovesFees ==
  ASSUME TypeOK, FeeInv, NEW k \in Key, NEW h \in Handler, NEW c, Step(h, c),
         \A j \in Key \ {k} : rec'[j] = rec[j],
         FreeOfCharge(k)', CallMatches(c)',
         \A g \in Handler \ {h} :
           hs[g].pc # "idle" /\ hs[g].key = k =>
             ~Preparing(hs[g]) /\ (Watching(hs[g]) => rec'[k].status \in Committed),
         Preparing(c) => \A g \in Handler \ {h} :
                           Preparing(hs[g]) => hs[g].key # c.key
  PROVE  FeeInv'
<1>1. hs'[h] = c /\ \A g \in Handler \ {h} : hs'[g] = hs[g] BY StepFrame
<1>2. ASSUME NEW g \in Handler PROVE CallMatches(hs[g])'
  <2>1. CASE g = h BY <1>1, <2>1 DEF CallMatches, Watching, Preparing
  <2>2. CASE g # h
    <3>1. hs'[g] = hs[g] BY <1>1, <2>2
    <3>2. CASE hs[g].pc = "idle" BY <3>1, <3>2 DEF CallMatches, Watching, Preparing
    <3>3. CASE hs[g].pc # "idle" /\ hs[g].key = k
      BY <2>2, <3>1, <3>3 DEF CallMatches, Watching, Preparing
    <3>4. CASE hs[g].pc # "idle" /\ hs[g].key # k
      <4>1. rec'[hs[g].key] = rec[hs[g].key] BY <3>4, CallFacts
      <4>. QED BY <3>1, <4>1
           DEF FeeInv, CallsMatch, CallMatches, Watching, Preparing
    <3>. QED BY <3>2, <3>3, <3>4
  <2>. QED BY <2>1, <2>2
<1>3. CallsMatch' BY <1>2 DEF CallsMatch
<1>4. PreparesAlone' BY <1>1 DEF FeeInv, PreparesAlone, Preparing
<1>. QED BY <1>3, <1>4 DEF FeeInv, FreeOfCharge

(* A fee is reserved and a checking record journaled.                       *)
LEMMA StartFees ==
  ASSUME TypeOK, FeeInv, NEW h \in Handler, NEW k \in Key, NEW f \in Nat,
         k.kind = "credit" => f = 0, rec[k].status = "none",
         rec' = Inserted(k, "checking", -1, 0, f),
         credit' = [credit EXCEPT ![k.seller] = @ - f], credited' = credited,
         Step(h, Call("nonce", k, f, -1, 0))
  PROVE  FeeInv' /\ Balanced
<1>. DEFINE c == Call("nonce", k, f, -1, 0)
<1>. k.seller \in Seller BY KeyFacts
<1>1. /\ rec'[k] = [status |-> "checking", nonce |-> -1, gas |-> 0, fee |-> f]
      /\ \A j \in Key \ {k} : rec'[j] = rec[j]
  BY DEF Inserted, TypeOK
<1>2. \A g \in Handler : hs[g].key = k => ~Preparing(hs[g]) /\ ~Watching(hs[g])
  BY DEF FeeInv, CallsMatch, CallMatches, Committed
<1>3. c.pc = "nonce" /\ c.key = k /\ c.fee = f BY DEF Call
<1>4. CallMatches(c)' /\ FreeOfCharge(k)'
  BY <1>1, <1>3 DEF CallMatches, Preparing, Watching, FreeOfCharge
<1>5. FeeInv'
  <2>. Step(h, c) OBVIOUS
  <2>. HIDE DEF c
  <2>. QED BY <1>1, <1>2, <1>3, <1>4, RecordMovesFees
<1>6. Accounted(k)
  <2>1. rec[k].fee = 0 BY DEF FeeInv, FreeOfCharge
  <2>2. /\ credit[k.seller] \in Int
        /\ credit'[k.seller] = credit[k.seller] - f
        /\ \A s \in Seller \ {k.seller} : credit'[s] = credit[s]
    BY DEF TypeOK
  <2>. QED BY <1>1, <2>1, <2>2 DEF Accounted, Committed
<1>. QED BY <1>5, <1>6 DEF Balanced

(* A batch settle that finds nothing to pay is free.                        *)
LEMMA NoopFees ==
  ASSUME TypeOK, FeeInv, NEW h \in Handler, NEW k \in Key,
         rec[k].status = "none", rec' = Inserted(k, "settled", -1, 0, 0),
         ledger' = ledger, Step(h, Idle)
  PROVE  FeeInv' /\ Balanced
<1>. k.seller \in Seller BY KeyFacts
<1>1. /\ rec'[k].fee = 0 /\ rec'[k].status = "settled"
      /\ \A j \in Key \ {k} : rec'[j] = rec[j]
  BY DEF Inserted, TypeOK
<1>2. \A g \in Handler : hs[g].key = k => ~Preparing(hs[g]) /\ ~Watching(hs[g])
  BY DEF FeeInv, CallsMatch, CallMatches, Committed
<1>3. CallMatches(Idle)' /\ FreeOfCharge(k)' /\ ~Preparing(Idle)
  BY <1>1 DEF CallMatches, Preparing, Watching, FreeOfCharge, Idle
<1>4. FeeInv' BY <1>1, <1>2, <1>3, RecordMovesFees
<1>5. Accounted(k)
  <2>1. rec[k].fee = 0 BY DEF FeeInv, FreeOfCharge
  <2>2. credit[k.seller] \in Int BY DEF TypeOK
  <2>. QED BY <1>1, <2>1, <2>2 DEF Accounted, Committed, ledger
<1>. QED BY <1>4, <1>5 DEF Balanced

(* A call gives up before its broadcast, with the fee that is in the record. *)
LEMMA AbandonFees ==
  ASSUME TypeOK, FeeInv, NEW h \in Handler, NEW k \in Key, hs[h].key = k,
         Preparing(hs[h]), Abandon(h), credited' = credited
  PROVE  FeeInv' /\ Balanced
<1>. k.seller \in Seller BY KeyFacts
<1>1. rec'[k] = NoRecord /\ \A j \in Key \ {k} : rec'[j] = rec[j]
  BY DEF Abandon, TypeOK
<1>2. rec[k].status = "checking" /\ rec[k].fee = hs[h].fee
  BY DEF FeeInv, CallsMatch, CallMatches
<1>3. \A g \in Handler \ {h} :
        hs[g].key = k => ~Preparing(hs[g]) /\ ~Watching(hs[g])
  BY <1>2 DEF FeeInv, CallsMatch, CallMatches, PreparesAlone, Committed
<1>4. CallMatches(Idle)' /\ FreeOfCharge(k)' /\ ~Preparing(Idle)
  BY <1>1 DEF CallMatches, Preparing, Watching, FreeOfCharge, Idle, NoRecord
<1>5. FeeInv' BY <1>1, <1>3, <1>4, RecordMovesFees DEF Abandon
<1>6. Accounted(k)
  <2>1. /\ credit[k.seller] \in Int /\ rec[k].fee \in Nat
        /\ credit'[k.seller] = credit[k.seller] + rec[k].fee
        /\ \A s \in Seller \ {k.seller} : credit'[s] = credit[s]
    BY <1>2, RecordFacts DEF Abandon, TypeOK
  <2>2. rec'[k].fee = 0 BY <1>1 DEF NoRecord
  <2>. QED BY <1>1, <1>2, <2>1, <2>2 DEF Accounted, Committed
<1>. QED BY <1>5, <1>6 DEF Balanced

(* A broadcast or its outcome is journaled over a record that has the fee.  *)
LEMMA JournalFees ==
  ASSUME TypeOK, FeeInv, NEW h \in Handler, NEW c, Step(h, c), NEW k \in Key,
         hs[h].key = k, hs[h].pc \in {"send", "resend", "confirm", "refresh"},
         Preparing(hs[h]) \/ Watching(hs[h]),
         NEW st \in Committed, NEW n, NEW g,
         rec' = Inserted(k, st, n, g, hs[h].fee),
         ~Preparing(c), Watching(c) => c.key = k,
         ledger' = ledger \/ (CreditOnce(k) /\ st = "settled")
  PROVE  FeeInv' /\ Balanced
<1>. k.seller \in Seller BY KeyFacts
<1>1. rec[k].status # "none"
  BY DEF FeeInv, CallsMatch, CallMatches, Committed
<1>2. /\ rec'[k].fee = rec[k].fee /\ rec'[k].status = st
      /\ \A j \in Key \ {k} : rec'[j] = rec[j]
  BY <1>1 DEF Inserted, TypeOK
<1>3. \A i \in Handler \ {h} : hs[i].key = k => ~Preparing(hs[i])
  BY DEF FeeInv, CallsMatch, CallMatches, PreparesAlone, Committed
<1>4. CallMatches(c)' /\ FreeOfCharge(k)'
  BY <1>2 DEF CallMatches, FeeInv, FreeOfCharge, Committed
<1>5. FeeInv' BY <1>2, <1>3, <1>4, RecordMovesFees
<1>6. Accounted(k)
  <2>1. /\ credit[k.seller] \in Int /\ rec[k].fee \in Nat /\ TopUp \in Nat
    BY RecordFacts, AmountAssumption DEF TypeOK
  <2>2. /\ \A s \in Seller \ {k.seller} : credit'[s] = credit[s]
        /\ credited \subseteq credited' /\ credited' \subseteq credited \cup {k}
        /\ credit'[k.seller]
             = credit[k.seller] + IF credited' = credited THEN 0 ELSE TopUp
    BY <2>1 DEF CreditOnce, ledger, TypeOK
  <2>. QED BY <1>2, <2>1, <2>2 DEF Accounted
<1>. QED BY <1>5, <1>6 DEF Balanced

LEMMA IdleMatches == CallMatches(Idle) /\ ~Preparing(Idle) /\ ~Watching(Idle)
BY DEF CallMatches, Preparing, Watching, Idle

(* A call that follows a broadcast record watches.                          *)
LEMMA RefreshMatches ==
  ASSUME NEW k \in Key, rec[k].status = "broadcast", NEW n, NEW g
  PROVE  CallMatches(Call("refresh", k, 0, n, g))
         /\ ~Preparing(Call("refresh", k, 0, n, g))
BY DEF CallMatches, Preparing, Watching, Call, Committed

LEMMA SubmitFees ==
  ASSUME TypeOK, FeeInv, NEW h \in Handler, Submit(h)
  PROVE  FeeInv' /\ Balanced
<1>1. ASSUME NEW r \in Request, NEW f \in Fee, Settle(h, r, f)
      PROVE  FeeInv' /\ Balanced
  <2>. r \in Key /\ f \in Nat BY AmountAssumption DEF Key
  <2>. r.kind # "credit" BY <1>1 DEF Settle
  <2>. QED BY <1>1, StartFees DEF Settle
<1>2. ASSUME NEW r \in Request, BuyCredit(h, r) PROVE FeeInv' /\ Balanced
  <2>. r \in Key /\ r.seller \in Seller BY KeyFacts DEF Key
  <2>1. credited' = credited /\ credit' = [credit EXCEPT ![r.seller] = @ - 0]
    BY <1>2 DEF BuyCredit, ledger, TypeOK
  <2>. QED BY <1>2, <2>1, StartFees DEF BuyCredit
<1>3. ASSUME NEW r \in Request, NEW f \in Fee, BatchSettle(h, r, f)
      PROVE  FeeInv' /\ Balanced
  <2>1. PICK c : c = Call("receiver", r, f, -1, 0) OBVIOUS
  <2>2. CallMatches(c) /\ ~Preparing(c)
    BY <2>1 DEF CallMatches, Preparing, Watching, Call
  <2>. QED BY <1>3, <2>1, <2>2, CallMovesFees DEF BatchSettle, Balanced
<1>4. ASSUME NEW k \in Key, Replay(h, k) PROVE FeeInv' /\ Balanced
  <2>1. PICK c : c = Call("refresh", k, 0, rec[k].nonce, rec[k].gas) OBVIOUS
  <2>2. CallMatches(c) /\ ~Preparing(c)
    BY <1>4, <2>1, RefreshMatches DEF Replay
  <2>. QED BY <1>4, <2>1, <2>2, CallMovesFees DEF Replay, Balanced
<1>. QED BY <1>1, <1>2, <1>3, <1>4 DEF Submit

LEMMA TargetFees ==
  ASSUME TypeOK, FeeInv, NEW h \in Handler,
         \/ ReadReceiver(h) \/ ReceiverError(h) \/ TargetCached(h)
         \/ TargetNoop(h) \/ TargetReserve(h) \/ TargetRefuse(h)
  PROVE  FeeInv' /\ Balanced
<1>0. hs[h].fee \in Nat /\ hs[h] \in CallState
  BY CallFacts DEF ReadReceiver, ReceiverError, TargetCached, TargetNoop,
     TargetReserve, TargetRefuse, TypeOK
<1>1. PICK k \in Key : k = TargetOf(h)
  BY CallFacts DEF ReadReceiver, ReceiverError, TargetCached, TargetNoop,
     TargetReserve, TargetRefuse
<1>2. k.kind = "target" BY <1>1 DEF TargetOf, Target
<1>3. CASE ReadReceiver(h)
  <2>1. PICK c : Step(h, c) /\ c.pc = "receiverRead"
    <3>. DEFINE s == hs[h].key.seller
                c == [hs[h] EXCEPT !.pc = "receiverRead",
                        !.seen = [claimed |-> claimed[s], settled |-> paidOut[s]]]
    <3>1. Step(h, c) BY <1>3 DEF ReadReceiver
    <3>2. c.pc = "receiverRead" BY <1>0 DEF CallState
    <3>. QED BY <3>1, <3>2
  <2>2. CallMatches(c) /\ ~Preparing(c)
    BY <2>1 DEF CallMatches, Preparing, Watching
  <2>. QED BY <1>3, <2>1, <2>2, CallMovesFees DEF ReadReceiver, Balanced
<1>4. CASE ReceiverError(h) \/ TargetRefuse(h)
  BY <1>4, CallMovesFees, IdleMatches DEF ReceiverError, TargetRefuse, Balanced
<1>5. CASE TargetCached(h)
  <2>1. PICK c : c = IF rec[k].status = "broadcast"
                     THEN Call("refresh", k, 0, rec[k].nonce, rec[k].gas)
                     ELSE Idle
    OBVIOUS
  <2>2. CallMatches(c) /\ ~Preparing(c) BY <2>1, RefreshMatches, IdleMatches
  <2>3. Step(h, c) BY <1>1, <1>5, <2>1 DEF TargetCached
  <2>. QED BY <1>5, <2>2, <2>3, CallMovesFees DEF TargetCached, Balanced
<1>6. CASE TargetNoop(h) BY <1>1, <1>6, NoopFees DEF TargetNoop
<1>7. CASE TargetReserve(h)
  BY <1>0, <1>1, <1>2, <1>7, StartFees DEF TargetReserve
<1>. QED BY <1>3, <1>4, <1>5, <1>6, <1>7

LEMMA CallEndFees ==
  ASSUME TypeOK, FeeInv, NEW h \in Handler,
         \/ \E n \in 0..MaxNonce : ReserveNonce(h, n) \/ Replace(h, n)
         \/ NonceError(h) \/ SendFailed(h) \/ ResendFailed(h)
         \/ \E g \in Gas : SendOk(h, g) \/ SendAmbiguous(h, g)
         \/ ReceiptSettled(h) \/ ReceiptFailed(h) \/ ConfirmPending(h)
         \/ RefreshKeep(h)
  PROVE  FeeInv' /\ Balanced
<1>0. hs[h].pc # "idle"
  BY DEF ReserveNonce, Replace, NonceError, SendFailed, ResendFailed, SendOk,
     SendAmbiguous, ReceiptSettled, ReceiptFailed, ConfirmPending, RefreshKeep
<1>1. PICK k \in Key : k = hs[h].key BY <1>0, CallFacts
<1>. hs[h] \in CallState BY DEF TypeOK
<1>. CallMatches(hs[h]) BY DEF FeeInv, CallsMatch
<1>2. hs[h].pc \in {"send", "resend", "confirm", "refresh"}
        => Preparing(hs[h]) \/ Watching(hs[h])
  BY DEF Preparing, Watching
<1>3. ASSUME NEW n \in 0..MaxNonce, ReserveNonce(h, n) PROVE FeeInv' /\ Balanced
  <2>1. PICK c : c = [hs[h] EXCEPT !.pc = "send", !.nonce = Larger(nextNonce, n)]
    OBVIOUS
  <2>2. c.pc = "send" /\ c.key = hs[h].key /\ c.fee = hs[h].fee /\ Preparing(hs[h])
    BY <1>3, <2>1 DEF CallState, ReserveNonce, Preparing
  <2>3. CallMatches(c) BY <2>2 DEF CallMatches, Preparing, Watching
  <2>. QED BY <1>3, <2>1, <2>2, <2>3, CallMovesFees DEF ReserveNonce, Balanced
<1>4. ASSUME NEW n \in 0..MaxNonce, Replace(h, n) PROVE FeeInv' /\ Balanced
  <2>1. PICK c : c = [hs[h] EXCEPT !.pc = "resend", !.nonce = n] OBVIOUS
  <2>2. c.pc = "resend" /\ c.key = hs[h].key /\ Watching(hs[h])
    BY <1>4, <2>1 DEF CallState, Replace, Watching
  <2>3. CallMatches(c) /\ ~Preparing(c)
    BY <2>2 DEF CallMatches, Preparing, Watching
  <2>. QED BY <1>4, <2>1, <2>3, CallMovesFees DEF Replace, Balanced
<1>5. CASE NonceError(h) \/ SendFailed(h)
  <2>1. Preparing(hs[h]) BY <1>5 DEF NonceError, SendFailed, Preparing
  <2>. QED BY <1>1, <1>5, <2>1, AbandonFees DEF NonceError, SendFailed
<1>6. CASE ResendFailed(h) \/ RefreshKeep(h)
  BY <1>6, IdleMatches, CallMovesFees DEF ResendFailed, RefreshKeep, Balanced
<1>. "broadcast" \in Committed /\ "settled" \in Committed /\ "failed" \in Committed
  BY DEF Committed
<1>7. ASSUME NEW g \in Gas, SendOk(h, g) PROVE FeeInv' /\ Balanced
  <2>1. PICK c : c = [hs[h] EXCEPT !.pc = "confirm", !.gas = g] OBVIOUS
  <2>2. c.pc = "confirm" /\ c.key = k BY <1>1, <2>1 DEF CallState
  <2>3. ~Preparing(c) BY <2>2 DEF Preparing
  <2>4. PICK n : n = hs[h].nonce OBVIOUS
  <2>5. rec' = Inserted(k, "broadcast", n, g, hs[h].fee)
    BY <1>1, <1>7, <2>4 DEF SendOk, RecordBroadcast
  <2>. QED BY <1>1, <1>2, <1>7, <2>1, <2>2, <2>3, <2>5, JournalFees DEF SendOk
<1>8. CASE (\E g \in Gas : SendAmbiguous(h, g)) \/ ConfirmPending(h)
  <2>1. PICK g, n : rec' = Inserted(k, "broadcast", n, g, hs[h].fee)
    BY <1>1, <1>8 DEF SendAmbiguous, ConfirmPending, RecordBroadcast
  <2>. QED BY <1>1, <1>2, <1>8, <2>1, IdleMatches, JournalFees
       DEF SendAmbiguous, ConfirmPending
<1>9. CASE ReceiptSettled(h) \/ ReceiptFailed(h)
  <2>1. PICK n, g : n = hs[h].nonce /\ g = hs[h].gas OBVIOUS
  <2>. QED BY <1>1, <1>2, <1>9, <2>1, IdleMatches, JournalFees
       DEF ReceiptSettled, ReceiptFailed
<1>. QED BY <1>3, <1>4, <1>5, <1>6, <1>7, <1>8, <1>9

(* A purchase is credited on a replay, if its own call did not do it.       *)
LEMMA ReplayFees ==
  ASSUME TypeOK, FeeInv, NEW k \in Key, ReplayCached(k)
  PROVE  FeeInv' /\ Balanced
<1>. k.seller \in Seller BY KeyFacts
<1>1. rec' = rec /\ hs' = hs BY DEF ReplayCached
<1>2. FeeInv'
  BY <1>1 DEF FeeInv, CallsMatch, CallMatches, PreparesAlone, Preparing,
     Watching, FreeOfCharge
<1>3. Accounted(k)
  <2>1. credit[k.seller] \in Int /\ rec[k].fee \in Nat /\ TopUp \in Nat
    BY RecordFacts, AmountAssumption DEF TypeOK
  <2>2. /\ \A s \in Seller \ {k.seller} : credit'[s] = credit[s]
        /\ credited \subseteq credited' /\ credited' \subseteq credited \cup {k}
        /\ credit'[k.seller]
             = credit[k.seller] + IF credited' = credited THEN 0 ELSE TopUp
    BY <2>1 DEF ReplayCached, CreditOnce, ledger, TypeOK
  <2>. QED BY <1>1, <2>1, <2>2 DEF Accounted
<1>. QED BY <1>2, <1>3 DEF Balanced

(* Recovery refunds the fee that is in the record, once: no call is left    *)
(* that would refund it again, and the record goes with it.                 *)
LEMMA RecoverFees ==
  ASSUME TypeOK, FeeInv, NEW k \in Key, Recover(k)
  PROVE  FeeInv' /\ Balanced
<1>. k.seller \in Seller BY KeyFacts
<1>1. /\ rec'[k] = NoRecord /\ hs' = hs /\ rec[k].status = "checking"
      /\ \A j \in Key \ {k} : rec'[j] = rec[j]
  BY DEF Recover, TypeOK
<1>2. \A h \in Handler : Preparing(hs[h]) \/ Watching(hs[h])
                           => hs[h].key \in Key \ {k}
  BY CallFacts DEF Recover, Preparing, Watching
<1>3. FeeInv'
  <2>1. CallsMatch'
    BY <1>1, <1>2 DEF FeeInv, CallsMatch, CallMatches, Preparing, Watching
  <2>2. PreparesAlone' BY <1>1 DEF FeeInv, PreparesAlone, Preparing
  <2>3. \A j \in Key : FreeOfCharge(j)'
    BY <1>1 DEF FeeInv, FreeOfCharge, NoRecord
  <2>. QED BY <2>1, <2>2, <2>3 DEF FeeInv
<1>4. Accounted(k)
  <2>1. k.kind = "credit" => rec[k].fee = 0 BY DEF FeeInv, FreeOfCharge
  <2>2. /\ credit[k.seller] \in Int /\ rec[k].fee \in Nat
        /\ credit'[k.seller] = credit[k.seller] + rec[k].fee
        /\ \A s \in Seller \ {k.seller} : credit'[s] = credit[s]
        /\ credited' = credited
    BY <2>1, RecordFacts DEF Recover, TypeOK
  <2>3. rec'[k].fee = 0 BY <1>1 DEF NoRecord
  <2>. QED BY <1>1, <2>2, <2>3 DEF Accounted, Committed
<1>. QED BY <1>3, <1>4 DEF Balanced

LEMMA StepFees ==
  ASSUME TypeOK, FeeInv, [Next]_vars
  PROVE  FeeInv' /\ Balanced
<1>1. CASE \E h \in Handler : Submit(h) BY <1>1, SubmitFees
<1>2. CASE \E h \in Handler : Resume(h)
  BY <1>2, TargetFees, CallEndFees DEF Resume
<1>3. CASE \E h \in Handler : ReadReceiver(h) BY <1>3, TargetFees
<1>4. CASE \E h \in Handler : Trap(h)
  BY <1>4, CallMovesFees, IdleMatches DEF Trap, Balanced
<1>5. CASE \E k \in Key : ReplayCached(k) \/ Recover(k)
  BY <1>5, ReplayFees, RecoverFees
<1>6. CASE rec' = rec /\ hs' = hs /\ ledger' = ledger
  BY <1>6 DEF FeeInv, CallsMatch, CallMatches, PreparesAlone, Preparing,
     Watching, FreeOfCharge, Balanced
<1>. QED BY <1>1, <1>2, <1>3, <1>4, <1>5, <1>6
     DEF Next, Environment, Refuse, Mine, ClaimOnChain, vars

(* The fees in the records, the calls and the balances agree in every       *)
(* reachable state, interrupted calls and recoveries included.              *)
THEOREM FeeInvariant == Spec => []FeeInv
<1>1. Init => FeeInv BY InitFees
<1>2. TypeOK /\ FeeInv /\ [Next]_vars => FeeInv' BY StepFees
<1>. QED BY <1>1, <1>2, TypeCorrect, PTL DEF Spec

(* Once broadcast, a payment's record and the fee it was charged stay,      *)
(* whatever receipts, replays, replacements, traps and recoveries follow    *)
(* (insert_settlement, recover_stale_settlement).                           *)
THEOREM FeesKept == Spec => FeeKeptAfterBroadcast
<1>. DEFINE Keeps ==
       \A k \in Key : rec[k].status \in {"broadcast", "failed"}
         => rec'[k].status # "none" /\ rec'[k].fee = rec[k].fee
<1>1. TypeOK /\ FeeInv /\ [Next]_vars => [Keeps]_vars
  <2>. SUFFICES ASSUME TypeOK, FeeInv, [Next]_vars PROVE Keeps OBVIOUS
  <2>1. Balanced BY StepFees
  <2>. QED BY <2>1 DEF Balanced, Accounted, Committed
<1>. QED BY <1>1, TypeCorrect, FeeInvariant, PTL DEF Spec, FeeKeptAfterBroadcast

-----------------------------------------------------------------------------
(* Sums.  MapThenSumSet is a fold, a recursive function on the subsets of   *)
(* its set.  Induction over a finite set is done here with a least          *)
(* counterexample: of the subsets that are wrong, one that contains no      *)
(* other.                                                                   *)
LEMMA LeastSubset ==
  ASSUME NEW S, IsFiniteSet(S), NEW Bad \in SUBSET (SUBSET S), Bad # {}
  PROVE  \E T \in Bad : \A U \in Bad : U \subseteq T => U = T
<1>1. Bad \subseteq FiniteSubsetsOf(S) BY FS_Subset DEF FiniteSubsetsOf
<1>2. PICK T \in Bad : \A U \in Bad : <<U, T>> \notin StrictSubsetOrdering(S)
  <2>. DEFINE R == StrictSubsetOrdering(S)
              F == FiniteSubsetsOf(S)
  <2>1. IsWellFoundedOn(R, F) BY FS_StrictSubsetOrderingWellFounded
  <2>2. Bad \subseteq F BY <1>1
  <2>. HIDE DEF R, F
  <2>3. \E T \in Bad : \A U \in Bad : ~(<<U, T>> \in R)
    BY <2>1, <2>2, WFMin
  <2>. QED BY <2>3 DEF R
<1>. QED BY <1>2 DEF StrictSubsetOrdering

First(S) == CHOOSE x \in S : TRUE

LEMMA FirstIn ==
  ASSUME NEW T, T # {} PROVE First(T) \in T
BY DEF First

(* The fees of a set of records, and the functions that add them up.        *)
FeeSum(r, S) == MapThenSumSet(LAMBDA k : r[k].fee, S)

Sums(r, S, f) ==
  f = [T \in SUBSET S |->
         IF T = {} THEN 0 ELSE r[First(T)].fee + f[T \ {First(T)}]]

LEMMA FeeSumChosen ==
  ASSUME NEW r, NEW S
  PROVE  FeeSum(r, S) = (CHOOSE f : Sums(r, S, f))[S]
BY DEF FeeSum, MapThenSumSet, MapThenFoldSet, Sums, First

(* Two of them agree on what both add up.                                   *)
LEMMA SumsAgree ==
  ASSUME NEW r, NEW S, IsFiniteSet(S), NEW f, Sums(r, S, f),
         NEW V \in SUBSET S, NEW g, Sums(r, V, g)
  PROVE  g[V] = f[V]
<1>. DEFINE Bad == {U \in SUBSET V : g[U] # f[U]}
<1>. SUFFICES ASSUME Bad # {} PROVE FALSE OBVIOUS
<1>1. PICK T \in Bad : \A U \in Bad : U \subseteq T => U = T
  <2>1. IsFiniteSet(V) BY FS_Subset
  <2>2. Bad \in SUBSET (SUBSET V) OBVIOUS
  <2>. HIDE DEF Bad
  <2>. QED BY <2>1, <2>2, LeastSubset
<1>2. T # {} BY DEF Sums
<1>3. First(T) \in T BY <1>2, FirstIn
<1>4. g[T \ {First(T)}] = f[T \ {First(T)}] BY <1>1, <1>3
<1>5. g[T] = r[First(T)].fee + g[T \ {First(T)}] BY <1>2 DEF Sums
<1>6. f[T] = r[First(T)].fee + f[T \ {First(T)}] BY <1>2 DEF Sums
<1>. QED BY <1>4, <1>5, <1>6

(* There is one for every finite set.                                       *)
SumOf(r, V) == (CHOOSE f : Sums(r, V, f))[V]

LEMMA SumsExist ==
  ASSUME NEW r, NEW S, IsFiniteSet(S)
  PROVE  \A T \in SUBSET S : \E f : Sums(r, T, f)
<1>. DEFINE Bad == {T \in SUBSET S : ~\E f : Sums(r, T, f)}
<1>. SUFFICES ASSUME Bad # {} PROVE FALSE OBVIOUS
<1>1. PICK T \in Bad : \A U \in Bad : U \subseteq T => U = T
  <2>1. Bad \in SUBSET (SUBSET S) OBVIOUS
  <2>. HIDE DEF Bad
  <2>. QED BY <2>1, LeastSubset
<1>. T \in SUBSET S OBVIOUS
<1>. DEFINE g == [U \in SUBSET T |->
                    IF U = {} THEN 0
                    ELSE r[First(U)].fee + SumOf(r, U \ {First(U)})]
<1>2. ASSUME NEW U \in SUBSET T, U # T
      PROVE  Sums(r, U, CHOOSE f : Sums(r, U, f))
  <2>1. \E f : Sums(r, U, f) BY <1>1, <1>2
  <2>. QED BY <2>1
<1>3. ASSUME NEW V \in SUBSET T, V # T PROVE g[V] = SumOf(r, V)
  <2>. DEFINE f == CHOOSE f : Sums(r, V, f)
              W == V \ {First(V)}
  <2>1. Sums(r, V, f) BY <1>2, <1>3
  <2>. HIDE DEF f
  <2>2. CASE V = {}
    <3>1. f[V] = 0 BY <2>1, <2>2 DEF Sums
    <3>. QED BY <2>2, <3>1 DEF SumOf, f
  <2>3. CASE V # {}
    <3>1. First(V) \in V BY <2>3, FirstIn
    <3>2. W \in SUBSET V /\ W \in SUBSET T /\ W # T BY <3>1
    <3>3. f[V] = r[First(V)].fee + f[W] BY <2>1, <2>3 DEF Sums
    <3>4. Sums(r, W, CHOOSE e : Sums(r, W, e)) BY <1>2, <3>2
    <3>5. IsFiniteSet(V) BY FS_Subset
    <3>6. SumOf(r, W) = f[W]
      <4>. HIDE DEF W
      <4>. QED BY <2>1, <3>2, <3>4, <3>5, SumsAgree DEF SumOf
    <3>7. SumOf(r, V) = f[V] BY DEF SumOf, f
    <3>8. g[V] = r[First(V)].fee + SumOf(r, W) BY <2>3
    <3>. QED BY <3>3, <3>6, <3>7, <3>8
  <2>. QED BY <2>2, <2>3
<1>4. ASSUME NEW U \in SUBSET T, U # {}
      PROVE  g[U \ {First(U)}] = SumOf(r, U \ {First(U)})
  <2>1. First(U) \in U BY <1>4, FirstIn
  <2>2. U \ {First(U)} \in SUBSET T /\ U \ {First(U)} # T BY <2>1
  <2>. HIDE DEF g
  <2>. QED BY <1>3, <2>2
<1>5. Sums(r, T, g)
  <2>1. \A U \in SUBSET T :
          g[U] = IF U = {} THEN 0 ELSE r[First(U)].fee + g[U \ {First(U)}]
    BY <1>4
  <2>2. g = [U \in SUBSET T |-> g[U]] OBVIOUS
  <2>. HIDE DEF g
  <2>. QED BY <2>1, <2>2 DEF Sums
<1>. QED BY <1>5

LEMMA FeeSumSums ==
  ASSUME NEW r, NEW S, IsFiniteSet(S)
  PROVE  \E f : Sums(r, S, f) /\ \A T \in SUBSET S : FeeSum(r, T) = f[T]
<1>. DEFINE f(T) == CHOOSE f : Sums(r, T, f)
<1>1. \A T \in SUBSET S : Sums(r, T, f(T)) /\ FeeSum(r, T) = f(T)[T]
  BY SumsExist, FeeSumChosen
<1>2. \A T \in SUBSET S : f(T)[T] = f(S)[T]
  <2>. HIDE DEF f
  <2>. QED BY <1>1, SumsAgree
<1>. QED BY <1>1, <1>2

(* The sum over a set is its first summand and the sum over the rest.       *)
LEMMA FeeSumFirst ==
  ASSUME NEW r, NEW S, IsFiniteSet(S)
  PROVE  /\ FeeSum(r, {}) = 0
         /\ S # {} =>
              /\ First(S) \in S
              /\ FeeSum(r, S) = r[First(S)].fee + FeeSum(r, S \ {First(S)})
<1>1. PICK f : Sums(r, S, f) /\ \A T \in SUBSET S : FeeSum(r, T) = f[T]
  BY FeeSumSums
<1>2. FeeSum(r, {}) = 0 BY <1>1 DEF Sums
<1>3. ASSUME S # {}
      PROVE  FeeSum(r, S) = r[First(S)].fee + FeeSum(r, S \ {First(S)})
  <2>1. f[S] = r[First(S)].fee + f[S \ {First(S)}] BY <1>1, <1>3 DEF Sums
  <2>. QED BY <1>1, <2>1
<1>. QED BY <1>2, <1>3, FirstIn

(* Without fees the sum is 0.                                               *)
LEMMA FeeSumZero ==
  ASSUME NEW r, NEW S, IsFiniteSet(S), \A k \in S : r[k].fee = 0
  PROVE  FeeSum(r, S) = 0
<1>. DEFINE Bad == {T \in SUBSET S : FeeSum(r, T) # 0}
<1>. SUFFICES ASSUME Bad # {} PROVE FALSE OBVIOUS
<1>1. PICK T \in Bad : \A U \in Bad : U \subseteq T => U = T
  <2>1. Bad \in SUBSET (SUBSET S) OBVIOUS
  <2>. HIDE DEF Bad
  <2>. QED BY <2>1, LeastSubset
<1>2. T \in SUBSET S /\ IsFiniteSet(T) BY FS_Subset
<1>3. T # {} BY <1>2, FeeSumFirst
<1>4. /\ First(T) \in T
      /\ FeeSum(r, T) = r[First(T)].fee + FeeSum(r, T \ {First(T)})
  BY <1>2, <1>3, FeeSumFirst
<1>5. FeeSum(r, T \ {First(T)}) = 0 BY <1>1, <1>4
<1>. QED BY <1>2, <1>4, <1>5

(* When one fee changes the sum changes with it.                            *)
LEMMA FeeSumChange ==
  ASSUME NEW r, NEW q, NEW S, IsFiniteSet(S), NEW x,
         \A k \in S : r[k].fee \in Int /\ q[k].fee \in Int,
         \A k \in S \ {x} : q[k].fee = r[k].fee
  PROVE  /\ FeeSum(r, S) \in Int
         /\ FeeSum(q, S)
              = FeeSum(r, S) + IF x \in S THEN q[x].fee - r[x].fee ELSE 0
<1>. DEFINE Good(T) ==
              /\ FeeSum(r, T) \in Int
              /\ FeeSum(q, T)
                   = FeeSum(r, T) + IF x \in T THEN q[x].fee - r[x].fee ELSE 0
            Bad == {T \in SUBSET S : ~Good(T)}
<1>. SUFFICES ASSUME Bad # {} PROVE FALSE OBVIOUS
<1>1. PICK T \in Bad : \A U \in Bad : U \subseteq T => U = T
  <2>1. Bad \in SUBSET (SUBSET S) OBVIOUS
  <2>. HIDE DEF Bad
  <2>. QED BY <2>1, LeastSubset
<1>2. T \in SUBSET S /\ IsFiniteSet(T) BY FS_Subset
<1>3. T # {}
  <2>1. FeeSum(r, {}) = 0 /\ FeeSum(q, {}) = 0 BY <1>2, FeeSumFirst
  <2>2. Good({}) BY <2>1
  <2>3. ~Good(T) OBVIOUS
  <2>. HIDE DEF Good
  <2>. QED BY <2>2, <2>3
<1>. DEFINE y == First(T)
            U == T \ {y}
<1>4. /\ y \in T /\ U \in SUBSET S
      /\ FeeSum(r, T) = r[y].fee + FeeSum(r, U)
      /\ FeeSum(q, T) = q[y].fee + FeeSum(q, U)
  BY <1>2, <1>3, FeeSumFirst
<1>5. Good(U) BY <1>1, <1>4
<1>6. (x \in T <=> x = y \/ x \in U) /\ (x = y => x \notin U) BY <1>4
<1>7. r[y].fee \in Int /\ q[y].fee \in Int /\ (y # x => q[y].fee = r[y].fee)
  BY <1>2, <1>4
<1>8. ~Good(T) OBVIOUS
<1>. HIDE DEF y, U
<1>. QED BY <1>4, <1>5, <1>6, <1>7, <1>8

(* A seller has finitely many keys.                                         *)
LEMMA KeysFinite ==
  ASSUME NEW s \in Seller
  PROVE  KeysOf(s) \subseteq Key /\ IsFiniteSet(KeysOf(s))
<1>. DEFINE R == {r \in Request : r.seller = s}
            T == {Target(s, n) : n \in 0..MaxClaimed}
            f == [n \in 0..MaxClaimed |-> Target(s, n)]
<1>1. IsFiniteSet(R) BY FiniteAssumption, FS_Subset
<1>2. IsFiniteSet(T)
  <2>1. IsFiniteSet(0..MaxClaimed) BY AmountAssumption, FS_Interval
  <2>2. f \in Surjection(0..MaxClaimed, T) BY DEF Surjection
  <2>. HIDE DEF f, T
  <2>. QED BY <2>1, <2>2, FS_Surjection
<1>3. IsFiniteSet(R \cup T) BY <1>1, <1>2, FS_Union
<1>4. KeysOf(s) \subseteq R \cup T BY DEF KeysOf, Key, Target
<1>5. IsFiniteSet(KeysOf(s))
  <2>. HIDE DEF R, T
  <2>. QED BY <1>3, <1>4, FS_Subset
<1>. QED BY <1>5 DEF KeysOf

SellerBalanced(s) ==
  credit[s] + FeeSum(rec, KeysOf(s))
    = InitCredit + TopUp * Cardinality(credited \cap KeysOf(s))

(* An accounted step leaves every seller's balance sheet level.             *)
LEMMA AccountedBalances ==
  ASSUME TypeOK, TypeOK', NEW k \in Key, Accounted(k),
         NEW s \in Seller, SellerBalanced(s)
  PROVE  SellerBalanced(s)'
<1>. DEFINE K == KeysOf(s)
<1>1. K \subseteq Key /\ IsFiniteSet(K) BY KeysFinite
<1>2. k \in K <=> k.seller = s BY DEF KeysOf
<1>3. /\ FeeSum(rec, K) \in Int
      /\ FeeSum(rec', K)
           = FeeSum(rec, K) + IF k \in K THEN rec'[k].fee - rec[k].fee ELSE 0
  <2>1. \A j \in K : rec[j].fee \in Int /\ rec'[j].fee \in Int
    BY <1>1 DEF TypeOK, SettlementRecord
  <2>2. \A j \in K \ {k} : rec'[j].fee = rec[j].fee BY <1>1 DEF Accounted
  <2>. HIDE DEF K
  <2>. QED BY <1>1, <2>1, <2>2, FeeSumChange
<1>4. /\ Cardinality(credited \cap K) \in Nat
      /\ Cardinality(credited' \cap K)
           = Cardinality(credited \cap K)
             + IF k \in K /\ credited' # credited THEN 1 ELSE 0
  <2>1. IsFiniteSet(credited \cap K) /\ Cardinality(credited \cap K) \in Nat
    <3>. HIDE DEF K
    <3>1. credited \cap K \in SUBSET K OBVIOUS
    <3>2. IsFiniteSet(credited \cap K) BY <1>1, <3>1, FS_Subset
    <3>. QED BY <3>2, FS_CardinalityType
  <2>2. CASE k \in K /\ credited' # credited
    <3>1. credited' = credited \cup {k} /\ k \notin credited
      BY <2>2 DEF Accounted
    <3>2. credited' \cap K = (credited \cap K) \cup {k} /\ k \notin credited \cap K
      BY <2>2, <3>1
    <3>. HIDE DEF K
    <3>. QED BY <2>1, <2>2, <3>2, FS_AddElement
  <2>3. CASE ~(k \in K /\ credited' # credited)
    <3>1. credited' \cap K = credited \cap K BY <2>3 DEF Accounted
    <3>. QED BY <2>1, <2>3, <3>1
  <2>. QED BY <2>2, <2>3
<1>5. credit'[s] = credit[s] + IF k \in K
        THEN rec[k].fee - rec'[k].fee + (IF credited' # credited THEN TopUp ELSE 0)
        ELSE 0
  <2>1. /\ credit[s] \in Int /\ credit'[s] \in Int /\ TopUp \in Int
        /\ rec[k].fee \in Int /\ rec'[k].fee \in Int
    BY AmountAssumption DEF TypeOK, SettlementRecord
  <2>. QED BY <1>2, <2>1 DEF Accounted
<1>6. /\ credit[s] \in Int /\ TopUp \in Int /\ InitCredit \in Int
      /\ rec[k].fee \in Int /\ rec'[k].fee \in Int
  BY AmountAssumption DEF TypeOK, SettlementRecord
<1>7. KeysOf(s)' = K BY DEF KeysOf
<1>8. credit[s] + FeeSum(rec, K)
        = InitCredit + TopUp * Cardinality(credited \cap K)
  BY DEF SellerBalanced
<1>. DEFINE a == Cardinality(credited \cap K)
            b == Cardinality(credited' \cap K)
            F == FeeSum(rec, K)
            G == FeeSum(rec', K)
<1>. HIDE DEF K, a, b, F, G
<1>9. /\ a \in Nat /\ F \in Int
      /\ b = a + IF k \in K /\ credited' # credited THEN 1 ELSE 0
      /\ G = F + IF k \in K THEN rec'[k].fee - rec[k].fee ELSE 0
      /\ credit[s] + F = InitCredit + TopUp * a
  BY <1>3, <1>4, <1>8 DEF a, b, F, G
<1>10. credit'[s] + G = InitCredit + TopUp * b
  <2>. DEFINE p == TopUp * a
  <2>1. TopUp * (a + 1) = TopUp * a + TopUp /\ TopUp * a \in Int BY <1>6, <1>9
  <2>2. TopUp * b
          = p + IF k \in K /\ credited' # credited THEN TopUp ELSE 0
    <3>1. CASE k \in K /\ credited' # credited
      <4>1. b = a + 1 BY <1>9, <3>1
      <4>. QED BY <2>1, <3>1, <4>1
    <3>2. CASE ~(k \in K /\ credited' # credited)
      <4>1. b = a BY <1>9, <3>2
      <4>. QED BY <2>1, <3>2, <4>1
    <3>. QED BY <3>1, <3>2
  <2>3. p \in Int /\ F \in Int /\ credit[s] + F = InitCredit + p BY <1>9, <2>1
  <2>. HIDE DEF p
  <2>4. PICK x \in Int, y \in Int : x = rec[k].fee /\ y = rec'[k].fee BY <1>6
  <2>5. CASE k \in K /\ credited' # credited
    <3>1. credit'[s] = credit[s] + ((x - y) + TopUp) BY <1>5, <2>4, <2>5
    <3>2. G = F + (y - x) BY <1>9, <2>4, <2>5
    <3>3. TopUp * b = p + TopUp BY <2>2, <2>5
    <3>4. (credit[s] + ((x - y) + TopUp)) + (F + (y - x)) = InitCredit + (p + TopUp)
      BY <1>6, <2>3, <2>4
    <3>. QED BY <3>1, <3>2, <3>3, <3>4
  <2>6. CASE k \in K /\ credited' = credited
    <3>1. credit'[s] = credit[s] + ((x - y) + 0) BY <1>5, <2>4, <2>6
    <3>2. G = F + (y - x) BY <1>9, <2>4, <2>6
    <3>3. TopUp * b = p + 0 BY <2>2, <2>6
    <3>4. (credit[s] + ((x - y) + 0)) + (F + (y - x)) = InitCredit + (p + 0)
      BY <1>6, <2>3, <2>4
    <3>. QED BY <3>1, <3>2, <3>3, <3>4
  <2>7. CASE k \notin K
    <3>1. credit'[s] = credit[s] + 0 /\ G = F + 0 /\ TopUp * b = p + 0
      BY <1>5, <1>9, <2>2, <2>7
    <3>2. (credit[s] + 0) + (F + 0) = InitCredit + (p + 0) BY <1>6, <2>3
    <3>. QED BY <3>1, <3>2
  <2>. QED BY <2>5, <2>6, <2>7
<1>11. credit'[s] + FeeSum(rec', K)
         = InitCredit + TopUp * Cardinality(credited' \cap K)
  BY <1>10 DEF b, G
<1>. QED BY <1>7, <1>11 DEF SellerBalanced

(* No interleaving of reservations, refunds, purchases, traps and           *)
(* recoveries loses or invents credit (reserve_seller_credit,               *)
(* refund_seller_credit, credit_seller_once, recover_stale_settlement).     *)
THEOREM CreditConserved == Spec => []CreditConservation
<1>. DEFINE AllBalanced == \A s \in Seller : SellerBalanced(s)
<1>1. Init => AllBalanced
  <2>. SUFFICES ASSUME Init, NEW s \in Seller PROVE SellerBalanced(s) OBVIOUS
  <2>1. FeeSum(rec, KeysOf(s)) = 0
    <3>1. \A k \in KeysOf(s) : rec[k].fee = 0 BY DEF Init, NoRecord, KeysOf
    <3>. QED BY <3>1, KeysFinite, FeeSumZero
  <2>2. Cardinality(credited \cap KeysOf(s)) = 0
    <3>1. credited \cap KeysOf(s) = {} BY DEF Init
    <3>. QED BY <3>1, FS_EmptySet
  <2>3. credit[s] = InitCredit /\ InitCredit \in Int /\ TopUp \in Int
    BY AmountAssumption DEF Init
  <2>. QED BY <2>1, <2>2, <2>3 DEF SellerBalanced
<1>2. TypeOK /\ TypeOK' /\ FeeInv /\ AllBalanced /\ [Next]_vars => AllBalanced'
  <2>. SUFFICES ASSUME TypeOK, TypeOK', FeeInv, AllBalanced, [Next]_vars,
                       NEW s \in Seller
                PROVE  SellerBalanced(s)'
    OBVIOUS
  <2>1. CASE UNCHANGED <<rec, ledger>>
    <3>1. rec' = rec /\ credit' = credit /\ credited' = credited
      BY <2>1 DEF ledger
    <3>2. KeysOf(s)' = KeysOf(s) BY DEF KeysOf
    <3>3. FeeSum(rec, KeysOf(s))' = FeeSum(rec, KeysOf(s)) BY <3>1, <3>2
    <3>. QED BY <3>1, <3>2, <3>3 DEF SellerBalanced
  <2>2. CASE \E k \in Key : Accounted(k) BY <2>2, AccountedBalances
  <2>. QED BY <2>1, <2>2, StepFees DEF Balanced
<1>3. AllBalanced => CreditConservation
  BY DEF SellerBalanced, FeeSum, CreditConservation
<1>. QED BY <1>1, <1>2, <1>3, TypeCorrect, FeeInvariant, PTL DEF Spec
=============================================================================
