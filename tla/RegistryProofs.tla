----------------------------- MODULE RegistryProofs -----------------------------
(***************************************************************************)
(* The canister around a settlement as one system, for any constants: what  *)
(* its parts keep up alone they keep up together.  The parts meet in three   *)
(* places, the status of sellers, the scopes of writers and the environment *)
(* map, so the work is in the steps of one part that another part sees: a   *)
(* profile switch in the middle of an acceptance, and an acceptance or a    *)
(* controller that changes a seller whose channels are being written.       *)
(*                                                                         *)
(* An execution of Spec exercises one part; the theorems are proved of      *)
(* Interleaving, where every step may belong to another one.                *)
(***************************************************************************)
EXTENDS Registry, ChannelStoreProofs, AcceptanceProofs, SettlementIndexProofs,
        AdmissionProofs

PartStep == StorePart \/ AcceptancePart \/ ConfigPart \/ IndexPart \/ AdmissionPart
Part == {"store", "acceptance", "config", "index", "admission"}

Interleaving == Init /\ [][PartStep /\ part' \in Part]_vars

LEMMA InterleavingCovers == Spec => Interleaving
<1>1. Init => part \in Part BY DEF Init, Part
<1>2. part \in Part /\ [Next]_vars => (part \in Part)' BY DEF Next, vars
<1>3. part \in Part /\ [Next]_vars => [PartStep /\ part' \in Part]_vars
  BY DEF Next, PartStep
<1>. QED BY <1>1, <1>2, <1>3, PTL DEF Spec, Interleaving

IndexInv == RecordsTyped /\ IndexMatches /\ PagesInv

RegistryInv ==
  StoreInv /\ StoreTyped /\ FeesInv /\ AcceptanceInv /\ IndexInv /\ AdmissionInv

LEMMA RegistryInvInit == Init => RegistryInv
<1>. SUFFICES ASSUME Init PROVE RegistryInv OBVIOUS
<1>1. StoreInv /\ StoreTyped BY StoreInvInit, StoreTypedInit DEF Init
<1>2. FeesInv /\ AcceptanceInv
  BY FeesInit, AcceptanceInvInit DEF Init, AcceptanceInit
<1>3. IndexInv /\ AdmissionInv
  BY InitPages, AdmissionInvInit DEF Init, IndexInv
<1>. QED BY <1>1, <1>2, <1>3 DEF RegistryInv
-----------------------------------------------------------------------------
(* A part that rests.                                                       *)

LEMMA IndexMoves ==
  ASSUME IndexInv, [IndexNext]_IndexVars
  PROVE  IndexInv'
BY TypedStays, MatchesStays, PagesStay DEF IndexInv

LEMMA IndexRests ==
  ASSUME IndexInv, UNCHANGED IndexVars
  PROVE  IndexInv'
BY IndexMoves

LEMMA AdmissionRests ==
  ASSUME AdmissionInv, UNCHANGED AdmissionVars
  PROVE  AdmissionInv'
BY AdmissionInvStep

LEMMA FeesRest ==
  ASSUME FeesInv, UNCHANGED env
  PROVE  FeesInv'
BY FeesStep

(* Rows, sessions and deletions do not depend on the sellers.               *)
LEMMA StoreRests ==
  ASSUME StoreInv, StoreTyped, UNCHANGED StoreOnly, SellersTypeOK'
  PROVE  StoreInv' /\ StoreTyped'
<1>. UNCHANGED <<rows, deleted, session, lastBy>> BY DEF StoreOnly
<1>1. StoreInv' BY DEF StoreInv, RowsOk, SessionsFit
<1>2. RowsTyped'
  BY DEF StoreTyped, RowsTyped, RowTyped, RowSound, RowOf, Amount, Reservation,
         NoReservation
<1>3. RowsBounded' BY DEF StoreTyped, RowsBounded, StoredRows
<1>. QED
  BY <1>1, <1>2, <1>3
  DEF StoreTyped, LogTyped, SessionsTyped, WriterTyped, Principal

(* Acceptances stay what they were under another configuration and other    *)
(* sellers: only whether they are current depends on those.                 *)
LEMMA AcceptancesRest ==
  ASSUME AcceptanceInv, UNCHANGED AcceptanceOnly, SellersTypeOK', ConfigTypeOK'
  PROVE  AcceptanceInv'
BY DEF AcceptanceOnly, AcceptanceInv, AcceptanceTypeOK, AcceptedSigned

(* What a step of the acceptance part does to the configuration.            *)
LEMMA AcceptanceConfigures ==
  ASSUME AcceptanceNext
  PROVE  [ConfigNext]_env
<1>1. CASE \E s \in Seller : Challenge(s) BY <1>1 DEF Challenge
<1>2. CASE \E m \in signed : Submit(m) BY <1>2 DEF Submit
<1>3. CASE Tick BY <1>3 DEF Tick
<1>4. CASE Reconfigure BY <1>4 DEF Reconfigure, ConfigNext
<1>5. CASE SellersNext /\ UNCHANGED <<accepted, signed, clock, env>> BY <1>5
<1>. QED BY <1>1, <1>2, <1>3, <1>4, <1>5 DEF AcceptanceNext
-----------------------------------------------------------------------------
LEMMA RegistryInvStep == RegistryInv /\ [PartStep]_vars => RegistryInv'
<1>. SUFFICES ASSUME RegistryInv, [PartStep]_vars PROVE RegistryInv' OBVIOUS
<1>. /\ StoreInv /\ StoreTyped /\ FeesInv /\ AcceptanceInv /\ IndexInv
     /\ AdmissionInv /\ SellersTypeOK /\ ConfigTypeOK
  BY DEF RegistryInv, AcceptanceInv
<1>1. CASE StorePart
  <2>1. StoreInv' /\ StoreTyped'
    BY <1>1, StoreInvStep, StoreTypedStep DEF StorePart
  <2>2. FeesInv' /\ SellersTypeOK' /\ ConfigTypeOK'
    BY <1>1, <2>1, FeesRest DEF StorePart, ConfigVars, StoreTyped, FeesInv
  <2>3. AcceptanceInv' BY <1>1, <2>2, AcceptancesRest DEF StorePart
  <2>. QED
    BY <1>1, <2>1, <2>2, <2>3, IndexRests, AdmissionRests
    DEF StorePart, RegistryInv
<1>2. CASE AcceptancePart
  <2>1. AcceptanceInv' BY <1>2, AcceptanceInvStep DEF AcceptancePart
  <2>2. FeesInv' BY <1>2, AcceptanceConfigures, FeesStep DEF AcceptancePart
  <2>3. StoreInv' /\ StoreTyped'
    BY <1>2, <2>1, StoreRests DEF AcceptancePart, AcceptanceInv
  <2>. QED
    BY <1>2, <2>1, <2>2, <2>3, IndexRests, AdmissionRests
    DEF AcceptancePart, RegistryInv
<1>3. CASE ConfigPart
  <2>1. FeesInv' /\ ConfigTypeOK' BY <1>3, FeesStep DEF ConfigPart, FeesInv
  <2>2. SellersTypeOK' BY <1>3 DEF ConfigPart, SellersVars, SellersTypeOK
  <2>3. StoreInv' /\ StoreTyped' BY <1>3, <2>2, StoreRests DEF ConfigPart
  <2>4. AcceptanceInv' BY <1>3, <2>1, <2>2, AcceptancesRest DEF ConfigPart
  <2>. QED
    BY <1>3, <2>1, <2>3, <2>4, IndexRests, AdmissionRests
    DEF ConfigPart, RegistryInv
<1>4. CASE UNCHANGED <<StoreOnly, AcceptanceOnly, ConfigVars, SellersVars>>
           /\ IndexInv' /\ AdmissionInv'
  <2>1. FeesInv' /\ ConfigTypeOK' BY <1>4, FeesRest DEF ConfigVars, FeesInv
  <2>2. SellersTypeOK' BY <1>4 DEF SellersVars, SellersTypeOK
  <2>3. StoreInv' /\ StoreTyped' BY <1>4, <2>2, StoreRests
  <2>4. AcceptanceInv' BY <1>4, <2>1, <2>2, AcceptancesRest
  <2>. QED BY <1>4, <2>1, <2>3, <2>4 DEF RegistryInv
<1>5. CASE IndexPart
  <2>1. IndexInv' BY <1>5, IndexMoves DEF IndexPart
  <2>2. AdmissionInv' BY <1>5, AdmissionRests DEF IndexPart
  <2>. QED BY <1>4, <1>5, <2>1, <2>2 DEF IndexPart
<1>6. CASE AdmissionPart
  <2>1. AdmissionInv' BY <1>6, AdmissionInvStep DEF AdmissionPart
  <2>2. IndexInv' BY <1>6, IndexRests DEF AdmissionPart
  <2>. QED BY <1>4, <1>6, <2>1, <2>2 DEF AdmissionPart
<1>7. CASE UNCHANGED vars
  <2>1. IndexInv' /\ AdmissionInv'
    BY <1>7, IndexRests, AdmissionRests DEF vars
  <2>. QED BY <1>4, <1>7, <2>1 DEF vars
<1>. QED BY <1>1, <1>2, <1>3, <1>5, <1>6, <1>7 DEF PartStep

LEMMA RegistryInvariant == Interleaving => []RegistryInv
<1>1. RegistryInv /\ [PartStep /\ part' \in Part]_vars => RegistryInv'
  BY RegistryInvStep
<1>. QED BY <1>1, RegistryInvInit, PTL DEF Interleaving

(* Every reachable state of the stores is type correct: rows are sound and  *)
(* within the limit, fees, acceptances and history entries well formed,     *)
(* whichever of them a step belongs to (batch.rs 724-770, lib.rs 540-700,   *)
(* 1268-1316, 4931-5036, 5853-5937).                                        *)
THEOREM TypeCorrect == Spec => []TypeOK
<1>1. IndexInv => IndexTypeOK
  <2>. SUFFICES ASSUME IndexInv PROVE IndexTypeOK OBVIOUS
  <2>1. index \subseteq Entry
    <3>. SUFFICES ASSUME NEW e \in Entries PROVE e \in Entry
      BY DEF IndexInv, IndexMatches
    <3>1. PICK k \in Key : Recorded(k) /\ e = EntryOf(k, records[k])
      BY DEF Entries
    <3>2. records[k] \in Nat BY <3>1 DEF IndexInv, RecordsTyped, Recorded
    <3>. QED BY <3>1, <3>2, EntryType
  <2>. QED
    BY <2>1 DEF IndexInv, RecordsTyped, PagesInv, IndexTypeOK, Traversal
<1>2. RegistryInv => TypeOK
  BY <1>1, StoreTypedIsTypeOK DEF RegistryInv, AcceptanceInv, TypeOK
<1>. QED BY <1>2, RegistryInvariant, InterleavingCovers, PTL

(* What the parts promise alone they promise together: what /verify calls   *)
(* chargeable is, prices are the stored ones, acceptances were signed, the  *)
(* history matches the records and pages are complete, and what /settle     *)
(* accepts can be encoded and executed, while the other parts change the    *)
(* sellers, the scopes and the environment (batch.rs 724-870,               *)
(* lib.rs 540-700, 4931-5036, 5853-6000, 2318-2441).                        *)
THEOREM PartsComposed ==
  Interleaving =>
    /\ []VerifiedChargeable /\ []PricesHonoured /\ []AcceptedSigned
    /\ []IndexMatches /\ []PagesComplete
    /\ []EncoderFed /\ []CallAuthorised /\ []SellerConsented
<1>1. RegistryInv => VerifiedChargeable /\ PricesHonoured /\ AcceptedSigned
  BY VerifiedChargeableInv, FeesPrices DEF RegistryInv, AcceptanceInv
<1>2. RegistryInv => IndexMatches /\ PagesComplete
  BY DEF RegistryInv, IndexInv, PagesInv, PagesComplete
<1>3. RegistryInv => EncoderFed /\ CallAuthorised /\ SellerConsented
  BY FedWhenAccepted, AuthorisedWhenAccepted, ConsentedWhenAccepted DEF RegistryInv
<1>. QED BY <1>1, <1>2, <1>3, RegistryInvariant, PTL

LEMMA RowSteps ==
  ASSUME RegistryInv, [PartStep]_vars
  PROVE  \/ StoreInv /\ StoreNext
         \/ UNCHANGED <<rows, session>>
BY DEF RegistryInv, PartStep, StorePart, AcceptancePart, ConfigPart, IndexPart,
       AdmissionPart, StoreOnly, vars

(* Writers of channels are kept apart, and disabled sellers frozen, also    *)
(* while acceptances and controllers change the sellers (lib.rs 1026-1045,  *)
(* 2312-2322, 5515-5613).                                                   *)
THEOREM StoreStepsComposed ==
  Interleaving => SawItsRow /\ DisabledFrozen /\ DepositStaysSettleable
<1>1. RegistryInv /\ [PartStep]_vars =>
        [\A s \in Session :
           /\ session[s].channel # None /\ session'[s] = IdleSession
           /\ rows'[session[s].channel] # rows[session[s].channel]
           => session[s].saw # "written"]_StoreVars
  BY RowSteps, SawItsRowNext DEF SawItsRowStep
<1>2. RegistryInv /\ [PartStep]_vars =>
        [\A c \in Kept :
           /\ \/ rows[c] = None /\ rows'[c] # None
              \/ rows[c] # None /\ (rows'[c] = None \/ rows'[c].rev # rows[c].rev)
           /\ sellers[Config[c].receiver] = "disabled"
           => lastBy' = Controller]_StoreVars
  BY RowSteps, DisabledFrozenNext DEF Changed
<1>3. RegistryInv /\ [PartStep]_vars =>
        [\A c \in Kept :
           /\ rows[c] # None /\ rows'[c] # None /\ rows'[c] # rows[c]
           /\ rows'[c].pending = rows[c].pending
           => \A q \in Offered :
                /\ q.payload.kind = "deposit" /\ q.payload.channelConfig = c
                /\ VerifyAccepts(q, rows[c], 0)
                => SettleAccepts(q, rows'[c].charged, 0)]_StoreVars
  BY RowSteps, ChargeNeedsReservation, VerifiedDepositSettles
<1>4. [PartStep /\ part' \in Part]_vars => [PartStep]_vars OBVIOUS
<1>. QED
  BY <1>1, <1>2, <1>3, <1>4, RegistryInvariant, PTL
  DEF Interleaving, SawItsRow, DisabledFrozen, DepositStaysSettleable
=============================================================================
