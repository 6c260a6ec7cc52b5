------------------------------- MODULE Registry -------------------------------
(***************************************************************************)
(* What the canister keeps and checks around a settlement: channels,        *)
(* sellers and their acceptances, configuration, history, admission.  These *)
(* parts meet in the tables of sellers and scopes and in the environment    *)
(* map, which each part's actions change as the code does; beyond that they *)
(* are independent, so an execution exercises one of them and leaves the    *)
(* others as installed.                                                     *)
(***************************************************************************)
EXTENDS ChannelStoreProperties, SellerAcceptance, SettlementIndex, Admission

VARIABLE part  \* the part this execution exercises

ConfigVars == <<env>>
SellersVars == <<sellers, scopes>>
StoreOnly == <<rows, deleted, session, lastBy>>
AcceptanceOnly == <<accepted, signed, clock>>

vars == <<part, StoreOnly, AcceptanceOnly, ConfigVars, SellersVars, IndexVars,
          AdmissionVars>>

Init ==
  /\ part \in {"store", "acceptance", "config", "index", "admission"}
  /\ StoreInit /\ AcceptanceInit /\ IndexInit /\ AdmissionInit

StorePart ==
  /\ part = "store"
  /\ StoreNext
  /\ UNCHANGED <<AcceptanceOnly, ConfigVars, IndexVars, AdmissionVars>>

AcceptancePart ==
  /\ part = "acceptance"
  /\ AcceptanceNext
  /\ UNCHANGED <<StoreOnly, IndexVars, AdmissionVars>>

ConfigPart ==
  /\ part = "config"
  /\ ConfigNext
  /\ UNCHANGED <<StoreOnly, AcceptanceOnly, SellersVars, IndexVars, AdmissionVars>>

IndexPart ==
  /\ part = "index"
  /\ IndexNext
  /\ UNCHANGED <<StoreOnly, AcceptanceOnly, ConfigVars, SellersVars, AdmissionVars>>

AdmissionPart ==
  /\ part = "admission"
  /\ AdmissionNext
  /\ UNCHANGED <<StoreOnly, AcceptanceOnly, ConfigVars, SellersVars, IndexVars>>

Next ==
  (StorePart \/ AcceptancePart \/ ConfigPart \/ IndexPart \/ AdmissionPart)
  /\ UNCHANGED part

Spec == Init /\ [][Next]_vars
-----------------------------------------------------------------------------
(* Types of every part; of the channel rows that each one is sound, see     *)
(* StoreTypeOK (batch.rs 724-770).                                          *)
TypeOK == StoreTypeOK /\ ConfigTypeOK /\ AcceptanceTypeOK /\ IndexTypeOK
=============================================================================
