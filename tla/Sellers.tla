-------------------------------- MODULE Sellers --------------------------------
(***************************************************************************)
(* The two SQLite tables that say who may write batch channels: the sellers *)
(* and the writer-receiver scopes.  Only controllers change a seller's      *)
(* status or a scope; accepting the documents inserts a missing seller.     *)
(***************************************************************************)
CONSTANTS
  Seller,     \* receivers, by normalised address
  Writer,     \* non-system principals that may be given a scope
  Controller  \* a controller of the canister

ASSUME ControllerAssumption == Controller \notin Writer

VARIABLES
  sellers,  \* sellers.status, "none" for a seller without a row
  scopes    \* the enabled writer_receiver_scopes

SellerVars == <<sellers, scopes>>

SellersTypeOK ==
  /\ sellers \in [Seller -> {"none", "active", "disabled"}]
  /\ scopes \subseteq Writer \X Seller

SellersInit ==
  /\ sellers = [r \in Seller |-> "none"]
  /\ scopes = {}

(* batch_set_seller                                                        *)
SetSeller(r, status) ==
  /\ sellers' = [sellers EXCEPT ![r] = status]
  /\ UNCHANGED scopes

(* batch_set_writer_receiver_scope                                         *)
SetScope(w, r, enabled) ==
  /\ scopes' = IF enabled THEN scopes \cup {<<w, r>>} ELSE scopes \ {<<w, r>>}
  /\ UNCHANGED sellers

SellersNext ==
  \/ \E r \in Seller, status \in {"active", "disabled"} : SetSeller(r, status)
  \/ \E w \in Writer, r \in Seller, enabled \in BOOLEAN : SetScope(w, r, enabled)

(* ensure_batch_seller_exists leaves an existing row alone.                 *)
Ensured(r) == [sellers EXCEPT ![r] = IF @ = "none" THEN "active" ELSE @]

(* Mutant: the scope alone decides, whatever became of the seller.          *)
ScopeRowEnabled(w, r) == <<w, r>> \in scopes

ScopeEnabled(w, r) == <<w, r>> \in scopes /\ sellers[r] = "active"

(* require_batch_writer_receiver_scope_configured                          *)
SomeScopeEnabled == \E w \in Writer, r \in Seller : ScopeEnabled(w, r)
=============================================================================
