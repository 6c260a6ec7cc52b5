-------------------------------- MODULE Payment --------------------------------
(***************************************************************************)
(* What the settlement engine promises for each payment, without calls,     *)
(* locks, nonces or transactions: the seller's balance pays the fee before  *)
(* anything is sent and gets it back only while nothing was; a payment that *)
(* was handed to the chain is decided there once; what clients are told of  *)
(* it is "pending" or the decision; and a purchase tops its seller up once. *)
(***************************************************************************)
EXTENDS Integers

CONSTANTS
  Payments,    \* settlement keys
  Purchases,   \* those that buy credit
  Sellers,
  OwnerOf,     \* [Payments -> Sellers]
  Prices,      \* fees that may be charged
  TopUp,       \* credit a purchase adds
  InitBalance  \* balance every seller starts with

VARIABLES
  phase,    \* "absent", "prepared", "committed", or "waived": nothing to do
  charge,   \* the fee taken for it
  outcome,  \* the chain's decision: "none", "paid" or "refused"
  answer,   \* what clients are told: "none", "pending", "paid" or "refused"
  balance,  \* of each seller
  topped    \* purchases that were credited

paymentVars == <<phase, charge, outcome, answer, balance, topped>>

Init ==
  /\ phase = [k \in Payments |-> "absent"]
  /\ charge = [k \in Payments |-> 0]
  /\ outcome = [k \in Payments |-> "none"]
  /\ answer = [k \in Payments |-> "none"]
  /\ balance = [s \in Sellers |-> InitBalance]
  /\ topped = {}

(* A purchase of credit is free.                                            *)
Prepare(k, f) ==
  /\ phase[k] = "absent"
  /\ k \in Purchases => f = 0
  /\ balance[OwnerOf[k]] >= f
  /\ phase' = [phase EXCEPT ![k] = "prepared"]
  /\ charge' = [charge EXCEPT ![k] = f]
  /\ balance' = [balance EXCEPT ![OwnerOf[k]] = @ - f]
  /\ UNCHANGED <<outcome, answer, topped>>

Withdraw(k) ==
  /\ phase[k] = "prepared"
  /\ phase' = [phase EXCEPT ![k] = "absent"]
  /\ charge' = [charge EXCEPT ![k] = 0]
  /\ balance' = [balance EXCEPT ![OwnerOf[k]] = @ + charge[k]]
  /\ UNCHANGED <<outcome, answer, topped>>

Waive(k) ==
  /\ phase[k] = "absent"
  /\ phase' = [phase EXCEPT ![k] = "waived"]
  /\ UNCHANGED <<charge, outcome, answer, balance, topped>>

Commit(k) ==
  /\ phase[k] = "prepared"
  /\ phase' = [phase EXCEPT ![k] = "committed"]
  /\ answer' = [answer EXCEPT ![k] = "pending"]
  /\ UNCHANGED <<charge, outcome, balance, topped>>

Decide(k, verdict) ==
  /\ phase[k] = "committed" /\ outcome[k] = "none"
  /\ outcome' = [outcome EXCEPT ![k] = verdict]
  /\ UNCHANGED <<phase, charge, answer, balance, topped>>

(* A late answer may say "pending" of a payment that was already decided.   *)
Report(k, a) ==
  /\ phase[k] = "committed"
  /\ a = "pending" \/ (a = outcome[k] /\ a # "none")
  /\ answer' = [answer EXCEPT ![k] = a]
  /\ IF a = "paid" /\ k \in Purchases \ topped
     THEN /\ balance' = [balance EXCEPT ![OwnerOf[k]] = @ + TopUp]
          /\ topped' = topped \cup {k}
     ELSE UNCHANGED <<balance, topped>>
  /\ UNCHANGED <<phase, charge, outcome>>

PayStep(k) ==
  \/ \E f \in Prices : Prepare(k, f)
  \/ Withdraw(k) \/ Waive(k) \/ Commit(k)
  \/ \E verdict \in {"paid", "refused"} : Decide(k, verdict)
  \/ \E a \in {"pending", "paid", "refused"} : Report(k, a)

Next == \E k \in Payments : PayStep(k)

Spec == Init /\ [][Next]_paymentVars
=============================================================================
