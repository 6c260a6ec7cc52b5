--------------------------- MODULE SellerAcceptance ---------------------------
(***************************************************************************)
(* Sellers accept the legal documents: the canister hands out a challenge   *)
(* that names the seller, the current versions, the chain and a deadline,   *)
(* the seller signs it, and whoever has the signature submits it, once or   *)
(* more often.  The canister keeps no challenge; its own signature on the   *)
(* message is the proof that it made it.  Meanwhile controllers change the  *)
(* profile, the documents and the status of sellers.                        *)
(***************************************************************************)
EXTENDS RuntimeConfig, Sellers, FiniteSets

CONSTANTS
  NotAccepted, \* no row in SELLER_ACCEPTANCES
  Lifetime,    \* seconds a challenge is good for
  MaxTime,     \* bound: last second of the model
  MaxSigned    \* bound: challenges that are signed

ASSUME AcceptanceAssumption ==
  Lifetime \in Nat /\ MaxTime \in Nat /\ MaxSigned \in Nat

VARIABLES
  accepted,  \* SELLER_ACCEPTANCES
  signed,    \* challenges of the canister that their sellers have signed
  clock      \* now_seconds

AcceptanceVars == <<accepted, signed, clock, env, sellers, scopes>>

CurrentDocs == IF env.docs = NoDocs THEN DefaultDocs ELSE env.docs

Message(s, expires) ==
  [seller |-> s, docs |-> CurrentDocs, profile |-> env.profile,
   expires |-> expires]

AcceptanceTypeOK ==
  /\ clock \in 0..MaxTime
  /\ signed \subseteq [seller : Seller, docs : Docs, profile : Profile,
                       expires : 0..(MaxTime + Lifetime)]
  /\ accepted \in [Seller -> {NotAccepted} \cup [docs : Docs, at : 0..MaxTime]]

AcceptanceInit ==
  /\ ConfigInit /\ SellersInit
  /\ accepted = [s \in Seller |-> NotAccepted]
  /\ signed = {}
  /\ clock = 0

(* acceptance_versions_current: on polygon the whole profile must be fit    *)
(* for production.                                                          *)
AcceptanceCurrent(s) ==
  /\ accepted[s] # NotAccepted
  /\ accepted[s].docs = CurrentDocs
  /\ env.profile = "polygon" =>
       /\ DocsOk("polygon", CurrentDocs)
       /\ FeeOk("polygon", env.seller) /\ FeeOk("polygon", env.legacy)

(* seller_acceptance_challenge_http; the seller's wallet signs the message. *)
Challenge(s) ==
  /\ \E m \in {Message(s, clock + Lifetime)} :
       Cardinality(signed \cup {m}) <= MaxSigned /\ signed' = signed \cup {m}
  /\ UNCHANGED <<accepted, clock, env, SellerVars>>

(* Mutant: the message is not compared with the current versions.           *)
Fresh(m) == clock <= m.expires

ChallengeValid(m) == clock <= m.expires /\ m = Message(m.seller, m.expires)

(* seller_acceptance_submit_http: an acceptance that is still current is    *)
(* answered as it is.                                                       *)
Submit(m) ==
  LET s == m.seller
  IN  /\ ChallengeValid(m)
      /\ ~AcceptanceCurrent(s)
      /\ sellers' = Ensured(s)
      /\ accepted' = [accepted EXCEPT ![s] = [docs |-> CurrentDocs, at |-> clock]]
      /\ UNCHANGED <<signed, clock, env, scopes>>

Tick ==
  /\ clock < MaxTime
  /\ clock' = clock + 1
  /\ UNCHANGED <<accepted, signed, env, SellerVars>>

(* The updates that matter to acceptances.                                  *)
Reconfigure ==
  /\ \E profile \in Profile, docs \in Docs \cup {NoDocs}, fee \in Fees :
       SetRuntimeProfile(profile, docs, fee, fee)
  /\ UNCHANGED <<accepted, signed, clock, SellerVars>>

AcceptanceNext ==
  \/ \E s \in Seller : Challenge(s)
  \/ \E m \in signed : Submit(m)
  \/ Tick
  \/ Reconfigure
  \/ SellersNext /\ UNCHANGED <<accepted, signed, clock, env>>

AcceptanceSpec == AcceptanceInit /\ [][AcceptanceNext]_AcceptanceVars
-----------------------------------------------------------------------------
(* An acceptance stands for documents its seller has signed, in time, while *)
(* they were current: a challenge signed for older documents, or submitted  *)
(* late or again, records nothing (lib.rs 4931-5036).                       *)
AcceptedSigned ==
  \A s \in Seller : accepted[s] # NotAccepted =>
    \E m \in signed : /\ m.seller = s /\ m.docs = accepted[s].docs
                      /\ accepted[s].at <= m.expires
=============================================================================
