----------------------------- MODULE RuntimeConfig -----------------------------
(***************************************************************************)
(* The runtime configuration: the environment map that controllers change   *)
(* through set_env and the four typed updates, and the fees read from it.   *)
(*                                                                         *)
(* The three document versions change together and are one value.  Fees are *)
(* small numbers: 0 is a missing, unparsable or zero amount, which every    *)
(* update refuses, and Floor stands for JPYC_ATOMIC_UNITS / 2.  Tiers 1..4  *)
(* are the prices for up to 1, 10, 50 and 100 claims.                       *)
(***************************************************************************)
EXTENDS Integers

CONSTANTS
  Docs,       \* versions of the legal documents
  DraftDocs,  \* those that end with "-draft"
  DefaultDocs,\* the draft that is current while none is configured
  NoDocs,     \* the empty version: none is configured
  Floor,      \* the Polygon production minimum
  Fees,       \* amounts a controller may give for a single fee
  KindFees,   \* [Kind -> amount] profiles a controller may give
  Schedules   \* [Table -> [Tier -> amount]] schedules a controller may give

Kind  == {"deposit", "claim", "settle", "refund"}
Table == {"claim", "refund"}
Tier  == 1..4
Unset == 0
NoKindFees == [k \in Kind |-> Unset]
NoSchedule == [t \in Table |-> [i \in Tier |-> Unset]]

ASSUME ConfigInputs ==
  /\ DraftDocs \subseteq Docs /\ DefaultDocs \in DraftDocs /\ NoDocs \notin Docs
  /\ Floor \in Nat \ {0} /\ Fees \subseteq Nat
  /\ KindFees \subseteq [Kind -> Nat]
  /\ Schedules \subseteq [Table -> [Tier -> Nat]]

VARIABLE env  \* ENV, the part that is set by the typed updates

Profile == {"polygon", "amoy"}

ConfigTypeOK ==
  env \in [profile : Profile, verified : BOOLEAN, docs : Docs \cup {NoDocs},
           seller : Nat, legacy : Nat, kind : [Kind -> Nat],
           schedule : [Table -> [Tier -> Nat]]]

(* Nothing is configured at install; the profile defaults to polygon.       *)
ConfigInit ==
  env = [profile |-> "polygon", verified |-> FALSE, docs |-> NoDocs,
         seller |-> Unset, legacy |-> Unset, kind |-> NoKindFees,
         schedule |-> NoSchedule]
-----------------------------------------------------------------------------
(* Validation.                                                              *)

(* validate_fee_for_profile                                                *)
FeeOk(profile, fee) == fee > 0 /\ (profile = "polygon" => fee >= Floor)

DocsOk(profile, docs) ==
  profile = "polygon" => docs \in Docs \ DraftDocs

KindFeesOk(profile, kind) == \A k \in Kind : FeeOk(profile, kind[k])

ScheduleOk(profile, schedule) ==
  /\ \A t \in Table, i \in Tier : FeeOk(profile, schedule[t][i])
  /\ \A t \in Table, i, j \in Tier : i <= j => schedule[t][i] <= schedule[t][j]

HasKindFees == \E k \in Kind : env.kind[k] # Unset
HasSchedule == \E t \in Table, i \in Tier : env.schedule[t][i] # Unset

(* configured_batch_claim_fee_schedule: none, or one that is valid now.     *)
ScheduleReadable == HasSchedule => ScheduleOk(env.profile, env.schedule)

(* Mutant: a profile switch does not look at the stored schedule.           *)
StoredFitsFeesOnly(profile) ==
  /\ HasKindFees => KindFeesOk(profile, env.kind)
  /\ ScheduleReadable

(* What is stored and stays must be valid under the new profile too.        *)
StoredFits(profile) ==
  /\ HasKindFees => KindFeesOk(profile, env.kind)
  /\ ScheduleReadable
  /\ HasSchedule => \A t \in Table, i \in Tier : FeeOk(profile, env.schedule[t][i])

LegacyFor(hasSchedule, schedule, kind) ==
  IF hasSchedule THEN schedule["claim"][4] ELSE kind["claim"]
-----------------------------------------------------------------------------
(* The updates.  A refused one traps or returns Err before its first write. *)

(* set_env: of what is modelled only the code check may be set by name.     *)
SetEnv(verified) == env' = [env EXCEPT !.verified = verified]

(* Applying a profile, even the same one, withdraws the code check.         *)
SetRuntimeProfile(profile, docs, seller, legacy) ==
  /\ DocsOk(profile, docs) /\ FeeOk(profile, seller) /\ FeeOk(profile, legacy)
  /\ StoredFits(profile)
  /\ env' = [env EXCEPT !.profile = profile, !.verified = FALSE, !.docs = docs,
                        !.seller = seller, !.legacy = legacy]

SetRuntimeConfiguration(profile, docs, seller, kind, schedule) ==
  /\ DocsOk(profile, docs) /\ FeeOk(profile, seller)
  /\ KindFeesOk(profile, kind)
  /\ schedule # NoSchedule => ScheduleOk(profile, schedule)
  /\ env' = [profile |-> profile, verified |-> FALSE, docs |-> docs,
             seller |-> seller, kind |-> kind, schedule |-> schedule,
             legacy |-> LegacyFor(schedule # NoSchedule, schedule, kind)]

SetBatchFeeProfile(kind) ==
  /\ ScheduleReadable
  /\ KindFeesOk(env.profile, kind)
  /\ env' = [env EXCEPT !.kind = kind,
                        !.legacy = LegacyFor(HasSchedule, env.schedule, kind)]

SetBatchClaimFeeSchedule(schedule) ==
  /\ ScheduleOk(env.profile, schedule)
  /\ env' = [env EXCEPT !.schedule = schedule, !.legacy = schedule["claim"][4]]

ConfigNext ==
  \/ \E verified \in BOOLEAN : SetEnv(verified)
  \/ \E profile \in Profile, docs \in Docs \cup {NoDocs}, seller, legacy \in Fees :
       SetRuntimeProfile(profile, docs, seller, legacy)
  \/ \E profile \in Profile, docs \in Docs \cup {NoDocs}, seller \in Fees, kind \in KindFees,
        schedule \in Schedules \cup {NoSchedule} :
       SetRuntimeConfiguration(profile, docs, seller, kind, schedule)
  \/ \E kind \in KindFees : SetBatchFeeProfile(kind)
  \/ \E schedule \in Schedules : SetBatchClaimFeeSchedule(schedule)

ConfigSpec == ConfigInit /\ [][ConfigNext]_env
-----------------------------------------------------------------------------
(* The fees a settlement is charged; 0 refuses it.                          *)

(* batch_fee_for_kind: the legacy fee until kind fees are configured.       *)
FeeForKind(kind, hasClaims) ==
  IF ~HasKindFees THEN env.legacy
  ELSE env.kind[IF kind = "refund" /\ hasClaims THEN "claim" ELSE kind]

TierOf(count) ==
  IF count <= 1 THEN 1 ELSE IF count <= 10 THEN 2
  ELSE IF count <= 50 THEN 3 ELSE 4

(* scheduled_claim_fee: an invalid schedule falls back to the kind fee.     *)
ScheduledFee(table, count) ==
  IF HasSchedule /\ ScheduleReadable THEN env.schedule[table][TierOf(count)]
  ELSE FeeForKind(table, TRUE)

(* batch_fee_for_payload                                                   *)
FeeForPayload(kind, claims) ==
  IF kind = "claim" \/ (kind = "refund" /\ claims > 0)
  THEN ScheduledFee(kind, claims) ELSE FeeForKind(kind, FALSE)
-----------------------------------------------------------------------------
(* The price of a settlement is the stored one and, on polygon, never below *)
(* the production minimum, through every order of profile switches and fee  *)
(* updates.  In particular no stored schedule is passed over in silence     *)
(* because the current profile does not admit it, and more claims never     *)
(* cost less (lib.rs 540-700, 4503-4723).                                   *)
PricesHonoured ==
  LET counts == {1, 2, 10, 11, 50, 51, 100}
      price(k, n) == FeeForPayload(k, n)
  IN  /\ env.profile = "polygon" =>
           /\ \A k \in Kind, n \in counts \cup {0} :
                price(k, n) # Unset => price(k, n) >= Floor
           /\ env.seller # Unset => env.seller >= Floor
      /\ HasSchedule =>
           \A t \in Table, n, m \in counts :
             /\ price(t, n) = env.schedule[t][TierOf(n)]
             /\ n <= m => price(t, n) <= price(t, m)
=============================================================================
