--------------------------- MODULE AcceptanceProofs ---------------------------
(***************************************************************************)
(* Fees and acceptances, for any documents, fees, schedules and sellers.     *)
(***************************************************************************)
EXTENDS SellerAcceptance, TLAPS

(* The stored prices are valid under the stored profile, whichever of the   *)
(* four updates came last.                                                  *)
SeparateFeesOk ==
  /\ env.seller # Unset => FeeOk(env.profile, env.seller)
  /\ env.legacy # Unset => FeeOk(env.profile, env.legacy)
  /\ HasKindFees => KindFeesOk(env.profile, env.kind)

FeesInv == ConfigTypeOK /\ SeparateFeesOk /\ ScheduleReadable

EnvType ==
  [profile : Profile, verified : BOOLEAN, docs : Docs \cup {NoDocs},
   seller : Nat, legacy : Nat, kind : [Kind -> Nat],
   schedule : [Table -> [Tier -> Nat]]]

LEMMA UnsetTypes ==
  /\ NoKindFees \in [Kind -> Nat] /\ \A k \in Kind : NoKindFees[k] = Unset
  /\ NoSchedule \in [Table -> [Tier -> Nat]]
  /\ \A t \in Table, i \in Tier : NoSchedule[t][i] = Unset
BY DEF NoKindFees, NoSchedule, Unset

LEMMA FeesInit == ConfigInit => FeesInv
<1>. SUFFICES ASSUME ConfigInit PROVE FeesInv OBVIOUS
<1>1. /\ env.profile = "polygon" /\ env.seller = Unset /\ env.legacy = Unset
      /\ env.kind = NoKindFees /\ env.schedule = NoSchedule
      /\ env \in EnvType
  BY UnsetTypes DEF ConfigInit, EnvType, Profile, Unset
<1>2. ~HasKindFees /\ ~HasSchedule
  BY <1>1, UnsetTypes DEF HasKindFees, HasSchedule
<1>. QED
  BY <1>1, <1>2 DEF FeesInv, ConfigTypeOK, EnvType, SeparateFeesOk, ScheduleReadable

LEMMA SetEnvKeepsFees ==
  ASSUME FeesInv, NEW verified \in BOOLEAN, SetEnv(verified)
  PROVE  FeesInv'
<1>1. /\ env' \in EnvType /\ env'.profile = env.profile
      /\ env'.seller = env.seller /\ env'.legacy = env.legacy
      /\ env'.kind = env.kind /\ env'.schedule = env.schedule
  BY DEF FeesInv, ConfigTypeOK, EnvType, SetEnv
<1>. QED
  BY <1>1 DEF FeesInv, ConfigTypeOK, EnvType, SeparateFeesOk, ScheduleReadable,
              HasKindFees, HasSchedule

LEMMA SetProfileKeepsFees ==
  ASSUME FeesInv, NEW profile \in Profile, NEW docs \in Docs \cup {NoDocs},
         NEW seller \in Fees, NEW legacy \in Fees,
         SetRuntimeProfile(profile, docs, seller, legacy)
  PROVE  FeesInv'
<1>1. /\ env' \in EnvType /\ env'.profile = profile
      /\ env'.seller = seller /\ env'.legacy = legacy
      /\ env'.kind = env.kind /\ env'.schedule = env.schedule
  BY ConfigInputs DEF FeesInv, ConfigTypeOK, EnvType, SetRuntimeProfile
<1>2. FeeOk(profile, seller) /\ FeeOk(profile, legacy)
  BY DEF SetRuntimeProfile
<1>3. HasKindFees => KindFeesOk(profile, env.kind)
  BY DEF SetRuntimeProfile, StoredFits
<1>4. HasSchedule => ScheduleOk(profile, env.schedule)
  BY DEF SetRuntimeProfile, StoredFits, ScheduleReadable, ScheduleOk
<1>. QED
  BY <1>1, <1>2, <1>3, <1>4
  DEF FeesInv, ConfigTypeOK, EnvType, SeparateFeesOk, ScheduleReadable,
      HasKindFees, HasSchedule

LEMMA SetConfigurationKeepsFees ==
  ASSUME FeesInv, NEW profile \in Profile, NEW docs \in Docs \cup {NoDocs},
         NEW seller \in Fees, NEW kind \in KindFees,
         NEW schedule \in Schedules \cup {NoSchedule},
         SetRuntimeConfiguration(profile, docs, seller, kind, schedule)
  PROVE  FeesInv'
<1>1. kind \in [Kind -> Nat] /\ schedule \in [Table -> [Tier -> Nat]]
  BY ConfigInputs, UnsetTypes
<1>. DEFINE legacy == LegacyFor(schedule # NoSchedule, schedule, kind)
<1>2. legacy \in Nat BY <1>1 DEF LegacyFor, Table, Tier, Kind
<1>3. \/ legacy = kind["claim"]
      \/ schedule # NoSchedule /\ legacy = schedule["claim"][4]
  BY DEF LegacyFor
<1>4. /\ FeeOk(profile, seller) /\ KindFeesOk(profile, kind)
      /\ schedule # NoSchedule => ScheduleOk(profile, schedule)
      /\ env' = [profile |-> profile, verified |-> FALSE, docs |-> docs,
                 seller |-> seller, kind |-> kind, schedule |-> schedule,
                 legacy |-> legacy]
  BY DEF SetRuntimeConfiguration
<1>. HIDE DEF legacy
<1>5. /\ env' \in EnvType /\ env'.profile = profile
      /\ env'.seller = seller /\ env'.legacy = legacy
      /\ env'.kind = kind /\ env'.schedule = schedule
  BY <1>1, <1>2, <1>4, ConfigInputs DEF EnvType
<1>6. FeeOk(profile, legacy)
  BY <1>3, <1>4 DEF KindFeesOk, ScheduleOk, Kind, Table, Tier
<1>7. SeparateFeesOk'
  BY <1>4, <1>5, <1>6 DEF SeparateFeesOk
<1>8. ScheduleReadable'
  BY <1>4, <1>5, UnsetTypes DEF ScheduleReadable, HasSchedule
<1>. QED BY <1>5, <1>7, <1>8 DEF FeesInv, ConfigTypeOK, EnvType

LEMMA SetFeeProfileKeepsFees ==
  ASSUME FeesInv, NEW kind \in KindFees, SetBatchFeeProfile(kind)
  PROVE  FeesInv'
<1>1. kind \in [Kind -> Nat] BY ConfigInputs
<1>. DEFINE legacy == LegacyFor(HasSchedule, env.schedule, kind)
<1>2. legacy \in Nat
  BY <1>1 DEF LegacyFor, Table, Tier, Kind, FeesInv, ConfigTypeOK
<1>3. /\ env' = [env EXCEPT !.kind = kind, !.legacy = legacy]
      /\ KindFeesOk(env.profile, kind)
  BY DEF SetBatchFeeProfile
<1>4. FeeOk(env.profile, legacy)
  BY <1>3 DEF LegacyFor, FeesInv, ScheduleReadable, ScheduleOk, KindFeesOk,
              Kind, Table, Tier
<1>. HIDE DEF legacy
<1>5. /\ env' \in EnvType /\ env'.profile = env.profile
      /\ env'.seller = env.seller /\ env'.legacy = legacy
      /\ env'.kind = kind /\ env'.schedule = env.schedule
  BY <1>1, <1>2, <1>3 DEF FeesInv, ConfigTypeOK, EnvType
<1>6. SeparateFeesOk'
  BY <1>3, <1>4, <1>5 DEF SeparateFeesOk, FeesInv
<1>7. ScheduleReadable' BY <1>5 DEF ScheduleReadable, HasSchedule, FeesInv
<1>. QED BY <1>5, <1>6, <1>7 DEF FeesInv, ConfigTypeOK, EnvType

LEMMA SetScheduleKeepsFees ==
  ASSUME FeesInv, NEW schedule \in Schedules, SetBatchClaimFeeSchedule(schedule)
  PROVE  FeesInv'
<1>1. schedule \in [Table -> [Tier -> Nat]] BY ConfigInputs
<1>2. /\ env' = [env EXCEPT !.schedule = schedule, !.legacy = schedule["claim"][4]]
      /\ ScheduleOk(env.profile, schedule)
  BY DEF SetBatchClaimFeeSchedule
<1>3. schedule["claim"][4] \in Nat /\ FeeOk(env.profile, schedule["claim"][4])
  BY <1>1, <1>2 DEF ScheduleOk, Table, Tier
<1>4. /\ env' \in EnvType /\ env'.profile = env.profile
      /\ env'.seller = env.seller /\ env'.legacy = schedule["claim"][4]
      /\ env'.kind = env.kind /\ env'.schedule = schedule
  BY <1>1, <1>2, <1>3 DEF FeesInv, ConfigTypeOK, EnvType
<1>5. SeparateFeesOk'
  BY <1>3, <1>4 DEF SeparateFeesOk, FeesInv, HasKindFees
<1>6. ScheduleReadable' BY <1>2, <1>4 DEF ScheduleReadable
<1>. QED BY <1>4, <1>5, <1>6 DEF FeesInv, ConfigTypeOK, EnvType

LEMMA FeesStep == FeesInv /\ [ConfigNext]_env => FeesInv'
<1>. SUFFICES ASSUME FeesInv, [ConfigNext]_env PROVE FeesInv' OBVIOUS
<1>1. CASE UNCHANGED env
  BY <1>1 DEF FeesInv, ConfigTypeOK, SeparateFeesOk, ScheduleReadable,
              HasKindFees, HasSchedule
<1>2. CASE \E verified \in BOOLEAN : SetEnv(verified) BY <1>2, SetEnvKeepsFees
<1>3. CASE \E profile \in Profile, docs \in Docs \cup {NoDocs},
              seller, legacy \in Fees :
             SetRuntimeProfile(profile, docs, seller, legacy)
  BY <1>3, SetProfileKeepsFees
<1>4. CASE \E profile \in Profile, docs \in Docs \cup {NoDocs}, seller \in Fees,
              kind \in KindFees, schedule \in Schedules \cup {NoSchedule} :
             SetRuntimeConfiguration(profile, docs, seller, kind, schedule)
  BY <1>4, SetConfigurationKeepsFees
<1>5. CASE \E kind \in KindFees : SetBatchFeeProfile(kind)
  BY <1>5, SetFeeProfileKeepsFees
<1>6. CASE \E schedule \in Schedules : SetBatchClaimFeeSchedule(schedule)
  BY <1>6, SetScheduleKeepsFees
<1>. QED BY <1>1, <1>2, <1>3, <1>4, <1>5, <1>6 DEF ConfigNext

LEMMA FeesPrices == FeesInv => PricesHonoured
<1>. SUFFICES ASSUME FeesInv PROVE PricesHonoured OBVIOUS
<1>. DEFINE counts == {1, 2, 10, 11, 50, 51, 100}
            price(k, n) == FeeForPayload(k, n)
<1>1. \A n \in Nat : TierOf(n) \in Tier BY DEF TierOf, Tier
<1>2. \A n, m \in Nat : n <= m => TierOf(n) <= TierOf(m) BY DEF TierOf
<1>3. ASSUME HasSchedule, NEW t \in Table, NEW n \in counts
      PROVE  price(t, n) = env.schedule[t][TierOf(n)]
  <2>1. n > 0 OBVIOUS
  <2>2. t = "claim" \/ t = "refund" BY DEF Table
  <2>3. price(t, n) = ScheduledFee(t, n) BY <2>1, <2>2 DEF FeeForPayload
  <2>4. ScheduleReadable BY DEF FeesInv
  <2>. QED BY <1>3, <2>3, <2>4 DEF ScheduledFee
<1>4. ASSUME HasSchedule, NEW t \in Table, NEW n \in counts, NEW m \in counts,
             n <= m
      PROVE  env.schedule[t][TierOf(n)] <= env.schedule[t][TierOf(m)]
  <2>1. ScheduleOk(env.profile, env.schedule)
    BY <1>4 DEF FeesInv, ScheduleReadable
  <2>2. n \in Nat /\ m \in Nat OBVIOUS
  <2>3. /\ TierOf(n) \in Tier /\ TierOf(m) \in Tier
        /\ TierOf(n) <= TierOf(m)
    BY <1>1, <1>2, <1>4, <2>2
  <2>. QED BY <2>1, <2>3 DEF ScheduleOk
<1>5. ASSUME env.profile = "polygon", NEW k \in Kind, NEW h \in BOOLEAN,
             FeeForKind(k, h) # Unset
      PROVE  FeeForKind(k, h) >= Floor
  BY <1>5 DEF FeeForKind, FeesInv, SeparateFeesOk, KindFeesOk, FeeOk, Kind
<1>6. ASSUME env.profile = "polygon", NEW k \in Kind, NEW n \in counts \cup {0},
             price(k, n) # Unset
      PROVE  price(k, n) >= Floor
  <2>1. CASE /\ k = "claim" \/ (k = "refund" /\ n > 0)
             /\ HasSchedule
    <3>1. k \in Table /\ TierOf(n) \in Tier BY <1>1, <2>1 DEF Table
    <3>2. price(k, n) = env.schedule[k][TierOf(n)]
      BY <2>1 DEF FeeForPayload, ScheduledFee, FeesInv
    <3>3. ScheduleOk(env.profile, env.schedule)
      BY <2>1 DEF FeesInv, ScheduleReadable
    <3>. QED BY <1>6, <3>1, <3>2, <3>3 DEF ScheduleOk, FeeOk
  <2>2. CASE /\ k = "claim" \/ (k = "refund" /\ n > 0)
             /\ ~HasSchedule
    BY <1>5, <1>6, <2>2 DEF FeeForPayload, ScheduledFee
  <2>3. CASE ~(k = "claim" \/ (k = "refund" /\ n > 0))
    BY <1>5, <1>6, <2>3 DEF FeeForPayload
  <2>. QED BY <2>1, <2>2, <2>3
<1>7. env.profile = "polygon" /\ env.seller # Unset => env.seller >= Floor
  BY DEF FeesInv, SeparateFeesOk, FeeOk
<1>. QED BY <1>3, <1>4, <1>6, <1>7 DEF PricesHonoured

(* Every price a settlement is charged is the stored one, at least the      *)
(* production minimum, and grows with the claims, whatever the order of the *)
(* configuration updates (lib.rs 540-700, 4503-4723).                       *)
THEOREM PricesAlwaysHonoured == ConfigSpec => []PricesHonoured
BY FeesInit, FeesStep, FeesPrices, PTL DEF ConfigSpec
-----------------------------------------------------------------------------
(* Acceptances.                                                             *)

AcceptanceInv ==
  ConfigTypeOK /\ SellersTypeOK /\ AcceptanceTypeOK /\ AcceptedSigned

SignedType == [seller : Seller, docs : Docs, profile : Profile,
               expires : 0..(MaxTime + Lifetime)]

LEMMA MessageType ==
  ASSUME ConfigTypeOK, clock \in 0..MaxTime, NEW s \in Seller
  PROVE  /\ CurrentDocs \in Docs
         /\ Message(s, clock + Lifetime) \in SignedType
<1>1. CurrentDocs \in Docs BY ConfigInputs DEF ConfigTypeOK, CurrentDocs
<1>2. clock + Lifetime \in 0..(MaxTime + Lifetime) BY AcceptanceAssumption
<1>3. env.profile \in Profile BY DEF ConfigTypeOK
<1>. QED BY <1>1, <1>2, <1>3 DEF Message, SignedType

LEMMA AcceptanceInvInit == AcceptanceInit => AcceptanceInv
<1>. SUFFICES ASSUME AcceptanceInit PROVE AcceptanceInv OBVIOUS
<1>1. ConfigTypeOK BY FeesInit DEF AcceptanceInit, FeesInv
<1>2. SellersTypeOK BY DEF AcceptanceInit, SellersInit, SellersTypeOK
<1>3. AcceptanceTypeOK
  BY AcceptanceAssumption DEF AcceptanceInit, AcceptanceTypeOK
<1>4. AcceptedSigned BY DEF AcceptanceInit, AcceptedSigned
<1>. QED BY <1>1, <1>2, <1>3, <1>4 DEF AcceptanceInv

LEMMA ChallengeInvariant ==
  ASSUME AcceptanceInv, NEW s \in Seller, Challenge(s)
  PROVE  AcceptanceInv'
<1>1. /\ signed' = signed \cup {Message(s, clock + Lifetime)}
      /\ UNCHANGED <<accepted, clock, env, sellers, scopes>>
  BY DEF Challenge, SellerVars
<1>2. Message(s, clock + Lifetime) \in SignedType
  BY MessageType DEF AcceptanceInv, AcceptanceTypeOK
<1>3. AcceptanceTypeOK'
  BY <1>1, <1>2 DEF AcceptanceInv, AcceptanceTypeOK, SignedType
<1>4. AcceptedSigned' BY <1>1 DEF AcceptanceInv, AcceptedSigned
<1>5. ConfigTypeOK' /\ SellersTypeOK'
  BY <1>1 DEF AcceptanceInv, ConfigTypeOK, SellersTypeOK
<1>. QED BY <1>3, <1>4, <1>5 DEF AcceptanceInv

LEMMA SubmitInvariant ==
  ASSUME AcceptanceInv, NEW m \in signed, Submit(m)
  PROVE  AcceptanceInv'
<1>1. /\ m.seller \in Seller /\ m \in SignedType
      /\ clock <= m.expires /\ m = Message(m.seller, m.expires)
      /\ sellers' = Ensured(m.seller)
      /\ accepted' = [accepted EXCEPT ![m.seller] = [docs |-> CurrentDocs, at |-> clock]]
      /\ UNCHANGED <<signed, clock, env, scopes>>
  BY DEF AcceptanceInv, AcceptanceTypeOK, SignedType, Submit, ChallengeValid
<1>2. m.docs = CurrentDocs BY <1>1 DEF Message
<1>3. CurrentDocs \in Docs BY <1>1, <1>2 DEF SignedType
<1>4. AcceptanceTypeOK' BY <1>1, <1>3 DEF AcceptanceInv, AcceptanceTypeOK
<1>5. AcceptedSigned'
  <2>1. ASSUME NEW s \in Seller, accepted'[s] # NotAccepted
        PROVE  \E o \in signed : /\ o.seller = s /\ o.docs = accepted'[s].docs
                                 /\ accepted'[s].at <= o.expires
    <3>1. CASE s = m.seller
      <4>1. accepted'[s] = [docs |-> CurrentDocs, at |-> clock]
        BY <1>1, <3>1 DEF AcceptanceInv, AcceptanceTypeOK
      <4>. QED BY <1>1, <1>2, <3>1, <4>1
    <3>2. CASE s # m.seller
      <4>1. accepted'[s] = accepted[s]
        BY <1>1, <3>2 DEF AcceptanceInv, AcceptanceTypeOK
      <4>. QED BY <2>1, <4>1 DEF AcceptanceInv, AcceptedSigned
    <3>. QED BY <3>1, <3>2
  <2>. QED BY <1>1, <2>1 DEF AcceptedSigned
<1>6. ConfigTypeOK' /\ SellersTypeOK'
  BY <1>1 DEF AcceptanceInv, ConfigTypeOK, SellersTypeOK, Ensured
<1>. QED BY <1>4, <1>5, <1>6 DEF AcceptanceInv

LEMMA AcceptanceInvStep ==
  AcceptanceInv /\ [AcceptanceNext]_AcceptanceVars => AcceptanceInv'
<1>. SUFFICES ASSUME AcceptanceInv, [AcceptanceNext]_AcceptanceVars
              PROVE  AcceptanceInv'
  OBVIOUS
<1>1. CASE UNCHANGED AcceptanceVars
  BY <1>1 DEF AcceptanceVars, AcceptanceInv, ConfigTypeOK, SellersTypeOK,
              AcceptanceTypeOK, AcceptedSigned
<1>2. CASE \E s \in Seller : Challenge(s) BY <1>2, ChallengeInvariant
<1>3. CASE \E m \in signed : Submit(m) BY <1>3, SubmitInvariant
<1>4. CASE Tick
  <2>1. clock' \in 0..MaxTime
    BY <1>4, AcceptanceAssumption DEF Tick, AcceptanceInv, AcceptanceTypeOK
  <2>. QED
    BY <1>4, <2>1 DEF Tick, SellerVars, AcceptanceInv, ConfigTypeOK, SellersTypeOK,
                      AcceptanceTypeOK, AcceptedSigned
<1>5. CASE Reconfigure
  <2>1. ConfigTypeOK'
    BY <1>5, ConfigInputs DEF Reconfigure, SetRuntimeProfile, AcceptanceInv,
                              ConfigTypeOK
  <2>. QED
    BY <1>5, <2>1 DEF Reconfigure, SellerVars, AcceptanceInv, SellersTypeOK,
                      AcceptanceTypeOK, AcceptedSigned
<1>6. CASE SellersNext /\ UNCHANGED <<accepted, signed, clock, env>>
  <2>1. SellersTypeOK'
    BY <1>6 DEF SellersNext, SetSeller, SetScope, AcceptanceInv, SellersTypeOK
  <2>. QED
    BY <1>6, <2>1 DEF AcceptanceInv, ConfigTypeOK, AcceptanceTypeOK, AcceptedSigned
<1>. QED BY <1>1, <1>2, <1>3, <1>4, <1>5, <1>6 DEF AcceptanceNext

(* An acceptance always stands for documents its seller signed in time,     *)
(* whatever challenges are replayed, late or for older documents            *)
(* (lib.rs 4931-5036).                                                      *)
THEOREM AcceptancesSigned == AcceptanceSpec => []AcceptedSigned
<1>1. AcceptanceInv => AcceptedSigned BY DEF AcceptanceInv
<1>. QED
  BY <1>1, AcceptanceInvInit, AcceptanceInvStep, PTL DEF AcceptanceSpec
=============================================================================
