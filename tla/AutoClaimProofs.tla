---------------------------- MODULE AutoClaimProofs ----------------------------
(***************************************************************************)
(* The collector, for any channels, thresholds, limits, fees and events.    *)
(*                                                                         *)
(* A step works on one channel, so most of the invariant is stated of one   *)
(* channel at a time: its collection, its stored row, its worker and what   *)
(* the latest and the finalized block say of it.  What the channels share,  *)
(* the lock, the records and the nonces, depends on the journaled attempts   *)
(* only.  Fees are counted over all channels: one is held for every attempt *)
(* under way and one is spent for every claim the chain has executed.       *)
(***************************************************************************)
EXTENDS AutoClaimProperties, FiniteSetTheorems, TLAPS

(* The attempt of a collection, if there is one.                            *)
HeldOf(col) == IF col = None THEN None ELSE col.attempt

(* Where a worker stands tells whether its attempt is signed.               *)
WorkerOk(col, w) ==
  /\ w.pc \in {"monitor", "monitored"} =>
       HeldOf(col) = None \/ HeldOf(col).nonce # -1
  /\ w.pc \in {"latest", "nonce", "quote"} =>
       HeldOf(col) # None /\ HeldOf(col).nonce = -1
  /\ w.pc \in {"refresh", "send", "resend"} =>
       HeldOf(col) # None /\ HeldOf(col).nonce # -1

CoveredOk(col, st) ==
  HeldOf(col) # None => st # None /\ HeldOf(col).key.target <= st.charged

DebtOk(col, st, lat) ==
  col # None /\ st # None =>
    \A n \in 1..st.charged :
      n > lat /\ n > col.claimed =>
        \/ n \in col.charges
        \/ col.force # "no"
        \/ col.attempt # None /\ n <= col.attempt.key.target

SleepOk(col, st, w) ==
  col # None /\ col.due = "never" =>
    /\ col.attempt = None /\ w.pc = "idle"
    /\ st # None /\ st.charged <= col.claimed /\ st.pending # "live"

(* A live reservation has room for its payment.                             *)
BacklogOk(col, st) ==
  col # None =>
    /\ Cardinality(col.charges) <= MaxOutstanding
    /\ st # None /\ st.pending = "live" => Cardinality(col.charges) < MaxOutstanding

(* What does not depend on the worker or the schedule.                      *)
Loose(col, st, lat) ==
  /\ col # None => col.claimed <= lat
  /\ CoveredOk(col, st) /\ DebtOk(col, st, lat) /\ BacklogOk(col, st)

ChannelOk(col, st, w, lat, fin) ==
  /\ Loose(col, st, lat) /\ SleepOk(col, st, w)
  /\ WorkerOk(col, w) /\ w.claimed <= lat /\ fin <= lat  \* nobody ahead of the chain

ChannelsOk ==
  \A c \in Channel :
    ChannelOk(collection[c], store[c], worker[c], latest[c], final[c])

(* JournalAgrees, in terms of the attempts.                                 *)
JournalInv ==
  /\ \A c \in Channel : HeldOf(collection[c]) # None =>
       /\ HeldOf(collection[c]).key.channel = c
       /\ lock = HeldOf(collection[c]).key
       /\ record[HeldOf(collection[c]).key] =
            IF HeldOf(collection[c]).nonce = -1 THEN "checking" ELSE "broadcast"
  /\ \A k \in Key : lock = k \/ record[k] \in {"checking", "broadcast"} =>
       HeldOf(collection[k.channel]) # None /\ HeldOf(collection[k.channel]).key = k

(* A nonce below nextNonce has one user: a transaction that was sent, the   *)
(* journaled one, or another settlement.                                    *)
NonceInv ==
  /\ other < nextNonce
  /\ \A t \in sent : t.nonce < nextNonce /\ t.nonce # other
  /\ \A c \in Channel :
       HeldOf(collection[c]) # None /\ HeldOf(collection[c]).nonce # -1 =>
         /\ HeldOf(collection[c]).nonce < nextNonce
         /\ HeldOf(collection[c]).nonce # other
         /\ \A t \in sent : t.nonce = HeldOf(collection[c]).nonce =>
              t.key = HeldOf(collection[c]).key
  /\ \A t1, t2 \in sent : t1.nonce = t2.nonce => t1.key = t2.key

MinedInv ==
  \A m \in mined : m.ok /\ m.tx.key # Manual =>
    m.tx.key.target <= latest[m.tx.key.channel]

Inv == TypeOK /\ ChannelsOk /\ JournalInv /\ NonceInv /\ MinedInv

(* What no step may do: forget a signed attempt the chain has not executed,  *)
(* or a channel with a debt, or touch an attempt but not its record.        *)
Kept ==
  \A c \in Channel :
    /\ HeldOf(collection[c]) # None /\ HeldOf(collection[c]).nonce # -1 =>
         \/ HeldOf(collection'[c]) = HeldOf(collection[c])
         \/ \E m \in mined : m.tx = Journaled(c)
    /\ collection[c] # None /\ collection'[c] = None =>
         Charged(c) <= latest[c] /\ HeldOf(collection[c]) = None
    /\ record' = record => HeldOf(collection'[c]) = HeldOf(collection[c])

(* TypeOK in two halves: what is kept per channel, and what is shared.      *)
ChannelTypes ==
  /\ collection \in [Channel -> Collection \cup {None}]
  /\ store \in [Channel -> StoredChannel \cup {None}]
  /\ worker \in [Channel -> Worker]
  /\ latest \in [Channel -> 0..MaxCharged]
  /\ final \in [Channel -> 0..MaxCharged]

SharedTypes ==
  /\ enabled \in BOOLEAN
  /\ lock \in Key \cup {None, Manual}
  /\ credit \in Nat
  /\ record \in [Key -> {"none", "checking", "broadcast", "settled", "failed"}]
  /\ nextNonce \in 0..(MaxNonce + 1)
  /\ other \in -1..MaxNonce
  /\ sent \subseteq Tx
  /\ mined \subseteq [tx : Tx, ok : BOOLEAN]
  /\ chainNonce \in 0..(MaxNonce + 1)
  /\ leaving \subseteq Channel
-----------------------------------------------------------------------------
(* Counted payments.                                                        *)

LEMMA ChargesFinite ==
  ASSUME NEW S \in SUBSET (1..MaxCharged)
  PROVE  IsFiniteSet(S) /\ Cardinality(S) \in Nat
<1>1. MaxCharged \in Nat BY AutoClaimAssumption
<1>2. IsFiniteSet(1..MaxCharged) BY <1>1, FS_Interval
<1>3. IsFiniteSet(S) BY <1>2, FS_Subset
<1>. QED BY <1>3, FS_CardinalityType

LEMMA FewerCharges ==
  ASSUME NEW S \in SUBSET (1..MaxCharged), NEW R \in SUBSET S
  PROVE  Cardinality(R) <= Cardinality(S)
BY ChargesFinite, FS_Subset

LEMMA OneMoreCharge ==
  ASSUME NEW S \in SUBSET (1..MaxCharged), NEW n
  PROVE  Cardinality(S \cup {n}) <= Cardinality(S) + 1
<1>1. IsFiniteSet(S) /\ Cardinality(S) \in Nat BY ChargesFinite
<1>2. Cardinality(S \cup {n}) = IF n \in S THEN Cardinality(S) ELSE Cardinality(S) + 1
  BY <1>1, FS_AddElement
<1>. QED BY <1>1, <1>2

LEMMA NoCharges == Cardinality({}) = 0
BY FS_EmptySet

LEMMA LargerFacts ==
  ASSUME NEW a \in Nat, NEW b \in Nat
  PROVE  /\ Larger(a, b) \in Nat /\ Larger(a, b) >= a /\ Larger(a, b) >= b
         /\ Larger(a, b) = a \/ Larger(a, b) = b
BY DEF Larger
-----------------------------------------------------------------------------
(* What the operators on collections do.                                    *)

LEMMA FreshFacts ==
  ASSUME NEW n \in 0..MaxCharged, NEW p \in Pending
  PROVE  /\ Fresh(n, p) \in Collection /\ Fresh(n, p).attempt = None
         /\ Fresh(n, p).charges = {} /\ Fresh(n, p).claimed = 0
         /\ n > 0 => Fresh(n, p).force # "no"
         /\ Fresh(n, p).due = "now" /\ Fresh(n, p).monitored = "never"
<1>1. MaxCharged \in Nat /\ MaxSequence \in Nat BY AutoClaimAssumption
<1>. QED BY <1>1 DEF Fresh, Collection, Forced

(* x is col after an update from charge old to new.                         *)
UpdatedTo(x, col, old, new, p) ==
  /\ x \in Collection
  /\ x.attempt = col.attempt /\ x.claimed = col.claimed
  /\ x.charges = IF new > old THEN col.charges \cup {new} ELSE col.charges
  /\ x.force \in {col.force, "asked"}
  /\ x.due = "never" => col.due = "never" /\ ~(new > old) /\ p # "live"

LEMMA AfterUpdateFacts ==
  ASSUME NEW col \in Collection, NEW old \in 0..MaxCharged,
         NEW new \in 0..MaxCharged, NEW p \in Pending
  PROVE  UpdatedTo(AfterUpdate(col, old, new, p), col, old, new, p)
<1>. DEFINE full(s) == Cardinality(s) >= Threshold
<1>1. PICK charges : charges = IF new > old THEN col.charges \cup {new}
                                            ELSE col.charges
  OBVIOUS
<1>2. PICK wake \in BOOLEAN :
        wake = (\/ ~full(col.charges) /\ full(charges)
                \/ col.due = "never" /\ (new > old \/ p = "live"))
  OBVIOUS
<1>3. AfterUpdate(col, old, new, p) =
        [col EXCEPT !.seed = p, !.force = IF enabled THEN @ ELSE "asked",
                    !.charges = charges, !.due = IF wake THEN "now" ELSE @]
  BY <1>1, <1>2 DEF AfterUpdate
<1>4. charges \in SUBSET (1..MaxCharged)
  BY <1>1, AutoClaimAssumption DEF Collection
<1>5. col.due = "never" /\ (new > old \/ p = "live") => wake BY <1>2
<1>. HIDE DEF full
<1>. QED BY <1>1, <1>3, <1>4, <1>5 DEF Collection, Forced, UpdatedTo

LEMMA ReconciledFacts ==
  ASSUME NEW col \in Collection, NEW n \in 0..MaxCharged
  PROVE  /\ Reconciled(col, n) =
              [col EXCEPT !.claimed = Larger(col.claimed, n),
                          !.charges = {a \in col.charges : a > Larger(col.claimed, n)}]
         /\ Larger(col.claimed, n) \in 0..MaxCharged
         /\ Reconciled(col, n) \in Collection
         /\ Reconciled(col, n).claimed = Larger(col.claimed, n)
         /\ Reconciled(col, n).charges = {a \in col.charges : a > Larger(col.claimed, n)}
         /\ Reconciled(col, n).attempt = col.attempt
         /\ Reconciled(col, n).force = col.force
         /\ Reconciled(col, n).sequence = col.sequence
<1>1. Reconciled(col, n) =
        [col EXCEPT !.claimed = Larger(col.claimed, n),
                    !.charges = {a \in col.charges : a > Larger(col.claimed, n)}]
  BY DEF Reconciled, Collection
<1>2. Larger(col.claimed, n) \in 0..MaxCharged
  BY AutoClaimAssumption DEF Larger, Collection
<1>. QED BY <1>1, <1>2 DEF Collection

LEMMA WatchedFacts ==
  ASSUME NEW c \in Channel, collection[c] \in Collection, worker[c] \in Worker
  PROVE  /\ Watched(c) \in Collection
         /\ Watched(c).claimed = Larger(collection[c].claimed, worker[c].claimed)
         /\ Watched(c).charges =
              {a \in collection[c].charges :
                 a > Larger(collection[c].claimed, worker[c].claimed)}
         /\ Watched(c).attempt = collection[c].attempt
         /\ Watched(c).sequence = collection[c].sequence
         /\ Watched(c).force \in {collection[c].force, "asked"}
<1>1. PICK col \in Collection : col = collection[c] OBVIOUS
<1>2. PICK w \in Worker : w = worker[c] OBVIOUS
<1>3. w.claimed \in 0..MaxCharged /\ w.withdrawal \in BOOLEAN BY DEF Worker
<1>4. PICK r \in Collection : r = Reconciled(col, w.claimed)
  BY <1>3, ReconciledFacts
<1>5. /\ r.claimed = Larger(col.claimed, w.claimed)
      /\ r.charges = {a \in col.charges : a > Larger(col.claimed, w.claimed)}
      /\ r.attempt = col.attempt /\ r.force = col.force
      /\ r.sequence = col.sequence
  BY <1>3, <1>4, ReconciledFacts
<1>6. Watched(c) =
        [r EXCEPT !.monitored = "fresh", !.withdrawal = w.withdrawal,
                  !.error = IF r.halted THEN r.error ELSE "none",
                  !.force = IF w.withdrawal THEN "asked" ELSE r.force]
  BY <1>1, <1>2, <1>4 DEF Watched, Collection
<1>7. /\ Watched(c) \in Collection
      /\ Watched(c).claimed = r.claimed /\ Watched(c).charges = r.charges
      /\ Watched(c).attempt = r.attempt /\ Watched(c).sequence = r.sequence
      /\ Watched(c).force \in {r.force, "asked"}
  BY <1>3, <1>6 DEF Collection, Forced
<1>. QED BY <1>1, <1>2, <1>5, <1>7
-----------------------------------------------------------------------------
(* Steps of one channel, on values.                                         *)

(* Nothing is said of a channel without collection.                         *)
LEMMA NoneLoose == \A st, lat : Loose(None, st, lat)
BY DEF Loose, HeldOf, CoveredOk, DebtOk, BacklogOk

(* A claim the chain knows of, or an answer about it, is worked in.         *)
LEMMA ReconcileLoose ==
  ASSUME NEW col \in Collection, NEW st \in StoredChannel \cup {None},
         NEW lat \in 0..MaxCharged, NEW n \in 0..MaxCharged, n <= lat,
         Loose(col, st, lat),
         NEW x \in Collection,
         x.claimed = Larger(col.claimed, n),
         x.charges = {a \in col.charges : a > Larger(col.claimed, n)},
         x.force \in {col.force, "asked"},
         \/ x.attempt = col.attempt
         \/ x.attempt = None /\ col.attempt # None /\ n = col.attempt.key.target
  PROVE  Loose(x, st, lat)
<1>1. col # None /\ x # None BY AbsentAssumption
<1>2. col.claimed \in Nat /\ n \in Nat /\ col.claimed <= lat
  BY <1>1 DEF Collection, Loose
<1>3. /\ x.claimed \in Nat /\ x.claimed >= col.claimed /\ x.claimed >= n
      /\ x.claimed <= lat
  <2>1. /\ x.claimed \in Nat /\ x.claimed >= col.claimed /\ x.claimed >= n
        /\ x.claimed = col.claimed \/ x.claimed = n
    BY <1>2 DEF Larger
  <2>. QED BY <1>2, <2>1
<1>4. CoveredOk(x, st) BY <1>1 DEF Loose, CoveredOk, HeldOf
<1>5. DebtOk(x, st, lat)
  <2>. SUFFICES ASSUME st # None, NEW m \in 1..st.charged, m > lat, m > x.claimed
                PROVE  \/ m \in x.charges \/ x.force # "no"
                       \/ x.attempt # None /\ m <= x.attempt.key.target
    BY DEF DebtOk
  <2>1. st.charged \in Nat BY DEF StoredChannel
  <2>2. m > col.claimed /\ m > n BY <1>2, <1>3, <2>1
  <2>3. \/ m \in col.charges \/ col.force # "no"
        \/ col.attempt # None /\ m <= col.attempt.key.target
    BY <1>1, <2>2 DEF Loose, DebtOk
  <2>4. CASE m \in col.charges BY <2>4
  <2>5. CASE col.force # "no" BY <2>5
  <2>6. CASE col.attempt # None /\ m <= col.attempt.key.target
    <3>1. col.attempt.key.target \in Nat BY <2>6 DEF Collection, Attempt, Key
    <3>2. x.attempt = col.attempt BY <2>1, <2>2, <2>6, <1>2, <3>1
    <3>. QED BY <2>6, <3>2
  <2>. QED BY <2>3, <2>4, <2>5, <2>6
<1>6. BacklogOk(x, st)
  <2>1. col.charges \in SUBSET (1..MaxCharged) /\ x.charges \in SUBSET col.charges
    BY DEF Collection
  <2>2. /\ Cardinality(x.charges) <= Cardinality(col.charges)
        /\ Cardinality(x.charges) \in Nat /\ Cardinality(col.charges) \in Nat
        /\ MaxOutstanding \in Nat
    BY <2>1, FewerCharges, ChargesFinite, AutoClaimAssumption
  <2>. QED BY <1>1, <2>2 DEF Loose, BacklogOk
<1>. QED BY <1>3, <1>4, <1>5, <1>6 DEF Loose

(* A collection that is sound but for its schedule is finished.             *)
LEMMA FinishedFacts ==
  ASSUME NEW c \in Channel, NEW x \in Collection,
         NEW e \in {"none", "busy", "other"}
  PROVE  /\ Finished(c, x, e) \in Collection
         /\ Finished(c, x, e).charges = x.charges
         /\ Finished(c, x, e).claimed = x.claimed
         /\ Finished(c, x, e).force = x.force
         /\ Finished(c, x, e).attempt = x.attempt
         /\ Finished(c, x, e).due = "never" => Sleeps(c, x)
<1>1. PICK sleeps \in BOOLEAN : sleeps = Sleeps(c, x) BY DEF Sleeps
<1>2. Finished(c, x, e) =
        [x EXCEPT !.error = IF e = "none" THEN @ ELSE e,
                  !.due = IF sleeps THEN "never" ELSE "later"]
  BY <1>1 DEF Finished
<1>. QED BY <1>1, <1>2 DEF Collection

LEMMA SameLoose ==
  ASSUME NEW col \in Collection, NEW x \in Collection, NEW st, NEW lat,
         Loose(col, st, lat),
         x.claimed = col.claimed, x.charges = col.charges,
         x.force = col.force \/ x.force # "no",
         x.attempt = col.attempt
  PROVE  Loose(x, st, lat)
<1>1. col # None /\ x # None BY AbsentAssumption
<1>. QED BY <1>1 DEF Loose, CoveredOk, DebtOk, BacklogOk, HeldOf

LEMMA FinishSound ==
  ASSUME NEW c \in Channel, NEW x \in Collection,
         NEW e \in {"none", "busy", "other"},
         NEW lat \in 0..MaxCharged, NEW fin, fin <= lat,
         Loose(x, store[c], lat)
  PROVE  ChannelOk(Finished(c, x, e), store[c], IdleWorker, lat, fin)
<1>. DEFINE y == Finished(c, x, e)
<1>1. y \in Collection /\ y # None BY FinishedFacts, AbsentAssumption
<1>2. Loose(y, store[c], lat) BY <1>1, FinishedFacts, SameLoose
<1>3. SleepOk(y, store[c], IdleWorker)
  BY <1>1, FinishedFacts DEF SleepOk, Sleeps, IdleWorker
<1>4. WorkerOk(y, IdleWorker) BY DEF WorkerOk, IdleWorker
<1>5. IdleWorker.claimed <= lat BY DEF IdleWorker
<1>. QED BY <1>2, <1>3, <1>4, <1>5 DEF ChannelOk

LEMMA DroppedSound ==
  ASSUME NEW st, NEW lat \in 0..MaxCharged, NEW fin, fin <= lat
  PROVE  ChannelOk(None, st, IdleWorker, lat, fin)
<1>1. IdleWorker.claimed <= lat BY DEF IdleWorker
<1>. QED BY <1>1, NoneLoose DEF ChannelOk, SleepOk, WorkerOk, IdleWorker

StoredOf(n, p) == [charged |-> n, pending |-> p]

(* batch_update_channel: a commit adds one payment and uses up the live     *)
(* reservation; everything else leaves the charge.                          *)
LEMMA UpdateSound ==
  ASSUME NEW col \in Collection, NEW st \in StoredChannel \cup {None},
         NEW w \in Worker, NEW lat \in 0..MaxCharged, NEW fin,
         NEW old \in 0..MaxCharged, NEW new \in 0..MaxCharged, NEW p \in Pending,
         st # None => old = st.charged,
         st = None => old = 0,
         \/ new = old
         \/ /\ st # None /\ st.pending = "live" /\ p = "none"
            /\ new = Larger(old, lat) + 1,
         p = "live" => Cardinality(col.charges) < MaxOutstanding,
         ChannelOk(col, st, w, lat, fin)
  PROVE  ChannelOk(AfterUpdate(col, old, new, p), StoredOf(new, p), w, lat, fin)
<1>. DEFINE x == AfterUpdate(col, old, new, p)
<1>0. UpdatedTo(x, col, old, new, p) BY AfterUpdateFacts
<1>. HIDE DEF x
<1>1. /\ x \in Collection
      /\ x.attempt = col.attempt /\ x.claimed = col.claimed
      /\ x.charges = IF new > old THEN col.charges \cup {new} ELSE col.charges
      /\ x.force \in {col.force, "asked"}
      /\ x.due = "never" => col.due = "never" /\ ~(new > old) /\ p # "live"
  BY <1>0 DEF UpdatedTo
<1>2. PICK s2 : s2 = StoredOf(new, p) OBVIOUS
<1>3. s2.charged = new /\ s2.pending = p /\ s2 # None
  <2>1. s2 \in StoredChannel BY <1>2 DEF StoredOf, StoredChannel
  <2>. QED BY <1>2, <2>1, AbsentAssumption DEF StoredOf
<1>4. col # None /\ x # None BY <1>1, AbsentAssumption
<1>5. new >= old /\ new \in Nat /\ old \in Nat /\ lat \in Nat BY DEF Larger
<1>6. new > old => new > lat /\ \A n \in Nat : n > lat /\ n > old => n >= new
  BY <1>5 DEF Larger
<1>7. HeldOf(x) = HeldOf(col) BY <1>1, <1>4 DEF HeldOf
<1>8. CoveredOk(x, s2)
  <2>. SUFFICES ASSUME HeldOf(col) # None PROVE HeldOf(col).key.target <= new
    BY <1>3, <1>7 DEF CoveredOk
  <2>1. HeldOf(col).key.target \in Nat BY <1>4 DEF HeldOf, Collection, Attempt, Key
  <2>. QED BY <1>5, <2>1 DEF ChannelOk, Loose, CoveredOk
<1>9. DebtOk(x, s2, lat)
  <2>. SUFFICES ASSUME NEW n \in 1..new, n > lat, n > x.claimed
                PROVE  \/ n \in x.charges \/ x.force # "no"
                       \/ x.attempt # None /\ n <= x.attempt.key.target
    BY <1>3 DEF DebtOk
  <2>1. CASE n <= old
    <3>1. st # None /\ n \in 1..st.charged BY <1>5, <2>1
    <3>2. \/ n \in col.charges \/ col.force # "no"
          \/ col.attempt # None /\ n <= col.attempt.key.target
      BY <1>1, <1>4, <3>1 DEF ChannelOk, Loose, DebtOk
    <3>. QED BY <1>1, <3>2
  <2>2. CASE n > old
    <3>1. new > old /\ n = new BY <1>5, <1>6, <2>2
    <3>. QED BY <1>1, <3>1
  <2>. QED BY <1>5, <2>1, <2>2
<1>10. BacklogOk(x, s2)
  <2>1. col.charges \in SUBSET (1..MaxCharged) BY DEF Collection
  <2>2. /\ Cardinality(col.charges) \in Nat /\ MaxOutstanding \in Nat
        /\ Cardinality(col.charges) <= MaxOutstanding
    BY <1>4, <2>1, ChargesFinite, AutoClaimAssumption DEF ChannelOk, Loose, BacklogOk
  <2>3. CASE new > old
    <3>1. st # None /\ st.pending = "live" /\ p = "none" BY <1>5, <2>3
    <3>2. Cardinality(col.charges) < MaxOutstanding
      BY <1>4, <3>1 DEF ChannelOk, Loose, BacklogOk
    <3>3. x.charges = col.charges \cup {new} BY <1>1, <2>3
    <3>4. x.charges \in SUBSET (1..MaxCharged) BY <1>1 DEF Collection
    <3>5. Cardinality(x.charges) \in Nat BY <3>4, ChargesFinite
    <3>6. Cardinality(x.charges) <= Cardinality(col.charges) + 1
      BY <2>1, <3>3, OneMoreCharge
    <3>7. Cardinality(x.charges) <= MaxOutstanding BY <2>2, <3>2, <3>5, <3>6
    <3>. QED BY <1>3, <3>1, <3>7 DEF BacklogOk
  <2>4. CASE ~(new > old)
    <3>1. x.charges = col.charges BY <1>1, <2>4
    <3>. QED BY <1>3, <2>2, <3>1 DEF BacklogOk
  <2>. QED BY <2>3, <2>4
<1>11. SleepOk(x, s2, w)
  <2>. SUFFICES ASSUME x.due = "never"
                PROVE  /\ x.attempt = None /\ w.pc = "idle"
                       /\ new <= x.claimed /\ p # "live"
    BY <1>3 DEF SleepOk
  <2>1. col.due = "never" /\ new = old /\ p # "live" BY <1>1, <1>5
  <2>. QED BY <1>1, <1>4, <2>1 DEF ChannelOk, SleepOk
<1>12. WorkerOk(x, w) /\ w.claimed <= lat /\ fin <= lat /\ x.claimed <= lat
  BY <1>1, <1>4, <1>7 DEF ChannelOk, Loose, WorkerOk
<1>. QED
  BY <1>2, <1>8, <1>9, <1>10, <1>11, <1>12 DEF ChannelOk, Loose, x

(* A new collection: what was charged before is wanted.                     *)
LEMMA FreshSound ==
  ASSUME NEW st \in StoredChannel \cup {None},
         NEW w \in Worker, NEW lat \in 0..MaxCharged, NEW fin,
         NEW n \in 0..MaxCharged, NEW p \in Pending,
         st # None => n = st.charged,
         ChannelOk(None, st, w, lat, fin)
  PROVE  ChannelOk(Fresh(n, p), st, w, lat, fin)
<1>1. PICK x \in Collection : x = Fresh(n, p) BY FreshFacts
<1>2. /\ x # None /\ x.attempt = None /\ x.charges = {} /\ x.claimed = 0
      /\ n > 0 => x.force # "no"
      /\ x.due = "now"
  BY <1>1, FreshFacts, AbsentAssumption
<1>3. HeldOf(x) = None /\ HeldOf(None) = None BY <1>2 DEF HeldOf
<1>4. CoveredOk(x, st) /\ SleepOk(x, st, w) BY <1>2, <1>3 DEF CoveredOk, SleepOk
<1>5. DebtOk(x, st, lat)
  <2>. SUFFICES ASSUME st # None, NEW m \in 1..st.charged PROVE x.force # "no"
    BY DEF DebtOk
  <2>. QED BY <1>2
<1>6. BacklogOk(x, st)
  BY <1>2, NoCharges, AutoClaimAssumption DEF BacklogOk
<1>7. WorkerOk(x, w) BY <1>3 DEF ChannelOk, WorkerOk
<1>. QED
  BY <1>1, <1>2, <1>4, <1>5, <1>6, <1>7 DEF ChannelOk, Loose
-----------------------------------------------------------------------------
(* Steps of one channel, on the variables.                                  *)

LEMMA TypeParts ==
  /\ TypeOK <=> ChannelTypes /\ SharedTypes
  /\ TypeOK' <=> ChannelTypes' /\ SharedTypes'
BY DEF TypeOK, ChannelTypes, SharedTypes

LEMMA Untouched ==
  ASSUME ChannelTypes, NEW c \in Channel
  PROVE  /\ collection = [collection EXCEPT ![c] = collection[c]]
         /\ store = [store EXCEPT ![c] = store[c]]
         /\ worker = [worker EXCEPT ![c] = worker[c]]
         /\ latest = [latest EXCEPT ![c] = latest[c]]
         /\ final = [final EXCEPT ![c] = final[c]]
BY DEF ChannelTypes

LEMMA TypedAt ==
  ASSUME ChannelTypes, NEW c \in Channel
  PROVE  /\ collection[c] \in Collection \cup {None}
         /\ store[c] \in StoredChannel \cup {None}
         /\ worker[c] \in Worker
         /\ latest[c] \in 0..MaxCharged /\ final[c] \in 0..MaxCharged
BY DEF ChannelTypes

LEMMA OneChannel ==
  ASSUME ChannelTypes, ChannelsOk, NEW c \in Channel,
         NEW col \in Collection \cup {None}, NEW st \in StoredChannel \cup {None},
         NEW w \in Worker, NEW lat \in 0..MaxCharged, NEW fin \in 0..MaxCharged,
         collection' = [collection EXCEPT ![c] = col],
         store' = [store EXCEPT ![c] = st],
         worker' = [worker EXCEPT ![c] = w],
         latest' = [latest EXCEPT ![c] = lat],
         final' = [final EXCEPT ![c] = fin],
         ChannelOk(col, st, w, lat, fin)
  PROVE  ChannelTypes' /\ ChannelsOk'
<1>1. ChannelTypes' BY DEF ChannelTypes
<1>2. ASSUME NEW d \in Channel
      PROVE  ChannelOk(collection'[d], store'[d], worker'[d], latest'[d], final'[d])
  <2>1. CASE d = c
    BY <2>1 DEF ChannelTypes
  <2>2. CASE d # c
    <3>1. /\ collection'[d] = collection[d] /\ store'[d] = store[d]
          /\ worker'[d] = worker[d] /\ latest'[d] = latest[d] /\ final'[d] = final[d]
      BY <2>2 DEF ChannelTypes
    <3>. QED BY <3>1 DEF ChannelsOk
  <2>. QED BY <2>1, <2>2
<1>. QED BY <1>1, <1>2 DEF ChannelsOk

LEMMA HeldElsewhere ==
  ASSUME ChannelTypes, NEW c \in Channel, NEW col,
         collection' = [collection EXCEPT ![c] = col]
  PROVE  /\ HeldOf(collection'[c]) = HeldOf(col)
         /\ \A d \in Channel \ {c} : HeldOf(collection'[d]) = HeldOf(collection[d])
<1>1. collection'[c] = col /\ \A d \in Channel \ {c} : collection'[d] = collection[d]
  BY DEF ChannelTypes
<1>. QED BY <1>1

LEMMA AttemptTypes ==
  ASSUME ChannelTypes, NEW c \in Channel, HeldOf(collection[c]) # None
  PROVE  HeldOf(collection[c]) \in Attempt /\ HeldOf(collection[c]).key \in Key
         /\ HeldOf(collection[c]).nonce \in -1..MaxNonce
<1>1. collection[c] \in Collection BY DEF HeldOf, ChannelTypes
<1>2. HeldOf(collection[c]) \in Attempt
  BY <1>1, AbsentAssumption DEF HeldOf, Collection
<1>. QED BY <1>2 DEF Attempt

LEMMA JournalFrame ==
  ASSUME JournalInv, ChannelTypes,
         \A d \in Channel : HeldOf(collection'[d]) = HeldOf(collection[d]),
         record' = record,
         lock' = lock \/ (lock \notin Key /\ lock' \notin Key)
  PROVE  JournalInv'
<1>1. ASSUME NEW c \in Channel, HeldOf(collection'[c]) # None
      PROVE  /\ HeldOf(collection'[c]).key.channel = c
             /\ lock' = HeldOf(collection'[c]).key
             /\ record'[HeldOf(collection'[c]).key] =
                  IF HeldOf(collection'[c]).nonce = -1 THEN "checking" ELSE "broadcast"
  <2>1. HeldOf(collection'[c]) = HeldOf(collection[c]) OBVIOUS
  <2>2. HeldOf(collection[c]).key \in Key BY <1>1, <2>1, AttemptTypes
  <2>. QED BY <1>1, <2>1, <2>2 DEF JournalInv
<1>2. ASSUME NEW k \in Key, lock' = k \/ record'[k] \in {"checking", "broadcast"}
      PROVE  /\ HeldOf(collection'[k.channel]) # None
             /\ HeldOf(collection'[k.channel]).key = k
  <2>1. k.channel \in Channel BY DEF Key
  <2>2. HeldOf(collection'[k.channel]) = HeldOf(collection[k.channel]) BY <2>1
  <2>. QED BY <1>2, <2>2 DEF JournalInv
<1>. QED BY <1>1, <1>2 DEF JournalInv

(* Without a new transaction nothing changes; the journaled one may be sent *)
(* any number of times.                                                     *)
LEMMA NonceFrame ==
  ASSUME NonceInv, JournalInv, ChannelTypes,
         \A d \in Channel : HeldOf(collection'[d]) = HeldOf(collection[d]),
         UNCHANGED <<nextNonce, other>>,
         \/ sent' = sent
         \/ \E c \in Channel :
              /\ HeldOf(collection[c]) # None /\ HeldOf(collection[c]).nonce # -1
              /\ sent' = sent \cup {[key |-> HeldOf(collection[c]).key,
                                    nonce |-> HeldOf(collection[c]).nonce]}
  PROVE  NonceInv'
<1>1. CASE sent' = sent BY <1>1 DEF NonceInv
<1>2. ASSUME NEW c \in Channel,
             HeldOf(collection[c]) # None, HeldOf(collection[c]).nonce # -1,
             sent' = sent \cup {[key |-> HeldOf(collection[c]).key,
                                nonce |-> HeldOf(collection[c]).nonce]}
      PROVE  NonceInv'
  <2>1. PICK h \in Attempt : h = HeldOf(collection[c]) BY <1>2, AttemptTypes
  <2>2. PICK t : t = [key |-> h.key, nonce |-> h.nonce] OBVIOUS
  <2>3. t.key = h.key /\ t.nonce = h.nonce /\ sent' = sent \cup {t}
    BY <1>2, <2>1, <2>2
  <2>4. h.nonce < nextNonce /\ h.nonce # other /\
        \A u \in sent : u.nonce = h.nonce => u.key = h.key
    BY <1>2, <2>1 DEF NonceInv
  <2>5. \A u \in sent' : u.nonce < nextNonce' /\ u.nonce # other'
    BY <2>3, <2>4 DEF NonceInv
  <2>6. ASSUME NEW d \in Channel, HeldOf(collection'[d]) # None,
               HeldOf(collection'[d]).nonce # -1
        PROVE  /\ HeldOf(collection'[d]).nonce < nextNonce'
               /\ HeldOf(collection'[d]).nonce # other'
               /\ \A u \in sent' : u.nonce = HeldOf(collection'[d]).nonce =>
                    u.key = HeldOf(collection'[d]).key
    <3>1. HeldOf(collection'[d]) = HeldOf(collection[d]) OBVIOUS
    <3>2. HeldOf(collection[d]).key = lock /\ h.key = lock
      BY <1>2, <2>1, <2>6, <3>1 DEF JournalInv
    <3>. QED BY <2>3, <2>6, <3>1, <3>2 DEF NonceInv
  <2>7. \A u, v \in sent' : u.nonce = v.nonce => u.key = v.key
    BY <2>3, <2>4 DEF NonceInv
  <2>. QED BY <2>5, <2>6, <2>7 DEF NonceInv
<1>. QED BY <1>1, <1>2

(* A step of one channel that leaves its attempt and all that is shared     *)
(* alone, except that a node may take the journaled transaction.            *)
LEMMA Quiet ==
  ASSUME Inv, NEW c \in Channel,
         NEW col \in Collection \cup {None}, NEW st \in StoredChannel \cup {None},
         NEW w \in Worker,
         collection' = [collection EXCEPT ![c] = col],
         store' = [store EXCEPT ![c] = st],
         worker' = [worker EXCEPT ![c] = w],
         ChannelOk(col, st, w, latest[c], final[c]),
         HeldOf(col) = HeldOf(collection[c]),
         col # None \/ collection[c] = None \/ Charged(c) <= latest[c],
         UNCHANGED <<enabled, lock, credit, record, nextNonce, other, mined,
                     chainNonce, latest, final, leaving>>,
         \/ sent' = sent
         \/ /\ HeldOf(col) # None /\ HeldOf(col).nonce # -1
            /\ sent' = sent \cup {[key |-> HeldOf(col).key,
                                  nonce |-> HeldOf(col).nonce]}
  PROVE  Inv' /\ Kept
<1>1. ChannelTypes /\ SharedTypes /\ ChannelsOk /\ JournalInv /\ NonceInv /\ MinedInv
  BY TypeParts DEF Inv
<1>2. ChannelTypes' /\ ChannelsOk'
  BY <1>1, OneChannel, TypedAt, Untouched
<1>3. \A d \in Channel : HeldOf(collection'[d]) = HeldOf(collection[d])
  BY <1>1, HeldElsewhere
<1>4. JournalInv' BY <1>1, <1>3, JournalFrame
<1>5. NonceInv' BY <1>1, <1>3, NonceFrame
<1>6. MinedInv' BY <1>1 DEF MinedInv
<1>7. SharedTypes'
  <2>1. CASE sent' = sent BY <1>1, <2>1 DEF SharedTypes
  <2>2. CASE /\ HeldOf(col) # None /\ HeldOf(col).nonce # -1
             /\ sent' = sent \cup {[key |-> HeldOf(col).key,
                                   nonce |-> HeldOf(col).nonce]}
    <3>1. HeldOf(col).key \in Key /\ HeldOf(col).nonce \in -1..MaxNonce
      BY <1>1, <2>2, AttemptTypes
    <3>2. [key |-> HeldOf(col).key, nonce |-> HeldOf(col).nonce] \in Tx
      BY <2>2, <3>1, AutoClaimAssumption DEF Tx
    <3>. QED BY <1>1, <2>2, <3>2 DEF SharedTypes
  <2>. QED BY <2>1, <2>2
<1>8. Kept
  <2>1. /\ collection'[c] = col
        /\ \A d \in Channel \ {c} : collection'[d] = collection[d]
    BY <1>1 DEF ChannelTypes
  <2>2. collection[c] # None /\ collection'[c] = None =>
          Charged(c) <= latest[c] /\ HeldOf(collection[c]) = None
    BY <2>1 DEF HeldOf
  <2>. QED BY <1>3, <2>1, <2>2 DEF Kept
<1>. QED BY <1>2, <1>4, <1>5, <1>6, <1>7, <1>8, TypeParts DEF Inv

LEMMA InvAt ==
  ASSUME Inv, NEW c \in Channel
  PROVE  /\ ChannelTypes
         /\ collection[c] \in Collection \cup {None}
         /\ store[c] \in StoredChannel \cup {None}
         /\ worker[c] \in Worker
         /\ latest[c] \in 0..MaxCharged /\ final[c] \in 0..MaxCharged
         /\ ChannelOk(collection[c], store[c], worker[c], latest[c], final[c])
         /\ final[c] <= latest[c] /\ worker[c].claimed <= latest[c]
         /\ Loose(collection[c], store[c], latest[c])
BY TypeParts, TypedAt DEF Inv, ChannelsOk, ChannelOk

LEMMA HeldSame ==
  ASSUME NEW col, NEW x, col # None, x # None, x.attempt = col.attempt
  PROVE  HeldOf(x) = HeldOf(col)
BY DEF HeldOf
-----------------------------------------------------------------------------
(* batch_update_channel.                                                    *)

LEMMA ManagedUpdate ==
  ASSUME Inv, NEW c \in Channel, NEW col \in Collection,
         NEW old \in 0..MaxCharged, NEW new \in 0..MaxCharged, NEW p \in Pending,
         store[c] # None => old = store[c].charged,
         store[c] = None => old = 0,
         \/ new = old
         \/ /\ store[c] # None /\ store[c].pending = "live" /\ p = "none"
            /\ new = Larger(old, latest[c]) + 1,
         p = "live" => Cardinality(col.charges) < MaxOutstanding,
         ChannelOk(col, store[c], worker[c], latest[c], final[c]),
         HeldOf(col) = HeldOf(collection[c]),
         SetStore(c, new, p), Put(c, AfterUpdate(col, old, new, p)),
         UNCHANGED <<enabled, worker, shared, chain>>
  PROVE  Inv' /\ Kept
<1>1. PICK x : x = AfterUpdate(col, old, new, p) OBVIOUS
<1>2. UpdatedTo(x, col, old, new, p) BY <1>1, AfterUpdateFacts
<1>3. x \in Collection /\ x.attempt = col.attempt BY <1>2 DEF UpdatedTo
<1>4. HeldOf(x) = HeldOf(collection[c])
  BY <1>3, HeldSame, AbsentAssumption
<1>5. PICK st : st = store[c] OBVIOUS
<1>6. PICK lat : lat = latest[c] OBVIOUS
<1>7. PICK w : w = worker[c] OBVIOUS
<1>8. PICK fin : fin = final[c] OBVIOUS
<1>9. /\ st \in StoredChannel \cup {None} /\ w \in Worker /\ lat \in 0..MaxCharged
      /\ ChannelOk(col, st, w, lat, fin)
  BY <1>5, <1>6, <1>7, <1>8, InvAt
<1>10. /\ st # None => old = st.charged
       /\ st = None => old = 0
       /\ \/ new = old
          \/ /\ st # None /\ st.pending = "live" /\ p = "none"
             /\ new = Larger(old, lat) + 1
  BY <1>5, <1>6
<1>11. ChannelOk(x, StoredOf(new, p), w, lat, fin)
  BY <1>1, <1>9, <1>10, UpdateSound
<1>12. StoredOf(new, p) \in StoredChannel BY DEF StoredOf, StoredChannel
<1>13. /\ collection' = [collection EXCEPT ![c] = x]
       /\ store' = [store EXCEPT ![c] = StoredOf(new, p)]
       /\ worker' = [worker EXCEPT ![c] = worker[c]]
  BY <1>1, InvAt, Untouched DEF Put, SetStore, StoredOf
<1>14. UNCHANGED <<enabled, lock, credit, record, nextNonce, other, mined,
                   chainNonce, latest, final, leaving, sent>>
  BY DEF shared, chain
<1>15. ChannelOk(x, StoredOf(new, p), worker[c], latest[c], final[c])
  BY <1>6, <1>7, <1>8, <1>11
<1>16. x # None BY <1>3, AbsentAssumption
<1>. QED BY <1>3, <1>4, <1>12, <1>13, <1>14, <1>15, <1>16, InvAt, Quiet

LEMMA UnmanagedUpdate ==
  ASSUME Inv, NEW c \in Channel, ~Managed(c),
         NEW st \in StoredChannel \cup {None},
         store' = [store EXCEPT ![c] = st], collection' = collection,
         UNCHANGED <<enabled, worker, shared, chain>>
  PROVE  Inv' /\ Kept
<1>1. collection[c] = None BY DEF Managed
<1>2. ChannelOk(None, st, worker[c], latest[c], final[c])
  BY <1>1, InvAt, NoneLoose DEF ChannelOk, SleepOk
<1>3. /\ collection' = [collection EXCEPT ![c] = None]
      /\ worker' = [worker EXCEPT ![c] = worker[c]]
  BY <1>1, InvAt, Untouched
<1>4. UNCHANGED <<enabled, lock, credit, record, nextNonce, other, mined,
                   chainNonce, latest, final, leaving, sent>>
  BY DEF shared, chain
<1>. QED BY <1>1, <1>2, <1>3, <1>4, InvAt, Quiet

LEMMA ChargedType ==
  ASSUME Inv, NEW c \in Channel
  PROVE  /\ Charged(c) \in 0..MaxCharged
         /\ store[c] # None => Charged(c) = store[c].charged
         /\ store[c] = None => Charged(c) = 0
BY InvAt, AutoClaimAssumption DEF Charged, StoredChannel

(* before_update: the collection stays sound and keeps its attempt.         *)
LEMMA RegisteredSound ==
  ASSUME Inv, NEW c \in Channel
  PROVE  /\ Registered(c) \in Collection
         /\ HeldOf(Registered(c)) = HeldOf(collection[c])
         /\ ChannelOk(Registered(c), store[c], worker[c], latest[c], final[c])
<1>1. PICK col : col = IF Managed(c) THEN collection[c] ELSE Fresh(Charged(c), "live")
  OBVIOUS
<1>2. "live" \in Pending BY DEF Pending
<1>3. /\ col \in Collection /\ HeldOf(col) = HeldOf(collection[c])
      /\ ChannelOk(col, store[c], worker[c], latest[c], final[c])
  <2>1. CASE Managed(c) BY <1>1, <2>1, InvAt DEF Managed
  <2>2. CASE ~Managed(c)
    <3>1. col = Fresh(Charged(c), "live") /\ collection[c] = None
      BY <1>1, <2>2 DEF Managed
    <3>2. PICK n \in 0..MaxCharged : n = Charged(c) BY ChargedType
    <3>3. col \in Collection /\ col.attempt = None
      BY <1>2, <3>1, <3>2, FreshFacts
    <3>4. HeldOf(col) = HeldOf(collection[c])
      BY <3>1, <3>3, AbsentAssumption DEF HeldOf
    <3>5. ChannelOk(Fresh(n, "live"), store[c], worker[c], latest[c], final[c])
      <4>1. PICK st : st = store[c] OBVIOUS
      <4>2. PICK lat : lat = latest[c] OBVIOUS
      <4>3. PICK w : w = worker[c] OBVIOUS
      <4>4. PICK fin : fin = final[c] OBVIOUS
      <4>5. /\ st \in StoredChannel \cup {None} /\ w \in Worker
            /\ lat \in 0..MaxCharged /\ ChannelOk(None, st, w, lat, fin)
            /\ st # None => n = st.charged
        BY <3>1, <3>2, <4>1, <4>2, <4>3, <4>4, InvAt, ChargedType
      <4>6. ChannelOk(Fresh(n, "live"), st, w, lat, fin)
        BY <1>2, <4>5, FreshSound
      <4>. QED BY <4>1, <4>2, <4>3, <4>4, <4>6
    <3>. QED BY <3>1, <3>2, <3>3, <3>4, <3>5
  <2>. QED BY <2>1, <2>2
<1>4. Registered(c) = IF Unmonitored(col)
                      THEN [col EXCEPT !.monitored = "never", !.due = "now"] ELSE col
  BY <1>1 DEF Registered
<1>5. CASE ~Unmonitored(col) BY <1>3, <1>4, <1>5
<1>6. CASE Unmonitored(col)
  <2>1. PICK x : x = Registered(c) OBVIOUS
  <2>2. /\ x \in Collection /\ x.attempt = col.attempt /\ x.claimed = col.claimed
        /\ x.charges = col.charges /\ x.force = col.force /\ x.due = "now"
    BY <1>3, <1>4, <1>6, <2>1 DEF Collection
  <2>3. HeldOf(x) = HeldOf(col) BY <1>3, <2>2, HeldSame, AbsentAssumption
  <2>4. Loose(x, store[c], latest[c]) BY <1>3, <2>2, SameLoose DEF ChannelOk
  <2>5. ChannelOk(x, store[c], worker[c], latest[c], final[c])
    BY <1>3, <2>2, <2>3, <2>4 DEF ChannelOk, SleepOk, WorkerOk
  <2>. QED BY <1>3, <2>1, <2>2, <2>3, <2>5
<1>. QED BY <1>5, <1>6

LEMMA ReserveInv ==
  ASSUME Inv, NEW c \in Channel,
         Reserve(c) \/ ReserveRefused(c) \/ ReserveUnmanaged(c)
  PROVE  Inv' /\ Kept
<1>1. PICK n \in 0..MaxCharged : n = Charged(c) BY ChargedType
<1>2. PICK col \in Collection : col = Registered(c) BY RegisteredSound
<1>3. /\ HeldOf(col) = HeldOf(collection[c])
      /\ ChannelOk(col, store[c], worker[c], latest[c], final[c])
  BY <1>2, RegisteredSound
<1>p. "live" \in Pending BY DEF Pending
<1>4. CASE Reserve(c)
  <2>1. Cardinality(col.charges) < MaxOutstanding
    <3>1. ~(Cardinality(col.charges) >= MaxOutstanding)
      BY <1>2, <1>4 DEF Reserve, StopReason
    <3>2. Cardinality(col.charges) \in Nat BY ChargesFinite DEF Collection
    <3>. QED BY <3>1, <3>2, AutoClaimAssumption
  <2>2. /\ SetStore(c, n, "live") /\ Put(c, AfterUpdate(col, n, n, "live"))
        /\ UNCHANGED <<enabled, worker, shared, chain>>
    BY <1>1, <1>2, <1>4 DEF Reserve
  <2>3. (store[c] # None => n = store[c].charged) /\ (store[c] = None => n = 0)
    BY <1>1, ChargedType
  <2>. QED BY <1>p, <1>3, <2>1, <2>2, <2>3, ManagedUpdate
<1>5. CASE ReserveRefused(c)
  <2>1. /\ collection' = [collection EXCEPT ![c] = col]
        /\ store' = [store EXCEPT ![c] = store[c]]
        /\ worker' = [worker EXCEPT ![c] = worker[c]]
    BY <1>2, <1>5, InvAt, Untouched DEF ReserveRefused, Put
  <2>2. UNCHANGED <<enabled, lock, credit, record, nextNonce, other, mined,
                    chainNonce, latest, final, leaving, sent>>
    BY <1>5 DEF ReserveRefused, shared, chain
  <2>3. col # None BY AbsentAssumption
  <2>. QED BY <1>3, <2>1, <2>2, <2>3, InvAt, Quiet
<1>6. CASE ReserveUnmanaged(c)
  <2>1. StoredOf(n, "live") \in StoredChannel BY <1>p DEF StoredOf, StoredChannel
  <2>2. store' = [store EXCEPT ![c] = StoredOf(n, "live")]
    BY <1>1, <1>6 DEF ReserveUnmanaged, SetStore, StoredOf
  <2>. QED BY <1>6, <2>1, <2>2, UnmanagedUpdate DEF ReserveUnmanaged
<1>. QED BY <1>4, <1>5, <1>6

LEMMA UpdatedInv ==
  ASSUME Inv, NEW c \in Channel, NEW old \in 0..MaxCharged,
         NEW new \in 0..MaxCharged, NEW p \in Pending,
         store[c] # None, old = store[c].charged, p # "live",
         \/ new = old
         \/ /\ store[c].pending = "live" /\ p = "none"
            /\ new = Larger(old, latest[c]) + 1,
         Updated(c, new, p)
  PROVE  Inv' /\ Kept
<1>1. SetStore(c, new, p) /\ UNCHANGED <<enabled, worker, shared, chain>>
  BY DEF Updated
<1>2. CASE Managed(c)
  <2>1. PICK col \in Collection : col = collection[c]
    BY <1>2, InvAt DEF Managed
  <2>2. Put(c, AfterUpdate(col, old, new, p)) BY <1>2, <2>1 DEF Updated
  <2>3. ChannelOk(col, store[c], worker[c], latest[c], final[c]) BY <2>1, InvAt
  <2>. QED BY <1>1, <2>1, <2>2, <2>3, ManagedUpdate
<1>3. CASE ~Managed(c)
  <2>1. StoredOf(new, p) \in StoredChannel BY DEF StoredOf, StoredChannel
  <2>2. store' = [store EXCEPT ![c] = StoredOf(new, p)]
    BY <1>1 DEF SetStore, StoredOf
  <2>3. collection' = collection BY <1>3 DEF Updated
  <2>. QED BY <1>1, <1>3, <2>1, <2>2, <2>3, UnmanagedUpdate
<1>. QED BY <1>2, <1>3

LEMMA CommitInv ==
  ASSUME Inv, NEW c \in Channel, Commit(c) \/ Cancel(c)
  PROVE  Inv' /\ Kept
<1>1. store[c] # None BY DEF Commit, Cancel
<1>2. PICK old \in 0..MaxCharged : old = store[c].charged
  BY <1>1, InvAt DEF StoredChannel
<1>3. "none" \in Pending BY DEF Pending
<1>4. CASE Commit(c)
  <2>1. PICK new : new = Larger(old, latest[c]) + 1 OBVIOUS
  <2>2. new <= MaxCharged /\ store[c].pending = "live" /\ Updated(c, new, "none")
    BY <1>2, <1>4, <2>1 DEF Commit
  <2>3. latest[c] \in Nat /\ old \in Nat BY InvAt
  <2>4. new \in 0..MaxCharged
    BY <2>1, <2>2, <2>3, AutoClaimAssumption DEF Larger
  <2>. QED BY <1>1, <1>2, <1>3, <2>1, <2>2, <2>4, UpdatedInv
<1>5. CASE Cancel(c)
  <2>1. Updated(c, old, "none") BY <1>2, <1>5 DEF Cancel
  <2>. QED BY <1>1, <1>2, <1>3, <2>1, UpdatedInv
<1>. QED BY <1>4, <1>5

LEMMA DeleteInv ==
  ASSUME Inv, NEW c \in Channel, Delete(c)
  PROVE  Inv' /\ Kept
<1>1. HeldOf(collection[c]) = None BY DEF Delete, Deletable, Managed, HeldOf
<1>2. ChannelOk(None, None, worker[c], latest[c], final[c])
  <2>1. WorkerOk(None, worker[c])
    BY <1>1, InvAt DEF ChannelOk, WorkerOk, HeldOf
  <2>. QED BY <2>1, InvAt, NoneLoose DEF ChannelOk, SleepOk
<1>3. /\ collection' = [collection EXCEPT ![c] = None]
      /\ store' = [store EXCEPT ![c] = None]
      /\ worker' = [worker EXCEPT ![c] = worker[c]]
  BY InvAt, Untouched DEF Delete, Drop, Put
<1>4. UNCHANGED <<enabled, lock, credit, record, nextNonce, other, mined,
                  chainNonce, latest, final, leaving, sent>>
  BY DEF Delete, shared, chain
<1>5. HeldOf(None) = HeldOf(collection[c]) BY <1>1 DEF HeldOf
<1>6. collection[c] = None \/ Charged(c) <= latest[c]
  <2>. SUFFICES ASSUME collection[c] # None PROVE Charged(c) <= latest[c]
    OBVIOUS
  <2>1. Charged(c) <= collection[c].claimed
    BY DEF Delete, Deletable, Managed, Charged
  <2>2. /\ Charged(c) \in Nat /\ collection[c].claimed \in Nat /\ latest[c] \in Nat
        /\ collection[c].claimed <= latest[c]
    BY InvAt, ChargedType DEF Collection, Loose
  <2>. QED BY <2>1, <2>2
<1>. QED BY <1>2, <1>3, <1>4, <1>5, <1>6, InvAt, Quiet
-----------------------------------------------------------------------------
(* The switches and the clock.                                              *)

(* A step that leaves everything but schedule, force and marks of a         *)
(* collection alone.                                                        *)
LEMMA ReschedulingInv ==
  ASSUME Inv, NEW c \in Channel, NEW col \in Collection, NEW x \in Collection,
         col = collection[c],
         x.claimed = col.claimed, x.charges = col.charges,
         x.force = col.force \/ x.force # "no",
         x.attempt = col.attempt,
         x.due = col.due \/ x.due # "never",
         collection' = [collection EXCEPT ![c] = x],
         UNCHANGED <<enabled, store, worker, shared, chain>>
  PROVE  Inv' /\ Kept
<1>1. x # None /\ col # None BY AbsentAssumption
<1>2. HeldOf(x) = HeldOf(col) BY <1>1, HeldSame
<1>3. Loose(x, store[c], latest[c]) BY InvAt, SameLoose
<1>4. ChannelOk(x, store[c], worker[c], latest[c], final[c])
  <2>1. ChannelOk(col, store[c], worker[c], latest[c], final[c]) BY InvAt
  <2>. QED BY <1>1, <1>2, <1>3, <2>1 DEF ChannelOk, SleepOk, WorkerOk
<1>5. /\ store' = [store EXCEPT ![c] = store[c]]
      /\ worker' = [worker EXCEPT ![c] = worker[c]]
  BY InvAt, Untouched
<1>6. UNCHANGED <<enabled, lock, credit, record, nextNonce, other, mined,
                  chainNonce, latest, final, leaving, sent>>
  BY DEF shared, chain
<1>7. x # None \/ collection[c] = None \/ Charged(c) <= latest[c] BY <1>1
<1>. QED BY <1>2, <1>4, <1>5, <1>6, <1>7, InvAt, Quiet

LEMMA TimeInv ==
  ASSUME Inv, NEW c \in Channel,
         RequestClaim(c) \/ DueAgain(c) \/ MonitorAges(c)
  PROVE  Inv' /\ Kept
<1>1. PICK col \in Collection : col = collection[c]
  BY InvAt DEF RequestClaim, DueAgain, MonitorAges, Managed
<1>2. UNCHANGED <<enabled, store, worker, shared, chain>>
  BY DEF RequestClaim, DueAgain, MonitorAges
<1>3. CASE RequestClaim(c)
  <2>1. PICK x : x = [col EXCEPT !.force = "asked", !.halted = FALSE, !.due = "now"]
    OBVIOUS
  <2>2. collection' = [collection EXCEPT ![c] = x]
    BY <1>1, <1>3, <2>1 DEF RequestClaim, Put
  <2>3. /\ x \in Collection /\ x.claimed = col.claimed /\ x.charges = col.charges
        /\ x.force # "no" /\ x.attempt = col.attempt /\ x.due # "never"
    BY <2>1 DEF Collection, Forced
  <2>. QED BY <1>1, <1>2, <2>2, <2>3, ReschedulingInv
<1>4. CASE DueAgain(c)
  <2>1. PICK x : x = [col EXCEPT !.due = "now"] OBVIOUS
  <2>2. collection' = [collection EXCEPT ![c] = x]
    BY <1>1, <1>4, <2>1 DEF DueAgain, Put
  <2>3. /\ x \in Collection /\ x.claimed = col.claimed /\ x.charges = col.charges
        /\ x.force = col.force /\ x.attempt = col.attempt /\ x.due # "never"
    BY <2>1 DEF Collection
  <2>. QED BY <1>1, <1>2, <2>2, <2>3, ReschedulingInv
<1>5. CASE MonitorAges(c)
  <2>1. PICK x : x = [col EXCEPT !.monitored = "stale"] OBVIOUS
  <2>2. collection' = [collection EXCEPT ![c] = x]
    BY <1>1, <1>5, <2>1 DEF MonitorAges, Put
  <2>3. /\ x \in Collection /\ x.claimed = col.claimed /\ x.charges = col.charges
        /\ x.force = col.force /\ x.attempt = col.attempt /\ x.due = col.due
    BY <2>1 DEF Collection
  <2>. QED BY <1>1, <1>2, <2>2, <2>3, ReschedulingInv
<1>. QED BY <1>3, <1>4, <1>5

(* expiresAt passes.                                                        *)
LEMMA ExpiresInv ==
  ASSUME Inv, NEW c \in Channel, PendingExpires(c)
  PROVE  Inv' /\ Kept
<1>1. UNCHANGED <<enabled, worker, shared, chain>> BY DEF PendingExpires
<1>2. PICK y \in Collection \cup {None} :
        /\ collection' = [collection EXCEPT ![c] = y]
        /\ y = None <=> collection[c] = None
        /\ y # None => /\ y.claimed = collection[c].claimed
                       /\ y.charges = collection[c].charges
                       /\ y.force = collection[c].force
                       /\ y.attempt = collection[c].attempt
                       /\ y.due = collection[c].due
  <2>1. CASE collection' = collection
    BY <2>1, InvAt, Untouched
  <2>2. CASE Managed(c) /\ Put(c, [collection[c] EXCEPT !.seed = "expired"])
    <3>1. PICK col \in Collection : col = collection[c] BY <2>2, InvAt DEF Managed
    <3>2. PICK x : x = [col EXCEPT !.seed = "expired"] OBVIOUS
    <3>3. /\ x \in Collection /\ x.claimed = col.claimed /\ x.charges = col.charges
          /\ x.force = col.force /\ x.attempt = col.attempt /\ x.due = col.due
      BY <3>2 DEF Collection, Pending
    <3>4. collection' = [collection EXCEPT ![c] = x] BY <2>2, <3>1, <3>2 DEF Put
    <3>. QED BY <3>1, <3>3, <3>4, AbsentAssumption
  <2>. QED BY <2>1, <2>2 DEF PendingExpires
<1>3. PICK st \in StoredChannel \cup {None} :
        /\ store' = [store EXCEPT ![c] = st]
        /\ st = None <=> store[c] = None
        /\ st # None => /\ st.charged = store[c].charged
                        /\ st.pending = store[c].pending \/ st.pending = "expired"
  <2>1. CASE store' = store BY <2>1, InvAt, Untouched
  <2>2. CASE store[c] # None /\ SetStore(c, store[c].charged, "expired")
    <3>1. PICK n \in 0..MaxCharged : n = store[c].charged
      BY <2>2, InvAt DEF StoredChannel
    <3>2. PICK s : s = StoredOf(n, "expired") OBVIOUS
    <3>3. s \in StoredChannel /\ s.charged = n /\ s.pending = "expired"
      BY <3>2 DEF StoredOf, StoredChannel, Pending
    <3>4. store' = [store EXCEPT ![c] = s]
      BY <2>2, <3>1, <3>2 DEF SetStore, StoredOf
    <3>. QED BY <2>2, <3>1, <3>3, <3>4, AbsentAssumption
  <2>. QED BY <2>1, <2>2 DEF PendingExpires
<1>4. PICK col : col = collection[c] OBVIOUS
<1>5. PICK s : s = store[c] OBVIOUS
<1>6. PICK w : w = worker[c] OBVIOUS
<1>7. PICK lat : lat = latest[c] OBVIOUS
<1>8. PICK fin : fin = final[c] OBVIOUS
<1>9. ChannelOk(col, s, w, lat, fin)
  BY <1>4, <1>5, <1>6, <1>7, <1>8, InvAt
<1>10. HeldOf(y) = HeldOf(col) BY <1>2, <1>4 DEF HeldOf
<1>11. /\ y = None <=> col = None
       /\ y # None => /\ y.claimed = col.claimed /\ y.charges = col.charges
                      /\ y.force = col.force /\ y.attempt = col.attempt
                      /\ y.due = col.due
       /\ st = None <=> s = None
       /\ st # None => /\ st.charged = s.charged
                       /\ st.pending = s.pending \/ st.pending = "expired"
  BY <1>2, <1>3, <1>4, <1>5
<1>12. ChannelOk(y, st, w, lat, fin)
  <2>1. CoveredOk(y, st) BY <1>9, <1>10, <1>11 DEF ChannelOk, Loose, CoveredOk
  <2>2. DebtOk(y, st, lat) BY <1>9, <1>11 DEF ChannelOk, Loose, DebtOk
  <2>3. BacklogOk(y, st) BY <1>9, <1>11 DEF ChannelOk, Loose, BacklogOk
  <2>4. SleepOk(y, st, w) BY <1>9, <1>11 DEF ChannelOk, SleepOk
  <2>5. WorkerOk(y, w) BY <1>9, <1>10 DEF ChannelOk, WorkerOk
  <2>. QED BY <1>9, <1>11, <2>1, <2>2, <2>3, <2>4, <2>5 DEF ChannelOk, Loose
<1>13. worker' = [worker EXCEPT ![c] = worker[c]]
  BY <1>1, InvAt, Untouched
<1>14. UNCHANGED <<enabled, lock, credit, record, nextNonce, other, mined,
                   chainNonce, latest, final, leaving, sent>>
  BY <1>1 DEF shared, chain
<1>15. /\ ChannelOk(y, st, worker[c], latest[c], final[c])
       /\ HeldOf(y) = HeldOf(collection[c])
  BY <1>4, <1>6, <1>7, <1>8, <1>10, <1>12
<1>. QED BY <1>2, <1>3, <1>13, <1>14, <1>15, InvAt, Quiet

(* The switches look at all channels, and keep every attempt.               *)
LEMMA SwitchInv ==
  ASSUME Inv, enabled' \in BOOLEAN, ChannelTypes', ChannelsOk',
         \A c \in Channel : /\ HeldOf(collection'[c]) = HeldOf(collection[c])
                            /\ collection[c] # None => collection'[c] # None,
         UNCHANGED <<store, worker, shared, chain>>
  PROVE  Inv' /\ Kept
<1>1. UNCHANGED <<lock, credit, record, nextNonce, other, sent, mined, chainNonce,
                  latest, final, leaving>>
  BY DEF shared, chain
<1>2. ChannelTypes /\ SharedTypes /\ JournalInv /\ NonceInv /\ MinedInv
  BY TypeParts DEF Inv
<1>3. JournalInv' BY <1>1, <1>2, JournalFrame
<1>4. NonceInv' BY <1>1, <1>2, NonceFrame
<1>5. MinedInv' BY <1>1, <1>2 DEF MinedInv
<1>6. SharedTypes' BY <1>1, <1>2 DEF SharedTypes
<1>7. Kept BY DEF Kept
<1>. QED BY <1>3, <1>4, <1>5, <1>6, <1>7, TypeParts DEF Inv

LEMMA RescheduledSound ==
  ASSUME NEW col \in Collection, NEW x \in Collection,
         NEW st, NEW w, NEW lat, NEW fin, ChannelOk(col, st, w, lat, fin),
         x.claimed = col.claimed, x.charges = col.charges,
         x.force = col.force \/ x.force # "no",
         x.attempt = col.attempt, x.due = "now"
  PROVE  ChannelOk(x, st, w, lat, fin) /\ HeldOf(x) = HeldOf(col)
<1>1. x # None /\ col # None BY AbsentAssumption
<1>2. HeldOf(x) = HeldOf(col) BY <1>1, HeldSame
<1>3. Loose(x, st, lat) BY SameLoose DEF ChannelOk
<1>. QED BY <1>1, <1>2, <1>3 DEF ChannelOk, SleepOk, WorkerOk

LEMMA EnableInv == Inv /\ Enable => Inv' /\ Kept
<1>. SUFFICES ASSUME Inv, Enable PROVE Inv' /\ Kept
  OBVIOUS
<1>1. UNCHANGED <<store, worker, shared, chain>> /\ enabled' = TRUE BY DEF Enable
<1>2. UNCHANGED <<latest, final>> BY <1>1 DEF chain
<1>3. ASSUME NEW c \in Channel
      PROVE  /\ collection'[c] \in Collection \cup {None}
             /\ HeldOf(collection'[c]) = HeldOf(collection[c])
             /\ collection[c] # None => collection'[c] # None
             /\ ChannelOk(collection'[c], store[c], worker[c], latest[c], final[c])
  <2>1. CASE store[c] = None
    <3>1. collection'[c] = collection[c] BY <2>1 DEF Enable
    <3>. QED BY <3>1, InvAt
  <2>2. CASE store[c] # None /\ Managed(c)
    <3>1. PICK col \in Collection : col = collection[c] BY <2>2, InvAt DEF Managed
    <3>2. PICK x : x = [col EXCEPT !.due = "now"] OBVIOUS
    <3>3. collection'[c] = x BY <2>2, <3>1, <3>2 DEF Enable
    <3>4. /\ x \in Collection /\ x.claimed = col.claimed /\ x.charges = col.charges
          /\ x.force = col.force /\ x.attempt = col.attempt /\ x.due = "now"
      BY <3>2 DEF Collection
    <3>5. ChannelOk(col, store[c], worker[c], latest[c], final[c]) BY <3>1, InvAt
    <3>. QED BY <3>1, <3>3, <3>4, <3>5, RescheduledSound, AbsentAssumption
  <2>3. CASE store[c] # None /\ ~Managed(c)
    <3>1. PICK st \in StoredChannel : st = store[c] BY <2>3, InvAt
    <3>2. PICK n \in 0..MaxCharged : n = st.charged BY DEF StoredChannel
    <3>3. PICK p \in Pending : p = st.pending BY DEF StoredChannel
    <3>4. PICK x : x = Fresh(n, p) OBVIOUS
    <3>5. collection'[c] = x /\ collection[c] = None
      BY <2>3, <3>1, <3>2, <3>3, <3>4 DEF Enable, Managed
    <3>6. x \in Collection /\ x.attempt = None BY <3>4, FreshFacts
    <3>7. HeldOf(x) = None /\ HeldOf(None) = None
      BY <3>6, AbsentAssumption DEF HeldOf
    <3>8. ChannelOk(x, st, worker[c], latest[c], final[c])
      <4>1. PICK lat \in 0..MaxCharged : lat = latest[c] BY InvAt
      <4>2. PICK w \in Worker : w = worker[c] BY InvAt
      <4>3. PICK fin : fin = final[c] OBVIOUS
      <4>4. ChannelOk(None, st, w, lat, fin)
        BY <3>1, <3>5, <4>1, <4>2, <4>3, InvAt
      <4>5. ChannelOk(Fresh(n, p), st, w, lat, fin) BY <3>2, <4>4, FreshSound
      <4>. QED BY <3>4, <4>1, <4>2, <4>3, <4>5
    <3>. QED BY <3>1, <3>5, <3>6, <3>7, <3>8
  <2>. QED BY <2>1, <2>2, <2>3
<1>4. ChannelTypes'
  <2>1. DOMAIN collection' = Channel /\ collection' = [c \in Channel |-> collection'[c]]
    BY DEF Enable
  <2>2. collection' \in [Channel -> Collection \cup {None}] BY <1>3, <2>1
  <2>. QED BY <1>1, <1>2, <2>2, TypeParts DEF Inv, ChannelTypes
<1>5. ChannelsOk' BY <1>1, <1>2, <1>3 DEF ChannelsOk
<1>. QED BY <1>1, <1>3, <1>4, <1>5, SwitchInv

LEMMA DisableInv == Inv /\ Disable => Inv' /\ Kept
<1>. SUFFICES ASSUME Inv, Disable PROVE Inv' /\ Kept
  OBVIOUS
<1>1. UNCHANGED <<store, worker, shared, chain>> /\ enabled' = FALSE BY DEF Disable
<1>2. UNCHANGED <<latest, final>> BY <1>1 DEF chain
<1>3. ASSUME NEW c \in Channel
      PROVE  /\ collection'[c] \in Collection \cup {None}
             /\ HeldOf(collection'[c]) = HeldOf(collection[c])
             /\ collection[c] # None => collection'[c] # None
             /\ ChannelOk(collection'[c], store[c], worker[c], latest[c], final[c])
  <2>1. CASE ~Managed(c)
    <3>1. collection'[c] = None /\ collection[c] = None BY <2>1 DEF Disable, Managed
    <3>. QED BY <3>1, InvAt
  <2>2. CASE Managed(c)
    <3>1. PICK col \in Collection : col = collection[c] BY <2>2, InvAt DEF Managed
    <3>2. PICK x : x = [col EXCEPT !.force = "asked", !.due = "now"] OBVIOUS
    <3>3. collection'[c] = x BY <2>2, <3>1, <3>2 DEF Disable
    <3>4. /\ x \in Collection /\ x.claimed = col.claimed /\ x.charges = col.charges
          /\ x.force # "no" /\ x.attempt = col.attempt /\ x.due = "now"
      BY <3>2 DEF Collection, Forced
    <3>5. ChannelOk(col, store[c], worker[c], latest[c], final[c]) BY <3>1, InvAt
    <3>. QED BY <3>1, <3>3, <3>4, <3>5, RescheduledSound, AbsentAssumption
  <2>. QED BY <2>1, <2>2
<1>4. ChannelTypes'
  <2>1. DOMAIN collection' = Channel /\ collection' = [c \in Channel |-> collection'[c]]
    BY DEF Disable
  <2>2. collection' \in [Channel -> Collection \cup {None}] BY <1>3, <2>1
  <2>. QED BY <1>1, <1>2, <2>2, TypeParts DEF Inv, ChannelTypes
<1>5. ChannelsOk' BY <1>1, <1>2, <1>3 DEF ChannelsOk
<1>. QED BY <1>1, <1>3, <1>4, <1>5, SwitchInv
-----------------------------------------------------------------------------
(* The worker: steps that keep the attempt.                                 *)

(* run returns.                                                             *)
LEMMA EndInv ==
  ASSUME Inv, NEW c \in Channel, NEW x \in Collection \cup {None},
         NEW e \in {"none", "busy", "other"},
         x # None => Loose(x, store[c], latest[c]),
         HeldOf(x) = HeldOf(collection[c]),
         x # None \/ collection[c] = None \/ Charged(c) <= latest[c],
         End(c, x, e),
         UNCHANGED <<enabled, store, lock, credit, record, nextNonce, other, mined,
                     chainNonce, latest, final, leaving>>,
         \/ sent' = sent
         \/ /\ HeldOf(x) # None /\ HeldOf(x).nonce # -1
            /\ sent' = sent \cup {[key |-> HeldOf(x).key, nonce |-> HeldOf(x).nonce]}
  PROVE  Inv' /\ Kept
<1>1. PICK y : y = IF x = None THEN None ELSE Finished(c, x, e) OBVIOUS
<1>2. /\ y \in Collection \cup {None} /\ HeldOf(y) = HeldOf(x)
      /\ x # None => y # None
      /\ ChannelOk(y, store[c], IdleWorker, latest[c], final[c])
  <2>1. CASE x = None BY <1>1, <2>1, DroppedSound, InvAt DEF HeldOf
  <2>2. CASE x # None
    <3>1. y \in Collection /\ y.attempt = x.attempt
      BY <1>1, <2>2, FinishedFacts
    <3>2. PICK lat \in 0..MaxCharged : lat = latest[c] BY InvAt
    <3>3. PICK fin : fin = final[c] OBVIOUS
    <3>4. fin <= lat /\ Loose(x, store[c], lat) BY <2>2, <3>2, <3>3, InvAt
    <3>5. ChannelOk(Finished(c, x, e), store[c], IdleWorker, lat, fin)
      BY <2>2, <3>4, FinishSound
    <3>. QED BY <1>1, <2>2, <3>1, <3>2, <3>3, <3>5, HeldSame, AbsentAssumption
  <2>. QED BY <2>1, <2>2
<1>3. IdleWorker \in Worker
  BY AutoClaimAssumption DEF IdleWorker, Worker, WorkerPC
<1>4. /\ collection' = [collection EXCEPT ![c] = y]
      /\ worker' = [worker EXCEPT ![c] = IdleWorker]
      /\ store' = [store EXCEPT ![c] = store[c]]
  BY <1>1, InvAt, Untouched DEF End, Put
<1>. QED BY <1>2, <1>3, <1>4, InvAt, Quiet

(* The worker awaits a call and leaves the collection as it is.             *)
LEMMA AwaitInv ==
  ASSUME Inv, NEW c \in Channel, NEW w \in Worker,
         worker' = [worker EXCEPT ![c] = w],
         w.claimed <= latest[c],
         WorkerOk(collection[c], w),
         \/ collection[c] = None
         \/ collection[c].due # "never" \/ w.pc = "idle",
         UNCHANGED <<enabled, store, collection, lock, credit, record, nextNonce,
                     other, mined, chainNonce, latest, final, leaving>>,
         \/ sent' = sent
         \/ /\ HeldOf(collection[c]) # None /\ HeldOf(collection[c]).nonce # -1
            /\ sent' = sent \cup {[key |-> HeldOf(collection[c]).key,
                                  nonce |-> HeldOf(collection[c]).nonce]}
  PROVE  Inv' /\ Kept
<1>1. ChannelOk(collection[c], store[c], w, latest[c], final[c])
  BY InvAt DEF ChannelOk, SleepOk
<1>2. /\ collection' = [collection EXCEPT ![c] = collection[c]]
      /\ store' = [store EXCEPT ![c] = store[c]]
  BY InvAt, Untouched
<1>. QED BY <1>1, <1>2, InvAt, Quiet

(* A collection that sleeps has no worker.                                  *)
LEMMA Awake ==
  ASSUME Inv, NEW c \in Channel, worker[c].pc # "idle"
  PROVE  collection[c] = None \/ collection[c].due # "never"
BY InvAt DEF ChannelOk, SleepOk

(* The worker after an await, with the same answer in hand.                 *)
LEMMA AtPC ==
  ASSUME Inv, NEW c \in Channel, NEW pc \in WorkerPC, Await(c, pc)
  PROVE  \E w \in Worker : /\ worker' = [worker EXCEPT ![c] = w]
                           /\ w.pc = pc /\ w.claimed = worker[c].claimed
                           /\ w.claimed <= latest[c]
<1>1. PICK w \in Worker : w = worker[c] BY InvAt
<1>2. PICK v : v = [w EXCEPT !.pc = pc] OBVIOUS
<1>3. v \in Worker /\ v.pc = pc /\ v.claimed = w.claimed BY <1>2 DEF Worker
<1>4. worker' = [worker EXCEPT ![c] = v] BY <1>1, <1>2 DEF Await
<1>. QED BY <1>1, <1>3, <1>4, InvAt

LEMMA AwaitStepsInv ==
  ASSUME Inv, NEW c \in Channel,
         \/ DispatchMonitor(c) \/ ReadChannelState(c) \/ NotYetMined(c)
         \/ (\E n \in 0..MaxNonce : NonceAnswered(c, n)) \/ RefreshPending(c)
  PROVE  Inv' /\ Kept
<1>0. UNCHANGED <<enabled, store, collection, lock, credit, record, nextNonce,
                  other, mined, chainNonce, latest, final, leaving, sent>>
  BY DEF DispatchMonitor, ReadChannelState, NotYetMined, NonceAnswered,
         RefreshPending, shared, chain
<1>p. {"monitor", "monitored", "nonce", "quote", "refresh", "resend"}
        \subseteq WorkerPC
  BY DEF WorkerPC
<1>1. CASE DispatchMonitor(c)
  <2>1. PICK w \in Worker : /\ worker' = [worker EXCEPT ![c] = w]
                            /\ w.pc = "monitor" /\ w.claimed <= latest[c]
    BY <1>1, <1>p, AtPC DEF DispatchMonitor
  <2>2. WorkerOk(collection[c], w)
    BY <1>1, <2>1 DEF DispatchMonitor, Unsigned, WorkerOk, HeldOf
  <2>3. collection[c].due # "never" BY <1>1 DEF DispatchMonitor, Due
  <2>. QED BY <1>0, <2>1, <2>2, <2>3, AwaitInv
<1>2. CASE ReadChannelState(c)
  <2>1. PICK v \in Worker : v = worker[c] BY InvAt
  <2>2. PICK f \in 0..MaxCharged : f = final[c] BY InvAt
  <2>3. PICK b : b = (c \in leaving) OBVIOUS
  <2>4. PICK w : w = [v EXCEPT !.pc = "monitored", !.claimed = f, !.withdrawal = b]
    OBVIOUS
  <2>b. b \in BOOLEAN BY <2>3
  <2>5. w \in Worker /\ w.pc = "monitored" /\ w.claimed = f
    BY <2>4, <2>b, <1>p DEF Worker
  <2>6. worker' = [worker EXCEPT ![c] = w]
    BY <1>2, <2>1, <2>2, <2>3, <2>4 DEF ReadChannelState, Worker
  <2>7. WorkerOk(collection[c], w)
    BY <1>2, <2>5, InvAt DEF ReadChannelState, ChannelOk, WorkerOk
  <2>8. w.claimed <= latest[c] BY <2>2, <2>5, InvAt
  <2>9. collection[c] = None \/ collection[c].due # "never"
    BY <1>2, Awake DEF ReadChannelState
  <2>. QED BY <1>0, <2>5, <2>6, <2>7, <2>8, <2>9, AwaitInv
<1>3. CASE NotYetMined(c)
  <2>1. PICK w \in Worker : /\ worker' = [worker EXCEPT ![c] = w]
                            /\ w.pc = "nonce" /\ w.claimed <= latest[c]
    BY <1>3, <1>p, AtPC DEF NotYetMined
  <2>2. WorkerOk(collection[c], w)
    BY <1>3, <2>1, InvAt DEF NotYetMined, ChannelOk, WorkerOk
  <2>3. collection[c] = None \/ collection[c].due # "never"
    BY <1>3, Awake DEF NotYetMined
  <2>. QED BY <1>0, <2>1, <2>2, <2>3, AwaitInv
<1>4. ASSUME NEW n \in 0..MaxNonce, NonceAnswered(c, n) PROVE Inv' /\ Kept
  <2>1. PICK v \in Worker : v = worker[c] BY InvAt
  <2>4. PICK w : w = [v EXCEPT !.pc = "quote", !.nonce = n] OBVIOUS
  <2>5. w \in Worker /\ w.pc = "quote" /\ w.claimed = v.claimed
    BY <2>4, <1>p DEF Worker
  <2>6. worker' = [worker EXCEPT ![c] = w]
    BY <1>4, <2>1, <2>4 DEF NonceAnswered, Worker
  <2>7. WorkerOk(collection[c], w)
    BY <1>4, <2>5, InvAt DEF NonceAnswered, ChannelOk, WorkerOk
  <2>8. w.claimed <= latest[c] BY <2>1, <2>5, InvAt
  <2>9. collection[c] = None \/ collection[c].due # "never"
    BY <1>4, Awake DEF NonceAnswered
  <2>. QED BY <1>0, <2>5, <2>6, <2>7, <2>8, <2>9, AwaitInv
<1>5. CASE RefreshPending(c)
  <2>1. PICK w \in Worker : /\ worker' = [worker EXCEPT ![c] = w]
                            /\ w.pc = "resend" /\ w.claimed <= latest[c]
    BY <1>5, <1>p, AtPC DEF RefreshPending
  <2>2. WorkerOk(collection[c], w)
    BY <1>5, <2>1, InvAt DEF RefreshPending, ChannelOk, WorkerOk
  <2>3. collection[c] = None \/ collection[c].due # "never"
    BY <1>5, Awake DEF RefreshPending
  <2>. QED BY <1>0, <2>1, <2>2, <2>3, AwaitInv
<1>. QED BY <1>1, <1>2, <1>3, <1>4, <1>5

(* A callback traps; the send it awaited may have reached a node.           *)
LEMMA TrapInv ==
  ASSUME Inv, NEW c \in Channel, Trap(c)
  PROVE  Inv' /\ Kept
<1>1. UNCHANGED <<enabled, store, collection, lock, credit, record, nextNonce,
                  other, mined, chainNonce, latest, final, leaving>>
  BY DEF Trap, shared
<1>2. IdleWorker \in Worker /\ IdleWorker.claimed <= latest[c]
      /\ IdleWorker.pc = "idle"
  BY InvAt, AutoClaimAssumption DEF IdleWorker, Worker, WorkerPC
<1>3. WorkerOk(collection[c], IdleWorker) BY <1>2 DEF WorkerOk
<1>4. \/ sent' = sent
      \/ /\ HeldOf(collection[c]) # None /\ HeldOf(collection[c]).nonce # -1
         /\ sent' = sent \cup {[key |-> HeldOf(collection[c]).key,
                               nonce |-> HeldOf(collection[c]).nonce]}
  <2>1. CASE worker[c].pc \in {"send", "resend"}
    <3>1. HeldOf(collection[c]) # None /\ HeldOf(collection[c]).nonce # -1
      BY <2>1, InvAt DEF ChannelOk, WorkerOk
    <3>2. HeldOf(collection[c]) = collection[c].attempt BY <3>1 DEF HeldOf
    <3>. QED BY <2>1, <3>1, <3>2 DEF Trap, MaySend, Journaled
  <2>2. CASE worker[c].pc \notin {"send", "resend"} BY <2>2 DEF Trap
  <2>. QED BY <2>1, <2>2
<1>. QED BY <1>1, <1>2, <1>3, <1>4, AwaitInv DEF Trap

(* The answer of the node, worked in.                                       *)
LEMMA WatchedSound ==
  ASSUME Inv, NEW c \in Channel, Managed(c)
  PROVE  /\ Watched(c) \in Collection
         /\ Watched(c).attempt = collection[c].attempt
         /\ Watched(c).claimed <= latest[c]
         /\ Watched(c).claimed >= collection[c].claimed
         /\ Loose(Watched(c), store[c], latest[c])
<1>1. PICK col \in Collection : col = collection[c] BY InvAt DEF Managed
<1>2. PICK w \in Worker : w = worker[c] BY InvAt
<1>3. PICK x : x = Watched(c) OBVIOUS
<1>4. PICK n \in 0..MaxCharged : n = w.claimed BY DEF Worker
<1>5. PICK lat \in 0..MaxCharged : lat = latest[c] BY InvAt
<1>6. PICK st \in StoredChannel \cup {None} : st = store[c] BY InvAt
<1>7. /\ x \in Collection /\ x.claimed = Larger(col.claimed, n)
      /\ x.charges = {a \in col.charges : a > Larger(col.claimed, n)}
      /\ x.attempt = col.attempt /\ x.force \in {col.force, "asked"}
  BY <1>1, <1>2, <1>3, <1>4, WatchedFacts
<1>8. n <= lat /\ Loose(col, st, lat) BY <1>1, <1>2, <1>4, <1>5, <1>6, InvAt
<1>9. Loose(x, st, lat) BY <1>7, <1>8, ReconcileLoose
<1>10. x.claimed >= col.claimed
  BY <1>7, AutoClaimAssumption DEF Larger, Collection
<1>11. x.claimed <= lat BY <1>7, <1>9, AbsentAssumption DEF Loose
<1>. QED BY <1>1, <1>3, <1>5, <1>6, <1>7, <1>9, <1>10, <1>11

LEMMA WatchedAwake ==
  ASSUME Inv, NEW c \in Channel, Answered(c)
  PROVE  Watched(c).due # "never"
<1>1. collection[c].due # "never" BY Awake DEF Answered, Managed
<1>2. PICK col \in Collection : col = collection[c] BY InvAt DEF Answered, Managed
<1>3. PICK n \in 0..MaxCharged : n = worker[c].claimed BY InvAt DEF Worker
<1>4. PICK r \in Collection : r = Reconciled(col, n) BY ReconciledFacts
<1>5. r.due = col.due BY <1>4 DEF Reconciled, Collection
<1>6. Watched(c).due = r.due BY <1>2, <1>3, <1>4 DEF Watched, Collection
<1>. QED BY <1>1, <1>2, <1>5, <1>6

LEMMA EndStepsInv ==
  ASSUME Inv, NEW c \in Channel,
         \/ DispatchIdle(c) \/ MonitorError(c) \/ MonitoredGone(c)
         \/ MonitoredSeed(c) \/ MonitoredPaid(c) \/ MonitoredWait(c)
         \/ MonitoredRefused(c) \/ RefreshError(c) \/ Sent(c)
  PROVE  Inv' /\ Kept
<1>. DEFINE Keeps == UNCHANGED <<enabled, store, lock, credit, record, nextNonce,
                                 other, mined, chainNonce, latest, final, leaving>>
<1>0. Keeps
  BY DEF DispatchIdle, MonitorError, MonitoredGone, MonitoredSeed, MonitoredPaid,
         MonitoredWait, MonitoredRefused, RefreshError, Sent, shared, chain
<1>1. CASE DispatchIdle(c) \/ MonitorError(c) \/ RefreshError(c) \/ Sent(c)
  <2>1. PICK e \in {"none", "busy", "other"} : End(c, collection[c], e)
    BY <1>1 DEF DispatchIdle, MonitorError, RefreshError, Sent
  <2>2. PICK x \in Collection \cup {None} : x = collection[c] BY InvAt
  <2>3. Loose(x, store[c], latest[c]) BY <2>2, InvAt
  <2>4. \/ sent' = sent
        \/ /\ HeldOf(x) # None /\ HeldOf(x).nonce # -1
           /\ sent' = sent \cup {[key |-> HeldOf(x).key, nonce |-> HeldOf(x).nonce]}
    <3>1. CASE Sent(c)
      <4>1. HeldOf(x) # None /\ HeldOf(x).nonce # -1
        BY <2>2, <3>1, InvAt DEF Sent, ChannelOk, WorkerOk
      <4>2. HeldOf(x) = collection[c].attempt BY <2>2, <4>1 DEF HeldOf
      <4>. QED BY <3>1, <4>1, <4>2 DEF Sent, MaySend, Journaled
    <3>2. CASE ~Sent(c)
      BY <1>1, <3>2 DEF DispatchIdle, MonitorError, RefreshError, chain
    <3>. QED BY <3>1, <3>2
  <2>5. End(c, x, e) BY <2>1, <2>2
  <2>6. HeldOf(x) = HeldOf(collection[c]) BY <2>2
  <2>. HIDE <2>1
  <2>7. x # None \/ collection[c] = None BY <2>2
  <2>. QED BY <1>0, <2>3, <2>4, <2>5, <2>6, <2>7, EndInv
<1>2. ASSUME ~(DispatchIdle(c) \/ MonitorError(c) \/ RefreshError(c) \/ Sent(c))
      PROVE  sent' = sent
  BY <1>2 DEF MonitoredGone, MonitoredSeed, MonitoredPaid, MonitoredWait,
              MonitoredRefused, shared, chain
<1>3. ASSUME collection[c] = None \/ collection[c].attempt = None
      PROVE  HeldOf(None) = HeldOf(collection[c])
  BY <1>3 DEF HeldOf
<1>4. ASSUME End(c, None, "none"), sent' = sent,
             HeldOf(None) = HeldOf(collection[c]),
             collection[c] = None \/ Charged(c) <= latest[c]
      PROVE  Inv' /\ Kept
  BY <1>0, <1>4, EndInv
<1>5. ASSUME NEW e \in {"none", "busy", "other"}, Managed(c), sent' = sent,
             End(c, Watched(c), e)
      PROVE  Inv' /\ Kept
  <2>1. PICK x \in Collection : x = Watched(c) BY <1>5, WatchedSound
  <2>2. /\ x.attempt = collection[c].attempt /\ Loose(x, store[c], latest[c])
        /\ End(c, x, e)
    BY <1>5, <2>1, WatchedSound
  <2>3. HeldOf(x) = HeldOf(collection[c])
    BY <1>5, <2>2, HeldSame, AbsentAssumption DEF Managed
  <2>. QED BY <1>0, <1>5, <2>2, <2>3, EndInv, AbsentAssumption
<1>6. CASE MonitoredGone(c)
  BY <1>2, <1>3, <1>4, <1>6 DEF MonitoredGone, Managed, shared, chain
<1>7. CASE MonitoredSeed(c)
  <2>1. sent' = sent /\ Managed(c) /\ collection[c].attempt = None
    BY <1>7 DEF MonitoredSeed, Answered, shared, chain
  <2>2. End(c, None, "none") \/ End(c, Watched(c), "none")
    BY <1>7 DEF MonitoredSeed
  <2>3. Charged(c) <= latest[c] BY <1>7, InvAt DEF MonitoredSeed, Charged
  <2>. QED BY <1>3, <1>4, <1>5, <2>1, <2>2, <2>3
<1>8. CASE MonitoredPaid(c)
  <2>1. /\ sent' = sent /\ Managed(c) /\ collection[c].attempt = None
        /\ store[c] # None /\ store[c].charged <= Watched(c).claimed
    BY <1>8 DEF MonitoredPaid, Answered, shared, chain
  <2>2. CASE End(c, None, "none")
    <3>1. Charged(c) <= latest[c]
      <4>1. PICK x \in Collection : x = Watched(c) BY <2>1, WatchedSound
      <4>2. x.claimed \in Nat /\ x.claimed <= latest[c] /\ latest[c] \in Nat
        BY <2>1, <4>1, WatchedSound, InvAt DEF Collection
      <4>3. Charged(c) \in Nat /\ Charged(c) <= x.claimed
        BY <2>1, <4>1, ChargedType
      <4>. QED BY <4>2, <4>3
    <3>. QED BY <1>3, <1>4, <2>1, <2>2, <3>1
  <2>3. CASE End(c, [Watched(c) EXCEPT !.force = "no"], "none")
    <3>1. PICK v \in Collection : v = Watched(c) BY <2>1, WatchedSound
    <3>2. PICK x : x = [v EXCEPT !.force = "no"] OBVIOUS
    <3>3. /\ x \in Collection /\ x.claimed = v.claimed /\ x.charges = v.charges
          /\ x.attempt = v.attempt
      BY <3>2 DEF Collection, Forced
    <3>4. PICK st \in StoredChannel : st = store[c] BY <2>1, InvAt
    <3>5. PICK lat \in 0..MaxCharged : lat = latest[c] BY InvAt
    <3>6. /\ Loose(v, st, lat) /\ st.charged <= v.claimed
          /\ v.attempt = None
      BY <2>1, <3>1, <3>4, <3>5, WatchedSound
    <3>7. x # None /\ v # None BY <3>3, AbsentAssumption
    <3>8. Loose(x, st, lat)
      <4>1. st.charged \in Nat /\ v.claimed \in Nat
        BY DEF StoredChannel, Collection
      <4>2. DebtOk(x, st, lat) BY <3>3, <3>6, <4>1 DEF DebtOk
      <4>3. CoveredOk(x, st) BY <3>3, <3>6 DEF CoveredOk, HeldOf
      <4>4. BacklogOk(x, st) BY <3>3, <3>6, <3>7 DEF Loose, BacklogOk
      <4>. QED BY <3>3, <3>6, <3>7, <4>2, <4>3, <4>4 DEF Loose
    <3>9. HeldOf(x) = HeldOf(collection[c])
      BY <2>1, <3>3, <3>6, <3>7 DEF HeldOf
    <3>10. End(c, x, "none") BY <2>3, <3>1, <3>2
    <3>. HIDE <2>3
    <3>. QED BY <1>0, <2>1, <3>3, <3>4, <3>5, <3>7, <3>8, <3>9, <3>10, EndInv
  <2>. QED BY <1>8, <2>2, <2>3 DEF MonitoredPaid
<1>9. CASE MonitoredWait(c)
  BY <1>5, <1>9 DEF MonitoredWait, Owed, Answered, chain
<1>10. CASE MonitoredRefused(c)
  BY <1>5, <1>10 DEF MonitoredRefused, Owed, Answered, chain
<1>. QED BY <1>1, <1>6, <1>7, <1>8, <1>9, <1>10

LEMMA MonitoredResumeInv ==
  ASSUME Inv, NEW c \in Channel, MonitoredResume(c)
  PROVE  Inv' /\ Kept
<1>1. Managed(c) /\ collection[c].attempt # None /\ worker[c].pc = "monitored"
  BY DEF MonitoredResume, Answered
<1>2. PICK x \in Collection : x = Watched(c) BY <1>1, WatchedSound
<1>3. /\ x.attempt = collection[c].attempt /\ Loose(x, store[c], latest[c])
  BY <1>1, <1>2, WatchedSound
<1>4. HeldOf(x) = HeldOf(collection[c]) /\ HeldOf(x) = x.attempt
  BY <1>1, <1>3, HeldSame, AbsentAssumption DEF Managed, HeldOf
<1>5. PICK w \in Worker : /\ worker' = [worker EXCEPT ![c] = w]
                          /\ w.pc = "refresh" /\ w.claimed <= latest[c]
  BY AtPC DEF MonitoredResume, WorkerPC
<1>6. HeldOf(x) # None /\ HeldOf(x).nonce # -1
  BY <1>1, <1>3, <1>4, InvAt DEF ChannelOk, WorkerOk
<1>7. x.due # "never" BY <1>1, <1>2, WatchedAwake DEF Answered
<1>8. ChannelOk(x, store[c], w, latest[c], final[c])
  BY <1>3, <1>5, <1>6, <1>7, InvAt DEF ChannelOk, SleepOk, WorkerOk
<1>9. /\ collection' = [collection EXCEPT ![c] = x]
      /\ store' = [store EXCEPT ![c] = store[c]]
  BY <1>2, InvAt, Untouched DEF MonitoredResume, Put
<1>10. UNCHANGED <<enabled, lock, credit, record, nextNonce, other, mined,
                   chainNonce, latest, final, leaving, sent>>
  BY DEF MonitoredResume, shared, chain
<1>. QED BY <1>4, <1>5, <1>8, <1>9, <1>10, InvAt, Quiet, AbsentAssumption
-----------------------------------------------------------------------------
(* The worker: steps that begin, sign and resolve the attempt.              *)

(* There is one attempt at a time: all of them hold the lock.               *)
LEMMA OneHeld ==
  ASSUME Inv, NEW c \in Channel, HeldOf(collection[c]) # None
  PROVE  /\ HeldOf(collection[c]) \in Attempt /\ HeldOf(collection[c]).key \in Key
         /\ HeldOf(collection[c]) = collection[c].attempt
         /\ HeldOf(collection[c]).key.channel = c
         /\ lock = HeldOf(collection[c]).key
         /\ collection[c] \in Collection
         /\ \A d \in Channel \ {c} : HeldOf(collection[d]) = None
         /\ \A k \in Key : record[k] \in {"checking", "broadcast"} =>
              k = HeldOf(collection[c]).key
<1>1. HeldOf(collection[c]) \in Attempt /\ HeldOf(collection[c]).key \in Key
  BY InvAt, AttemptTypes
<1>2. collection[c] \in Collection /\ HeldOf(collection[c]) = collection[c].attempt
  BY InvAt DEF HeldOf
<1>3. /\ HeldOf(collection[c]).key.channel = c
      /\ lock = HeldOf(collection[c]).key
  BY DEF Inv, JournalInv
<1>4. ASSUME NEW d \in Channel \ {c} PROVE HeldOf(collection[d]) = None
  BY <1>3 DEF Inv, JournalInv
<1>5. ASSUME NEW k \in Key, record[k] \in {"checking", "broadcast"}
      PROVE  k = HeldOf(collection[c]).key
  <2>1. /\ k.channel \in Channel /\ HeldOf(collection[k.channel]) # None
        /\ HeldOf(collection[k.channel]).key = k
    BY <1>5 DEF Inv, JournalInv, Key
  <2>. QED BY <1>4, <2>1
<1>. QED BY <1>1, <1>2, <1>3, <1>4, <1>5

(* The attempt ends: given up, settled or reverted.                         *)
LEMMA ResolveInv ==
  ASSUME Inv, NEW c \in Channel, HeldOf(collection[c]) # None,
         NEW x \in Collection, x.attempt = None, Loose(x, store[c], latest[c]),
         NEW e \in {"none", "busy", "other"}, End(c, x, e),
         lock' = IF lock = HeldOf(collection[c]).key THEN None ELSE lock,
         NEW r \in {"none", "settled", "failed"},
         record' = [record EXCEPT ![HeldOf(collection[c]).key] = r],
         credit' \in Nat,
         HeldOf(collection[c]).nonce = -1 \/ \E m \in mined : m.tx = Journaled(c),
         UNCHANGED <<enabled, store, nextNonce, other, chain>>
  PROVE  Inv' /\ Kept
<1>1. x # None BY AbsentAssumption
<1>2. PICK y : y = Finished(c, x, e) OBVIOUS
<1>3. y \in Collection /\ y.attempt = None BY <1>2, FinishedFacts
<1>4. HeldOf(y) = None BY <1>3, AbsentAssumption DEF HeldOf
<1>5. ChannelOk(y, store[c], IdleWorker, latest[c], final[c])
  <2>1. PICK lat \in 0..MaxCharged : lat = latest[c] BY InvAt
  <2>2. PICK fin : fin = final[c] OBVIOUS
  <2>3. fin <= lat /\ Loose(x, store[c], lat) BY <2>1, <2>2, InvAt
  <2>4. ChannelOk(Finished(c, x, e), store[c], IdleWorker, lat, fin)
    BY <2>3, FinishSound
  <2>. QED BY <1>2, <2>1, <2>2, <2>4
<1>6. IdleWorker \in Worker
  BY AutoClaimAssumption DEF IdleWorker, Worker, WorkerPC
<1>7. UNCHANGED <<sent, mined, chainNonce, latest, final, leaving>> BY DEF chain
<1>8. /\ collection' = [collection EXCEPT ![c] = y]
      /\ worker' = [worker EXCEPT ![c] = IdleWorker]
      /\ store' = [store EXCEPT ![c] = store[c]]
      /\ latest' = [latest EXCEPT ![c] = latest[c]]
      /\ final' = [final EXCEPT ![c] = final[c]]
  BY <1>1, <1>2, <1>7, InvAt, Untouched DEF End, Put
<1>9. ChannelTypes' /\ ChannelsOk'
  BY <1>3, <1>5, <1>6, <1>8, InvAt, OneChannel DEF Inv
<1>10. \A d \in Channel : HeldOf(collection'[d]) = None
  <2>1. ChannelTypes BY InvAt
  <2>2. /\ HeldOf(collection'[c]) = None
        /\ \A d \in Channel \ {c} : HeldOf(collection'[d]) = HeldOf(collection[d])
    BY <1>4, <1>8, <2>1, HeldElsewhere
  <2>3. \A d \in Channel \ {c} : HeldOf(collection[d]) = None BY OneHeld
  <2>. QED BY <2>2, <2>3
<1>11. PICK key \in Key : key = HeldOf(collection[c]).key BY OneHeld
<1>12. lock' = None /\ record' = [record EXCEPT ![key] = r] BY <1>11, OneHeld
<1>13. JournalInv'
  <2>1. ASSUME NEW k \in Key
        PROVE  lock' # k /\ record'[k] \notin {"checking", "broadcast"}
    <3>1. lock' # k BY <1>12, DistinctAssumption
    <3>2. record \in [Key -> {"none", "checking", "broadcast", "settled", "failed"}]
      BY DEF Inv, TypeOK
    <3>3. CASE k = key BY <1>12, <3>1, <3>2, <3>3
    <3>4. CASE k # key BY <1>11, <1>12, <3>1, <3>2, <3>4, OneHeld
    <3>. QED BY <3>3, <3>4
  <2>. QED BY <1>10, <2>1 DEF JournalInv
<1>14. NonceInv' BY <1>7, <1>10 DEF Inv, NonceInv
<1>15. MinedInv' BY <1>7 DEF Inv, MinedInv
<1>16. SharedTypes' BY <1>7, <1>12 DEF Inv, TypeOK, SharedTypes
<1>17. Kept
  <2>1. y # None BY <1>3, AbsentAssumption
  <2>2. collection'[c] = y /\ \A d \in Channel \ {c} : collection'[d] = collection[d]
    BY <1>8, InvAt DEF ChannelTypes
  <2>3. record' # record
    <3>1. record[key] \in {"checking", "broadcast"} BY <1>11 DEF Inv, JournalInv
    <3>2. record'[key] = r BY <1>11, <1>12 DEF Inv, TypeOK
    <3>. QED BY <3>1, <3>2
  <2>. QED BY <2>1, <2>2, <2>3 DEF Kept
<1>. QED BY <1>9, <1>13, <1>14, <1>15, <1>16, <1>17, TypeParts DEF Inv

LEMMA AbandonInv ==
  ASSUME Inv, NEW c \in Channel,
         DispatchAbandon(c) \/ AlreadyMined(c) \/ PrepareError(c)
  PROVE  Inv' /\ Kept
<1>1. HeldOf(collection[c]) # None
  <2>1. CASE DispatchAbandon(c)
    BY <2>1 DEF DispatchAbandon, Due, Managed, Unsigned, HeldOf
  <2>2. CASE AlreadyMined(c) \/ PrepareError(c)
    BY <2>2, InvAt DEF AlreadyMined, PrepareError, ChannelOk, WorkerOk
  <2>. QED BY <2>1, <2>2
<1>2. PICK e \in {"none", "busy", "other"} : Abandon(c, e)
  BY DEF DispatchAbandon, AlreadyMined, PrepareError
<1>3. UNCHANGED <<enabled, store, nextNonce, other, chain>>
  BY DEF DispatchAbandon, AlreadyMined, PrepareError
<1>4. PICK col \in Collection : col = collection[c] BY <1>1, OneHeld
<1>5. HeldOf(collection[c]) = col.attempt BY <1>1, <1>4, OneHeld
<1>6. PICK b \in {"asked", "retry"} : b = IF col.attempt.asked THEN "asked" ELSE "retry"
  OBVIOUS
<1>7. PICK x : x = [col EXCEPT !.attempt = None, !.force = b] OBVIOUS
<1>8. /\ x \in Collection /\ x.attempt = None /\ x.force # "no"
      /\ x.claimed = col.claimed /\ x.charges = col.charges
  BY <1>7 DEF Collection, Forced
<1>9. End(c, x, e) BY <1>2, <1>4, <1>6, <1>7 DEF Abandon
<1>10. Loose(x, store[c], latest[c])
  <2>1. x # None /\ col # None BY <1>8, AbsentAssumption
  <2>2. Loose(col, store[c], latest[c]) BY <1>4, InvAt
  <2>. QED
    BY <1>8, <2>1, <2>2 DEF Loose, CoveredOk, HeldOf, DebtOk, BacklogOk
<1>11. /\ lock' = IF lock = HeldOf(collection[c]).key THEN None ELSE lock
       /\ record' = [record EXCEPT ![HeldOf(collection[c]).key] = "none"]
       /\ credit' \in Nat
  BY <1>2, <1>4, <1>5, AutoClaimAssumption DEF Abandon, Inv, TypeOK
<1>12. HeldOf(collection[c]).nonce = -1
  <2>1. CASE DispatchAbandon(c) BY <1>4, <1>5, <2>1 DEF DispatchAbandon, Unsigned
  <2>2. CASE AlreadyMined(c) \/ PrepareError(c)
    BY <2>2, InvAt DEF AlreadyMined, PrepareError, ChannelOk, WorkerOk
  <2>. QED BY <2>1, <2>2
<1>. HIDE <1>2
<1>. QED BY <1>1, <1>3, <1>8, <1>9, <1>10, <1>11, <1>12, ResolveInv

LEMMA SettledInv ==
  ASSUME Inv, NEW c \in Channel, Settled(c)
  PROVE  Inv' /\ Kept
<1>1. HeldOf(collection[c]) # None
  BY InvAt DEF Settled, ChannelOk, WorkerOk
<1>2. PICK col \in Collection : col = collection[c] BY <1>1, OneHeld
<1>3. PICK h \in Attempt : h = HeldOf(collection[c]) BY <1>1, OneHeld
<1>4. h = col.attempt /\ h # None /\ h.key.channel = c BY <1>1, <1>2, <1>3, OneHeld
<1>5. PICK n \in 0..MaxCharged : n = h.key.target BY DEF Attempt, Key
<1>6. PICK lat \in 0..MaxCharged : lat = latest[c] BY InvAt
<1>7. n <= lat
  <2>1. [tx |-> [key |-> h.key, nonce |-> h.nonce], ok |-> TRUE] \in mined
    BY <1>2, <1>4 DEF Settled, Receipt, Journaled
  <2>2. h.key # Manual BY DistinctAssumption DEF Attempt
  <2>. QED BY <1>4, <1>5, <1>6, <2>1, <2>2 DEF Inv, MinedInv
<1>8. PICK r : r = Reconciled(col, n) OBVIOUS
<1>9. PICK x : x = [r EXCEPT !.attempt = None] OBVIOUS
<1>10. /\ r \in Collection /\ r.claimed = Larger(col.claimed, n)
       /\ r.charges = {a \in col.charges : a > Larger(col.claimed, n)}
       /\ r.force = col.force
  BY <1>8, ReconciledFacts
<1>11. /\ x \in Collection /\ x.attempt = None /\ x.claimed = r.claimed
       /\ x.charges = r.charges /\ x.force = r.force
  BY <1>9, <1>10 DEF Collection
<1>12. PICK st \in StoredChannel \cup {None} : st = store[c] BY InvAt
<1>13. Loose(x, st, lat)
  <2>1. Loose(col, st, lat) BY <1>2, <1>6, <1>12, InvAt
  <2>. QED BY <1>4, <1>5, <1>7, <1>10, <1>11, <2>1, ReconcileLoose
<1>14. End(c, x, "none") BY <1>2, <1>4, <1>5, <1>8, <1>9 DEF Settled
<1>15. /\ lock' = IF lock = HeldOf(collection[c]).key THEN None ELSE lock
       /\ record' = [record EXCEPT ![HeldOf(collection[c]).key] = "settled"]
       /\ credit' \in Nat
       /\ UNCHANGED <<enabled, store, nextNonce, other, chain>>
  BY <1>2, <1>3, <1>4 DEF Settled, Unlocked, Inv, TypeOK
<1>16. Loose(x, store[c], latest[c]) BY <1>6, <1>12, <1>13
<1>17. \E m \in mined : m.tx = Journaled(c)
  BY DEF Settled, Receipt
<1>. QED BY <1>1, <1>11, <1>14, <1>15, <1>16, <1>17, ResolveInv

LEMMA RevertedInv ==
  ASSUME Inv, NEW c \in Channel, Reverted(c)
  PROVE  Inv' /\ Kept
<1>1. HeldOf(collection[c]) # None
  BY InvAt DEF Reverted, ChannelOk, WorkerOk
<1>2. PICK col \in Collection : col = collection[c] BY <1>1, OneHeld
<1>3. HeldOf(collection[c]) = col.attempt BY <1>1, <1>2, OneHeld
<1>4. PICK x : x = [col EXCEPT !.attempt = None, !.force = "asked", !.halted = TRUE]
  OBVIOUS
<1>5. /\ x \in Collection /\ x.attempt = None /\ x.force = "asked"
      /\ x.claimed = col.claimed /\ x.charges = col.charges
  BY <1>4 DEF Collection, Forced
<1>6. Loose(x, store[c], latest[c])
  <2>1. x # None /\ col # None BY <1>5, AbsentAssumption
  <2>2. Loose(col, store[c], latest[c]) BY <1>2, InvAt
  <2>. QED
    BY <1>5, <2>1, <2>2 DEF Loose, CoveredOk, HeldOf, DebtOk, BacklogOk
<1>7. End(c, x, "other") BY <1>2, <1>4 DEF Reverted
<1>8. /\ lock' = IF lock = HeldOf(collection[c]).key THEN None ELSE lock
      /\ record' = [record EXCEPT ![HeldOf(collection[c]).key] = "failed"]
      /\ credit' \in Nat
      /\ UNCHANGED <<enabled, store, nextNonce, other, chain>>
  BY <1>2, <1>3 DEF Reverted, Unlocked, Inv, TypeOK
<1>9. \E m \in mined : m.tx = Journaled(c)
  BY DEF Reverted, Receipt
<1>. QED BY <1>1, <1>5, <1>6, <1>7, <1>8, <1>9, ResolveInv

(* A step that gives a channel the attempt h, which holds the lock.         *)
LEMMA JournalSet ==
  ASSUME Inv, NEW c \in Channel, NEW h, NEW r \in {"checking", "broadcast"},
         h # None, h.key \in Key, h.key.channel = c,
         r = IF h.nonce = -1 THEN "checking" ELSE "broadcast",
         HeldOf(collection'[c]) = h,
         \A d \in Channel \ {c} : HeldOf(collection'[d]) = None,
         \A k \in Key : record[k] \in {"checking", "broadcast"} => k = h.key,
         lock' = h.key, record' = [record EXCEPT ![h.key] = r]
  PROVE  JournalInv'
<1>1. record'[h.key] = r /\ \A k \in Key : k # h.key => record'[k] = record[k]
  BY DEF Inv, TypeOK
<1>2. ASSUME NEW d \in Channel, HeldOf(collection'[d]) # None
      PROVE  /\ HeldOf(collection'[d]).key.channel = d
             /\ lock' = HeldOf(collection'[d]).key
             /\ record'[HeldOf(collection'[d]).key] =
                  IF HeldOf(collection'[d]).nonce = -1 THEN "checking" ELSE "broadcast"
  BY <1>1, <1>2
<1>3. ASSUME NEW k \in Key, lock' = k \/ record'[k] \in {"checking", "broadcast"}
      PROVE  /\ HeldOf(collection'[k.channel]) # None
             /\ HeldOf(collection'[k.channel]).key = k
  BY <1>1, <1>3
<1>. QED BY <1>2, <1>3 DEF JournalInv

LEMMA StartAttemptInv ==
  ASSUME Inv, NEW c \in Channel, StartAttempt(c)
  PROVE  Inv' /\ Kept
<1>1. /\ Managed(c) /\ Answered(c) /\ store[c] # None /\ lock = None /\ credit >= Fee
      /\ Watched(c).sequence < MaxSequence
  BY DEF StartAttempt, Owed, Answered, LockFree, HasFee
<1>2. PICK v \in Collection : v = Watched(c) BY <1>1, WatchedSound
<1>3. PICK st \in StoredChannel : st = store[c] BY <1>1, InvAt
<1>4. PICK n \in 0..MaxCharged : n = st.charged BY DEF StoredChannel
<1>5. PICK key : key = [channel |-> c, target |-> n, sequence |-> v.sequence + 1]
  OBVIOUS
<1>6. v.sequence + 1 \in 1..MaxSequence
  BY <1>1, <1>2, AutoClaimAssumption DEF Collection
<1>7. key \in Key /\ key.channel = c /\ key.target = n BY <1>5, <1>6 DEF Key
<1>8. PICK b \in BOOLEAN : b = (v.force = "asked") OBVIOUS
<1>9. PICK h : h = [key |-> key, nonce |-> -1, asked |-> b] OBVIOUS
<1>10. h \in Attempt /\ h.key = key /\ h.nonce = -1 /\ h # None
  <2>1. -1 \in -1..MaxNonce BY AutoClaimAssumption
  <2>2. h \in Attempt BY <1>7, <1>9, <2>1 DEF Attempt
  <2>. QED BY <1>9, <2>2, AbsentAssumption
<1>11. PICK f \in {"no", "asked"} : f = IF enabled THEN "no" ELSE "asked" OBVIOUS
<1>12. PICK x : x = [v EXCEPT !.sequence = v.sequence + 1, !.attempt = h, !.force = f]
  OBVIOUS
<1>13. /\ x \in Collection /\ x.attempt = h /\ x.claimed = v.claimed
       /\ x.charges = v.charges /\ x.due = v.due /\ x # None
  <2>0. PICK s \in 0..MaxSequence : s = v.sequence + 1
    BY <1>6, AutoClaimAssumption
  <2>1. x \in Collection
    BY <1>10, <1>11, <1>12, <2>0 DEF Collection, Forced
  <2>. QED BY <1>12, <2>1, AbsentAssumption DEF Collection
<1>14. TargetOf(c) = n BY <1>3, <1>4 DEF TargetOf
<1>15. /\ collection' = [collection EXCEPT ![c] = x]
       /\ lock' = key /\ record' = [record EXCEPT ![key] = "checking"]
       /\ credit' = credit - Fee
       /\ Await(c, "latest")
       /\ UNCHANGED <<enabled, store, nextNonce, other, sent, mined, chainNonce,
                      latest, final, leaving>>
  BY <1>2, <1>5, <1>8, <1>9, <1>11, <1>12, <1>14 DEF StartAttempt, Put, chain
<1>16. PICK w \in Worker : /\ worker' = [worker EXCEPT ![c] = w]
                           /\ w.pc = "latest" /\ w.claimed <= latest[c]
  BY <1>15, AtPC DEF WorkerPC
<1>17. HeldOf(x) = h BY <1>13 DEF HeldOf
<1>18. ChannelOk(x, store[c], w, latest[c], final[c])
  <2>1. PICK lat \in 0..MaxCharged : lat = latest[c] BY InvAt
  <2>2. Loose(v, st, lat) /\ v # None
    BY <1>1, <1>2, <1>3, <2>1, WatchedSound, AbsentAssumption
  <2>3. st # None BY <1>1, <1>3
  <2>4. CoveredOk(x, st) BY <1>4, <1>7, <1>10, <1>17, <2>3 DEF CoveredOk
  <2>5. DebtOk(x, st, lat) BY <1>4, <1>7, <1>10, <1>13 DEF DebtOk
  <2>6. BacklogOk(x, st) BY <1>13, <2>2 DEF Loose, BacklogOk
  <2>7. Loose(x, st, lat) BY <1>13, <2>2, <2>4, <2>5, <2>6 DEF Loose
  <2>8. x.due # "never" BY <1>1, <1>2, <1>13, WatchedAwake
  <2>9. WorkerOk(x, w) BY <1>10, <1>16, <1>17 DEF WorkerOk
  <2>. QED
    BY <1>3, <1>16, <2>1, <2>7, <2>8, <2>9, InvAt DEF ChannelOk, SleepOk
<1>19. \A d \in Channel : HeldOf(collection[d]) = None
  BY <1>1, InvAt, OneHeld, DistinctAssumption
<1>20. /\ HeldOf(collection'[c]) = h
       /\ \A d \in Channel \ {c} : HeldOf(collection'[d]) = None
  <2>1. ChannelTypes BY InvAt
  <2>. QED BY <1>15, <1>17, <1>19, <2>1, HeldElsewhere
<1>21. ASSUME NEW k \in Key PROVE record[k] \notin {"checking", "broadcast"}
  BY <1>19 DEF Inv, JournalInv, Key
<1>22. JournalInv'
  BY <1>7, <1>10, <1>15, <1>20, <1>21, JournalSet
<1>23. ChannelTypes' /\ ChannelsOk'
  <2>1. /\ store' = [store EXCEPT ![c] = store[c]]
        /\ latest' = [latest EXCEPT ![c] = latest[c]]
        /\ final' = [final EXCEPT ![c] = final[c]]
    BY <1>15, InvAt, Untouched
  <2>2. PICK lat \in 0..MaxCharged : lat = latest[c] BY InvAt
  <2>3. PICK fin \in 0..MaxCharged : fin = final[c] BY InvAt
  <2>4. /\ ChannelTypes /\ ChannelsOk
        /\ collection' = [collection EXCEPT ![c] = x]
        /\ worker' = [worker EXCEPT ![c] = w]
        /\ store' = [store EXCEPT ![c] = st]
        /\ latest' = [latest EXCEPT ![c] = lat]
        /\ final' = [final EXCEPT ![c] = fin]
        /\ ChannelOk(x, st, w, lat, fin)
    BY <1>3, <1>15, <1>16, <1>18, <2>1, <2>2, <2>3, InvAt DEF Inv
  <2>. QED BY <1>13, <2>4, OneChannel
<1>24. NonceInv' BY <1>10, <1>15, <1>20 DEF Inv, NonceInv
<1>25. MinedInv' BY <1>15 DEF Inv, MinedInv
<1>26. SharedTypes'
  BY <1>1, <1>7, <1>15, AutoClaimAssumption DEF Inv, TypeOK, SharedTypes
<1>27. Kept
  <2>1. collection'[c] = x /\ \A d \in Channel \ {c} : collection'[d] = collection[d]
    BY <1>15, InvAt DEF ChannelTypes
  <2>2. record' # record
    <3>1. record'[key] = "checking" BY <1>7, <1>15 DEF Inv, TypeOK
    <3>. QED BY <1>7, <1>21, <3>1
  <2>. QED BY <1>13, <1>19, <2>1, <2>2 DEF Kept
<1>. QED BY <1>22, <1>23, <1>24, <1>25, <1>26, <1>27, TypeParts DEF Inv

(* The nonce is taken after the last await: nobody has it.                  *)
LEMMA PreparedInv ==
  ASSUME Inv, NEW c \in Channel, Prepared(c)
  PROVE  Inv' /\ Kept
<1>1. HeldOf(collection[c]) # None /\ HeldOf(collection[c]).nonce = -1
  BY InvAt DEF Prepared, ChannelOk, WorkerOk
<1>2. PICK col \in Collection : col = collection[c] BY <1>1, OneHeld
<1>3. PICK h \in Attempt : h = HeldOf(collection[c]) BY <1>1, OneHeld
<1>4. /\ h = col.attempt /\ h.key \in Key /\ h.key.channel = c /\ h.key = lock
      /\ col # None
  BY <1>1, <1>2, <1>3, OneHeld, AbsentAssumption
<1>5. PICK n : n = Larger(nextNonce, worker[c].nonce) OBVIOUS
<1>6. nextNonce \in Nat /\ worker[c].nonce \in Nat /\ MaxNonce \in Nat
  BY InvAt, AutoClaimAssumption DEF Inv, TypeOK, Worker
<1>7. /\ n \in 0..MaxNonce /\ n >= nextNonce /\ nextNonce' = n + 1
      /\ collection' = [collection EXCEPT ![c] =
                          [collection[c] EXCEPT !.attempt = [@ EXCEPT !.nonce = n]]]
      /\ record' = [record EXCEPT ![collection[c].attempt.key] = "broadcast"]
      /\ Await(c, "send")
      /\ UNCHANGED <<enabled, store, lock, credit, other, sent, mined, chainNonce,
                     latest, final, leaving>>
  <2>1. /\ n <= MaxNonce /\ nextNonce' = n + 1
        /\ Put(c, [collection[c] EXCEPT !.attempt = [@ EXCEPT !.nonce = n]])
        /\ record' = [record EXCEPT ![collection[c].attempt.key] = "broadcast"]
        /\ Await(c, "send")
        /\ UNCHANGED <<enabled, store, lock, credit, other, chain>>
    BY <1>5 DEF Prepared, NonceToReserve
  <2>2. n \in Nat /\ n >= nextNonce BY <1>5, <1>6 DEF Larger
  <2>. QED BY <1>6, <2>1, <2>2 DEF Put, chain
<1>8. PICK g : g = [h EXCEPT !.nonce = n] OBVIOUS
<1>9. g \in Attempt /\ g.key = h.key /\ g.nonce = n /\ g # None
  <2>1. n \in -1..MaxNonce BY <1>6, <1>7
  <2>2. g \in Attempt /\ g.key = h.key /\ g.nonce = n BY <1>8, <2>1 DEF Attempt
  <2>. QED BY <2>2, AbsentAssumption
<1>10. PICK x : x = [col EXCEPT !.attempt = g] OBVIOUS
<1>11. /\ x \in Collection /\ x.attempt = g /\ x.claimed = col.claimed
       /\ x.charges = col.charges /\ x.due = col.due /\ x.force = col.force
       /\ x # None
  <2>1. x \in Collection BY <1>9, <1>10 DEF Collection
  <2>. QED BY <1>10, <2>1, AbsentAssumption DEF Collection
<1>12. /\ collection' = [collection EXCEPT ![c] = x]
       /\ record' = [record EXCEPT ![h.key] = "broadcast"]
       /\ lock' = h.key
  <2>1. x = [collection[c] EXCEPT !.attempt = [@ EXCEPT !.nonce = n]]
    BY <1>2, <1>4, <1>8, <1>10 DEF Collection
  <2>. QED BY <1>2, <1>4, <1>7, <2>1
<1>13. PICK w \in Worker : /\ worker' = [worker EXCEPT ![c] = w]
                           /\ w.pc = "send" /\ w.claimed <= latest[c]
  BY <1>7, AtPC DEF WorkerPC
<1>14. HeldOf(x) = g /\ HeldOf(col) = h BY <1>4, <1>11 DEF HeldOf
<1>15. PICK lat \in 0..MaxCharged : lat = latest[c] BY InvAt
<1>16. PICK fin \in 0..MaxCharged : fin = final[c] BY InvAt
<1>17. PICK st \in StoredChannel \cup {None} : st = store[c] BY InvAt
<1>18. ChannelOk(x, st, w, lat, fin)
  <2>1. Loose(col, st, lat) /\ fin <= lat /\ w.claimed <= lat
    BY <1>2, <1>13, <1>15, <1>16, <1>17, InvAt
  <2>2. CoveredOk(x, st) BY <1>1, <1>3, <1>9, <1>14, <2>1 DEF Loose, CoveredOk
  <2>3. DebtOk(x, st, lat)
    BY <1>1, <1>3, <1>4, <1>9, <1>11, <2>1 DEF Loose, DebtOk
  <2>4. BacklogOk(x, st) BY <1>4, <1>11, <2>1 DEF Loose, BacklogOk
  <2>5. x.due # "never"
    <3>1. worker[c].pc # "idle" BY DEF Prepared
    <3>. QED BY <1>2, <1>4, <1>11, <3>1, Awake
  <2>6. WorkerOk(x, w)
    <3>1. n # -1 BY <1>6, <1>7
    <3>. QED BY <1>9, <1>13, <1>14, <3>1 DEF WorkerOk
  <2>. QED
    BY <1>4, <1>11, <2>1, <2>2, <2>3, <2>4, <2>5, <2>6
       DEF Loose, ChannelOk, SleepOk
<1>19. ChannelTypes' /\ ChannelsOk'
  <2>1. /\ store' = [store EXCEPT ![c] = st]
        /\ latest' = [latest EXCEPT ![c] = lat]
        /\ final' = [final EXCEPT ![c] = fin]
    BY <1>7, <1>15, <1>16, <1>17, InvAt, Untouched
  <2>2. ChannelTypes /\ ChannelsOk BY InvAt DEF Inv
  <2>. QED BY <1>11, <1>12, <1>13, <1>18, <2>1, <2>2, OneChannel
<1>20. /\ HeldOf(collection'[c]) = g
       /\ \A d \in Channel \ {c} : HeldOf(collection'[d]) = None
  <2>1. ChannelTypes BY InvAt
  <2>2. \A d \in Channel \ {c} : HeldOf(collection[d]) = None BY <1>1, OneHeld
  <2>. QED BY <1>12, <1>14, <2>1, <2>2, HeldElsewhere
<1>21. JournalInv'
  <2>1. \A k \in Key : record[k] \in {"checking", "broadcast"} => k = g.key
    BY <1>1, <1>3, <1>9, OneHeld
  <2>2. g.nonce # -1 BY <1>6, <1>7, <1>9
  <2>. QED BY <1>4, <1>9, <1>12, <1>20, <2>1, <2>2, JournalSet
<1>22. NonceInv'
  <2>1. /\ other < nextNonce /\ other \in Int
        /\ \A t \in sent : t.nonce < nextNonce /\ t.nonce \in Int /\ t.nonce # other
        /\ \A t1, t2 \in sent : t1.nonce = t2.nonce => t1.key = t2.key
    BY <1>6 DEF Inv, NonceInv, TypeOK, Tx
  <2>2. other' = other /\ sent' = sent BY <1>7
  <2>3. other' < nextNonce' BY <1>6, <1>7, <2>1, <2>2
  <2>4. \A t \in sent' : t.nonce < nextNonce' /\ t.nonce # other' /\ t.nonce # n
    BY <1>6, <1>7, <2>1, <2>2
  <2>5. n < nextNonce' /\ n # other' BY <1>6, <1>7, <2>1, <2>2
  <2>. QED BY <1>9, <1>20, <2>1, <2>2, <2>3, <2>4, <2>5 DEF NonceInv
<1>23. MinedInv' BY <1>7 DEF Inv, MinedInv
<1>24. SharedTypes'
  <2>1. nextNonce' \in 0..(MaxNonce + 1) BY <1>6, <1>7
  <2>2. record' \in [Key -> {"none", "checking", "broadcast", "settled", "failed"}]
    BY <1>12 DEF Inv, TypeOK
  <2>. QED BY <1>7, <2>1, <2>2 DEF Inv, TypeOK, SharedTypes
<1>25. Kept
  <2>1. collection'[c] = x /\ \A d \in Channel \ {c} : collection'[d] = collection[d]
    BY <1>12, InvAt DEF ChannelTypes
  <2>2. record' # record
    <3>1. record[h.key] = "checking" BY <1>1, <1>3 DEF Inv, JournalInv
    <3>2. record'[h.key] = "broadcast" BY <1>4, <1>12 DEF Inv, TypeOK
    <3>. QED BY <3>1, <3>2
  <2>. QED BY <1>1, <1>11, <2>1, <2>2 DEF Kept
<1>. QED BY <1>19, <1>21, <1>22, <1>23, <1>24, <1>25, TypeParts DEF Inv
-----------------------------------------------------------------------------
(* The other settlements and the chain.                                     *)

LEMMA FrameTypes ==
  ASSUME Inv
  PROVE  /\ nextNonce \in Nat /\ MaxNonce \in Nat /\ other \in Int /\ other >= -1
         /\ \A t \in sent : t \in Tx /\ t.nonce \in Nat
         /\ \A c \in Channel : HeldOf(collection[c]) # None =>
              HeldOf(collection[c]).nonce \in Int
<1>1. nextNonce \in Nat /\ MaxNonce \in Nat /\ other \in Int /\ other >= -1
  BY AutoClaimAssumption DEF Inv, TypeOK
<1>2. \A t \in sent : t \in Tx /\ t.nonce \in Nat
  BY <1>1 DEF Inv, TypeOK, Tx
<1>3. ASSUME NEW c \in Channel, HeldOf(collection[c]) # None
      PROVE  HeldOf(collection[c]).nonce \in Int
  BY <1>1, <1>3, InvAt, AttemptTypes
<1>. QED BY <1>1, <1>2, <1>3

LEMMA OthersInv ==
  ASSUME Inv, ManualLock \/ OtherReserves \/ OtherSends \/ OtherGivesUp
  PROVE  Inv' /\ Kept
<1>1. UNCHANGED <<enabled, store, collection, worker, credit, record, mined,
                  chainNonce, latest, final, leaving>>
  BY DEF ManualLock, OtherReserves, OtherSends, OtherGivesUp, chain
<1>2. ChannelTypes' /\ ChannelsOk' /\ MinedInv'
  BY <1>1, TypeParts DEF Inv, ChannelTypes, ChannelsOk, MinedInv
<1>3. lock' = lock \/ (lock \notin Key /\ lock' \notin Key)
  BY DistinctAssumption DEF ManualLock, OtherReserves, OtherSends, OtherGivesUp
<1>4. JournalInv' BY <1>1, <1>3, InvAt, TypeParts, JournalFrame DEF Inv
<1>5. SharedTypes'
  <2>1. lock' \in Key \cup {None, Manual}
    BY DEF Inv, TypeOK, ManualLock, OtherReserves, OtherSends, OtherGivesUp
  <2>2. nextNonce' \in 0..(MaxNonce + 1) /\ other' \in -1..MaxNonce
    BY FrameTypes
       DEF Inv, TypeOK, ManualLock, OtherReserves, OtherSends, OtherGivesUp
  <2>3. sent' \subseteq Tx
    <3>1. CASE OtherSends
      <4>1. other \in 0..MaxNonce BY <3>1, FrameTypes DEF OtherSends, Inv, TypeOK
      <4>2. [key |-> Manual, nonce |-> other] \in Tx BY <4>1 DEF Tx
      <4>. QED BY <3>1, <4>2 DEF OtherSends, Inv, TypeOK
    <3>2. CASE ~OtherSends
      BY <3>2 DEF Inv, TypeOK, ManualLock, OtherReserves, OtherGivesUp, chain
    <3>. QED BY <3>1, <3>2
  <2>. QED BY <1>1, <2>1, <2>2, <2>3 DEF Inv, TypeOK, SharedTypes
<1>6. NonceInv'
  <2>1. CASE ManualLock
    BY <1>1, <2>1 DEF ManualLock, chain, Inv, NonceInv
  <2>2. CASE OtherReserves
    <3>1. other' = nextNonce /\ nextNonce' = nextNonce + 1 /\ sent' = sent
      BY <2>2 DEF OtherReserves, chain
    <3>. QED BY <1>1, <3>1, FrameTypes DEF Inv, NonceInv
  <2>3. CASE OtherSends
    <3>1. PICK t : t = [key |-> Manual, nonce |-> other] OBVIOUS
    <3>2. /\ t.nonce = other /\ sent' = sent \cup {t} /\ other' = -1
          /\ nextNonce' = nextNonce /\ other >= 0
      BY <2>3, <3>1, FrameTypes DEF OtherSends
    <3>3. /\ other < nextNonce
          /\ \A u \in sent : u.nonce < nextNonce /\ u.nonce # other
          /\ \A u, v \in sent : u.nonce = v.nonce => u.key = v.key
      BY DEF Inv, NonceInv
    <3>4. \A u \in sent' : u.nonce < nextNonce' /\ u.nonce # other'
      BY <3>2, <3>3, FrameTypes
    <3>5. \A u, v \in sent' : u.nonce = v.nonce => u.key = v.key
      BY <3>2, <3>3
    <3>6. ASSUME NEW c \in Channel, HeldOf(collection[c]) # None,
                 HeldOf(collection[c]).nonce # -1
          PROVE  /\ HeldOf(collection[c]).nonce < nextNonce'
                 /\ HeldOf(collection[c]).nonce # other'
                 /\ \A u \in sent' : u.nonce = HeldOf(collection[c]).nonce =>
                      u.key = HeldOf(collection[c]).key
      BY <3>2, <3>6 DEF Inv, NonceInv
    <3>7. other' < nextNonce' BY <3>2, FrameTypes
    <3>. QED BY <1>1, <3>4, <3>5, <3>6, <3>7 DEF NonceInv
  <2>4. CASE OtherGivesUp
    <3>1. /\ other' = -1 /\ sent' = sent /\ other >= 0
          /\ nextNonce' = IF nextNonce = other + 1 THEN other ELSE nextNonce
      BY <2>4, FrameTypes DEF OtherGivesUp, chain
    <3>2. \A n \in Int : n < nextNonce /\ n # other => n < nextNonce'
      BY <3>1, FrameTypes
    <3>3. \A u \in sent : u.nonce < nextNonce' /\ u.nonce # -1
      BY <3>2, FrameTypes DEF Inv, NonceInv
    <3>4. ASSUME NEW c \in Channel, HeldOf(collection[c]) # None,
                 HeldOf(collection[c]).nonce # -1
          PROVE  /\ HeldOf(collection[c]).nonce < nextNonce'
                 /\ \A u \in sent : u.nonce = HeldOf(collection[c]).nonce =>
                      u.key = HeldOf(collection[c]).key
      BY <3>2, <3>4, FrameTypes DEF Inv, NonceInv
    <3>5. other' < nextNonce' BY <3>1, FrameTypes
    <3>. QED BY <1>1, <3>1, <3>3, <3>4, <3>5 DEF Inv, NonceInv
  <2>. QED BY <2>1, <2>2, <2>3, <2>4
<1>7. Kept BY <1>1 DEF Kept
<1>. QED BY <1>2, <1>4, <1>5, <1>6, <1>7, TypeParts DEF Inv

(* Nobody minds if the chain moves on.                                      *)
LEMMA LaterBlock ==
  ASSUME NEW col \in Collection \cup {None}, NEW st \in StoredChannel \cup {None},
         NEW w \in Worker, NEW lat \in 0..MaxCharged, NEW fin \in 0..MaxCharged,
         NEW l2 \in 0..MaxCharged, NEW f2 \in 0..MaxCharged,
         l2 >= lat, f2 <= l2,
         ChannelOk(col, st, w, lat, fin)
  PROVE  ChannelOk(col, st, w, l2, f2)
<1>1. ASSUME col # None PROVE col.claimed <= l2
  <2>1. col.claimed \in Nat BY <1>1 DEF Collection
  <2>. QED BY <1>1, <2>1 DEF ChannelOk, Loose
<1>2. DebtOk(col, st, l2)
  <2>. SUFFICES ASSUME col # None, st # None, NEW n \in 1..st.charged, n > l2,
                       n > col.claimed
                PROVE  \/ n \in col.charges \/ col.force # "no"
                       \/ col.attempt # None /\ n <= col.attempt.key.target
    BY DEF DebtOk
  <2>1. n > lat BY DEF StoredChannel
  <2>. QED BY <2>1 DEF ChannelOk, Loose, DebtOk
<1>3. w.claimed <= l2
  <2>1. w.claimed \in Nat BY DEF Worker
  <2>. QED BY <2>1 DEF ChannelOk
<1>. QED BY <1>1, <1>2, <1>3 DEF ChannelOk, Loose

LEMMA ChainInv ==
  ASSUME Inv,
         latest' \in [Channel -> 0..MaxCharged],
         final' \in [Channel -> 0..MaxCharged],
         \A c \in Channel : latest'[c] >= latest[c] /\ final'[c] <= latest'[c],
         chainNonce' \in 0..(MaxNonce + 1),
         leaving' \subseteq Channel,
         mined' \subseteq [tx : Tx, ok : BOOLEAN],
         \A m \in mined' \ mined : m.ok /\ m.tx.key # Manual =>
           m.tx.key.target <= latest'[m.tx.key.channel],
         UNCHANGED <<enabled, store, collection, worker, shared, sent>>
  PROVE  Inv' /\ Kept
<1>1. ChannelTypes' BY DEF Inv, TypeOK, ChannelTypes
<1>2. ASSUME NEW c \in Channel
      PROVE  ChannelOk(collection[c], store[c], worker[c], latest'[c], final'[c])
  <2>1. PICK lat \in 0..MaxCharged : lat = latest[c] BY InvAt
  <2>2. PICK fin \in 0..MaxCharged : fin = final[c] BY InvAt
  <2>3. PICK l2 \in 0..MaxCharged : l2 = latest'[c] OBVIOUS
  <2>4. PICK f2 \in 0..MaxCharged : f2 = final'[c] OBVIOUS
  <2>5. PICK col \in Collection \cup {None} : col = collection[c] BY InvAt
  <2>6. PICK st \in StoredChannel \cup {None} : st = store[c] BY InvAt
  <2>7. PICK w \in Worker : w = worker[c] BY InvAt
  <2>8. l2 >= lat /\ f2 <= l2 BY <2>1, <2>3, <2>4
  <2>9. ChannelOk(col, st, w, lat, fin)
    BY <2>1, <2>2, <2>5, <2>6, <2>7, InvAt
  <2>10. ChannelOk(col, st, w, l2, f2) BY <2>8, <2>9, LaterBlock
  <2>. QED BY <2>3, <2>4, <2>5, <2>6, <2>7, <2>10
<1>3. ChannelsOk' BY <1>2 DEF ChannelsOk
<1>4. JournalInv' BY InvAt, TypeParts, JournalFrame DEF Inv, shared
<1>5. NonceInv' BY DEF Inv, NonceInv, shared
<1>6. MinedInv'
  <2>. SUFFICES ASSUME NEW m \in mined', m.ok, m.tx.key # Manual
                PROVE  m.tx.key.target <= latest'[m.tx.key.channel]
    BY DEF MinedInv
  <2>1. CASE m \in mined
    <3>1. m.tx.key \in Key BY DEF Tx
    <3>2. PICK c \in Channel : c = m.tx.key.channel BY <3>1 DEF Key
    <3>3. m.tx.key.target \in Nat BY <3>1 DEF Key
    <3>4. m.tx.key.target <= latest[c] BY <2>1, <3>2 DEF Inv, MinedInv
    <3>5. latest[c] \in Nat /\ latest'[c] \in Nat /\ latest'[c] >= latest[c] BY InvAt
    <3>. QED BY <3>2, <3>3, <3>4, <3>5
  <2>2. CASE m \notin mined BY <2>2
  <2>. QED BY <2>1, <2>2
<1>7. SharedTypes' BY DEF Inv, TypeOK, SharedTypes, shared
<1>8. Kept BY DEF Kept
<1>. QED BY <1>1, <1>3, <1>4, <1>5, <1>6, <1>7, <1>8, TypeParts DEF Inv

LEMMA MineInv ==
  ASSUME Inv, NEW tx \in sent, NEW ok \in BOOLEAN, Mine(tx, ok)
  PROVE  Inv' /\ Kept
<1>1. tx \in Tx /\ tx.nonce \in 0..MaxNonce BY DEF Inv, TypeOK, Tx
<1>2. /\ chainNonce' = chainNonce + 1 /\ tx.nonce = chainNonce
      /\ UNCHANGED <<enabled, store, collection, worker, shared, sent, final, leaving>>
  BY DEF Mine
<1>3. PICK m : m = [tx |-> tx, ok |-> ok] OBVIOUS
<1>4. mined' = mined \cup {m} /\ m \in [tx : Tx, ok : BOOLEAN]
  BY <1>1, <1>3 DEF Mine
<1>5. chainNonce' \in 0..(MaxNonce + 1) BY <1>1, <1>2, AutoClaimAssumption
<1>6. /\ latest \in [Channel -> 0..MaxCharged] /\ final \in [Channel -> 0..MaxCharged]
      /\ mined \subseteq [tx : Tx, ok : BOOLEAN] /\ leaving \subseteq Channel
  BY DEF Inv, TypeOK
<1>7. /\ latest' \in [Channel -> 0..MaxCharged]
      /\ \A c \in Channel : latest'[c] >= latest[c]
      /\ ok /\ tx.key # Manual => tx.key.target <= latest'[tx.key.channel]
  <2>1. CASE tx.key = Manual \/ ~ok
    <3>1. latest' = latest BY <2>1 DEF Mine
    <3>. QED BY <1>6, <2>1, <3>1, InvAt
  <2>2. CASE ~(tx.key = Manual \/ ~ok)
    <3>1. tx.key \in Key BY <1>1, <2>2 DEF Tx
    <3>2. PICK c \in Channel : c = tx.key.channel BY <3>1 DEF Key
    <3>3. PICK n \in 0..MaxCharged : n = tx.key.target BY <3>1 DEF Key
    <3>4. PICK lat \in 0..MaxCharged : lat = latest[c] BY InvAt
    <3>5. PICK l2 : l2 = Larger(lat, n) OBVIOUS
    <3>6. l2 \in 0..MaxCharged /\ l2 >= lat /\ l2 >= n BY <3>5 DEF Larger
    <3>7. latest' = [latest EXCEPT ![c] = l2]
      BY <2>2, <3>2, <3>3, <3>4, <3>5 DEF Mine
    <3>8. latest'[c] = l2 /\ \A d \in Channel \ {c} : latest'[d] = latest[d]
      BY <1>6, <3>7
    <3>9. \A d \in Channel : latest'[d] >= latest[d]
      BY <3>4, <3>6, <3>8, InvAt
    <3>. QED BY <1>6, <3>2, <3>3, <3>6, <3>7, <3>8, <3>9
  <2>. QED BY <2>1, <2>2
<1>8. \A c \in Channel : final'[c] <= latest'[c]
  <2>. SUFFICES ASSUME NEW c \in Channel PROVE final'[c] <= latest'[c]
    OBVIOUS
  <2>1. /\ final[c] \in Nat /\ latest[c] \in Nat /\ latest'[c] \in Nat
        /\ final[c] <= latest[c] /\ latest'[c] >= latest[c] /\ final'[c] = final[c]
    BY <1>2, <1>6, <1>7, InvAt
  <2>. QED BY <2>1
<1>9. /\ final' \in [Channel -> 0..MaxCharged] /\ leaving' \subseteq Channel
      /\ mined' \subseteq [tx : Tx, ok : BOOLEAN]
  BY <1>2, <1>4, <1>6
<1>10. \A k \in mined' \ mined : k.ok /\ k.tx.key # Manual =>
         k.tx.key.target <= latest'[k.tx.key.channel]
  BY <1>3, <1>4, <1>7
<1>. QED BY <1>2, <1>5, <1>7, <1>8, <1>9, <1>10, ChainInv

LEMMA BlocksInv ==
  ASSUME Inv, NEW c \in Channel,
         ClaimedElsewhere(c) \/ Finalize(c) \/ RequestWithdrawal(c)
  PROVE  Inv' /\ Kept
<1>1. /\ UNCHANGED <<enabled, store, collection, worker, shared, sent, mined,
                     chainNonce>>
      /\ latest \in [Channel -> 0..MaxCharged] /\ final \in [Channel -> 0..MaxCharged]
      /\ mined \subseteq [tx : Tx, ok : BOOLEAN] /\ leaving \subseteq Channel
      /\ chainNonce \in 0..(MaxNonce + 1)
  BY DEF ClaimedElsewhere, Finalize, RequestWithdrawal, Inv, TypeOK
<1>2. PICK lat \in 0..MaxCharged : lat = latest[c] BY InvAt
<1>3. PICK fin \in 0..MaxCharged : fin = final[c] BY InvAt
<1>4. \A d \in Channel : /\ latest[d] \in Nat /\ final[d] \in Nat
                         /\ final[d] <= latest[d]
  BY InvAt
<1>5. leaving' \subseteq Channel
  BY <1>1 DEF ClaimedElsewhere, Finalize, RequestWithdrawal
<1>6. PICK l2 \in 0..MaxCharged, f2 \in 0..MaxCharged :
        /\ latest' = [latest EXCEPT ![c] = l2] /\ final' = [final EXCEPT ![c] = f2]
        /\ l2 >= lat /\ f2 <= l2
  <2>1. latest = [latest EXCEPT ![c] = lat] /\ final = [final EXCEPT ![c] = fin]
    BY <1>2, <1>3, InvAt, Untouched
  <2>2. fin <= lat BY <1>2, <1>3, <1>4
  <2>3. CASE ClaimedElsewhere(c)
    <3>1. PICK n \in 0..MaxCharged : n = store[c].charged
      BY <2>3, InvAt DEF ClaimedElsewhere, StoredChannel
    <3>2. /\ latest' = [latest EXCEPT ![c] = n] /\ final' = [final EXCEPT ![c] = fin]
          /\ lat < n
      BY <1>2, <2>1, <2>3, <3>1 DEF ClaimedElsewhere
    <3>3. n >= lat /\ fin <= n BY <2>2, <3>2
    <3>. QED BY <3>2, <3>3
  <2>4. CASE Finalize(c)
    <3>1. /\ latest' = [latest EXCEPT ![c] = lat] /\ final' = [final EXCEPT ![c] = lat]
      BY <1>2, <2>1, <2>4 DEF Finalize
    <3>2. lat >= lat /\ lat <= lat OBVIOUS
    <3>. QED BY <3>1, <3>2
  <2>5. CASE RequestWithdrawal(c)
    <3>1. /\ latest' = [latest EXCEPT ![c] = lat] /\ final' = [final EXCEPT ![c] = fin]
      BY <2>1, <2>5 DEF RequestWithdrawal
    <3>2. lat >= lat OBVIOUS
    <3>. QED BY <2>2, <3>1, <3>2
  <2>. QED BY <2>3, <2>4, <2>5
<1>7. /\ latest'[c] = l2 /\ final'[c] = f2
      /\ \A d \in Channel \ {c} : latest'[d] = latest[d] /\ final'[d] = final[d]
  BY <1>1, <1>6
<1>8. \A d \in Channel : latest'[d] >= latest[d] /\ final'[d] <= latest'[d]
  <2>. SUFFICES ASSUME NEW d \in Channel
                PROVE  latest'[d] >= latest[d] /\ final'[d] <= latest'[d]
    OBVIOUS
  <2>1. CASE d = c BY <1>2, <1>6, <1>7, <2>1
  <2>2. CASE d # c BY <1>4, <1>7, <2>2
  <2>. QED BY <2>1, <2>2
<1>9. latest' \in [Channel -> 0..MaxCharged] /\ final' \in [Channel -> 0..MaxCharged]
  BY <1>1, <1>6
<1>10. /\ mined' = mined /\ chainNonce' = chainNonce BY <1>1
<1>11. /\ mined' \subseteq [tx : Tx, ok : BOOLEAN] /\ mined' \ mined = {}
       /\ chainNonce' \in 0..(MaxNonce + 1)
  BY <1>1, <1>10
<1>. QED BY <1>1, <1>5, <1>8, <1>9, <1>11, ChainInv
-----------------------------------------------------------------------------
(* The invariant, step by step.                                             *)

LEMMA InitInv == Init => Inv
<1>. SUFFICES ASSUME Init PROVE Inv
  OBVIOUS
<1>1. TypeOK
  <2>1. /\ MaxNonce \in Nat /\ MaxCharged \in Nat /\ InitCredit \in Nat
        /\ 0 \in 0..MaxCharged /\ 0 \in 0..(MaxNonce + 1) /\ -1 \in -1..MaxNonce
    BY AutoClaimAssumption
  <2>2. IdleWorker \in Worker BY <2>1 DEF IdleWorker, Worker, WorkerPC
  <2>3. worker \in [Channel -> Worker] BY <2>2 DEF Init
  <2>4. /\ store \in [Channel -> StoredChannel \cup {None}]
        /\ collection \in [Channel -> Collection \cup {None}]
        /\ latest \in [Channel -> 0..MaxCharged]
        /\ final \in [Channel -> 0..MaxCharged]
        /\ record \in [Key -> {"none", "checking", "broadcast", "settled", "failed"}]
    BY <2>1 DEF Init
  <2>. QED BY <2>1, <2>3, <2>4 DEF Init, TypeOK
<1>2. ChannelsOk
  <2>. SUFFICES ASSUME NEW c \in Channel
                PROVE  ChannelOk(collection[c], store[c], worker[c], latest[c], final[c])
    BY DEF ChannelsOk
  <2>1. /\ collection[c] = None /\ worker[c] = IdleWorker /\ latest[c] = 0
        /\ final[c] = 0
    BY DEF Init
  <2>2. 0 \in 0..MaxCharged BY AutoClaimAssumption
  <2>3. ChannelOk(None, store[c], IdleWorker, 0, 0) BY <2>2, DroppedSound
  <2>. QED BY <2>1, <2>3
<1>3. JournalInv
  BY DistinctAssumption DEF Init, JournalInv, HeldOf
<1>4. NonceInv BY DEF Init, NonceInv, HeldOf
<1>5. MinedInv BY DEF Init, MinedInv
<1>. QED BY <1>1, <1>2, <1>3, <1>4, <1>5 DEF Inv

LEMMA StutterInv == Inv /\ UNCHANGED vars => Inv'
BY DEF Inv, TypeOK, ChannelsOk, ChannelOk, JournalInv, NonceInv, MinedInv, vars,
       shared, chain

LEMMA StepInv == Inv /\ Next => Inv' /\ Kept
<1>. SUFFICES ASSUME Inv, Next PROVE Inv' /\ Kept
  OBVIOUS
<1>1. CASE Enable \/ Disable BY <1>1, EnableInv, DisableInv
<1>2. ASSUME NEW c \in Channel, Update(c) PROVE Inv' /\ Kept
  BY <1>2, ReserveInv, CommitInv, DeleteInv DEF Update
<1>3. ASSUME NEW c \in Channel, RequestClaim(c) \/ Time(c) PROVE Inv' /\ Kept
  BY <1>3, TimeInv, ExpiresInv DEF Time
<1>4. ASSUME NEW c \in Channel, Dispatch(c) PROVE Inv' /\ Kept
  BY <1>4, AbandonInv, EndStepsInv, AwaitStepsInv DEF Dispatch
<1>5. ASSUME NEW c \in Channel, Resume(c) PROVE Inv' /\ Kept
  <2>1. CASE \/ MonitorError(c) \/ MonitoredGone(c) \/ MonitoredSeed(c)
             \/ MonitoredPaid(c) \/ MonitoredWait(c) \/ MonitoredRefused(c)
             \/ RefreshError(c) \/ Sent(c)
    BY <2>1, EndStepsInv
  <2>2. CASE \/ NotYetMined(c) \/ (\E n \in 0..MaxNonce : NonceAnswered(c, n))
             \/ RefreshPending(c)
    BY <2>2, AwaitStepsInv
  <2>3. CASE MonitoredResume(c) BY <2>3, MonitoredResumeInv
  <2>4. CASE StartAttempt(c) BY <2>4, StartAttemptInv
  <2>5. CASE AlreadyMined(c) \/ PrepareError(c) BY <2>5, AbandonInv
  <2>6. CASE Prepared(c) BY <2>6, PreparedInv
  <2>7. CASE Settled(c) BY <2>7, SettledInv
  <2>8. CASE Reverted(c) BY <2>8, RevertedInv
  <2>. QED
    BY <1>5, <2>1, <2>2, <2>3, <2>4, <2>5, <2>6, <2>7, <2>8 DEF Resume
<1>6. CASE Environment
  <2>1. CASE ManualLock \/ OtherReserves \/ OtherSends \/ OtherGivesUp
    BY <2>1, OthersInv
  <2>2. CASE \E tx \in sent, ok \in BOOLEAN : Mine(tx, ok) BY <2>2, MineInv
  <2>3. ASSUME NEW c \in Channel, ReadChannelState(c) PROVE Inv' /\ Kept
    BY <2>3, AwaitStepsInv
  <2>4. ASSUME NEW c \in Channel, Trap(c) PROVE Inv' /\ Kept
    BY <2>4, TrapInv
  <2>5. ASSUME NEW c \in Channel,
               ClaimedElsewhere(c) \/ Finalize(c) \/ RequestWithdrawal(c)
        PROVE  Inv' /\ Kept
    BY <2>5, BlocksInv
  <2>. QED BY <1>6, <2>1, <2>2, <2>3, <2>4, <2>5 DEF Environment
<1>. QED BY <1>1, <1>2, <1>3, <1>4, <1>5, <1>6 DEF Next

(* What a channel, its worker, the journal and the chain say of each other  *)
(* stays consistent under every step of auto_claim.rs and around it.        *)
THEOREM CollectorInvariant == Spec => []Inv
<1>1. Inv /\ [Next]_vars => Inv' BY StepInv, StutterInv
<1>. QED BY <1>1, InitInv, PTL DEF Spec

(* No step leaves the types of the stable state and of the workers' locals. *)
THEOREM TypeCorrect == Spec => []TypeOK
<1>1. Inv => TypeOK BY DEF Inv
<1>. QED BY <1>1, CollectorInvariant, PTL

LEMMA WorkingHeld ==
  ASSUME Inv, NEW c \in Channel
  PROVE  /\ Working(c) <=> HeldOf(collection[c]) # None
         /\ Working(c) => Held(c) = HeldOf(collection[c])
BY DEF Working, Managed, Held, HeldOf

(* The journal, the record and the lock tell one story (abandon_prepared,   *)
(* resume, record), whatever interrupts a worker.                           *)
THEOREM JournalSound == Spec => []JournalAgrees
<1>1. Inv => JournalAgrees
  <2>. SUFFICES ASSUME Inv PROVE JournalAgrees
    OBVIOUS
  <2>1. ASSUME NEW k \in Key PROVE k.channel \in Channel BY DEF Key
  <2>. QED BY <2>1, WorkingHeld DEF Inv, JournalInv, JournalAgrees
<1>. QED BY <1>1, CollectorInvariant, PTL

(* A live claim is for at most what the stored channel has charged.         *)
THEOREM ClaimsCovered == Spec => []AttemptCovered
<1>1. Inv => AttemptCovered
  <2>. SUFFICES ASSUME Inv, NEW c \in Channel, Working(c)
                PROVE  store[c] # None /\ Held(c).key.target <= store[c].charged
    BY DEF AttemptCovered
  <2>. QED BY WorkingHeld, InvAt DEF Loose, CoveredOk
<1>. QED BY <1>1, CollectorInvariant, PTL

(* No order of commits, answers and claims loses a payment (after_update,   *)
(* reconcile).                                                              *)
THEOREM DebtNeverLost == Spec => []DebtCounted
<1>1. Inv => DebtCounted
  <2>. SUFFICES ASSUME Inv, NEW c \in Channel, Managed(c), store[c] # None,
                       NEW n \in (Larger(latest[c], collection[c].claimed) + 1)
                                   ..store[c].charged
                PROVE  \/ n \in collection[c].charges
                       \/ collection[c].force # "no"
                       \/ Working(c) /\ n <= Held(c).key.target
    BY DEF DebtCounted
  <2>1. PICK col \in Collection : col = collection[c] BY InvAt DEF Managed
  <2>2. PICK st \in StoredChannel : st = store[c] BY InvAt
  <2>3. PICK lat \in 0..MaxCharged : lat = latest[c] BY InvAt
  <2>4. /\ col.claimed \in Nat /\ lat \in Nat /\ st.charged \in Nat
        /\ n \in (Larger(lat, col.claimed) + 1)..st.charged
    BY <2>1, <2>2, <2>3 DEF Collection, StoredChannel
  <2>5. n \in 1..st.charged /\ n > lat /\ n > col.claimed BY <2>4 DEF Larger
  <2>6. DebtOk(col, st, lat) BY <2>1, <2>2, <2>3, InvAt DEF Loose
  <2>7. col # None /\ st # None BY AbsentAssumption
  <2>8. \/ n \in col.charges \/ col.force # "no"
        \/ col.attempt # None /\ n <= col.attempt.key.target
    BY <2>5, <2>6, <2>7 DEF DebtOk
  <2>. QED BY <2>1, <2>7, <2>8 DEF Working, Managed, Held
<1>. QED BY <1>1, CollectorInvariant, PTL

(* A collection sleeps only if there is nothing to do for it (dispatch).    *)
THEOREM SleepSafe == Spec => []NoSleepingDebt
<1>1. Inv => NoSleepingDebt
  BY InvAt DEF NoSleepingDebt, Managed, Held, ChannelOk, SleepOk
<1>. QED BY <1>1, CollectorInvariant, PTL

(* The history of a channel fits: MAX_OUTSTANDING bounds it although only   *)
(* reservations are checked (stop_reason).                                  *)
THEOREM HistoryBounded == Spec => []BacklogBounded
<1>1. Inv => BacklogBounded
  BY InvAt DEF BacklogBounded, Managed, Loose, BacklogOk
<1>. QED BY <1>1, CollectorInvariant, PTL

(* No two transactions share a nonce (reserve_nonce).                       *)
THEOREM NoncesUnique == Spec => []NonceUnique
<1>1. Inv => NonceUnique
  <2>. SUFFICES ASSUME Inv, NEW t1 \in sent, NEW t2 \in sent, t1.nonce = t2.nonce
                PROVE  t1 = t2
    BY DEF NonceUnique
  <2>1. t1 \in Tx /\ t2 \in Tx /\ t1.key = t2.key BY DEF Inv, TypeOK, NonceInv
  <2>. QED BY <2>1 DEF Tx
<1>. QED BY <1>1, CollectorInvariant, PTL

(* A channel leaves the collector only when all of it is claimed and no     *)
(* attempt is under way (before_delete, run).                               *)
THEOREM ChannelsNotAbandoned == Spec => NotAbandoned
<1>1. Inv /\ [Next]_vars =>
        [\A c \in Channel : Managed(c) /\ ~Managed(c)' =>
           /\ Charged(c) <= latest[c]
           /\ Held(c) = None]_vars
  <2>. SUFFICES ASSUME Inv, Next, NEW c \in Channel, Managed(c), ~Managed(c)'
                PROVE  Charged(c) <= latest[c] /\ Held(c) = None
    OBVIOUS
  <2>1. collection[c] # None /\ collection'[c] = None BY DEF Managed
  <2>. QED BY <2>1, StepInv DEF Kept, Held, HeldOf
<1>. QED BY <1>1, CollectorInvariant, PTL DEF Spec, NotAbandoned

(* A signed attempt keeps its key and nonce until the chain has executed    *)
(* it (prepare journals the raw transaction once, resume resends it).       *)
THEOREM JournalIsKept == Spec => JournalKept
<1>1. Inv /\ [Next]_vars =>
        [\A c \in Channel : Working(c) /\ Held(c).nonce # -1 =>
           \/ Working(c)' /\ Held(c)' = Held(c)
           \/ \E m \in mined : m.tx = Journaled(c)]_vars
  <2>. SUFFICES ASSUME Inv, Next, NEW c \in Channel, Working(c), Held(c).nonce # -1
                PROVE  \/ Working(c)' /\ Held(c)' = Held(c)
                       \/ \E m \in mined : m.tx = Journaled(c)
    OBVIOUS
  <2>1. HeldOf(collection[c]) # None /\ HeldOf(collection[c]) = Held(c)
    BY WorkingHeld
  <2>2. CASE HeldOf(collection'[c]) = HeldOf(collection[c])
    <3>1. collection'[c] # None /\ collection'[c].attempt = Held(c)
      BY <2>1, <2>2 DEF HeldOf
    <3>. QED BY <2>1, <3>1 DEF Working, Managed, Held
  <2>. QED BY <2>1, <2>2, StepInv DEF Kept
<1>. QED BY <1>1, CollectorInvariant, PTL DEF Spec, JournalKept
-----------------------------------------------------------------------------
(* The fees.                                                                *)

TxOf(h) == [key |-> h.key, nonce |-> h.nonce]

HeldSet == {c \in Channel : HeldOf(collection[c]) # None}
OpenTx == {TxOf(HeldOf(collection[c])) : c \in HeldSet}

(* The auto claims the chain has executed, but for one under way.           *)
DoneSet == {m \in mined : m.tx.key # Manual /\ m.tx \notin OpenTx}

(* The chain executes a transaction once, in the order of the nonces; a     *)
(* claim it may still execute is the journaled one; and the fees are paid   *)
(* for what is executed or under way.                                       *)
MinedOnce ==
  /\ IsFiniteSet(mined)
  /\ \A m \in mined : m.tx \in sent /\ m.tx.nonce < chainNonce
  /\ \A m1, m2 \in mined : m1.tx = m2.tx => m1 = m2

OpenIsJournaled ==
  \A t \in sent : t.key # Manual /\ t.nonce >= chainNonce => t \in OpenTx

Paid(n) == credit + Fee * n = InitCredit

FeeInv ==
  /\ MinedOnce /\ OpenIsJournaled
  /\ Paid(Cardinality(DoneSet) + Cardinality(HeldSet))

LEMMA NobodyHeld ==
  ASSUME \A c \in Channel : HeldOf(collection[c]) = None
  PROVE  /\ HeldSet = {} /\ OpenTx = {} /\ Cardinality(HeldSet) = 0
         /\ DoneSet = {m \in mined : m.tx.key # Manual}
<1>1. HeldSet = {} BY DEF HeldSet
<1>2. OpenTx = {} BY <1>1 DEF OpenTx
<1>. QED BY <1>1, <1>2, FS_EmptySet DEF DoneSet

LEMMA NobodyHolds ==
  ASSUME Inv', lock' = None
  PROVE  \A d \in Channel : HeldOf(collection'[d]) = None
<1>. SUFFICES ASSUME NEW d \in Channel, HeldOf(collection'[d]) # None PROVE FALSE
  OBVIOUS
<1>1. collection'[d] \in Collection BY DEF HeldOf, Inv, TypeOK
<1>2. HeldOf(collection'[d]).key \in Key
  BY <1>1, AbsentAssumption DEF HeldOf, Collection, Attempt
<1>3. lock' = HeldOf(collection'[d]).key BY DEF Inv, JournalInv
<1>. QED BY <1>2, <1>3, DistinctAssumption

LEMMA SomeoneHeld ==
  ASSUME NEW c \in Channel, HeldOf(collection[c]) # None,
         \A d \in Channel \ {c} : HeldOf(collection[d]) = None
  PROVE  /\ HeldSet = {c} /\ OpenTx = {TxOf(HeldOf(collection[c]))}
         /\ Cardinality(HeldSet) = 1
         /\ DoneSet = {m \in mined : /\ m.tx.key # Manual
                                     /\ m.tx # TxOf(HeldOf(collection[c]))}
<1>1. HeldSet = {c} BY DEF HeldSet
<1>2. OpenTx = {TxOf(HeldOf(collection[c]))} BY <1>1 DEF OpenTx
<1>3. Cardinality({c}) = 1 BY FS_Singleton
<1>. QED BY <1>1, <1>2, <1>3 DEF DoneSet

LEMMA CountTypes ==
  ASSUME Inv, MinedOnce
  PROVE  /\ IsFiniteSet(DoneSet) /\ Cardinality(DoneSet) \in Nat
         /\ Cardinality(HeldSet) \in {0, 1}
         /\ credit \in Int /\ Fee \in Int /\ InitCredit \in Int
<1>1. DoneSet \in SUBSET mined BY DEF DoneSet
<1>2. IsFiniteSet(DoneSet) BY <1>1, FS_Subset DEF MinedOnce
<1>3. Cardinality(DoneSet) \in Nat BY <1>2, FS_CardinalityType
<1>4. Cardinality(HeldSet) \in {0, 1}
  <2>1. CASE \A c \in Channel : HeldOf(collection[c]) = None BY <2>1, NobodyHeld
  <2>2. CASE \E c \in Channel : HeldOf(collection[c]) # None
    <3>. PICK c \in Channel : HeldOf(collection[c]) # None BY <2>2
    <3>. QED BY OneHeld, SomeoneHeld
  <2>. QED BY <2>1, <2>2
<1>. QED BY <1>2, <1>3, <1>4, AutoClaimAssumption DEF Inv, TypeOK

(* One more claim is charged for, or one less.                              *)
LEMMA OneFee ==
  ASSUME Fee \in Int, credit \in Int, InitCredit \in Int, NEW n \in Int
  PROVE  /\ Paid(n) => (credit - Fee) + Fee * (n + 1) = InitCredit
         /\ Paid(n + 1) => (credit + Fee) + Fee * n = InitCredit
<1>. DEFINE p == Fee * n
<1>1. Fee * (n + 1) = p + Fee /\ p \in Int OBVIOUS
<1>. HIDE DEF p
<1>2. Paid(n) => credit + p = InitCredit BY DEF Paid, p
<1>3. Paid(n + 1) => credit + (p + Fee) = InitCredit BY <1>1 DEF Paid
<1>4. (credit - Fee) + Fee * (n + 1) = (credit - Fee) + (p + Fee) BY <1>1
<1>5. (credit - Fee) + (p + Fee) = credit + p BY <1>1
<1>6. (credit + Fee) + p = credit + (p + Fee) BY <1>1
<1>7. (credit + Fee) + Fee * n = (credit + Fee) + p BY DEF p
<1>. QED BY <1>2, <1>3, <1>4, <1>5, <1>6, <1>7

(* Nothing is charged or executed; a node may take the journaled            *)
(* transaction or one of the other settlements.                             *)
LEMMA FeeFrame ==
  ASSUME FeeInv, record' = record, credit' = credit, mined' = mined,
         chainNonce' = chainNonce, Kept, sent \subseteq sent',
         \A t \in sent' : t \in sent \/ t.key = Manual \/ t \in OpenTx
  PROVE  FeeInv'
<1>1. \A c \in Channel : HeldOf(collection'[c]) = HeldOf(collection[c])
  BY DEF Kept
<1>2. HeldSet' = HeldSet BY <1>1 DEF HeldSet
<1>3. OpenTx' = OpenTx BY <1>1, <1>2 DEF OpenTx, HeldSet
<1>4. DoneSet' = DoneSet BY <1>3 DEF DoneSet
<1>5. MinedOnce' /\ OpenIsJournaled' BY <1>3 DEF FeeInv, MinedOnce, OpenIsJournaled
<1>. QED BY <1>2, <1>4, <1>5 DEF FeeInv, Paid

(* The fee of an attempt is charged when it is journaled.                   *)
LEMMA StartFee ==
  ASSUME Inv, Inv', FeeInv, NEW c \in Channel, StartAttempt(c)
  PROVE  FeeInv'
<1>1. /\ lock = None /\ credit' = credit - Fee /\ Managed(c)
      /\ Watched(c).sequence < MaxSequence /\ store[c] # None
      /\ mined' = mined /\ sent' = sent /\ chainNonce' = chainNonce
  BY DEF StartAttempt, LockFree, chain, Owed, Answered
<1>2. PICK key : /\ key = [channel |-> c, target |-> TargetOf(c),
                           sequence |-> Watched(c).sequence + 1]
                 /\ lock' = key /\ record' = [record EXCEPT ![key] = "checking"]
  BY DEF StartAttempt
<1>3. key \in Key /\ key.channel = c
  <2>1. Watched(c) \in Collection BY <1>1, WatchedSound
  <2>2. Watched(c).sequence + 1 \in 1..MaxSequence
    BY <1>1, <2>1, AutoClaimAssumption DEF Collection
  <2>3. TargetOf(c) \in 0..MaxCharged
    BY <1>1, InvAt DEF TargetOf, StoredChannel
  <2>. QED BY <1>2, <2>2, <2>3 DEF Key
<1>4. record'[key] = "checking" BY <1>2, <1>3 DEF Inv, TypeOK
<1>5. /\ HeldOf(collection'[c]) # None /\ HeldOf(collection'[c]).key = key
      /\ HeldOf(collection'[c]).nonce = -1
  BY <1>2, <1>3, <1>4 DEF Inv, JournalInv
<1>6. \A d \in Channel \ {c} : HeldOf(collection'[d]) = None
  BY <1>2, <1>3, <1>5 DEF Inv, JournalInv
<1>7. \A d \in Channel : HeldOf(collection[d]) = None
  BY <1>1, OneHeld, DistinctAssumption
<1>8. /\ HeldSet' = {c} /\ OpenTx' = {TxOf(HeldOf(collection'[c]))}
      /\ Cardinality(HeldSet') = 1
  <2>1. HeldSet' = {c} BY <1>5, <1>6 DEF HeldSet
  <2>2. OpenTx' = {TxOf(HeldOf(collection'[c]))} BY <2>1 DEF OpenTx
  <2>. QED BY <2>1, <2>2, FS_Singleton
<1>9. \A t \in sent : t \notin OpenTx'
  <2>1. \A t \in sent : t.nonce # -1 BY FrameTypes
  <2>. QED BY <1>5, <1>8, <2>1 DEF TxOf
<1>10. DoneSet' = DoneSet /\ Cardinality(HeldSet) = 0
  BY <1>1, <1>7, <1>9, NobodyHeld DEF FeeInv, MinedOnce, DoneSet
<1>11. OpenIsJournaled' /\ MinedOnce'
  BY <1>1, <1>7, NobodyHeld DEF FeeInv, MinedOnce, OpenIsJournaled
<1>12. Paid(Cardinality(DoneSet) + Cardinality(HeldSet))'
  <2>. DEFINE n == Cardinality(DoneSet)
  <2>1. n \in Int /\ credit \in Int /\ Fee \in Int /\ InitCredit \in Int
    BY CountTypes DEF FeeInv
  <2>2. Paid(n + 0) BY <1>10 DEF FeeInv
  <2>. HIDE DEF n
  <2>3. (credit - Fee) + Fee * (n + 1) = InitCredit BY <2>1, <2>2, OneFee
  <2>. QED BY <1>1, <1>8, <1>10, <2>3 DEF Paid, n
<1>. QED BY <1>11, <1>12 DEF FeeInv

(* An attempt that was never signed is given up for its fee.                *)
LEMMA AbandonFee ==
  ASSUME Inv, Inv', FeeInv, NEW c \in Channel,
         DispatchAbandon(c) \/ AlreadyMined(c) \/ PrepareError(c)
  PROVE  FeeInv'
<1>1. HeldOf(collection[c]) # None /\ HeldOf(collection[c]).nonce = -1
  <2>1. CASE DispatchAbandon(c)
    BY <2>1 DEF DispatchAbandon, Due, Managed, Unsigned, HeldOf
  <2>2. CASE AlreadyMined(c) \/ PrepareError(c)
    BY <2>2, InvAt DEF AlreadyMined, PrepareError, ChannelOk, WorkerOk
  <2>. QED BY <2>1, <2>2
<1>2. PICK e : Abandon(c, e) BY DEF DispatchAbandon, AlreadyMined, PrepareError
<1>3. mined' = mined /\ sent' = sent /\ chainNonce' = chainNonce
  BY DEF DispatchAbandon, AlreadyMined, PrepareError, chain
<1>4. lock' = None /\ credit' = credit + Fee BY <1>1, <1>2, OneHeld DEF Abandon
<1>5. \A d \in Channel : HeldOf(collection'[d]) = None
  BY <1>4, NobodyHolds
<1>6. HeldSet' = {} /\ OpenTx' = {} /\ Cardinality(HeldSet') = 0
  <2>1. HeldSet' = {} BY <1>5 DEF HeldSet
  <2>2. OpenTx' = {} BY <2>1 DEF OpenTx
  <2>. QED BY <2>1, <2>2, FS_EmptySet
<1>7. \A t \in sent : t \notin OpenTx
  <2>1. \A t \in sent : t.nonce # -1 BY FrameTypes
  <2>2. OpenTx = {TxOf(HeldOf(collection[c]))} BY <1>1, OneHeld, SomeoneHeld
  <2>. QED BY <1>1, <2>1, <2>2 DEF TxOf
<1>8. DoneSet' = DoneSet /\ Cardinality(HeldSet) = 1
  <2>1. Cardinality(HeldSet) = 1 BY <1>1, OneHeld, SomeoneHeld
  <2>. QED BY <1>3, <1>6, <1>7, <2>1 DEF FeeInv, MinedOnce, DoneSet
<1>9. OpenIsJournaled' /\ MinedOnce'
  BY <1>3, <1>7 DEF FeeInv, MinedOnce, OpenIsJournaled
<1>10. Paid(Cardinality(DoneSet) + Cardinality(HeldSet))'
  <2>. DEFINE n == Cardinality(DoneSet)
  <2>1. n \in Int /\ credit \in Int /\ Fee \in Int /\ InitCredit \in Int
    BY CountTypes DEF FeeInv
  <2>2. Paid(n + 1) BY <1>8 DEF FeeInv
  <2>. HIDE DEF n
  <2>3. (credit + Fee) + Fee * n = InitCredit /\ n + 0 = n BY <2>1, <2>2, OneFee
  <2>. QED BY <1>4, <1>6, <1>8, <2>3 DEF Paid, n
<1>. QED BY <1>9, <1>10 DEF FeeInv

(* Signing takes a nonce no transaction has.                                *)
LEMMA PreparedFee ==
  ASSUME Inv, Inv', FeeInv, NEW c \in Channel, Prepared(c)
  PROVE  FeeInv'
<1>1. HeldOf(collection[c]) # None /\ HeldOf(collection[c]).nonce = -1
  BY InvAt DEF Prepared, ChannelOk, WorkerOk
<1>2. PICK col \in Collection, h \in Attempt :
        /\ col = collection[c] /\ h = col.attempt /\ h = HeldOf(collection[c])
        /\ h.key \in Key /\ h.key.channel = c /\ lock = h.key
  BY <1>1, OneHeld
<1>3. PICK n : n = Larger(nextNonce, worker[c].nonce) OBVIOUS
<1>4. n \in Nat /\ n >= nextNonce /\ nextNonce \in Nat
  <2>1. nextNonce \in Nat /\ worker[c].nonce \in Nat
    BY InvAt, AutoClaimAssumption DEF Inv, TypeOK, Worker
  <2>. QED BY <1>3, <2>1 DEF Larger
<1>5. PICK g, x : g = [h EXCEPT !.nonce = n] /\ x = [col EXCEPT !.attempt = g]
  OBVIOUS
<1>6. g.nonce = n /\ g.key = h.key /\ x.attempt = g
  BY <1>5 DEF Attempt, Collection
<1>7. /\ collection'[c] = x /\ lock' = lock /\ credit' = credit
      /\ mined' = mined /\ sent' = sent /\ chainNonce' = chainNonce
  <2>1. Put(c, x)
    BY <1>2, <1>3, <1>5 DEF Prepared, NonceToReserve, Collection
  <2>. QED BY <2>1, InvAt DEF Prepared, Put, chain, ChannelTypes
<1>8. HeldOf(collection'[c]) # None
  BY <1>2, <1>7 DEF Inv, JournalInv
<1>9. HeldOf(collection'[c]) = g BY <1>6, <1>7, <1>8 DEF HeldOf
<1>10. \A d \in Channel \ {c} : HeldOf(collection'[d]) = None
  BY <1>2, <1>7 DEF Inv, JournalInv
<1>11. HeldSet' = {c} /\ OpenTx' = {TxOf(g)}
  <2>1. HeldSet' = {c} BY <1>8, <1>10 DEF HeldSet
  <2>. QED BY <1>9, <2>1 DEF OpenTx
<1>12. \A t \in sent : t \notin OpenTx /\ t \notin OpenTx'
  <2>1. \A t \in sent : t.nonce \in Nat /\ t.nonce < nextNonce
    BY FrameTypes DEF Inv, NonceInv
  <2>2. OpenTx = {TxOf(h)} BY <1>1, <1>2, OneHeld, SomeoneHeld
  <2>3. TxOf(h).nonce = -1 /\ TxOf(g).nonce = n BY <1>1, <1>2, <1>6 DEF TxOf
  <2>. QED BY <1>4, <1>11, <2>1, <2>2, <2>3
<1>13. DoneSet' = DoneSet /\ HeldSet' = HeldSet
  <2>1. HeldSet = {c} BY <1>1, OneHeld, SomeoneHeld
  <2>. QED BY <1>7, <1>11, <1>12, <2>1 DEF FeeInv, MinedOnce, DoneSet
<1>14. OpenIsJournaled' /\ MinedOnce'
  BY <1>7, <1>12 DEF FeeInv, MinedOnce, OpenIsJournaled
<1>. QED BY <1>7, <1>13, <1>14 DEF FeeInv, Paid

(* The receipt of the journaled transaction makes it one of the executed.   *)
LEMMA ReceiptFee ==
  ASSUME Inv, Inv', FeeInv, NEW c \in Channel, Settled(c) \/ Reverted(c)
  PROVE  FeeInv'
<1>1. HeldOf(collection[c]) # None
  BY InvAt DEF Settled, Reverted, ChannelOk, WorkerOk
<1>2. HeldOf(collection[c]) = collection[c].attempt BY <1>1, OneHeld
<1>3. /\ lock' = None /\ credit' = credit /\ mined' = mined /\ sent' = sent
      /\ chainNonce' = chainNonce
  BY <1>1, <1>2, OneHeld DEF Settled, Reverted, Unlocked, chain
<1>4. PICK m \in mined : m.tx = TxOf(HeldOf(collection[c]))
  BY <1>2 DEF Settled, Reverted, Receipt, Journaled, TxOf
<1>5. \A d \in Channel : HeldOf(collection'[d]) = None BY <1>3, NobodyHolds
<1>6. HeldSet' = {} /\ OpenTx' = {} /\ Cardinality(HeldSet') = 0
  <2>1. HeldSet' = {} BY <1>5 DEF HeldSet
  <2>2. OpenTx' = {} BY <2>1 DEF OpenTx
  <2>. QED BY <2>1, <2>2, FS_EmptySet
<1>7. Cardinality(HeldSet) = 1 /\ OpenTx = {m.tx}
  BY <1>1, <1>4, OneHeld, SomeoneHeld
<1>8. DoneSet' = DoneSet \cup {m} /\ m \notin DoneSet
  <2>1. m.tx.key # Manual
    BY <1>1, <1>4, OneHeld, DistinctAssumption DEF TxOf
  <2>2. \A r \in mined : r.tx = m.tx => r = m BY DEF FeeInv, MinedOnce
  <2>. QED BY <1>3, <1>6, <1>7, <2>1, <2>2 DEF DoneSet
<1>9. Cardinality(DoneSet') = Cardinality(DoneSet) + 1
  BY <1>8, CountTypes, FS_AddElement DEF FeeInv
<1>10. OpenIsJournaled' /\ MinedOnce'
  <2>1. m.tx.nonce < chainNonce BY DEF FeeInv, MinedOnce
  <2>2. m.tx.nonce \in Nat /\ chainNonce \in Nat
    BY FrameTypes, AutoClaimAssumption DEF FeeInv, MinedOnce, Inv, TypeOK
  <2>3. \A t \in sent : t \in OpenTx => ~(t.nonce >= chainNonce)
    BY <1>7, <2>1, <2>2
  <2>. QED BY <1>3, <2>3 DEF FeeInv, MinedOnce, OpenIsJournaled
<1>11. Paid(Cardinality(DoneSet) + Cardinality(HeldSet))'
  <2>1. Cardinality(DoneSet') + Cardinality(HeldSet')
          = Cardinality(DoneSet) + Cardinality(HeldSet)
    BY <1>6, <1>7, <1>9, CountTypes DEF FeeInv
  <2>. QED BY <1>3, <2>1 DEF FeeInv, Paid
<1>. QED BY <1>10, <1>11 DEF FeeInv

(* The chain executes the journaled claim, or what is none of the claims.   *)
LEMMA MineFee ==
  ASSUME Inv, Inv', FeeInv, Kept, NEW tx \in sent, NEW ok \in BOOLEAN, Mine(tx, ok)
  PROVE  FeeInv'
<1>1. /\ tx.nonce = chainNonce /\ chainNonce' = chainNonce + 1
      /\ mined' = mined \cup {[tx |-> tx, ok |-> ok]}
      /\ record' = record /\ credit' = credit /\ sent' = sent
  BY DEF Mine, shared
<1>2. \A c \in Channel : HeldOf(collection'[c]) = HeldOf(collection[c])
  BY <1>1 DEF Kept
<1>3. HeldSet' = HeldSet BY <1>2 DEF HeldSet
<1>4. OpenTx' = OpenTx BY <1>2, <1>3 DEF OpenTx, HeldSet
<1>5. chainNonce \in Nat /\ \A t \in sent : t.nonce \in Nat
  BY FrameTypes, AutoClaimAssumption DEF Inv, TypeOK
<1>6. PICK m : m = [tx |-> tx, ok |-> ok] OBVIOUS
<1>7. m.tx = tx /\ mined' = mined \cup {m} BY <1>1, <1>6
<1>8. m \notin DoneSet' BY <1>1, <1>4, <1>5, <1>7 DEF FeeInv, OpenIsJournaled, DoneSet
<1>9. DoneSet' = DoneSet BY <1>4, <1>7, <1>8 DEF DoneSet
<1>10. MinedOnce'
  <2>1. IsFiniteSet(mined') BY <1>7, FS_AddElement DEF FeeInv, MinedOnce
  <2>2. \A r \in mined : r.tx \in sent /\ r.tx.nonce < chainNonce
    BY DEF FeeInv, MinedOnce
  <2>3. \A r \in mined' : r.tx \in sent' /\ r.tx.nonce < chainNonce'
    BY <1>1, <1>5, <1>7, <2>2
  <2>4. \A r \in mined : r.tx # tx BY <1>1, <1>5, <2>2
  <2>5. \A r1, r2 \in mined' : r1.tx = r2.tx => r1 = r2
    BY <1>7, <2>4 DEF FeeInv, MinedOnce
  <2>. QED BY <2>1, <2>3, <2>5 DEF MinedOnce
<1>11. OpenIsJournaled'
  BY <1>1, <1>4, <1>5 DEF FeeInv, OpenIsJournaled
<1>. QED BY <1>1, <1>3, <1>9, <1>10, <1>11 DEF FeeInv, Paid

(* Steps that leave records, credit and executed transactions alone.        *)
LEMMA QuietFee ==
  ASSUME Inv, Kept, FeeInv, UNCHANGED <<record, credit, mined, chainNonce>>,
         \/ UNCHANGED sent
         \/ \E c \in Channel : MaySend(c) /\ HeldOf(collection[c]) # None
         \/ OtherSends
  PROVE  FeeInv'
<1>1. CASE UNCHANGED sent BY <1>1, FeeFrame
<1>2. CASE OtherSends
  <2>1. sent' = sent \cup {[key |-> Manual, nonce |-> other]}
    BY <1>2 DEF OtherSends
  <2>. QED BY <2>1, FeeFrame
<1>3. ASSUME NEW c \in Channel, MaySend(c), HeldOf(collection[c]) # None
      PROVE  FeeInv'
  <2>1. Journaled(c) = TxOf(HeldOf(collection[c])) BY <1>3, OneHeld DEF Journaled, TxOf
  <2>2. OpenTx = {Journaled(c)} BY <1>3, <2>1, OneHeld, SomeoneHeld
  <2>3. sent' = sent \/ sent' = sent \cup {Journaled(c)} BY <1>3 DEF MaySend
  <2>. QED BY <2>2, <2>3, FeeFrame
<1>. QED BY <1>1, <1>2, <1>3

LEMMA UpdateFee ==
  ASSUME Inv, Kept, FeeInv, NEW c \in Channel,
         Update(c) \/ RequestClaim(c) \/ Time(c)
  PROVE  FeeInv'
<1>1. UNCHANGED <<shared, chain>>
  <2>1. CASE Update(c)
    BY <2>1 DEF Update, Reserve, ReserveRefused, ReserveUnmanaged, Commit, Cancel,
       Delete, Updated
  <2>2. CASE Time(c) BY <2>2 DEF Time, DueAgain, MonitorAges, PendingExpires
  <2>3. CASE RequestClaim(c) BY <2>3 DEF RequestClaim
  <2>. QED BY <2>1, <2>2, <2>3
<1>. QED BY <1>1, QuietFee DEF shared, chain

LEMMA WorkerFee ==
  ASSUME Inv, Inv', Kept, FeeInv, NEW c \in Channel, Dispatch(c) \/ Resume(c)
  PROVE  FeeInv'
<1>1. CASE DispatchAbandon(c) \/ AlreadyMined(c) \/ PrepareError(c)
  BY <1>1, AbandonFee
<1>2. CASE StartAttempt(c) BY <1>2, StartFee
<1>3. CASE Prepared(c) BY <1>3, PreparedFee
<1>4. CASE Settled(c) \/ Reverted(c) BY <1>4, ReceiptFee
<1>5. CASE Sent(c)
  <2>1. /\ MaySend(c) /\ worker[c].pc \in {"send", "resend"}
        /\ UNCHANGED <<record, credit, mined, chainNonce>>
    BY <1>5 DEF Sent, shared
  <2>2. HeldOf(collection[c]) # None BY <2>1, InvAt DEF ChannelOk, WorkerOk
  <2>. QED BY <2>1, <2>2, QuietFee
<1>6. CASE \/ DispatchIdle(c) \/ DispatchMonitor(c) \/ MonitorError(c)
           \/ MonitoredGone(c) \/ MonitoredResume(c) \/ MonitoredSeed(c)
           \/ MonitoredPaid(c) \/ MonitoredWait(c) \/ MonitoredRefused(c)
           \/ NotYetMined(c) \/ (\E n \in 0..MaxNonce : NonceAnswered(c, n))
           \/ RefreshError(c) \/ RefreshPending(c)
  <2>1. UNCHANGED <<shared, chain>>
    BY <1>6 DEF DispatchIdle, DispatchMonitor, MonitorError, MonitoredGone,
       MonitoredResume, MonitoredSeed, MonitoredPaid, MonitoredWait,
       MonitoredRefused, NotYetMined, NonceAnswered, RefreshError, RefreshPending
  <2>. QED BY <2>1, QuietFee DEF shared, chain
<1>. QED BY <1>1, <1>2, <1>3, <1>4, <1>5, <1>6 DEF Dispatch, Resume

LEMMA EnvironmentFee ==
  ASSUME Inv, Inv', Kept, FeeInv, Environment
  PROVE  FeeInv'
<1>1. CASE \E tx \in sent, ok \in BOOLEAN : Mine(tx, ok) BY <1>1, MineFee
<1>2. ASSUME NEW c \in Channel, Trap(c) PROVE FeeInv'
  <2>1. /\ worker[c].pc \notin {"send", "resend"} => sent' = sent
        /\ worker[c].pc \in {"send", "resend"} => MaySend(c)
        /\ UNCHANGED <<record, credit, mined, chainNonce>>
    BY <1>2 DEF Trap, shared
  <2>2. worker[c].pc \in {"send", "resend"} => HeldOf(collection[c]) # None
    BY InvAt DEF ChannelOk, WorkerOk
  <2>. QED BY <2>1, <2>2, QuietFee
<1>3. CASE ManualLock \/ OtherReserves \/ OtherSends \/ OtherGivesUp
  <2>1. UNCHANGED <<record, credit, mined, chainNonce>> /\ (OtherSends \/ UNCHANGED sent)
    BY <1>3 DEF ManualLock, OtherReserves, OtherSends, OtherGivesUp, chain
  <2>. QED BY <2>1, QuietFee
<1>4. ASSUME NEW c \in Channel,
             \/ ReadChannelState(c) \/ ClaimedElsewhere(c) \/ Finalize(c)
             \/ RequestWithdrawal(c)
      PROVE  FeeInv'
  <2>1. UNCHANGED <<record, credit, mined, chainNonce, sent>>
    BY <1>4 DEF ReadChannelState, ClaimedElsewhere, Finalize, RequestWithdrawal,
       shared, chain
  <2>. QED BY <2>1, QuietFee
<1>. QED BY <1>1, <1>2, <1>3, <1>4 DEF Environment

LEMMA FeeStep == Inv /\ Inv' /\ Kept /\ FeeInv /\ Next => FeeInv'
<1>. SUFFICES ASSUME Inv, Inv', Kept, FeeInv, Next PROVE FeeInv'
  OBVIOUS
<1>1. CASE Enable \/ Disable
  <2>1. UNCHANGED <<shared, chain>> BY <1>1 DEF Enable, Disable
  <2>. QED BY <2>1, QuietFee DEF shared, chain
<1>. QED BY <1>1, UpdateFee, WorkerFee, EnvironmentFee DEF Next

(* A fee is charged when an attempt is journaled, given back only if it was *)
(* never signed, and kept for each claim the chain executes: no trap, retry *)
(* or registration anew charges or refunds twice (prepare,                  *)
(* abandon_prepared, resume).                                               *)
THEOREM FeesConserved == Spec => []FeeConserved
<1>1. Init => FeeInv
  <2>. SUFFICES ASSUME Init PROVE FeeInv OBVIOUS
  <2>1. \A c \in Channel : HeldOf(collection[c]) = None BY DEF Init, HeldOf
  <2>2. MinedOnce /\ OpenIsJournaled
    BY FS_EmptySet DEF Init, MinedOnce, OpenIsJournaled
  <2>3. DoneSet = {} /\ Cardinality(DoneSet) = 0 /\ Cardinality(HeldSet) = 0
    BY <2>1, NobodyHeld, FS_EmptySet DEF Init, DoneSet
  <2>4. Paid(0 + 0) BY AutoClaimAssumption DEF Init, Paid
  <2>. QED BY <2>2, <2>3, <2>4 DEF FeeInv
<1>2. Inv /\ Inv' /\ FeeInv /\ [Next]_vars => FeeInv'
  <2>1. CASE Next BY <2>1, StepInv, FeeStep
  <2>2. CASE UNCHANGED vars
    BY <2>2 DEF vars, shared, chain, FeeInv, MinedOnce, OpenIsJournaled, Paid,
       DoneSet, OpenTx, HeldSet
  <2>. QED BY <2>1, <2>2
<1>3. Inv /\ FeeInv => FeeConserved
  <2>. SUFFICES ASSUME Inv, FeeInv PROVE FeeConserved OBVIOUS
  <2>1. HeldSet = {c \in Channel : Working(c)} BY WorkingHeld DEF HeldSet
  <2>2. \A c \in HeldSet : TxOf(HeldOf(collection[c])) = Journaled(c)
    BY OneHeld DEF HeldSet, TxOf, Journaled
  <2>3. DoneSet = {m \in mined : /\ m.tx.key # Manual
                                 /\ \A c \in Channel : Working(c) => m.tx # Journaled(c)}
    BY <2>1, <2>2 DEF DoneSet, OpenTx
  <2>. QED BY <2>1, <2>3 DEF FeeInv, Paid, FeeConserved
<1>. QED BY <1>1, <1>2, <1>3, CollectorInvariant, PTL DEF Spec
===============================================================================
