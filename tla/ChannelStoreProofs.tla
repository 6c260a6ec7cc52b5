-------------------------- MODULE ChannelStoreProofs --------------------------
(***************************************************************************)
(* The channel store, for any channels, writers, sessions, vouchers and     *)
(* bounds.  The invariant says of every row that it is sound and storable,  *)
(* and of every session how its revision stands to the row it has read: the *)
(* same while nobody wrote, smaller once somebody did.                      *)
(***************************************************************************)
EXTENDS ChannelStoreProperties, FiniteSetTheorems, TLAPS

RowsOk ==
  /\ rows \in [Kept -> Row \cup {None}]
  /\ \A c \in Kept : rows[c] # None => RowSound(rows[c]) /\ Storable(c)

(* The revision a row has for a writer; 0 stands for no row.                *)
RevOf(row) == IF row = None THEN 0 ELSE row.rev

Snapshot == [channel : Kept \cup {None}, rev : Nat,
             saw : {"same", "written", "deleted"}]

Fits(ses, row) ==
  /\ ses.saw = "same" => ses.rev = RevOf(row)
  /\ ses.saw = "written" => ses.rev < RevOf(row)

SessionsFit ==
  /\ session \in [Session -> Snapshot]
  /\ \A s \in Session : session[s].channel # None =>
       Fits(session[s], rows[session[s].channel])

StoreInv == RowsOk /\ SessionsFit

LEMMA RevType ==
  ASSUME RowsOk, NEW c \in Kept
  PROVE  Rev(c) \in Nat
BY RowAssumption DEF RowsOk, Rev, Row

(* An accepted write stores a row that is sound, follows from the old one,  *)
(* and has the next revision.                                               *)
LEMMA PutFacts ==
  ASSUME RowsOk, NEW c \in Kept, NEW by, NEW e, Put(by, c, e)
  PROVE  \E row \in Row :
           /\ rows' = [rows EXCEPT ![c] = row]
           /\ row.rev = Rev(c) + 1
           /\ RowSound(row) /\ Storable(c) /\ TransitionOk(rows[c], row)
<1>1. PICK next \in RowOf(c) :
        /\ RowAccepted(c, rows[c], next)
        /\ rows' = [rows EXCEPT ![c] = [next EXCEPT !.rev = Rev(c) + 1]]
  BY DEF Put
<1>. DEFINE row == [next EXCEPT !.rev = Rev(c) + 1]
<1>v. Amount(c) \subseteq Nat /\ Vouchers[c] \subseteq Nat
  BY StoreAssumption DEF Amount
<1>n. /\ next.charged \in Amount(c) /\ next.signed \in Vouchers[c]
      /\ next.claimed \in Claimed /\ next.balance \in Balance
      /\ next.synced \in BOOLEAN
      /\ next.pending \in Reservation(c) \cup {NoReservation}
  BY DEF RowOf
<1>p. next.pending \in [signed : Nat, live : BOOLEAN] \cup {NoReservation}
  BY <1>v, <1>n DEF Reservation
<1>2. /\ next.charged \in Nat /\ next.signed \in Nat /\ next.claimed \in Nat
      /\ next.balance \in Nat /\ next.synced \in BOOLEAN
      /\ next.pending \in [signed : Nat, live : BOOLEAN] \cup {NoReservation}
  BY <1>v, <1>n, <1>p, StoreAssumption
<1>3. row = [charged |-> next.charged, signed |-> next.signed,
             claimed |-> next.claimed, balance |-> next.balance,
             synced |-> next.synced, pending |-> next.pending,
             rev |-> Rev(c) + 1]
  BY DEF RowOf
<1>4. row \in Row BY <1>2, <1>3, RevType DEF Row
<1>5. /\ row.charged = next.charged /\ row.signed = next.signed
      /\ row.claimed = next.claimed /\ row.balance = next.balance
      /\ row.synced = next.synced /\ row.pending = next.pending
      /\ row.rev = Rev(c) + 1
  BY <1>3
<1>. HIDE DEF row
<1>6. RowSound(row) /\ Storable(c)
  BY <1>1, <1>5 DEF RowAccepted, RowSound
<1>7. TransitionOk(rows[c], row)
  BY <1>1, <1>5 DEF RowAccepted, TransitionOk, CreateOk, ChargeConsumesPending, Live
<1>8. rows' = [rows EXCEPT ![c] = row] BY <1>1 DEF row
<1>. QED BY <1>4, <1>5, <1>6, <1>7, <1>8

LEMMA PutKeepsRows ==
  ASSUME RowsOk, NEW c \in Kept, NEW by, NEW e, Put(by, c, e)
  PROVE  /\ RowsOk' /\ RevOf(rows'[c]) = RevOf(rows[c]) + 1
         /\ \A d \in Kept \ {c} : rows'[d] = rows[d]
<1>1. PICK row \in Row :
           /\ rows' = [rows EXCEPT ![c] = row]
           /\ row.rev = Rev(c) + 1
           /\ RowSound(row) /\ Storable(c)
  BY PutFacts
<1>2. rows'[c] = row /\ \A d \in Kept \ {c} : rows'[d] = rows[d]
  BY <1>1 DEF RowsOk
<1>3. RowsOk' BY <1>1, <1>2 DEF RowsOk
<1>4. RevOf(rows'[c]) = RevOf(rows[c]) + 1
  BY <1>1, <1>2, RowAssumption DEF Rev, RevOf
<1>. QED BY <1>2, <1>3, <1>4

LEMMA RemoveKeepsRows ==
  ASSUME RowsOk, NEW c \in Kept, NEW by, NEW e, Remove(by, c, e)
  PROVE  RowsOk' /\ \A d \in Kept \ {c} : rows'[d] = rows[d]
BY DEF RowsOk, Remove

LEMMA ExpireFacts ==
  ASSUME RowsOk, NEW c \in Kept, Expire(c)
  PROVE  /\ rows'[c] \in Row /\ rows'[c].rev = rows[c].rev
         /\ rows'[c].charged = rows[c].charged
         /\ rows'[c].pending # rows[c].pending
         /\ RowsOk' /\ \A d \in Kept \ {c} : rows'[d] = rows[d]
<1>1. PICK row \in Row : row = rows[c] BY DEF Expire, RowsOk
<1>2. PICK p \in [signed : Nat, live : BOOLEAN] : p = row.pending /\ p.live
  BY <1>1 DEF Expire, Live, Row, NoReservation
<1>. DEFINE q == [p EXCEPT !.live = FALSE]
            new == [row EXCEPT !.pending = q]
<1>3. q \in [signed : Nat, live : BOOLEAN] /\ q.signed = p.signed /\ q # p
  BY <1>2
<1>. HIDE DEF q
<1>4. /\ new \in Row /\ new.rev = row.rev /\ new.pending = q
      /\ new.charged = row.charged /\ new.signed = row.signed
      /\ new.claimed = row.claimed /\ new.balance = row.balance
  BY <1>3 DEF Row
<1>5. rows' = [rows EXCEPT ![c] = new]
  BY <1>1, <1>2 DEF Expire, q
<1>6. row.pending # None BY <1>1 DEF Expire, Live
<1>7. RowSound(row) /\ Storable(c) BY <1>1, RowAssumption DEF RowsOk
<1>. HIDE DEF new
<1>8. RowSound(new) BY <1>2, <1>3, <1>4, <1>6, <1>7 DEF RowSound
<1>9. rows'[c] = new /\ \A d \in Kept \ {c} : rows'[d] = rows[d]
  BY <1>5 DEF RowsOk
<1>10. RowsOk' BY <1>4, <1>5, <1>7, <1>8, <1>9 DEF RowsOk
<1>. QED BY <1>1, <1>2, <1>3, <1>4, <1>9, <1>10

(* A write or a deletion marks the sessions that have read the row, and     *)
(* leaves what the others have read.                                        *)
LEMMA SessionsKept ==
  ASSUME SessionsFit, RowsOk, NEW c \in Kept, NEW saw \in {"written", "deleted"},
         saw = "written" => RevOf(rows'[c]) = RevOf(rows[c]) + 1,
         \A d \in Kept \ {c} : rows'[d] = rows[d],
         NEW T \in SUBSET Session,
         session' = [s \in Session |->
           IF s \in T THEN IdleSession
           ELSE IF session[s].channel = c /\ (saw = "written" => session[s].saw = "same")
           THEN [session[s] EXCEPT !.saw = saw] ELSE session[s]]
  PROVE  SessionsFit'
<1>1. ASSUME NEW s \in Session
      PROVE  /\ session'[s] \in Snapshot
             /\ session'[s].channel # None =>
                  Fits(session'[s], rows'[session'[s].channel])
  <2>1. PICK old \in Snapshot : old = session[s] BY DEF SessionsFit
  <2>2. old.channel # None => Fits(old, rows[old.channel])
    BY <2>1 DEF SessionsFit
  <2>3. CASE s \in T
    <3>1. session'[s] = IdleSession BY <2>3
    <3>. QED BY <3>1 DEF IdleSession, Snapshot
  <2>4. CASE /\ s \notin T /\ old.channel = c
             /\ saw = "written" => old.saw = "same"
    <3>1. session'[s] = [old EXCEPT !.saw = saw] BY <2>1, <2>4
    <3>2. /\ session'[s] \in Snapshot /\ session'[s].saw = saw
          /\ session'[s].rev = old.rev /\ session'[s].channel = c
          /\ old.rev \in Nat
      BY <2>4, <3>1 DEF Snapshot
    <3>3. c # None BY StoreAssumption
    <3>4. saw = "written" => old.rev = RevOf(rows[c])
      BY <2>2, <2>4, <3>3 DEF Fits
    <3>. QED BY <3>2, <3>4 DEF Fits
  <2>5. CASE s \notin T /\ old.channel # c
    <3>1. session'[s] = old BY <2>1, <2>5
    <3>2. old.channel # None => rows'[old.channel] = rows[old.channel]
      BY <2>5 DEF Snapshot
    <3>. QED BY <2>2, <3>1, <3>2
  <2>6. CASE /\ s \notin T /\ old.channel = c
             /\ saw = "written" /\ old.saw # "same"
    <3>1. session'[s] = old BY <2>1, <2>6
    <3>2. old.rev \in Nat BY DEF Snapshot
    <3>3. RevOf(rows[c]) \in Nat BY RowAssumption DEF RowsOk, RevOf, Row
    <3>4. c # None BY StoreAssumption
    <3>5. Fits(old, rows[c]) BY <2>2, <2>6, <3>4
    <3>6. Fits(old, rows'[c]) BY <2>6, <3>2, <3>3, <3>5 DEF Fits
    <3>. QED BY <2>6, <3>1, <3>6
  <2>. QED BY <2>3, <2>4, <2>5, <2>6
<1>2. session' \in [Session -> Snapshot]
  <2>1. \A s \in Session : session'[s] \in Snapshot BY <1>1
  <2>. QED BY <2>1
<1>. QED BY <1>1, <1>2 DEF SessionsFit
-----------------------------------------------------------------------------
(* The steps, by what they do to rows and sessions.                         *)

PutStep(by, c, e, T) ==
  /\ Put(by, c, e)
  /\ session' = [s \in Session |-> IF s \in T THEN IdleSession ELSE SawWrite(c)[s]]

RemoveStep(by, c, e, T) ==
  /\ Remove(by, c, e)
  /\ session' = [s \in Session |-> IF s \in T THEN IdleSession ELSE SawDelete(c)[s]]

LEMMA PutInvariant ==
  ASSUME StoreInv, NEW c \in Kept, NEW by, NEW e, NEW T \in SUBSET Session,
         PutStep(by, c, e, T)
  PROVE  StoreInv'
<1>1. /\ RowsOk' /\ RevOf(rows'[c]) = RevOf(rows[c]) + 1
      /\ \A d \in Kept \ {c} : rows'[d] = rows[d]
  BY PutKeepsRows DEF StoreInv, PutStep
<1>3. session' = [s \in Session |->
        IF s \in T THEN IdleSession
        ELSE IF session[s].channel = c /\ ("written" = "written" => session[s].saw = "same")
        THEN [session[s] EXCEPT !.saw = "written"] ELSE session[s]]
  BY DEF PutStep, SawWrite
<1>4. SessionsFit' BY <1>1, <1>3, SessionsKept DEF StoreInv
<1>. QED BY <1>1, <1>4 DEF StoreInv

LEMMA RemoveInvariant ==
  ASSUME StoreInv, NEW c \in Kept, NEW by, NEW e, NEW T \in SUBSET Session,
         RemoveStep(by, c, e, T)
  PROVE  StoreInv'
<1>1. RowsOk' /\ \A d \in Kept \ {c} : rows'[d] = rows[d]
  BY RemoveKeepsRows DEF StoreInv, RemoveStep
<1>2. session' = [s \in Session |->
        IF s \in T THEN IdleSession
        ELSE IF session[s].channel = c /\ ("deleted" = "written" => session[s].saw = "same")
        THEN [session[s] EXCEPT !.saw = "deleted"] ELSE session[s]]
  BY DEF RemoveStep, SawDelete
<1>3. SessionsFit' BY <1>1, <1>2, SessionsKept DEF StoreInv
<1>. QED BY <1>1, <1>3 DEF StoreInv

LEMMA WritesAreSteps ==
  ASSUME SessionsFit
  PROVE  /\ \A s \in Session, by \in Principal :
              /\ SessionPut(s, by) =>
                   session[s].channel \in Kept
                   /\ PutStep(by, session[s].channel, session[s].rev, {s})
              /\ SessionRemove(s, by) =>
                   session[s].channel \in Kept
                   /\ RemoveStep(by, session[s].channel, session[s].rev, {s})
         /\ \A by \in Principal, c \in Kept :
              /\ WritePut(by, c) => PutStep(by, c, Rev(c), {})
              /\ WriteRemove(by, c) => RemoveStep(by, c, Rev(c), {})
BY DEF SessionsFit, Snapshot, SessionPut, SessionRemove, WritePut, WriteRemove,
       PutStep, RemoveStep, SawWrite, SawDelete

LEMMA ReadInvariant ==
  ASSUME StoreInv, NEW s \in Session, NEW c \in Kept, Read(s, c)
  PROVE  StoreInv'
<1>1. Rev(c) \in Nat BY RevType DEF StoreInv
<1>2. RowsOk' BY DEF Read, StoreInv, RowsOk
<1>3. Rev(c) = RevOf(rows[c]) /\ rows' = rows BY DEF Read, Rev, RevOf
<1>4. SessionsFit' BY <1>1, <1>3 DEF Read, StoreInv, SessionsFit, Snapshot, Fits
<1>. QED BY <1>2, <1>4 DEF StoreInv

LEMMA ConflictInvariant ==
  ASSUME StoreInv, NEW s \in Session, SessionConflict(s)
  PROVE  StoreInv'
<1>1. RowsOk' BY DEF SessionConflict, StoreInv, RowsOk
<1>2. rows' = rows BY DEF SessionConflict
<1>3. SessionsFit'
  BY <1>2 DEF SessionConflict, StoreInv, SessionsFit, Snapshot, IdleSession
<1>. QED BY <1>1, <1>3 DEF StoreInv

LEMMA ExpireInvariant ==
  ASSUME StoreInv, NEW c \in Kept, Expire(c)
  PROVE  StoreInv'
<1>1. /\ RowsOk' /\ rows'[c] \in Row /\ rows'[c].rev = rows[c].rev
      /\ \A d \in Kept \ {c} : rows'[d] = rows[d]
  BY ExpireFacts DEF StoreInv
<1>2. \A d \in Kept : RevOf(rows'[d]) = RevOf(rows[d])
  <2>1. RevOf(rows'[c]) = RevOf(rows[c])
    BY <1>1, RowAssumption DEF RevOf, Expire
  <2>. QED BY <1>1, <2>1
<1>3. session' = session BY DEF Expire
<1>4. SessionsFit'
  BY <1>2, <1>3 DEF StoreInv, SessionsFit, Snapshot, Fits
<1>. QED BY <1>1, <1>4 DEF StoreInv

LEMMA StoreInvInit == StoreInit => StoreInv
<1>. SUFFICES ASSUME StoreInit PROVE StoreInv OBVIOUS
<1>1. RowsOk BY DEF StoreInit, RowsOk
<1>2. SessionsFit BY DEF StoreInit, SessionsFit, Snapshot, IdleSession
<1>. QED BY <1>1, <1>2 DEF StoreInv

LEMMA StoreInvStep == StoreInv /\ [StoreNext]_StoreVars => StoreInv'
<1>. SUFFICES ASSUME StoreInv, [StoreNext]_StoreVars PROVE StoreInv' OBVIOUS
<1>1. CASE UNCHANGED StoreVars
  BY <1>1 DEF StoreVars, StoreInv, RowsOk, SessionsFit
<1>2. CASE \E s \in Session, c \in Kept : Read(s, c) BY <1>2, ReadInvariant
<1>3. CASE \E s \in Session, by \in Principal :
             SessionPut(s, by) \/ SessionRemove(s, by)
  <2>1. PICK s \in Session, by \in Principal :
          SessionPut(s, by) \/ SessionRemove(s, by)
    BY <1>3
  <2>2. /\ session[s].channel \in Kept
        /\ \/ PutStep(by, session[s].channel, session[s].rev, {s})
           \/ RemoveStep(by, session[s].channel, session[s].rev, {s})
    BY <2>1, WritesAreSteps DEF StoreInv
  <2>. QED BY <2>2, PutInvariant, RemoveInvariant
<1>4. CASE \E s \in Session : SessionConflict(s) BY <1>4, ConflictInvariant
<1>5. CASE \E by \in Principal, c \in Kept : WritePut(by, c) \/ WriteRemove(by, c)
  <2>1. PICK by \in Principal, c \in Kept : WritePut(by, c) \/ WriteRemove(by, c)
    BY <1>5
  <2>2. PutStep(by, c, Rev(c), {}) \/ RemoveStep(by, c, Rev(c), {})
    BY <2>1, WritesAreSteps DEF StoreInv
  <2>. QED BY <2>2, PutInvariant, RemoveInvariant
<1>6. CASE \E c \in Kept : Expire(c) BY <1>6, ExpireInvariant
<1>7. CASE Administer
  BY <1>7 DEF Administer, StoreInv, RowsOk, SessionsFit
<1>. QED BY <1>1, <1>2, <1>3, <1>4, <1>5, <1>6, <1>7 DEF StoreNext

(* Stored rows are always sound and every session knows how its revision    *)
(* stands to the row (batch.rs 724-870, lib.rs 5515-5613).                  *)
THEOREM StoreInvariant == StoreSpec => []StoreInv
BY StoreInvInit, StoreInvStep, PTL DEF StoreSpec
-----------------------------------------------------------------------------
(* What the rest of a step does when a session is given up.                 *)
SawItsRowStep ==
  \A s \in Session :
    /\ session[s].channel # None /\ session'[s] = IdleSession
    /\ rows'[session[s].channel] # rows[session[s].channel]
    => session[s].saw # "written"

LEMMA StaleRefused ==
  ASSUME StoreInv, NEW c \in Kept, NEW by, NEW e, NEW T \in SUBSET Session,
         PutStep(by, c, e, T) \/ RemoveStep(by, c, e, T),
         \A s \in T : session[s].channel = c /\ session[s].rev = e
  PROVE  SawItsRowStep
<1>. SUFFICES ASSUME NEW s \in Session,
                     session[s].channel # None, session'[s] = IdleSession,
                     session[s].saw = "written"
              PROVE  FALSE
  BY DEF SawItsRowStep
<1>1. /\ session[s].channel \in Kept /\ session[s].rev \in Nat
      /\ session[s].rev < Rev(session[s].channel)
  BY DEF StoreInv, SessionsFit, Snapshot, Fits, Rev, RevOf
<1>2. e = Rev(c) BY DEF PutStep, RemoveStep, Put, Remove, RevisionMatches
<1>3. CASE s \in T BY <1>1, <1>2, <1>3, RevType DEF StoreInv
<1>4. CASE s \notin T
  <2>1. session'[s].channel = session[s].channel
    BY <1>4 DEF PutStep, RemoveStep, SawWrite, SawDelete, StoreInv, SessionsFit,
                   Snapshot
  <2>. QED BY <2>1 DEF IdleSession
<1>. QED BY <1>3, <1>4

LEMMA SawItsRowNext == StoreInv /\ StoreNext => SawItsRowStep
<1>. SUFFICES ASSUME StoreInv, StoreNext PROVE SawItsRowStep OBVIOUS
<1>1. CASE \E s \in Session, c \in Kept : Read(s, c)
  BY <1>1 DEF Read, SawItsRowStep
<1>2. CASE \E s \in Session, by \in Principal :
             SessionPut(s, by) \/ SessionRemove(s, by)
  <2>1. PICK s \in Session, by \in Principal :
          SessionPut(s, by) \/ SessionRemove(s, by)
    BY <1>2
  <2>2. /\ session[s].channel \in Kept
        /\ \/ PutStep(by, session[s].channel, session[s].rev, {s})
           \/ RemoveStep(by, session[s].channel, session[s].rev, {s})
    BY <2>1, WritesAreSteps DEF StoreInv
  <2>. QED BY <2>2, StaleRefused
<1>3. CASE \E s \in Session : SessionConflict(s)
  BY <1>3 DEF SessionConflict, SawItsRowStep
<1>4. CASE \E by \in Principal, c \in Kept : WritePut(by, c) \/ WriteRemove(by, c)
  <2>1. PICK by \in Principal, c \in Kept : WritePut(by, c) \/ WriteRemove(by, c)
    BY <1>4
  <2>2. PutStep(by, c, Rev(c), {}) \/ RemoveStep(by, c, Rev(c), {})
    BY <2>1, WritesAreSteps DEF StoreInv
  <2>. QED BY <2>2, StaleRefused
<1>5. CASE \E c \in Kept : Expire(c)
  BY <1>5 DEF Expire, SawItsRowStep, IdleSession
<1>6. CASE Administer BY <1>6 DEF Administer, SawItsRowStep
<1>. QED BY <1>1, <1>2, <1>3, <1>4, <1>5, <1>6 DEF StoreNext

(* A session never overwrites a row that somebody wrote since it was read,  *)
(* unless the row was deleted in between (lib.rs 5515-5613).                *)
THEOREM NoLostUpdate == StoreSpec => SawItsRow
<1>1. StoreInv /\ [StoreNext]_StoreVars =>
        [\A s \in Session :
           /\ session[s].channel # None /\ session'[s] = IdleSession
           /\ rows'[session[s].channel] # rows[session[s].channel]
           => session[s].saw # "written"]_StoreVars
  BY SawItsRowNext DEF SawItsRowStep
<1>. QED BY <1>1, StoreInvariant, PTL DEF StoreSpec, SawItsRow
-----------------------------------------------------------------------------
(* Disabled sellers.                                                        *)
Changed(c) ==
  \/ rows[c] = None /\ rows'[c] # None
  \/ rows[c] # None /\ (rows'[c] = None \/ rows'[c].rev # rows[c].rev)

LEMMA WriterAllowed ==
  ASSUME StoreInv, NEW c \in Kept, NEW by, NEW e,
         Put(by, c, e) \/ Remove(by, c, e)
  PROVE  \A d \in Kept :
           Changed(d) /\ sellers[Config[d].receiver] = "disabled"
           => lastBy' = Controller
<1>1. \A d \in Kept \ {c} : rows'[d] = rows[d]
  BY PutKeepsRows, RemoveKeepsRows DEF StoreInv
<1>2. sellers[Config[c].receiver] = "disabled" => lastBy' = Controller
  BY DEF Put, Remove, Authorized, ScopeEnabled
<1>. QED BY <1>1, <1>2 DEF Changed

(* A step writes one row, lets one reservation expire, or leaves the rows.  *)
LEMMA StepKinds ==
  ASSUME StoreInv, StoreNext
  PROVE  \/ rows' = rows
         \/ \E c \in Kept : Expire(c)
         \/ \E c \in Kept, by \in Principal, e \in Nat :
              Put(by, c, e) \/ Remove(by, c, e)
<1>1. CASE \E s \in Session, c \in Kept : Read(s, c) BY <1>1 DEF Read
<1>2. CASE \E s \in Session, by \in Principal :
             SessionPut(s, by) \/ SessionRemove(s, by)
  <2>1. PICK s \in Session, by \in Principal :
          SessionPut(s, by) \/ SessionRemove(s, by)
    BY <1>2
  <2>2. session[s].rev \in Nat BY DEF StoreInv, SessionsFit, Snapshot
  <2>3. /\ session[s].channel \in Kept
        /\ \/ Put(by, session[s].channel, session[s].rev)
           \/ Remove(by, session[s].channel, session[s].rev)
    BY <2>1, WritesAreSteps DEF StoreInv, PutStep, RemoveStep
  <2>. QED BY <2>2, <2>3
<1>3. CASE \E s \in Session : SessionConflict(s) BY <1>3 DEF SessionConflict
<1>4. CASE \E by \in Principal, c \in Kept : WritePut(by, c) \/ WriteRemove(by, c)
  <2>1. PICK by \in Principal, c \in Kept : WritePut(by, c) \/ WriteRemove(by, c)
    BY <1>4
  <2>2. Rev(c) \in Nat BY RevType DEF StoreInv
  <2>. QED BY <2>1, <2>2 DEF WritePut, WriteRemove
<1>5. CASE Administer BY <1>5 DEF Administer
<1>. QED BY <1>1, <1>2, <1>3, <1>4, <1>5 DEF StoreNext

LEMMA DisabledFrozenNext ==
  ASSUME StoreInv, StoreNext
  PROVE  \A c \in Kept :
           Changed(c) /\ sellers[Config[c].receiver] = "disabled"
           => lastBy' = Controller
<1>1. CASE rows' = rows BY <1>1 DEF Changed
<1>2. CASE \E c \in Kept : Expire(c)
  <2>1. PICK c \in Kept : Expire(c) BY <1>2
  <2>2. /\ rows[c] # None /\ rows'[c] # None /\ rows'[c].rev = rows[c].rev
        /\ \A d \in Kept \ {c} : rows'[d] = rows[d]
    BY <2>1, ExpireFacts, RowAssumption DEF StoreInv, Expire
  <2>. QED BY <2>2 DEF Changed
<1>3. CASE \E c \in Kept, by \in Principal, e \in Nat :
             Put(by, c, e) \/ Remove(by, c, e)
  BY <1>3, WriterAllowed
<1>. QED BY <1>1, <1>2, <1>3, StepKinds

(* Once a seller is disabled nobody but a controller writes or deletes its  *)
(* channels (lib.rs 1026-1045, 1337-1367).                                  *)
THEOREM FrozenWhenDisabled == StoreSpec => DisabledFrozen
<1>1. StoreInv /\ [StoreNext]_StoreVars =>
        [\A c \in Kept :
           /\ \/ rows[c] = None /\ rows'[c] # None
              \/ rows[c] # None /\ (rows'[c] = None \/ rows'[c].rev # rows[c].rev)
           /\ sellers[Config[c].receiver] = "disabled"
           => lastBy' = Controller]_StoreVars
  BY DisabledFrozenNext DEF Changed
<1>. QED BY <1>1, StoreInvariant, PTL DEF StoreSpec, DisabledFrozen
-----------------------------------------------------------------------------
(* What /verify promises about a row, and what a later write may not undo.  *)

LEMMA VerifiedChargeableInv == StoreInv => VerifiedChargeable
<1>. SUFFICES ASSUME StoreInv, NEW q \in Offered,
                     q.payload.kind \in {"deposit", "voucher"},
                     VerifyAccepts(q, rows[q.payload.channelConfig], 0),
                     rows[q.payload.channelConfig].signed <= q.payload.voucher.max
              PROVE  RowAccepted(q.payload.channelConfig,
                                 rows[q.payload.channelConfig],
                                 Charge(rows[q.payload.channelConfig],
                                        q.payload.voucher.max))
  BY DEF VerifiedChargeable
<1>1. PICK c \in Kept : c = q.payload.channelConfig BY OfferedAssumption
<1>2. PICK row \in Row : row = rows[c] /\ RowSound(row) /\ Storable(c)
  BY <1>1, RowAssumption DEF StoreInv, RowsOk, VerifyAccepts
<1>3. PICK max \in Nat : max = q.payload.voucher.max
                        /\ Live(row) /\ row.pending.signed = max
  BY <1>1, <1>2 DEF VerifyAccepts, PendingOk, Row, NoReservation, Live
<1>4. row.claimed <= max /\ row.signed <= max /\ row.charged <= max
  <2>1. row.claimed \in Nat BY DEF Row
  <2>2. row.claimed < max
    BY <1>1, <1>2, <1>3 DEF VerifyAccepts, SnapshotOk
  <2>. QED BY <1>1, <1>2, <1>3, <2>1, <2>2 DEF RowSound, Live
<1>. DEFINE next == Charge(row, max)
<1>5. /\ next.charged = max /\ next.signed = max /\ next.claimed = row.claimed
      /\ next.balance = row.balance /\ next.pending = None
  BY DEF Charge, Row
<1>. HIDE DEF next
<1>6. RowSound(next) BY <1>2, <1>4, <1>5 DEF RowSound
<1>7. row # None BY RowAssumption
<1>8. TransitionOk(row, next)
  BY <1>3, <1>4, <1>5, <1>7 DEF TransitionOk, ChargeConsumesPending, Row
<1>9. RowAccepted(c, row, next) BY <1>2, <1>6, <1>8 DEF RowAccepted
<1>. QED BY <1>1, <1>2, <1>3, <1>9 DEF next

(* What /verify calls valid can be charged while its reservation lives      *)
(* (lib.rs 1829-1868, batch.rs 772-870).                                    *)
THEOREM VerifyKeepsPromise == StoreSpec => []VerifiedChargeable
BY StoreInvariant, VerifiedChargeableInv, PTL

LEMMA ChargeNeedsReservation ==
  ASSUME StoreInv, StoreNext, NEW c \in Kept,
         rows[c] # None, rows'[c] # None, rows'[c].pending = rows[c].pending
  PROVE  rows'[c].charged = rows[c].charged
<1>1. CASE rows' = rows BY <1>1
<1>2. CASE \E d \in Kept : Expire(d)
  BY <1>2, ExpireFacts DEF StoreInv
<1>3. CASE \E d \in Kept, by \in Principal, e \in Nat :
             Put(by, d, e) \/ Remove(by, d, e)
  <2>1. PICK d \in Kept, by \in Principal, e \in Nat :
          Put(by, d, e) \/ Remove(by, d, e)
    BY <1>3
  <2>2. CASE d # c
    BY <2>1, <2>2, PutKeepsRows, RemoveKeepsRows DEF StoreInv
  <2>3. CASE d = c
    <3>1. Put(by, c, e)
      BY <2>1, <2>3 DEF Remove, StoreInv, RowsOk
    <3>2. PICK row \in Row : /\ rows' = [rows EXCEPT ![c] = row]
                             /\ TransitionOk(rows[c], row)
      BY <3>1, PutFacts DEF StoreInv
    <3>3. PICK old \in Row : old = rows[c] BY DEF StoreInv, RowsOk
    <3>4. row = rows'[c] BY <3>2 DEF StoreInv, RowsOk
    <3>5. row.charged >= old.charged /\ ChargeConsumesPending(old, row)
      BY <3>2, <3>3 DEF TransitionOk
    <3>6. ~(row.charged > old.charged)
      BY <3>3, <3>4, <3>5 DEF ChargeConsumesPending, Live
    <3>7. row.charged \in Nat /\ old.charged \in Nat BY DEF Row
    <3>. QED BY <3>3, <3>4, <3>5, <3>6, <3>7
  <2>. QED BY <2>2, <2>3
<1>. QED BY <1>1, <1>2, <1>3, StepKinds

LEMMA VerifiedDepositSettles ==
  ASSUME NEW q, NEW row, q.payload.kind = "deposit", VerifyAccepts(q, row, 0)
  PROVE  SettleAccepts(q, row.charged, 0)
BY DEF VerifyAccepts, SettleAccepts, AuthorizersOk

(* A verified deposit stays settleable while its reservation is left alone  *)
(* (lib.rs 2312-2322, batch.rs 844-870).                                    *)
THEOREM DepositsStaySettleable == StoreSpec => DepositStaysSettleable
<1>1. StoreInv /\ [StoreNext]_StoreVars =>
        [\A c \in Kept :
           /\ rows[c] # None /\ rows'[c] # None /\ rows'[c] # rows[c]
           /\ rows'[c].pending = rows[c].pending
           => \A q \in Offered :
                /\ q.payload.kind = "deposit" /\ q.payload.channelConfig = c
                /\ VerifyAccepts(q, rows[c], 0)
                => SettleAccepts(q, rows'[c].charged, 0)]_StoreVars
  BY ChargeNeedsReservation, VerifiedDepositSettles
<1>. QED BY <1>1, StoreInvariant, PTL DEF StoreSpec, DepositStaysSettleable
-----------------------------------------------------------------------------
(* Types and limits.  The canister never looks at the number of rows while  *)
(* it writes one it already has, so the limit needs the number to move by   *)
(* one at most with every write.                                            *)

RowTyped(c, row) ==
  /\ [row EXCEPT !.rev = 0] \in RowOf(c) /\ RowSound(row)
  /\ row.rev \in 1..MaxRevision

RowsTyped == \A c \in Kept : rows[c] # None => RowTyped(c, rows[c])

RowsBounded == IsFiniteSet(StoredRows) /\ Cardinality(StoredRows) <= MaxStored

LogTyped == deleted \in Seq(Kept) /\ Len(deleted) <= MaxStored

SessionsTyped ==
  session \in [Session -> [channel : Kept \cup {None}, rev : 0..MaxRevision,
                           saw : {"same", "written", "deleted"}]]

WriterTyped == lastBy \in Principal \cup {None}

StoreTyped ==
  SellersTypeOK /\ RowsTyped /\ RowsBounded /\ LogTyped /\ SessionsTyped /\ WriterTyped

LEMMA StoreTypedIsTypeOK == StoreTyped => StoreTypeOK
BY DEF StoreTyped, StoreTypeOK, RowsTyped, RowTyped, RowsBounded, LogTyped,
       SessionsTyped, WriterTyped

(* The audit log of deletions never outgrows its limit: the entry that has  *)
(* to go goes before the new one comes (put_batch_deleted_channel).         *)
LEMMA LoggedTyped ==
  ASSUME LogTyped, NEW c \in Kept
  PROVE  Logged(c) \in Seq(Kept) /\ Len(Logged(c)) <= MaxStored
<1>. DEFINE without(i) == SubSeq(deleted, 1, i - 1) \o SubSeq(deleted, i + 1, Len(deleted))
            earlier == {i \in DOMAIN deleted : deleted[i] = c}
            slot == CHOOSE i \in earlier : TRUE
<1>1. deleted \in Seq(Kept) /\ Len(deleted) \in Nat /\ Len(deleted) <= MaxStored
      /\ MaxStored \in Nat \ {0}
  BY StoreAssumption DEF LogTyped
<1>2. CASE earlier # {}
  <2>1. slot \in 1..Len(deleted) BY <1>1, <1>2
  <2>2. PICK i \in 1..Len(deleted) : i = slot BY <2>1
  <2>3. without(i) \in Seq(Kept) /\ Len(without(i)) = Len(deleted) - 1
    <3>1. /\ SubSeq(deleted, 1, i - 1) \in Seq(Kept)
          /\ Len(SubSeq(deleted, 1, i - 1)) = i - 1
      BY <1>1
    <3>2. /\ SubSeq(deleted, i + 1, Len(deleted)) \in Seq(Kept)
          /\ Len(SubSeq(deleted, i + 1, Len(deleted))) = Len(deleted) - i
      BY <1>1
    <3>3. \A a, b \in Seq(Kept) : a \o b \in Seq(Kept) /\ Len(a \o b) = Len(a) + Len(b)
      OBVIOUS
    <3>4. i \in Nat /\ (i - 1) + (Len(deleted) - i) = Len(deleted) - 1 BY <1>1, <2>2
    <3>. QED BY <3>1, <3>2, <3>3, <3>4
  <2>4. Logged(c) = Append(without(i), c) BY <1>2, <2>2 DEF Logged
  <2>. HIDE DEF without, earlier, slot
  <2>. QED BY <1>1, <2>3, <2>4
<1>3. CASE earlier = {} /\ Len(deleted) >= MaxStored
  <2>1. Logged(c) = Append(Tail(deleted), c) BY <1>3 DEF Logged
  <2>2. deleted # <<>> BY <1>1, <1>3
  <2>3. Tail(deleted) \in Seq(Kept) /\ Len(Tail(deleted)) = Len(deleted) - 1
    BY <1>1, <2>2
  <2>. QED BY <1>1, <2>1, <2>3
<1>4. CASE earlier = {} /\ ~(Len(deleted) >= MaxStored)
  <2>1. Logged(c) = Append(deleted, c) BY <1>4 DEF Logged
  <2>. QED BY <1>1, <1>4, <2>1
<1>. QED BY <1>2, <1>3, <1>4

LEMMA RevTyped ==
  ASSUME RowsOk, RowsTyped, NEW c \in Kept
  PROVE  Rev(c) \in 0..MaxRevision
<1>1. Rev(c) \in Nat /\ MaxRevision \in Nat BY RevType, StoreAssumption
<1>2. rows[c] # None => rows[c].rev \in 1..MaxRevision BY DEF RowsTyped, RowTyped
<1>. QED BY <1>1, <1>2 DEF Rev

(* Sessions that are marked or given up stay sessions.                      *)
LEMMA MarkedTyped ==
  ASSUME SessionsTyped, NEW T \in SUBSET Session, NEW c \in Kept,
         NEW new, new = SawWrite(c) \/ new = SawDelete(c),
         session' = [s \in Session |-> IF s \in T THEN IdleSession ELSE new[s]]
  PROVE  SessionsTyped'
<1>. DEFINE Typed == [channel : Kept \cup {None}, rev : 0..MaxRevision,
                      saw : {"same", "written", "deleted"}]
<1>1. IdleSession \in Typed BY StoreAssumption DEF IdleSession
<1>2. \A s \in Session : new[s] \in Typed
  <2>. SUFFICES ASSUME NEW s \in Session PROVE new[s] \in Typed OBVIOUS
  <2>1. session[s] \in Typed BY DEF SessionsTyped
  <2>2. /\ [session[s] EXCEPT !.saw = "written"] \in Typed
        /\ [session[s] EXCEPT !.saw = "deleted"] \in Typed
    BY <2>1
  <2>3. \/ new[s] = session[s]
        \/ new[s] = [session[s] EXCEPT !.saw = "written"]
        \/ new[s] = [session[s] EXCEPT !.saw = "deleted"]
    BY DEF SawWrite, SawDelete
  <2>. HIDE DEF Typed
  <2>. QED BY <2>1, <2>2, <2>3
<1>3. \A s \in Session : session'[s] \in Typed BY <1>1, <1>2
<1>. HIDE DEF Typed
<1>4. session' \in [Session -> Typed] BY <1>3
<1>. QED BY <1>4 DEF SessionsTyped, Typed

LEMMA PutTyped ==
  ASSUME StoreInv, StoreTyped, NEW c \in Kept, NEW by \in Principal, NEW e,
         NEW T \in SUBSET Session, PutStep(by, c, e, T)
  PROVE  StoreTyped'
<1>. RowsOk /\ Put(by, c, e) BY DEF StoreInv, PutStep
<1>1. PICK next \in RowOf(c) :
        /\ RowAccepted(c, rows[c], next)
        /\ rows' = [rows EXCEPT ![c] = [next EXCEPT !.rev = Rev(c) + 1]]
  BY DEF Put
<1>. DEFINE row == [next EXCEPT !.rev = Rev(c) + 1]
<1>2. RowTyped(c, row)
  <2>1. Rev(c) \in 0..MaxRevision /\ Rev(c) < MaxRevision /\ MaxRevision \in Nat
    BY RevTyped, StoreAssumption DEF Put, StoreTyped
  <2>2. Rev(c) + 1 \in 1..MaxRevision BY <2>1
  <2>3. next = [charged |-> next.charged, signed |-> next.signed,
                claimed |-> next.claimed, balance |-> next.balance,
                synced |-> next.synced, pending |-> next.pending, rev |-> 0]
    BY DEF RowOf
  <2>4. row = [charged |-> next.charged, signed |-> next.signed,
               claimed |-> next.claimed, balance |-> next.balance,
               synced |-> next.synced, pending |-> next.pending,
               rev |-> Rev(c) + 1]
    BY DEF RowOf
  <2>. HIDE DEF row
  <2>5. [row EXCEPT !.rev = 0] =
          [charged |-> next.charged, signed |-> next.signed,
           claimed |-> next.claimed, balance |-> next.balance,
           synced |-> next.synced, pending |-> next.pending, rev |-> 0]
    BY <2>4
  <2>6. [row EXCEPT !.rev = 0] = next BY <2>3, <2>5
  <2>7. /\ row.rev = Rev(c) + 1
        /\ row.charged = next.charged /\ row.signed = next.signed
        /\ row.claimed = next.claimed /\ row.balance = next.balance
        /\ row.pending = next.pending
    BY <2>4
  <2>8. RowSound(row) BY <1>1, <2>7 DEF RowAccepted, RowSound
  <2>. QED BY <2>2, <2>6, <2>7, <2>8 DEF RowTyped
<1>. HIDE DEF row
<1>3. /\ rows'[c] = row /\ rows'[c] # None
      /\ \A d \in Kept \ {c} : rows'[d] = rows[d]
  <2>1. PICK stored \in Row : rows' = [rows EXCEPT ![c] = stored] BY PutFacts
  <2>2. rows'[c] = stored /\ stored # None BY <2>1, RowAssumption DEF RowsOk
  <2>. QED BY <1>1, <2>2 DEF row, RowsOk
<1>4. RowsTyped'
  <2>. SUFFICES ASSUME NEW d \in Kept, rows'[d] # None
                PROVE  RowTyped(d, rows'[d])
    BY DEF RowsTyped, RowTyped, RowSound, RowOf, Amount, Reservation, NoReservation
  <2>. QED BY <1>2, <1>3 DEF StoreTyped, RowsTyped
<1>5. RowsBounded'
  <2>1. StoredRows' = StoredRows \cup {c} BY <1>3 DEF StoredRows
  <2>2. /\ IsFiniteSet(StoredRows') 
        /\ Cardinality(StoredRows') =
             IF c \in StoredRows THEN Cardinality(StoredRows)
             ELSE Cardinality(StoredRows) + 1
    BY <2>1, FS_AddElement DEF StoreTyped, RowsBounded
  <2>3. Cardinality(StoredRows) \in Nat /\ MaxStored \in Nat
    BY FS_CardinalityType, StoreAssumption DEF StoreTyped, RowsBounded
  <2>4. c \in StoredRows \/ Cardinality(StoredRows) < MaxStored
    BY DEF Put, CanPut, StoredRows
  <2>. QED BY <2>2, <2>3, <2>4 DEF StoreTyped, RowsBounded
<1>6. SessionsTyped'
  BY MarkedTyped DEF PutStep, StoreTyped
<1>7. SellersTypeOK' /\ LogTyped' /\ WriterTyped'
  BY DEF Put, SellerVars, StoreTyped, SellersTypeOK, LogTyped, WriterTyped, Principal
<1>. QED BY <1>4, <1>5, <1>6, <1>7 DEF StoreTyped

LEMMA RemoveTyped ==
  ASSUME StoreInv, StoreTyped, NEW c \in Kept, NEW by \in Principal, NEW e,
         NEW T \in SUBSET Session, RemoveStep(by, c, e, T)
  PROVE  StoreTyped'
<1>. RowsOk /\ Remove(by, c, e) BY DEF StoreInv, RemoveStep
<1>1. /\ rows' = [rows EXCEPT ![c] = None] /\ rows[c] # None
      /\ deleted' = Logged(c) /\ lastBy' = by /\ UNCHANGED <<sellers, scopes>>
  BY DEF Remove, SellerVars
<1>2. rows'[c] = None /\ \A d \in Kept \ {c} : rows'[d] = rows[d]
  BY <1>1 DEF RowsOk
<1>3. RowsTyped'
  <2>. SUFFICES ASSUME NEW d \in Kept, rows'[d] # None
                PROVE  RowTyped(d, rows'[d])
    BY DEF RowsTyped, RowTyped, RowSound, RowOf, Amount, Reservation, NoReservation
  <2>. QED BY <1>2 DEF StoreTyped, RowsTyped
<1>4. RowsBounded'
  <2>1. StoredRows' = StoredRows \ {c} BY <1>2 DEF StoredRows
  <2>2. /\ IsFiniteSet(StoredRows')
        /\ Cardinality(StoredRows') =
             IF c \in StoredRows THEN Cardinality(StoredRows) - 1
             ELSE Cardinality(StoredRows)
    BY <2>1, FS_RemoveElement DEF StoreTyped, RowsBounded
  <2>3. Cardinality(StoredRows) \in Nat /\ MaxStored \in Nat
    BY FS_CardinalityType, StoreAssumption DEF StoreTyped, RowsBounded
  <2>. QED BY <2>2, <2>3 DEF StoreTyped, RowsBounded
<1>5. SessionsTyped' BY MarkedTyped DEF RemoveStep, StoreTyped
<1>6. LogTyped' BY <1>1, LoggedTyped DEF StoreTyped, LogTyped
<1>7. SellersTypeOK' /\ WriterTyped'
  BY <1>1 DEF StoreTyped, SellersTypeOK, WriterTyped, Principal
<1>. QED BY <1>3, <1>4, <1>5, <1>6, <1>7 DEF StoreTyped

LEMMA ExpireTyped ==
  ASSUME StoreInv, StoreTyped, NEW c \in Kept, Expire(c)
  PROVE  StoreTyped'
<1>. RowsOk /\ RowsTyped BY DEF StoreInv, StoreTyped
<1>1. /\ rows[c] # None /\ Live(rows[c]) /\ RowTyped(c, rows[c])
      /\ rows' = [rows EXCEPT ![c].pending.live = FALSE]
      /\ rows[c] \in Row /\ rows'[c] \in Row
      /\ \A d \in Kept \ {c} : rows'[d] = rows[d]
  BY ExpireFacts, RowAssumption DEF Expire, RowsTyped, RowsOk
<1>2. PICK row \in Row : row = rows[c] BY <1>1
<1>. DEFINE q == [row.pending EXCEPT !.live = FALSE]
            new == [row EXCEPT !.pending = q]
            base == [row EXCEPT !.rev = 0]
<1>3. rows'[c] = new BY <1>1, <1>2 DEF RowsOk
<1>4. base \in RowOf(c) /\ row.pending # None BY <1>1, <1>2 DEF RowTyped, Live
<1>5. row = [charged |-> row.charged, signed |-> row.signed,
             claimed |-> row.claimed, balance |-> row.balance,
             synced |-> row.synced, pending |-> row.pending, rev |-> row.rev]
  BY DEF Row
<1>a. base = [charged |-> row.charged, signed |-> row.signed,
              claimed |-> row.claimed, balance |-> row.balance,
              synced |-> row.synced, pending |-> row.pending, rev |-> 0]
  BY <1>5
<1>b. new = [charged |-> row.charged, signed |-> row.signed,
             claimed |-> row.claimed, balance |-> row.balance,
             synced |-> row.synced, pending |-> q, rev |-> row.rev]
  <2>. HIDE DEF q
  <2>. QED BY <1>5
<1>6. row.pending \in Reservation(c) /\ q \in Reservation(c) /\ q.signed = row.pending.signed
  <2>1. row.pending \in Reservation(c) BY <1>4, <1>a DEF RowOf, NoReservation
  <2>. QED BY <2>1 DEF Reservation
<1>. HIDE DEF q, new, base
<1>7. [new EXCEPT !.rev = 0] = [charged |-> row.charged, signed |-> row.signed,
                 claimed |-> row.claimed, balance |-> row.balance,
                 synced |-> row.synced, pending |-> q, rev |-> 0]
  BY <1>b
<1>8. [new EXCEPT !.rev = 0] \in RowOf(c) BY <1>4, <1>a, <1>6, <1>7 DEF RowOf
<1>9. /\ new.charged = row.charged /\ new.signed = row.signed
      /\ new.claimed = row.claimed /\ new.balance = row.balance
      /\ new.pending = q /\ new.rev = row.rev
  BY <1>b
<1>10. RowTyped(c, new)
  BY <1>1, <1>2, <1>4, <1>6, <1>8, <1>9 DEF RowTyped, RowSound
<1>11. RowsTyped'
  <2>. SUFFICES ASSUME NEW d \in Kept, rows'[d] # None
                PROVE  RowTyped(d, rows'[d])
    BY DEF RowsTyped, RowTyped, RowSound, RowOf, Amount, Reservation, NoReservation
  <2>. QED BY <1>1, <1>3, <1>10 DEF RowsTyped
<1>12. StoredRows' = StoredRows
  <2>1. rows'[c] # None BY <1>1, RowAssumption
  <2>. QED BY <1>1, <2>1 DEF StoredRows
<1>. QED
  BY <1>11, <1>12 DEF Expire, SellerVars, StoreTyped, SellersTypeOK, RowsBounded,
                      LogTyped, SessionsTyped, WriterTyped, Principal

LEMMA SellersTyped ==
  ASSUME SellersTypeOK, SellersNext
  PROVE  SellersTypeOK'
BY DEF SellersTypeOK, SellersNext, SetSeller, SetScope

(* A step that leaves the rows, the deletions and the sellers.              *)
LEMMA SessionStepTyped ==
  ASSUME StoreTyped, UNCHANGED <<rows, deleted, lastBy, sellers, scopes>>,
         SessionsTyped'
  PROVE  StoreTyped'
<1>1. RowsTyped'
  BY DEF StoreTyped, RowsTyped, RowTyped, RowSound, RowOf, Amount, Reservation,
         NoReservation
<1>2. RowsBounded' BY DEF StoreTyped, RowsBounded, StoredRows
<1>. QED
  BY <1>1, <1>2 DEF StoreTyped, SellersTypeOK, LogTyped, WriterTyped, Principal

LEMMA StoreTypedInit == StoreInit => StoreTyped
<1>. SUFFICES ASSUME StoreInit PROVE StoreTyped OBVIOUS
<1>1. StoredRows = {} /\ RowsTyped BY DEF StoreInit, StoredRows, RowsTyped
<1>2. RowsBounded BY <1>1, FS_EmptySet, StoreAssumption DEF RowsBounded
<1>3. LogTyped BY StoreAssumption DEF StoreInit, LogTyped
<1>4. SessionsTyped BY StoreAssumption DEF StoreInit, SessionsTyped, IdleSession
<1>5. SellersTypeOK /\ WriterTyped
  BY DEF StoreInit, SellersInit, SellersTypeOK, WriterTyped
<1>. QED BY <1>1, <1>2, <1>3, <1>4, <1>5 DEF StoreTyped

LEMMA StoreTypedStep == StoreInv /\ StoreTyped /\ [StoreNext]_StoreVars => StoreTyped'
<1>. SUFFICES ASSUME StoreInv, StoreTyped, [StoreNext]_StoreVars PROVE StoreTyped'
  OBVIOUS
<1>1. CASE UNCHANGED StoreVars
  BY <1>1, SessionStepTyped DEF StoreVars, StoreTyped, SessionsTyped
<1>2. CASE \E s \in Session, c \in Kept : Read(s, c)
  <2>. PICK s \in Session, c \in Kept : Read(s, c) BY <1>2
  <2>1. Rev(c) \in 0..MaxRevision BY RevTyped DEF StoreInv, StoreTyped
  <2>2. SessionsTyped' BY <2>1 DEF Read, StoreTyped, SessionsTyped
  <2>. QED BY <2>2, SessionStepTyped DEF Read, SellerVars
<1>3. CASE \E s \in Session, by \in Principal :
             SessionPut(s, by) \/ SessionRemove(s, by)
  <2>1. PICK s \in Session, by \in Principal :
          SessionPut(s, by) \/ SessionRemove(s, by)
    BY <1>3
  <2>2. /\ session[s].channel \in Kept
        /\ \/ PutStep(by, session[s].channel, session[s].rev, {s})
           \/ RemoveStep(by, session[s].channel, session[s].rev, {s})
    BY <2>1, WritesAreSteps DEF StoreInv
  <2>. QED BY <2>2, PutTyped, RemoveTyped
<1>4. CASE \E s \in Session : SessionConflict(s)
  <2>. PICK s \in Session : SessionConflict(s) BY <1>4
  <2>1. IdleSession \in [channel : Kept \cup {None}, rev : 0..MaxRevision,
                         saw : {"same", "written", "deleted"}]
    BY StoreAssumption DEF IdleSession
  <2>2. SessionsTyped' BY <2>1 DEF SessionConflict, StoreTyped, SessionsTyped
  <2>. QED BY <2>2, SessionStepTyped DEF SessionConflict, SellerVars
<1>5. CASE \E by \in Principal, c \in Kept : WritePut(by, c) \/ WriteRemove(by, c)
  <2>1. PICK by \in Principal, c \in Kept : WritePut(by, c) \/ WriteRemove(by, c)
    BY <1>5
  <2>2. PutStep(by, c, Rev(c), {}) \/ RemoveStep(by, c, Rev(c), {})
    BY <2>1, WritesAreSteps DEF StoreInv
  <2>. QED BY <2>2, PutTyped, RemoveTyped
<1>6. CASE \E c \in Kept : Expire(c) BY <1>6, ExpireTyped
<1>7. CASE Administer
  <2>1. RowsTyped'
    BY <1>7 DEF Administer, StoreTyped, RowsTyped, RowTyped, RowSound, RowOf,
                Amount, Reservation, NoReservation
  <2>2. RowsBounded' BY <1>7 DEF Administer, StoreTyped, RowsBounded, StoredRows
  <2>. QED
    BY <1>7, <2>1, <2>2, SellersTyped
    DEF Administer, StoreTyped, LogTyped, SessionsTyped, WriterTyped, Principal
<1>. QED BY <1>1, <1>2, <1>3, <1>4, <1>5, <1>6, <1>7 DEF StoreNext

(* Rows stay sound, rows and audited deletions within their limits, and     *)
(* revisions count the writes, whatever writers do (batch.rs 724-770,       *)
(* lib.rs 1268-1316, 5515-5664).                                            *)
THEOREM StoreTypeCorrect == StoreSpec => []StoreTypeOK
<1>1. StoreInit => StoreInv /\ StoreTyped BY StoreInvInit, StoreTypedInit
<1>2. StoreInv /\ StoreTyped /\ [StoreNext]_StoreVars => (StoreInv /\ StoreTyped)'
  BY StoreInvStep, StoreTypedStep
<1>. QED BY <1>1, <1>2, StoreTypedIsTypeOK, PTL DEF StoreSpec
=============================================================================
