-------------------------- MODULE AutoClaimProperties --------------------------
(***************************************************************************)
(* What the auto-claim collector owes to the receiver: the debt of a        *)
(* managed channel is never forgotten, a claim is paid for once, and the    *)
(* journal, the lock, the settlement record and the chain agree whatever    *)
(* interrupts a worker.                                                     *)
(***************************************************************************)
EXTENDS AutoClaim

Held(c) == collection[c].attempt
Working(c) == Managed(c) /\ Held(c) # None

(* The receiver pays one fee for each of its claims the chain has executed  *)
(* and for the attempt under way, and nothing for one that was given up:    *)
(* no trap, retry or re-registration charges or refunds twice (prepare,     *)
(* abandon_prepared).                                                       *)
FeeConserved ==
  LET done == {m \in mined : /\ m.tx.key # Manual
                             /\ \A c \in Channel : Working(c) => m.tx # Journaled(c)}
      held == {c \in Channel : Working(c)}
  IN credit + Fee * (Cardinality(done) + Cardinality(held)) = InitCredit

(* The durable journal, the settlement record and the receiver's lock tell  *)
(* one story: an attempt without raw transaction is checking, one with it   *)
(* is broadcast, both hold the lock, and nothing else of the collector does *)
(* (abandon_prepared, resume, record).                                      *)
JournalAgrees ==
  /\ \A c \in Channel : Working(c) =>
       /\ Held(c).key.channel = c
       /\ lock = Held(c).key
       /\ record[Held(c).key] = IF Held(c).nonce = -1 THEN "checking" ELSE "broadcast"
  /\ \A k \in Key : lock = k \/ record[k] \in {"checking", "broadcast"} =>
       Working(k.channel) /\ Held(k.channel).key = k

(* docs/batch-auto-claim.md: what is claimed is what was charged, never the *)
(* rest of the signed voucher; so the claim of a live attempt, and every    *)
(* claim the chain has taken, is for at most what the stored channel had    *)
(* charged when it was claimed.                                             *)
AttemptCovered ==
  \A c \in Channel : Working(c) =>
    /\ store[c] # None
    /\ Held(c).key.target <= store[c].charged

(* Every payment of a managed channel the chain does not know of is counted *)
(* towards the threshold, or a claim for it is wanted anyway or under way:  *)
(* no order of commits, monitor answers and settled claims loses one        *)
(* (after_update, reconcile, start of an attempt).                          *)
DebtCounted ==
  \A c \in Channel : Managed(c) /\ store[c] # None =>
    \A n \in (Larger(latest[c], collection[c].claimed) + 1)..store[c].charged :
      \/ n \in collection[c].charges
      \/ collection[c].force # "no"
      \/ Working(c) /\ n <= Held(c).key.target

(* A collection that is asleep (next_due u64::MAX) has neither debt nor     *)
(* attempt nor a live reservation, so no one needs to wake it but the next  *)
(* commit or reservation (dispatch, after_update).                          *)
NoSleepingDebt ==
  \A c \in Channel : Managed(c) /\ collection[c].due = "never" =>
    /\ Held(c) = None
    /\ worker[c].pc = "idle"
    /\ store[c] # None
    /\ store[c].charged <= collection[c].claimed
    /\ store[c].pending # "live"

(* docs/batch-auto-claim.md: the history of uncollected payments is limited *)
(* when a reservation is accepted; the reservations are exclusive, so it    *)
(* never grows past the limit although commits are not refused.             *)
BacklogBounded ==
  \A c \in Channel : Managed(c) =>
    Cardinality(collection[c].charges) <= MaxOutstanding

(* The journaled transaction and those of the other settlements never share *)
(* an account nonce (reserve_nonce between the quote and the journal).      *)
NonceUnique ==
  \A t1, t2 \in sent : t1.nonce = t2.nonce => t1 = t2

(* A channel leaves the collector, by deletion or when a disabled receiver  *)
(* is drained, only if the chain has claimed what was charged, and not      *)
(* under an attempt (before_delete, run).                                   *)
NotAbandoned ==
  [][\A c \in Channel : Managed(c) /\ ~Managed(c)' =>
       /\ Charged(c) <= latest[c]
       /\ Held(c) = None]_vars

(* A journaled raw transaction is the only one of its attempt: the attempt  *)
(* keeps key and nonce until the chain has executed them.                   *)
JournalKept ==
  [][\A c \in Channel : Working(c) /\ Held(c).nonce # -1 =>
       \/ Working(c)' /\ Held(c)' = Held(c)
       \/ \E m \in mined : m.tx = Journaled(c)]_vars

(* docs/batch-auto-claim.md: below the threshold a claim is made only for a *)
(* withdrawal, a request of the store, a disabled receiver or the balance   *)
(* from before enabling.                                                    *)
EarlyClaimAsked ==
  [][\A c \in Channel : Working(c)' /\ ~Working(c) =>
       \/ Held(c)'.asked
       \/ Cardinality(collection'[c].charges) >= Threshold]_vars

-----------------------------------------------------------------------------
(* Liveness.  The environment the code is written for: timers fire, in the  *)
(* order of their deadlines, a canister resumes every call, blocks are      *)
(* produced and finalized, and a transaction that is sent again and again   *)
(* is taken by a node.  With other settlements of the receiver (event lock) *)
(* the code promises nothing: each look may find the lock taken.            *)
Fairness ==
  /\ \A c \in Channel :
       /\ WF_vars(DueAgain(c)) /\ SF_vars(Dispatch(c))
       /\ WF_vars(ReadChannelState(c)) /\ WF_vars(Resume(c))
       /\ SF_vars(Settled(c) \/ Reverted(c))
       /\ SF_vars(Sent(c) /\ sent' # sent)
       /\ WF_vars(Finalize(c))
  /\ WF_vars(\E tx \in sent, ok \in BOOLEAN : Mine(tx, ok))

FairSpec == Spec /\ Fairness

Debt(c) == Managed(c) /\ store[c] # None /\ store[c].charged > collection[c].claimed
Exhausted(c) == Managed(c) /\ collection[c].sequence = MaxSequence

(* docs/batch-auto-claim.md: a debt that reached the threshold, or that is  *)
(* to be claimed for a withdrawal, a request or a disabled receiver, is     *)
(* claimed in the end, and so is what an attempt has taken up; unless the   *)
(* collection stops for want of credit, after a reverted claim or when its  *)
(* attempt sequence is exhausted.                                           *)
Wants(c, n) ==
  /\ Debt(c) /\ n > collection[c].claimed /\ n <= store[c].charged
  /\ IF Working(c) THEN n <= Held(c).key.target ELSE Wanted(collection[c])

DebtCollected ==
  \A c \in Channel, n \in 1..MaxCharged :
    Wants(c, n)
      ~> \/ ~Managed(c) \/ collection[c].claimed >= n
         \/ credit < Fee \/ collection[c].halted \/ Exhausted(c)

(* The collector does not keep the receiver's lock, which would shut out    *)
(* its other settlements: each attempt is resolved or given up.             *)
AutoLockReleased == \A c \in Channel : Working(c) ~> ~Working(c)
=============================================================================
