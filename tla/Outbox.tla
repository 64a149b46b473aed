------------------------------- MODULE Outbox -------------------------------
(***************************************************************************)
(* The delivery of one outbox event to the webhook, by any number of       *)
(* workers and scheduled jobs at once (outboxService, outboxRepository).    *)
(* Events share nothing but the workers' time, so one is enough.           *)
(*                                                                         *)
(* Claiming and each way of finishing are one atomic update each.  Sending *)
(* is between them, and nothing ties the update that finishes to the claim *)
(* it belongs to: it matches whenever the event is "sending".              *)
(*                                                                         *)
(* Time is two flags: whether the wait before the next attempt is over,    *)
(* and whether the lock of the latest claim has run out.                   *)
(***************************************************************************)
EXTENDS Integers

CONSTANTS
  Worker,       \* workers and jobs delivering at once
  NoWorker,     \* nobody
  MAX_ATTEMPTS, \* attempts before the event is given up
  MaxStalls,    \* bound on locks running out under a worker that lives
  MaxCrashes,   \* bound on workers dying
  MaxRevivals   \* bound on admins' retries

ASSUME OutboxAssumption ==
  /\ NoWorker \notin Worker
  /\ MAX_ATTEMPTS \in Nat \ {0}
  /\ MaxStalls \in Nat
  /\ MaxCrashes \in Nat
  /\ MaxRevivals \in Nat

VARIABLES
  status,    \* pending, sending, delivered or dead
  attempts,  \* claims since the event was new or revived
  due,       \* nextAttemptAt has come
  expired,   \* lockedUntil has passed
  holder,    \* the worker of the latest claim
  worker,    \* where each worker is, and the attempts it read when it claimed
  received,  \* times the webhook received the event, up to two
  lost,      \* a receipt may have gone unrecorded
  stalls,    \* locks that ran out under a worker that lived
  crashes,   \* workers that died
  revivals   \* retries by an admin

event == <<status, attempts, due, expired, holder>>
vars == <<status, attempts, due, expired, holder, worker, received, lost, stalls, crashes, revivals>>

-----------------------------------------------------------------------------

EventStatus == {"pending", "sending", "delivered", "dead"}
WorkerStep == {"idle", "claimed", "sent", "failed"}
AtRest == [step |-> "idle", attempts |-> 0]

TypeOK ==
  /\ status \in EventStatus
  /\ attempts \in Nat
  /\ due \in BOOLEAN
  /\ expired \in BOOLEAN
  /\ holder \in Worker \cup {NoWorker}
  /\ worker \in [Worker -> [step : WorkerStep, attempts : Nat]]
  /\ received \in 0..2
  /\ lost \in BOOLEAN
  /\ stalls \in 0..MaxStalls
  /\ crashes \in 0..MaxCrashes
  /\ revivals \in 0..MaxRevivals

(* enqueue: the event is committed with its change, due at once. *)
Init ==
  /\ status = "pending"
  /\ attempts = 0
  /\ due = TRUE
  /\ expired = FALSE
  /\ holder = NoWorker
  /\ worker = [w \in Worker |-> AtRest]
  /\ received = 0
  /\ lost = FALSE
  /\ stalls = 0
  /\ crashes = 0
  /\ revivals = 0

Goes(w, step) == worker' = [worker EXCEPT ![w].step = step]
Busy(w) == worker[w].step # "idle"

-----------------------------------------------------------------------------
(* claimNext: an event that is due, or that another worker locked and then  *)
(* abandoned.  The attempt is counted as it is taken.                       *)

ClaimableLocked == (status = "pending" /\ due) \/ status = "sending"
ClaimableUnlocked == status = "pending" /\ due
Claimable ==
  \/ status = "pending" /\ due
  \/ status = "sending" /\ expired

Claim(w) ==
  /\ ~Busy(w)
  /\ Claimable
  /\ status' = "sending"
  /\ attempts' = attempts + 1
  /\ expired' = FALSE
  /\ holder' = w
  /\ worker' = [worker EXCEPT ![w] = [step |-> "claimed", attempts |-> attempts + 1]]
  /\ UNCHANGED <<due, received, lost, stalls, crashes, revivals>>

(* send: the webhook receives the event and answers in time, or the answer  *)
(* is lost or late, or nothing arrives.                                     *)
Receive == received' = IF received < 2 THEN received + 1 ELSE received

Send(w) ==
  /\ worker[w].step = "claimed"
  /\ \/ Goes(w, "sent") /\ Receive /\ UNCHANGED lost
     \/ Goes(w, "failed") /\ Receive /\ lost' = TRUE
     \/ Goes(w, "failed") /\ UNCHANGED <<received, lost>>
  /\ UNCHANGED <<event, stalls, crashes, revivals>>

(* Recording the delivery can fail itself, and is then handled as a failed  *)
(* attempt: it is inside the same try.                                      *)
FailToRecord(w) ==
  /\ worker[w].step = "sent"
  /\ Goes(w, "failed")
  /\ lost' = TRUE
  /\ UNCHANGED <<event, received, stalls, crashes, revivals>>

Rests(w) == worker' = [worker EXCEPT ![w] = AtRest]

MarkDelivered(w) ==
  /\ worker[w].step = "sent"
  /\ status' = IF status = "sending" THEN "delivered" ELSE status
  /\ Rests(w)
  /\ UNCHANGED <<attempts, due, expired, holder, received, lost, stalls, crashes, revivals>>

(* The attempts counted are those the worker read when it claimed. *)
GivesUpLate(w) == worker[w].attempts > MAX_ATTEMPTS
GivesUp(w) == worker[w].attempts >= MAX_ATTEMPTS

MarkForRetry(w) ==
  /\ worker[w].step = "failed"
  /\ ~GivesUp(w)
  /\ IF status = "sending" THEN status' = "pending" /\ due' = FALSE
     ELSE UNCHANGED <<status, due>>
  /\ Rests(w)
  /\ UNCHANGED <<attempts, expired, holder, received, lost, stalls, crashes, revivals>>

MarkDead(w) ==
  /\ worker[w].step = "failed"
  /\ GivesUp(w)
  /\ status' = IF status = "sending" THEN "dead" ELSE status
  /\ Rests(w)
  /\ UNCHANGED <<attempts, due, expired, holder, received, lost, stalls, crashes, revivals>>

(* A worker dies; what it sent may go unrecorded. *)
Crash(w) ==
  /\ Busy(w)
  /\ crashes < MaxCrashes
  /\ crashes' = crashes + 1
  /\ Rests(w)
  /\ lost' = (lost \/ worker[w].step = "sent")
  /\ UNCHANGED <<event, received, stalls, revivals>>

(* The wait ends; the lock runs out.  A lock is some ten times as long as a *)
(* request may take, so without a stall only a dead worker's runs out.      *)
Elapse ==
  /\ status = "pending"
  /\ ~due
  /\ due' = TRUE
  /\ UNCHANGED <<status, attempts, expired, holder, worker, received, lost, stalls, crashes, revivals>>

Abandoned == ~Busy(holder)

LockRunsOut ==
  /\ status = "sending"
  /\ ~expired
  /\ \/ Abandoned /\ UNCHANGED stalls
     \/ ~Abandoned /\ stalls < MaxStalls /\ stalls' = stalls + 1
  /\ expired' = TRUE
  /\ UNCHANGED <<status, attempts, due, holder, worker, received, lost, crashes, revivals>>

(* revive: an admin puts a dead event back as if it were new. *)
Revive ==
  /\ status = "dead"
  /\ revivals < MaxRevivals
  /\ revivals' = revivals + 1
  /\ status' = "pending"
  /\ attempts' = 0
  /\ due' = TRUE
  /\ UNCHANGED <<expired, holder, worker, received, lost, stalls, crashes>>

Work(w) == Send(w) \/ MarkDelivered(w) \/ MarkForRetry(w) \/ MarkDead(w)

Next ==
  \/ \E w \in Worker : Claim(w) \/ Work(w) \/ FailToRecord(w) \/ Crash(w)
  \/ Elapse \/ LockRunsOut \/ Revive

Spec == Init /\ [][Next]_vars

(* Jobs come again and again, a worker that lives finishes what it claimed, *)
(* and time passes.  Nobody has to revive anything.                         *)
FairSpec ==
  /\ Spec
  /\ WF_vars(\E w \in Worker : Claim(w))
  /\ \A w \in Worker : WF_vars(Work(w))
  /\ WF_vars(Elapse)
  /\ WF_vars(LockRunsOut)

-----------------------------------------------------------------------------
(* Correctness.                                                             *)

(* An event is only recorded as delivered if the webhook has it, whichever  *)
(* worker recorded it (markDelivered).                                      *)
DeliveredMeansReceived == status = "delivered" => received > 0

(* While no worker has outlived its lock, two are never working on the      *)
(* event at once, and only the latest to claim it is (claimNext).           *)
OneClaim == stalls = 0 => \A w \in Worker : Busy(w) => status = "sending" /\ holder = w

(* The webhook gets the event twice only if a receipt could not be recorded *)
(* or a lock was outlived.                                                  *)
DuplicatesExplained == received > 1 => lost \/ stalls > 0

(* While no worker has outlived its lock, an event is dead only after all   *)
(* its attempts, those since it was revived (MAX_ATTEMPTS, revive).         *)
DeadMeansExhausted == stalls = 0 /\ status = "dead" => attempts >= MAX_ATTEMPTS

(* While no worker has outlived its lock, only a worker that died is the    *)
(* reason of an attempt beyond the last one (deliverPending, claimNext).    *)
AttemptsBounded == stalls = 0 => attempts <= MAX_ATTEMPTS + crashes

(* Every event ends delivered or dead, once workers stop dying in the middle *)
(* of it; a revived one ends again (deliverPending, claimNext).             *)
Settled == status \in {"delivered", "dead"}
Settles == []<>Settled

-----------------------------------------------------------------------------
(* The delivery this one implements (Delivery): with claims, locks and waits *)
(* forgotten, any number of workers make one attempt after another, as one   *)
(* alone would, until one of them outlives its lock (deliverPending).        *)

Outcome == IF status \in {"delivered", "dead"} THEN status ELSE "open"
Stage == IF status = "sending" THEN worker[holder].step ELSE "idle"
Loop == INSTANCE Delivery WITH Limit <- MAX_ATTEMPTS, outcome <- Outcome, stage <- Stage,
                               astray <- stalls > 0
DeliverySpec == Loop!Spec

=============================================================================
