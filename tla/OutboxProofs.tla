---------------------------- MODULE OutboxProofs ----------------------------
(***************************************************************************)
(* What Outbox promises, for any number of workers, attempts, crashes and  *)
(* revivals.  The invariants of Outbox are not inductive; what they rest   *)
(* on is added to them here:                                               *)
(*   - while no worker has outlived its lock, whoever works on the event   *)
(*     is its holder and knows how often the event was tried (Claims), so  *)
(*     a lock that ran out is a dead worker's (Expiry);                    *)
(*   - an event that waits has an attempt left, one that was abandoned may *)
(*     have used one more per crash (Tries);                               *)
(*   - a receipt nobody may have lost is recorded or about to be (Receipt).*)
(***************************************************************************)
EXTENDS Outbox, TLAPS

Claims ==
  \A w \in Worker : Busy(w) =>
    status = "sending" /\ holder = w /\ worker[w].attempts = attempts
Expiry == status = "sending" => holder \in Worker /\ (expired => ~Busy(holder))
Tries ==
  /\ status = "pending" => attempts < MAX_ATTEMPTS
  /\ status = "sending" /\ ~Busy(holder) => attempts < MAX_ATTEMPTS + crashes
  /\ attempts <= MAX_ATTEMPTS + crashes
  /\ status = "dead" => attempts >= MAX_ATTEMPTS
Receipt ==
  /\ received > 1 => lost
  /\ received > 0 /\ ~lost =>
       status = "delivered" \/ \E w \in Worker : worker[w].step = "sent"

Calm == stalls = 0 => Claims /\ Expiry /\ Tries /\ Receipt

(* Only what the webhook received is about to be recorded as delivered. *)
SentIsReceived == \A w \in Worker : worker[w].step = "sent" => received > 0

-----------------------------------------------------------------------------

Flags == due \in BOOLEAN /\ expired \in BOOLEAN /\ lost \in BOOLEAN
Counts ==
  /\ attempts \in Nat
  /\ received \in 0..2
  /\ stalls \in 0..MaxStalls
  /\ crashes \in 0..MaxCrashes
  /\ revivals \in 0..MaxRevivals
Places ==
  /\ status \in EventStatus
  /\ holder \in Worker \cup {NoWorker}
  /\ worker \in [Worker -> [step : WorkerStep, attempts : Nat]]

(* The types hold at first.                                                 *)
LEMMA TypeInit == Init => TypeOK
<1> SUFFICES ASSUME Init PROVE TypeOK
  OBVIOUS
<1>1. Flags
  BY Zenon DEF Init, Flags
<1>2. Counts
  BY OutboxAssumption DEF OutboxAssumption, Init, Counts
<1>3. Places
  BY DEF Init, Places, AtRest, EventStatus, WorkerStep
<1> QED
  BY <1>1, <1>2, <1>3, Zenon DEF TypeOK, Flags, Counts, Places

(* A worker that moves to another step keeps its type. *)
LEMMA GoesType ==
  ASSUME NEW w \in Worker, NEW step \in WorkerStep, TypeOK, Goes(w, step)
  PROVE  worker' \in [Worker -> [step : WorkerStep, attempts : Nat]]
  BY DEF TypeOK, Goes

(* Every step of a worker, of time or of an admin keeps the types. *)
LEMMA TypeStep == TypeOK /\ [Next]_vars => TypeOK'
<1> SUFFICES ASSUME TypeOK, [Next]_vars PROVE TypeOK'
  OBVIOUS
<1> USE OutboxAssumption DEF OutboxAssumption, TypeOK, EventStatus, WorkerStep, AtRest, event
<1>1. ASSUME NEW w \in Worker, Claim(w) PROVE TypeOK'
  <2>1. attempts + 1 \in Nat
    OBVIOUS
  <2>2. worker' \in [Worker -> [step : WorkerStep, attempts : Nat]]
    BY <1>1, <2>1 DEF Claim
  <2>3. expired' \in BOOLEAN /\ status' \in EventStatus
    BY <1>1, Zenon DEF Claim
  <2> QED
    BY <1>1, <2>1, <2>2, <2>3, Zenon DEF Claim
<1>2. ASSUME NEW w \in Worker, Send(w) PROVE TypeOK'
  <2>1. PICK step \in {"sent", "failed"} : Goes(w, step)
    BY <1>2, Zenon DEF Send
  <2>2. worker' \in [Worker -> [step : WorkerStep, attempts : Nat]]
    BY <2>1, GoesType
  <2>3. lost' \in BOOLEAN
    BY <1>2, Zenon DEF Send
  <2>4. received' \in 0..2
    BY <1>2 DEF Send, Receive
  <2> QED
    BY <1>2, <2>2, <2>3, <2>4, Zenon DEF Send
<1>3. ASSUME NEW w \in Worker, FailToRecord(w) PROVE TypeOK'
  <2>1. worker' \in [Worker -> [step : WorkerStep, attempts : Nat]]
    BY <1>3, GoesType DEF FailToRecord
  <2> QED
    BY <1>3, <2>1, Zenon DEF FailToRecord
<1>4. ASSUME NEW w \in Worker, MarkDelivered(w) PROVE TypeOK'
  BY <1>4 DEF MarkDelivered, Rests
<1>5. ASSUME NEW w \in Worker, MarkForRetry(w) PROVE TypeOK'
  BY <1>5 DEF MarkForRetry, Rests
<1>6. ASSUME NEW w \in Worker, MarkDead(w) PROVE TypeOK'
  BY <1>6 DEF MarkDead, Rests
<1>7. ASSUME NEW w \in Worker, Crash(w) PROVE TypeOK'
  BY <1>7 DEF Crash, Rests
<1>8. CASE Elapse
  BY <1>8 DEF Elapse
<1>9. CASE LockRunsOut
  BY <1>9 DEF LockRunsOut
<1>10. CASE Revive
  BY <1>10 DEF Revive
<1>11. CASE UNCHANGED vars
  BY <1>11 DEF vars
<1> QED
  BY <1>1, <1>2, <1>3, <1>4, <1>5, <1>6, <1>7, <1>8, <1>9, <1>10, <1>11 DEF Next, Work

(* The types of the event and of its workers (TypeOK) hold always. *)
THEOREM TypeCorrect == Spec => []TypeOK
  BY TypeInit, TypeStep, PTL DEF Spec

-----------------------------------------------------------------------------

(* Nothing is sent or recorded at first.                                    *)
LEMMA ReceivedInit == Init => SentIsReceived /\ DeliveredMeansReceived
  BY DEF Init, AtRest, SentIsReceived, DeliveredMeansReceived

(* What the webhook received it has received for good. *)
LEMMA ReceivedGrows == TypeOK /\ [Next]_vars => received' >= received
  BY DEF TypeOK, Next, Work, Claim, Send, FailToRecord, MarkDelivered, MarkForRetry, MarkDead,
         Crash, Elapse, LockRunsOut, Revive, Receive, event, vars

(* A delivery is recorded only by a worker whose request was received.      *)
LEMMA ReceivedStep ==
  TypeOK /\ SentIsReceived /\ DeliveredMeansReceived /\ [Next]_vars
    => SentIsReceived' /\ DeliveredMeansReceived'
<1> SUFFICES ASSUME TypeOK, SentIsReceived, DeliveredMeansReceived, [Next]_vars
             PROVE SentIsReceived' /\ DeliveredMeansReceived'
  OBVIOUS
<1> USE DEF TypeOK, SentIsReceived, DeliveredMeansReceived, AtRest, event
<1>1. received' >= received
  BY ReceivedGrows
<1>2. ASSUME NEW w \in Worker, Claim(w) PROVE SentIsReceived' /\ DeliveredMeansReceived'
  BY <1>1, <1>2 DEF Claim
<1>3. ASSUME NEW w \in Worker, Send(w) PROVE SentIsReceived' /\ DeliveredMeansReceived'
  BY <1>1, <1>3 DEF Send, Goes, Receive
<1>4. ASSUME NEW w \in Worker, FailToRecord(w) PROVE SentIsReceived' /\ DeliveredMeansReceived'
  BY <1>1, <1>4 DEF FailToRecord, Goes
<1>5. ASSUME NEW w \in Worker, MarkDelivered(w) PROVE SentIsReceived' /\ DeliveredMeansReceived'
  BY <1>1, <1>5 DEF MarkDelivered, Rests
<1>6. ASSUME NEW w \in Worker, MarkForRetry(w) PROVE SentIsReceived' /\ DeliveredMeansReceived'
  BY <1>1, <1>6 DEF MarkForRetry, Rests
<1>7. ASSUME NEW w \in Worker, MarkDead(w) PROVE SentIsReceived' /\ DeliveredMeansReceived'
  BY <1>1, <1>7 DEF MarkDead, Rests
<1>8. ASSUME NEW w \in Worker, Crash(w) PROVE SentIsReceived' /\ DeliveredMeansReceived'
  BY <1>1, <1>8 DEF Crash, Rests
<1>9. CASE Elapse \/ LockRunsOut \/ Revive \/ UNCHANGED vars
  BY <1>1, <1>9 DEF Elapse, LockRunsOut, Revive, vars
<1> QED
  BY <1>2, <1>3, <1>4, <1>5, <1>6, <1>7, <1>8, <1>9 DEF Next, Work

(* An event recorded as delivered was received, even if the worker that     *)
(* recorded it had outlived its lock (DeliveredMeansReceived).              *)
THEOREM DeliveredReceived == Spec => []DeliveredMeansReceived
  BY TypeCorrect, ReceivedInit, ReceivedStep, PTL DEF Spec

-----------------------------------------------------------------------------

(* With no claim, no lock and no receipt, there is nothing to disturb.      *)
LEMMA CalmInit == Init => Calm
<1> SUFFICES ASSUME Init PROVE Claims /\ Expiry /\ Tries /\ Receipt
  BY DEF Calm
<1> QED
  BY OutboxAssumption
  DEF OutboxAssumption, Init, AtRest, Busy, Claims, Expiry, Tries, Receipt

(* What a step does to the workers other than the one that takes it. *)
LEMMA OthersWait ==
  ASSUME TypeOK, NEW w \in Worker, Claim(w) \/ Work(w) \/ FailToRecord(w) \/ Crash(w)
  PROVE  /\ \A v \in Worker \ {w} : worker'[v] = worker[v]
         /\ stalls' = stalls
  BY DEF TypeOK, Work, Claim, Send, FailToRecord, MarkDelivered, MarkForRetry, MarkDead, Crash,
         Goes, Rests

(* While no lock was outlived, every step keeps claims, locks, attempts and *)
(* receipts in accord.                                                      *)
LEMMA CalmStep == TypeOK /\ Calm /\ [Next]_vars => Calm'
<1> SUFFICES ASSUME TypeOK, Calm, [Next]_vars, stalls' = 0
             PROVE  Claims' /\ Expiry' /\ Tries' /\ Receipt'
  BY DEF Calm
<1> DEFINE Goal == Claims' /\ Expiry' /\ Tries' /\ Receipt'
<1> USE OutboxAssumption DEF OutboxAssumption, TypeOK, AtRest, Busy, event
<1>1. ASSUME stalls = 0 PROVE Claims /\ Expiry /\ Tries /\ Receipt
  BY <1>1 DEF Calm
<1>2. ASSUME NEW w \in Worker, Claim(w) PROVE Goal
  <2>1. stalls = 0 /\ Claims /\ Expiry /\ Tries /\ Receipt
    BY <1>1, <1>2 DEF Claim
  <2>2. \A v \in Worker : ~Busy(v)
    BY <1>2, <2>1 DEF Claim, Claimable, Claims, Expiry
  <2>3. \A v \in Worker \ {w} : worker'[v].step = "idle"
    BY <1>2, <2>2, OthersWait
  <2>4. worker'[w] = [step |-> "claimed", attempts |-> attempts + 1]
    BY <1>2 DEF Claim
  <2>5. Claims'
    BY <1>2, <2>3, <2>4 DEF Claim, Claims
  <2>6. Expiry'
    BY <1>2, Zenon DEF Claim, Expiry
  <2>7. Tries'
    BY <1>2, <2>1, <2>2, <2>4 DEF Claim, Claimable, Tries, Expiry
  <2>8. Receipt'
    BY <1>2, <2>1, <2>2 DEF Claim, Claimable, Receipt
  <2> QED
    BY <2>5, <2>6, <2>7, <2>8
<1>3. ASSUME NEW w \in Worker, Send(w) PROVE Goal
  <2>1. stalls = 0 /\ Claims /\ Expiry /\ Tries /\ Receipt
    BY <1>1, <1>3 DEF Send
  <2>2. \A v \in Worker \ {w} : worker'[v] = worker[v] /\ ~Busy(v)
    BY <1>3, <2>1, OthersWait DEF Send, Claims, Work
  <2>3. worker'[w].step \in {"sent", "failed"} /\ worker'[w].attempts = worker[w].attempts
    BY <1>3 DEF Send, Goes
  <2>4. Claims'
    BY <1>3, <2>1, <2>2, <2>3 DEF Send, Claims
  <2>5. Expiry'
    BY <1>3, <2>1 DEF Send, Expiry, Claims
  <2>6. Tries'
    BY <1>3, <2>1, <2>2, <2>3 DEF Send, Tries, Claims
  <2>7. Receipt'
    BY <1>3, <2>1, <2>2, <2>3 DEF Send, Goes, Receive, Receipt, Claims
  <2> QED
    BY <2>4, <2>5, <2>6, <2>7
<1>4. ASSUME NEW w \in Worker, FailToRecord(w) PROVE Goal
  <2>1. stalls = 0 /\ Claims /\ Expiry /\ Tries /\ Receipt
    BY <1>1, <1>4 DEF FailToRecord
  <2>2. \A v \in Worker \ {w} : worker'[v] = worker[v]
    BY <1>4, OthersWait
  <2>3. worker'[w].step = "failed" /\ worker'[w].attempts = worker[w].attempts
    BY <1>4 DEF FailToRecord, Goes
  <2> QED
    BY <1>4, <2>1, <2>2, <2>3 DEF FailToRecord, Claims, Expiry, Tries, Receipt
<1>5. ASSUME NEW w \in Worker, MarkDelivered(w) PROVE Goal
  <2>1. stalls = 0 /\ Claims /\ Expiry /\ Tries /\ Receipt
    BY <1>1, <1>5 DEF MarkDelivered
  <2>2. /\ \A v \in Worker : worker'[v].step = "idle"
        /\ status' = "delivered"
    BY <1>5, <2>1 DEF MarkDelivered, Rests, Claims
  <2> QED
    BY <1>5, <2>1, <2>2 DEF MarkDelivered, Claims, Expiry, Tries, Receipt
<1>6. ASSUME NEW w \in Worker, MarkForRetry(w) PROVE Goal
  <2>1. stalls = 0 /\ Claims /\ Expiry /\ Tries /\ Receipt
    BY <1>1, <1>6 DEF MarkForRetry
  <2>2. \A v \in Worker : worker'[v].step = "idle" /\ worker[v].step # "sent"
    BY <1>6, <2>1 DEF MarkForRetry, Rests, Claims
  <2>3. status' = "pending" /\ attempts' = attempts /\ attempts < MAX_ATTEMPTS
    BY <1>6, <2>1 DEF MarkForRetry, Claims, GivesUp
  <2> QED
    BY <1>6, <2>1, <2>2, <2>3 DEF MarkForRetry, Claims, Expiry, Tries, Receipt
<1>7. ASSUME NEW w \in Worker, MarkDead(w) PROVE Goal
  <2>1. stalls = 0 /\ Claims /\ Expiry /\ Tries /\ Receipt
    BY <1>1, <1>7 DEF MarkDead
  <2>2. \A v \in Worker : worker'[v].step = "idle" /\ worker[v].step # "sent"
    BY <1>7, <2>1 DEF MarkDead, Rests, Claims
  <2>3. status' = "dead" /\ attempts' = attempts /\ attempts >= MAX_ATTEMPTS
    BY <1>7, <2>1 DEF MarkDead, Claims, GivesUp
  <2> QED
    BY <1>7, <2>1, <2>2, <2>3 DEF MarkDead, Claims, Expiry, Tries, Receipt
<1>8. ASSUME NEW w \in Worker, Crash(w) PROVE Goal
  <2>1. stalls = 0 /\ Claims /\ Expiry /\ Tries /\ Receipt
    BY <1>1, <1>8 DEF Crash
  <2>2. status = "sending" /\ \A v \in Worker : worker'[v].step = "idle"
    BY <1>8, <2>1 DEF Crash, Rests, Claims
  <2>3. lost' \/ \A v \in Worker : worker[v].step # "sent"
    BY <1>8, <2>1 DEF Crash, Claims
  <2>4. lost => lost'
    BY <1>8 DEF Crash
  <2> QED
    BY <1>8, <2>1, <2>2, <2>3, <2>4 DEF Crash, Claims, Expiry, Tries, Receipt
<1>9. CASE Elapse
  BY <1>1, <1>9 DEF Elapse, Claims, Expiry, Tries, Receipt
<1>10. CASE LockRunsOut
  <2>1. stalls = 0 /\ ~Busy(holder)
    BY <1>10 DEF LockRunsOut, Abandoned
  <2> QED
    BY <1>1, <1>10, <2>1 DEF LockRunsOut, Claims, Expiry, Tries, Receipt
<1>11. CASE Revive
  <2>1. stalls = 0 /\ Claims /\ Expiry /\ Tries /\ Receipt
    BY <1>1, <1>11 DEF Revive
  <2>2. \A v \in Worker : ~Busy(v)
    BY <1>11, <2>1 DEF Revive, Claims
  <2> QED
    BY <1>11, <2>1, <2>2 DEF Revive, Claims, Expiry, Tries, Receipt
<1>12. CASE UNCHANGED vars
  BY <1>1, <1>12 DEF vars, Claims, Expiry, Tries, Receipt
<1> QED
  BY <1>2, <1>3, <1>4, <1>5, <1>6, <1>7, <1>8, <1>9, <1>10, <1>11, <1>12 DEF Next, Work

(* So they are in accord in every behaviour.                                *)
LEMMA AlwaysCalm == Spec => []Calm
  BY TypeCorrect, CalmInit, CalmStep, PTL DEF Spec

(* While no worker has outlived its lock, an event is worked on by one      *)
(* worker at a time (OneClaim).                                             *)
THEOREM OneClaimAtATime == Spec => []OneClaim
<1>1. Calm => OneClaim
  BY DEF Calm, Claims, OneClaim
<1> QED
  BY <1>1, AlwaysCalm, PTL

(* A second receipt by the webhook has one of two causes: a receipt that    *)
(* could not be recorded, or an outlived lock (DuplicatesExplained).        *)
THEOREM DuplicatesHaveCauses == Spec => []DuplicatesExplained
<1>1. TypeOK /\ Calm => DuplicatesExplained
  BY OutboxAssumption DEF OutboxAssumption, TypeOK, Calm, Receipt, DuplicatesExplained
<1> QED
  BY <1>1, TypeCorrect, AlwaysCalm, PTL

(* While no worker has outlived its lock, no event is given up before its   *)
(* last attempt (DeadMeansExhausted).                                       *)
THEOREM NotGivenUpEarly == Spec => []DeadMeansExhausted
<1>1. Calm => DeadMeansExhausted
  BY DEF Calm, Tries, DeadMeansExhausted
<1> QED
  BY <1>1, AlwaysCalm, PTL

(* While no worker has outlived its lock, an event is tried no more often    *)
(* than the limit, and once more per crash (AttemptsBounded).                *)
THEOREM TriesAreBounded == Spec => []AttemptsBounded
<1>1. Calm => AttemptsBounded
  BY DEF Calm, Tries, AttemptsBounded
<1> QED
  BY <1>1, AlwaysCalm, PTL

-----------------------------------------------------------------------------

(* A new event is one the delivery starts from.                             *)
LEMMA LoopAtFirst == Init => Loop!Init
  BY DEF Init, Loop!Init, Outcome, Stage

(* Whoever works on it, a settled event stays as it is until it is revived. *)
LEMMA SettledStays ==
  ASSUME TypeOK, [Next]_vars, DeliveredMeansReceived'
  PROVE  Loop!Settled
<1>1. received' >= received
  BY ReceivedGrows
<1>2. status = "delivered" => status' = "delivered"
  BY DEF Next, Work, Claim, Claimable, Send, FailToRecord, MarkDelivered, MarkForRetry, MarkDead,
         Crash, Elapse, LockRunsOut, Revive, event, vars
<1>3. status = "dead" => status' = "dead" \/ (status' = "pending" /\ attempts' = 0)
  BY DEF Next, Work, Claim, Claimable, Send, FailToRecord, MarkDelivered, MarkForRetry, MarkDead,
         Crash, Elapse, LockRunsOut, Revive, event, vars
<1> QED
  BY <1>1, <1>2, <1>3 DEF Loop!Settled, Outcome, DeliveredMeansReceived

(* Every step is one of the delivery, or none of it: while no lock was      *)
(* outlived the worker that takes it is the holder, and the others rest.    *)
LEMMA LoopStep ==
  TypeOK /\ Calm /\ [Next]_vars /\ DeliveredMeansReceived'
    => [Loop!Next]_(Loop!deliveryVars)
<1> SUFFICES ASSUME TypeOK, Calm, [Next]_vars, DeliveredMeansReceived'
             PROVE  [Loop!Next]_(Loop!deliveryVars)
  OBVIOUS
<1>1. CASE stalls' > 0
  BY <1>1, SettledStays DEF Loop!Next
<1>2. CASE ~(stalls' > 0)
  <2>1. stalls = 0 /\ stalls' = 0 /\ Claims /\ Expiry /\ Tries
    <3>1. stalls \in Nat /\ (stalls' = stalls \/ stalls' = stalls + 1)
      BY OutboxAssumption
      DEF TypeOK, Next, Work, Claim, Send, FailToRecord, MarkDelivered, MarkForRetry, MarkDead,
          Crash, Elapse, LockRunsOut, Revive, vars
    <3>2. stalls = 0 /\ stalls' = 0
      BY <1>2, <3>1
    <3> QED
      BY <3>2 DEF Calm
  <2> DEFINE Step == \/ Loop!Begin \/ Loop!Send \/ Loop!LoseRecord \/ Loop!Record
                     \/ Loop!Fail \/ Loop!Die \/ Loop!Revive
  <2>2. ASSUME NEW w \in Worker, Busy(w)
        PROVE  /\ status = "sending" /\ Outcome = "open" /\ Stage = worker[w].step
               /\ worker[w].attempts = attempts
    BY <2>1, <2>2 DEF Claims, Outcome, Stage
  <2>3. ASSUME NEW w \in Worker, Claim(w)
        PROVE  Step
    <3>1. Outcome = "open" /\ Stage = "idle" /\ attempts < MAX_ATTEMPTS + crashes
      BY <2>1, <2>3, OutboxAssumption DEF Claim, Claimable, Expiry, Tries, Busy, Outcome, Stage, TypeOK
    <3>2. Outcome' = "open" /\ Stage' = "claimed"
      BY <2>3 DEF Claim, Outcome, Stage, TypeOK
    <3> QED
      BY <2>3, <3>1, <3>2 DEF Claim, Loop!Begin
  <2>4. ASSUME NEW w \in Worker, Send(w)
        PROVE  Step
    <3>1. status = "sending" /\ Outcome = "open" /\ Stage = "claimed" /\ holder = w
      BY <2>1, <2>2, <2>4 DEF Send, Busy, Claims
    <3>2. Outcome' = "open" /\ Stage' = worker'[w].step
      BY <2>4, <3>1 DEF Send, event, Outcome, Stage
    <3>3. \A s : Goes(w, s) => worker'[w].step = s
      BY DEF Goes, TypeOK
    <3>4. UNCHANGED <<attempts, crashes>>
      BY <2>4 DEF Send, event
    <3> QED
      BY <2>4, <3>1, <3>2, <3>3, <3>4 DEF Send, Receive, Loop!Send, Loop!Received
  <2>5. ASSUME NEW w \in Worker, FailToRecord(w)
        PROVE  Step
    <3>1. status = "sending" /\ Outcome = "open" /\ Stage = "sent" /\ holder = w
      BY <2>1, <2>2, <2>5 DEF FailToRecord, Busy, Claims
    <3>2. Outcome' = "open" /\ Stage' = "failed"
      BY <2>5, <3>1 DEF FailToRecord, Goes, event, Outcome, Stage, TypeOK
    <3> QED
      BY <2>5, <3>1, <3>2 DEF FailToRecord, event, Loop!LoseRecord
  <2>6. ASSUME NEW w \in Worker, MarkDelivered(w)
        PROVE  Step
    <3>1. status = "sending" /\ Stage = "sent"
      BY <2>2, <2>6 DEF MarkDelivered, Busy
    <3>2. Outcome' = "delivered" /\ Stage' = "idle"
      BY <2>6, <3>1 DEF MarkDelivered, Outcome, Stage
    <3> QED
      BY <2>6, <3>1, <3>2 DEF MarkDelivered, Loop!Record
  <2>7. ASSUME NEW w \in Worker, MarkForRetry(w)
        PROVE  Step
    <3>1. status = "sending" /\ Stage = "failed" /\ ~(attempts >= MAX_ATTEMPTS)
      BY <2>2, <2>7 DEF MarkForRetry, GivesUp, Busy
    <3>2. Outcome' = "open" /\ Stage' = "idle"
      BY <2>7, <3>1 DEF MarkForRetry, Outcome, Stage
    <3> QED
      BY <2>7, <3>1, <3>2 DEF MarkForRetry, Loop!Fail
  <2>8. ASSUME NEW w \in Worker, MarkDead(w)
        PROVE  Step
    <3>1. status = "sending" /\ Stage = "failed" /\ attempts >= MAX_ATTEMPTS
      BY <2>2, <2>8 DEF MarkDead, GivesUp, Busy
    <3>2. Outcome' = "dead" /\ Stage' = "idle"
      BY <2>8, <3>1 DEF MarkDead, Outcome, Stage
    <3> QED
      BY <2>8, <3>1, <3>2 DEF MarkDead, Loop!Fail
  <2>9. ASSUME NEW w \in Worker, Crash(w)
        PROVE  Step
    <3>1. status = "sending" /\ Outcome = "open" /\ Stage = worker[w].step /\ holder = w
      BY <2>1, <2>2, <2>9 DEF Crash, Claims
    <3>2. Outcome' = "open" /\ Stage' = "idle"
      BY <2>9, <3>1 DEF Crash, Rests, AtRest, event, Outcome, Stage, TypeOK
    <3>3. Stage # "idle"
      BY <2>9, <3>1 DEF Crash, Busy
    <3> QED
      BY <2>9, <3>1, <3>2, <3>3 DEF Crash, event, Loop!Die
  <2>10. ASSUME Revive
         PROVE  Step
    <3>1. Outcome = "dead" /\ Stage = "idle" /\ Outcome' = "open" /\ Stage' = "idle"
      BY <2>10 DEF Revive, Outcome, Stage
    <3> QED
      BY <2>10, <3>1 DEF Revive, Loop!Revive
  <2>11. CASE Elapse \/ LockRunsOut \/ UNCHANGED vars
    <3>1. UNCHANGED <<status, worker, holder, attempts, received, lost, crashes>>
      BY <2>11 DEF Elapse, LockRunsOut, vars
    <3>2. UNCHANGED <<Outcome, Stage>>
      BY <3>1 DEF Outcome, Stage
    <3>3. UNCHANGED (stalls > 0)
      BY <2>1
    <3> QED
      BY <3>1, <3>2, <3>3 DEF Loop!deliveryVars
  <2>12. Step => Loop!Next
    BY <2>1 DEF Loop!Next
  <2> HIDE DEF Step
  <2> QED
    BY <2>3, <2>4, <2>5, <2>6, <2>7, <2>8, <2>9, <2>10, <2>11, <2>12 DEF Next, Work
<1> QED
  BY <1>1, <1>2

(* Until a worker outlives its lock, any number of workers deliver an event *)
(* as one alone would, an attempt after another up to the limit, and        *)
(* whatever happens then, delivered is final, was received, and an event    *)
(* that was given up is taken up again only as if it were new               *)
(* (DeliverySpec).                                                          *)
THEOREM DeliversAsOne == Spec => DeliverySpec
<1>1. Spec => [](TypeOK /\ Calm /\ DeliveredMeansReceived)
  BY TypeCorrect, AlwaysCalm, DeliveredReceived, PTL
<1>2. TypeOK /\ Calm /\ DeliveredMeansReceived /\ DeliveredMeansReceived' /\ [Next]_vars
        => [Loop!Next]_(Loop!deliveryVars)
  BY LoopStep
<1> QED
  BY <1>1, <1>2, LoopAtFirst, PTL DEF Spec, DeliverySpec, Loop!Spec

=============================================================================
