--------------------------- MODULE AgentRunsProofs ---------------------------
(* One run per version, kept results, marks that agree with proposals, and  *)
(* bounded spending, for any tickets, versions, workers and troubles.        *)
EXTENDS AgentRuns, FiniteSetTheorems, TLAPS

EventRecord ==
  [status : {"pending", "sending", "delivered", "dead"}, attempts : 0..MAX_ATTEMPTS, wait : Nat]
RunRecord ==
  [outcome : {"none", "running", "error"} \cup Final, attempts : Nat, age : 0..Forever, cost : Nat]
WorkerRecord ==
  [step : Step, doc : Doc \cup {None}, tries : 0..MAX_ATTEMPTS, mode : Mode \cup {"off"},
   attempt : Nat, spent : Nat, result : {"none"} \cup Final]
TroublesRecord ==
  [failures : 0..MaxTroubles, crashes : 0..MaxTroubles, stalls : 0..MaxTroubles, lost : Nat]

-----------------------------------------------------------------------------
(* The inductive invariant.                                                 *)

(* A worker that is busy holds a version of a ticket; it has an attempt     *)
(* from beginning the run until its event is settled; what is marked was    *)
(* concluded as a proposal; a failure is among the troubles.                *)
StepsSound ==
  \A w \in Worker :
    /\ Busy(w) => worker[w].doc \in Doc
    /\ worker[w].step \in {"idle", "claimed", "looking"} => worker[w].attempt = 0
    /\ worker[w].step \in {"working", "concluded", "marked"} => worker[w].attempt > 0
    /\ worker[w].step = "marked" => worker[w].result = "proposed"
    /\ worker[w].step \in {"failing", "returning"} => Causes > 0

(* No two workers have the same attempt of a run, nor one that is to come.  *)
AttemptsApart ==
  \A w \in Worker : worker[w].attempt > 0 =>
    /\ worker[w].doc \in Doc
    /\ worker[w].attempt <= run[worker[w].doc].attempts
    /\ \A u \in Worker :
         worker[u].doc = worker[w].doc /\ worker[u].attempt = worker[w].attempt => u = w

(* Whoever may still begin a run of the ticket, found one begun, or failed. *)
InHand == {"claimed", "looking", "waiting", "failing", "returning"}
Holding(t) == {w \in Worker : worker[w].step \in InHand /\ TicketOf(w) = t}

(* The next to claim the event needs no further trouble: it is pending, its *)
(* lock is over, or nobody is left who could outlive the lock.              *)
Attended(t) == \E w \in Worker : Busy(w) /\ TicketOf(w) = t
Free(t) == \/ event[t].status = "pending"
           \/ event[t].status = "sending" /\ (event[t].wait = 0 \/ ~Attended(t))

(* Every attempt, begun or held in hand, has a trouble behind it, but one   *)
(* while the event is not free.                                             *)
Budget(t) == IF Free(t) THEN 0 ELSE 1
Paid(t, v) == run[<<t, v>>].attempts + Cardinality(Holding(t)) <= Causes + Budget(t)
AttemptsPaid == \A t \in Ticket, v \in Version : Paid(t, v)

(* While nothing went wrong, whoever works on a run has the attempt that is *)
(* running.                                                                 *)
WorkersCurrent ==
  Causes = 0 =>
    \A w \in Worker : worker[w].step \in {"working", "concluded", "marked"} => IsCurrent(w)

IInv ==
  /\ RecordsTyped
  /\ StepsSound
  /\ AttemptsApart
  /\ AttemptsPaid
  /\ WorkersCurrent

-----------------------------------------------------------------------------
(* The parts of the records.                                                *)

(* The record types by their names.                                         *)
LEMMA Typed ==
  RecordsTyped <=>
    /\ version \in [Ticket -> Version]
    /\ marked \in [Ticket -> Version \cup {None}]
    /\ event \in [Ticket -> EventRecord]
    /\ run \in [Doc -> RunRecord]
    /\ worker \in [Worker -> WorkerRecord]
    /\ troubles \in TroublesRecord
BY DEF RecordsTyped, EventRecord, RunRecord, WorkerRecord, TroublesRecord

(* The same of the next state.                                              *)
LEMMA TypedNext ==
  RecordsTyped' <=>
    /\ version' \in [Ticket -> Version]
    /\ marked' \in [Ticket -> Version \cup {None}]
    /\ event' \in [Ticket -> EventRecord]
    /\ run' \in [Doc -> RunRecord]
    /\ worker' \in [Worker -> WorkerRecord]
    /\ troubles' \in TroublesRecord
BY DEF RecordsTyped, EventRecord, RunRecord, WorkerRecord, TroublesRecord

(* The larger, and the smaller, of two numbers is one of them.              *)
LEMMA MaxOfTwo ==
  ASSUME NEW m \in Int, NEW n \in Int
  PROVE  /\ Max({m, n}) \in {m, n} /\ Max({m, n}) >= m /\ Max({m, n}) >= n
         /\ Min({m, n}) \in {m, n} /\ Min({m, n}) <= m /\ Min({m, n}) <= n
<1>1. \E x \in {m, n} : \A y \in {m, n} : x >= y
  OBVIOUS
<1>2. \E x \in {m, n} : \A y \in {m, n} : x =< y
  OBVIOUS
<1> QED
  BY <1>1, <1>2 DEF Max, Min

(* No age grows beyond what it is compared with.                            *)
LEMMA ForeverTyped == Forever \in Nat /\ 0 \in 0..Forever
<1>1. /\ STALE_RUN + 1 \in Nat /\ Cooldown \in Nat
      /\ STALE_RUN + 1 \in Int /\ Cooldown \in Int
  BY AgentRunsAssumption
<1>2. Max({STALE_RUN + 1, Cooldown}) \in {STALE_RUN + 1, Cooldown}
  BY <1>1, MaxOfTwo, Zenon
<1> QED
  BY <1>1, <1>2 DEF Forever

(* A version of a ticket is the pair of them.                               *)
LEMMA DocParts ==
  /\ \A t \in Ticket, v \in Version : <<t, v>> \in Doc /\ <<t, v>>[1] = t /\ <<t, v>>[2] = v
  /\ \A d \in Doc : d[1] \in Ticket /\ d[2] \in Version /\ d = <<d[1], d[2]>>
BY DEF Doc

(* A worker that goes on to a step keeps what it holds.                     *)
LEMMA GoesOn ==
  ASSUME RecordsTyped, NEW w \in Worker, NEW step \in Step, Goes(w, step)
  PROVE  /\ worker' \in [Worker -> WorkerRecord]
         /\ worker'[w] = [worker[w] EXCEPT !.step = step]
         /\ worker'[w].step = step /\ worker'[w].doc = worker[w].doc
         /\ worker'[w].attempt = worker[w].attempt /\ worker'[w].result = worker[w].result
         /\ \A u \in Worker : u # w => worker'[u] = worker[u]
<1>1. worker \in [Worker -> WorkerRecord] /\ worker[w] \in WorkerRecord
  BY Typed
<1>2. [worker[w] EXCEPT !.step = step] \in WorkerRecord
  BY <1>1 DEF WorkerRecord
<1>3. worker' = [worker EXCEPT ![w] = [worker[w] EXCEPT !.step = step]]
  BY <1>1 DEF Goes
<1> QED
  BY <1>1, <1>2, <1>3 DEF WorkerRecord

(* A worker that rests holds nothing.                                       *)
LEMMA RestsIdle ==
  ASSUME RecordsTyped, NEW w \in Worker, Rests(w)
  PROVE  /\ worker' \in [Worker -> WorkerRecord]
         /\ worker'[w].step = "idle" /\ worker'[w].doc = None /\ worker'[w].attempt = 0
         /\ \A u \in Worker : u # w => worker'[u] = worker[u]
<1>1. AtRest \in WorkerRecord /\ AtRest.step = "idle" /\ AtRest.doc = None /\ AtRest.attempt = 0
  BY AgentRunsAssumption DEF AtRest, WorkerRecord, Step
<1>2. worker \in [Worker -> WorkerRecord]
  BY Typed
<1> QED
  BY <1>1, <1>2 DEF Rests

(* Settling changes an event that is being sent, and no other.              *)
LEMMA Settled ==
  ASSUME RecordsTyped, NEW t \in Ticket, NEW status \in {"pending", "delivered", "dead"},
         NEW wait \in Nat, Settle(t, status, wait)
  PROVE  /\ event' \in [Ticket -> EventRecord]
         /\ \A s \in Ticket : s # t => event'[s] = event[s]
         /\ event[t].status # "sending" => event' = event
         /\ event[t].status = "sending" => event'[t].status = status
<1>1. event \in [Ticket -> EventRecord] /\ event[t] \in EventRecord
  BY Typed
<1>2. [event[t] EXCEPT !.status = status, !.wait = wait] \in EventRecord
  BY <1>1 DEF EventRecord
<1>3. CASE event[t].status # "sending"
  BY <1>1, <1>3 DEF Settle
<1>4. CASE event[t].status = "sending"
  <2>1. event' = [event EXCEPT ![t] = [event[t] EXCEPT !.status = status, !.wait = wait]]
    BY <1>1, <1>4 DEF Settle
  <2>2. [event[t] EXCEPT !.status = status, !.wait = wait].status = status
    BY <1>1 DEF EventRecord
  <2> QED
    BY <1>1, <1>2, <1>4, <2>1, <2>2
<1> QED
  BY <1>3, <1>4

(* A result is stored by the attempt that is running, and only by it.       *)
LEMMA Finished ==
  ASSUME RecordsTyped, NEW w \in Worker, worker[w].doc \in Doc,
         NEW outcome \in {"none", "error"} \cup Final, NEW cost \in 0..worker[w].spent,
         FinishRun(w, outcome, cost)
  PROVE  /\ run' \in [Doc -> RunRecord]
         /\ \A d \in Doc : run'[d].attempts = run[d].attempts
         /\ \A d \in Doc : d # worker[w].doc => run'[d] = run[d]
         /\ \A d \in Doc : run[d].outcome # "running" => run'[d] = run[d]
         /\ IsCurrent(w) => run'[worker[w].doc].outcome = outcome
         /\ ~IsCurrent(w) => run' = run
         /\ troubles' \in TroublesRecord
         /\ Causes' = Causes
<1> DEFINE d == worker[w].doc
<1>1. /\ run \in [Doc -> RunRecord] /\ run[d] \in RunRecord /\ troubles \in TroublesRecord
      /\ worker[w].spent \in Nat /\ cost \in Nat
  BY Typed DEF WorkerRecord
<1>2. \A n \in Nat : /\ [troubles EXCEPT !.lost = n] \in TroublesRecord
                     /\ [troubles EXCEPT !.lost = n].failures = troubles.failures
                     /\ [troubles EXCEPT !.lost = n].crashes = troubles.crashes
                     /\ [troubles EXCEPT !.lost = n].stalls = troubles.stalls
  BY <1>1 DEF TroublesRecord
<1>3. troubles.lost + worker[w].spent - cost \in Nat /\ troubles.lost + worker[w].spent \in Nat
  BY <1>1 DEF TroublesRecord
<1>4. troubles' \in TroublesRecord /\ Causes' = Causes
  <2>1. \/ troubles' = [troubles EXCEPT !.lost = troubles.lost + worker[w].spent - cost]
        \/ troubles' = [troubles EXCEPT !.lost = troubles.lost + worker[w].spent]
    BY <1>1 DEF FinishRun, TroublesRecord
  <2> QED
    BY <1>2, <1>3, <2>1 DEF Causes
<1>5. CASE ~IsCurrent(w)
  BY <1>1, <1>4, <1>5 DEF FinishRun
<1>6. CASE IsCurrent(w)
  <2>1. /\ run' = [run EXCEPT ![d] = [run[d] EXCEPT !.outcome = outcome, !.cost = cost, !.age = 0]]
        /\ run[d].outcome = "running"
    BY <1>1, <1>6 DEF FinishRun, IsCurrent
  <2>2. /\ [run[d] EXCEPT !.outcome = outcome, !.cost = cost, !.age = 0] \in RunRecord
        /\ [run[d] EXCEPT !.outcome = outcome, !.cost = cost, !.age = 0].attempts = run[d].attempts
        /\ [run[d] EXCEPT !.outcome = outcome, !.cost = cost, !.age = 0].outcome = outcome
    <3>1. /\ outcome \in {"none", "running", "error"} \cup Final /\ 0 \in 0..Forever
      BY ForeverTyped
    <3> QED
      BY <1>1, <3>1 DEF RunRecord
  <2> QED
    BY <1>1, <1>4, <1>6, <2>1, <2>2
<1> QED
  BY <1>5, <1>6

-----------------------------------------------------------------------------
(* What a step of one worker must show, for each part of the invariant.     *)

OnlyMoves(w) == \A u \in Worker : u # w => worker'[u] = worker[u]

(* How many hold an attempt in hand, before and after one worker moved.     *)
Hand(w, t) == IF w \in Holding(t) THEN 1 ELSE 0

(* One worker's move changes the number that hold a ticket's event by what  *)
(* it takes up or puts down.                                                *)
LEMMA HandsCounted ==
  ASSUME NEW w \in Worker, NEW t, OnlyMoves(w)
  PROVE  /\ Cardinality(Holding(t)) \in Nat
         /\ Cardinality(Holding(t)') \in Nat
         /\ Cardinality(Holding(t)') = Cardinality(Holding(t)) + Hand(w, t)' - Hand(w, t)
         /\ Cardinality(Holding(t)) >= Hand(w, t)
<1> DEFINE Before == Holding(t)
           After == Holding(t)'
           Others == Before \ {w}
<1>1. IsFiniteSet(Before) /\ IsFiniteSet(After) /\ IsFiniteSet(Others)
  BY AgentRunsAssumption, FS_Subset DEF Holding
<1>2. After \ {w} = Others
  BY DEF Holding, OnlyMoves, TicketOf
<1>3. /\ Cardinality(Others) \in Nat /\ Cardinality(Before) \in Nat /\ Cardinality(After) \in Nat
  BY <1>1, FS_CardinalityType
<1>4. Cardinality(Before) = Cardinality(Others) + (IF w \in Before THEN 1 ELSE 0)
  <2>1. CASE w \in Before
    BY <1>1, <1>3, <2>1, FS_RemoveElement
  <2>2. CASE w \notin Before
    <3>1. Others = Before
      BY <2>2
    <3>2. Cardinality(Others) = Cardinality(Before)
      BY <3>1
    <3> QED
      BY <1>3, <2>2, <3>2
  <2> QED
    BY <2>1, <2>2
<1>5. Cardinality(After) = Cardinality(Others) + (IF w \in After THEN 1 ELSE 0)
  <2>1. CASE w \in After
    BY <1>1, <1>2, <1>3, <2>1, FS_RemoveElement
  <2>2. CASE w \notin After
    <3>1. Others = After
      BY <1>2, <2>2
    <3> QED
      BY <1>3, <2>2, <3>1
  <2> QED
    BY <2>1, <2>2
<1> QED
  BY <1>3, <1>4, <1>5 DEF Hand

(* Causes are counted.                                                      *)
LEMMA CausesTyped == (RecordsTyped => Causes \in Nat) /\ (RecordsTyped' => Causes' \in Nat)
BY Typed, TypedNext DEF TroublesRecord, Causes

(* A ticket stays paid for when what its worker takes is no more than what  *)
(* it lays down, a new trouble, or the freedom of the event.                *)
LEMMA PaidKept ==
  ASSUME IInv, RecordsTyped', NEW w \in Worker, OnlyMoves(w),
         NEW t \in Ticket, NEW v \in Version, NEW a \in Nat,
         run'[<<t, v>>].attempts <= run[<<t, v>>].attempts + a,
         a + Hand(w, t)' + Budget(t) <= Hand(w, t) + (Causes' - Causes) + Budget(t)'
  PROVE  Paid(t, v)'
<1>1. Causes \in Nat /\ Causes' \in Nat
  BY CausesTyped DEF IInv
<1>2. run[<<t, v>>].attempts \in Nat /\ run'[<<t, v>>].attempts \in Nat
  BY Typed, TypedNext, DocParts DEF IInv, RunRecord
<1>3. Budget(t) \in {0, 1} /\ Budget(t)' \in {0, 1} /\ Hand(w, t) \in {0, 1} /\ Hand(w, t)' \in {0, 1}
  BY DEF Budget, Hand
<1>4. run[<<t, v>>].attempts + Cardinality(Holding(t)) <= Causes + Budget(t)
  BY DEF IInv, AttemptsPaid, Paid
<1>5. /\ Cardinality(Holding(t)) \in Nat
      /\ Cardinality(Holding(t)') \in Nat
      /\ Cardinality(Holding(t)') = Cardinality(Holding(t)) + Hand(w, t)' - Hand(w, t)
  BY HandsCounted
<1>6. run'[<<t, v>>].attempts + Cardinality(Holding(t)') <= Causes' + Budget(t)'
  BY <1>1, <1>2, <1>3, <1>4, <1>5
<1> QED
  BY <1>6 DEF Paid

(* Tickets that a worker is not on are not its concern.                     *)
LEMMA PaidStep ==
  ASSUME IInv, RecordsTyped', NEW w \in Worker, OnlyMoves(w), NEW t \in Ticket, NEW a \in Nat,
         Busy(w) => TicketOf(w) = t, Busy(w)' => TicketOf(w)' = t,
         \A s \in Ticket : s # t => event'[s] = event[s],
         \A s \in Ticket, v \in Version :
           run'[<<s, v>>].attempts <= run[<<s, v>>].attempts + IF s = t THEN a ELSE 0,
         Causes' >= Causes,
         a + Hand(w, t)' + Budget(t) <= Hand(w, t) + (Causes' - Causes) + Budget(t)'
  PROVE  AttemptsPaid'
<1> SUFFICES ASSUME NEW s \in Ticket, NEW v \in Version PROVE Paid(s, v)'
  BY DEF AttemptsPaid, Version
<1>1. CASE s = t
  BY <1>1, PaidKept
<1>2. CASE s # t
  <2>1. Hand(w, s) = 0 /\ Hand(w, s)' = 0
    BY <1>2 DEF Hand, Holding, InHand, Busy
  <2>2. Attended(s)' <=> Attended(s)
    BY <1>2 DEF Attended, Busy, TicketOf, OnlyMoves
  <2>3. Budget(s)' = Budget(s)
    BY <1>2, <2>2 DEF Budget, Free
  <2>4. run'[<<s, v>>].attempts <= run[<<s, v>>].attempts + 0
    BY <1>2
  <2>5. Causes \in Nat /\ Causes' \in Nat /\ Budget(s) \in {0, 1}
    BY CausesTyped DEF IInv, Budget
  <2>6. 0 + Hand(w, s)' + Budget(s) <= Hand(w, s) + (Causes' - Causes) + Budget(s)'
    BY <2>1, <2>3, <2>5
  <2> QED
    BY <2>4, <2>6, PaidKept
<1> QED
  BY <1>1, <1>2

(* The event stays as free as it was while its worker stays on it.          *)
LEMMA BudgetKept ==
  ASSUME NEW w \in Worker, OnlyMoves(w), NEW t \in Ticket, event'[t] = event[t],
         Busy(w) /\ TicketOf(w) = t => Busy(w)' /\ TicketOf(w)' = t
  PROVE  Budget(t) <= Budget(t)' /\ Budget(t) \in {0, 1} /\ Budget(t)' \in {0, 1}
<1>1. Attended(t) => Attended(t)'
  BY DEF Attended, Busy, TicketOf, OnlyMoves
<1> QED
  BY <1>1 DEF Budget, Free

(* Attempts stay apart: a worker drops its own, keeps it, or takes the next.*)
LEMMA ApartKept ==
  ASSUME IInv, RecordsTyped', NEW w \in Worker, OnlyMoves(w),
         \A d \in Doc : run'[d].attempts >= run[d].attempts,
         \/ worker'[w].attempt = 0
         \/ worker'[w].doc = worker[w].doc /\ worker'[w].attempt = worker[w].attempt
         \/ /\ worker'[w].doc = worker[w].doc /\ worker[w].doc \in Doc
            /\ worker'[w].attempt = run[worker[w].doc].attempts + 1
            /\ run'[worker[w].doc].attempts = run[worker[w].doc].attempts + 1
  PROVE  AttemptsApart'
<1>1. \A d \in Doc : run[d].attempts \in Nat /\ run'[d].attempts \in Nat
  BY Typed, TypedNext DEF IInv, RunRecord
<1>2. \A u \in Worker : worker[u].attempt \in Nat /\ worker'[u].attempt \in Nat
  BY Typed, TypedNext DEF IInv, WorkerRecord
<1>3. \A u \in Worker : worker[u].attempt > 0 =>
         /\ worker[u].doc \in Doc
         /\ worker[u].attempt <= run[worker[u].doc].attempts
         /\ \A x \in Worker :
              worker[x].doc = worker[u].doc /\ worker[x].attempt = worker[u].attempt => x = u
  BY DEF IInv, AttemptsApart
<1> SUFFICES ASSUME NEW u \in Worker, worker'[u].attempt > 0
             PROVE  /\ worker'[u].doc \in Doc
                    /\ worker'[u].attempt <= run'[worker'[u].doc].attempts
                    /\ \A x \in Worker :
                         worker'[x].doc = worker'[u].doc /\ worker'[x].attempt = worker'[u].attempt
                           => x = u
  BY DEF AttemptsApart
<1>4. CASE worker'[w].attempt = 0
  BY <1>1, <1>2, <1>3, <1>4 DEF OnlyMoves
<1>5. CASE worker'[w].doc = worker[w].doc /\ worker'[w].attempt = worker[w].attempt
  <2>1. \A x \in Worker : worker'[x].doc = worker[x].doc /\ worker'[x].attempt = worker[x].attempt
    BY <1>5 DEF OnlyMoves
  <2>2. worker[u].doc \in Doc
    BY <1>3, <2>1
  <2> QED
    BY <1>1, <1>2, <1>3, <2>1, <2>2
<1>6. CASE /\ worker'[w].doc = worker[w].doc /\ worker[w].doc \in Doc
           /\ worker'[w].attempt = run[worker[w].doc].attempts + 1
           /\ run'[worker[w].doc].attempts = run[worker[w].doc].attempts + 1
  <2>1. ASSUME NEW x \in Worker, x # w, worker[x].attempt > 0
        PROVE  /\ worker'[x].doc # worker'[w].doc \/ worker'[x].attempt # worker'[w].attempt
               /\ worker'[x] = worker[x]
    BY <1>1, <1>2, <1>3, <1>6, <2>1 DEF OnlyMoves
  <2>2. CASE u = w
    BY <1>1, <1>2, <1>6, <2>1, <2>2 DEF OnlyMoves
  <2>3. CASE u # w
    <3>1. worker'[u] = worker[u] /\ worker[u].doc \in Doc
      BY <1>3, <2>3 DEF OnlyMoves
    <3>2. \A x \in Worker : x # w => worker'[x] = worker[x]
      BY DEF OnlyMoves
    <3>3. worker'[u].doc # worker'[w].doc \/ worker'[u].attempt # worker'[w].attempt
      BY <2>1, <2>3, <3>1
    <3> QED
      BY <1>1, <1>2, <1>3, <3>1, <3>2, <3>3
  <2> QED
    BY <2>2, <2>3
<1> QED
  BY <1>4, <1>5, <1>6

(* The other workers' steps stay sound.                                     *)
LEMMA StepsKept ==
  ASSUME IInv, RecordsTyped', NEW w \in Worker, OnlyMoves(w),
         Causes' >= Causes,
         /\ Busy(w)' => worker'[w].doc \in Doc
         /\ worker'[w].step \in {"idle", "claimed", "looking"} => worker'[w].attempt = 0
         /\ worker'[w].step \in {"working", "concluded", "marked"} => worker'[w].attempt > 0
         /\ worker'[w].step = "marked" => worker'[w].result = "proposed"
         /\ worker'[w].step \in {"failing", "returning"} => Causes' > 0
  PROVE  StepsSound'
<1>1. Causes \in Nat /\ Causes' \in Nat
  BY CausesTyped DEF IInv
<1> SUFFICES ASSUME NEW u \in Worker, u # w
             PROVE  /\ Busy(u)' => worker'[u].doc \in Doc
                    /\ worker'[u].step \in {"idle", "claimed", "looking"} => worker'[u].attempt = 0
                    /\ worker'[u].step \in {"working", "concluded", "marked"} => worker'[u].attempt > 0
                    /\ worker'[u].step = "marked" => worker'[u].result = "proposed"
                    /\ worker'[u].step \in {"failing", "returning"} => Causes' > 0
  BY DEF StepsSound
<1>2. worker'[u] = worker[u]
  BY DEF OnlyMoves
<1>3. /\ Busy(u) => worker[u].doc \in Doc
      /\ worker[u].step \in {"idle", "claimed", "looking"} => worker[u].attempt = 0
      /\ worker[u].step \in {"working", "concluded", "marked"} => worker[u].attempt > 0
      /\ worker[u].step = "marked" => worker[u].result = "proposed"
      /\ worker[u].step \in {"failing", "returning"} => Causes > 0
  BY DEF IInv, StepsSound
<1> QED
  BY <1>1, <1>2, <1>3 DEF Busy

(* The other workers' attempts stay current while their runs stay.          *)
LEMMA CurrentKept ==
  ASSUME IInv, RecordsTyped', NEW w \in Worker, OnlyMoves(w), Causes' >= Causes,
         Causes' = 0 =>
           /\ worker'[w].step \in {"working", "concluded", "marked"} => IsCurrent(w)'
           /\ \A u \in Worker :
                u # w /\ worker[u].step \in {"working", "concluded", "marked"}
                  => /\ run'[worker[u].doc].outcome = run[worker[u].doc].outcome
                     /\ run'[worker[u].doc].attempts = run[worker[u].doc].attempts
  PROVE  WorkersCurrent'
<1>1. Causes \in Nat /\ Causes' \in Nat
  BY CausesTyped DEF IInv
<1>2. Causes' = 0 => Causes = 0
  BY <1>1
<1>3. Causes' = 0 => (\A u \in Worker : worker[u].step \in {"working", "concluded", "marked"} => IsCurrent(u))
  BY <1>2 DEF IInv, WorkersCurrent
<1> QED
  BY <1>3 DEF WorkersCurrent, IsCurrent, OnlyMoves

-----------------------------------------------------------------------------
(* The actions.                                                             *)

(* What holds of a busy worker.                                             *)
LEMMA AtWork ==
  ASSUME IInv, NEW w \in Worker, Busy(w)
  PROVE  /\ worker[w] \in WorkerRecord /\ worker[w].doc \in Doc /\ TicketOf(w) \in Ticket
         /\ worker[w].doc[2] \in Version /\ worker[w].doc = <<TicketOf(w), worker[w].doc[2]>>
         /\ run[worker[w].doc] \in RunRecord /\ Causes \in Nat
<1>1. worker[w] \in WorkerRecord /\ Causes \in Nat
  BY Typed, CausesTyped DEF IInv
<1>2. worker[w].doc \in Doc
  BY DEF IInv, StepsSound
<1>3. run[worker[w].doc] \in RunRecord
  BY <1>2, Typed DEF IInv
<1> QED
  BY <1>1, <1>2, <1>3, DocParts DEF TicketOf

(* A worker that goes on with what it has, and takes nothing new in hand.   *)
LEMMA SameWork ==
  ASSUME IInv, RecordsTyped', NEW w \in Worker, Busy(w), OnlyMoves(w),
         worker'[w].doc = worker[w].doc, worker'[w].attempt = worker[w].attempt, Busy(w)',
         worker'[w].step \in InHand => worker[w].step \in InHand,
         UNCHANGED event, \A d \in Doc : run'[d].attempts = run[d].attempts, Causes' = Causes
  PROVE  AttemptsPaid' /\ AttemptsApart'
<1> DEFINE t == TicketOf(w)
<1>1. t \in Ticket /\ TicketOf(w)' = t /\ Causes \in Nat
  BY AtWork DEF TicketOf
<1>2. \A d \in Doc : run[d].attempts \in Nat
  BY Typed DEF IInv, RunRecord
<1>3. Hand(w, t)' <= Hand(w, t) /\ Hand(w, t) \in {0, 1} /\ Hand(w, t)' \in {0, 1}
  BY <1>1 DEF Hand, Holding, TicketOf
<1>4. Budget(t) <= Budget(t)' /\ Budget(t) \in {0, 1} /\ Budget(t)' \in {0, 1}
  BY <1>1, BudgetKept
<1>5. 0 + Hand(w, t)' + Budget(t) <= Hand(w, t) + (Causes' - Causes) + Budget(t)'
  BY <1>1, <1>3, <1>4
<1>6. \A s \in Ticket, v \in Version :
         run'[<<s, v>>].attempts <= run[<<s, v>>].attempts + IF s = t THEN 0 ELSE 0
  <2> TAKE s \in Ticket, v \in Version
  <2>1. <<s, v>> \in Doc
    BY DocParts
  <2>2. /\ run'[<<s, v>>].attempts = run[<<s, v>>].attempts /\ run[<<s, v>>].attempts \in Nat
    BY <1>2, <2>1
  <2> QED
    BY <2>2
<1>7. AttemptsPaid'
  BY <1>1, <1>5, <1>6, PaidStep
<1>8. AttemptsApart'
  BY <1>2, ApartKept
<1> QED
  BY <1>7, <1>8

(* Steps of a worker that leave runs and events alone.                      *)
LEMMA QuietWork ==
  ASSUME IInv, NEW w \in Worker, Busy(w), OnlyMoves(w), worker' \in [Worker -> WorkerRecord],
         worker'[w].doc = worker[w].doc, worker'[w].attempt = worker[w].attempt,
         worker'[w].step \in {"looking", "waiting", "delivering", "working", "concluded", "marked"},
         worker'[w].step = "looking" => worker[w].step = "claimed",
         worker'[w].step = "waiting" => worker[w].step = "looking",
         worker'[w].step \in {"working", "concluded", "marked"} =>
           worker[w].step \in {"working", "concluded", "marked"},
         UNCHANGED <<event, run, troubles>>, version' \in [Ticket -> Version],
         marked' \in [Ticket -> Version \cup {None}],
         worker'[w].step = "marked" => worker'[w].result = "proposed"
  PROVE  RecordsTyped' /\ StepsSound' /\ AttemptsApart' /\ AttemptsPaid' /\ WorkersCurrent'
<1>1. RecordsTyped'
  BY Typed, TypedNext DEF IInv
<1>2. Causes' = Causes /\ Causes \in Nat
  BY AtWork DEF Causes
<1>3. AttemptsPaid' /\ AttemptsApart'
  BY <1>1, <1>2, SameWork DEF InHand, Busy
<1>4. /\ worker[w].doc \in Doc
      /\ worker[w].step \in {"working", "concluded", "marked"} => worker[w].attempt > 0
      /\ worker[w].step \in {"claimed", "looking"} => worker[w].attempt = 0
  BY AtWork DEF IInv, StepsSound
<1>5. StepsSound'
  BY <1>1, <1>2, <1>4, StepsKept
<1>6. Causes = 0 /\ worker[w].step \in {"working", "concluded", "marked"} => IsCurrent(w)
  BY DEF IInv, WorkersCurrent
<1>7. Causes' = 0 /\ worker'[w].step \in {"working", "concluded", "marked"} => IsCurrent(w)'
  BY <1>2, <1>6 DEF IsCurrent
<1>8. WorkersCurrent'
  BY <1>1, <1>2, <1>7, CurrentKept
<1> QED
  BY <1>1, <1>3, <1>5, <1>8

(* A run that cannot be begun is looked up.                                 *)
LEMMA MissStep == ASSUME IInv, NEW w \in Worker, Miss(w) PROVE IInv'
<1>1. /\ Busy(w) /\ UNCHANGED <<version, marked, event, run, troubles>>
      /\ worker[w].step = "claimed" /\ Goes(w, "looking")
  BY DEF Miss, Busy
<1>2. /\ worker' \in [Worker -> WorkerRecord] /\ OnlyMoves(w)
      /\ worker'[w].step = "looking"
      /\ worker'[w].doc = worker[w].doc /\ worker'[w].attempt = worker[w].attempt
  BY <1>1, GoesOn DEF IInv, Step, OnlyMoves
<1>3. RecordsTyped' /\ StepsSound' /\ AttemptsApart' /\ AttemptsPaid' /\ WorkersCurrent'
  BY <1>1, <1>2, QuietWork, Typed DEF IInv
<1> QED
  BY <1>3 DEF IInv

(* A run that someone else is on, or that is done, is left alone.           *)
LEMMA DeclineStep == ASSUME IInv, NEW w \in Worker, Decline(w) PROVE IInv'
<1>1. /\ Busy(w) /\ UNCHANGED <<version, marked, event, run, troubles>>
      /\ worker[w].step = "looking"
      /\ Goes(w, "waiting") \/ Goes(w, "delivering")
  BY DEF Decline, Busy
<1>2. /\ worker' \in [Worker -> WorkerRecord] /\ OnlyMoves(w)
      /\ worker'[w].step \in {"waiting", "delivering"}
      /\ worker'[w].doc = worker[w].doc /\ worker'[w].attempt = worker[w].attempt
  BY <1>1, GoesOn DEF IInv, Step, OnlyMoves
<1>3. RecordsTyped' /\ StepsSound' /\ AttemptsApart' /\ AttemptsPaid' /\ WorkersCurrent'
  BY <1>1, <1>2, QuietWork, Typed DEF IInv
<1> QED
  BY <1>3 DEF IInv

(* A call to the model, or the day's spending found too high.               *)
LEMMA AskStep == ASSUME IInv, NEW w \in Worker, Ask(w) PROVE IInv'
<1>1. /\ Busy(w) /\ UNCHANGED <<version, marked, event, run, troubles>>
      /\ worker[w].step = "working"
      /\ \/ \E cost \in 1..MaxCost : worker' = [worker EXCEPT ![w].spent = @ + cost]
         \/ worker' = [worker EXCEPT ![w].step = "concluded", ![w].result = "stopped"]
  BY DEF Ask, Busy
<1>2. worker[w] \in WorkerRecord /\ worker \in [Worker -> WorkerRecord] /\ worker[w].spent \in Nat
  BY Typed DEF IInv, WorkerRecord
<1>3. PICK new \in WorkerRecord :
        /\ worker' = [worker EXCEPT ![w] = new] /\ new.step \in {"working", "concluded"}
        /\ new.doc = worker[w].doc /\ new.attempt = worker[w].attempt
  <2>1. ASSUME NEW cost \in 1..MaxCost, worker' = [worker EXCEPT ![w].spent = @ + cost]
        PROVE  \E new \in WorkerRecord :
                 /\ worker' = [worker EXCEPT ![w] = new] /\ new.step \in {"working", "concluded"}
                 /\ new.doc = worker[w].doc /\ new.attempt = worker[w].attempt
    <3> DEFINE new == [worker[w] EXCEPT !.spent = worker[w].spent + cost]
    <3>1. worker[w].spent + cost \in Nat
      BY <1>2, AgentRunsAssumption
    <3>2. /\ new \in WorkerRecord /\ new.step = "working"
          /\ new.doc = worker[w].doc /\ new.attempt = worker[w].attempt
      BY <1>1, <1>2, <3>1 DEF WorkerRecord
    <3>3. worker' = [worker EXCEPT ![w] = new]
      BY <1>2, <2>1
    <3> HIDE DEF new
    <3> QED
      BY <3>2, <3>3
  <2>2. ASSUME worker' = [worker EXCEPT ![w].step = "concluded", ![w].result = "stopped"]
        PROVE  \E new \in WorkerRecord :
                 /\ worker' = [worker EXCEPT ![w] = new] /\ new.step \in {"working", "concluded"}
                 /\ new.doc = worker[w].doc /\ new.attempt = worker[w].attempt
    <3> DEFINE new == [worker[w] EXCEPT !.step = "concluded", !.result = "stopped"]
    <3>1. "concluded" \in Step /\ "stopped" \in {"none"} \cup Final
      BY DEF Step, Final, Stopped
    <3>2. /\ new \in WorkerRecord /\ new.step = "concluded"
          /\ new.doc = worker[w].doc /\ new.attempt = worker[w].attempt
      BY <1>2, <3>1 DEF WorkerRecord
    <3>3. worker' = [worker EXCEPT ![w] = new]
      BY <1>2, <2>2
    <3> HIDE DEF new
    <3> QED
      BY <3>2, <3>3
  <2> QED
    BY <1>1, <2>1, <2>2
<1>4. /\ worker' \in [Worker -> WorkerRecord] /\ OnlyMoves(w)
      /\ worker'[w].step \in {"working", "concluded"}
      /\ worker'[w].doc = worker[w].doc /\ worker'[w].attempt = worker[w].attempt
  BY <1>2, <1>3 DEF OnlyMoves
<1>5. RecordsTyped' /\ StepsSound' /\ AttemptsApart' /\ AttemptsPaid' /\ WorkersCurrent'
  BY <1>1, <1>4, QuietWork, Typed DEF IInv
<1> QED
  BY <1>5 DEF IInv

(* A run that ends with a result not yet stored.                            *)
LEMMA ConcludeStep == ASSUME IInv, NEW w \in Worker, Conclude(w) PROVE IInv'
<1>1. /\ Busy(w) /\ UNCHANGED <<version, marked, event, run, troubles>>
      /\ worker[w].step = "working"
  BY DEF Conclude, Busy
<1>2. worker[w] \in WorkerRecord /\ worker \in [Worker -> WorkerRecord]
  BY Typed DEF IInv
<1>3. PICK result \in {"finished", "proposed"} :
        worker' = [worker EXCEPT ![w].step = "concluded", ![w].result = result]
  BY DEF Conclude
<1>4. worker' = [worker EXCEPT ![w] = [worker[w] EXCEPT !.step = "concluded", !.result = result]]
  BY <1>2, <1>3
<1>5. [worker[w] EXCEPT !.step = "concluded", !.result = result] \in WorkerRecord
  BY <1>2 DEF WorkerRecord, Step, Final, Stopped
<1>6. /\ worker' \in [Worker -> WorkerRecord] /\ OnlyMoves(w)
      /\ worker'[w].step = "concluded"
      /\ worker'[w].doc = worker[w].doc /\ worker'[w].attempt = worker[w].attempt
  BY <1>1, <1>2, <1>4, <1>5 DEF WorkerRecord, OnlyMoves
<1>7. RecordsTyped' /\ StepsSound' /\ AttemptsApart' /\ AttemptsPaid' /\ WorkersCurrent'
  BY <1>1, <1>6, QuietWork, Typed DEF IInv
<1> QED
  BY <1>7 DEF IInv

(* Steps of an edit change versions and marks, and nothing the workers, the *)
(* events and the runs have to do with each other.                          *)
LEMMA EditStep ==
  ASSUME IInv, UNCHANGED <<event, run, worker, troubles>>,
         version' \in [Ticket -> Version], marked' \in [Ticket -> Version \cup {None}]
  PROVE  IInv'
<1>3. RecordsTyped'
  BY Typed, TypedNext DEF IInv
<1>4. StepsSound' /\ AttemptsApart'
  <2>1. StepsSound'
    BY DEF IInv, StepsSound, Busy, TicketOf, Causes
  <2>2. AttemptsApart'
    BY DEF IInv, AttemptsApart
  <2> QED
    BY <2>1, <2>2
<1>5. AttemptsPaid'
  <2>1. \A u \in Ticket : Holding(u)' = Holding(u) /\ (Free(u)' <=> Free(u))
    BY DEF Holding, Free, Attended, Busy, TicketOf
  <2>2. Causes' = Causes /\ \A u \in Ticket : Budget(u)' = Budget(u)
    BY <2>1 DEF Causes, Budget
  <2>3. \A u \in Ticket, v \in Version : Paid(u, v) => Paid(u, v)'
    BY <2>1, <2>2 DEF Paid
  <2> QED
    BY <2>3 DEF IInv, AttemptsPaid
<1>6. WorkersCurrent'
  BY DEF IInv, WorkersCurrent, Causes, IsCurrent
<1> QED
  BY <1>3, <1>4, <1>5, <1>6 DEF IInv

(* An edit is read: by a person, or by a run, which then waits for it.      *)
LEMMA ReadStep ==
  ASSUME IInv, NEW e \in Editor,
         \/ \E t \in Ticket : PersonReads(e, t)
         \/ \E w \in Worker : Triage(w, e)
  PROVE  IInv'
<1>1. UNCHANGED <<version, marked, event, run, worker, troubles>>
  BY DEF PersonReads, Triage
<1> QED
  BY <1>1, EditStep, Typed DEF IInv

(* An edit is written: the ticket has a new version, and maybe another mark.*)
LEMMA CommitEditStep ==
  ASSUME IInv, EditsTyped, NEW e \in Editor, CommitEdit(e)
  PROVE  /\ IInv' /\ request[e].ticket \in Ticket
         /\ marked' = marked \/ marked' = [marked EXCEPT ![request[e].ticket] = MarkWritten(request[e])]
<1> DEFINE r == request[e]
           t == r.ticket
<1>1. /\ r # None /\ version[t] = r.version /\ version' = [version EXCEPT ![t] = @ + 1]
      /\ marked' = marked \/ marked' = [marked EXCEPT ![t] = MarkWritten(r)]
      /\ UNCHANGED <<event, run, worker, troubles>>
  BY DEF CommitEdit
<1>2. /\ t \in Ticket /\ r.marked \in Version \cup {None} /\ r.run \in Version \cup {None}
      /\ r.version \in Version /\ r.version < MaxVersion
  <2>1. /\ t \in Ticket /\ r.marked \in Version \cup {None} /\ r.run \in Version \cup {None}
        /\ r.version \in Version \ {MaxVersion}
    BY <1>1 DEF EditsTyped
  <2> QED
    BY <2>1, AgentRunsAssumption DEF Version
<1>3. version' \in [Ticket -> Version]
  BY <1>1, <1>2, AgentRunsAssumption, Typed DEF IInv, Version
<1>4. marked' \in [Ticket -> Version \cup {None}]
  BY <1>1, <1>2, Typed DEF IInv, MarkWritten
<1> QED
  BY <1>1, <1>2, <1>3, <1>4, EditStep

(* An edit is lost, or its run no longer waits for it.                      *)
LEMMA LoseEditStep ==
  ASSUME IInv, (\E e \in Editor : LoseEdit(e)) \/ (\E w \in Worker : TimeOut(w))
  PROVE  IInv'
<1>1. UNCHANGED <<version, marked, event, run, worker, troubles>>
  BY DEF LoseEdit, TimeOut
<1> QED
  BY <1>1, EditStep, Typed DEF IInv

(* A mark is put on the ticket of a run that concluded with a proposal.     *)
LEMMA RecordProposalStep == ASSUME IInv, NEW w \in Worker, RecordProposal(w) PROVE IInv'
<1> DEFINE t == TicketOf(w)
           v == worker[w].doc[2]
<1>1. /\ Busy(w) /\ UNCHANGED <<version, event, run, troubles>>
      /\ worker[w].step = "concluded" /\ worker[w].result = "proposed"
      /\ marked' = [marked EXCEPT ![t] = v]
      /\ Goes(w, "marked")
  BY DEF RecordProposal, Busy
<1>2. /\ worker' \in [Worker -> WorkerRecord] /\ OnlyMoves(w)
      /\ worker'[w].step = "marked" /\ worker'[w].result = "proposed"
      /\ worker'[w].doc = worker[w].doc /\ worker'[w].attempt = worker[w].attempt
  BY <1>1, GoesOn DEF IInv, Step, OnlyMoves
<1>3. t \in Ticket /\ v \in Version /\ marked \in [Ticket -> Version \cup {None}]
  BY <1>1, AtWork, Typed DEF IInv
<1>4. marked' \in [Ticket -> Version \cup {None}]
  BY <1>1, <1>3
<1>5. RecordsTyped' /\ StepsSound' /\ AttemptsApart' /\ AttemptsPaid' /\ WorkersCurrent'
  BY <1>1, <1>2, <1>4, QuietWork, Typed DEF IInv
<1> QED
  BY <1>5 DEF IInv

(* A free event is claimed: its worker holds the attempt to come.           *)
LEMMA ClaimStep == ASSUME IInv, NEW w \in Worker, NEW t \in Ticket, Claim(w, t) PROVE IInv'
<1> DEFINE tries == Min({event[t].attempts + 1, MAX_ATTEMPTS})
           sent == [status |-> "sending", attempts |-> tries, wait |-> AGENT_LOCK]
<1>1. /\ ~Busy(w) /\ Claimable(t) /\ UNCHANGED <<version, marked, run, recent, troubles>>
      /\ event' = [event EXCEPT ![t] = sent]
  BY DEF Claim
<1>2. PICK mode \in Mode \cup {"off"} :
        worker' = [worker EXCEPT ![w] = [AtRest EXCEPT !.step = "claimed", !.tries = tries,
                                           !.doc = <<t, version[t]>>, !.mode = mode]]
  BY DEF Claim
<1> DEFINE new == [AtRest EXCEPT !.step = "claimed", !.tries = tries,
                                 !.doc = <<t, version[t]>>, !.mode = mode]
<1>3. /\ worker \in [Worker -> WorkerRecord] /\ event \in [Ticket -> EventRecord]
      /\ event[t].attempts \in 0..MAX_ATTEMPTS /\ <<t, version[t]>> \in Doc /\ Causes \in Nat
      /\ worker[w].step = "idle"
  BY <1>1, Typed, DocParts, CausesTyped DEF IInv, EventRecord, Busy
<1>4. tries \in 0..MAX_ATTEMPTS
  <2>1. event[t].attempts + 1 \in Int /\ MAX_ATTEMPTS \in Int /\ MAX_ATTEMPTS > 0
    BY <1>3, AgentRunsAssumption
  <2>2. tries \in {event[t].attempts + 1, MAX_ATTEMPTS} /\ tries <= MAX_ATTEMPTS
    BY <2>1, MaxOfTwo, Zenon
  <2> QED
    BY <1>3, <2>1, <2>2
<1>5. AGENT_LOCK \in Nat /\ AGENT_LOCK > 0
  BY AgentRunsAssumption
<1>6. /\ new \in WorkerRecord
      /\ new.step = "claimed" /\ new.doc = <<t, version[t]>> /\ new.attempt = 0
  BY <1>3, <1>4, AgentRunsAssumption DEF AtRest, WorkerRecord, Step
<1>7. /\ worker' \in [Worker -> WorkerRecord] /\ OnlyMoves(w)
      /\ worker'[w].step = "claimed" /\ worker'[w].doc = <<t, version[t]>> /\ worker'[w].attempt = 0
  BY <1>2, <1>3, <1>6 DEF OnlyMoves
<1>8. sent \in EventRecord
  BY <1>4, <1>5 DEF EventRecord
<1>9. /\ event' \in [Ticket -> EventRecord] /\ event'[t] = sent
      /\ \A s \in Ticket : s # t => event'[s] = event[s]
  BY <1>1, <1>3, <1>8
<1>10. RecordsTyped' /\ Causes' = Causes
  BY <1>1, <1>7, <1>9, Typed, TypedNext DEF IInv, Causes
<1>11. TicketOf(w)' = t /\ Busy(w)'
  BY <1>3, <1>7, DocParts DEF TicketOf, Busy
<1>12. AttemptsPaid'
  <2>1. Free(t) /\ ~Free(t)'
    <3>1. Free(t)
      BY <1>1 DEF Claimable, Free
    <3>2. Attended(t)'
      BY <1>11 DEF Attended
    <3>3. event'[t].status = "sending" /\ event'[t].wait # 0
      BY <1>5, <1>9
    <3> QED
      BY <3>1, <3>2, <3>3 DEF Free
  <2>2. Budget(t) = 0 /\ Budget(t)' = 1
    BY <2>1 DEF Budget
  <2>3. Hand(w, t) = 0 /\ Hand(w, t)' \in {0, 1}
    BY <1>3 DEF Hand, Holding, InHand
  <2>4. 0 + Hand(w, t)' + Budget(t) <= Hand(w, t) + (Causes' - Causes) + Budget(t)'
    BY <1>3, <1>10, <2>2, <2>3
  <2>5. \A s \in Ticket, v \in Version :
          run'[<<s, v>>].attempts <= run[<<s, v>>].attempts + IF s = t THEN 0 ELSE 0
    <3> TAKE s \in Ticket, v \in Version
    <3>1. <<s, v>> \in Doc
      BY DocParts
    <3>2. run'[<<s, v>>].attempts = run[<<s, v>>].attempts /\ run[<<s, v>>].attempts \in Nat
      BY <1>1, <3>1, Typed DEF IInv, RunRecord
    <3> QED
      BY <3>2
  <2> QED
    BY <1>1, <1>3, <1>7, <1>9, <1>10, <1>11, <2>4, <2>5, PaidStep
<1>13. \A d \in Doc : run[d].attempts \in Nat
  BY Typed DEF IInv, RunRecord
<1>14. AttemptsApart'
  BY <1>1, <1>7, <1>10, <1>13, ApartKept
<1>15. StepsSound'
  BY <1>1, <1>3, <1>7, <1>10, StepsKept
<1>16. WorkersCurrent'
  BY <1>1, <1>3, <1>7, <1>10, CurrentKept
<1> QED
  BY <1>10, <1>12, <1>14, <1>15, <1>16 DEF IInv

(* A run is begun: the attempt in hand becomes one of the run.              *)
LEMMA BeginStep == ASSUME IInv, NEW w \in Worker, Begin(w) PROVE IInv'
<1> DEFINE d == worker[w].doc
           tries == run[d].attempts + 1
           begun == [NoRun EXCEPT !.outcome = "running", !.attempts = tries]
<1>1. /\ Busy(w) /\ worker[w].step = "claimed" /\ MayBegin(run[d])
      /\ run' = [run EXCEPT ![d] = begun]
      /\ UNCHANGED <<version, marked, event, troubles>>
  BY DEF Begin, Busy
<1>0. PICK t \in Ticket : t = TicketOf(w)
  BY <1>1, AtWork
<1>2. PICK step \in {"concluded", "working"}, result \in {"skipped", "none"} :
        worker' = [worker EXCEPT ![w].attempt = tries, ![w].step = step, ![w].result = result]
  BY DEF Begin
<1>3. /\ worker[w] \in WorkerRecord /\ d \in Doc /\ Causes \in Nat
      /\ run[d] \in RunRecord /\ run[d].attempts \in Nat /\ tries \in Nat
      /\ run \in [Doc -> RunRecord] /\ worker \in [Worker -> WorkerRecord]
      /\ \A e \in Doc : run[e].attempts \in Nat
  BY <1>1, AtWork, Typed DEF IInv, RunRecord
<1> DEFINE new == [worker[w] EXCEPT !.attempt = tries, !.step = step, !.result = result]
<1>4. worker' = [worker EXCEPT ![w] = new]
  BY <1>2, <1>3
<1>5. step \in Step /\ result \in {"none"} \cup Final
  BY DEF Step, Final, Stopped
<1>6. /\ new \in WorkerRecord /\ new.doc = d /\ new.attempt = tries /\ new.step = step
  BY <1>3, <1>5 DEF WorkerRecord
<1>7. /\ worker' \in [Worker -> WorkerRecord] /\ OnlyMoves(w)
      /\ worker'[w].step \in {"concluded", "working"} /\ worker'[w].doc = d
      /\ worker'[w].attempt = tries
  BY <1>3, <1>4, <1>6 DEF OnlyMoves
<1>8. begun \in RunRecord /\ begun.outcome = "running" /\ begun.attempts = tries
  BY <1>3, ForeverTyped DEF NoRun, RunRecord
<1>9. /\ run' \in [Doc -> RunRecord] /\ run'[d] = begun
      /\ \A e \in Doc : e # d => run'[e] = run[e]
  BY <1>1, <1>3, <1>8
<1>10. RecordsTyped' /\ Causes' = Causes
  BY <1>1, <1>7, <1>9, Typed, TypedNext DEF IInv, Causes
<1>11. TicketOf(w)' = t /\ Busy(w)'
  BY <1>7, <1>0 DEF TicketOf, Busy
<1>12. Hand(w, t) = 1 /\ Hand(w, t)' = 0
  BY <1>1, <1>7, <1>11, <1>0 DEF Hand, Holding, InHand
<1>13. Budget(t) <= Budget(t)' /\ Budget(t) \in {0, 1} /\ Budget(t)' \in {0, 1}
  BY <1>1, <1>3, <1>7, <1>11, <1>0, BudgetKept
<1>14. AttemptsPaid'
  <2>1. 1 + Hand(w, t)' + Budget(t) <= Hand(w, t) + (Causes' - Causes) + Budget(t)'
    BY <1>3, <1>10, <1>12, <1>13
  <2>2. \A s \in Ticket, v \in Version :
          run'[<<s, v>>].attempts <= run[<<s, v>>].attempts + IF s = t THEN 1 ELSE 0
    <3> TAKE s \in Ticket, v \in Version
    <3>1. <<s, v>> \in Doc /\ <<s, v>>[1] = s
      BY DocParts
    <3>2. CASE <<s, v>> = d
      <4>1. s = t
        BY <1>0, <3>1, <3>2 DEF TicketOf
      <4>2. run'[<<s, v>>].attempts = run[<<s, v>>].attempts + 1 /\ run[<<s, v>>].attempts \in Nat
        BY <1>3, <1>8, <1>9, <3>2
      <4> QED
        BY <4>1, <4>2
    <3>3. CASE <<s, v>> # d
      <4>1. run'[<<s, v>>].attempts = run[<<s, v>>].attempts /\ run[<<s, v>>].attempts \in Nat
        BY <1>3, <1>9, <3>1, <3>3
      <4> QED
        BY <4>1
    <3> QED
      BY <3>2, <3>3
  <2>3. /\ Busy(w) => TicketOf(w) = t
        /\ Busy(w)' => TicketOf(w)' = t
        /\ \A s \in Ticket : s # t => event'[s] = event[s]
        /\ Causes' >= Causes /\ 1 \in Nat /\ OnlyMoves(w)
    BY <1>1, <1>3, <1>7, <1>10, <1>11, <1>0
  <2> QED
    BY <1>3, <1>10, <2>1, <2>2, <2>3, PaidStep
<1>15. AttemptsApart'
  <2>1. run'[d].attempts = run[d].attempts + 1
    BY <1>8, <1>9
  <2>2. \A e \in Doc : run'[e].attempts >= run[e].attempts
    <3> TAKE e \in Doc
    <3>1. run[e].attempts \in Nat
      BY <1>3
    <3>2. run'[e].attempts = run[e].attempts \/ run'[e].attempts = run[e].attempts + 1
      BY <1>9, <2>1
    <3> QED
      BY <3>1, <3>2
  <2> QED
    BY <1>3, <1>7, <1>10, <2>1, <2>2, ApartKept
<1>16. StepsSound'
  BY <1>1, <1>3, <1>7, <1>10, StepsKept
<1>17. ASSUME Causes = 0 PROVE run[d].attempts = 0
  <2>1. run[<<t, d[2]>>].attempts + Cardinality(Holding(t)) <= Causes + Budget(t)
    BY <1>1, <1>3, AtWork DEF IInv, AttemptsPaid, Paid
  <2>2. d = <<t, d[2]>>
    BY <1>1, <1>0, AtWork
  <2>3. Cardinality(Holding(t)) \in Nat /\ Cardinality(Holding(t)) >= Hand(w, t)
    BY <1>7, HandsCounted
  <2> QED
    BY <1>3, <1>12, <1>13, <1>17, <2>1, <2>2, <2>3
<1>18. WorkersCurrent'
  <2>1. IsCurrent(w)'
    BY <1>7, <1>8, <1>9 DEF IsCurrent
  <2>2. ASSUME Causes' = 0, NEW u \in Worker, u # w,
               worker[u].step \in {"working", "concluded", "marked"}
        PROVE  run'[worker[u].doc] = run[worker[u].doc]
    <3>1. /\ worker[u].attempt > 0 /\ worker[u].doc \in Doc
          /\ worker[u].attempt <= run[worker[u].doc].attempts
      BY <2>2 DEF IInv, StepsSound, AttemptsApart
    <3>2. run[d].attempts = 0
      BY <1>10, <1>17, <2>2
    <3>3. worker[u].attempt \in Nat
      BY <1>3 DEF WorkerRecord
    <3>4. worker[u].doc # d
      BY <3>1, <3>2, <3>3
    <3> QED
      BY <1>9, <3>1, <3>4
  <2> QED
    BY <1>3, <1>7, <1>10, <2>1, <2>2, CurrentKept
<1> QED
  BY <1>10, <1>14, <1>15, <1>16, <1>18 DEF IInv

(* A worker whose job is over, whatever became of its event.                *)
LEMMA RestKept ==
  ASSUME IInv, NEW w \in Worker, Busy(w), Rests(w), NEW t \in Ticket, t = TicketOf(w),
         UNCHANGED <<version, marked, run>>,
         event' \in [Ticket -> EventRecord], \A s \in Ticket : s # t => event'[s] = event[s],
         troubles' \in TroublesRecord, Causes' >= Causes,
         Budget(t) <= Hand(w, t) + (Causes' - Causes) + Budget(t)'
  PROVE  IInv'
<1>1. /\ worker' \in [Worker -> WorkerRecord] /\ OnlyMoves(w)
      /\ worker'[w].step = "idle" /\ worker'[w].attempt = 0 /\ ~Busy(w)'
  BY RestsIdle DEF IInv, OnlyMoves, Busy
<1>2. RecordsTyped' /\ Causes \in Nat /\ Causes' \in Nat
  BY <1>1, Typed, TypedNext, CausesTyped DEF IInv
<1>3. \A d \in Doc : run[d].attempts \in Nat
  BY Typed DEF IInv, RunRecord
<1>4. AttemptsPaid'
  <2>1. Hand(w, t)' = 0 /\ Hand(w, t) \in {0, 1} /\ Budget(t) \in {0, 1} /\ Budget(t)' \in {0, 1}
    BY <1>1 DEF Hand, Holding, InHand, Budget
  <2>2. 0 + Hand(w, t)' + Budget(t) <= Hand(w, t) + (Causes' - Causes) + Budget(t)'
    BY <1>2, <2>1
  <2>3. \A s \in Ticket, v \in Version :
          run'[<<s, v>>].attempts <= run[<<s, v>>].attempts + IF s = t THEN 0 ELSE 0
    <3> TAKE s \in Ticket, v \in Version
    <3>1. run'[<<s, v>>].attempts = run[<<s, v>>].attempts /\ run[<<s, v>>].attempts \in Nat
      BY <1>3, DocParts
    <3> QED
      BY <3>1
  <2> QED
    BY <1>1, <1>2, <2>2, <2>3, PaidStep
<1>5. AttemptsApart'
  BY <1>1, <1>2, <1>3, ApartKept
<1>6. StepsSound'
  BY <1>1, <1>2, StepsKept
<1>7. WorkersCurrent'
  BY <1>1, <1>2, CurrentKept
<1> QED
  BY <1>2, <1>4, <1>5, <1>6, <1>7 DEF IInv

(* The event freed by a worker that held an attempt in hand.                *)
LEMMA HandGivenBack ==
  ASSUME IInv, NEW w \in Worker, Busy(w), Rests(w), NEW t \in Ticket, t = TicketOf(w),
         worker[w].step \in {"waiting", "returning"},
         UNCHANGED <<version, marked, run, troubles>>,
         NEW status \in {"pending", "delivered", "dead"}, NEW wait \in Nat,
         Settle(t, status, wait)
  PROVE  IInv'
<1>1. /\ event' \in [Ticket -> EventRecord]
      /\ \A s \in Ticket : s # t => event'[s] = event[s]
  BY Settled DEF IInv
<1>2. Causes' = Causes /\ Causes \in Nat /\ troubles' \in TroublesRecord
  BY Typed, CausesTyped DEF IInv, Causes
<1>3. Budget(t) \in {0, 1} /\ Budget(t)' \in {0, 1} /\ Hand(w, t) = 1
  BY DEF Budget, Hand, Holding, InHand
<1>4. Budget(t) <= Hand(w, t) + (Causes' - Causes) + Budget(t)'
  BY <1>2, <1>3
<1> QED
  BY <1>1, <1>2, <1>4, RestKept

(* A run in progress elsewhere is waited for.                               *)
LEMMA WaitStep == ASSUME IInv, NEW w \in Worker, Wait(w) PROVE IInv'
<1>1. /\ Busy(w) /\ worker[w].step = "waiting" /\ Rests(w)
      /\ UNCHANGED <<version, marked, run, troubles>>
      /\ Settle(TicketOf(w), "pending", RetryWait)
  BY DEF Wait, Busy
<1>2. PICK t \in Ticket : t = TicketOf(w)
  BY <1>1, AtWork
<1>3. RetryWait \in Nat
  BY AgentRunsAssumption
<1> QED
  BY <1>1, <1>2, <1>3, HandGivenBack

(* A failed event is put back, or given up.                                 *)
LEMMA ReturnStep == ASSUME IInv, NEW w \in Worker, Return(w) PROVE IInv'
<1>1. /\ Busy(w) /\ worker[w].step = "returning" /\ Rests(w)
      /\ UNCHANGED <<version, marked, run, troubles>>
      /\ Settle(TicketOf(w), "pending", RetryWait) \/ Settle(TicketOf(w), "dead", 0)
  BY DEF Return, AfterFailure, Busy
<1>2. PICK t \in Ticket : t = TicketOf(w)
  BY <1>1, AtWork
<1>3. RetryWait \in Nat
  BY AgentRunsAssumption
<1> QED
  BY <1>1, <1>2, <1>3, HandGivenBack

(* A handled event is delivered: nobody claims it again.                    *)
LEMMA DeliverStep == ASSUME IInv, NEW w \in Worker, Deliver(w) PROVE IInv'
<1>1. /\ Busy(w) /\ worker[w].step = "delivering" /\ Rests(w)
      /\ UNCHANGED <<version, marked, run, troubles>>
      /\ Settle(TicketOf(w), "delivered", 0)
  BY DEF Deliver, Busy
<1>2. PICK t \in Ticket : t = TicketOf(w)
  BY <1>1, AtWork
<1>3. /\ event' \in [Ticket -> EventRecord]
      /\ \A s \in Ticket : s # t => event'[s] = event[s]
      /\ event[t].status # "sending" => event' = event
      /\ event[t].status = "sending" => event'[t].status = "delivered"
  BY <1>1, <1>2, Settled DEF IInv
<1>4. Causes' = Causes /\ Causes \in Nat /\ troubles' \in TroublesRecord
  BY <1>1, Typed, CausesTyped DEF IInv, Causes
<1>5. Budget(t) \in {0, 1} /\ Budget(t)' \in {0, 1} /\ Hand(w, t) \in {0, 1}
  BY DEF Budget, Hand
<1>6. Budget(t) <= Budget(t)'
  BY <1>3 DEF Budget, Free
<1>7. Budget(t) <= Hand(w, t) + (Causes' - Causes) + Budget(t)'
  BY <1>4, <1>5, <1>6
<1> QED
  BY <1>1, <1>2, <1>3, <1>4, <1>7, RestKept

(* A worker dies: the trouble pays for what it held.                        *)
LEMMA CrashStep == ASSUME IInv, NEW w \in Worker, Crash(w) PROVE IInv'
<1>1. /\ Busy(w) /\ Rests(w) /\ Causes < MaxTroubles
      /\ UNCHANGED <<version, marked, event, run>>
      /\ troubles' = [troubles EXCEPT !.crashes = @ + 1, !.lost = @ + worker[w].spent]
  BY DEF Crash
<1>2. PICK t \in Ticket : t = TicketOf(w)
  BY <1>1, AtWork
<1>3. /\ troubles \in TroublesRecord /\ worker[w].spent \in Nat /\ Causes \in Nat
      /\ event \in [Ticket -> EventRecord] /\ MaxTroubles \in Nat
  BY Typed, CausesTyped, AgentRunsAssumption DEF IInv, WorkerRecord
<1>4. troubles.crashes + 1 \in 0..MaxTroubles /\ troubles.lost + worker[w].spent \in Nat
  BY <1>1, <1>3 DEF TroublesRecord, Causes
<1>5. troubles' \in TroublesRecord
  BY <1>1, <1>3, <1>4 DEF TroublesRecord
<1>6. Causes' = Causes + 1
  BY <1>1, <1>3 DEF TroublesRecord, Causes
<1>7. Budget(t) \in {0, 1} /\ Budget(t)' \in {0, 1} /\ Hand(w, t) \in {0, 1}
  BY DEF Budget, Hand
<1>8. Budget(t) <= Hand(w, t) + (Causes' - Causes) + Budget(t)'
  BY <1>3, <1>6, <1>7
<1> QED
  BY <1>1, <1>2, <1>3, <1>5, <1>6, <1>8, RestKept

(* Something throws inside a run: the trouble pays for the claim to come.   *)
LEMMA FailStep == ASSUME IInv, NEW w \in Worker, Fail(w) PROVE IInv'
<1>1. /\ Busy(w) /\ worker[w].step \in {"working", "concluded", "marked", "delivering"}
      /\ Causes < MaxTroubles /\ Goes(w, "failing")
      /\ UNCHANGED <<version, marked, event, run>>
      /\ troubles' = [troubles EXCEPT !.failures = @ + 1]
  BY DEF Fail, Busy
<1>2. PICK t \in Ticket : t = TicketOf(w)
  BY <1>1, AtWork
<1>3. /\ troubles \in TroublesRecord /\ Causes \in Nat /\ MaxTroubles \in Nat
      /\ worker[w].doc \in Doc /\ \A d \in Doc : run[d].attempts \in Nat
  BY <1>1, AtWork, Typed, CausesTyped, AgentRunsAssumption DEF IInv, RunRecord
<1>4. troubles.failures + 1 \in 0..MaxTroubles
  BY <1>1, <1>3 DEF TroublesRecord, Causes
<1>5. troubles' \in TroublesRecord
  BY <1>1, <1>3, <1>4 DEF TroublesRecord
<1>6. Causes' = Causes + 1
  BY <1>1, <1>3 DEF TroublesRecord, Causes
<1>7. /\ worker' \in [Worker -> WorkerRecord] /\ OnlyMoves(w)
      /\ worker'[w].step = "failing" /\ worker'[w].doc = worker[w].doc
      /\ worker'[w].attempt = worker[w].attempt
  BY <1>1, GoesOn DEF IInv, Step, OnlyMoves
<1>8. RecordsTyped' /\ Causes' \in Nat /\ Causes' > 0
  BY <1>1, <1>3, <1>5, <1>6, <1>7, Typed, TypedNext DEF IInv
<1>9. TicketOf(w)' = t /\ Busy(w)'
  BY <1>2, <1>7 DEF TicketOf, Busy
<1>10. AttemptsPaid'
  <2>1. Hand(w, t) \in {0, 1} /\ Hand(w, t)' \in {0, 1}
    BY DEF Hand
  <2>2. Budget(t) <= Budget(t)' /\ Budget(t) \in {0, 1} /\ Budget(t)' \in {0, 1}
    BY <1>1, <1>7, <1>9, BudgetKept
  <2>3. 0 + Hand(w, t)' + Budget(t) <= Hand(w, t) + (Causes' - Causes) + Budget(t)'
    BY <1>3, <1>6, <2>1, <2>2
  <2>4. \A s \in Ticket, v \in Version :
          run'[<<s, v>>].attempts <= run[<<s, v>>].attempts + IF s = t THEN 0 ELSE 0
    <3> TAKE s \in Ticket, v \in Version
    <3>1. run'[<<s, v>>].attempts = run[<<s, v>>].attempts /\ run[<<s, v>>].attempts \in Nat
      BY <1>1, <1>3, DocParts
    <3> QED
      BY <3>1
  <2> QED
    BY <1>1, <1>2, <1>3, <1>6, <1>7, <1>8, <1>9, <2>3, <2>4, PaidStep
<1>11. AttemptsApart'
  BY <1>1, <1>3, <1>7, <1>8, ApartKept
<1>12. StepsSound'
  BY <1>1, <1>3, <1>6, <1>7, <1>8, StepsKept
<1>13. WorkersCurrent'
  BY <1>3, <1>6, <1>7, <1>8, CurrentKept
<1> QED
  BY <1>8, <1>10, <1>11, <1>12, <1>13 DEF IInv

(* A result is stored: by the attempt that is running, which is the only    *)
(* one while nothing went wrong.                                            *)
LEMMA StoreStep == ASSUME IInv, NEW w \in Worker, Store(w) PROVE IInv'
<1> DEFINE d == worker[w].doc
           result == worker[w].result
           new == [worker[w] EXCEPT !.step = "delivering", !.spent = 0]
<1>1. /\ Busy(w) /\ worker[w].step \in {"concluded", "marked"}
      /\ result = "proposed" => worker[w].step = "marked"
      /\ UNCHANGED <<version, marked, event>>
      /\ FinishRun(w, result, worker[w].spent)
      /\ worker' = [worker EXCEPT ![w].step = "delivering", ![w].spent = 0]
  BY DEF Store, Ready, Busy
<1>2. /\ worker[w] \in WorkerRecord /\ worker \in [Worker -> WorkerRecord] /\ d \in Doc
      /\ Causes \in Nat /\ worker[w].spent \in 0..worker[w].spent
      /\ result \in {"none", "error"} \cup Final
  BY <1>1, AtWork, Typed DEF IInv, WorkerRecord
<1>3. /\ run' \in [Doc -> RunRecord]
      /\ \A e \in Doc : run'[e].attempts = run[e].attempts
      /\ \A e \in Doc : e # d => run'[e] = run[e]
      /\ \A e \in Doc : run[e].outcome # "running" => run'[e] = run[e]
      /\ IsCurrent(w) => run'[d].outcome = result
      /\ ~IsCurrent(w) => run' = run
      /\ troubles' \in TroublesRecord
      /\ Causes' = Causes
  BY <1>1, <1>2, Finished DEF IInv
<1>4. new \in WorkerRecord /\ new.doc = d /\ new.attempt = worker[w].attempt /\ new.step = "delivering"
  <2>1. "delivering" \in Step /\ 0 \in Nat
    BY DEF Step
  <2> QED
    BY <1>2, <2>1 DEF WorkerRecord
<1>5. worker' = [worker EXCEPT ![w] = new]
  BY <1>1, <1>2
<1>6. /\ worker' \in [Worker -> WorkerRecord] /\ OnlyMoves(w)
      /\ worker'[w].step = "delivering" /\ worker'[w].doc = d
      /\ worker'[w].attempt = worker[w].attempt /\ Busy(w)'
  BY <1>2, <1>4, <1>5 DEF OnlyMoves, Busy
<1>7. RecordsTyped'
  BY <1>1, <1>3, <1>6, Typed, TypedNext DEF IInv
<1>8. AttemptsPaid' /\ AttemptsApart'
  BY <1>1, <1>3, <1>6, <1>7, SameWork DEF InHand
<1>9. StepsSound'
  BY <1>1, <1>2, <1>3, <1>6, <1>7, StepsKept
<1>10. /\ worker[w].attempt > 0
       /\ Causes = 0 => \A u \in Worker :
            worker[u].step \in {"working", "concluded", "marked"} => IsCurrent(u)
  BY <1>1 DEF IInv, StepsSound, WorkersCurrent
<1>11. WorkersCurrent'
  <2>1. ASSUME Causes' = 0, NEW u \in Worker, u # w,
               worker[u].step \in {"working", "concluded", "marked"}
        PROVE  run'[worker[u].doc] = run[worker[u].doc]
    <3>1. IsCurrent(w) /\ IsCurrent(u)
      BY <1>1, <1>3, <1>10, <2>1
    <3>2. worker[u].attempt > 0 /\ worker[u].doc \in Doc
      BY <2>1 DEF IInv, StepsSound, AttemptsApart
    <3>3. worker[u].doc = d => worker[u].attempt = worker[w].attempt
      BY <3>1 DEF IsCurrent
    <3>4. worker[u].doc # d
      BY <1>10, <2>1, <3>3 DEF IInv, AttemptsApart
    <3> QED
      BY <1>3, <3>2, <3>4
  <2> QED
    BY <1>2, <1>3, <1>6, <1>7, <2>1, CurrentKept
<1> QED
  BY <1>7, <1>8, <1>9, <1>11 DEF IInv

(* A failure is stored in place of a result.                                *)
LEMMA RecordFailureStep == ASSUME IInv, NEW w \in Worker, RecordFailure(w) PROVE IInv'
<1> DEFINE d == worker[w].doc
           new == [worker[w] EXCEPT !.step = "returning", !.spent = 0]
<1>1. /\ Busy(w) /\ worker[w].step = "failing"
      /\ UNCHANGED <<version, marked, event>>
      /\ FinishRun(w, "error", 0)
      /\ worker' = [worker EXCEPT ![w].step = "returning", ![w].spent = 0]
  BY DEF RecordFailure, Busy
<1>2. /\ worker[w] \in WorkerRecord /\ worker \in [Worker -> WorkerRecord] /\ d \in Doc
      /\ Causes \in Nat /\ 0 \in 0..worker[w].spent
  BY <1>1, AtWork, Typed DEF IInv, WorkerRecord
<1>3. /\ run' \in [Doc -> RunRecord]
      /\ \A e \in Doc : run'[e].attempts = run[e].attempts
      /\ \A e \in Doc : e # d => run'[e] = run[e]
      /\ \A e \in Doc : run[e].outcome # "running" => run'[e] = run[e]
      /\ IsCurrent(w) => run'[d].outcome = "error"
      /\ ~IsCurrent(w) => run' = run
      /\ troubles' \in TroublesRecord
      /\ Causes' = Causes
  BY <1>1, <1>2, Finished DEF IInv
<1>4. new \in WorkerRecord /\ new.doc = d /\ new.attempt = worker[w].attempt /\ new.step = "returning"
  <2>1. "returning" \in Step /\ 0 \in Nat
    BY DEF Step
  <2> QED
    BY <1>2, <2>1 DEF WorkerRecord
<1>5. worker' = [worker EXCEPT ![w] = new]
  BY <1>1, <1>2
<1>6. /\ worker' \in [Worker -> WorkerRecord] /\ OnlyMoves(w)
      /\ worker'[w].step = "returning" /\ worker'[w].doc = d
      /\ worker'[w].attempt = worker[w].attempt /\ Busy(w)'
  BY <1>2, <1>4, <1>5 DEF OnlyMoves, Busy
<1>7. RecordsTyped'
  BY <1>1, <1>3, <1>6, Typed, TypedNext DEF IInv
<1>8. AttemptsPaid' /\ AttemptsApart'
  BY <1>1, <1>3, <1>6, <1>7, SameWork DEF InHand
<1>9. Causes > 0 /\ Causes' > 0
  BY <1>1, <1>3 DEF IInv, StepsSound
<1>10. StepsSound'
  BY <1>1, <1>2, <1>3, <1>6, <1>7, <1>9, StepsKept
<1>11. WorkersCurrent'
  BY <1>9 DEF WorkersCurrent
<1> QED
  BY <1>7, <1>8, <1>10, <1>11 DEF IInv

(* Time passes: every stall is a trouble, waits and ages change, and        *)
(* nothing else of the events and the runs.                                 *)
LEMMA TimePasses ==
  ASSUME IInv, Tick
  PROVE  /\ UNCHANGED <<version, marked, worker>>
         /\ IsFiniteSet(Stalled) /\ Cardinality(Stalled) \in Nat
         /\ troubles' \in TroublesRecord /\ troubles'.lost = troubles.lost
         /\ Causes \in Nat /\ Causes' = Causes + Cardinality(Stalled)
         /\ event' \in [Ticket -> EventRecord] /\ run' \in [Doc -> RunRecord]
         /\ \A t \in Ticket : /\ event'[t].status = event[t].status
                              /\ event'[t].wait = 0 => event[t].wait \in {0, 1}
                              /\ event[t].wait = 0 => event'[t].wait = 0
         /\ \A d \in Doc : /\ run'[d].attempts = run[d].attempts /\ run[d].attempts \in Nat
                           /\ run'[d].outcome = run[d].outcome /\ run'[d].cost = run[d].cost
<1> DEFINE Aged(d) == [run[d] EXCEPT !.age = run[d].age + 1]
           Waited(t) == [event[t] EXCEPT !.wait = Max({event[t].wait - 1, 0})]
<1>1. /\ UNCHANGED <<version, marked, worker>>
      /\ Causes + Cardinality(Stalled) <= MaxTroubles
      /\ troubles' = [troubles EXCEPT !.stalls = @ + Cardinality(Stalled)]
      /\ event' = [t \in Ticket |-> [event[t] EXCEPT !.wait = Max({@ - 1, 0})]]
      /\ run' = [d \in Doc |-> IF Ages(run[d]) THEN [run[d] EXCEPT !.age = @ + 1] ELSE run[d]]
  BY DEF Tick
<1>2. /\ troubles \in TroublesRecord /\ Causes \in Nat /\ MaxTroubles \in Nat
      /\ event \in [Ticket -> EventRecord] /\ run \in [Doc -> RunRecord]
  BY Typed, CausesTyped, AgentRunsAssumption DEF IInv
<1>3. IsFiniteSet(Stalled) /\ Cardinality(Stalled) \in Nat
  <2>1. IsFiniteSet(Stalled)
    BY AgentRunsAssumption, FS_Subset DEF Stalled
  <2> QED
    BY <2>1, FS_CardinalityType
<1>4. troubles.stalls + Cardinality(Stalled) \in 0..MaxTroubles
  BY <1>1, <1>2, <1>3 DEF TroublesRecord, Causes
<1>5. troubles' \in TroublesRecord /\ troubles'.lost = troubles.lost
  BY <1>1, <1>2, <1>4 DEF TroublesRecord
<1>6. Causes' = Causes + Cardinality(Stalled)
  BY <1>1, <1>2, <1>3 DEF TroublesRecord, Causes
<1>7. ASSUME NEW t \in Ticket
      PROVE  /\ event'[t] \in EventRecord
             /\ event'[t].status = event[t].status
             /\ event'[t].wait = 0 => event[t].wait \in {0, 1}
             /\ event[t].wait = 0 => event'[t].wait = 0
  <2>1. event[t] \in EventRecord /\ event[t].wait \in Nat
    BY <1>2 DEF EventRecord
  <2>2. event'[t] = Waited(t)
    BY <1>1, <2>1
  <2>3. event[t].wait - 1 \in Int /\ 0 \in Int
    BY <2>1
  <2>4. /\ Max({event[t].wait - 1, 0}) \in {event[t].wait - 1, 0}
        /\ Max({event[t].wait - 1, 0}) >= event[t].wait - 1
        /\ Max({event[t].wait - 1, 0}) >= 0
    BY <2>3, MaxOfTwo, Zenon
  <2>5. Max({event[t].wait - 1, 0}) \in Nat
    BY <2>3, <2>4
  <2>6. /\ Waited(t) \in EventRecord /\ Waited(t).status = event[t].status
        /\ Waited(t).wait = Max({event[t].wait - 1, 0})
    BY <2>1, <2>5 DEF EventRecord
  <2> HIDE DEF Waited
  <2> QED
    BY <2>1, <2>2, <2>4, <2>6
<1>8. ASSUME NEW d \in Doc
      PROVE  /\ run'[d] \in RunRecord
             /\ run'[d].attempts = run[d].attempts /\ run[d].attempts \in Nat
             /\ run'[d].outcome = run[d].outcome /\ run'[d].cost = run[d].cost
  <2>1. run[d] \in RunRecord /\ run[d].age \in 0..Forever /\ Forever \in Nat
    BY <1>2, ForeverTyped DEF RunRecord
  <2>2. CASE Ages(run[d])
    <3>1. run'[d] = Aged(d) /\ run[d].age + 1 \in 0..Forever
      BY <1>1, <2>1, <2>2 DEF Ages
    <3> QED
      BY <2>1, <3>1 DEF RunRecord
  <2>3. CASE ~Ages(run[d])
    BY <1>1, <2>1, <2>3 DEF RunRecord
  <2> QED
    BY <2>2, <2>3
<1> QED
  BY <1>1, <1>2, <1>3, <1>5, <1>6, <1>7, <1>8

(* Time passes: a ticket whose lock runs out under a living worker is freed *)
(* at the price of a stall.                                                 *)
LEMMA TickStep == ASSUME IInv, Tick PROVE IInv'
<1>1. UNCHANGED <<version, marked, worker>>
  BY TimePasses
<1>2. Causes \in Nat
  BY TimePasses
<1>3. IsFiniteSet(Stalled) /\ Cardinality(Stalled) \in Nat
  BY TimePasses
<1>6. Causes' = Causes + Cardinality(Stalled)
  BY TimePasses
<1>7. \A t \in Ticket : /\ event'[t].status = event[t].status
                        /\ event'[t].wait = 0 => event[t].wait \in {0, 1}
  BY TimePasses
<1>8. ASSUME NEW d \in Doc
      PROVE  /\ run'[d].attempts = run[d].attempts /\ run[d].attempts \in Nat
             /\ run'[d].outcome = run[d].outcome
  BY <1>8, TimePasses, Zenon
<1>9. RecordsTyped'
  BY <1>1, TimePasses, Typed, TypedNext DEF IInv
<1>10. StepsSound'
  <2>1. Causes' >= Causes
    BY <1>2, <1>3, <1>6
  <2>2. Causes > 0 => Causes' > 0
    BY <1>2, <1>3, <1>6
  <2> QED
    BY <1>1, <2>2 DEF IInv, StepsSound, Busy, TicketOf
<1>11. AttemptsApart'
  <2>1. ASSUME NEW w \in Worker, worker[w].attempt > 0
        PROVE  /\ worker[w].doc \in Doc
               /\ worker[w].attempt <= run'[worker[w].doc].attempts
               /\ \A u \in Worker :
                    worker[u].doc = worker[w].doc /\ worker[u].attempt = worker[w].attempt => u = w
    <3>1. /\ worker[w].doc \in Doc
          /\ worker[w].attempt <= run[worker[w].doc].attempts
          /\ \A u \in Worker :
               worker[u].doc = worker[w].doc /\ worker[u].attempt = worker[w].attempt => u = w
      BY <2>1 DEF IInv, AttemptsApart
    <3>2. run'[worker[w].doc].attempts = run[worker[w].doc].attempts
      BY <1>8, <3>1
    <3> QED
      BY <3>1, <3>2
  <2> QED
    BY <1>1, <2>1 DEF AttemptsApart
<1>12. AttemptsPaid'
  <2> SUFFICES ASSUME NEW t \in Ticket, NEW v \in Version PROVE Paid(t, v)'
    BY DEF AttemptsPaid, Version
  <2>1. run[<<t, v>>].attempts + Cardinality(Holding(t)) <= Causes + Budget(t)
    BY DEF IInv, AttemptsPaid, Paid
  <2>2. run'[<<t, v>>].attempts = run[<<t, v>>].attempts /\ run[<<t, v>>].attempts \in Nat
    BY <1>8, DocParts
  <2>3. Holding(t)' = Holding(t) /\ (Attended(t)' <=> Attended(t))
    BY <1>1 DEF Holding, Attended, Busy, TicketOf
  <2>4. Cardinality(Holding(t)) \in Nat
    <3>1. IsFiniteSet(Holding(t))
      BY AgentRunsAssumption, FS_Subset DEF Holding
    <3> QED
      BY <3>1, FS_CardinalityType
  <2>5. Budget(t) \in {0, 1} /\ Budget(t)' \in {0, 1}
    BY DEF Budget
  <2>6. Budget(t) <= Cardinality(Stalled) + Budget(t)'
    <3>1. CASE t \in Stalled
      <4>1. Cardinality(Stalled) # 0
        BY <1>3, <3>1, FS_EmptySet
      <4> QED
        BY <1>3, <2>5, <4>1
    <3>2. CASE t \notin Stalled
      <4>1. /\ event'[t].status = event[t].status
            /\ event'[t].wait = 0 => event[t].wait \in {0, 1}
        BY <1>7
      <4>2. Free(t)' => Free(t)
        BY <2>3, <3>2, <4>1 DEF Free, Stalled, Attended
      <4>3. Budget(t) <= Budget(t)'
        BY <4>2 DEF Budget
      <4> QED
        BY <1>3, <2>5, <4>3
    <3> QED
      BY <3>1, <3>2
  <2>7. run'[<<t, v>>].attempts + Cardinality(Holding(t)') <= Causes' + Budget(t)'
    BY <1>2, <1>3, <1>6, <2>1, <2>2, <2>3, <2>4, <2>5, <2>6
  <2> QED
    BY <2>7 DEF Paid
<1>13. WorkersCurrent'
  <2>1. ASSUME Causes' = 0, NEW w \in Worker, worker[w].step \in {"working", "concluded", "marked"}
        PROVE  /\ run'[worker[w].doc].outcome = "running"
               /\ run'[worker[w].doc].attempts = worker[w].attempt
    <3>1. Causes = 0
      BY <1>2, <1>3, <1>6, <2>1
    <3>2. IsCurrent(w)
      BY <2>1, <3>1 DEF IInv, WorkersCurrent
    <3>3. worker[w].doc \in Doc
      BY <2>1 DEF IInv, StepsSound, Busy
    <3> QED
      BY <1>8, <3>2, <3>3 DEF IsCurrent
  <2> QED
    BY <1>1, <2>1 DEF WorkersCurrent, IsCurrent
<1> QED
  BY <1>9, <1>10, <1>11, <1>12, <1>13 DEF IInv

-----------------------------------------------------------------------------
(* The invariant, from the first state on.                                  *)

(* Nothing is begun, held or marked at first.                               *)
LEMMA InitSound == Init => IInv
<1> SUFFICES ASSUME Init PROVE IInv
  OBVIOUS
<1>1. AtRest \in WorkerRecord /\ AtRest.step = "idle" /\ AtRest.attempt = 0
  BY AgentRunsAssumption DEF AtRest, WorkerRecord, Step
<1>2. NoRun \in RunRecord /\ NoRun.attempts = 0 /\ NoRun.outcome = "none"
  BY ForeverTyped DEF NoRun, RunRecord
<1>3. /\ 0 \in Version /\ 0 \in 0..MaxTroubles /\ 0 \in 0..MAX_ATTEMPTS
  BY AgentRunsAssumption DEF Version
<1>4. RecordsTyped
  <2>1. version \in [Ticket -> Version] /\ marked \in [Ticket -> Version \cup {None}]
    BY <1>3 DEF Init
  <2>2. event \in [Ticket -> EventRecord]
    BY <1>3 DEF Init, EventRecord
  <2>3. run \in [Doc -> RunRecord] /\ worker \in [Worker -> WorkerRecord]
    BY <1>1, <1>2 DEF Init
  <2>4. troubles \in TroublesRecord
    BY <1>3 DEF Init, TroublesRecord
  <2> QED
    BY <2>1, <2>2, <2>3, <2>4, Typed
<1>5. \A w \in Worker : worker[w].step = "idle" /\ worker[w].attempt = 0
  BY <1>1 DEF Init
<1>6. \A d \in Doc : run[d].attempts = 0 /\ run[d].outcome = "none"
  BY <1>2 DEF Init
<1>7. Causes = 0
  BY DEF Init, Causes
<1>8. StepsSound /\ AttemptsApart /\ WorkersCurrent
  BY <1>5 DEF StepsSound, AttemptsApart, WorkersCurrent, Busy
<1>9. AttemptsPaid
  <2> SUFFICES ASSUME NEW t \in Ticket, NEW v \in Version PROVE Paid(t, v)
    BY DEF AttemptsPaid
  <2>1. Holding(t) = {}
    BY <1>5 DEF Holding, InHand
  <2>2. Cardinality(Holding(t)) = 0
    BY <2>1, FS_EmptySet
  <2>3. Budget(t) \in {0, 1}
    BY DEF Budget
  <2> QED
    BY <1>6, <1>7, <2>2, <2>3, DocParts DEF Paid
<1> QED
  BY <1>4, <1>8, <1>9 DEF IInv

(* Every step of a worker, of a person and of time keeps the invariant.     *)
LEMMA StepSound == IInv /\ EditsTyped /\ [Next]_vars => IInv'
<1> SUFFICES ASSUME IInv, EditsTyped, [Next]_vars PROVE IInv'
  OBVIOUS
<1>1. ASSUME NEW w \in Worker, NEW t \in Ticket, Claim(w, t) PROVE IInv'
  BY <1>1, ClaimStep
<1>2. ASSUME NEW w \in Worker, Begin(w) PROVE IInv'
  BY <1>2, BeginStep
<1>3. ASSUME NEW w \in Worker, Miss(w) \/ Decline(w) PROVE IInv'
  BY <1>3, MissStep, DeclineStep
<1>4. ASSUME NEW w \in Worker, Ask(w) PROVE IInv'
  BY <1>4, AskStep
<1>5. ASSUME NEW e \in Editor,
             (\E t \in Ticket : PersonReads(e, t)) \/ (\E w \in Worker : Triage(w, e))
      PROVE  IInv'
  BY <1>5, ReadStep
<1>6. ASSUME NEW w \in Worker, Conclude(w) PROVE IInv'
  BY <1>6, ConcludeStep
<1>7. ASSUME NEW w \in Worker, RecordProposal(w) PROVE IInv'
  BY <1>7, RecordProposalStep
<1>8. ASSUME NEW w \in Worker, Store(w) PROVE IInv'
  BY <1>8, StoreStep
<1>9. ASSUME NEW w \in Worker, RecordFailure(w) PROVE IInv'
  BY <1>9, RecordFailureStep
<1>10. ASSUME NEW w \in Worker, Return(w) PROVE IInv'
  BY <1>10, ReturnStep
<1>11. ASSUME NEW w \in Worker, Wait(w) PROVE IInv'
  BY <1>11, WaitStep
<1>12. ASSUME NEW w \in Worker, Deliver(w) PROVE IInv'
  BY <1>12, DeliverStep
<1>13. ASSUME NEW w \in Worker, Fail(w) PROVE IInv'
  BY <1>13, FailStep
<1>14. ASSUME NEW w \in Worker, Crash(w) PROVE IInv'
  BY <1>14, CrashStep
<1>15. ASSUME NEW e \in Editor, CommitEdit(e) PROVE IInv'
  BY <1>15, CommitEditStep
<1>16. ASSUME (\E e \in Editor : LoseEdit(e)) \/ (\E w \in Worker : TimeOut(w)) PROVE IInv'
  BY <1>16, LoseEditStep
<1>17. CASE Tick
  BY <1>17, TickStep
<1>18. CASE UNCHANGED vars
  <2>1. UNCHANGED <<version, marked, event, run, worker, troubles>>
    BY <1>18 DEF vars
  <2> QED
    BY <2>1, EditStep, Typed DEF IInv
<1> QED
  BY <1>1, <1>2, <1>3, <1>4, <1>5, <1>6, <1>7, <1>8, <1>9, <1>10, <1>11, <1>12, <1>13, <1>14,
     <1>15, <1>16, <1>17, <1>18 DEF Next, Claims, Work

(* Edits read a ticket as it is, and a run waits for at most one of them.   *)
LEMMA EditsStayTyped == IInv /\ EditsTyped /\ [Next]_vars => EditsTyped'
<1> SUFFICES ASSUME IInv, EditsTyped, [Next]_vars PROVE EditsTyped'
  OBVIOUS
<1> DEFINE Turn == [at : {"model", "tools", "acted"} \cup Editor, triaged : BOOLEAN]
           Request == [ticket : Ticket, version : Version \ {MaxVersion},
                       marked : Version \cup {None}, whole : BOOLEAN, run : Version \cup {None}]
<1>1. /\ turn \in [Worker -> Turn] /\ triaged \in [Ticket -> BOOLEAN]
      /\ request \in [Editor -> Request \cup {None}] /\ erased \in [Ticket -> BOOLEAN]
  BY DEF EditsTyped
<1>2. version \in [Ticket -> Version] /\ marked \in [Ticket -> Version \cup {None}]
  BY Typed DEF IInv
<1>3. MaxVersion \in Nat
  BY AgentRunsAssumption
<1>4. ASSUME NEW w \in Worker, NEW at \in {"model", "tools", "acted"} \cup Editor, Turns(w, at)
      PROVE  turn' \in [Worker -> Turn]
  <2>1. [turn[w] EXCEPT !.at = at] \in Turn
    BY <1>1
  <2>2. turn' = [turn EXCEPT ![w] = [turn[w] EXCEPT !.at = at]]
    BY <1>1, <1>4 DEF Turns
  <2> QED
    BY <1>1, <2>1, <2>2
<1>5. ASSUME NEW e \in Editor, NEW done \in BOOLEAN, Told(e, done) PROVE turn' \in [Worker -> Turn]
  <2> SUFFICES ASSUME NEW w \in Worker
               PROVE  (IF turn[w].at = e THEN [at |-> "acted", triaged |-> done \/ turn[w].triaged]
                       ELSE turn[w]) \in Turn
    BY <1>5 DEF Told
  <2>1. turn[w] \in Turn /\ (done \/ turn[w].triaged) \in BOOLEAN
    BY <1>1
  <2> QED
    BY <2>1
<1>6. ASSUME NEW t \in Ticket, NEW whole \in BOOLEAN, NEW by \in Version \cup {None},
             version[t] < MaxVersion
      PROVE  Reads(t, whole, by) \in Request
  BY <1>2, <1>3, <1>6 DEF Reads, Version
<1>7. ASSUME NEW w \in Worker, Begin(w) PROVE EditsTyped'
  <2>1. turn' \in [Worker -> Turn]
    BY <1>1, <1>7 DEF Begin
  <2> QED
    BY <1>1, <1>7, <2>1 DEF Begin, EditsTyped, edits
<1>8. ASSUME NEW w \in Worker, Ask(w) \/ TimeOut(w) PROVE EditsTyped'
  <2>1. turn' \in [Worker -> Turn]
    BY <1>1, <1>4, <1>8 DEF Ask, TimeOut
  <2> QED
    BY <1>1, <1>8, <2>1 DEF Ask, TimeOut, EditsTyped, edits
<1>9. ASSUME NEW w \in Worker, RecordProposal(w) PROVE EditsTyped'
  <2>1. erased' \in [Ticket -> BOOLEAN]
    BY <1>1, <1>9 DEF RecordProposal
  <2> QED
    BY <1>1, <1>9, <2>1 DEF RecordProposal, EditsTyped
<1>10. ASSUME NEW e \in Editor, NEW t \in Ticket, PersonReads(e, t) PROVE EditsTyped'
  <2>1. PICK touches \in BOOLEAN :
          request' = [request EXCEPT ![e] = Reads(t, touches /\ triaged[t], None)]
    BY <1>10 DEF PersonReads
  <2>2. (touches /\ triaged[t]) \in BOOLEAN /\ version[t] < MaxVersion
    BY <1>1, <1>10 DEF PersonReads
  <2>3. Reads(t, touches /\ triaged[t], None) \in Request
    BY <1>6, <2>2
  <2>4. request' \in [Editor -> Request \cup {None}]
    BY <1>1, <2>1, <2>3
  <2> QED
    BY <1>1, <1>10, <2>4 DEF PersonReads, EditsTyped
<1>11. ASSUME NEW w \in Worker, NEW e \in Editor, Triage(w, e) PROVE EditsTyped'
  <2>1. /\ request' = [request EXCEPT ![e] = Reads(TicketOf(w), TRUE, worker[w].doc[2])]
        /\ version[TicketOf(w)] < MaxVersion /\ Turns(w, e) /\ Busy(w)
        /\ UNCHANGED <<triaged, erased>>
    BY <1>11 DEF Triage, Busy
  <2>2. TicketOf(w) \in Ticket /\ worker[w].doc[2] \in Version
    BY <2>1, AtWork
  <2>3. Reads(TicketOf(w), TRUE, worker[w].doc[2]) \in Request
    BY <1>6, <2>1, <2>2
  <2>4. request' \in [Editor -> Request \cup {None}]
    BY <1>1, <2>1, <2>3
  <2>5. turn' \in [Worker -> Turn]
    BY <1>4, <2>1
  <2> QED
    BY <1>1, <2>1, <2>4, <2>5 DEF EditsTyped
<1>12. ASSUME NEW e \in Editor, CommitEdit(e) \/ LoseEdit(e) PROVE EditsTyped'
  <2>1. turn' \in [Worker -> Turn]
    BY <1>5, <1>12 DEF CommitEdit, LoseEdit
  <2>2. request' = [request EXCEPT ![e] = None]
    BY <1>12 DEF CommitEdit, LoseEdit
  <2>3. \/ UNCHANGED <<triaged, erased>>
        \/ /\ request[e] # None
           /\ triaged' = [triaged EXCEPT ![request[e].ticket] = request[e].run # None]
           /\ erased' = [erased EXCEPT ![request[e].ticket] =
                @ \/ (marked[request[e].ticket] # None /\ request[e].marked = None)]
    BY <1>12 DEF CommitEdit, LoseEdit
  <2>4. triaged' \in [Ticket -> BOOLEAN] /\ erased' \in [Ticket -> BOOLEAN]
    BY <1>1, <2>3
  <2>5. request' \in [Editor -> Request \cup {None}]
    BY <1>1, <2>2
  <2> QED
    BY <2>1, <2>4, <2>5 DEF EditsTyped
<1>13. CASE UNCHANGED <<turn, edits>>
  BY <1>13 DEF EditsTyped, edits
<1> QED
  BY <1>7, <1>8, <1>9, <1>10, <1>11, <1>12, <1>13 DEF Next, Claims, Work, vars, Claim, Miss, Decline,
     Conclude, Store, RecordFailure, Return, Wait, Deliver, Fail, Crash, Tick

(* Nothing is edited at first.                                              *)
LEMMA EditsInit == Init => EditsTyped
BY DEF Init, EditsTyped

(* The invariant holds in every state of every behaviour.                   *)
LEMMA AlwaysIInv == Spec => [](IInv /\ EditsTyped)
<1>1. Init => IInv /\ EditsTyped
  BY InitSound, EditsInit
<1>2. (IInv /\ EditsTyped) /\ [Next]_vars => (IInv /\ EditsTyped)'
  BY StepSound, EditsStayTyped
<1> QED
  BY <1>1, <1>2, PTL DEF Spec

-----------------------------------------------------------------------------
(* Marks and proposals.                                                     *)

(* While nothing went wrong, an event that is being sent has one worker on  *)
(* it, whose lock has not run out, and a worker's event is being sent.      *)
Alone ==
  Causes = 0 =>
    /\ \A w \in Worker :
         Busy(w) => event[TicketOf(w)].status = "sending" /\ event[TicketOf(w)].wait # 0
    /\ \A w, u \in Worker : Busy(w) /\ Busy(u) /\ TicketOf(w) = TicketOf(u) => u = w
    /\ \A t \in Ticket : event[t].status = "sending" => Attended(t)

(* No mark was put on a ticket yet, if nothing went wrong: its event waits  *)
(* to be claimed, or its worker is not that far.                            *)
Early == {"claimed", "looking", "waiting", "working", "concluded"}
Fresh(t) == \/ event[t].status = "pending"
            \/ \E w \in Worker : worker[w].step \in Early /\ TicketOf(w) = t
Unmarked ==
  Causes = 0 => \A t \in Ticket : Fresh(t) =>
    /\ marked[t] = None
    /\ \A e \in Editor : request[e] # None /\ request[e].ticket = t => request[e].marked = None

(* A mark points at a proposal, stored or about to be, unless something     *)
(* went wrong.                                                              *)
Pointed(t, v) ==
  \/ run[<<t, v>>].outcome = "proposed"
  \/ \E w \in Worker : worker[w].step = "marked" /\ worker[w].doc = <<t, v>>
  \/ Causes > 0

(* An edit writes back no mark but one that points at a proposal; one of    *)
(* the run's own, while nothing went wrong, none at all.                    *)
RequestsSound ==
  \A e \in Editor : request[e] # None =>
    /\ request[e].marked # None => Pointed(request[e].ticket, request[e].marked)
    /\ Causes = 0 /\ request[e].run # None => request[e].marked = None

(* A proposal about to be stored was marked.                                *)
MarkedSound ==
  \A w \in Worker :
    worker[w].step = "marked" => marked[TicketOf(w)] # None \/ erased[TicketOf(w)]

MarksInv == Alone /\ Unmarked /\ RequestsSound /\ MarkedSound /\ MarkAndProposalAgree

(* A worker goes on with its run: it stays on its ticket, and turns from    *)
(* none of the later steps to an earlier one.                               *)
LEMMA GoesOnStep ==
  ASSUME IInv, NEW w \in Worker,
         \/ Begin(w) \/ Miss(w) \/ Decline(w) \/ Ask(w) \/ Conclude(w)
         \/ RecordProposal(w) \/ Store(w) \/ RecordFailure(w)
  PROVE  /\ OnlyMoves(w) /\ Busy(w) /\ Busy(w)' /\ worker'[w].doc = worker[w].doc
         /\ UNCHANGED event /\ Causes' = Causes
         /\ worker'[w].step \in Early => worker[w].step \in Early
         /\ worker'[w].step = "marked" => RecordProposal(w)
         /\ worker[w].step = "marked" => Store(w)
<1>1. /\ worker \in [Worker -> WorkerRecord] /\ worker[w] \in WorkerRecord
      /\ troubles \in TroublesRecord
  BY Typed DEF IInv
<1>2. CASE Begin(w)
  BY <1>1, <1>2 DEF Begin, OnlyMoves, Busy, Causes, Early, WorkerRecord
<1>3. CASE Miss(w)
  BY <1>1, <1>3 DEF Miss, Goes, OnlyMoves, Busy, Causes, Early, WorkerRecord
<1>4. CASE Decline(w)
  BY <1>1, <1>4 DEF Decline, Goes, OnlyMoves, Busy, Causes, Early, WorkerRecord
<1>5. CASE Ask(w)
  BY <1>1, <1>5 DEF Ask, OnlyMoves, Busy, Causes, Early, WorkerRecord
<1>6. CASE Conclude(w)
  BY <1>1, <1>6 DEF Conclude, OnlyMoves, Busy, Causes, Early, WorkerRecord
<1>7. CASE RecordProposal(w)
  BY <1>1, <1>7 DEF RecordProposal, Goes, OnlyMoves, Busy, Causes, Early, WorkerRecord
<1>8. Store(w) \/ RecordFailure(w) => Causes' = Causes
  <2>1. Store(w) \/ RecordFailure(w) => \E n : troubles' = [troubles EXCEPT !.lost = n]
    BY DEF Store, RecordFailure, FinishRun
  <2> QED
    BY <1>1, <2>1 DEF Causes, TroublesRecord
<1>9. CASE Store(w)
  BY <1>1, <1>8, <1>9 DEF Store, Ready, OnlyMoves, Busy, Early, WorkerRecord
<1>10. CASE RecordFailure(w)
  BY <1>1, <1>8, <1>10 DEF RecordFailure, OnlyMoves, Busy, Early, WorkerRecord
<1> QED
  BY <1>2, <1>3, <1>4, <1>5, <1>6, <1>7, <1>9, <1>10

(* Steps that are nobody's run: the workers, the events and the troubles    *)
(* stay as they are.                                                        *)
LEMMA EditsAside ==
  ASSUME \/ \E e \in Editor : CommitEdit(e) \/ LoseEdit(e)
         \/ \E e \in Editor, t \in Ticket : PersonReads(e, t)
         \/ \E w \in Worker, e \in Editor : Triage(w, e)
         \/ \E w \in Worker : TimeOut(w)
         \/ UNCHANGED vars
  PROVE  UNCHANGED <<event, run, worker, troubles>>
BY DEF CommitEdit, LoseEdit, PersonReads, Triage, TimeOut, vars

(* Troubles only ever grow.                                                 *)
LEMMA CausesGrow ==
  ASSUME IInv, [Next]_vars
  PROVE  Causes \in Nat /\ Causes' \in Nat /\ Causes' >= Causes
<1>1. Causes \in Nat /\ troubles \in TroublesRecord
  BY Typed, CausesTyped DEF IInv
<1>2. CASE UNCHANGED troubles
  BY <1>1, <1>2 DEF Causes
<1>3. ASSUME NEW w \in Worker, Store(w) \/ RecordFailure(w) PROVE Causes' = Causes
  BY <1>3, GoesOnStep
<1>4. ASSUME NEW w \in Worker, Fail(w) PROVE Causes' = Causes + 1
  BY <1>1, <1>4 DEF Fail, Causes, TroublesRecord
<1>5. ASSUME NEW w \in Worker, Crash(w) PROVE Causes' = Causes + 1
  BY <1>1, <1>5 DEF Crash, Causes, TroublesRecord
<1>6. CASE Tick
  <2>1. Causes' = Causes + Cardinality(Stalled) /\ Cardinality(Stalled) \in Nat
    BY <1>6, TimePasses
  <2> QED
    BY <1>1, <2>1
<1>7. \/ UNCHANGED troubles
      \/ \E w \in Worker : Store(w) \/ RecordFailure(w) \/ Fail(w) \/ Crash(w)
      \/ Tick
  BY EditsAside DEF Next, Claims, Work, Claim, Begin, Miss, Decline, Ask, Conclude, RecordProposal,
     Return, Wait, Deliver
<1>8. Causes' = Causes => Causes' \in Nat /\ Causes' >= Causes
  BY <1>1
<1>9. Causes' = Causes + 1 => Causes' \in Nat /\ Causes' >= Causes
  BY <1>1
<1> QED
  BY <1>1, <1>2, <1>3, <1>4, <1>5, <1>6, <1>7, <1>8, <1>9

(* A failure and a crash are troubles.                                      *)
LEMMA TroubleCounted ==
  ASSUME IInv, NEW w \in Worker, Fail(w) \/ Crash(w)
  PROVE  Causes' # 0
<1>1. troubles \in TroublesRecord /\ Causes \in Nat
  BY Typed, CausesTyped DEF IInv
<1>2. CASE Fail(w)
  <2>1. Causes' = Causes + 1
    BY <1>1, <1>2 DEF Fail, Causes, TroublesRecord
  <2> QED
    BY <1>1, <2>1
<1>3. CASE Crash(w)
  <2>1. Causes' = Causes + 1
    BY <1>1, <1>3 DEF Crash, Causes, TroublesRecord
  <2> QED
    BY <1>1, <2>1
<1> QED
  BY <1>2, <1>3

(* The other workers stay alone on their tickets when one goes on.          *)
LEMMA AloneKept ==
  ASSUME IInv, Alone, NEW w \in Worker, OnlyMoves(w), Busy(w), worker'[w].doc = worker[w].doc,
         Busy(w)', UNCHANGED event, Causes' = Causes
  PROVE  Alone'
<1>1. \A u \in Worker : (Busy(u)' <=> Busy(u)) /\ (Busy(u) => TicketOf(u)' = TicketOf(u))
  BY DEF OnlyMoves, Busy, TicketOf
<1>2. \A t \in Ticket : Attended(t)' <=> Attended(t)
  BY <1>1 DEF Attended
<1> QED
  BY <1>1, <1>2 DEF Alone

(* Who claims an event while nothing went wrong finds it pending, and is    *)
(* alone on it.                                                             *)
LEMMA AloneClaim ==
  ASSUME IInv, Alone, Causes = 0, NEW w \in Worker, NEW t \in Ticket, Claim(w, t)
  PROVE  /\ Alone' /\ event[t].status = "pending"
         /\ OnlyMoves(w) /\ TicketOf(w)' = t /\ \A s \in Ticket : s # t => event'[s] = event[s]
<1>1. /\ worker \in [Worker -> WorkerRecord] /\ event \in [Ticket -> EventRecord]
      /\ AGENT_LOCK \in Nat /\ AGENT_LOCK # 0
  BY Typed, AgentRunsAssumption DEF IInv
<1>2. event[t].status = "pending"
  BY DEF Claim, Claimable, Alone, Attended
<1>3. \A u \in Worker : Busy(u) => TicketOf(u) # t
  BY <1>2 DEF Alone
<1>4. /\ OnlyMoves(w) /\ worker'[w].doc = <<t, version[t]>> /\ worker'[w].step = "claimed"
      /\ ~Busy(w)
  <2>1. PICK mode : worker' = [worker EXCEPT ![w] =
            [AtRest EXCEPT !.step = "claimed", !.tries = Min({event[t].attempts + 1, MAX_ATTEMPTS}),
                           !.doc = <<t, version[t]>>, !.mode = mode]]
    BY DEF Claim
  <2>2. ~Busy(w)
    BY DEF Claim
  <2> QED
    BY <1>1, <2>1, <2>2 DEF OnlyMoves, AtRest
<1>5. TicketOf(w)' = t /\ Busy(w)'
  BY <1>4 DEF TicketOf, Busy
<1>6. /\ event'[t].status = "sending" /\ event'[t].wait = AGENT_LOCK
      /\ \A s \in Ticket : s # t => event'[s] = event[s]
  BY <1>1 DEF Claim
<1>7. \A u \in Worker : u # w => (Busy(u)' <=> Busy(u)) /\ TicketOf(u)' = TicketOf(u)
  BY <1>4 DEF OnlyMoves, Busy, TicketOf
<1>8. ASSUME NEW u \in Worker, Busy(u)'
      PROVE  event'[TicketOf(u)'].status = "sending" /\ event'[TicketOf(u)'].wait # 0
  <2>1. CASE u = w
    BY <1>1, <1>5, <1>6, <2>1
  <2>2. CASE u # w
    <3>1. TicketOf(u) \in Ticket /\ TicketOf(u) # t /\ Busy(u)
      BY <1>3, <1>7, <1>8, <2>2, AtWork
    <3> QED
      BY <1>6, <1>7, <2>2, <3>1 DEF Alone
  <2> QED
    BY <2>1, <2>2
<1>9. \A u, x \in Worker : Busy(u)' /\ Busy(x)' /\ TicketOf(u)' = TicketOf(x)' => x = u
  BY <1>3, <1>5, <1>7 DEF Alone
<1>10. ASSUME NEW s \in Ticket, event'[s].status = "sending" PROVE Attended(s)'
  <2>1. CASE s = t
    BY <1>5, <2>1 DEF Attended
  <2>2. CASE s # t
    <3>1. PICK u \in Worker : Busy(u) /\ TicketOf(u) = s
      BY <1>6, <1>10, <2>2 DEF Alone, Attended
    <3>2. u # w
      BY <1>4, <3>1
    <3> QED
      BY <1>7, <3>1, <3>2 DEF Attended
  <2> QED
    BY <2>1, <2>2
<1> QED
  BY <1>2, <1>4, <1>5, <1>6, <1>8, <1>9, <1>10 DEF Alone

(* Who settles its event leaves it to nobody, or to be claimed again.       *)
LEMMA AloneRests ==
  ASSUME IInv, Alone, Causes = 0, NEW w \in Worker, Wait(w) \/ Deliver(w)
  PROVE  /\ Alone' /\ OnlyMoves(w) /\ worker'[w].step = "idle"
         /\ \A s \in Ticket : s # TicketOf(w) => event'[s] = event[s]
         /\ worker[w].step = "delivering" => event'[TicketOf(w)].status # "pending"
<1> DEFINE t == TicketOf(w)
<1>1. /\ Busy(w) /\ Rests(w) /\ UNCHANGED troubles
      /\ \/ worker[w].step = "waiting" /\ Settle(t, "pending", RetryWait)
         \/ worker[w].step = "delivering" /\ Settle(t, "delivered", 0)
  BY DEF Wait, Deliver, Busy
<1>2. t \in Ticket /\ event[t].status = "sending" /\ RetryWait \in Nat
  BY <1>1, AtWork, AgentRunsAssumption DEF Alone
<1>3. /\ \A s \in Ticket : s # t => event'[s] = event[s]
      /\ event'[t].status \in {"pending", "delivered"}
      /\ worker[w].step = "delivering" => event'[t].status = "delivered"
  BY <1>1, <1>2, Settled DEF IInv
<1>4. /\ OnlyMoves(w) /\ worker'[w].step = "idle"
  BY <1>1, RestsIdle DEF IInv, OnlyMoves
<1>5. \A u \in Worker : Busy(u)' => u # w /\ Busy(u) /\ TicketOf(u)' = TicketOf(u)
  BY <1>4 DEF OnlyMoves, Busy, TicketOf
<1>6. \A u \in Worker : Busy(u) /\ u # w => Busy(u)' /\ TicketOf(u) # t
  BY <1>1, <1>4 DEF OnlyMoves, Busy, Alone
<1>7. ASSUME NEW u \in Worker, Busy(u)'
      PROVE  event'[TicketOf(u)'].status = "sending" /\ event'[TicketOf(u)'].wait # 0
  <2>1. TicketOf(u) \in Ticket /\ TicketOf(u) # t /\ Busy(u) /\ TicketOf(u)' = TicketOf(u)
    BY <1>5, <1>6, <1>7, AtWork
  <2> QED
    BY <1>3, <2>1 DEF Alone
<1>8. \A u, x \in Worker : Busy(u)' /\ Busy(x)' /\ TicketOf(u)' = TicketOf(x)' => x = u
  BY <1>5 DEF Alone
<1>9. ASSUME NEW s \in Ticket, event'[s].status = "sending" PROVE Attended(s)'
  <2>1. s # t
    BY <1>3, <1>9
  <2>2. PICK u \in Worker : Busy(u) /\ TicketOf(u) = s
    BY <1>3, <1>9, <2>1 DEF Alone, Attended
  <2> QED
    BY <1>5, <1>6, <2>1, <2>2 DEF Attended
<1>10. Alone'
  BY <1>7, <1>8, <1>9 DEF Alone
<1> QED
  BY <1>3, <1>4, <1>10

(* While nothing goes wrong, workers stay alone on their tickets, and no    *)
(* ticket becomes one that has no mark yet.                                 *)
LEMMA AloneStep ==
  ASSUME IInv, Alone, [Next]_vars
  PROVE  Alone' /\ (Causes' = 0 => \A t \in Ticket : Fresh(t)' => Fresh(t))
<1>1. Causes \in Nat /\ Causes' \in Nat /\ Causes' >= Causes
  BY CausesGrow
<1>2. CASE Causes' # 0
  BY <1>2 DEF Alone
<1> SUFFICES ASSUME Causes' = 0, Causes = 0
             PROVE  Alone' /\ \A t \in Ticket : Fresh(t)' => Fresh(t)
  BY <1>1, <1>2
<1>3. ASSUME NEW w \in Worker, NEW t \in Ticket, Claim(w, t)
      PROVE  Alone' /\ \A s \in Ticket : Fresh(s)' => Fresh(s)
  <2>1. /\ Alone' /\ event[t].status = "pending"
        /\ OnlyMoves(w) /\ TicketOf(w)' = t /\ \A s \in Ticket : s # t => event'[s] = event[s]
    BY <1>3, AloneClaim
  <2>2. Fresh(t)
    BY <2>1 DEF Fresh
  <2>3. \A s \in Ticket : s # t => (Fresh(s)' => Fresh(s))
    BY <2>1 DEF Fresh, OnlyMoves, TicketOf
  <2> QED
    BY <2>1, <2>2, <2>3
<1>4. ASSUME NEW w \in Worker,
             \/ Begin(w) \/ Miss(w) \/ Decline(w) \/ Ask(w) \/ Conclude(w)
             \/ RecordProposal(w) \/ Store(w) \/ RecordFailure(w)
      PROVE  Alone' /\ \A s \in Ticket : Fresh(s)' => Fresh(s)
  <2>1. /\ OnlyMoves(w) /\ Busy(w) /\ Busy(w)' /\ worker'[w].doc = worker[w].doc
        /\ UNCHANGED event /\ Causes' = Causes
        /\ worker'[w].step \in Early => worker[w].step \in Early
    BY <1>4, GoesOnStep
  <2>2. Alone'
    BY <2>1, AloneKept
  <2>3. \A s \in Ticket : Fresh(s)' => Fresh(s)
    BY <2>1 DEF Fresh, OnlyMoves, TicketOf
  <2> QED
    BY <2>2, <2>3
<1>5. ASSUME NEW w \in Worker, Wait(w) \/ Deliver(w)
      PROVE  Alone' /\ \A s \in Ticket : Fresh(s)' => Fresh(s)
  <2>1. /\ Alone' /\ OnlyMoves(w) /\ worker'[w].step = "idle"
        /\ \A s \in Ticket : s # TicketOf(w) => event'[s] = event[s]
        /\ worker[w].step = "delivering" => event'[TicketOf(w)].status # "pending"
    BY <1>5, AloneRests
  <2>2. \A s \in Ticket : (\E u \in Worker : worker'[u].step \in Early /\ TicketOf(u)' = s) => Fresh(s)
    BY <2>1 DEF Fresh, OnlyMoves, TicketOf, Early
  <2>3. \A s \in Ticket : event'[s].status = "pending" => Fresh(s)
    <3>1. worker[w].step = "waiting" \/ worker[w].step = "delivering"
      BY <1>5 DEF Wait, Deliver
    <3>2. worker[w].step = "waiting" => \A s \in Ticket : s = TicketOf(w) => Fresh(s)
      BY DEF Fresh, Early
    <3> QED
      BY <2>1, <3>1, <3>2 DEF Fresh
  <2> QED
    BY <2>1, <2>2, <2>3 DEF Fresh
<1>6. ASSUME NEW w \in Worker, Return(w) PROVE FALSE
  BY <1>1, <1>6 DEF Return, IInv, StepsSound
<1>7. ASSUME NEW w \in Worker, Fail(w) \/ Crash(w) PROVE FALSE
  BY <1>7, TroubleCounted
<1>8. CASE Tick
  <2>1. /\ UNCHANGED worker /\ Causes' = Causes + Cardinality(Stalled)
        /\ IsFiniteSet(Stalled) /\ Cardinality(Stalled) \in Nat
        /\ \A t \in Ticket : /\ event'[t].status = event[t].status
                             /\ event'[t].wait = 0 => event[t].wait \in {0, 1}
    BY <1>8, TimePasses
  <2>2. Stalled = {}
    BY <1>1, <2>1, FS_EmptySet
  <2>3. \A u \in Worker : (Busy(u)' <=> Busy(u)) /\ TicketOf(u)' = TicketOf(u)
    BY <2>1 DEF Busy, TicketOf
  <2>4. ASSUME NEW u \in Worker, Busy(u)
        PROVE  event'[TicketOf(u)].status = "sending" /\ event'[TicketOf(u)].wait # 0
    <3>1. /\ TicketOf(u) \in Ticket /\ event[TicketOf(u)].status = "sending"
          /\ event[TicketOf(u)].wait # 0
      BY <2>4, AtWork DEF Alone
    <3>2. event[TicketOf(u)].wait # 1
      BY <2>2, <2>4, <3>1 DEF Stalled
    <3> QED
      BY <2>1, <3>1, <3>2
  <2>5. \A t \in Ticket : Attended(t)' <=> Attended(t)
    BY <2>3 DEF Attended
  <2>6. Alone'
    BY <2>1, <2>3, <2>4, <2>5 DEF Alone
  <2>7. \A s \in Ticket : Fresh(s)' => Fresh(s)
    BY <2>1 DEF Fresh, TicketOf
  <2> QED
    BY <2>6, <2>7
<1>9. ASSUME UNCHANGED <<event, run, worker, troubles>>
      PROVE  Alone' /\ \A s \in Ticket : Fresh(s)' => Fresh(s)
  BY <1>9 DEF Alone, Fresh, Busy, TicketOf, Attended, Causes
<1> QED
  BY <1>3, <1>4, <1>5, <1>6, <1>7, <1>8, <1>9, EditsAside DEF Next, Claims, Work

(* What a run concluded stays as it is.                                     *)
LEMMA ConclusionsKept ==
  ASSUME IInv, [Next]_vars, NEW d \in Doc, run[d].outcome \in Final
  PROVE  run'[d].outcome = run[d].outcome /\ run'[d].cost = run[d].cost
<1>1. run \in [Doc -> RunRecord] /\ run[d] \in RunRecord
  BY Typed DEF IInv
<1>2. run[d].outcome \notin {"none", "error", "running"}
  BY DEF Final, Stopped
<1>3. CASE UNCHANGED run
  BY <1>3
<1>4. ASSUME NEW w \in Worker, Begin(w) PROVE run'[d] = run[d]
  <2>1. worker[w].doc # d
    BY <1>2, <1>4 DEF Begin, MayBegin, Abandoned
  <2> QED
    BY <1>1, <1>4, <2>1 DEF Begin
<1>5. ASSUME NEW w \in Worker, Store(w) \/ RecordFailure(w) PROVE run'[d] = run[d]
  <2>1. UNCHANGED run \/ (worker[w].doc # d /\ \E new : run' = [run EXCEPT ![worker[w].doc] = new])
    BY <1>2, <1>5 DEF Store, RecordFailure, FinishRun, IsCurrent
  <2> QED
    BY <1>1, <2>1
<1>6. CASE Tick
  BY <1>1, <1>6 DEF Tick, RunRecord
<1>7. CASE UNCHANGED vars
  BY <1>7 DEF vars
<1> QED
  BY <1>3, <1>4, <1>5, <1>6, <1>7 DEF Next, Claims, Work, Claim, Miss, Decline, Ask, Triage,
     TimeOut, PersonReads, CommitEdit, LoseEdit, Conclude, RecordProposal, Return, Wait, Deliver,
     Fail, Crash

(* A run has a proposal stored by a worker that marked it.                  *)
LEMMA ProposalMade ==
  ASSUME IInv, [Next]_vars, NEW d \in Doc, run'[d].outcome = "proposed"
  PROVE  \/ run[d].outcome = "proposed"
         \/ \E w \in Worker : worker[w].step = "marked" /\ worker[w].doc = d
<1>1. run \in [Doc -> RunRecord]
  BY Typed DEF IInv
<1>2. ASSUME NEW w \in Worker, Begin(w) PROVE run[d].outcome = "proposed"
  BY <1>1, <1>2 DEF Begin, NoRun
<1>3. ASSUME NEW w \in Worker, RecordFailure(w) PROVE run[d].outcome = "proposed"
  BY <1>1, <1>3 DEF RecordFailure, FinishRun, RunRecord
<1>4. ASSUME NEW w \in Worker, Store(w), run[d].outcome # "proposed"
      PROVE  worker[w].step = "marked" /\ worker[w].doc = d
  <2>1. run' = [run EXCEPT ![worker[w].doc] =
                  [@ EXCEPT !.outcome = worker[w].result, !.cost = worker[w].spent, !.age = 0]]
    BY <1>1, <1>4 DEF Store, FinishRun
  <2>2. worker[w].doc = d /\ worker[w].result = "proposed"
    BY <1>1, <1>4, <2>1 DEF RunRecord
  <2> QED
    BY <1>4, <2>2 DEF Store, Ready
<1>5. CASE Tick
  BY <1>5, TimePasses
<1>6. CASE UNCHANGED run
  BY <1>6
<1> QED
  BY <1>2, <1>3, <1>4, <1>5, <1>6, EditsAside DEF Next, Claims, Work, Claim, Miss, Decline, Ask,
     Conclude, RecordProposal, Return, Wait, Deliver, Fail, Crash

(* A worker at its mark marked its ticket just now, or was there before.    *)
LEMMA MarkedBefore ==
  ASSUME IInv, [Next]_vars, NEW w \in Worker, worker'[w].step = "marked"
  PROVE  worker'[w].doc = worker[w].doc /\ (worker[w].step = "marked" \/ RecordProposal(w))
<1>1. worker \in [Worker -> WorkerRecord]
  BY Typed DEF IInv
<1>2. ASSUME NEW u \in Worker, NEW t \in Ticket, Claim(u, t) PROVE worker'[w] = worker[w]
  <2>1. PICK mode : worker' = [worker EXCEPT ![u] =
            [AtRest EXCEPT !.step = "claimed", !.tries = Min({event[t].attempts + 1, MAX_ATTEMPTS}),
                           !.doc = <<t, version[t]>>, !.mode = mode]]
    BY <1>2 DEF Claim
  <2> QED
    BY <1>1, <2>1 DEF AtRest
<1>3. ASSUME NEW u \in Worker,
             \/ Begin(u) \/ Miss(u) \/ Decline(u) \/ Ask(u) \/ Conclude(u)
             \/ RecordProposal(u) \/ Store(u) \/ RecordFailure(u)
      PROVE  worker'[w].doc = worker[w].doc /\ (worker[w].step = "marked" \/ RecordProposal(w))
  BY <1>3, GoesOnStep DEF OnlyMoves
<1>4. ASSUME NEW u \in Worker, Return(u) \/ Wait(u) \/ Deliver(u) \/ Crash(u)
      PROVE  worker'[w] = worker[w]
  <2>1. Rests(u)
    BY <1>4 DEF Return, Wait, Deliver, Crash
  <2> QED
    BY <2>1, RestsIdle DEF IInv
<1>5. ASSUME NEW u \in Worker, Fail(u) PROVE worker'[w] = worker[w]
  BY <1>1, <1>5 DEF Fail, Goes, WorkerRecord
<1>6. CASE Tick
  BY <1>6, TimePasses
<1>7. CASE UNCHANGED worker
  BY <1>7
<1> QED
  BY <1>2, <1>3, <1>4, <1>5, <1>6, <1>7, EditsAside DEF Next, Claims, Work

(* Who marked a ticket stores its proposal, unless something goes wrong.    *)
LEMMA MarkedAfter ==
  ASSUME IInv, [Next]_vars, NEW w \in Worker, worker[w].step = "marked", Causes' = 0
  PROVE  \/ worker'[w].step = "marked" /\ worker'[w].doc = worker[w].doc
         \/ run'[worker[w].doc].outcome = "proposed"
<1>1. /\ worker \in [Worker -> WorkerRecord] /\ run \in [Doc -> RunRecord]
      /\ troubles \in TroublesRecord /\ Busy(w) /\ worker[w].doc \in Doc
  BY Typed, AtWork DEF IInv, Busy
<1>2. Causes = 0 /\ Causes \in Nat
  BY CausesGrow
<1>3. ASSUME NEW u \in Worker, NEW t \in Ticket, Claim(u, t) PROVE worker'[w] = worker[w]
  <2>1. u # w
    BY <1>1, <1>3 DEF Claim
  <2> QED
    BY <1>1, <1>3, <2>1 DEF Claim
<1>4. ASSUME NEW u \in Worker,
             \/ Begin(u) \/ Miss(u) \/ Decline(u) \/ Ask(u) \/ Conclude(u)
             \/ RecordProposal(u) \/ RecordFailure(u) \/ (Store(u) /\ u # w)
      PROVE  worker'[w] = worker[w]
  <2>1. OnlyMoves(u) /\ (worker[u].step = "marked" => Store(u))
    BY <1>4, GoesOnStep
  <2>2. u # w
    BY <1>4, <2>1 DEF Begin, Miss, Decline, Ask, Conclude, RecordProposal, RecordFailure
  <2> QED
    BY <2>1, <2>2 DEF OnlyMoves
<1>5. CASE Store(w)
  <2>1. IsCurrent(w) /\ worker[w].result = "proposed"
    BY <1>2 DEF IInv, WorkersCurrent, StepsSound
  <2>2. run' = [run EXCEPT ![worker[w].doc] =
                  [@ EXCEPT !.outcome = "proposed", !.cost = worker[w].spent, !.age = 0]]
    BY <1>5, <2>1 DEF Store, FinishRun
  <2> QED
    BY <1>1, <2>2 DEF RunRecord
<1>6. ASSUME NEW u \in Worker, Return(u) \/ Wait(u) \/ Deliver(u) PROVE worker'[w] = worker[w]
  <2>1. Rests(u) /\ u # w
    BY <1>6 DEF Return, Wait, Deliver
  <2> QED
    BY <2>1, RestsIdle DEF IInv
<1>7. ASSUME NEW u \in Worker, Fail(u) \/ Crash(u) PROVE FALSE
  BY <1>2, <1>7, TroubleCounted
<1>8. CASE Tick
  BY <1>8, TimePasses
<1>9. CASE UNCHANGED worker
  BY <1>9
<1> QED
  BY <1>3, <1>4, <1>5, <1>6, <1>7, <1>8, <1>9, EditsAside DEF Next, Claims, Work

(* What points at a proposal goes on doing so.                              *)
LEMMA PointedKept ==
  ASSUME IInv, [Next]_vars, NEW t \in Ticket, NEW v \in Version, Pointed(t, v)
  PROVE  Pointed(t, v)'
<1>1. Causes \in Nat /\ Causes' \in Nat /\ Causes' >= Causes
  BY CausesGrow
<1>2. <<t, v>> \in Doc
  BY DocParts
<1>3. CASE Causes > 0 \/ Causes' > 0
  BY <1>1, <1>3 DEF Pointed
<1>4. CASE run[<<t, v>>].outcome = "proposed"
  BY <1>2, <1>4, ConclusionsKept DEF Pointed, Final
<1>5. ASSUME NEW w \in Worker, worker[w].step = "marked", worker[w].doc = <<t, v>>, Causes' = 0
      PROVE  Pointed(t, v)'
  BY <1>5, MarkedAfter DEF Pointed
<1> QED
  BY <1>1, <1>3, <1>4, <1>5 DEF Pointed

(* Marks change when a proposal is marked, and when an edit is written.     *)
LEMMA MarksMove ==
  ASSUME [Next]_vars
  PROVE  \/ UNCHANGED <<marked, erased>>
         \/ \E w \in Worker : RecordProposal(w)
         \/ \E e \in Editor : CommitEdit(e)
BY DEF Next, Claims, Work, Claim, Begin, Miss, Decline, Ask, Triage, TimeOut, Conclude, Store,
   RecordFailure, Return, Wait, Deliver, Fail, Crash, PersonReads, LoseEdit, Tick, vars, edits

(* Edits come about when they are read, and say what the ticket said.       *)
LEMMA RequestsMove ==
  ASSUME IInv, EditsTyped, [Next]_vars, NEW e \in Editor, request'[e] # None, request'[e] # request[e]
  PROVE  /\ UNCHANGED <<marked, worker, run, event, troubles>>
         /\ request'[e].marked = marked[request'[e].ticket] /\ request'[e].ticket \in Ticket
         /\ request'[e].run # None => Fresh(request'[e].ticket)
<1>1. \A x \in Editor : request' = [request EXCEPT ![x] = None] => request'[e] \in {None, request[e]}
  BY DEF EditsTyped
<1>2. ASSUME NEW x \in Editor, NEW t \in Ticket, PersonReads(x, t)
      PROVE  /\ UNCHANGED <<marked, worker, run, event, troubles>>
             /\ request'[e].marked = marked[request'[e].ticket] /\ request'[e].ticket \in Ticket
             /\ request'[e].run # None => Fresh(request'[e].ticket)
  <2>1. PICK whole : request' = [request EXCEPT ![x] = Reads(t, whole, None)]
    BY <1>2 DEF PersonReads
  <2>2. request'[e] = Reads(t, whole, None)
    BY <2>1 DEF EditsTyped
  <2> QED
    BY <1>2, <2>2 DEF PersonReads, Reads
<1>3. ASSUME NEW x \in Editor, NEW w \in Worker, Triage(w, x)
      PROVE  /\ UNCHANGED <<marked, worker, run, event, troubles>>
             /\ request'[e].marked = marked[request'[e].ticket] /\ request'[e].ticket \in Ticket
             /\ request'[e].run # None => Fresh(request'[e].ticket)
  <2>1. request' = [request EXCEPT ![x] = Reads(TicketOf(w), TRUE, worker[w].doc[2])]
    BY <1>3 DEF Triage
  <2>2. request'[e] = Reads(TicketOf(w), TRUE, worker[w].doc[2])
    BY <2>1 DEF EditsTyped
  <2>3. TicketOf(w) \in Ticket /\ Fresh(TicketOf(w))
    BY <1>3, AtWork DEF Triage, Busy, Fresh, Early
  <2> QED
    BY <1>3, <2>2, <2>3 DEF Triage, Reads
<1> QED
  BY <1>1, <1>2, <1>3 DEF Next, Claims, Work, Claim, Begin, Miss, Decline, Ask, TimeOut, Conclude,
     RecordProposal, Store, RecordFailure, Return, Wait, Deliver, Fail, Crash, CommitEdit, LoseEdit,
     Tick, vars, edits

(* Edits go on saying what they may.                                        *)
LEMMA RequestsStep ==
  ASSUME IInv, EditsTyped, EditsTyped', MarksInv, [Next]_vars
  PROVE  RequestsSound'
<1> SUFFICES ASSUME NEW e \in Editor, request'[e] # None
             PROVE  /\ request'[e].marked # None =>
                         \E t \in Ticket, v \in Version :
                           t = request'[e].ticket /\ v = request'[e].marked /\ Pointed(t, v)'
                    /\ Causes' = 0 /\ request'[e].run # None => request'[e].marked = None
  BY DEF RequestsSound, Pointed
<1>1. Causes \in Nat /\ Causes' \in Nat /\ Causes' >= Causes
  BY CausesGrow
<1>2. /\ request'[e].ticket \in Ticket
      /\ request'[e].marked # None => request'[e].marked \in Version
  BY DEF EditsTyped
<1>3. /\ request'[e].marked # None => Pointed(request'[e].ticket, request'[e].marked)
      /\ Causes = 0 /\ request'[e].run # None => request'[e].marked = None
  <2>1. CASE request'[e] = request[e]
    BY <2>1 DEF MarksInv, RequestsSound
  <2>2. CASE request'[e] # request[e]
    <3>1. /\ UNCHANGED <<marked, worker, run, event, troubles>>
          /\ request'[e].marked = marked[request'[e].ticket]
          /\ request'[e].run # None => Fresh(request'[e].ticket)
      BY <2>2, RequestsMove
    <3>2. request'[e].marked # None => Pointed(request'[e].ticket, request'[e].marked)
      BY <1>2, <3>1 DEF MarksInv, MarkAndProposalAgree, Pointed
    <3>3. Causes = 0 /\ request'[e].run # None => request'[e].marked = None
      BY <1>2, <3>1 DEF MarksInv, Unmarked
    <3> QED
      BY <3>2, <3>3
  <2> QED
    BY <2>1, <2>2
<1>4. ASSUME NEW t \in Ticket, NEW v \in Version, t = request'[e].ticket, v = request'[e].marked,
             v # None
      PROVE  Pointed(t, v)'
  <2>1. Pointed(t, v)
    BY <1>3, <1>4
  <2> QED
    BY <2>1, PointedKept
<1> QED
  BY <1>1, <1>2, <1>3, <1>4

(* Tickets that have no mark yet get none from an edit, and the ticket that *)
(* a run marks is no longer one of them.                                    *)
LEMMA UnmarkedStep ==
  ASSUME IInv, EditsTyped, EditsTyped', MarksInv, [Next]_vars
  PROVE  Unmarked'
<1>1. Causes \in Nat /\ Causes' \in Nat /\ Causes' >= Causes
  BY CausesGrow
<1> SUFFICES ASSUME Causes' = 0, Causes = 0, NEW t \in Ticket, Fresh(t)'
             PROVE  /\ marked'[t] = None
                    /\ \A e \in Editor : request'[e] # None /\ request'[e].ticket = t =>
                         request'[e].marked = None
  BY <1>1 DEF Unmarked
<1>2. Fresh(t)
  BY AloneStep DEF MarksInv
<1>3. /\ marked[t] = None
      /\ \A e \in Editor : request[e] # None /\ request[e].ticket = t => request[e].marked = None
  BY <1>2 DEF MarksInv, Unmarked
<1>4. marked \in [Ticket -> Version \cup {None}]
  BY Typed DEF IInv
<1>5. marked'[t] = None
  <2>1. ASSUME NEW w \in Worker, RecordProposal(w) PROVE marked'[t] = marked[t]
    <3>1. /\ OnlyMoves(w) /\ Busy(w) /\ UNCHANGED event
          /\ worker'[w].doc = worker[w].doc
      BY <2>1, GoesOnStep
    <3>2. worker'[w].step = "marked"
      BY <2>1, GoesOn DEF RecordProposal, IInv, Step
    <3>3. TicketOf(w) # t
      <4>1. event[TicketOf(w)].status = "sending"
        BY <3>1 DEF MarksInv, Alone
      <4>2. \A u \in Worker : worker[u].step \in Early /\ TicketOf(u) = TicketOf(w) => u = w
        BY <3>1 DEF MarksInv, Alone, Busy, Early
      <4>3. \A u \in Worker : worker'[u].step \in Early =>
              u # w /\ worker[u].step \in Early /\ TicketOf(u)' = TicketOf(u)
        BY <3>1, <3>2 DEF OnlyMoves, Early, TicketOf
      <4>4. ~(\E u \in Worker : worker'[u].step \in Early /\ TicketOf(u)' = TicketOf(w))
        BY <4>2, <4>3
      <4>5. event'[TicketOf(w)].status # "pending"
        BY <3>1, <4>1
      <4> QED
        BY <4>4, <4>5 DEF Fresh
    <3> QED
      BY <1>4, <2>1, <3>3 DEF RecordProposal
  <2>2. ASSUME NEW e \in Editor, CommitEdit(e) PROVE marked'[t] = None
    <3>1. request[e] # None /\ marked' \in {marked, [marked EXCEPT ![request[e].ticket] = MarkWritten(request[e])]}
      BY <2>2 DEF CommitEdit
    <3>2. request[e].ticket = t => MarkWritten(request[e]) = None
      BY <1>3, <3>1 DEF MarkWritten
    <3> QED
      BY <1>3, <1>4, <3>1, <3>2
  <2>3. CASE UNCHANGED <<marked, erased>>
    BY <1>3, <2>3
  <2> QED
    BY <1>3, <2>1, <2>2, <2>3, MarksMove
<1>6. ASSUME NEW e \in Editor, request'[e] # None, request'[e].ticket = t
      PROVE  request'[e].marked = None
  <2>1. CASE request'[e] = request[e]
    BY <1>3, <1>6, <2>1
  <2>2. CASE request'[e] # request[e]
    BY <1>3, <1>6, <2>2, RequestsMove
  <2> QED
    BY <2>1, <2>2
<1> QED
  BY <1>5, <1>6

(* A ticket that has a mark, or whose mark was written over, goes on        *)
(* having, or having had, one.                                              *)
LEMMA MarkOrErased ==
  ASSUME IInv, EditsTyped, [Next]_vars, NEW t \in Ticket, marked[t] # None \/ erased[t]
  PROVE  marked'[t] # None \/ erased'[t]
<1>1. marked \in [Ticket -> Version \cup {None}] /\ erased \in [Ticket -> BOOLEAN] /\ None \notin Version
  BY Typed, AgentRunsAssumption DEF IInv, EditsTyped, Version
<1>2. ASSUME NEW w \in Worker, RecordProposal(w) PROVE marked'[t] # None \/ erased'[t]
  <2>1. worker[w].doc[2] \in Version
    BY <1>2, AtWork DEF RecordProposal, Busy
  <2> QED
    BY <1>1, <1>2, <2>1 DEF RecordProposal
<1>3. ASSUME NEW e \in Editor, CommitEdit(e) PROVE marked'[t] # None \/ erased'[t]
  <2> DEFINE r == request[e]
  <2>1. CASE UNCHANGED <<marked, erased>>
    BY <2>1
  <2>2. CASE /\ marked' = [marked EXCEPT ![r.ticket] = MarkWritten(r)]
             /\ erased' = [erased EXCEPT ![r.ticket] = @ \/ (marked[r.ticket] # None /\ r.marked = None)]
    <3>1. CASE r.ticket # t
      BY <1>1, <2>2, <3>1
    <3>2. CASE r.ticket = t
      <4>1. r.marked # None => MarkWritten(r) # None
        BY DEF MarkWritten
      <4>2. marked'[t] = MarkWritten(r) /\ erased'[t] = (erased[t] \/ (marked[t] # None /\ r.marked = None))
        BY <1>1, <2>2, <3>2
      <4> QED
        BY <4>1, <4>2
    <3> QED
      BY <3>1, <3>2
  <2> QED
    BY <1>3, <2>1, <2>2 DEF CommitEdit
<1>4. CASE UNCHANGED <<marked, erased>>
  BY <1>4
<1> QED
  BY <1>2, <1>3, <1>4, MarksMove

(* Whoever is about to store a proposal marked it.                          *)
LEMMA MarkedSoundStep ==
  ASSUME IInv, EditsTyped, MarksInv, [Next]_vars
  PROVE  MarkedSound'
<1> SUFFICES ASSUME NEW w \in Worker, worker'[w].step = "marked"
             PROVE  marked'[TicketOf(w)'] # None \/ erased'[TicketOf(w)']
  BY DEF MarkedSound
<1>1. worker'[w].doc = worker[w].doc /\ (worker[w].step = "marked" \/ RecordProposal(w))
  BY MarkedBefore
<1>2. TicketOf(w)' = TicketOf(w) /\ TicketOf(w) \in Ticket
  BY <1>1, AtWork DEF TicketOf, Busy, RecordProposal
<1>3. CASE worker[w].step = "marked"
  <2>1. marked[TicketOf(w)] # None \/ erased[TicketOf(w)]
    BY <1>3 DEF MarksInv, MarkedSound
  <2> QED
    BY <1>2, <2>1, MarkOrErased
<1>4. CASE RecordProposal(w)
  <2>1. worker[w].doc[2] \in Version /\ None \notin Version /\ marked \in [Ticket -> Version \cup {None}]
    BY <1>4, AtWork, Typed, AgentRunsAssumption DEF RecordProposal, Busy, Version, IInv
  <2> QED
    BY <1>2, <1>4, <2>1 DEF RecordProposal
<1> QED
  BY <1>1, <1>3, <1>4

(* Marks and proposals go on agreeing.                                      *)
LEMMA AgreeStep ==
  ASSUME IInv, IInv', EditsTyped, MarksInv, [Next]_vars
  PROVE  MarkAndProposalAgree'
<1>1. /\ marked \in [Ticket -> Version \cup {None}] /\ marked' \in [Ticket -> Version \cup {None}]
  BY Typed, TypedNext DEF IInv
<1>2. ASSUME NEW t \in Ticket, NEW v \in Version, run'[<<t, v>>].outcome = "proposed"
      PROVE  marked'[t] # None \/ erased'[t]
  <2>1. <<t, v>> \in Doc /\ <<t, v>>[1] = t
    BY DocParts
  <2>2. \/ run[<<t, v>>].outcome = "proposed"
        \/ \E w \in Worker : worker[w].step = "marked" /\ worker[w].doc = <<t, v>>
    BY <1>2, <2>1, ProposalMade
  <2>3. marked[t] # None \/ erased[t]
    BY <2>1, <2>2 DEF MarksInv, MarkAndProposalAgree, MarkedSound, TicketOf
  <2> QED
    BY <2>3, MarkOrErased
<1>3. ASSUME NEW t \in Ticket, NEW v \in Version, v # None, v = marked'[t]
      PROVE  Pointed(t, v)'
  <2>1. CASE v = marked[t]
    <3>1. Pointed(t, v)
      BY <1>3, <2>1 DEF MarksInv, MarkAndProposalAgree, Pointed
    <3> QED
      BY <3>1, PointedKept
  <2>2. ASSUME NEW w \in Worker, RecordProposal(w), v # marked[t] PROVE Pointed(t, v)'
    <3>1. TicketOf(w) = t /\ v = worker[w].doc[2]
      BY <1>1, <1>3, <2>2 DEF RecordProposal
    <3>2. worker[w].doc = <<t, v>>
      BY <2>2, <3>1, AtWork DEF RecordProposal, Busy
    <3>3. worker'[w].step = "marked" /\ worker'[w].doc = worker[w].doc
      BY <2>2, GoesOn DEF RecordProposal, IInv, Step
    <3> QED
      BY <3>2, <3>3 DEF Pointed
  <2>3. ASSUME NEW e \in Editor, CommitEdit(e), v # marked[t] PROVE Pointed(t, v)'
    <3>1. request[e] # None /\ marked' \in {marked, [marked EXCEPT ![request[e].ticket] = MarkWritten(request[e])]}
      BY <2>3 DEF CommitEdit
    <3>2. request[e].ticket = t /\ v = MarkWritten(request[e])
      BY <1>1, <1>3, <2>3, <3>1
    <3>3. request[e].marked # None /\ (request[e].run = None => v = request[e].marked)
      BY <1>3, <3>2 DEF MarkWritten
    <3>4. CASE request[e].run = None
      <4>1. Pointed(t, v)
        BY <3>1, <3>2, <3>3, <3>4 DEF MarksInv, RequestsSound
      <4> QED
        BY <4>1, PointedKept
    <3>5. CASE request[e].run # None
      <4>1. Causes # 0
        BY <3>1, <3>3, <3>5 DEF MarksInv, RequestsSound
      <4>2. Causes' > 0
        BY <4>1, CausesGrow
      <4> QED
        BY <4>2 DEF Pointed
    <3> QED
      BY <3>4, <3>5
  <2> QED
    BY <1>3, <2>1, <2>2, <2>3, MarksMove
<1>4. ASSUME NEW t \in Ticket, marked'[t] # None
      PROVE  \/ run'[<<t, marked'[t]>>].outcome = "proposed"
             \/ \E w \in Worker : worker'[w].step = "marked" /\ worker'[w].doc = <<t, marked'[t]>>
             \/ Causes' > 0
  BY <1>1, <1>3, <1>4 DEF Pointed
<1> QED
  BY <1>2, <1>4 DEF MarkAndProposalAgree, Version

(* Nothing is marked, nor being sent, at first.                             *)
LEMMA MarksInit == Init => MarksInv
<1> SUFFICES ASSUME Init PROVE MarksInv
  OBVIOUS
<1>1. /\ \A w \in Worker : worker[w].step = "idle"
      /\ \A t \in Ticket : event[t].status = "pending" /\ marked[t] = None
      /\ \A e \in Editor : request[e] = None
      /\ \A d \in Doc : run[d].outcome = "none"
  BY DEF Init, AtRest, NoRun
<1>2. Alone /\ Unmarked /\ RequestsSound /\ MarkedSound
  BY <1>1 DEF Alone, Unmarked, RequestsSound, MarkedSound, Busy
<1>3. MarkAndProposalAgree
  BY <1>1, DocParts DEF MarkAndProposalAgree
<1> QED
  BY <1>2, <1>3 DEF MarksInv

(* Marks and what edits carry of them stay sound.                           *)
LEMMA AlwaysMarksInv == Spec => []MarksInv
<1>1. MarksInv /\ IInv /\ IInv' /\ EditsTyped /\ EditsTyped' /\ [Next]_vars => MarksInv'
  BY AloneStep, UnmarkedStep, RequestsStep, MarkedSoundStep, AgreeStep DEF MarksInv
<1> QED
  BY <1>1, MarksInit, AlwaysIInv, PTL DEF Spec

-----------------------------------------------------------------------------
(* The theorems.                                                            *)

(* The records keep their types; only the history of runs, cut by a         *)
(* recursive operator, is left to the model checker.                        *)
THEOREM RecordsStayTyped == Spec => [](RecordsTyped /\ EditsTyped)
<1>1. IInv /\ EditsTyped => RecordsTyped /\ EditsTyped
  BY DEF IInv
<1> QED
  BY <1>1, AlwaysIInv, PTL

(* A version of a ticket is attempted once, and once more for every trouble *)
(* there was, however often its event is claimed and by however many        *)
(* workers: each attempt has the first claim or a trouble behind it.        *)
THEOREM AttemptsBounded == Spec => []OneRunPerVersion
<1>1. IInv => OneRunPerVersion
  <2> SUFFICES ASSUME IInv, NEW d \in Doc PROVE run[d].attempts <= 1 + Causes
    BY DEF OneRunPerVersion
  <2>1. PICK t \in Ticket, v \in Version : d = <<t, v>>
    BY DocParts
  <2>2. run[<<t, v>>].attempts + Cardinality(Holding(t)) <= Causes + Budget(t)
    BY DEF IInv, AttemptsPaid, Paid
  <2>3. IsFiniteSet(Holding(t))
    BY AgentRunsAssumption, FS_Subset DEF Holding
  <2>4. Cardinality(Holding(t)) \in Nat
    BY <2>3, FS_CardinalityType
  <2>5. Causes \in Nat /\ run[d].attempts \in Nat /\ Budget(t) \in {0, 1}
    BY Typed, CausesTyped DEF IInv, RunRecord, Budget
  <2> QED
    BY <2>1, <2>2, <2>4, <2>5
<1> QED
  BY <1>1, AlwaysIInv, PTL

(* A stored proposal is on a ticket that points at a run of it, and a       *)
(* ticket's mark is on a proposal, stored or about to be, unless something  *)
(* went wrong between the two writes.                                       *)
THEOREM MarksAgree == Spec => []MarkAndProposalAgree
<1>1. MarksInv => MarkAndProposalAgree
  BY DEF MarksInv
<1> QED
  BY <1>1, AlwaysMarksInv, PTL

(* No step changes what a run concluded, or what it cost: a result is       *)
(* stored only by the attempt that is running, and only what failed, or was *)
(* left running, is begun again.                                            *)
THEOREM ResultsKept == Spec => ResultKept
<1> DEFINE Kept == \A d \in Doc : run[d].outcome \in Final =>
                     run'[d].outcome = run[d].outcome /\ run'[d].cost = run[d].cost
<1>1. ASSUME IInv, [Next]_vars PROVE Kept
  BY <1>1, ConclusionsKept
<1> QED
  BY <1>1, AlwaysIInv, PTL DEF Spec, ResultKept

-----------------------------------------------------------------------------
(* Sums, counted call by call.                                              *)

(* The calls of all but one.                                                *)
Others(cost, x) == {p \in Calls(cost) : p[1] # x}

(* What a call is.                                                          *)
LEMMA CallsOf ==
  ASSUME NEW S, NEW cost \in [S -> Nat]
  PROVE  /\ Calls(cost) = UNION {{x} \X (1..cost[x]) : x \in S}
         /\ \A p : p \in Calls(cost) <=> \E x \in S : p \in {x} \X (1..cost[x])
BY DEF Calls

(* One has as many calls as it paid for.                                    *)
LEMMA OwnCalls ==
  ASSUME NEW x, NEW n \in Nat
  PROVE  /\ IsFiniteSet({x}) /\ Cardinality({x}) = 1
         /\ IsFiniteSet(1..n) /\ Cardinality(1..n) = n
<1>1. 1 \in Int /\ n \in Int
  OBVIOUS
<1>2. IsFiniteSet(1..n) /\ Cardinality(1..n) = IF 1 > n THEN 0 ELSE n - 1 + 1
  BY <1>1, FS_Interval, Zenon
<1>3. IsFiniteSet({x}) /\ Cardinality({x}) = 1
  BY FS_Singleton, Zenon
<1> QED
  BY <1>2, <1>3

(* A finite sum is a number.                                                *)
LEMMA CallsFinite ==
  ASSUME NEW S, IsFiniteSet(S), NEW cost \in [S -> Nat]
  PROVE  IsFiniteSet(Calls(cost)) /\ Total(cost) \in Nat
<1> DEFINE Mine == [x \in S |-> {x} \X (1..cost[x])]
           All == {{x} \X (1..cost[x]) : x \in S}
<1>1. Mine \in Surjection(S, All)
  BY DEF Surjection
<1>2. IsFiniteSet(All)
  BY <1>1, FS_Surjection
<1>3. ASSUME NEW T \in All PROVE IsFiniteSet(T)
  <2>1. PICK x \in S : T = {x} \X (1..cost[x])
    OBVIOUS
  <2>2. IsFiniteSet({x}) /\ IsFiniteSet(1..cost[x])
    BY OwnCalls
  <2> QED
    BY <2>1, <2>2, FS_Product
<1>4. IsFiniteSet(UNION All)
  BY <1>2, <1>3, FS_UNION
<1>5. IsFiniteSet(Calls(cost))
  BY <1>4, CallsOf
<1> QED
  BY <1>5, FS_CardinalityType DEF Total

(* A sum is the share of one and the calls of the others.                   *)
LEMMA TotalApart ==
  ASSUME NEW S, IsFiniteSet(S), NEW cost \in [S -> Nat], NEW x \in S
  PROVE  /\ Cardinality(Others(cost, x)) \in Nat
         /\ Total(cost) = Cardinality(Others(cost, x)) + cost[x]
<1> DEFINE Own == {x} \X (1..cost[x])
<1>1. IsFiniteSet(Calls(cost)) /\ IsFiniteSet(Others(cost, x))
  <2>1. IsFiniteSet(Calls(cost))
    BY CallsFinite
  <2> QED
    BY <2>1, FS_Subset DEF Others
<1>2. IsFiniteSet(Own) /\ Cardinality(Own) = cost[x]
  <2>1. cost[x] \in Nat
    OBVIOUS
  <2>2. /\ IsFiniteSet({x}) /\ Cardinality({x}) = 1
        /\ IsFiniteSet(1..cost[x]) /\ Cardinality(1..cost[x]) = cost[x]
    BY <2>1, OwnCalls
  <2>3. IsFiniteSet(Own) /\ Cardinality(Own) = 1 * cost[x]
    BY <2>2, FS_Product
  <2> QED
    BY <2>1, <2>3
<1>3. Calls(cost) = Others(cost, x) \cup Own
  <2>1. ASSUME NEW p \in Calls(cost) PROVE p \in Others(cost, x) \cup Own
    <3>1. PICK y \in S : p \in {y} \X (1..cost[y])
      BY CallsOf
    <3>2. p[1] = y
      BY <3>1
    <3> QED
      BY <3>1, <3>2 DEF Others
  <2>2. Own \subseteq Calls(cost)
    BY CallsOf
  <2> QED
    BY <2>1, <2>2 DEF Others
<1>4. Others(cost, x) \cap Own = {}
  BY DEF Others
<1>5. Cardinality(Others(cost, x)) \in Nat
  BY <1>1, FS_CardinalityType
<1>6. Cardinality(Others(cost, x) \cup Own) = Cardinality(Others(cost, x)) + Cardinality(Own) - Cardinality({})
  BY <1>1, <1>2, <1>4, FS_Union
<1> QED
  BY <1>2, <1>3, <1>5, <1>6, FS_EmptySet DEF Total

(* A sum changes by what one share changes.                                 *)
LEMMA TotalChanged ==
  ASSUME NEW S, IsFiniteSet(S), NEW old \in [S -> Nat], NEW new \in [S -> Nat], NEW x \in S,
         \A y \in S : y # x => new[y] = old[y]
  PROVE  /\ Total(old) \in Nat /\ Total(new) \in Nat
         /\ Total(new) = Total(old) - old[x] + new[x]
<1>1. ASSUME NEW p PROVE p \in Others(old, x) <=> p \in Others(new, x)
  <2>1. ASSUME NEW f \in [S -> Nat]
        PROVE  p \in Others(f, x) <=> \E y \in S \ {x} : p \in {y} \X (1..f[y])
    <3>1. \A y : p \in {y} \X (1..f[y]) => p[1] = y
      OBVIOUS
    <3> QED
      BY <3>1, CallsOf DEF Others
  <2>2. \A y \in S \ {x} : {y} \X (1..old[y]) = {y} \X (1..new[y])
    OBVIOUS
  <2> QED
    BY <2>1, <2>2
<1>2. Others(old, x) = Others(new, x)
  BY <1>1
<1>3. /\ Cardinality(Others(old, x)) \in Nat
      /\ Total(old) = Cardinality(Others(old, x)) + old[x]
      /\ Total(new) = Cardinality(Others(new, x)) + new[x]
  BY TotalApart
<1>4. old[x] \in Nat /\ new[x] \in Nat
  OBVIOUS
<1> QED
  BY <1>2, <1>3, <1>4

(* No share above a cap: the others have no more than the cap each.         *)
LEMMA OthersCapped ==
  ASSUME NEW S, IsFiniteSet(S), NEW cost \in [S -> Nat], NEW x \in S, NEW cap \in Nat,
         \A y \in S : cost[y] <= cap
  PROVE  /\ Cardinality(S) \in Nat /\ Cardinality(S) >= 1
         /\ Cardinality(Others(cost, x)) <= cap * (Cardinality(S) - 1)
<1> DEFINE Rest == S \ {x}
           Room == Rest \X (1..cap)
<1>1. /\ IsFiniteSet(Rest) /\ Cardinality(Rest) = Cardinality(S) - 1
      /\ Cardinality(Rest) \in Nat /\ Cardinality(S) \in Nat
  BY FS_RemoveElement, FS_CardinalityType
<1>2. IsFiniteSet(1..cap) /\ Cardinality(1..cap) = cap
  BY FS_Interval
<1>3. IsFiniteSet(Room) /\ Cardinality(Room) = Cardinality(Rest) * cap
  BY <1>1, <1>2, FS_Product
<1>4. Others(cost, x) \subseteq Room
  <2> SUFFICES ASSUME NEW p \in Others(cost, x) PROVE p \in Room
    OBVIOUS
  <2>1. PICK y \in S : p \in {y} \X (1..cost[y])
    BY CallsOf DEF Others
  <2>2. p[1] = y /\ y # x /\ p[2] \in 1..cost[y] /\ p = <<p[1], p[2]>>
    BY <2>1 DEF Others
  <2>3. cost[y] \in Nat /\ cost[y] <= cap
    OBVIOUS
  <2>4. p[2] \in 1..cap
    BY <2>2, <2>3
  <2> QED
    BY <2>2, <2>4
<1>5. Cardinality(Others(cost, x)) <= Cardinality(Rest) * cap
  BY <1>3, <1>4, FS_Subset
<1>6. Cardinality(Rest) * cap = cap * (Cardinality(S) - 1)
  BY <1>1
<1> QED
  BY <1>1, <1>5, <1>6

-----------------------------------------------------------------------------
(* What was spent without a record, and what pays for it.                   *)

(* Only a run that works, is about to be stored, or failed, has spent       *)
(* something; nobody above what one run may; and only a result has a cost.  *)
Running == {"working", "concluded", "marked"}
CostsKept ==
  /\ \A w \in Worker :
       /\ worker[w].spent <= RunCap
       /\ worker[w].spent > 0 => worker[w].step \in Running \cup {"failing"}
       /\ worker[w].step \in {"concluded", "marked"} => worker[w].result \in Final
  /\ \A d \in Doc :
       /\ run[d].cost <= RunCap
       /\ run[d].outcome \notin Final => run[d].cost = 0

(* Who may still lose spending, now or after the next claim: workers with a *)
(* run in hand or going, and events that are free.  A worker that failed    *)
(* with spending loses it at once, and its event can be claimed after.      *)
Engaged == {w \in Worker : worker[w].step \notin {"idle", "delivering"}}
Losing == {w \in Worker : worker[w].step = "failing" /\ worker[w].spent > 0}
FreeTickets == {t \in Ticket : Free(t)}

(* One of them for each ticket can still be stored, without any loss: that  *)
(* of the current attempt, or of the attempt to come.                       *)
OnTrack(w) == \/ worker[w].step \in InHand
              \/ worker[w].step \in Running /\ IsCurrent(w)
InPlay == {t \in Ticket : Free(t) \/ \E w \in Worker : OnTrack(w) /\ TicketOf(w) = t}

(* All the others have a trouble behind them, not used up yet: what is lost *)
(* is no more than what one run may spend for each of the troubles that are.*)
Debt == Cardinality(Engaged) + Cardinality(Losing) + Cardinality(FreeTickets) - Cardinality(InPlay)
LossesPaid == troubles.lost <= RunCap * (Causes - Debt)

MoneyInv == CostsKept /\ LossesPaid /\ SpendBounded

Shares == [w \in Worker |-> worker[w].spent]
Costs == [d \in Doc |-> run[d].cost]

(* The share of one worker, and of one ticket, in the debt.                 *)
Weight(w) == (IF w \in Engaged THEN 1 ELSE 0) + (IF w \in Losing THEN 1 ELSE 0)
Room(t) == (IF t \in FreeTickets THEN 1 ELSE 0) - (IF t \in InPlay THEN 1 ELSE 0)

(* A product grows with its second factor.                                  *)
LEMMA TimesGrows ==
  ASSUME NEW c \in Nat, NEW m \in Int, NEW n \in Int, m <= n
  PROVE  c * m <= c * n
OBVIOUS

(* One factor more is the other once more.                                  *)
LEMMA OnceMore == ASSUME NEW c \in Int, NEW m \in Int PROVE c * (m + 1) = c * m + c
OBVIOUS

(* What grows by the cap k times stays below the cap times what grows by k. *)
LEMMA LossesAdd ==
  ASSUME NEW c \in Nat, NEW lost \in Int, NEW more \in Int, NEW k \in Nat,
         NEW a \in Int, NEW b \in Int, NEW d \in Int, NEW e \in Int,
         lost <= c * (a - d), more <= lost + c * k, k + (e - d) <= b - a
  PROVE  more <= c * (b - e)
<1>1. PICK m \in Int : m = a - d
  OBVIOUS
<1>2. PICK n \in Int : n = b - e
  OBVIOUS
<1>3. m + k \in Int /\ m + k <= n
  <2>1. k + (e - d) <= b - a
    OBVIOUS
  <2> QED
    BY <1>1, <1>2, <2>1
<1>4. c * (m + k) <= c * n
  BY <1>3, TimesGrows
<1>5. c * (m + k) = c * m + c * k
  OBVIOUS
<1>6. PICK x \in Int, y \in Int, z \in Int : x = c * m /\ y = c * k /\ z = c * n
  OBVIOUS
<1>7. lost <= x /\ more <= lost + y /\ x + y <= z
  BY <1>1, <1>4, <1>5, <1>6
<1>8. more <= z
  BY <1>7
<1> QED
  BY <1>2, <1>6, <1>8

(* The size of a set changes by the one element that changes.               *)
LEMMA OneMoves ==
  ASSUME NEW A, NEW B, NEW x, IsFiniteSet(A), IsFiniteSet(B), A \ {x} = B \ {x}
  PROVE  /\ Cardinality(A) \in Nat /\ Cardinality(B) \in Nat
         /\ Cardinality(B) = Cardinality(A) + (IF x \in B THEN 1 ELSE 0) - (IF x \in A THEN 1 ELSE 0)
<1>1. Cardinality(A) \in Nat /\ Cardinality(B) \in Nat
  BY FS_CardinalityType
<1>2. Cardinality(A \ {x}) = IF x \in A THEN Cardinality(A) - 1 ELSE Cardinality(A)
  BY FS_RemoveElement
<1>3. Cardinality(B \ {x}) = IF x \in B THEN Cardinality(B) - 1 ELSE Cardinality(B)
  BY FS_RemoveElement
<1> QED
  BY <1>1, <1>2, <1>3

(* The sets that make up the debt are finite.                               *)
LEMMA DebtTyped ==
  /\ IsFiniteSet(Engaged) /\ IsFiniteSet(Losing) /\ IsFiniteSet(FreeTickets) /\ IsFiniteSet(InPlay)
  /\ IsFiniteSet(Engaged') /\ IsFiniteSet(Losing') /\ IsFiniteSet(FreeTickets') /\ IsFiniteSet(InPlay')
  /\ Debt \in Int /\ Debt' \in Int
<1>1. \A S : S \subseteq Worker => IsFiniteSet(S) /\ Cardinality(S) \in Nat
  BY AgentRunsAssumption, FS_Subset, FS_CardinalityType
<1>2. \A S : S \subseteq Ticket => IsFiniteSet(S) /\ Cardinality(S) \in Nat
  BY AgentRunsAssumption, FS_Subset, FS_CardinalityType
<1>3. /\ Engaged \subseteq Worker /\ Losing \subseteq Worker
      /\ Engaged' \subseteq Worker /\ Losing' \subseteq Worker
  BY DEF Engaged, Losing
<1>4. /\ FreeTickets \subseteq Ticket /\ InPlay \subseteq Ticket
      /\ FreeTickets' \subseteq Ticket /\ InPlay' \subseteq Ticket
  BY DEF FreeTickets, InPlay
<1>5. /\ Cardinality(Engaged) \in Nat /\ Cardinality(Losing) \in Nat
      /\ Cardinality(FreeTickets) \in Nat /\ Cardinality(InPlay) \in Nat
      /\ Cardinality(Engaged') \in Nat /\ Cardinality(Losing') \in Nat
      /\ Cardinality(FreeTickets') \in Nat /\ Cardinality(InPlay') \in Nat
  BY <1>1, <1>2, <1>3, <1>4
<1>6. Debt \in Int /\ Debt' \in Int
  BY <1>5 DEF Debt
<1> QED
  BY <1>1, <1>2, <1>3, <1>4, <1>6

(* The debt changes by the share of the worker that moves and of its ticket.*)
LEMMA DebtMoves ==
  ASSUME IInv, NEW w \in Worker, OnlyMoves(w), NEW t \in Ticket,
         Busy(w) => TicketOf(w) = t, Busy(w)' => TicketOf(w)' = t,
         \A s \in Ticket : s # t => event'[s] = event[s],
         \A d \in Doc : d[1] # t => run'[d] = run[d]
  PROVE  Debt' = Debt + (Weight(w)' - Weight(w)) + (Room(t)' - Room(t))
<1>1. Engaged \ {w} = Engaged' \ {w} /\ Losing \ {w} = Losing' \ {w}
  BY DEF Engaged, Losing, OnlyMoves
<1>2. ASSUME NEW s \in Ticket, s # t
      PROVE  (Free(s)' <=> Free(s)) /\ (s \in InPlay' <=> s \in InPlay)
  <2>1. Attended(s)' <=> Attended(s)
    BY <1>2 DEF Attended, Busy, TicketOf, OnlyMoves
  <2>2. Free(s)' <=> Free(s)
    BY <1>2, <2>1 DEF Free
  <2>3. ASSUME NEW u \in Worker
        PROVE  (OnTrack(u)' /\ TicketOf(u)' = s) <=> (OnTrack(u) /\ TicketOf(u) = s)
    <3>1. CASE u = w
      BY <1>2, <3>1 DEF OnTrack, InHand, Running, Busy
    <3>2. CASE u # w
      <4>1. worker'[u] = worker[u]
        BY <3>2 DEF OnlyMoves
      <4>2. CASE Busy(u) /\ TicketOf(u) = s
        <5>1. worker[u].doc \in Doc /\ worker[u].doc[1] # t
          BY <1>2, <4>2 DEF IInv, StepsSound, TicketOf
        <5>2. run'[worker[u].doc] = run[worker[u].doc]
          BY <5>1
        <5> QED
          BY <4>1, <4>2, <5>2 DEF OnTrack, IsCurrent, TicketOf
      <4>3. CASE ~Busy(u) \/ TicketOf(u) # s
        BY <4>1, <4>3 DEF OnTrack, InHand, Running, Busy, TicketOf
      <4> QED
        BY <4>2, <4>3
    <3> QED
      BY <3>1, <3>2
  <2> QED
    BY <1>2, <2>2, <2>3 DEF InPlay
<1>3. FreeTickets \ {t} = FreeTickets' \ {t}
  BY <1>2 DEF FreeTickets
<1>4. InPlay \ {t} = InPlay' \ {t}
  <2>1. InPlay \subseteq Ticket /\ InPlay' \subseteq Ticket
    BY DEF InPlay
  <2> QED
    BY <1>2, <2>1
<1>5. /\ Cardinality(Engaged) \in Nat /\ Cardinality(Engaged') \in Nat
      /\ Cardinality(Engaged') = Cardinality(Engaged)
           + (IF w \in Engaged' THEN 1 ELSE 0) - (IF w \in Engaged THEN 1 ELSE 0)
  BY <1>1, DebtTyped, OneMoves
<1>6. /\ Cardinality(Losing) \in Nat /\ Cardinality(Losing') \in Nat
      /\ Cardinality(Losing') = Cardinality(Losing)
           + (IF w \in Losing' THEN 1 ELSE 0) - (IF w \in Losing THEN 1 ELSE 0)
  BY <1>1, DebtTyped, OneMoves
<1>7. /\ Cardinality(FreeTickets) \in Nat /\ Cardinality(FreeTickets') \in Nat
      /\ Cardinality(FreeTickets') = Cardinality(FreeTickets)
           + (IF t \in FreeTickets' THEN 1 ELSE 0) - (IF t \in FreeTickets THEN 1 ELSE 0)
  BY <1>3, DebtTyped, OneMoves
<1>8. /\ Cardinality(InPlay) \in Nat /\ Cardinality(InPlay') \in Nat
      /\ Cardinality(InPlay') = Cardinality(InPlay)
           + (IF t \in InPlay' THEN 1 ELSE 0) - (IF t \in InPlay THEN 1 ELSE 0)
  BY <1>4, DebtTyped, OneMoves
<1> QED
  BY <1>5, <1>6, <1>7, <1>8 DEF Debt, Weight, Room

(* The shares, before and after.                                            *)
LEMMA Weights ==
  ASSUME NEW w \in Worker
  PROVE  /\ Weight(w) \in 0..2 /\ Weight(w)' \in 0..2
         /\ worker[w].step \in {"idle", "delivering"} => Weight(w) = 0
         /\ worker'[w].step \in {"idle", "delivering"} => Weight(w)' = 0
         /\ worker[w].step \in InHand \cup Running => Weight(w) >= 1
         /\ worker[w].step \in (InHand \cup Running) \ {"failing"} => Weight(w) = 1
         /\ worker'[w].step \in (InHand \cup Running) \ {"failing"} => Weight(w)' = 1
         /\ worker[w].step = "failing" => Weight(w) = IF worker[w].spent > 0 THEN 2 ELSE 1
         /\ worker'[w].step = "failing" => Weight(w)' = IF worker'[w].spent > 0 THEN 2 ELSE 1
BY DEF Weight, Engaged, Losing, InHand, Running

(* An event has no share when it is free, or when nobody is on track.       *)
LEMMA Rooms ==
  ASSUME NEW t \in Ticket
  PROVE  /\ Room(t) \in {-1, 0} /\ Room(t)' \in {-1, 0}
         /\ Room(t) = -1 <=> t \in InPlay /\ ~Free(t)
         /\ Room(t)' = -1 <=> t \in InPlay' /\ ~Free(t)'
BY DEF Room, FreeTickets, InPlay

-----------------------------------------------------------------------------
(* The steps.                                                               *)

(* The costs and the shares are sums over finite sets.                      *)
LEMMA MoneyTyped ==
  /\ IsFiniteSet(Doc) /\ IsFiniteSet(Worker) /\ RunCap \in Nat /\ RunCap > 0
  /\ Spent = Total(Costs) /\ Spent' = Total(Costs')
  /\ SpendBounded <=> Spent + Total(Shares) + troubles.lost <= RunCap * (Cardinality(Worker) + Causes)
  /\ SpendBounded' <=>
       Spent' + Total(Shares') + troubles'.lost <= RunCap * (Cardinality(Worker) + Causes')
  /\ RecordsTyped => /\ Costs \in [Doc -> Nat] /\ Shares \in [Worker -> Nat]
                     /\ troubles.lost \in Nat /\ Causes \in Nat
  /\ RecordsTyped' => /\ Costs' \in [Doc -> Nat] /\ Shares' \in [Worker -> Nat]
                      /\ troubles'.lost \in Nat /\ Causes' \in Nat
<1>1. RunCap \in Nat /\ RunCap > 0 /\ IsFiniteSet(Worker)
  BY AgentRunsAssumption DEF RunCap
<1>2. IsFiniteSet(Doc)
  <2>1. IsFiniteSet(Version)
    <3>1. 0 \in Int /\ MaxVersion \in Int
      BY AgentRunsAssumption
    <3> QED
      BY <3>1, FS_Interval DEF Version
  <2> QED
    BY <2>1, AgentRunsAssumption, FS_Product DEF Doc
<1>3. Spent = Total(Costs) /\ Spent' = Total(Costs')
  BY DEF Spent, Costs, Doc, Version
<1>4. RecordsTyped => /\ Costs \in [Doc -> Nat] /\ Shares \in [Worker -> Nat]
                      /\ troubles.lost \in Nat /\ Causes \in Nat
  BY Typed, CausesTyped DEF Costs, Shares, RunRecord, WorkerRecord, TroublesRecord
<1>5. RecordsTyped' => /\ Costs' \in [Doc -> Nat] /\ Shares' \in [Worker -> Nat]
                       /\ troubles'.lost \in Nat /\ Causes' \in Nat
  BY TypedNext, CausesTyped DEF Costs, Shares, RunRecord, WorkerRecord, TroublesRecord, Doc, Version
<1>6. /\ SpendBounded <=>
           Spent + Total(Shares) + troubles.lost <= RunCap * (Cardinality(Worker) + Causes)
      /\ SpendBounded' <=>
           Spent' + Total(Shares') + troubles'.lost <= RunCap * (Cardinality(Worker) + Causes')
  BY DEF SpendBounded, Shares
<1> QED
  BY <1>1, <1>2, <1>3, <1>4, <1>5, <1>6

(* What is lost stays paid for, when each loss lays down a share of the     *)
(* debt or has a trouble of its own.                                        *)
LEMMA LossesKept ==
  ASSUME IInv, RecordsTyped', LossesPaid, NEW k \in Nat,
         troubles'.lost <= troubles.lost + RunCap * k,
         k + (Debt' - Debt) <= Causes' - Causes
  PROVE  LossesPaid'
<1>1. /\ Debt \in Int /\ Debt' \in Int /\ Causes \in Int /\ Causes' \in Int /\ RunCap \in Nat
      /\ troubles.lost \in Int /\ troubles'.lost \in Int
  BY DebtTyped, MoneyTyped DEF IInv
<1>2. troubles.lost <= RunCap * (Causes - Debt)
  BY DEF LossesPaid
<1>3. troubles'.lost <= RunCap * (Causes' - Debt')
  BY <1>1, <1>2, LossesAdd
<1> QED
  BY <1>3 DEF LossesPaid

(* The bound stays while nothing more is paid in all.                       *)
LEMMA BoundKept ==
  ASSUME IInv, RecordsTyped', SpendBounded, Causes' >= Causes,
         Spent' + Total(Shares') + troubles'.lost <= Spent + Total(Shares) + troubles.lost
  PROVE  SpendBounded'
<1>1. /\ Spent \in Nat /\ Total(Shares) \in Nat /\ troubles.lost \in Nat
      /\ Spent' \in Nat /\ Total(Shares') \in Nat /\ troubles'.lost \in Nat
      /\ Causes \in Nat /\ Causes' \in Nat /\ RunCap \in Nat
      /\ Cardinality(Worker) \in Nat
  BY MoneyTyped, CallsFinite, FS_CardinalityType DEF IInv
<1>2. RunCap * (Cardinality(Worker) + Causes) <= RunCap * (Cardinality(Worker) + Causes')
  <2>1. Cardinality(Worker) + Causes \in Int /\ Cardinality(Worker) + Causes' \in Int
    BY <1>1
  <2>2. Cardinality(Worker) + Causes <= Cardinality(Worker) + Causes'
    BY <1>1
  <2> QED
    BY <1>1, <2>1, <2>2, TimesGrows
<1>3. Spent + Total(Shares) + troubles.lost <= RunCap * (Cardinality(Worker) + Causes)
  BY MoneyTyped
<1>4. /\ RunCap * (Cardinality(Worker) + Causes) \in Int
      /\ RunCap * (Cardinality(Worker) + Causes') \in Int
  BY <1>1
<1>5. Spent' + Total(Shares') + troubles'.lost <= RunCap * (Cardinality(Worker) + Causes')
  BY <1>1, <1>2, <1>3, <1>4
<1> QED
  BY <1>5, MoneyTyped

(* What a worker may lose at once.                                          *)
Charge(k) == RunCap * k

(* Nothing, or all that it may spend.                                       *)
LEMMA Charges == Charge(0) = 0 /\ Charge(1) = RunCap
BY MoneyTyped DEF Charge

(* A step of one worker, on one run: what it has spent becomes a cost, or   *)
(* is lost, and what may be lost is paid for.                               *)
PaidFor(w, t, d, k) ==
  /\ OnlyMoves(w) /\ d[1] = t
  /\ Busy(w) => TicketOf(w) = t
  /\ Busy(w)' => TicketOf(w)' = t
  /\ \A s \in Ticket : s # t => event'[s] = event[s]
  /\ \A e \in Doc : e # d => run'[e] = run[e]
  /\ worker'[w].spent <= RunCap
  /\ worker'[w].spent > 0 => worker'[w].step \in Running \cup {"failing"}
  /\ worker'[w].step \in {"concluded", "marked"} => worker'[w].result \in Final
  /\ run'[d].cost <= RunCap
  /\ run'[d].outcome \notin Final => run'[d].cost = 0
  /\ troubles'.lost <= troubles.lost + Charge(k)
  /\ k + (Weight(w)' - Weight(w)) + (Room(t)' - Room(t)) <= Causes' - Causes
  /\ Causes' >= Causes
  /\ run'[d].cost + worker'[w].spent + troubles'.lost = run[d].cost + worker[w].spent + troubles.lost

(* Such a step keeps the bound.                                             *)
LEMMA MoneyKept ==
  ASSUME IInv, RecordsTyped', MoneyInv, NEW w \in Worker, NEW t \in Ticket, NEW d \in Doc,
         NEW k \in {0, 1}, PaidFor(w, t, d, k)
  PROVE  MoneyInv'
<1> USE DEF PaidFor
<1>1. CostsKept'
  <2>1. \A u \in Worker :
          /\ worker'[u].spent <= RunCap
          /\ worker'[u].spent > 0 => worker'[u].step \in Running \cup {"failing"}
          /\ worker'[u].step \in {"concluded", "marked"} => worker'[u].result \in Final
    BY DEF MoneyInv, CostsKept, OnlyMoves
  <2>2. \A e \in Doc : /\ run'[e].cost <= RunCap
                       /\ run'[e].outcome \notin Final => run'[e].cost = 0
    BY DEF MoneyInv, CostsKept
  <2> QED
    BY <2>1, <2>2 DEF CostsKept, Doc, Version
<1>2. LossesPaid'
  <2>1. \A e \in Doc : e[1] # t => run'[e] = run[e]
    OBVIOUS
  <2>2. Debt' = Debt + (Weight(w)' - Weight(w)) + (Room(t)' - Room(t))
    BY <2>1, DebtMoves
  <2>3. Debt \in Int /\ Debt' \in Int /\ Causes \in Int /\ Causes' \in Int
    BY DebtTyped, MoneyTyped DEF IInv
  <2>4. Weight(w) \in Int /\ Weight(w)' \in Int /\ Room(t) \in Int /\ Room(t)' \in Int
    BY DEF Weight, Room
  <2>5. k + (Debt' - Debt) <= Causes' - Causes
    BY <2>2, <2>3, <2>4
  <2>6. troubles'.lost <= troubles.lost + RunCap * k
    BY DEF Charge
  <2> QED
    BY <2>5, <2>6, LossesKept DEF MoneyInv
<1>3. SpendBounded'
  <2>1. /\ Costs \in [Doc -> Nat] /\ Costs' \in [Doc -> Nat]
        /\ Shares \in [Worker -> Nat] /\ Shares' \in [Worker -> Nat]
        /\ troubles.lost \in Nat /\ troubles'.lost \in Nat
        /\ IsFiniteSet(Doc) /\ IsFiniteSet(Worker)
    BY MoneyTyped DEF IInv
  <2>2. /\ \A e \in Doc : Costs[e] = run[e].cost
        /\ \A e \in Doc : Costs'[e] = run'[e].cost
        /\ \A u \in Worker : Shares[u] = worker[u].spent
        /\ \A u \in Worker : Shares'[u] = worker'[u].spent
    BY DEF Costs, Shares, Doc, Version
  <2>3. \A e \in Doc : e # d => Costs'[e] = Costs[e]
    BY <2>2
  <2>4. \A u \in Worker : u # w => Shares'[u] = Shares[u]
    BY <2>2 DEF OnlyMoves
  <2>5. /\ Total(Costs) \in Nat /\ Total(Costs') \in Nat
        /\ Total(Costs') = Total(Costs) - Costs[d] + Costs'[d]
    BY <2>1, <2>3, TotalChanged
  <2>6. /\ Total(Shares) \in Nat /\ Total(Shares') \in Nat
        /\ Total(Shares') = Total(Shares) - Shares[w] + Shares'[w]
    BY <2>1, <2>4, TotalChanged
  <2>7. Spent = Total(Costs) /\ Spent' = Total(Costs')
    BY MoneyTyped
  <2>8. /\ Costs[d] \in Nat /\ Costs'[d] \in Nat /\ Shares[w] \in Nat /\ Shares'[w] \in Nat
    BY <2>1
  <2>9. Costs'[d] + Shares'[w] + troubles'.lost = Costs[d] + Shares[w] + troubles.lost
    BY <2>2
  <2>10. Spent' + Total(Shares') + troubles'.lost <= Spent + Total(Shares) + troubles.lost
    BY <2>1, <2>5, <2>6, <2>7, <2>8, <2>9
  <2> QED
    BY <2>10, BoundKept DEF MoneyInv
<1> QED
  BY <1>1, <1>2, <1>3 DEF MoneyInv

(* An event stays as free as it was while its worker is on it.              *)
LEMMA FreeSame ==
  ASSUME NEW w \in Worker, NEW t \in Ticket, event'[t] = event[t],
         Busy(w) /\ TicketOf(w) = t, Busy(w)' /\ TicketOf(w)' = t
  PROVE  Free(t)' <=> Free(t)
BY DEF Free, Attended

(* Whoever has a ticket's run in hand, or going, has it in play.            *)
LEMMA PlayedBy ==
  ASSUME NEW w \in Worker, NEW t \in Ticket
  PROVE  /\ OnTrack(w) /\ TicketOf(w) = t => t \in InPlay
         /\ OnTrack(w)' /\ TicketOf(w)' = t => t \in InPlay'
BY DEF InPlay

(* A ticket stays in play, or out of it, while no run changes and its       *)
(* worker stays on track, or off it.                                        *)
LEMMA PlaySame ==
  ASSUME NEW w \in Worker, OnlyMoves(w), NEW t \in Ticket, UNCHANGED run,
         Free(t)' <=> Free(t),
         OnTrack(w)' /\ TicketOf(w)' = t <=> OnTrack(w) /\ TicketOf(w) = t
  PROVE  t \in InPlay' <=> t \in InPlay
<1>1. ASSUME NEW u \in Worker
      PROVE  OnTrack(u)' /\ TicketOf(u)' = t <=> OnTrack(u) /\ TicketOf(u) = t
  <2>1. CASE u = w
    BY <2>1
  <2>2. CASE u # w
    BY <2>2 DEF OnTrack, IsCurrent, TicketOf, OnlyMoves
  <2> QED
    BY <2>1, <2>2
<1> QED
  BY <1>1 DEF InPlay

(* What the money of a worker and of a run can be.                          *)
LEMMA MoneyAt ==
  ASSUME IInv, MoneyInv
  PROVE  /\ \A w \in Worker :
              /\ worker[w].spent \in Nat /\ worker[w].spent <= RunCap
              /\ worker[w].step \notin Running \cup {"failing"} => worker[w].spent = 0
              /\ worker[w].step \in {"concluded", "marked"} => worker[w].result \in Final
         /\ \A d \in Doc :
              /\ run[d].cost \in Nat /\ run[d].cost <= RunCap
              /\ run[d].outcome \notin Final => run[d].cost = 0
         /\ troubles.lost \in Nat /\ Causes \in Nat
<1>1. \A w \in Worker : worker[w].spent \in Nat
  BY Typed DEF IInv, WorkerRecord
<1>2. \A d \in Doc : run[d].cost \in Nat
  BY Typed DEF IInv, RunRecord
<1>3. troubles.lost \in Nat /\ Causes \in Nat
  BY MoneyTyped DEF IInv
<1>4. CostsKept
  BY DEF MoneyInv
<1>5. \A w \in Worker : worker[w].step \notin Running \cup {"failing"} => worker[w].spent = 0
  BY <1>1, <1>4 DEF CostsKept
<1> QED
  BY <1>1, <1>2, <1>3, <1>4, <1>5 DEF CostsKept

(* A worker that goes on with what it has, at no cost.                      *)
LEMMA QuietMoney ==
  ASSUME IInv, RecordsTyped', MoneyInv, NEW w \in Worker, Busy(w), OnlyMoves(w),
         UNCHANGED <<event, run, troubles>>,
         worker'[w].doc = worker[w].doc, worker'[w].attempt = worker[w].attempt,
         worker'[w].spent = worker[w].spent,
         \/ worker[w].step \in Running /\ worker'[w].step \in Running
         \/ /\ worker[w].step \in {"claimed", "looking"}
            /\ worker'[w].step \in {"looking", "waiting", "delivering"},
         worker'[w].step \in {"concluded", "marked"} => worker'[w].result \in Final
  PROVE  MoneyInv'
<1>0. PICK t \in Ticket, d \in Doc : t = TicketOf(w) /\ d = worker[w].doc /\ d[1] = t
  BY AtWork DEF TicketOf
<1>1. TicketOf(w)' = t /\ Busy(w)'
  BY <1>0 DEF TicketOf, Busy, Running
<1>2. Free(t)' <=> Free(t)
  BY <1>0, <1>1, FreeSame
<1>3. Weight(w)' - Weight(w) + (Room(t)' - Room(t)) <= 0
  <2>1. Room(t) \in {-1, 0} /\ Room(t)' \in {-1, 0}
    BY Rooms
  <2>2. CASE worker'[w].step = "delivering"
    <3>1. Weight(w) = 1 /\ Weight(w)' = 0
      BY <2>2, Weights DEF InHand, Running
    <3> QED
      BY <2>1, <3>1
  <2>3. CASE worker'[w].step # "delivering"
    <3>1. Weight(w) = 1 /\ Weight(w)' = 1
      BY <2>3, Weights DEF InHand, Running
    <3>2. OnTrack(w)' <=> OnTrack(w)
      BY <2>3 DEF OnTrack, IsCurrent, InHand, Running
    <3>3. t \in InPlay' <=> t \in InPlay
      BY <1>0, <1>1, <1>2, <3>2, PlaySame
    <3>4. Room(t)' = Room(t)
      BY <1>2, <2>1, <3>3, Rooms
    <3> QED
      BY <2>1, <3>1, <3>4
  <2> QED
    BY <2>2, <2>3
<1>4. /\ worker[w].spent \in Nat /\ worker[w].spent <= RunCap
      /\ worker'[w].spent > 0 => worker'[w].step \in Running \cup {"failing"}
      /\ run[d].cost <= RunCap
      /\ run[d].outcome \notin Final => run[d].cost = 0
      /\ troubles.lost \in Nat /\ Causes \in Nat /\ Causes' = Causes /\ run[d].cost \in Nat
  BY MoneyAt DEF Causes, Running
<1>5. Charge(0) = 0
  BY Charges
<1>6. Weight(w) \in Int /\ Weight(w)' \in Int /\ Room(t) \in Int /\ Room(t)' \in Int
  BY DEF Weight, Room
<1>7. /\ troubles'.lost <= troubles.lost + Charge(0)
      /\ 0 + (Weight(w)' - Weight(w)) + (Room(t)' - Room(t)) <= Causes' - Causes
      /\ Causes' >= Causes
  BY <1>3, <1>4, <1>5, <1>6
<1>8. /\ run'[d] = run[d] /\ troubles'.lost = troubles.lost
      /\ \A s \in Ticket : s # t => event'[s] = event[s]
      /\ \A e \in Doc : e # d => run'[e] = run[e]
      /\ worker'[w].spent <= RunCap
      /\ run'[d].cost <= RunCap
      /\ run'[d].outcome \notin Final => run'[d].cost = 0
      /\ run'[d].cost + worker'[w].spent + troubles'.lost
           = run[d].cost + worker[w].spent + troubles.lost
  BY <1>4
<1>9. 0 \in {0, 1} /\ TicketOf(w) = t /\ (Busy(w)' => TicketOf(w)' = t)
  BY <1>0, <1>1
<1>10. PaidFor(w, t, d, 0)
  BY <1>0, <1>4, <1>7, <1>8, <1>9 DEF PaidFor
<1> QED
  BY <1>9, <1>10, MoneyKept

(* A run that someone else is on, or that is done, costs nothing.           *)
LEMMA DeclineMoney ==
  ASSUME IInv, IInv', MoneyInv, NEW w \in Worker, Miss(w) \/ Decline(w) PROVE MoneyInv'
<1>1. /\ Busy(w) /\ UNCHANGED <<event, run, troubles>> /\ worker[w].step \in {"claimed", "looking"}
      /\ Goes(w, "looking") \/ Goes(w, "waiting") \/ Goes(w, "delivering")
  BY DEF Miss, Decline, Busy
<1>2. worker \in [Worker -> WorkerRecord]
  BY Typed DEF IInv
<1>3. /\ worker'[w].step \in {"looking", "waiting", "delivering"} /\ OnlyMoves(w)
      /\ worker'[w].doc = worker[w].doc /\ worker'[w].attempt = worker[w].attempt
      /\ worker'[w].spent = worker[w].spent
  BY <1>1, <1>2 DEF Goes, WorkerRecord, OnlyMoves
<1> QED
  BY <1>1, <1>3, QuietMoney DEF IInv

(* What a run has spent when it ends is not stored yet.                     *)
LEMMA ConcludeMoney == ASSUME IInv, IInv', MoneyInv, NEW w \in Worker, Conclude(w) PROVE MoneyInv'
<1>1. /\ Busy(w) /\ UNCHANGED <<event, run, troubles>> /\ worker[w].step = "working"
  BY DEF Conclude, Busy
<1>2. PICK result \in {"finished", "proposed"} :
        worker' = [worker EXCEPT ![w].step = "concluded", ![w].result = result]
  BY DEF Conclude
<1>3. worker \in [Worker -> WorkerRecord]
  BY Typed DEF IInv
<1>4. /\ worker'[w].step = "concluded" /\ OnlyMoves(w) /\ worker'[w].result = result
      /\ worker'[w].doc = worker[w].doc /\ worker'[w].attempt = worker[w].attempt
      /\ worker'[w].spent = worker[w].spent
  BY <1>2, <1>3 DEF WorkerRecord, OnlyMoves
<1>5. result \in Final
  BY DEF Final
<1> QED
  BY <1>1, <1>4, <1>5, QuietMoney DEF IInv, Running

(* Nor is it when its proposal is marked.                                   *)
LEMMA RecordProposalMoney ==
  ASSUME IInv, IInv', MoneyInv, NEW w \in Worker, RecordProposal(w) PROVE MoneyInv'
<1>1. /\ Busy(w) /\ UNCHANGED <<event, run, troubles>> /\ worker[w].step = "concluded"
      /\ worker[w].result = "proposed" /\ Goes(w, "marked")
  BY DEF RecordProposal, Busy
<1>2. worker \in [Worker -> WorkerRecord]
  BY Typed DEF IInv
<1>3. /\ worker'[w].step = "marked" /\ OnlyMoves(w) /\ worker'[w].result = "proposed"
      /\ worker'[w].doc = worker[w].doc /\ worker'[w].attempt = worker[w].attempt
      /\ worker'[w].spent = worker[w].spent
  BY <1>1, <1>2 DEF Goes, WorkerRecord, OnlyMoves
<1> QED
  BY <1>1, <1>3, QuietMoney DEF IInv, Running, Final

(* A worker whose job is over has nothing of its own to pay for.            *)
LEMMA RestMoney ==
  ASSUME IInv, RecordsTyped', MoneyInv, NEW w \in Worker, Busy(w), Rests(w), UNCHANGED run,
         NEW t \in Ticket, t = TicketOf(w), \A s \in Ticket : s # t => event'[s] = event[s],
         NEW k \in {0, 1}, worker[w].spent <= Charge(k),
         troubles'.lost = troubles.lost + worker[w].spent,
         Causes' >= Causes,
         k + (Weight(w)' - Weight(w)) + (Room(t)' - Room(t)) <= Causes' - Causes
  PROVE  MoneyInv'
<1>1. PICK d \in Doc : d = worker[w].doc /\ d[1] = t
  BY AtWork DEF TicketOf
<1>2. OnlyMoves(w) /\ worker'[w].step = "idle" /\ ~Busy(w)' /\ worker'[w].spent = 0
  <2>1. OnlyMoves(w) /\ worker'[w].step = "idle"
    BY RestsIdle DEF IInv, OnlyMoves
  <2>2. worker'[w].spent = 0
    BY Typed DEF IInv, Rests, AtRest
  <2> QED
    BY <2>1, <2>2 DEF Busy
<1>3. /\ run'[d] = run[d] /\ run[d].cost \in Nat /\ run[d].cost <= RunCap
      /\ worker[w].spent \in Nat /\ troubles.lost \in Nat /\ RunCap \in Nat
  BY MoneyAt, MoneyTyped
<1>4. run'[d].outcome \notin Final => run'[d].cost = 0
  BY <1>3, MoneyAt
<1>5. troubles'.lost <= troubles.lost + Charge(k)
  <2>1. Charge(k) \in Int
    BY <1>3, Charges
  <2> QED
    BY <1>3, <2>1
<1>6. run'[d].cost + worker'[w].spent + troubles'.lost = run[d].cost + worker[w].spent + troubles.lost
  BY <1>2, <1>3
<1>7. worker'[w].spent <= RunCap /\ ~(worker'[w].spent > 0)
  BY <1>2, <1>3
<1>8. PaidFor(w, t, d, k)
  BY <1>1, <1>2, <1>3, <1>4, <1>5, <1>6, <1>7 DEF PaidFor
<1> QED
  BY <1>8, MoneyKept

(* A worker that gives its event back has spent nothing that is not stored. *)
LEMMA HandMoney ==
  ASSUME IInv, IInv', MoneyInv, NEW w \in Worker, Wait(w) \/ Return(w)
  PROVE  MoneyInv'
<1>1. /\ Busy(w) /\ worker[w].step \in {"waiting", "returning"} /\ Rests(w)
      /\ UNCHANGED <<run, troubles>>
      /\ \/ Settle(TicketOf(w), "pending", RetryWait)
         \/ Settle(TicketOf(w), "dead", 0)
  BY DEF Wait, Return, AfterFailure, Busy
<1>2. PICK t \in Ticket : t = TicketOf(w)
  BY <1>1, AtWork
<1>3. \A s \in Ticket : s # t => event'[s] = event[s]
  <2>1. event \in [Ticket -> EventRecord]
    BY Typed DEF IInv
  <2> QED
    BY <1>1, <1>2, <2>1 DEF Settle
<1>4. worker[w].spent = 0 /\ troubles.lost \in Nat /\ Causes \in Nat /\ Causes' = Causes
  BY <1>1, MoneyAt DEF Running, Causes
<1>5. Weight(w) = 1 /\ Weight(w)' = 0
  <2>1. worker'[w].step = "idle"
    BY <1>1, RestsIdle DEF IInv
  <2> QED
    BY <1>1, <2>1, Weights DEF InHand
<1>6. Room(t) \in {-1, 0} /\ Room(t)' \in {-1, 0}
  BY Rooms
<1>7. 0 + (Weight(w)' - Weight(w)) + (Room(t)' - Room(t)) <= Causes' - Causes
  BY <1>4, <1>5, <1>6
<1>8. worker[w].spent <= Charge(0) /\ troubles'.lost = troubles.lost + worker[w].spent
  BY <1>1, <1>4, Charges
<1> QED
  BY <1>1, <1>2, <1>3, <1>4, <1>7, <1>8, RestMoney DEF IInv

(* Nor has one whose event is delivered.                                    *)
LEMMA DeliverMoney == ASSUME IInv, IInv', MoneyInv, NEW w \in Worker, Deliver(w) PROVE MoneyInv'
<1>1. /\ Busy(w) /\ worker[w].step = "delivering" /\ Rests(w)
      /\ UNCHANGED <<run, troubles>> /\ Settle(TicketOf(w), "delivered", 0)
  BY DEF Deliver, Busy
<1>2. PICK t \in Ticket : t = TicketOf(w)
  BY <1>1, AtWork
<1>3. /\ \A s \in Ticket : s # t => event'[s] = event[s]
      /\ event[t].status # "sending" => event' = event
      /\ event[t].status = "sending" => event'[t].status = "delivered"
  BY <1>1, <1>2, Settled DEF IInv
<1>4. worker[w].spent = 0 /\ troubles.lost \in Nat /\ Causes \in Nat /\ Causes' = Causes
  BY <1>1, MoneyAt DEF Running, Causes
<1>5. OnlyMoves(w) /\ worker'[w].step = "idle"
  BY <1>1, RestsIdle DEF IInv, OnlyMoves
<1>6. Weight(w) = 0 /\ Weight(w)' = 0
  BY <1>1, <1>5, Weights
<1>7. Free(t)' => Free(t)
  BY <1>3 DEF Free
<1>8. t \in InPlay /\ ~Free(t) => t \in InPlay'
  <2> SUFFICES ASSUME t \in InPlay, ~Free(t) PROVE t \in InPlay'
    OBVIOUS
  <2>1. PICK u \in Worker : OnTrack(u) /\ TicketOf(u) = t
    BY DEF InPlay
  <2>2. u # w
    BY <1>1, <2>1 DEF OnTrack, InHand, Running
  <2>3. OnTrack(u)' /\ TicketOf(u)' = t
    BY <1>1, <1>5, <2>1, <2>2 DEF OnTrack, IsCurrent, TicketOf, OnlyMoves
  <2> QED
    BY <2>3, PlayedBy
<1>9. Room(t) \in {-1, 0} /\ Room(t)' \in {-1, 0} /\ Room(t)' <= Room(t)
  BY <1>7, <1>8, Rooms
<1>10. 0 + (Weight(w)' - Weight(w)) + (Room(t)' - Room(t)) <= Causes' - Causes
  BY <1>4, <1>6, <1>9
<1>11. worker[w].spent <= Charge(0) /\ troubles'.lost = troubles.lost + worker[w].spent
  BY <1>1, <1>4, Charges
<1> QED
  BY <1>1, <1>2, <1>3, <1>4, <1>10, <1>11, RestMoney DEF IInv

(* What a worker that dies has spent is lost: its death pays for it.        *)
LEMMA CrashMoney == ASSUME IInv, IInv', MoneyInv, NEW w \in Worker, Crash(w) PROVE MoneyInv'
<1>1. /\ Busy(w) /\ Rests(w) /\ UNCHANGED <<event, run>>
      /\ troubles' = [troubles EXCEPT !.crashes = @ + 1, !.lost = @ + worker[w].spent]
  BY DEF Crash
<1>2. PICK t \in Ticket : t = TicketOf(w)
  BY <1>1, AtWork
<1>3. troubles \in TroublesRecord /\ worker[w] \in WorkerRecord
  BY Typed DEF IInv
<1>4. /\ troubles'.lost = troubles.lost + worker[w].spent
      /\ Causes' = Causes + 1 /\ Causes \in Nat
  <2>1. troubles'.lost = troubles.lost + worker[w].spent
    BY <1>1, <1>3 DEF TroublesRecord
  <2>2. Causes' = Causes + 1 /\ Causes \in Nat
    BY <1>1, <1>3 DEF TroublesRecord, Causes
  <2> QED
    BY <2>1, <2>2
<1>5. Room(t) \in {-1, 0} /\ Room(t)' \in {-1, 0}
  BY Rooms
<1>6. worker'[w].step = "idle" /\ Weight(w)' = 0
  BY <1>1, RestsIdle, Weights DEF IInv
<1>7. Causes' >= Causes /\ \A s \in Ticket : s # t => event'[s] = event[s]
  BY <1>1, <1>4
<1>8. CASE worker[w].step = "delivering"
  <2>1. worker[w].spent = 0 /\ Weight(w) = 0
    BY <1>8, MoneyAt, Weights DEF Running
  <2>2. 0 + (Weight(w)' - Weight(w)) + (Room(t)' - Room(t)) <= Causes' - Causes
    BY <1>4, <1>5, <1>6, <2>1
  <2>3. worker[w].spent <= Charge(0)
    BY <2>1, Charges
  <2> QED
    BY <1>1, <1>2, <1>4, <1>7, <2>2, <2>3, RestMoney DEF IInv
<1>9. CASE worker[w].step # "delivering"
  <2>1. Weight(w) >= 1 /\ Weight(w) \in 0..2
    BY <1>1, <1>3, <1>9, Weights DEF InHand, Running, Busy, WorkerRecord, Step
  <2>2. 1 + (Weight(w)' - Weight(w)) + (Room(t)' - Room(t)) <= Causes' - Causes
    BY <1>4, <1>5, <1>6, <2>1
  <2>3. worker[w].spent <= Charge(1)
    BY MoneyAt, Charges
  <2> QED
    BY <1>1, <1>2, <1>4, <1>7, <2>2, <2>3, RestMoney DEF IInv
<1> QED
  BY <1>8, <1>9

(* A claim takes a free event in hand, in its place.                        *)
LEMMA ClaimMoney ==
  ASSUME IInv, IInv', MoneyInv, NEW w \in Worker, NEW t \in Ticket, Claim(w, t)
  PROVE  MoneyInv'
<1>1. /\ ~Busy(w) /\ Claimable(t) /\ UNCHANGED <<version, run, troubles>>
      /\ worker \in [Worker -> WorkerRecord] /\ event \in [Ticket -> EventRecord]
      /\ <<t, version[t]>> \in Doc
  BY Typed, DocParts DEF IInv, Claim
<1>2. PICK tries, mode :
        worker' = [worker EXCEPT ![w] = [AtRest EXCEPT !.step = "claimed", !.tries = tries,
                                           !.doc = <<t, version[t]>>, !.mode = mode]]
  BY DEF Claim
<1>3. PICK d \in Doc : d = <<t, version[t]>> /\ d[1] = t
  BY <1>1, DocParts
<1>4. /\ OnlyMoves(w) /\ worker'[w].step = "claimed" /\ worker'[w].doc = d /\ worker'[w].spent = 0
      /\ Busy(w)' /\ TicketOf(w)' = t
  BY <1>1, <1>2, <1>3 DEF OnlyMoves, AtRest, Busy, TicketOf
<1>5. /\ \A s \in Ticket : s # t => event'[s] = event[s]
      /\ event'[t].status = "sending" /\ event'[t].wait = AGENT_LOCK
  BY <1>1 DEF Claim
<1>6. Free(t)
  BY <1>1 DEF Claimable, Free
<1>7. ~Free(t)'
  <2>1. Attended(t)' /\ AGENT_LOCK # 0
    BY <1>4, AgentRunsAssumption DEF Attended
  <2> QED
    BY <1>5, <2>1 DEF Free
<1>8. t \in InPlay'
  BY <1>4, PlayedBy DEF OnTrack, InHand
<1>9. Room(t) = 0 /\ Room(t)' = -1
  BY <1>6, <1>7, <1>8, Rooms
<1>10. Weight(w) = 0 /\ Weight(w)' = 1
  <2>1. worker[w].step = "idle"
    BY <1>1 DEF Busy
  <2> QED
    BY <1>4, <2>1, Weights DEF InHand
<1>11. /\ worker[w].spent = 0 /\ run[d].cost \in Nat /\ run[d].cost <= RunCap
       /\ troubles.lost \in Nat /\ Causes \in Nat /\ Causes' = Causes /\ RunCap \in Nat
  BY <1>1, MoneyAt, MoneyTyped DEF Busy, Running, Causes
<1>12. /\ run'[d] = run[d] /\ \A e \in Doc : e # d => run'[e] = run[e]
       /\ run[d].outcome \notin Final => run[d].cost = 0
  BY <1>1, MoneyAt
<1>13. troubles'.lost <= troubles.lost + Charge(0)
  BY <1>1, <1>11, Charges
<1>14. 0 + (Weight(w)' - Weight(w)) + (Room(t)' - Room(t)) <= Causes' - Causes
  BY <1>9, <1>10, <1>11
<1>15. PaidFor(w, t, d, 0)
  <2>1. run'[d].cost + worker'[w].spent + troubles'.lost = run[d].cost + worker[w].spent + troubles.lost
    BY <1>1, <1>4, <1>11, <1>12
  <2>2. worker'[w].spent <= RunCap /\ ~(worker'[w].spent > 0) /\ Causes' >= Causes
    BY <1>4, <1>11
  <2> QED
    BY <1>1, <1>3, <1>4, <1>5, <1>11, <1>12, <1>13, <1>14, <2>1, <2>2 DEF PaidFor
<1> QED
  BY <1>15, MoneyKept DEF IInv

(* A run begun takes the place of the attempt in hand; one that it replaces *)
(* had no cost.                                                             *)
LEMMA BeginMoney == ASSUME IInv, IInv', MoneyInv, NEW w \in Worker, Begin(w) PROVE MoneyInv'
<1>1. /\ Busy(w) /\ worker[w].step = "claimed" /\ MayBegin(run[worker[w].doc])
      /\ UNCHANGED <<event, troubles>>
  BY DEF Begin, Busy
<1>2. PICK t \in Ticket, d \in Doc : t = TicketOf(w) /\ d = worker[w].doc /\ d[1] = t
  BY <1>1, AtWork DEF TicketOf
<1>3. /\ worker \in [Worker -> WorkerRecord] /\ run \in [Doc -> RunRecord]
      /\ worker[w] \in WorkerRecord /\ run[d] \in RunRecord
  BY Typed DEF IInv
<1>4. PICK tries : /\ run' = [run EXCEPT ![d] = [NoRun EXCEPT !.outcome = "running", !.attempts = tries]]
                   /\ worker' = [worker EXCEPT
                        ![w].attempt = tries,
                        ![w].step = IF worker[w].mode = "off" THEN "concluded" ELSE "working",
                        ![w].result = IF worker[w].mode = "off" THEN "skipped" ELSE "none"]
                   /\ tries = run[d].attempts + 1
  BY <1>2 DEF Begin
<1>5. PICK step \in {"concluded", "working"}, result \in {"skipped", "none"} :
        /\ worker' = [worker EXCEPT ![w].attempt = tries, ![w].step = step, ![w].result = result]
        /\ step = "concluded" => result = "skipped"
  BY <1>4
<1>6. worker' = [worker EXCEPT ![w] = [worker[w] EXCEPT !.attempt = tries, !.step = step, !.result = result]]
  BY <1>3, <1>5
<1>7. /\ OnlyMoves(w) /\ worker'[w].step = step /\ worker'[w].doc = d
      /\ worker'[w].attempt = tries /\ worker'[w].result = result
      /\ worker'[w].spent = worker[w].spent
  BY <1>2, <1>3, <1>6 DEF OnlyMoves, WorkerRecord
<1>8. /\ run'[d].outcome = "running" /\ run'[d].attempts = tries /\ run'[d].cost = 0
      /\ \A e \in Doc : e # d => run'[e] = run[e]
  BY <1>3, <1>4 DEF NoRun
<1>9. TicketOf(w)' = t /\ Busy(w)'
  BY <1>2, <1>7 DEF TicketOf, Busy
<1>10. Free(t)' <=> Free(t)
  BY <1>1, <1>2, <1>9, FreeSame
<1>11. t \in InPlay /\ t \in InPlay'
  <2>1. OnTrack(w) /\ TicketOf(w) = t
    BY <1>1, <1>2 DEF OnTrack, InHand
  <2>2. OnTrack(w)'
    BY <1>7, <1>8 DEF OnTrack, Running, IsCurrent
  <2> QED
    BY <1>9, <2>1, <2>2, PlayedBy
<1>12. Room(t) \in {-1, 0} /\ Room(t)' = Room(t)
  BY <1>10, <1>11, Rooms
<1>13. Weight(w) = 1 /\ Weight(w)' = 1
  BY <1>1, <1>7, Weights DEF InHand, Running
<1>14. /\ worker[w].spent = 0 /\ run[d].cost = 0
       /\ troubles.lost \in Nat /\ Causes \in Nat /\ Causes' = Causes /\ RunCap \in Nat
  BY <1>1, <1>2, MoneyAt, MoneyTyped
     DEF Running, Final, Stopped, MayBegin, Abandoned, Causes
<1>15. PaidFor(w, t, d, 0)
  <2>1. troubles'.lost <= troubles.lost + Charge(0)
    BY <1>1, <1>14, Charges
  <2>2. 0 + (Weight(w)' - Weight(w)) + (Room(t)' - Room(t)) <= Causes' - Causes
    BY <1>12, <1>13, <1>14
  <2>3. run'[d].cost + worker'[w].spent + troubles'.lost = run[d].cost + worker[w].spent + troubles.lost
    BY <1>1, <1>7, <1>8, <1>14
  <2>4. /\ worker'[w].spent <= RunCap /\ ~(worker'[w].spent > 0) /\ Causes' >= Causes
        /\ run'[d].cost <= RunCap
    BY <1>7, <1>8, <1>14
  <2>5. worker'[w].step \in {"concluded", "marked"} => worker'[w].result \in Final
    BY <1>5, <1>7 DEF Final, Stopped
  <2> QED
    BY <1>1, <1>2, <1>7, <1>8, <1>9, <2>1, <2>2, <2>3, <2>4, <2>5 DEF PaidFor
<1> QED
  BY <1>15, MoneyKept DEF IInv

(* Something throws: what its worker has spent, and the claim to come, are  *)
(* paid for by the failure.                                                 *)
LEMMA FailMoney == ASSUME IInv, IInv', MoneyInv, NEW w \in Worker, Fail(w) PROVE MoneyInv'
<1>1. /\ Busy(w) /\ worker[w].step \in Running \cup {"delivering"} /\ Goes(w, "failing")
      /\ UNCHANGED <<event, run>> /\ troubles' = [troubles EXCEPT !.failures = @ + 1]
  BY DEF Fail, Busy, Running
<1>2. PICK t \in Ticket, d \in Doc : t = TicketOf(w) /\ d = worker[w].doc /\ d[1] = t
  BY <1>1, AtWork DEF TicketOf
<1>3. worker \in [Worker -> WorkerRecord] /\ worker[w] \in WorkerRecord /\ troubles \in TroublesRecord
  BY Typed DEF IInv
<1>4. /\ OnlyMoves(w) /\ worker'[w].step = "failing" /\ worker'[w].doc = d
      /\ worker'[w].spent = worker[w].spent
  BY <1>1, <1>2, <1>3 DEF Goes, OnlyMoves, WorkerRecord
<1>5. troubles'.lost = troubles.lost
  BY <1>1, <1>3 DEF TroublesRecord
<1>6. Causes' = Causes + 1 /\ Causes \in Nat
  BY <1>1, <1>3 DEF TroublesRecord, Causes
<1>7. TicketOf(w)' = t /\ Busy(w)'
  BY <1>2, <1>4 DEF TicketOf, Busy
<1>8. Free(t)' <=> Free(t)
  BY <1>1, <1>2, <1>7, FreeSame
<1>9. t \in InPlay'
  BY <1>4, <1>7, PlayedBy DEF OnTrack, InHand
<1>10. Room(t) \in {-1, 0} /\ Room(t)' \in {-1, 0} /\ Room(t)' <= Room(t)
  BY <1>8, <1>9, Rooms
<1>11. /\ worker[w].spent \in Nat /\ worker[w].spent <= RunCap
       /\ run[d].cost \in Nat /\ run[d].cost <= RunCap /\ troubles.lost \in Nat
  BY MoneyAt
<1>12. Weight(w)' - Weight(w) <= 1 /\ Weight(w) \in Int /\ Weight(w)' \in Int
  <2>1. Weight(w)' = IF worker[w].spent > 0 THEN 2 ELSE 1
    BY <1>4, Weights
  <2>2. CASE worker[w].step = "delivering"
    <3>1. worker[w].spent = 0 /\ Weight(w) = 0
      BY <2>2, MoneyAt, Weights DEF Running
    <3> QED
      BY <2>1, <3>1
  <2>3. CASE worker[w].step # "delivering"
    <3>1. Weight(w) = 1
      BY <1>1, <2>3, Weights DEF Running
    <3> QED
      BY <2>1, <3>1
  <2> QED
    BY <2>2, <2>3
<1>13. PaidFor(w, t, d, 0)
  <2>1. troubles'.lost <= troubles.lost + Charge(0)
    BY <1>5, <1>11, Charges
  <2>2. 0 + (Weight(w)' - Weight(w)) + (Room(t)' - Room(t)) <= Causes' - Causes
    BY <1>6, <1>10, <1>12
  <2>3. /\ run'[d].cost + worker'[w].spent + troubles'.lost
             = run[d].cost + worker[w].spent + troubles.lost
        /\ Causes' >= Causes
    BY <1>1, <1>4, <1>5, <1>6
  <2>4. /\ run'[d] = run[d] /\ \A e \in Doc : e # d => run'[e] = run[e]
        /\ \A s \in Ticket : s # t => event'[s] = event[s]
    BY <1>1
  <2>5. run[d].outcome \notin Final => run[d].cost = 0
    BY MoneyAt
  <2> QED
    BY <1>2, <1>4, <1>7, <1>11, <2>1, <2>2, <2>3, <2>4, <2>5 DEF PaidFor
<1> QED
  BY <1>13, MoneyKept DEF IInv

(* Storing moves what was spent into the cost of the run, as far as the     *)
(* attempt is still the one running, and into what is lost otherwise.       *)
LEMMA FinishedMoney ==
  ASSUME IInv, MoneyInv, NEW w \in Worker, NEW d \in Doc, d = worker[w].doc,
         NEW outcome \in {"error"} \cup Final, NEW cost \in 0..worker[w].spent,
         outcome \notin Final => cost = 0,
         FinishRun(w, outcome, cost)
  PROVE  /\ \A e \in Doc : e # d => run'[e] = run[e]
         /\ IsCurrent(w) => /\ run'[d].cost = cost /\ run[d].cost = 0
                            /\ troubles'.lost = troubles.lost + worker[w].spent - cost
         /\ ~IsCurrent(w) => run' = run /\ troubles'.lost = troubles.lost + worker[w].spent
         /\ run'[d].cost <= RunCap
         /\ run'[d].outcome \notin Final => run'[d].cost = 0
         /\ run'[d].cost + troubles'.lost = run[d].cost + worker[w].spent + troubles.lost
         /\ run[d].cost \in Nat /\ run'[d].cost \in Nat /\ troubles'.lost \in Nat
         /\ Causes' = Causes
<1>1. /\ troubles \in TroublesRecord /\ run \in [Doc -> RunRecord] /\ run[d] \in RunRecord
      /\ cost \in Nat /\ cost <= worker[w].spent
      /\ worker[w].spent \in Nat /\ worker[w].spent <= RunCap
      /\ run[d].cost \in Nat /\ run[d].cost <= RunCap /\ troubles.lost \in Nat /\ RunCap \in Nat
  BY Typed, MoneyAt, MoneyTyped DEF IInv
<1>2. run[d].outcome \notin Final => run[d].cost = 0
  BY MoneyAt
<1>3. CASE IsCurrent(w)
  <2>1. /\ run' = [run EXCEPT ![d] = [run[d] EXCEPT !.outcome = outcome, !.cost = cost, !.age = 0]]
        /\ troubles' = [troubles EXCEPT !.lost = troubles.lost + worker[w].spent - cost]
        /\ run[d].outcome = "running"
    BY <1>1, <1>3 DEF FinishRun, IsCurrent, TroublesRecord
  <2>2. /\ run'[d].cost = cost /\ run'[d].outcome = outcome
        /\ \A e \in Doc : e # d => run'[e] = run[e]
    BY <1>1, <2>1 DEF RunRecord
  <2>3. troubles'.lost = troubles.lost + worker[w].spent - cost /\ Causes' = Causes
    BY <1>1, <2>1 DEF TroublesRecord, Causes
  <2>4. run[d].cost = 0
    BY <1>2, <2>1 DEF Final, Stopped
  <2>5. /\ run'[d].cost + troubles'.lost = run[d].cost + worker[w].spent + troubles.lost
        /\ run'[d].cost <= RunCap /\ troubles'.lost \in Nat
    BY <1>1, <2>2, <2>3, <2>4
  <2> QED
    BY <1>1, <1>3, <2>2, <2>3, <2>4, <2>5
<1>4. CASE ~IsCurrent(w)
  <2>1. run' = run /\ troubles' = [troubles EXCEPT !.lost = troubles.lost + worker[w].spent]
    BY <1>1, <1>4 DEF FinishRun, TroublesRecord
  <2>2. troubles'.lost = troubles.lost + worker[w].spent /\ Causes' = Causes
    BY <1>1, <2>1 DEF TroublesRecord, Causes
  <2> QED
    BY <1>1, <1>2, <1>4, <2>1, <2>2
<1> QED
  BY <1>3, <1>4

(* A result stored has its cost; one that comes too late leaves its place.  *)
LEMMA StoreMoney == ASSUME IInv, IInv', MoneyInv, NEW w \in Worker, Store(w) PROVE MoneyInv'
<1>1. /\ Busy(w) /\ worker[w].step \in {"concluded", "marked"} /\ UNCHANGED event
      /\ FinishRun(w, worker[w].result, worker[w].spent)
      /\ worker' = [worker EXCEPT ![w].step = "delivering", ![w].spent = 0]
  BY DEF Store, Ready, Busy
<1>2. PICK t \in Ticket, d \in Doc : t = TicketOf(w) /\ d = worker[w].doc /\ d[1] = t
  BY <1>1, AtWork DEF TicketOf
<1>3. /\ worker \in [Worker -> WorkerRecord] /\ worker[w] \in WorkerRecord
      /\ worker[w].spent \in Nat /\ worker[w].spent <= RunCap
      /\ worker[w].result \in Final /\ troubles.lost \in Nat /\ Causes \in Nat /\ RunCap \in Nat
  BY <1>1, Typed, MoneyAt, MoneyTyped DEF IInv
<1>4. worker[w].spent \in 0..worker[w].spent
  BY <1>3
<1>5. /\ \A e \in Doc : e # d => run'[e] = run[e]
      /\ IsCurrent(w) => troubles'.lost = troubles.lost + worker[w].spent - worker[w].spent
      /\ ~IsCurrent(w) => run' = run /\ troubles'.lost = troubles.lost + worker[w].spent
      /\ run'[d].cost <= RunCap
      /\ run'[d].outcome \notin Final => run'[d].cost = 0
      /\ run'[d].cost + troubles'.lost = run[d].cost + worker[w].spent + troubles.lost
      /\ run[d].cost \in Nat /\ run'[d].cost \in Nat /\ troubles'.lost \in Nat
      /\ Causes' = Causes
  BY <1>1, <1>2, <1>3, <1>4, FinishedMoney
<1>6. worker' = [worker EXCEPT ![w] = [worker[w] EXCEPT !.step = "delivering", !.spent = 0]]
  BY <1>1, <1>3
<1>7. /\ OnlyMoves(w) /\ worker'[w].step = "delivering" /\ worker'[w].doc = d
      /\ worker'[w].spent = 0
  BY <1>2, <1>3, <1>6 DEF OnlyMoves, WorkerRecord
<1>8. TicketOf(w)' = t /\ Busy(w)'
  BY <1>2, <1>7 DEF TicketOf, Busy
<1>9. Free(t)' <=> Free(t)
  BY <1>1, <1>2, <1>8, FreeSame
<1>10. Weight(w) = 1 /\ Weight(w)' = 0 /\ Room(t) \in {-1, 0} /\ Room(t)' \in {-1, 0}
  BY <1>1, <1>7, Weights, Rooms DEF Running
<1>11. /\ run'[d].cost + worker'[w].spent + troubles'.lost
            = run[d].cost + worker[w].spent + troubles.lost
       /\ worker'[w].spent <= RunCap /\ ~(worker'[w].spent > 0) /\ Causes' >= Causes
  BY <1>3, <1>5, <1>7
<1>12. ASSUME NEW k \in {0, 1}, troubles'.lost <= troubles.lost + Charge(k),
              k + (Weight(w)' - Weight(w)) + (Room(t)' - Room(t)) <= Causes' - Causes
       PROVE  MoneyInv'
  <2>1. worker'[w].step \notin {"concluded", "marked"} /\ \A s \in Ticket : s # t => event'[s] = event[s]
    BY <1>1, <1>7
  <2>2. PaidFor(w, t, d, k)
    BY <1>2, <1>5, <1>7, <1>8, <1>11, <1>12, <2>1 DEF PaidFor
  <2> QED
    BY <2>2, MoneyKept DEF IInv
<1>13. CASE IsCurrent(w)
  <2>1. troubles'.lost <= troubles.lost + Charge(0)
    BY <1>3, <1>5, <1>13, Charges
  <2>2. 0 + (Weight(w)' - Weight(w)) + (Room(t)' - Room(t)) <= Causes' - Causes
    BY <1>3, <1>5, <1>10
  <2> QED
    BY <1>12, <2>1, <2>2
<1>14. CASE ~IsCurrent(w)
  <2>1. ~OnTrack(w) /\ ~OnTrack(w)'
    BY <1>1, <1>7, <1>14 DEF OnTrack, InHand, Running
  <2>2. t \in InPlay' <=> t \in InPlay
    BY <1>5, <1>7, <1>9, <1>14, <2>1, PlaySame
  <2>3. Room(t)' = Room(t)
    BY <1>9, <1>10, <2>2, Rooms
  <2>4. troubles'.lost <= troubles.lost + Charge(1)
    BY <1>3, <1>5, <1>14, Charges
  <2>5. 1 + (Weight(w)' - Weight(w)) + (Room(t)' - Room(t)) <= Causes' - Causes
    BY <1>3, <1>5, <1>10, <2>3
  <2> QED
    BY <1>12, <2>4, <2>5
<1> QED
  BY <1>13, <1>14

(* A failure stored loses what its worker has spent.                        *)
LEMMA RecordFailureMoney ==
  ASSUME IInv, IInv', MoneyInv, NEW w \in Worker, RecordFailure(w) PROVE MoneyInv'
<1>1. /\ Busy(w) /\ worker[w].step = "failing" /\ UNCHANGED event
      /\ FinishRun(w, "error", 0)
      /\ worker' = [worker EXCEPT ![w].step = "returning", ![w].spent = 0]
  BY DEF RecordFailure, Busy
<1>2. PICK t \in Ticket, d \in Doc : t = TicketOf(w) /\ d = worker[w].doc /\ d[1] = t
  BY <1>1, AtWork DEF TicketOf
<1>3. /\ worker \in [Worker -> WorkerRecord] /\ worker[w] \in WorkerRecord
      /\ worker[w].spent \in Nat /\ worker[w].spent <= RunCap
      /\ troubles.lost \in Nat /\ Causes \in Nat /\ RunCap \in Nat
  BY <1>1, Typed, MoneyAt, MoneyTyped DEF IInv
<1>4. 0 \in 0..worker[w].spent
  BY <1>3
<1>5. /\ \A e \in Doc : e # d => run'[e] = run[e]
      /\ run'[d].cost <= RunCap
      /\ run'[d].outcome \notin Final => run'[d].cost = 0
      /\ run'[d].cost + troubles'.lost = run[d].cost + worker[w].spent + troubles.lost
      /\ run[d].cost \in Nat /\ run'[d].cost \in Nat /\ troubles'.lost \in Nat
      /\ Causes' = Causes /\ troubles'.lost <= troubles.lost + worker[w].spent
  <2>1. CASE IsCurrent(w)
    BY <1>1, <1>2, <1>3, <1>4, <2>1, FinishedMoney
  <2>2. CASE ~IsCurrent(w)
    BY <1>1, <1>2, <1>3, <1>4, <2>2, FinishedMoney
  <2> QED
    BY <2>1, <2>2
<1>6. worker' = [worker EXCEPT ![w] = [worker[w] EXCEPT !.step = "returning", !.spent = 0]]
  BY <1>1, <1>3
<1>7. /\ OnlyMoves(w) /\ worker'[w].step = "returning" /\ worker'[w].doc = d
      /\ worker'[w].spent = 0
  BY <1>2, <1>3, <1>6 DEF OnlyMoves, WorkerRecord
<1>8. TicketOf(w)' = t /\ Busy(w)'
  BY <1>2, <1>7 DEF TicketOf, Busy
<1>9. Free(t)' <=> Free(t)
  BY <1>1, <1>2, <1>8, FreeSame
<1>10. t \in InPlay /\ t \in InPlay'
  BY <1>1, <1>2, <1>7, <1>8, PlayedBy DEF OnTrack, InHand
<1>11. Room(t) \in {-1, 0} /\ Room(t)' = Room(t)
  BY <1>9, <1>10, Rooms
<1>12. Weight(w)' = 1 /\ Weight(w) = IF worker[w].spent > 0 THEN 2 ELSE 1
  BY <1>1, <1>7, Weights DEF InHand
<1>13. PICK k \in {0, 1} : k = IF worker[w].spent > 0 THEN 1 ELSE 0
  OBVIOUS
<1>14. troubles'.lost <= troubles.lost + Charge(k)
  BY <1>3, <1>5, <1>13, Charges
<1>15. k + (Weight(w)' - Weight(w)) + (Room(t)' - Room(t)) <= Causes' - Causes
  BY <1>3, <1>5, <1>11, <1>12, <1>13
<1>16. /\ run'[d].cost + worker'[w].spent + troubles'.lost
            = run[d].cost + worker[w].spent + troubles.lost
       /\ worker'[w].spent <= RunCap /\ ~(worker'[w].spent > 0) /\ Causes' >= Causes
  BY <1>3, <1>5, <1>7
<1>17. worker'[w].step \notin {"concluded", "marked"} /\ \A s \in Ticket : s # t => event'[s] = event[s]
  BY <1>1, <1>7
<1>18. PaidFor(w, t, d, k)
  BY <1>2, <1>5, <1>7, <1>8, <1>14, <1>15, <1>16, <1>17 DEF PaidFor
<1> QED
  BY <1>18, MoneyKept DEF IInv

(* The debt is never negative: a ticket that is in play is free, or some    *)
(* worker is engaged on it.                                                 *)
LEMMA DebtPositive == Debt >= 0
<1> DEFINE Held == InPlay \ FreeTickets
           Holder == [t \in Held |-> CHOOSE w \in Engaged : TicketOf(w) = t]
<1>1. ASSUME NEW t \in Held PROVE Holder[t] \in Engaged /\ TicketOf(Holder[t]) = t
  <2>1. \E w \in Engaged : TicketOf(w) = t
    BY DEF InPlay, FreeTickets, OnTrack, InHand, Running, Engaged
  <2> QED
    BY <2>1
<1>2. Holder \in Injection(Held, Engaged)
  <2>1. Holder \in [Held -> Engaged]
    BY <1>1
  <2>2. \A s, t \in Held : Holder[s] = Holder[t] => s = t
    BY <1>1
  <2> HIDE DEF Holder
  <2> QED
    BY <2>1, <2>2 DEF Injection, IsInjective
<1>3. /\ IsFiniteSet(Engaged) /\ IsFiniteSet(Losing) /\ IsFiniteSet(FreeTickets) /\ IsFiniteSet(InPlay)
      /\ Cardinality(Engaged) \in Nat /\ Cardinality(Losing) \in Nat
      /\ Cardinality(FreeTickets) \in Nat /\ Cardinality(InPlay) \in Nat
  BY DebtTyped, FS_CardinalityType
<1>4. IsFiniteSet(Held) /\ Cardinality(Held) <= Cardinality(Engaged) /\ Cardinality(Held) \in Nat
  BY <1>2, <1>3, FS_Injection, FS_CardinalityType
<1>5. Cardinality(Held) = Cardinality(InPlay) - Cardinality(InPlay \cap FreeTickets)
  BY <1>3, FS_Difference
<1>6. Cardinality(InPlay \cap FreeTickets) \in Nat /\ Cardinality(InPlay \cap FreeTickets) <= Cardinality(FreeTickets)
  BY <1>3, FS_Intersection, FS_CardinalityType
<1> QED
  BY <1>3, <1>4, <1>5, <1>6 DEF Debt

(* The bound on what is paid, from the bounds on its parts: the worker that *)
(* asks is under the cap with all that is on record.                        *)
LEMMA BoundAdds ==
  ASSUME NEW cap \in Nat, NEW record \in Nat, NEW own \in Nat, NEW others \in Nat, NEW lost \in Nat,
         NEW n \in Nat, NEW causes \in Nat, NEW debt \in Nat,
         record + own <= cap, others <= cap * (n - 1), lost <= cap * (causes - debt)
  PROVE  record + (others + own) + lost <= cap * (n + causes)
<1>1. cap * (causes - debt) <= cap * causes
  BY TimesGrows
<1>2. /\ cap * (n - 1) = cap * n - cap
      /\ cap * (n + causes) = cap * n + cap * causes
  OBVIOUS
<1>3. PICK x \in Int, y \in Int, z \in Int : x = cap * n /\ y = cap * causes /\ z = cap * (causes - debt)
  OBVIOUS
<1>4. others <= x - cap /\ lost <= z /\ z <= y /\ cap * (n + causes) = x + y
  BY <1>1, <1>2, <1>3
<1> QED
  BY <1>4

(* A call is made while the cap is not reached, whatever it costs; a run    *)
(* that finds the cap reached ends.                                         *)
LEMMA AskMoney == ASSUME IInv, IInv', MoneyInv, NEW w \in Worker, Ask(w) PROVE MoneyInv'
<1>1. /\ Busy(w) /\ UNCHANGED <<event, run, troubles>> /\ worker[w].step = "working"
      /\ worker \in [Worker -> WorkerRecord] /\ worker[w] \in WorkerRecord
      /\ run \in [Doc -> RunRecord]
  BY Typed DEF IInv, Ask, Busy
<1>2. CASE ~UnderCap(w)
  <2>1. worker' = [worker EXCEPT ![w].step = "concluded", ![w].result = "stopped"]
    BY <1>2 DEF Ask
  <2>2. worker' = [worker EXCEPT ![w] = [worker[w] EXCEPT !.step = "concluded", !.result = "stopped"]]
    BY <1>1, <2>1
  <2>3. /\ worker'[w].step = "concluded" /\ OnlyMoves(w) /\ worker'[w].result = "stopped"
        /\ worker'[w].doc = worker[w].doc /\ worker'[w].attempt = worker[w].attempt
        /\ worker'[w].spent = worker[w].spent
    BY <1>1, <2>2 DEF WorkerRecord, OnlyMoves
  <2> QED
    BY <1>1, <2>3, QuietMoney DEF IInv, Running, Final, Stopped
<1>3. CASE UnderCap(w)
  <2>0. PICK cost \in 1..MaxCost : worker' = [worker EXCEPT ![w].spent = @ + cost]
    BY <1>3 DEF Ask
  <2>1. worker' = [worker EXCEPT ![w] = [worker[w] EXCEPT !.spent = worker[w].spent + cost]]
    BY <1>1, <2>0
  <2>2. /\ worker'[w].step = "working" /\ OnlyMoves(w)
        /\ worker'[w].doc = worker[w].doc /\ worker'[w].attempt = worker[w].attempt
        /\ worker'[w].spent = worker[w].spent + cost
    BY <1>1, <2>1 DEF WorkerRecord, OnlyMoves
  <2>3. /\ Costs \in [Doc -> Nat] /\ Shares' \in [Worker -> Nat]
        /\ IsFiniteSet(Doc) /\ IsFiniteSet(Worker) /\ RunCap \in Nat
        /\ Spent = Total(Costs) /\ Spent' = Total(Costs')
    BY MoneyTyped DEF IInv
  <2>4. Costs' = Costs /\ Total(Costs) \in Nat
    <3>1. Costs' = Costs
      BY <1>1 DEF Costs, Doc, Version
    <3> QED
      BY <2>3, <3>1, CallsFinite
  <2>5. /\ worker[w].spent \in Nat /\ Spent \in Nat
        /\ Spent + (worker[w].spent + cost) <= RunCap /\ worker'[w].spent <= RunCap
    <3>1. worker[w].spent \in Nat /\ Spent \in Nat
      BY <2>3, <2>4, MoneyAt
    <3>2. Spent + worker[w].spent < DailyCap
      BY <1>3 DEF UnderCap
    <3>3. DailyCap \in Nat /\ MaxCost \in Nat /\ cost \in 1..MaxCost
      BY AgentRunsAssumption
    <3> QED
      BY <2>2, <3>1, <3>2, <3>3 DEF RunCap
  <2>6. CostsKept'
    <3>1. \A u \in Worker :
            /\ worker'[u].spent <= RunCap
            /\ worker'[u].spent > 0 => worker'[u].step \in Running \cup {"failing"}
            /\ worker'[u].step \in {"concluded", "marked"} => worker'[u].result \in Final
      BY <2>2, <2>5 DEF MoneyInv, CostsKept, OnlyMoves, Running
    <3> QED
      BY <1>1, <3>1 DEF MoneyInv, CostsKept, Doc, Version
  <2>7. Debt' = Debt /\ Causes' = Causes /\ Debt \in Int
    <3>1. PICK t \in Ticket : t = TicketOf(w)
      BY <1>1, AtWork
    <3>2. TicketOf(w)' = t /\ Busy(w)'
      BY <2>2, <3>1 DEF TicketOf, Busy
    <3>3. Free(t)' <=> Free(t)
      BY <1>1, <3>1, <3>2, FreeSame
    <3>4. OnTrack(w)' <=> OnTrack(w)
      BY <1>1, <2>2 DEF OnTrack, IsCurrent
    <3>5. t \in InPlay' <=> t \in InPlay
      BY <1>1, <2>2, <3>1, <3>2, <3>3, <3>4, PlaySame
    <3>6. Room(t) \in {-1, 0} /\ Room(t)' = Room(t)
      BY <3>3, <3>5, Rooms
    <3>7. Weight(w) = 1 /\ Weight(w)' = 1
      BY <1>1, <2>2, Weights DEF Running
    <3>8. Debt' = Debt + (Weight(w)' - Weight(w)) + (Room(t)' - Room(t))
      BY <1>1, <2>2, <3>1, <3>2, DebtMoves
    <3> QED
      BY <1>1, <3>6, <3>7, <3>8, DebtTyped DEF Causes
  <2>8. LossesPaid'
    BY <1>1, <2>7 DEF MoneyInv, LossesPaid
  <2>9. SpendBounded'
    <3>1. /\ Cardinality(Others(Shares', w)) \in Nat
          /\ Total(Shares') = Cardinality(Others(Shares', w)) + Shares'[w]
      BY <2>3, TotalApart
    <3>2. \A u \in Worker : Shares'[u] = worker'[u].spent
      BY DEF Shares
    <3>3. \A u \in Worker : Shares'[u] <= RunCap
      BY <2>6, <3>2 DEF CostsKept
    <3>4. /\ Cardinality(Others(Shares', w)) <= RunCap * (Cardinality(Worker) - 1)
          /\ Cardinality(Worker) \in Nat
      BY <2>3, <3>3, OthersCapped
    <3>5. /\ troubles.lost \in Nat /\ Causes \in Nat /\ Debt \in Nat
          /\ troubles.lost <= RunCap * (Causes - Debt)
      BY <2>7, MoneyAt, DebtPositive DEF MoneyInv, LossesPaid
    <3>6. worker[w].spent + cost \in Nat
      BY <2>5
    <3>7. Spent + (Cardinality(Others(Shares', w)) + (worker[w].spent + cost)) + troubles.lost
            <= RunCap * (Cardinality(Worker) + Causes)
      BY <2>3, <2>5, <3>1, <3>4, <3>5, <3>6, BoundAdds
    <3>8. Spent' + Total(Shares') + troubles'.lost <= RunCap * (Cardinality(Worker) + Causes')
      BY <1>1, <2>2, <2>3, <2>4, <2>7, <3>1, <3>2, <3>7
    <3> QED
      BY <3>8, MoneyTyped
  <2> QED
    BY <2>6, <2>8, <2>9 DEF MoneyInv
<1> QED
  BY <1>2, <1>3

(* Steps that change neither workers, events, runs nor troubles.            *)
LEMMA NoMoney ==
  ASSUME MoneyInv, UNCHANGED <<event, run, worker, troubles>>
  PROVE  MoneyInv'
BY DEF MoneyInv, CostsKept, LossesPaid, SpendBounded, Spent, Causes, Debt, Engaged, Losing, FreeTickets,
   InPlay, OnTrack, IsCurrent, Free, Attended, Busy, TicketOf, Doc, Version

(* Time passes: each event that a stall frees has that stall to pay for it. *)
LEMMA TickMoney == ASSUME IInv, IInv', MoneyInv, Tick PROVE MoneyInv'
<1>1. /\ UNCHANGED worker /\ troubles'.lost = troubles.lost
      /\ IsFiniteSet(Stalled) /\ Cardinality(Stalled) \in Nat
      /\ Causes \in Nat /\ Causes' = Causes + Cardinality(Stalled)
  BY TimePasses
<1>2. ASSUME NEW t \in Ticket
      PROVE  /\ event'[t].status = event[t].status
             /\ event'[t].wait = 0 => event[t].wait \in {0, 1}
             /\ event[t].wait = 0 => event'[t].wait = 0
  BY TimePasses
<1>3. ASSUME NEW d \in Doc
      PROVE  /\ run'[d].attempts = run[d].attempts
             /\ run'[d].outcome = run[d].outcome /\ run'[d].cost = run[d].cost
  BY TimePasses
<1>4. CostsKept'
  BY <1>1, <1>3 DEF MoneyInv, CostsKept, Doc, Version
<1>5. ASSUME NEW t \in Ticket
      PROVE  /\ Free(t) => Free(t)'
             /\ Free(t)' => Free(t) \/ t \in Stalled
  <2>1. Attended(t)' <=> Attended(t)
    BY <1>1 DEF Attended, Busy, TicketOf
  <2>2. /\ event'[t].status = event[t].status
        /\ event'[t].wait = 0 => event[t].wait \in {0, 1}
        /\ event[t].wait = 0 => event'[t].wait = 0
    BY <1>2
  <2> QED
    BY <2>1, <2>2 DEF Free, Attended, Stalled
<1>6. Engaged' = Engaged /\ Losing' = Losing
  BY <1>1 DEF Engaged, Losing
<1>7. FreeTickets' \subseteq FreeTickets \cup Stalled
  BY <1>5 DEF FreeTickets
<1>8. InPlay \subseteq InPlay'
  <2> SUFFICES ASSUME NEW t \in InPlay PROVE t \in InPlay'
    OBVIOUS
  <2>0. t \in Ticket
    BY DEF InPlay
  <2>1. CASE Free(t)
    BY <1>5, <2>0, <2>1 DEF InPlay
  <2>2. ASSUME NEW w \in Worker, OnTrack(w), TicketOf(w) = t PROVE t \in InPlay'
    <3>1. worker[w].doc \in Doc
      BY <2>2 DEF IInv, StepsSound, Busy, OnTrack, InHand, Running
    <3>2. /\ run'[worker[w].doc].attempts = run[worker[w].doc].attempts
          /\ run'[worker[w].doc].outcome = run[worker[w].doc].outcome
      BY <1>3, <3>1
    <3>3. OnTrack(w)' /\ TicketOf(w)' = t
      BY <1>1, <2>2, <3>2 DEF OnTrack, IsCurrent, TicketOf
    <3> QED
      BY <2>0, <3>3, PlayedBy
  <2> QED
    BY <2>1, <2>2 DEF InPlay
<1>9. /\ IsFiniteSet(FreeTickets) /\ IsFiniteSet(FreeTickets') /\ IsFiniteSet(InPlay) /\ IsFiniteSet(InPlay')
      /\ IsFiniteSet(Engaged) /\ IsFiniteSet(Losing)
  BY DebtTyped
<1>10. Cardinality(FreeTickets') <= Cardinality(FreeTickets) + Cardinality(Stalled)
  <2>1. /\ IsFiniteSet(FreeTickets \cup Stalled)
        /\ Cardinality(FreeTickets \cup Stalled)
             = Cardinality(FreeTickets) + Cardinality(Stalled) - Cardinality(FreeTickets \cap Stalled)
    BY <1>1, <1>9, FS_Union
  <2>2. Cardinality(FreeTickets') <= Cardinality(FreeTickets \cup Stalled)
    BY <1>7, <2>1, FS_Subset
  <2>3. Cardinality(FreeTickets \cap Stalled) \in Nat
    BY <1>9, FS_Intersection, FS_CardinalityType
  <2>4. Cardinality(FreeTickets) \in Nat /\ Cardinality(FreeTickets') \in Nat
    BY <1>9, FS_CardinalityType
  <2> QED
    BY <1>1, <2>1, <2>2, <2>3, <2>4
<1>11. Cardinality(InPlay) <= Cardinality(InPlay')
  BY <1>8, <1>9, FS_Subset
<1>12. /\ Cardinality(Engaged) \in Nat /\ Cardinality(Losing) \in Nat
       /\ Cardinality(FreeTickets) \in Nat /\ Cardinality(FreeTickets') \in Nat
       /\ Cardinality(InPlay) \in Nat /\ Cardinality(InPlay') \in Nat
  BY <1>9, FS_CardinalityType
<1>13. 0 + (Debt' - Debt) <= Causes' - Causes
  BY <1>1, <1>6, <1>10, <1>11, <1>12 DEF Debt
<1>14. LossesPaid'
  <2>1. troubles'.lost <= troubles.lost + RunCap * 0
    BY <1>1, MoneyTyped DEF IInv
  <2> QED
    BY <1>13, <2>1, LossesKept DEF IInv, MoneyInv
<1>15. SpendBounded'
  <2>1. Costs' = Costs /\ Shares' = Shares
    BY <1>1, <1>3 DEF Costs, Shares, Doc, Version
  <2>2. Spent' + Total(Shares') + troubles'.lost = Spent + Total(Shares) + troubles.lost
    BY <1>1, <2>1, MoneyTyped
  <2>3. /\ Total(Costs) \in Nat /\ Total(Shares) \in Nat /\ troubles.lost \in Nat
        /\ Spent = Total(Costs)
    BY MoneyTyped, CallsFinite DEF IInv
  <2>4. /\ Spent' + Total(Shares') + troubles'.lost <= Spent + Total(Shares) + troubles.lost
        /\ Causes' >= Causes
    BY <1>1, <2>2, <2>3
  <2> QED
    BY <2>4, BoundKept DEF IInv, MoneyInv
<1> QED
  BY <1>4, <1>14, <1>15 DEF MoneyInv

(* Nothing is spent, nobody is engaged, and every event is free, at first.  *)
LEMMA MoneyInit == Init => MoneyInv
<1> SUFFICES ASSUME Init PROVE MoneyInv
  OBVIOUS
<1>1. IInv
  BY InitSound
<1>2. AtRest.step = "idle" /\ AtRest.spent = 0 /\ NoRun.cost = 0 /\ NoRun.outcome = "none"
  BY DEF AtRest, NoRun
<1>3. \A w \in Worker : worker[w].step = "idle" /\ worker[w].spent = 0
  BY <1>2 DEF Init
<1>4. \A d \in Doc : run[d].cost = 0
  BY <1>2 DEF Init
<1>5. troubles.lost = 0 /\ Causes = 0
  BY DEF Init, Causes
<1>6. /\ IsFiniteSet(Worker) /\ RunCap \in Nat
      /\ Costs \in [Doc -> Nat] /\ Shares \in [Worker -> Nat] /\ Spent = Total(Costs)
      /\ Cardinality(Worker) \in Nat
  BY <1>1, MoneyTyped, FS_CardinalityType DEF IInv
<1>7. CostsKept
  BY <1>3, <1>4, <1>6 DEF CostsKept
<1>8. LossesPaid
  <2>1. Engaged = {} /\ Losing = {}
    BY <1>3 DEF Engaged, Losing
  <2>2. \A t \in Ticket : Free(t)
    BY DEF Init, Free
  <2>3. FreeTickets = Ticket /\ InPlay = Ticket
    BY <2>2 DEF FreeTickets, InPlay
  <2>4. Cardinality(Ticket) \in Nat
    BY AgentRunsAssumption, FS_CardinalityType
  <2>5. Debt = 0
    BY <2>1, <2>3, <2>4, FS_EmptySet DEF Debt
  <2> QED
    BY <1>5, <1>6, <2>5 DEF LossesPaid
<1>9. SpendBounded
  <2>1. ASSUME NEW S, NEW cost \in [S -> Nat], \A x \in S : cost[x] = 0 PROVE Total(cost) = 0
    <3>1. \A x \in S : 1..cost[x] = {}
      BY <2>1
    <3>2. \A p : p \notin Calls(cost)
      BY <2>1, <3>1, CallsOf
    <3>3. Calls(cost) = {}
      BY <3>2
    <3> QED
      BY <3>3, FS_EmptySet DEF Total
  <2>2. (\A d \in Doc : Costs[d] = 0) /\ (\A w \in Worker : Shares[w] = 0)
    BY <1>3, <1>4 DEF Costs, Shares
  <2>3. Total(Costs) = 0 /\ Total(Shares) = 0
    BY <1>6, <2>1, <2>2
  <2>4. 0 <= RunCap * Cardinality(Worker)
    <3>1. RunCap * 0 <= RunCap * Cardinality(Worker)
      BY <1>6, TimesGrows
    <3> QED
      BY <1>6, <3>1
  <2>5. Spent + Total(Shares) + troubles.lost <= RunCap * (Cardinality(Worker) + Causes)
    BY <1>5, <1>6, <2>3, <2>4
  <2> QED
    BY <2>5, MoneyTyped
<1> QED
  BY <1>7, <1>8, <1>9 DEF MoneyInv

(* Every step keeps what is spent within its bounds.                        *)
LEMMA MoneyStep == IInv /\ IInv' /\ MoneyInv /\ [Next]_vars => MoneyInv'
<1> SUFFICES ASSUME IInv, IInv', MoneyInv, [Next]_vars PROVE MoneyInv'
  OBVIOUS
<1>1. ASSUME NEW w \in Worker, NEW t \in Ticket, Claim(w, t) PROVE MoneyInv'
  BY <1>1, ClaimMoney
<1>2. ASSUME NEW w \in Worker, Begin(w) PROVE MoneyInv'
  BY <1>2, BeginMoney
<1>3. ASSUME NEW w \in Worker, Miss(w) \/ Decline(w) PROVE MoneyInv'
  BY <1>3, DeclineMoney
<1>4. ASSUME NEW w \in Worker, Ask(w) PROVE MoneyInv'
  BY <1>4, AskMoney
<1>5. ASSUME NEW w \in Worker, TimeOut(w) \/ \E e \in Editor : Triage(w, e) PROVE MoneyInv'
  BY <1>5, EditsAside, NoMoney
<1>6. ASSUME NEW w \in Worker, Conclude(w) PROVE MoneyInv'
  BY <1>6, ConcludeMoney
<1>7. ASSUME NEW w \in Worker, RecordProposal(w) PROVE MoneyInv'
  BY <1>7, RecordProposalMoney
<1>8. ASSUME NEW w \in Worker, Store(w) PROVE MoneyInv'
  BY <1>8, StoreMoney
<1>9. ASSUME NEW w \in Worker, RecordFailure(w) PROVE MoneyInv'
  BY <1>9, RecordFailureMoney
<1>10. ASSUME NEW w \in Worker, Return(w) \/ Wait(w) PROVE MoneyInv'
  BY <1>10, HandMoney
<1>11. ASSUME NEW w \in Worker, Deliver(w) PROVE MoneyInv'
  BY <1>11, DeliverMoney
<1>12. ASSUME NEW w \in Worker, Fail(w) PROVE MoneyInv'
  BY <1>12, FailMoney
<1>13. ASSUME NEW w \in Worker, Crash(w) PROVE MoneyInv'
  BY <1>13, CrashMoney
<1>14. ASSUME NEW e \in Editor, (\E t \in Ticket : PersonReads(e, t)) \/ CommitEdit(e) \/ LoseEdit(e)
       PROVE  MoneyInv'
  BY <1>14, EditsAside, NoMoney
<1>15. CASE Tick
  BY <1>15, TickMoney
<1>16. CASE UNCHANGED vars
  BY <1>16, EditsAside, NoMoney
<1> QED
  BY <1>1, <1>2, <1>3, <1>4, <1>5, <1>6, <1>7, <1>8, <1>9, <1>10, <1>11, <1>12, <1>13, <1>14,
     <1>15, <1>16 DEF Next, Claims, Work

(* Each worker spends what one run may, each trouble loses what one run     *)
(* may, and that is all: whoever asks is under the cap with everything on   *)
(* record, its call costs at most MaxCost, and what no run records has a    *)
(* failure, a death or a stall behind it.                                   *)
THEOREM SpendingBounded == Spec => []SpendBounded
<1>1. Init => MoneyInv
  BY MoneyInit
<1>2. IInv /\ IInv' /\ MoneyInv /\ [Next]_vars => MoneyInv'
  BY MoneyStep
<1>3. MoneyInv => SpendBounded
  BY DEF MoneyInv
<1> QED
  BY <1>1, <1>2, <1>3, AlwaysIInv, PTL DEF Spec

(* What no run records is what one run may spend for each trouble there was:*)
(* without a failure, a death or a stall nothing is lost, whoever else      *)
(* claims the same event or edits the ticket meanwhile.                     *)
THEOREM LossesHaveCauses == Spec => [](troubles.lost <= RunCap * Causes)
<1>1. IInv /\ MoneyInv => troubles.lost <= RunCap * Causes
  <2> SUFFICES ASSUME IInv, MoneyInv PROVE troubles.lost <= RunCap * Causes
    OBVIOUS
  <2>1. /\ troubles.lost \in Int /\ Causes \in Int /\ Debt \in Int /\ Debt >= 0 /\ RunCap \in Nat
        /\ troubles.lost <= RunCap * (Causes - Debt)
    BY MoneyTyped, MoneyAt, DebtTyped, DebtPositive DEF MoneyInv, LossesPaid
  <2>2. Causes - Debt \in Int /\ Causes - Debt <= Causes
    BY <2>1
  <2>3. RunCap * (Causes - Debt) <= RunCap * Causes
    BY <2>1, <2>2, TimesGrows
  <2>4. PICK x \in Int, y \in Int : x = RunCap * (Causes - Debt) /\ y = RunCap * Causes
    BY <2>1
  <2> QED
    BY <2>1, <2>3, <2>4
<1>2. Init => MoneyInv
  BY MoneyInit
<1>3. IInv /\ IInv' /\ MoneyInv /\ [Next]_vars => MoneyInv'
  BY MoneyStep
<1> QED
  BY <1>1, <1>2, <1>3, AlwaysIInv, PTL DEF Spec

=============================================================================
