------------------------------ MODULE AgentRuns ------------------------------
(***************************************************************************)
(* The agent's worker: the second consumer of the outbox                   *)
(* (agentWorkerService, agentRunRepository, agentBreaker).                 *)
(*                                                                         *)
(* Each ticket has one event.  A worker claims it, decides from the record *)
(* of runs whether to work, begins the run of the ticket's version, works, *)
(* stores the result and settles the event: separate writes, with other    *)
(* workers, people's edits and its own death between any two.              *)
(*                                                                         *)
(* An edit of a ticket, a person's or the run's own, is two steps of the   *)
(* server: it reads the ticket, and writes over the version it read.  What *)
(* it writes may be the ticket's whole agent sub-document, as it was read. *)
(*                                                                         *)
(* Time is relative: what an event still has to wait, and how long ago a   *)
(* run started or finished.  A day and an hour do not end, so every run    *)
(* counts for the daily cap and the hourly limit.  One requester raised    *)
(* the tickets.  A run in auto mode is to its worker what one in assist    *)
(* mode is; the answers it may give are Tickets' and AgentLoop's matter.   *)
(***************************************************************************)
EXTENDS Integers, Sequences, FiniteSets, FiniteSetsExt, SequencesExt

CONSTANTS
  Ticket,           \* tickets, each with its event
  None,             \* no version
  Worker,           \* workers and jobs at once
  Editor,           \* edits of tickets the server handles at once
  Mode,             \* what the settings may say: off, shadow, assist
  MAX_ATTEMPTS,     \* claims after which a failed event is dead
  STALE_RUN,        \* a run running longer than this may be taken over
  AGENT_LOCK,       \* how long a claimed event stays locked
  RetryWait,        \* wait after a failure, and after finding a run in progress
  BreakerFailures,  \* failures in a row that open the breaker
  Cooldown,         \* how long it stays open
  DailyCap,         \* what may be spent on the model in a day
  MaxCost,          \* the most that one call to the model may cost
  HourlyLimit,      \* runs for one requester
  MaxVersion,       \* bound on the versions of a ticket
  MaxTroubles       \* bound on failed runs, dead workers, and locks outlived by their worker

ASSUME AgentRunsAssumption ==
  /\ Mode \subseteq {"off", "shadow", "assist"}
  /\ {MAX_ATTEMPTS, STALE_RUN, RetryWait, BreakerFailures, Cooldown, DailyCap, MaxCost} \subseteq Nat \ {0}
  /\ {HourlyLimit, MaxVersion, MaxTroubles} \subseteq Nat
  /\ AGENT_LOCK \in Nat /\ AGENT_LOCK > STALE_RUN
  /\ IsFiniteSet(Ticket) /\ IsFiniteSet(Worker)
  /\ None \notin Nat
  /\ Editor \cap {"model", "tools", "acted"} = {}

VARIABLES
  version,   \* version[t]: of the ticket's document
  marked,    \* marked[t]: the run (its version) the ticket's pending proposal points at
  event,     \* event[t]: status, claims, and the wait for its next attempt or until its lock is over
  run,       \* run[<<t, v>>]: the run of a version of a ticket
  recent,    \* the runs that really tried something, newest first
  worker,    \* worker[w]: where it is and what it holds
  turn,      \* turn[w]: what its run waits for (the model, or the edit of a tool), or
             \* that it may run tools or has run one; whether its triage was carried out
  triaged,   \* triaged[t]: the ticket's sub-document says that the agent triaged it
  request,   \* request[e]: what an edit in progress has read
  erased,    \* erased[t]: history only: the latest mark was written over by an edit that
             \* had read the ticket without one
  troubles   \* failures, crashes and stalls so far, and spending that no run records

edits == <<triaged, request, erased>>
vars == <<version, marked, event, run, recent, worker, turn, edits, troubles>>

-----------------------------------------------------------------------------

Version == 0..MaxVersion
Doc == Ticket \X Version
Stopped == {"skipped", "stopped"}           \* aborted: before, or after, the model was asked
Final == Stopped \cup {"finished", "proposed"}
Step == {"idle", "claimed", "looking", "working", "concluded", "marked", "waiting",
         "failing", "returning", "delivering"}
Forever == Max({STALE_RUN + 1, Cooldown})   \* as old as anything is compared with

NoRun == [outcome |-> "none", attempts |-> 0, age |-> 0, cost |-> 0]
AtRest == [step |-> "idle", doc |-> None, tries |-> 0, mode |-> "off", attempt |-> 0,
           spent |-> 0, result |-> "none"]

Busy(w) == worker[w].step # "idle"
Goes(w, step) == worker' = [worker EXCEPT ![w].step = step]
Rests(w) == worker' = [worker EXCEPT ![w] = AtRest]
TicketOf(w) == worker[w].doc[1]
Turns(w, at) == turn' = [turn EXCEPT ![w].at = at]
Causes == troubles.failures + troubles.crashes + troubles.stalls

Init ==
  /\ version = [t \in Ticket |-> 0]
  /\ marked = [t \in Ticket |-> None]
  /\ event = [t \in Ticket |-> [status |-> "pending", attempts |-> 0, wait |-> 0]]
  /\ run = [d \in Doc |-> NoRun]
  /\ recent = <<>>
  /\ worker = [w \in Worker |-> AtRest]
  /\ turn = [w \in Worker |-> [at |-> "model", triaged |-> FALSE]]
  /\ triaged = [t \in Ticket |-> FALSE]
  /\ request = [e \in Editor |-> None]
  /\ erased = [t \in Ticket |-> FALSE]
  /\ troubles = [failures |-> 0, crashes |-> 0, stalls |-> 0, lost |-> 0]

-----------------------------------------------------------------------------
(* What the record of runs says.                                            *)

(* A sum, counted unit by unit. *)
Calls(cost) == UNION {{x} \X (1..cost[x]) : x \in DOMAIN cost}
Total(cost) == Cardinality(Calls(cost))

Spent == Total([d \in Doc |-> run[d].cost])                            \* costSince
RunsRaised == Cardinality({d \in Doc : run[d].outcome # "none"})       \* countForRequesterSince

RecentAttempts == SubSeq(recent, 1, Min({BreakerFailures, Len(recent)}))

(* The breaker has no state: the latest failures, if they are recent. *)
Open ==
  /\ Len(RecentAttempts) = BreakerFailures
  /\ \A d \in ToSet(RecentAttempts) : run[d].outcome = "error"
  /\ run[recent[1]].age < Cooldown

-----------------------------------------------------------------------------
(* processAgentEvents and handle.                                           *)

ClaimableLocked(t) == event[t].status \in {"pending", "sending"}
ClaimablePending(t) == event[t].status = "pending" /\ event[t].wait = 0
Claimable(t) == event[t].status \in {"pending", "sending"} /\ event[t].wait = 0

MayRun(mode) ==
  /\ mode # "off"
  /\ Spent < DailyCap
  /\ ~Open
  /\ RunsRaised < HourlyLimit

(* The event is claimed, and the ticket, the settings and the record are    *)
(* read; any reason not to run leads to a run recorded as skipped.          *)
Claim(w, t) ==
  /\ ~Busy(w)
  /\ Claimable(t)
  /\ LET tries == Min({event[t].attempts + 1, MAX_ATTEMPTS}) IN
     /\ event' = [event EXCEPT ![t] = [status |-> "sending", attempts |-> tries,
                                       wait |-> AGENT_LOCK]]
     /\ \E mode \in Mode :
          worker' = [worker EXCEPT ![w] =
            [AtRest EXCEPT !.step = "claimed", !.tries = tries, !.doc = <<t, version[t]>>,
                           !.mode = IF MayRun(mode) THEN mode ELSE "off"]]
  /\ UNCHANGED <<version, marked, run, recent, turn, edits, troubles>>

(* beginRun: a new run, or one that failed or was left running too long.    *)
Abandoned(r) == r.outcome = "running" /\ r.age > STALE_RUN
MayBegin(r) == r.outcome \in {"none", "error"} \/ Abandoned(r)

Begin(w) ==
  LET d == worker[w].doc  tries == run[d].attempts + 1 IN
  /\ worker[w].step = "claimed"
  /\ MayBegin(run[d])
  /\ run' = [run EXCEPT ![d] = [NoRun EXCEPT !.outcome = "running", !.attempts = tries]]
  /\ recent' = SelectSeq(recent, LAMBDA e : e # d)
  /\ worker' = [worker EXCEPT
                  ![w].attempt = tries,
                  ![w].step = IF worker[w].mode = "off" THEN "concluded" ELSE "working",
                  ![w].result = IF worker[w].mode = "off" THEN "skipped" ELSE "none"]
  /\ turn' = [turn EXCEPT ![w] = [at |-> "model", triaged |-> FALSE]]
  /\ UNCHANGED <<version, marked, event, edits, troubles>>

(* Someone else is on it, or it is done: which of the two is looked up in a *)
(* read of its own.  Whatever is not running then counts as done.           *)
Miss(w) ==
  /\ worker[w].step = "claimed"
  /\ ~MayBegin(run[worker[w].doc])
  /\ Goes(w, "looking")
  /\ UNCHANGED <<version, marked, event, run, recent, turn, edits, troubles>>

Decline(w) ==
  LET inProgress == run[worker[w].doc].outcome = "running" IN
  /\ worker[w].step = "looking"
  /\ Goes(w, IF inProgress /\ worker[w].mode # "off" THEN "waiting" ELSE "delivering")
  /\ UNCHANGED <<version, marked, event, run, recent, turn, edits, troubles>>

(* A turn of the loop: asks the model, or finds the day's spending too high. *)
UnderCapBefore(w) == Spent < DailyCap
UnderCap(w) == Spent + worker[w].spent < DailyCap

Ask(w) ==
  /\ worker[w].step = "working"
  /\ turn[w].at \notin Editor
  /\ IF UnderCap(w)
     THEN /\ \E cost \in 1..MaxCost : worker' = [worker EXCEPT ![w].spent = @ + cost]
          /\ Turns(w, "tools")
     ELSE /\ worker' = [worker EXCEPT ![w].step = "concluded", ![w].result = "stopped"]
          /\ UNCHANGED turn
  /\ UNCHANGED <<version, marked, event, run, recent, edits, troubles>>

-----------------------------------------------------------------------------
(* Edits (updateTicket; escalateTicket writes the sub-document alike).       *)

Reads(t, whole, by) ==
  [ticket |-> t, version |-> version[t], marked |-> marked[t], whole |-> whole, run |-> by]

(* A person's edit.  It rewrites the sub-document if it changes the agent's *)
(* triage.                                                                  *)
PersonReads(e, t) ==
  /\ request[e] = None
  /\ version[t] < MaxVersion
  /\ \E touches \in BOOLEAN :
       request' = [request EXCEPT ![e] = Reads(t, touches /\ triaged[t], None)]
  /\ UNCHANGED <<version, marked, event, run, recent, worker, turn, triaged, erased, troubles>>

(* The run triages the ticket, or hands it over.  (One of its edits for     *)
(* each answer of the model's: a bound.)                                    *)
Triage(w, e) ==
  LET t == TicketOf(w) IN
  /\ worker[w].step = "working"
  /\ worker[w].mode = "assist"
  /\ turn[w].at = "tools"
  /\ request[e] = None
  /\ version[t] < MaxVersion
  /\ request' = [request EXCEPT ![e] = Reads(t, TRUE, worker[w].doc[2])]
  /\ Turns(w, e)
  /\ UNCHANGED <<version, marked, event, run, recent, worker, triaged, erased, troubles>>

(* The run that waits for the edit is told how it went. *)
Told(e, done) ==
  turn' = [w \in Worker |->
             IF turn[w].at = e THEN [at |-> "acted", triaged |-> done \/ turn[w].triaged]
             ELSE turn[w]]

(* What the sub-document says of a pending proposal once it is written back: *)
(* what it said when it was read, with the agent's run as the latest one.   *)
MarkWritten(r) == IF r.run # None /\ r.marked # None THEN r.run ELSE r.marked

CommitEdit(e) ==
  LET r == request[e]  t == r.ticket IN
  /\ r # None
  /\ version[t] = r.version
  /\ version' = [version EXCEPT ![t] = @ + 1]
  /\ IF r.whole
     THEN /\ marked' = [marked EXCEPT ![t] = MarkWritten(r)]
          /\ triaged' = [triaged EXCEPT ![t] = r.run # None]
          /\ erased' = [erased EXCEPT ![t] = @ \/ (marked[t] # None /\ r.marked = None)]
     ELSE UNCHANGED <<marked, triaged, erased>>
  /\ request' = [request EXCEPT ![e] = None]
  /\ Told(e, TRUE)
  /\ UNCHANGED <<event, run, recent, worker, troubles>>

(* The ticket has another version by now, or the request fails. *)
LoseEdit(e) ==
  /\ request[e] # None
  /\ request' = [request EXCEPT ![e] = None]
  /\ Told(e, FALSE)
  /\ UNCHANGED <<version, marked, event, run, recent, worker, triaged, erased, troubles>>

(* The run's call times out: its edit goes on without it. *)
TimeOut(w) ==
  /\ worker[w].step = "working"
  /\ turn[w].at \in Editor
  /\ Turns(w, "acted")
  /\ UNCHANGED <<version, marked, event, run, recent, worker, edits, troubles>>

-----------------------------------------------------------------------------
(* The run's end.  Only a triaged ticket gets a proposal (checkResolution). *)

(* What a shadow run would have proposed is a result like any other. *)
Conclude(w) ==
  /\ worker[w].step = "working"
  /\ turn[w].at \in {"tools", "acted"}
  /\ \E result \in {"finished", "proposed"} :
       /\ result = "proposed" => worker[w].mode = "assist" /\ turn[w].triaged
       /\ worker' = [worker EXCEPT ![w].step = "concluded", ![w].result = result]
  /\ UNCHANGED <<version, marked, event, run, recent, turn, edits, troubles>>

(* A proposal is marked on the ticket before it is stored: whatever the     *)
(* ticket's version, and without a new one.                                 *)
RecordProposal(w) ==
  /\ worker[w].step = "concluded"
  /\ worker[w].result = "proposed"
  /\ marked' = [marked EXCEPT ![TicketOf(w)] = worker[w].doc[2]]
  /\ erased' = [erased EXCEPT ![TicketOf(w)] = FALSE]
  /\ Goes(w, "marked")
  /\ UNCHANGED <<version, event, run, recent, turn, triaged, request, troubles>>

ReadyUnmarked(w) == worker[w].step \in {"concluded", "marked"}
Ready(w) ==
  \/ worker[w].step = "concluded" /\ worker[w].result # "proposed"
  \/ worker[w].step = "marked"

(* finishRun: only while this attempt is the one running. *)
IsCurrentAny(w) == run[worker[w].doc].outcome # "none"
IsCurrent(w) ==
  LET r == run[worker[w].doc] IN r.outcome = "running" /\ r.attempts = worker[w].attempt

FinishRun(w, outcome, cost) ==
  LET d == worker[w].doc IN
  IF IsCurrent(w)
  THEN /\ run' = [run EXCEPT ![d] = [@ EXCEPT !.outcome = outcome, !.cost = cost, !.age = 0]]
       /\ recent' = IF outcome \in Stopped THEN recent ELSE <<d>> \o recent
       /\ troubles' = [troubles EXCEPT !.lost = @ + worker[w].spent - cost]
  ELSE /\ troubles' = [troubles EXCEPT !.lost = @ + worker[w].spent]
       /\ UNCHANGED <<run, recent>>

Store(w) ==
  /\ Ready(w)
  /\ FinishRun(w, worker[w].result, worker[w].spent)
  /\ worker' = [worker EXCEPT ![w].step = "delivering", ![w].spent = 0]
  /\ UNCHANGED <<version, marked, event, turn, edits>>

(* The outbox writes apply to an event that is being sent, whoever sends it. *)
Settle(t, status, wait) ==
  event' = IF event[t].status = "sending"
           THEN [event EXCEPT ![t].status = status, ![t].wait = wait] ELSE event

Deliver(w) ==
  /\ worker[w].step = "delivering"
  /\ Settle(TicketOf(w), "delivered", 0)
  /\ Rests(w)
  /\ UNCHANGED <<version, marked, run, recent, turn, edits, troubles>>

Wait(w) ==
  /\ worker[w].step = "waiting"
  /\ Settle(TicketOf(w), "pending", RetryWait)
  /\ Rests(w)
  /\ UNCHANGED <<version, marked, run, recent, turn, edits, troubles>>

(* Something throws inside the run: it is stored as failed, its event put   *)
(* back or given up.                                                        *)
Fail(w) ==
  /\ worker[w].step \in {"working", "concluded", "marked", "delivering"}
  /\ worker[w].attempt > 0
  /\ worker[w].result # "skipped"
  /\ Causes < MaxTroubles
  /\ troubles' = [troubles EXCEPT !.failures = @ + 1]
  /\ Goes(w, "failing")
  /\ UNCHANGED <<version, marked, event, run, recent, turn, edits>>

RecordFailure(w) ==
  /\ worker[w].step = "failing"
  /\ FinishRun(w, "error", 0)
  /\ worker' = [worker EXCEPT ![w].step = "returning", ![w].spent = 0]
  /\ UNCHANGED <<version, marked, event, turn, edits>>

AfterFailure(t) == Settle(t, "pending", RetryWait)

Return(w) ==
  /\ worker[w].step = "returning"
  /\ IF worker[w].tries >= MAX_ATTEMPTS THEN Settle(TicketOf(w), "dead", 0)
     ELSE AfterFailure(TicketOf(w))
  /\ Rests(w)
  /\ UNCHANGED <<version, marked, run, recent, turn, edits, troubles>>

(* A worker dies, or a write outside the run throws: the job is over.       *)
Crash(w) ==
  /\ Busy(w)
  /\ Causes < MaxTroubles
  /\ troubles' = [troubles EXCEPT !.crashes = @ + 1, !.lost = @ + worker[w].spent]
  /\ Rests(w)
  /\ UNCHANGED <<version, marked, event, run, recent, turn, edits>>

Ages(r) == r.outcome \notin {"none"} \cup Stopped /\ r.age < Forever

(* Time passes. A lock that runs out under a worker that lives is a stall.  *)
Stalled ==
  {t \in Ticket : /\ event[t].status = "sending" /\ event[t].wait = 1
                  /\ \E w \in Worker : Busy(w) /\ TicketOf(w) = t}

Tick ==
  /\ \/ \E t \in Ticket : event[t].wait > 0
     \/ \E d \in Doc : Ages(run[d])
  /\ Causes + Cardinality(Stalled) <= MaxTroubles
  /\ troubles' = [troubles EXCEPT !.stalls = @ + Cardinality(Stalled)]
  /\ event' = [t \in Ticket |-> [event[t] EXCEPT !.wait = Max({@ - 1, 0})]]
  /\ run' = [d \in Doc |-> IF Ages(run[d]) THEN [run[d] EXCEPT !.age = @ + 1] ELSE run[d]]
  /\ UNCHANGED <<version, marked, recent, worker, turn, edits>>

-----------------------------------------------------------------------------

Work(w) ==
  \/ Begin(w) \/ Miss(w) \/ Decline(w)
  \/ Ask(w) \/ (\E e \in Editor : Triage(w, e)) \/ TimeOut(w)
  \/ Conclude(w) \/ RecordProposal(w) \/ Store(w)
  \/ RecordFailure(w) \/ Return(w) \/ Wait(w) \/ Deliver(w)

Claims == \E w \in Worker, t \in Ticket : Claim(w, t)

Next ==
  \/ Claims
  \/ \E w \in Worker : Work(w) \/ Fail(w) \/ Crash(w)
  \/ \E e \in Editor : (\E t \in Ticket : PersonReads(e, t)) \/ CommitEdit(e) \/ LoseEdit(e)
  \/ Tick

Spec == Init /\ [][Next]_vars

(* Jobs keep being started, a job that lives goes on, and time passes.      *)
FairSpec ==
  /\ Spec
  /\ WF_vars(Claims)
  /\ \A w \in Worker : WF_vars(Work(w))
  /\ WF_vars(Tick)

-----------------------------------------------------------------------------

RecordsTyped ==
  /\ version \in [Ticket -> Version]
  /\ marked \in [Ticket -> Version \cup {None}]
  /\ event \in [Ticket -> [status : {"pending", "sending", "delivered", "dead"},
                           attempts : 0..MAX_ATTEMPTS, wait : Nat]]
  /\ run \in [Doc -> [outcome : {"none", "running", "error"} \cup Final,
                      attempts : Nat, age : 0..Forever, cost : Nat]]
  /\ worker \in [Worker -> [step : Step, doc : Doc \cup {None}, tries : 0..MAX_ATTEMPTS,
                            mode : Mode \cup {"off"}, attempt : Nat, spent : Nat,
                            result : {"none"} \cup Final]]
  /\ troubles \in [failures : 0..MaxTroubles, crashes : 0..MaxTroubles,
                   stalls : 0..MaxTroubles, lost : Nat]
EditsTyped ==
  /\ turn \in [Worker -> [at : {"model", "tools", "acted"} \cup Editor, triaged : BOOLEAN]]
  /\ triaged \in [Ticket -> BOOLEAN]
  /\ request \in [Editor -> [ticket : Ticket, version : Version \ {MaxVersion},
                             marked : Version \cup {None}, whole : BOOLEAN, run : Version \cup {None}] \cup {None}]
  /\ erased \in [Ticket -> BOOLEAN]
TypeOK == RecordsTyped /\ EditsTyped /\ recent \in Seq(Doc)

(* A version of a ticket is run once (the promise above processAgentEvents): *)
(* each further attempt has a failed run, a dead worker or a lock that a     *)
(* living worker outran behind it, although events are claimed again and     *)
(* two workers may hold the same one.                                        *)
OneRunPerVersion == \A d \in Doc : run[d].attempts <= 1 + Causes

(* What a run concluded stays as it was recorded: a worker that was taken   *)
(* over while it stalled, and comes back, does not overwrite the result of  *)
(* the attempt that replaced it (finishRun).                                *)
ResultKept ==
  [][\A d \in Doc : run[d].outcome \in Final =>
        run'[d].outcome = run[d].outcome /\ run'[d].cost = run[d].cost]_vars

(* The ticket and the record agree on proposals.  A ticket with a stored    *)
(* proposal points at a run, unless its latest mark was written over by an  *)
(* edit that had read the ticket before it was set; a ticket points at a    *)
(* run without a proposal only while its worker is about to store it, or    *)
(* after something went wrong in between: the two writes of handle, in      *)
(* their order, against edits that write the sub-document back.             *)
MarkAndProposalAgree ==
  \A t \in Ticket :
    /\ (\E v \in Version : run[<<t, v>>].outcome = "proposed") => marked[t] # None \/ erased[t]
    /\ marked[t] # None =>
         \/ run[<<t, marked[t]>>].outcome = "proposed"
         \/ \E w \in Worker : worker[w].step = "marked" /\ worker[w].doc = <<t, marked[t]>>
         \/ Causes > 0

(* What one run may spend: its last call starts under the cap, and costs    *)
(* what it costs.                                                           *)
RunCap == DailyCap - 1 + MaxCost

(* What the model was paid in a day.  Every run checks the cap before each  *)
(* call, against what finished runs cost and what it has itself spent: each *)
(* of the runs at once can exceed it by a call, and what a failed, dead or  *)
(* replaced run spent is on no record, but that is all.                     *)
SpendBounded ==
  Spent + Total([w \in Worker |-> worker[w].spent]) + troubles.lost
    <= RunCap * (Cardinality(Worker) + Causes)

(* Every event is settled in the end: handled or given up, whatever failed, *)
(* died or stalled on the way.                                              *)
EventsSettle == \A t \in Ticket : <>(event[t].status \in {"delivered", "dead"})

=============================================================================
