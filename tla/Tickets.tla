------------------------------ MODULE Tickets ------------------------------
(***************************************************************************)
(* One ticket and everything that reads and writes it at the same time:    *)
(* people's edits, comments, the SLA job, the service desk agent's calls,  *)
(* people's decisions on the agent's proposals, and deletion.              *)
(*                                                                         *)
(* A handler of the server reads the ticket, decides, and writes in one    *)
(* MongoDB transaction.  The read and the transaction are separate steps   *)
(* here, and any other handler may run between them; a transaction is one  *)
(* step, because the driver retries it until it commits alone.  A handler  *)
(* keeps what it read in call[c].  Between two steps its process may die.  *)
(*                                                                         *)
(* Tickets share nothing with each other but the number counter, so one    *)
(* ticket is enough.                                                       *)
(***************************************************************************)
EXTENDS TicketRules, FiniteSets

CONSTANTS
  Caller,       \* requests and jobs the server handles at once
  StaffRole,    \* roles of the people working on the ticket
  Patch,        \* what a PATCH may carry
  Ops,          \* the operations of this instance
  AnyVersion,   \* a PATCH that states no version
  Group,        \* groups the agent may hand the ticket to
  MaxAttempts,  \* MAX_UNCONDITIONAL_ATTEMPTS, and the agent services' MAX_ATTEMPTS
  MaxBatches,   \* batches one SLA job reads (RUN_LIMIT / BATCH)
  MaxVersion,   \* bound: no request starts once the ticket has this version
  MaxComments,  \* bound: no comment starts once there are this many of a kind
  MaxTime       \* bound: the clock stops here

CommentKind == {"public", "internal", "unreviewed"} \cup Run

ASSUME TicketsAssumption ==
  /\ StaffRole \subseteq {"admin", "technician"}
  /\ AnyVersion \notin Nat
  /\ Group \subseteq Assignee
  /\ MaxAttempts \in Nat \ {0}
  /\ MaxBatches \in Nat \ {0}
  /\ MaxTime \in Nat
  /\ {"public", "internal", "unreviewed"} \cap Run = {}
  /\ \A p \in Patch :
       /\ DOMAIN p \subseteq PatchField
       /\ "status" \in DOMAIN p => p["status"] \in Status
       /\ "priority" \in DOMAIN p => p["priority"] \in Priority
       /\ "assignee" \in DOMAIN p => p["assignee"] \in Owner
       /\ "dueAt" \in DOMAIN p => p["dueAt"] \in Nat

VARIABLES
  life,      \* whether the ticket document exists
  ticket,    \* the document (meaningless unless life = "live")
  comments,  \* comments stored for the ticket, counted by kind; a reply of the
             \* agent's that a person approved is counted under the run that
             \* wrote it, an answer nobody approved as unreviewed
  runs,      \* the agent's runs, as the worker keeps them
  call,      \* what each handler in progress has read and is about to do
  now,       \* the clock
  pushed,    \* the tracked history entries the latest step appended
  emitted    \* the outbox events the latest step inserted

vars == <<life, ticket, comments, runs, call, now, pushed, emitted>>

-----------------------------------------------------------------------------
(* State.                                                                   *)

CallOp == {"idle", "patch", "comment", "load", "approve", "reject", "escalate",
           "resolve", "sla", "slaWrite", "purge"}
RunState == {"waiting", "running", "recorded", "proposed", "ended", "crashed"}

NoPatch == [f \in {} |-> None]
BlankTicket == [status |-> "open", priority |-> "medium", assignee |-> Unassigned,
                dueAt |-> 0, resolvedAt |-> None,
                slaAtRiskAt |-> FALSE, slaBreachedAt |-> FALSE,
                agent |-> NoAgentState, said |-> "nothing", version |-> 0]
Idle == [op |-> "idle", role |-> "admin", run |-> NoRun, patch |-> NoPatch,
         expected |-> AnyVersion, kind |-> "public", copy |-> BlankTicket,
         at |-> 0, attempt |-> 1]

Call == [op : CallOp, role : Role, run : Run \cup {NoRun}, patch : Patch \cup {NoPatch},
         expected : Nat \cup {AnyVersion}, kind : CommentKind, copy : TicketDoc,
         at : Nat, attempt : Nat \ {0}]

TypeOK ==
  /\ life \in {"unborn", "live", "deleted"}
  /\ ticket \in TicketDoc
  /\ comments \in [CommentKind -> Nat]
  /\ runs \in [Run -> [state : RunState, version : Nat]]
  /\ call \in [Caller -> Call]
  /\ now \in Nat

Init ==
  /\ life = "unborn"
  /\ ticket = BlankTicket
  /\ comments = [k \in CommentKind |-> 0]
  /\ runs = [r \in Run |-> [state |-> "waiting", version |-> 0]]
  /\ call = [c \in Caller |-> Idle]
  /\ now = 0
  /\ pushed = {}
  /\ emitted = {}

(* A step that appends no tracked entry and no event. *)
Silent == pushed' = {} /\ emitted' = {}

(* A request is admitted into slot c with what it read; it ends. *)
CanStart(c, op) ==
  /\ op \in Ops
  /\ call[c] = Idle
  /\ life = "live"
  /\ ticket.version < MaxVersion
Enter(c, k) == call' = [call EXCEPT ![c] = k]
Leave(c) == call' = [call EXCEPT ![c] = Idle]

(* The filter of updateAtVersion: the ticket is still as it was read. *)
AtVersionUnchecked(k) == life = "live"
AtVersion(k) == life = "live" /\ ticket.version = k.copy.version

-----------------------------------------------------------------------------
(* Creating the ticket (createTicket, requesterOverrides, the validate hook *)
(* of the schema).  The ticket and its event commit together.               *)

Raised(role, fields) ==
  LET status == IF role = "user" THEN "open" ELSE FieldOf(fields, "status", "open")
      priority == FieldOf(fields, "priority", "medium")
  IN [BlankTicket EXCEPT
        !.status = status,
        !.priority = priority,
        !.assignee = IF role = "user" THEN Unassigned
                     ELSE FieldOf(fields, "assignee", Unassigned),
        !.dueAt = FieldOf(fields, "dueAt", DueAtFor(priority)),
        !.resolvedAt = IF IsTerminal(status) THEN now ELSE None]

CreateTicket ==
  /\ life = "unborn"
  /\ life' = "live"
  /\ \E role \in StaffRole \cup {"user"}, fields \in Patch \cup {NoPatch} :
       ticket' = Raised(role, fields)
  /\ pushed' = {}
  /\ emitted' = {Event("ticket.created", None, None)}
  /\ UNCHANGED <<comments, runs, call, now>>

-----------------------------------------------------------------------------
(* Editing (updateTicket).  An edit computed from a copy is written only if *)
(* the ticket still has the copy's version.  A lost race is tried again     *)
(* from a fresh copy, three times in all, unless the caller named a version.*)

PreconditionIgnored(expected, t) == TRUE
PreconditionHolds(expected, t) == expected \in {AnyVersion, t.version}

PatchAdmitted(role, patch, expected, t) ==
  /\ DOMAIN patch # {}
  /\ MayMutate(role, patch)
  /\ PreconditionHolds(expected, t)
  /\ "status" \in DOMAIN patch =>
       /\ TransitionAllowed(t.status, patch.status, role)
       /\ patch.status = "assigned" => FieldOf(patch, "assignee", t.assignee) # Unassigned

Patched(t, k) ==
  [t EXCEPT
     !.status = FieldOf(k.patch, "status", @),
     !.priority = FieldOf(k.patch, "priority", @),
     !.assignee = FieldOf(k.patch, "assignee", @),
     !.dueAt = IF NewTarget(k.copy, k.patch) THEN DueAtFor(k.patch.priority)
               ELSE FieldOf(k.patch, "dueAt", @),
     !.resolvedAt = CASE Resolves(k.copy, k.patch) -> k.at
                      [] Reopens(k.copy, k.patch) -> None
                      [] OTHER -> @,
     !.agent = IF WritesAgentState(k.copy.agent, k.patch, k.role)
               THEN NextAgentState(k.copy.agent, k.role, k.run) ELSE @,
     !.version = @ + 1]

StartPatch(c) ==
  /\ CanStart(c, "patch")
  /\ \E role \in StaffRole \cup {"user", "agent"}, run \in Run \cup {NoRun},
        patch \in Patch, expected \in 0..ticket.version \cup {AnyVersion} :
       /\ IF role = "agent" THEN run \in Run /\ runs[run].state = "running" ELSE run = NoRun
       /\ PatchAdmitted(role, patch, expected, ticket)
       /\ Enter(c, [Idle EXCEPT !.op = "patch", !.role = role, !.run = run, !.patch = patch,
                                !.expected = expected, !.copy = ticket, !.at = now])
  /\ Silent
  /\ UNCHANGED <<life, ticket, comments, runs, now>>

CommitPatch(c) ==
  LET k == call[c] IN
  /\ k.op = "patch"
  /\ AtVersion(k)
  /\ ticket' = Patched(ticket, k)
  /\ pushed' = PatchEntries(k.copy, k.patch)
  /\ emitted' = PatchEvents(k.copy, ticket')
  /\ Leave(c)
  /\ UNCHANGED <<life, comments, runs, now>>

(* The failed write and the next read: nothing the caller could tell them   *)
(* apart by happens between, since a version that moved on stays moved on.  *)
LosePatchUncounted(c) ==
  LET k == call[c] IN
  /\ k.op = "patch"
  /\ ~AtVersion(k)
  /\ IF life = "live" /\ k.expected = AnyVersion THEN Enter(c, k) ELSE Leave(c)
  /\ Silent
  /\ UNCHANGED <<life, ticket, comments, runs, now>>
LosePatch(c) ==
  LET k == call[c] IN
  /\ k.op = "patch"
  /\ ~AtVersion(k)
  /\ IF /\ life = "live"
        /\ k.expected = AnyVersion
        /\ k.attempt < MaxAttempts
        /\ PatchAdmitted(k.role, k.patch, k.expected, ticket)
     THEN Enter(c, [k EXCEPT !.copy = ticket, !.at = now, !.attempt = @ + 1])
     ELSE Leave(c)
  /\ Silent
  /\ UNCHANGED <<life, ticket, comments, runs, now>>

-----------------------------------------------------------------------------
(* Commenting (addComment).  The comment is stored whether or not the       *)
(* ticket is still there.  The requester's public reply to a ticket read as *)
(* pending-user puts it back in work, if it is still pending-user.          *)

ResumesStale(k) == k.role = "user" /\ k.kind = "public" /\ k.copy.status = "pending-user"
ResumesWork(k) ==
  /\ k.role = "user" /\ k.kind = "public" /\ k.copy.status = "pending-user"
  /\ life = "live" /\ ticket.status = "pending-user"

ResumedUnversioned(t) == [t EXCEPT !.status = "in-progress"]
Resumed(t) == [t EXCEPT !.status = "in-progress", !.version = @ + 1]

StartComment(c) ==
  /\ CanStart(c, "comment")
  /\ \E role \in StaffRole \cup {"user"}, kind \in {"public", "internal"} :
       /\ kind = "internal" => role # "user"
       /\ comments[kind] < MaxComments
       /\ Enter(c, [Idle EXCEPT !.op = "comment", !.role = role, !.kind = kind,
                                !.copy = ticket, !.at = now])
  /\ Silent
  /\ UNCHANGED <<life, ticket, comments, runs, now>>

CommitComment(c) ==
  LET k == call[c] IN
  /\ k.op = "comment"
  /\ comments' = [comments EXCEPT ![k.kind] = @ + 1]
  /\ ticket' = IF ResumesWork(k) THEN Resumed(ticket) ELSE ticket
  /\ pushed' = IF ResumesWork(k) THEN {Entry("status", "pending-user", "in-progress")} ELSE {}
  /\ emitted' = {Event("ticket.comment_added", None, None)}
                \cup (IF ResumesWork(k) THEN PatchEvents(k.copy, ticket') ELSE {})
  /\ Leave(c)
  /\ UNCHANGED <<life, runs, now>>

-----------------------------------------------------------------------------
(* The SLA job (escalate).  It pins the time when it starts, reads what is  *)
(* due, and marks it, once, if the filter of applySlaStep still matches.    *)
(* The filter does not look at dueAt.                                       *)

SlaAppliesUnmarked(k) ==
  /\ life = "live"
  /\ SlaRunning(ticket.status)
  /\ EscalationDue(k.copy, k.at) = "breached" => ticket.priority = k.copy.priority
SlaApplies(k) ==
  /\ life = "live"
  /\ SlaRunning(ticket.status)
  /\ IF EscalationDue(k.copy, k.at) = "breached"
     THEN ~ticket.slaBreachedAt /\ ticket.priority = k.copy.priority
     ELSE ~ticket.slaAtRiskAt

Marked(t, k) ==
  IF EscalationDue(k.copy, k.at) = "breached"
  THEN [t EXCEPT !.slaBreachedAt = TRUE, !.priority = RaisedPriority(k.copy.priority),
                 !.version = @ + 1]
  ELSE [t EXCEPT !.slaAtRiskAt = TRUE, !.version = @ + 1]

StartSla(c) ==
  /\ CanStart(c, "sla")
  /\ Enter(c, [Idle EXCEPT !.op = "sla", !.at = now])
  /\ Silent
  /\ UNCHANGED <<life, ticket, comments, runs, now>>

(* The job reads another batch, until its limit. *)
NextBatch(c) ==
  IF call[c].attempt < MaxBatches
  THEN Enter(c, [Idle EXCEPT !.op = "sla", !.at = call[c].at, !.attempt = call[c].attempt + 1])
  ELSE Leave(c)

(* A batch without this ticket ends the job, unless another ticket is in it. *)
QuerySla(c) ==
  /\ call[c].op = "sla"
  /\ IF life = "live" /\ EscalationDue(ticket, call[c].at) # "none"
     THEN Enter(c, [call[c] EXCEPT !.op = "slaWrite", !.copy = ticket])
     ELSE Leave(c) \/ NextBatch(c)
  /\ Silent
  /\ UNCHANGED <<life, ticket, comments, runs, now>>

(* A step that was applied is progress, so the job asks again. *)
CommitSla(c) ==
  LET k == call[c] IN
  /\ k.op = "slaWrite"
  /\ SlaApplies(k)
  /\ ticket' = Marked(ticket, k)
  /\ IF EscalationDue(k.copy, k.at) = "breached"
     THEN LET from == k.copy.priority
              to == RaisedPriority(from)
          IN /\ pushed' = ChangeEntry("priority", from, to)
             /\ emitted' = {Event("ticket.sla_breached", from, to)}
     ELSE pushed' = {} /\ emitted' = {Event("ticket.sla_at_risk", None, None)}
  /\ NextBatch(c)
  /\ UNCHANGED <<life, comments, runs, now>>

(* Not applied: the job stops, or asks again because of another ticket. *)
MissSla(c) ==
  LET k == call[c] IN
  /\ k.op = "slaWrite"
  /\ ~SlaApplies(k)
  /\ Leave(c) \/ NextBatch(c)
  /\ Silent
  /\ UNCHANGED <<life, ticket, comments, runs, now>>

-----------------------------------------------------------------------------
(* Deleting (deleteTicket): the document, then, in a write of its own, the  *)
(* comments.                                                                *)

DeleteTicket(c) ==
  /\ "delete" \in Ops
  /\ call[c] = Idle
  /\ life = "live"
  /\ life' = "deleted"
  /\ Enter(c, [Idle EXCEPT !.op = "purge"])
  /\ Silent
  /\ UNCHANGED <<ticket, comments, runs, now>>

PurgeComments(c) ==
  /\ call[c].op = "purge"
  /\ comments' = [k \in CommentKind |-> 0]
  /\ Leave(c)
  /\ Silent
  /\ UNCHANGED <<life, ticket, runs, now>>

-----------------------------------------------------------------------------
(* The agent's runs, as far as a ticket sees them (agentWorkerService).     *)
(* A run is keyed by the version the worker read: a version has one run, a  *)
(* crashed run is taken over while its version is current.  Another version *)
(* gets another run whenever the event is claimed again: the worker died    *)
(* before it was marked delivered, or worked on it longer than its lock.    *)

BeginRun(r) ==
  /\ "agent" \in Ops
  /\ life = "live"
  /\ ticket.version < MaxVersion
  /\ \/ /\ runs[r].state = "waiting"
        /\ \A q \in Run \ {r} : runs[q].state # "waiting" => runs[q].version # ticket.version
     \/ runs[r].state = "crashed" /\ runs[r].version = ticket.version
  /\ runs' = [runs EXCEPT ![r] = [state |-> "running", version |-> ticket.version]]
  /\ Silent
  /\ UNCHANGED <<life, ticket, comments, call, now>>

SetRun(r, state) == runs' = [runs EXCEPT ![r].state = state]

Proposed(t, r) ==
  [t EXCEPT !.agent = [@ EXCEPT !.lastRunId = r, !.proposalStatus = "pending"],
            !.said = "draft"]

(* recordProposal: unconditional, whatever the agent has said before, and   *)
(* without a new version.                                                   *)
RecordProposal(r) ==
  /\ runs[r].state = "running"
  /\ SetRun(r, "recorded")
  /\ ticket' = IF life = "live" THEN Proposed(ticket, r) ELSE ticket
  /\ Silent
  /\ UNCHANGED <<life, comments, call, now>>

(* finishRun: stores the outcome, and the proposal if the run made one. *)
FinishRun(r) ==
  /\ \/ runs[r].state = "running" /\ SetRun(r, "ended")
     \/ runs[r].state = "recorded" /\ SetRun(r, "proposed")
  /\ Silent
  /\ UNCHANGED <<life, ticket, comments, call, now>>

(* The worker fails or dies before the run is finished. *)
CrashRun(r) ==
  /\ runs[r].state \in {"running", "recorded"}
  /\ SetRun(r, "crashed")
  /\ Silent
  /\ UNCHANGED <<life, ticket, comments, call, now>>

-----------------------------------------------------------------------------
(* The agent's own writes: handing the ticket to a group with an internal   *)
(* note (escalateTicket), and answering it without review (postResolution). *)
(* Both read, write at the version they read, and look again if they lost.  *)
(* A request may outlive the run that sent it.  Whether the settings allow  *)
(* an answer is the environment's choice.                                   *)

Escalated(t, k, group) ==
  [t EXCEPT !.assignee = group,
            !.status = IF k.copy.status = "open" THEN "assigned" ELSE k.copy.status,
            !.agent = [k.copy.agent EXCEPT !.triageSource = "agent", !.lastRunId = k.run],
            !.version = @ + 1]

MayAnswer(t) == t.agent.proposalStatus # "posted" /\ ~IsTerminal(t.status)

Answered(t, k) ==
  [t EXCEPT !.status = StatusAfterReply(k.copy.status),
            !.agent = [k.copy.agent EXCEPT !.triageSource = "agent", !.lastRunId = k.run,
                                           !.proposalStatus = "posted"],
            !.said = "answer",
            !.version = @ + 1]

StartAgentWrite(c) ==
  /\ \E op \in {"escalate", "resolve"}, run \in Run :
       /\ CanStart(c, op)
       /\ runs[run].state = "running"
       /\ op = "resolve" => MayAnswer(ticket)
       /\ Enter(c, [Idle EXCEPT !.op = op, !.role = "agent", !.run = run,
                                !.copy = ticket, !.at = now])
  /\ Silent
  /\ UNCHANGED <<life, ticket, comments, runs, now>>

CommitEscalate(c) ==
  LET k == call[c] IN
  /\ k.op = "escalate"
  /\ AtVersion(k)
  /\ \E group \in Group : ticket' = Escalated(ticket, k, group)
  /\ comments' = [comments EXCEPT !["internal"] = @ + 1]
  /\ pushed' = ChangeEntry("assignee", k.copy.assignee, ticket'.assignee)
               \cup ChangeEntry("status", k.copy.status, ticket'.status)
  /\ emitted' = {Event("ticket.comment_added", None, None)} \cup PatchEvents(k.copy, ticket')
  /\ Leave(c)
  /\ UNCHANGED <<life, runs, now>>

CommitResolve(c) ==
  LET k == call[c] IN
  /\ k.op = "resolve"
  /\ AtVersion(k)
  /\ ticket' = Answered(ticket, k)
  /\ comments' = [comments EXCEPT !["unreviewed"] = @ + 1]
  /\ pushed' = ChangeEntry("status", k.copy.status, ticket'.status)
  /\ emitted' = {Event("ticket.comment_added", None, None)} \cup PatchEvents(k.copy, ticket')
  /\ Leave(c)
  /\ UNCHANGED <<life, runs, now>>

LoseAgentWrite(c) ==
  LET k == call[c] IN
  /\ k.op \in {"escalate", "resolve"}
  /\ ~AtVersion(k)
  /\ IF /\ life = "live"
        /\ k.attempt < MaxAttempts
        /\ k.op = "resolve" => MayAnswer(ticket)
     THEN Enter(c, [k EXCEPT !.copy = ticket, !.at = now, !.attempt = @ + 1])
     ELSE Leave(c)
  /\ Silent
  /\ UNCHANGED <<life, ticket, comments, runs, now>>

-----------------------------------------------------------------------------
(* A person's decision on the agent's proposal (approveProposal,            *)
(* rejectProposal).  load reads the ticket, then the run it points at; the  *)
(* decision is written where the proposal is still pending and the status   *)
(* is still the one read.  Only a decision that moves the ticket makes a    *)
(* new version.                                                             *)

DecidesUnguarded(k) == life = "live" /\ ticket.agent.proposalStatus = "pending"
Decides(k) ==
  /\ life = "live"
  /\ ticket.agent.proposalStatus = "pending"
  /\ ticket.status = k.copy.status

Approved(t, k, decision) ==
  LET status == StatusAfterReply(k.copy.status) IN
  [t EXCEPT !.agent.proposalStatus = decision,
            !.status = IF status = k.copy.status THEN @ ELSE status,
            !.version = IF status = k.copy.status THEN @ ELSE @ + 1]

StartDecision(c) ==
  /\ CanStart(c, "decide")
  /\ ticket.agent.proposalStatus = "pending"
  /\ \E role \in StaffRole :
       Enter(c, [Idle EXCEPT !.op = "load", !.role = role, !.copy = ticket, !.at = now])
  /\ Silent
  /\ UNCHANGED <<life, ticket, comments, runs, now>>

LoadProposal(c) ==
  LET run == call[c].copy.agent.lastRunId IN
  /\ call[c].op = "load"
  /\ IF run \in Run /\ runs[run].state = "proposed"
     THEN \E op \in {"approve", "reject"} :
            Enter(c, [call[c] EXCEPT !.op = op, !.run = run])
     ELSE Leave(c)
  /\ Silent
  /\ UNCHANGED <<life, ticket, comments, runs, now>>

CommitApprove(c) ==
  LET k == call[c] IN
  /\ k.op = "approve"
  /\ Decides(k)
  /\ \E decision \in {"approved", "edited"} : ticket' = Approved(ticket, k, decision)
  /\ comments' = [comments EXCEPT ![k.run] = @ + 1]
  /\ pushed' = ChangeEntry("status", k.copy.status, StatusAfterReply(k.copy.status))
  /\ emitted' = {Event("ticket.comment_added", None, None)} \cup PatchEvents(k.copy, ticket')
  /\ Leave(c)
  /\ UNCHANGED <<life, runs, now>>

CommitReject(c) ==
  /\ call[c].op = "reject"
  /\ Decides(call[c])
  /\ ticket' = [ticket EXCEPT !.agent.proposalStatus = "rejected"]
  /\ Leave(c)
  /\ Silent
  /\ UNCHANGED <<life, comments, runs, now>>

MissDecision(c) ==
  /\ call[c].op \in {"approve", "reject"}
  /\ ~Decides(call[c])
  /\ Leave(c)
  /\ Silent
  /\ UNCHANGED <<life, ticket, comments, runs, now>>

-----------------------------------------------------------------------------
(* The process serving a request dies; time passes.                         *)

CrashCall(c) ==
  /\ call[c] # Idle
  /\ Leave(c)
  /\ Silent
  /\ UNCHANGED <<life, ticket, comments, runs, now>>

Tick ==
  /\ life = "live"
  /\ now < MaxTime
  /\ now' = now + 1
  /\ Silent
  /\ UNCHANGED <<life, ticket, comments, runs, call>>

(* What a request in progress does next, and all that a caller may do. *)
Progress(c) ==
  \/ CommitPatch(c) \/ LosePatch(c)
  \/ CommitComment(c)
  \/ QuerySla(c) \/ CommitSla(c) \/ MissSla(c)
  \/ PurgeComments(c)
  \/ CommitEscalate(c) \/ CommitResolve(c) \/ LoseAgentWrite(c)
  \/ LoadProposal(c) \/ CommitApprove(c) \/ CommitReject(c) \/ MissDecision(c)

CallStep(c) ==
  \/ StartPatch(c) \/ StartComment(c) \/ StartSla(c) \/ DeleteTicket(c)
  \/ StartAgentWrite(c) \/ StartDecision(c)
  \/ CrashCall(c)
  \/ Progress(c)

RunStep(r) == BeginRun(r) \/ RecordProposal(r) \/ FinishRun(r) \/ CrashRun(r)

Next ==
  \/ CreateTicket
  \/ \E c \in Caller : CallStep(c)
  \/ \E r \in Run : RunStep(r)
  \/ Tick

Spec == Init /\ [][Next]_vars

(* The server runs a handler to its end unless its process dies, whatever   *)
(* the other requests do.                                                   *)
FairSpec == Spec /\ \A c \in Caller : WF_vars(Progress(c))

-----------------------------------------------------------------------------
(* Correctness.                                                             *)

(* What an edit can change.  The rest of the agent's state is written       *)
(* without a new version (recordProposal, decideProposal).                  *)
Content(t) == [status |-> t.status, priority |-> t.priority, assignee |-> t.assignee,
               dueAt |-> t.dueAt, resolvedAt |-> t.resolvedAt,
               slaAtRiskAt |-> t.slaAtRiskAt, slaBreachedAt |-> t.slaBreachedAt,
               triageSource |-> t.agent.triageSource]

Versioned == {"patch", "escalate", "resolve"}

(* A version names one content: while the version an edit was computed from *)
(* is current, so is every field the edit was computed from.  Every writer  *)
(* of the ticket has a part in it (updateAtVersion, applySlaStep,           *)
(* resumeFromPending, decideProposal), and updateTicket, escalateTicket and *)
(* postResolution rest on it.                                               *)
VersionPinsContent ==
  \A c \in Caller : call[c].op \in Versioned =>
    /\ call[c].copy.version <= ticket.version
    /\ call[c].copy.version = ticket.version => Content(call[c].copy) = Content(ticket)

(* A ticket has a resolution date exactly while it is resolved or closed,   *)
(* although the date follows from the copy and the status may be written by *)
(* the agent, a decision or a reply (deriveTimestampChanges).               *)
ResolvedAtIffTerminal ==
  life = "live" => (IsTerminal(ticket.status) <=> ticket.resolvedAt # None)

Stays == life = "live" /\ life' = "live"
Commits(c, op) == call[c].op = op /\ call'[c] = Idle /\ ticket'.version # ticket.version

(* The history never says a field went from a value it did not have, and    *)
(* leaves no change of status, priority or assignee out, whatever copy the  *)
(* entries were computed from.                                              *)
HistoryMatches ==
  Stays => pushed' = UNION {ChangeEntry(f, ticket[f], ticket'[f]) : f \in TrackedField}
HistoryIsTrue == [][HistoryMatches]_vars

(* A status change is announced with the statuses it went between, and no   *)
(* other status change ever is: addComment and approveProposal compute the  *)
(* event from a copy they do not check the version of.                      *)
StatusEvents == {e \in emitted' : e.type = "ticket.status_changed"}
StatusAnnouncedStep ==
  Stays => StatusEvents = IF ticket.status = ticket'.status THEN {}
                          ELSE {Event("ticket.status_changed", ticket.status, ticket'.status)}
StatusAnnounced == [][StatusAnnouncedStep]_vars

(* Whoever moves the ticket, and whatever they read before, it only moves   *)
(* as the workflow table says; a closed ticket is only ever put back in     *)
(* work by an admin's edit (statusTransitions, adminOnlyTransitions).       *)
WorkflowStep ==
  Stays /\ ticket.status # ticket'.status =>
    /\ <<ticket.status, ticket'.status>> \in StatusTransitions
    /\ <<ticket.status, ticket'.status>> \in AdminOnlyTransitions =>
         \E c \in Caller : Commits(c, "patch") /\ call[c].role = "admin"
WorkflowHonoured == [][WorkflowStep]_vars

(* A deadline is announced missed at most once per ticket, by a step that   *)
(* marks a ticket whose clock is running and raises its priority one step,  *)
(* with jobs overlapping each other and everybody's edits (applySlaStep).   *)
BreachAnnounced == \E e \in emitted' : e.type = "ticket.sla_breached"
BreachStep ==
  /\ ticket.slaBreachedAt /\ Stays => ticket'.slaBreachedAt /\ ~BreachAnnounced
  /\ BreachAnnounced =>
       /\ SlaRunning(ticket.status)
       /\ ticket' = [ticket EXCEPT !.slaBreachedAt = TRUE, !.version = @ + 1,
                                   !.priority = RaisedPriority(@)]
BreachedOnce == [][BreachStep]_vars

(* An edit sent with If-Match is only ever written over the version it      *)
(* names, however the attempts went (updateTicket).                         *)
ConditionalStep ==
  \A c \in Caller : Commits(c, "patch") =>
    call[c].expected \in {AnyVersion, ticket.version}
ConditionalNeverStale == [][ConditionalStep]_vars

(* The agent never answers by itself a ticket that is finished when the     *)
(* answer is written, nor a second time unless it drafted a reply for a     *)
(* person since: the answer's history entry stays the agent's latest, and   *)
(* with it the mark postResolution looks at, through every edit that        *)
(* rewrites the agent's state from a copy.  Once a draft has replaced that  *)
(* mark (Proposed) the code lets it answer alone again.                     *)
AutoReplyStep ==
  \A c \in Caller : Commits(c, "resolve") =>
    ~IsTerminal(ticket.status) /\ ticket.said # "answer"
AutoReplyAllowed == [][AutoReplyStep]_vars

(* Who triaged the ticket is never forgotten by a write of the whole agent  *)
(* sub-document, and a person's change of the agent's triage is credited to *)
(* the person (nextAgentState).                                             *)
TriageStep ==
  /\ Stays /\ ticket.agent.triageSource # "none" => ticket'.agent.triageSource # "none"
  /\ Stays /\ ticket.agent.triageSource = "agent" /\ ticket'.agent.triageSource = "agent" =>
       \A c \in Caller : Commits(c, "patch") /\ call[c].role # "agent" =>
         ticket'.assignee = ticket.assignee /\ ticket'.priority = ticket.priority
TriageCredited == [][TriageStep]_vars

(* Every request ends: its retries are bounded, and it waits for nobody.    *)
CallsFinish == \A c \in Caller : call[c].op # "idle" ~> call[c].op = "idle"

-----------------------------------------------------------------------------
(* What the repository says and the code does not do.                       *)

(* ADR 011: "Only one decision can win".  A run's reply is posted at most   *)
(* once.                                                                    *)
ReplyPostedOnce == \A r \in Run : comments[r] <= 1

-----------------------------------------------------------------------------
(* The serial specification this one implements (TicketDesk): with versions *)
(* forgotten, what happens to a ticket is what would happen if its requests *)
(* were served one after another.                                           *)

Desk == INSTANCE TicketDesk WITH doc <- Content(ticket), Time <- 0..MaxTime
DeskSpec == Desk!Spec

=============================================================================
