---------------------------- MODULE TicketRules ----------------------------
(***************************************************************************)
(* The rules of a ticket as pure operators: no database, no interleaving.  *)
(* They are the domain layer (src/src/server/domain) and the tables of     *)
(* src/src/shared/ticket-constants.ts.  Every module about tickets uses    *)
(* these operators, so the concurrent specification (Tickets) and the      *)
(* serial one (TicketDesk) cannot disagree about a rule.                   *)
(*                                                                         *)
(* Time is a natural number counted from the moment the ticket was raised. *)
(* What a ticket says (title, description, names) is left out: no rule     *)
(* reads it.  A patch is a partial ticket: a function whose domain is the  *)
(* set of fields the request carries.                                      *)
(***************************************************************************)
EXTENDS Integers

CONSTANTS
  Assignee,    \* names and groups a ticket can be assigned to
  Unassigned,  \* the assignee of a ticket nobody has
  Run,         \* runs of the service desk agent
  NoRun,       \* "no run"
  None,        \* an absent date
  SlaHours,    \* hours allowed per priority, in the clock's unit
  DueSoon      \* length of the due-soon window, in the clock's unit

ASSUME RulesAssumption ==
  /\ Unassigned \notin Assignee
  /\ NoRun \notin Run
  /\ None \notin Nat
  /\ SlaHours \in [{"low", "medium", "high", "urgent"} -> Nat]
  /\ DueSoon \in Nat

-----------------------------------------------------------------------------
(* The vocabulary.                                                          *)

Status == {"open", "assigned", "in-progress", "pending-user", "resolved", "closed"}
Priority == {"low", "medium", "high", "urgent"}
PersonRole == {"admin", "technician", "user"}
Role == PersonRole \cup {"agent"}
Owner == Assignee \cup {Unassigned}
TriageSource == {"none", "agent", "human"}
ProposalStatus == {"none", "pending", "approved", "edited", "rejected", "posted"}
PatchField == {"text", "category", "status", "priority", "assignee", "dueAt"}

Terminal == {"resolved", "closed"}
SlaPaused == {"pending-user"}
AgentStatus == "pending-user"

(* What the agent has done with a ticket (the ticket's agent sub-document). *)
AgentState == [lastRunId : Run \cup {NoRun},
               triageSource : TriageSource,
               proposalStatus : ProposalStatus]
NoAgentState == [lastRunId |-> NoRun, triageSource |-> "none", proposalStatus |-> "none"]

(* A ticket document.  version is Mongoose's __v.  The two SLA markers are   *)
(* dates in the code; only whether they are set matters to a rule.  said is *)
(* the agent's latest entry in the ticket's history: an answer of its own   *)
(* (agent_posted) or a reply put to a person (agent_proposed).              *)
TicketDoc == [status : Status, priority : Priority, assignee : Owner,
              dueAt : Nat, resolvedAt : Nat \cup {None},
              slaAtRiskAt : BOOLEAN, slaBreachedAt : BOOLEAN,
              agent : AgentState, said : {"nothing", "answer", "draft"}, version : Nat]

-----------------------------------------------------------------------------
(* The workflow (domain/ticketWorkflow.ts).                                 *)

StatusTransitions ==
  ({"open"} \X {"assigned", "in-progress", "pending-user", "closed"})
  \cup ({"assigned"} \X {"in-progress", "pending-user", "open"})
  \cup ({"in-progress"} \X {"resolved", "pending-user", "assigned"})
  \cup ({"pending-user"} \X {"in-progress", "resolved", "closed"})
  \cup ({"resolved"} \X {"closed", "in-progress"})
  \cup ({"closed"} \X {"in-progress"})

AdminOnlyTransitions == {<<"closed", "in-progress">>}

TransitionAllowed(from, to, role) ==
  \/ from = to
  \/ /\ <<from, to>> \in StatusTransitions
     /\ role = "admin" \/ <<from, to>> \notin AdminOnlyTransitions

(* The status a reply moves the ticket to: waiting on the requester, unless *)
(* the table has no such move from here.                                    *)
StatusAfterReply(status) ==
  IF <<status, AgentStatus>> \in StatusTransitions THEN AgentStatus ELSE status

(* Who may send which patch (domain/permissions.ts).  The requester is the  *)
(* ticket's own: anybody else's edit is refused before anything is read.    *)
MayMutate(role, patch) ==
  CASE role = "agent" ->
         /\ DOMAIN patch \subseteq {"category", "priority", "assignee", "status"}
         /\ "status" \in DOMAIN patch => patch.status = AgentStatus
    [] role = "user" -> DOMAIN patch \subseteq {"text", "priority", "category"}
    [] OTHER -> TRUE

-----------------------------------------------------------------------------
(* The timestamps that follow from an edit (domain/sla.ts).                 *)

IsTerminal(status) == status \in Terminal
SlaRunning(status) == status \notin Terminal \cup SlaPaused
DueAtFor(priority) == SlaHours[priority]

FieldOf(patch, field, old) == IF field \in DOMAIN patch THEN patch[field] ELSE old

Resolves(t, patch) ==
  /\ "status" \in DOMAIN patch
  /\ IsTerminal(patch.status)
  /\ ~IsTerminal(t.status) \/ t.resolvedAt = None

Reopens(t, patch) ==
  /\ "status" \in DOMAIN patch
  /\ ~IsTerminal(patch.status)
  /\ IsTerminal(t.status)

NewTarget(t, patch) ==
  /\ "priority" \in DOMAIN patch
  /\ patch.priority # t.priority
  /\ "dueAt" \notin DOMAIN patch

-----------------------------------------------------------------------------
(* Who triaged the ticket last (domain/agentTicket.ts).                     *)

TouchesTriage(patch) == DOMAIN patch \cap {"category", "priority", "assignee"} # {}

(* (The first form is a mutant: see the README for how mutants are used.)   *)
WritesAgentStateIfAgent(agent, patch, role) == TouchesTriage(patch) /\ role = "agent"
WritesAgentState(agent, patch, role) ==
  /\ TouchesTriage(patch)
  /\ role = "agent" \/ agent.triageSource = "agent"

NextAgentState(agent, role, run) ==
  IF role = "agent"
  THEN [agent EXCEPT !.triageSource = "agent", !.lastRunId = run]
  ELSE [agent EXCEPT !.triageSource = "human"]

-----------------------------------------------------------------------------
(* The SLA job's plan for a ticket (domain/slaEscalation.ts).               *)

RaisedPriority(priority) ==
  CASE priority = "low" -> "medium"
    [] priority = "medium" -> "high"
    [] OTHER -> "urgent"

EscalationDue(t, at) ==
  CASE ~SlaRunning(t.status) -> "none"
    [] SlaRunning(t.status) /\ t.dueAt < at ->
         IF t.slaBreachedAt THEN "none" ELSE "breached"
    [] SlaRunning(t.status) /\ t.dueAt >= at /\ t.dueAt <= at + DueSoon ->
         IF t.slaAtRiskAt THEN "none" ELSE "at_risk"
    [] OTHER -> "none"

-----------------------------------------------------------------------------
(* History entries and outbox events, as sets: the order of what one write  *)
(* appends is not told apart.                                               *)

TrackedField == {"status", "priority", "assignee"}

Entry(field, from, to) == [field |-> field, from |-> from, to |-> to]

(* domain/activity.ts: one entry for each tracked field the patch replaces. *)
PatchEntries(before, patch) ==
  {Entry(f, before[f], patch[f]) :
     f \in {g \in TrackedField \cap DOMAIN patch : before[g] # patch[g]}}

(* One entry if the field really takes another value. *)
ChangeEntry(field, from, to) == IF from = to THEN {} ELSE {Entry(field, from, to)}

Event(type, from, to) == [type |-> type, from |-> from, to |-> to]

(* domain/outbox.ts: what an edit announces, by comparing two copies.  A     *)
(* ticket that becomes unassigned is not announced.                         *)
PatchEvents(before, after) ==
  (IF before.status = after.status THEN {}
   ELSE {Event("ticket.status_changed", before.status, after.status)})
  \cup
  (IF before.assignee = after.assignee \/ after.assignee = Unassigned THEN {}
   ELSE {Event("ticket.assigned", before.assignee, after.assignee)})

=============================================================================
