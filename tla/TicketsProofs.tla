--------------------------- MODULE TicketsProofs ---------------------------
(***************************************************************************)
(* Proofs about Tickets, for any number of requests, people, patches and   *)
(* runs and any bounds.                                                    *)
(***************************************************************************)
EXTENDS Tickets, TLAPS

-----------------------------------------------------------------------------
(* Every operator that computes a ticket returns one.                       *)

(* The empty patch and every patch of the instance hold values of the       *)
(* right kind in the fields they have (patchTicketSchema).                  *)
LEMMA PatchFields ==
  ASSUME NEW p \in Patch \cup {NoPatch}
  PROVE  /\ "status" \in DOMAIN p => p["status"] \in Status
         /\ "priority" \in DOMAIN p => p["priority"] \in Priority
         /\ "assignee" \in DOMAIN p => p["assignee"] \in Owner
         /\ "dueAt" \in DOMAIN p => p["dueAt"] \in Nat
<1>1. CASE p \in Patch
  BY <1>1, TicketsAssumption
<1>2. CASE p = NoPatch
  <2>1. DOMAIN p = {}
    BY <1>2 DEF NoPatch
  <2> QED
    BY <2>1
<1> QED
  BY <1>1, <1>2

(* A field of a patch, or the old value, is of the field's kind. *)
LEMMA FieldOfType ==
  ASSUME NEW p \in Patch \cup {NoPatch}
  PROVE  /\ \A s \in Status : FieldOf(p, "status", s) \in Status
         /\ \A s \in Priority : FieldOf(p, "priority", s) \in Priority
         /\ \A s \in Owner : FieldOf(p, "assignee", s) \in Owner
         /\ \A n \in Nat : FieldOf(p, "dueAt", n) \in Nat
  BY PatchFields DEF FieldOf

(* A deadline is an instant, a raised priority a priority, and the status   *)
(* after a reply a status.                                                  *)
LEMMA RuleTypes ==
  /\ \A p \in Priority : DueAtFor(p) \in Nat /\ RaisedPriority(p) \in Priority
  /\ \A s \in Status : StatusAfterReply(s) \in Status
  BY RulesAssumption DEF DueAtFor, Priority, RaisedPriority, StatusAfterReply, Status, AgentStatus

(* The ticket the model starts from is one, with nothing done by the agent. *)
LEMMA BlankType == BlankTicket \in TicketDoc /\ NoAgentState \in AgentState
<1>1. NoAgentState \in AgentState
  BY DEF NoAgentState, AgentState, TriageSource, ProposalStatus
<1>2. BlankTicket \in TicketDoc
  BY <1>1 DEF BlankTicket, TicketDoc, Status, Priority, Owner
<1> QED
  BY <1>1, <1>2

(* A new ticket is a ticket (createTicket). *)
LEMMA RaisedType ==
  ASSUME now \in Nat, NEW role \in Role, NEW fields \in Patch \cup {NoPatch}
  PROVE  Raised(role, fields) \in TicketDoc
<1> DEFINE status == IF role = "user" THEN "open" ELSE FieldOf(fields, "status", "open")
           priority == FieldOf(fields, "priority", "medium")
           owner == IF role = "user" THEN Unassigned
                    ELSE FieldOf(fields, "assignee", Unassigned)
<1>1. status \in Status /\ priority \in Priority /\ owner \in Owner
  BY FieldOfType DEF Status, Priority, Owner
<1>2. DueAtFor(priority) \in Nat
  BY <1>1, RuleTypes
<1>3. FieldOf(fields, "dueAt", DueAtFor(priority)) \in Nat
  BY <1>2, FieldOfType
<1> HIDE DEF status, priority, owner
<1>4. (IF IsTerminal(status) THEN now ELSE None) \in Nat \cup {None}
  OBVIOUS
<1>5. Raised(role, fields) =
        [BlankTicket EXCEPT !.status = status, !.priority = priority, !.assignee = owner,
                            !.dueAt = FieldOf(fields, "dueAt", DueAtFor(priority)),
                            !.resolvedAt = IF IsTerminal(status) THEN now ELSE None]
  BY DEF Raised, status, priority, owner
<1> QED
  BY <1>1, <1>3, <1>4, <1>5, BlankType DEF TicketDoc

(* An edited ticket is a ticket (updateTicket). *)
LEMMA PatchedType ==
  ASSUME NEW t \in TicketDoc, NEW k \in Call
  PROVE  Patched(t, k) \in TicketDoc
<1>1. k.patch \in Patch \cup {NoPatch} /\ k.copy \in TicketDoc /\ k.at \in Nat
      /\ k.run \in Run \cup {NoRun} /\ k.role \in Role
  BY DEF Call
<1>2. /\ t.status \in Status /\ t.priority \in Priority /\ t.assignee \in Owner
      /\ t.dueAt \in Nat /\ t.resolvedAt \in Nat \cup {None} /\ t.agent \in AgentState
      /\ t.version \in Nat /\ t.slaAtRiskAt \in BOOLEAN /\ t.slaBreachedAt \in BOOLEAN
  BY DEF TicketDoc
<1>3. /\ FieldOf(k.patch, "status", t.status) \in Status
      /\ FieldOf(k.patch, "priority", t.priority) \in Priority
      /\ FieldOf(k.patch, "assignee", t.assignee) \in Owner
      /\ FieldOf(k.patch, "dueAt", t.dueAt) \in Nat
  BY <1>1, <1>2, FieldOfType
<1> DEFINE status == FieldOf(k.patch, "status", t.status)
           priority == FieldOf(k.patch, "priority", t.priority)
           owner == FieldOf(k.patch, "assignee", t.assignee)
           due == IF NewTarget(k.copy, k.patch) THEN DueAtFor(k.patch.priority)
                  ELSE FieldOf(k.patch, "dueAt", t.dueAt)
           resolved == CASE Resolves(k.copy, k.patch) -> k.at
                         [] Reopens(k.copy, k.patch) -> None
                         [] OTHER -> t.resolvedAt
           agent == IF WritesAgentState(k.copy.agent, k.patch, k.role)
                    THEN NextAgentState(k.copy.agent, k.role, k.run) ELSE t.agent
           version == t.version + 1
<1>4. due \in Nat
  BY <1>1, <1>3, PatchFields, RuleTypes DEF NewTarget
<1>5. resolved \in Nat \cup {None}
  BY <1>1, <1>2
<1>6. agent \in AgentState
  BY <1>1, <1>2 DEF NextAgentState, AgentState, TicketDoc, TriageSource
<1>7. version \in Nat
  BY <1>2
<1>8. status \in Status /\ priority \in Priority /\ owner \in Owner
  BY <1>3
<1> HIDE DEF status, priority, owner, due, resolved, agent, version
<1>9. Patched(t, k) = [t EXCEPT !.status = status, !.priority = priority, !.assignee = owner,
                                !.dueAt = due, !.resolvedAt = resolved, !.agent = agent,
                                !.version = version]
  BY DEF Patched, status, priority, owner, due, resolved, agent, version, TicketDoc
<1> QED
  BY <1>4, <1>5, <1>6, <1>7, <1>8, <1>9 DEF TicketDoc

(* A resumed, marked, handed over, answered or approved ticket is a ticket. *)
LEMMA ResumedType ==
  ASSUME NEW t \in TicketDoc
  PROVE  Resumed(t) \in TicketDoc
<1> DEFINE version == t.version + 1
<1>1. version \in Nat /\ "in-progress" \in Status
  BY DEF TicketDoc, Status
<1>2. Resumed(t) = [t EXCEPT !.status = "in-progress", !.version = version]
  BY DEF Resumed, TicketDoc
<1> HIDE DEF version
<1> QED
  BY <1>1, <1>2 DEF TicketDoc

(* A marker and a raised priority make a document of a document.            *)
LEMMA MarkedType ==
  ASSUME NEW t \in TicketDoc, NEW k \in Call
  PROVE  Marked(t, k) \in TicketDoc
<1>1. k.copy.priority \in Priority
  BY DEF Call, TicketDoc
<1> DEFINE priority == RaisedPriority(k.copy.priority)
           version == t.version + 1
<1>2. priority \in Priority /\ version \in Nat
  BY <1>1, RuleTypes DEF TicketDoc
<1>3. Marked(t, k) = IF EscalationDue(k.copy, k.at) = "breached"
                     THEN [t EXCEPT !.slaBreachedAt = TRUE, !.priority = priority,
                                    !.version = version]
                     ELSE [t EXCEPT !.slaAtRiskAt = TRUE, !.version = version]
  BY DEF Marked, TicketDoc
<1> HIDE DEF priority, version
<1>4. [t EXCEPT !.slaBreachedAt = TRUE, !.priority = priority, !.version = version]
        \in TicketDoc
  BY <1>2 DEF TicketDoc
<1>5. [t EXCEPT !.slaAtRiskAt = TRUE, !.version = version] \in TicketDoc
  BY <1>2 DEF TicketDoc
<1> QED
  BY <1>3, <1>4, <1>5

(* So does a hand-over.                                                     *)
LEMMA EscalatedType ==
  ASSUME NEW t \in TicketDoc, NEW k \in Call, NEW group \in Group
  PROVE  Escalated(t, k, group) \in TicketDoc
<1> DEFINE status == IF k.copy.status = "open" THEN "assigned" ELSE k.copy.status
           agent == [k.copy.agent EXCEPT !.triageSource = "agent", !.lastRunId = k.run]
           version == t.version + 1
<1>1. k.copy \in TicketDoc /\ group \in Owner /\ k.run \in Run \cup {NoRun}
  BY TicketsAssumption DEF Call, Owner
<1>2. status \in Status
  BY <1>1 DEF TicketDoc, Status
<1>3. agent \in AgentState
  BY <1>1 DEF TicketDoc, AgentState, TriageSource
<1>4. version \in Nat
  BY DEF TicketDoc
<1> HIDE DEF status, agent, version
<1>5. Escalated(t, k, group) = [t EXCEPT !.assignee = group, !.status = status,
                                         !.agent = agent, !.version = version]
  BY DEF Escalated, status, agent, version, TicketDoc
<1> QED
  BY <1>1, <1>2, <1>3, <1>4, <1>5 DEF TicketDoc

(* So does the agent's own answer.                                          *)
LEMMA AnsweredType ==
  ASSUME NEW t \in TicketDoc, NEW k \in Call
  PROVE  Answered(t, k) \in TicketDoc
<1> DEFINE status == StatusAfterReply(k.copy.status)
           agent == [k.copy.agent EXCEPT !.triageSource = "agent", !.lastRunId = k.run,
                                         !.proposalStatus = "posted"]
           version == t.version + 1
<1>1. k.copy \in TicketDoc /\ k.run \in Run \cup {NoRun}
  BY DEF Call
<1>2. status \in Status
  BY <1>1, RuleTypes DEF TicketDoc
<1>3. agent \in AgentState
  BY <1>1 DEF TicketDoc, AgentState, TriageSource, ProposalStatus
<1>4. version \in Nat
  BY DEF TicketDoc
<1> HIDE DEF status, agent, version
<1>5. Answered(t, k) = [t EXCEPT !.status = status, !.agent = agent, !.said = "answer",
                                 !.version = version]
  BY DEF Answered, status, agent, version, TicketDoc
<1> QED
  BY <1>2, <1>3, <1>4, <1>5 DEF TicketDoc

(* Writing where the proposal stands, and nothing else. *)
LEMMA ProposalSetType ==
  ASSUME NEW t \in TicketDoc, NEW decision \in ProposalStatus
  PROVE  [t EXCEPT !.agent.proposalStatus = decision] \in TicketDoc
  BY DEF TicketDoc, AgentState

(* A recorded proposal changes where the proposal stands, whose it is and   *)
(* what the agent said last, and nothing else (setProposalPending).         *)
LEMMA ProposedFields ==
  ASSUME NEW t \in TicketDoc, NEW r \in Run
  PROVE  LET u == Proposed(t, r) IN
         /\ u \in TicketDoc
         /\ u.status = t.status /\ u.priority = t.priority /\ u.assignee = t.assignee
         /\ u.dueAt = t.dueAt /\ u.resolvedAt = t.resolvedAt
         /\ u.slaAtRiskAt = t.slaAtRiskAt /\ u.slaBreachedAt = t.slaBreachedAt
         /\ u.version = t.version
         /\ u.agent.triageSource = t.agent.triageSource
         /\ u.agent.proposalStatus = "pending" /\ u.said = "draft"
<1> DEFINE agent == [t.agent EXCEPT !.lastRunId = r, !.proposalStatus = "pending"]
<1>1. /\ agent \in AgentState /\ agent.triageSource = t.agent.triageSource
      /\ agent.proposalStatus = "pending"
  BY DEF TicketDoc, AgentState, ProposalStatus
<1>2. Proposed(t, r) = [t EXCEPT !.agent = agent, !.said = "draft"]
  BY DEF Proposed, TicketDoc
<1> HIDE DEF agent
<1> QED
  BY <1>1, <1>2 DEF TicketDoc

(* So does a decision.                                                      *)
LEMMA ApprovedType ==
  ASSUME NEW t \in TicketDoc, NEW k \in Call, NEW decision \in ProposalStatus
  PROVE  Approved(t, k, decision) \in TicketDoc
<1> DEFINE status == StatusAfterReply(k.copy.status)
           agent == [t.agent EXCEPT !.proposalStatus = decision]
           moved == IF status = k.copy.status THEN t.status ELSE status
           version == IF status = k.copy.status THEN t.version ELSE t.version + 1
<1>1. status \in Status
  BY RuleTypes DEF Call, TicketDoc
<1>2. agent \in AgentState
  BY DEF TicketDoc, AgentState
<1>3. moved \in Status /\ version \in Nat
  BY <1>1 DEF TicketDoc
<1>4. Approved(t, k, decision) =
        [t EXCEPT !.agent = agent, !.status = moved, !.version = version]
  BY DEF Approved, TicketDoc
<1> HIDE DEF status, agent, moved, version
<1> QED
  BY <1>2, <1>3, <1>4 DEF TicketDoc

(* Nothing in progress is a request in progress. *)
LEMMA IdleType == Idle \in Call
<1>1. NoRun \in Run \cup {NoRun} /\ NoPatch \in Patch \cup {NoPatch}
      /\ AnyVersion \in Nat \cup {AnyVersion}
  OBVIOUS
<1> QED
  BY <1>1, BlankType DEF Idle, Call, CallOp, Role, PersonRole, CommentKind

-----------------------------------------------------------------------------
(* Type correctness.                                                        *)

(* Entering a call that is one, and leaving, keep the calls' type. *)
LEMMA EnterType ==
  ASSUME call \in [Caller -> Call], NEW c \in Caller, NEW k \in Call,
         call' = [call EXCEPT ![c] = k]
  PROVE  call' \in [Caller -> Call]
  OBVIOUS

(* A caller that leaves is idle.                                            *)
LEMMA LeaveType ==
  ASSUME call \in [Caller -> Call], NEW c \in Caller, Leave(c)
  PROVE  call' \in [Caller -> Call]
  BY IdleType DEF Leave

(* One comment more of a kind, or none of what is not a kind. *)
LEMMA CountedType ==
  ASSUME comments \in [CommentKind -> Nat], NEW kind
  PROVE  [comments EXCEPT ![kind] = @ + 1] \in [CommentKind -> Nat]
<1>1. CASE kind \in CommentKind
  BY <1>1
<1>2. CASE kind \notin CommentKind
  BY <1>2
<1> QED
  BY <1>1, <1>2

(* A request starts with what it read; a retry keeps the rest of the call.  *)
LEMMA StartedType ==
  ASSUME NEW op \in CallOp, NEW role \in Role, NEW run \in Run \cup {NoRun},
         NEW patch \in Patch \cup {NoPatch}, NEW expected \in Nat \cup {AnyVersion},
         NEW kind \in CommentKind, NEW copy \in TicketDoc, NEW at \in Nat,
         NEW attempt \in Nat \ {0}
  PROVE  [Idle EXCEPT !.op = op, !.role = role, !.run = run, !.patch = patch,
                      !.expected = expected, !.kind = kind, !.copy = copy, !.at = at,
                      !.attempt = attempt] \in Call
  BY IdleType DEF Call

(* A caller that tries again has a fresh copy and one more attempt.         *)
LEMMA RetriedType ==
  ASSUME NEW k \in Call, NEW copy \in TicketDoc, NEW at \in Nat
  PROVE  [k EXCEPT !.copy = copy, !.at = at, !.attempt = k.attempt + 1] \in Call
<1> DEFINE attempt == k.attempt + 1
<1>1. attempt \in Nat \ {0}
  BY DEF Call
<1>2. [k EXCEPT !.copy = copy, !.at = at, !.attempt = k.attempt + 1]
        = [k EXCEPT !.copy = copy, !.at = at, !.attempt = attempt]
  OBVIOUS
<1> HIDE DEF attempt
<1>3. [k EXCEPT !.copy = copy, !.at = at, !.attempt = attempt] \in Call
  BY <1>1 DEF Call
<1> QED
  BY <1>2, <1>3, Zenon

(* A job that asks for its next batch, or stops, stays well formed.         *)
LEMMA NextBatchType ==
  ASSUME call \in [Caller -> Call], NEW c \in Caller, NextBatch(c)
  PROVE  call' \in [Caller -> Call]
<1> DEFINE at == call[c].at
           attempt == call[c].attempt + 1
<1>1. at \in Nat /\ attempt \in Nat \ {0}
  BY DEF Call
<1>2. CASE call[c].attempt < MaxBatches
  <2>1. call' = [call EXCEPT ![c] = [Idle EXCEPT !.op = "sla", !.at = at, !.attempt = attempt]]
    BY <1>2 DEF NextBatch, Enter
  <2> HIDE DEF at, attempt
  <2>2. [Idle EXCEPT !.op = "sla", !.at = at, !.attempt = attempt] \in Call
    BY <1>1, IdleType DEF Call, CallOp
  <2> QED
    BY <2>1, <2>2, EnterType
<1>3. CASE ~(call[c].attempt < MaxBatches)
  BY <1>3, LeaveType DEF NextBatch
<1> QED
  BY <1>2, <1>3

(* Each step keeps the types; the actions that write the document rest on   *)
(* the lemmas above.                                                        *)
THEOREM TypeStep == TypeOK /\ [Next]_vars => TypeOK'
<1> SUFFICES ASSUME TypeOK, [Next]_vars PROVE TypeOK'
  OBVIOUS
<1> USE DEF TypeOK
<1>1. CASE CreateTicket
  <2>1. PICK role \in StaffRole \cup {"user"}, fields \in Patch \cup {NoPatch} :
          ticket' = Raised(role, fields)
    BY <1>1 DEF CreateTicket
  <2>2. role \in Role
    BY TicketsAssumption DEF Role, PersonRole
  <2>3. ticket' \in TicketDoc
    BY <2>1, <2>2, RaisedType
  <2> QED
    BY <1>1, <2>3 DEF CreateTicket
<1>2. ASSUME NEW c \in Caller, CallStep(c) PROVE TypeOK'
  <2> DEFINE k == call[c]
  <2>0. /\ k \in Call /\ k.copy \in TicketDoc /\ k.kind \in CommentKind
        /\ k.run \in Run \cup {NoRun}
    BY DEF Call
  <2>1. CASE StartPatch(c)
    <3>1. PICK role \in StaffRole \cup {"user", "agent"}, run \in Run \cup {NoRun},
               patch \in Patch, expected \in 0..ticket.version \cup {AnyVersion} :
            Enter(c, [Idle EXCEPT !.op = "patch", !.role = role, !.run = run, !.patch = patch,
                                  !.expected = expected, !.copy = ticket, !.at = now])
      BY ONLY <2>1, Zenon DEF StartPatch
    <3>2. role \in Role /\ expected \in Nat \cup {AnyVersion}
      BY TicketsAssumption DEF Role, PersonRole, TicketDoc
    <3>3. [Idle EXCEPT !.op = "patch", !.role = role, !.run = run, !.patch = patch,
                       !.expected = expected, !.copy = ticket, !.at = now] \in Call
      BY <3>2, IdleType DEF Call, CallOp
    <3> QED
      BY <2>1, <3>1, <3>3, EnterType DEF StartPatch, Enter
  <2>2. CASE CommitPatch(c)
    BY <2>0, <2>2, PatchedType, LeaveType DEF CommitPatch
  <2>3. CASE LosePatch(c) \/ LoseAgentWrite(c)
    <3>1. \/ call' = [call EXCEPT ![c] = [k EXCEPT !.copy = ticket, !.at = now,
                                                  !.attempt = k.attempt + 1]]
          \/ Leave(c)
      BY <2>3 DEF LosePatch, LoseAgentWrite, Enter
    <3>2. call' \in [Caller -> Call]
      BY <2>0, <3>1, RetriedType, EnterType, LeaveType
    <3> QED
      BY <2>3, <3>2 DEF LosePatch, LoseAgentWrite
  <2>4. CASE StartComment(c)
    <3>1. PICK role \in StaffRole \cup {"user"}, kind \in {"public", "internal"} :
            call' = [call EXCEPT ![c] =
                      [Idle EXCEPT !.op = "comment", !.role = role, !.kind = kind,
                                   !.copy = ticket, !.at = now]]
      BY <2>4 DEF StartComment, Enter
    <3>2. role \in Role /\ kind \in CommentKind
      BY TicketsAssumption DEF Role, PersonRole, CommentKind
    <3>3. [Idle EXCEPT !.op = "comment", !.role = role, !.kind = kind,
                       !.copy = ticket, !.at = now] \in Call
      BY <3>2, IdleType DEF Call, CallOp
    <3> QED
      BY <2>4, <3>1, <3>3, EnterType DEF StartComment
  <2>5. CASE CommitComment(c)
    <3>1. ticket' \in TicketDoc
      BY <2>5, ResumedType DEF CommitComment
    <3>2. comments' \in [CommentKind -> Nat]
      BY <2>0, <2>5 DEF CommitComment
    <3> QED
      BY <2>5, <3>1, <3>2, LeaveType DEF CommitComment
  <2>6. CASE StartSla(c)
    <3>1. [Idle EXCEPT !.op = "sla", !.at = now] \in Call
      BY IdleType DEF Call, CallOp
    <3> QED
      BY <2>6, <3>1, EnterType DEF StartSla, Enter
  <2>7. CASE QuerySla(c)
    <3>1. [k EXCEPT !.op = "slaWrite", !.copy = ticket] \in Call
      BY <2>0 DEF Call, CallOp
    <3>2. call' \in [Caller -> Call]
      BY <2>7, <3>1, EnterType, LeaveType, NextBatchType DEF QuerySla, Enter
    <3> QED
      BY <2>7, <3>2 DEF QuerySla
  <2>8. CASE CommitSla(c) \/ MissSla(c)
    <3>1. call' \in [Caller -> Call]
      BY <2>8, LeaveType, NextBatchType DEF CommitSla, MissSla
    <3>2. ticket' \in TicketDoc
      BY <2>0, <2>8, MarkedType DEF CommitSla, MissSla
    <3> QED
      BY <2>8, <3>1, <3>2 DEF CommitSla, MissSla
  <2>9. CASE DeleteTicket(c)
    <3>1. [Idle EXCEPT !.op = "purge"] \in Call
      BY IdleType DEF Call, CallOp
    <3> QED
      BY <2>9, <3>1, EnterType DEF DeleteTicket, Enter
  <2>10. CASE PurgeComments(c)
    BY <2>10, LeaveType DEF PurgeComments
  <2>11. CASE StartAgentWrite(c)
    <3>1. PICK op \in {"escalate", "resolve"}, run \in Run :
            call' = [call EXCEPT ![c] =
                      [Idle EXCEPT !.op = op, !.role = "agent", !.run = run,
                                   !.copy = ticket, !.at = now]]
      BY <2>11 DEF StartAgentWrite, Enter
    <3>2. [Idle EXCEPT !.op = op, !.role = "agent", !.run = run,
                       !.copy = ticket, !.at = now] \in Call
      BY IdleType DEF Call, CallOp, Role
    <3> QED
      BY <2>11, <3>1, <3>2, EnterType DEF StartAgentWrite
  <2>12. CASE CommitEscalate(c)
    <3>1. PICK group \in Group : ticket' = Escalated(ticket, k, group)
      BY <2>12 DEF CommitEscalate
    <3>2. ticket' \in TicketDoc
      BY <2>0, <3>1, EscalatedType
    <3>3. comments' \in [CommentKind -> Nat]
      BY <2>12 DEF CommitEscalate, CommentKind
    <3> QED
      BY <2>12, <3>2, <3>3, LeaveType DEF CommitEscalate
  <2>13. CASE CommitResolve(c)
    <3>1. ticket' \in TicketDoc
      BY <2>0, <2>13, AnsweredType DEF CommitResolve
    <3>2. comments' \in [CommentKind -> Nat]
      BY <2>13, CountedType DEF CommitResolve
    <3> QED
      BY <2>13, <3>1, <3>2, LeaveType DEF CommitResolve
  <2>14. CASE StartDecision(c)
    <3>1. PICK role \in StaffRole :
            call' = [call EXCEPT ![c] = [Idle EXCEPT !.op = "load", !.role = role,
                                                     !.copy = ticket, !.at = now]]
      BY <2>14 DEF StartDecision, Enter
    <3>2. role \in Role
      BY TicketsAssumption DEF Role, PersonRole
    <3>3. [Idle EXCEPT !.op = "load", !.role = role, !.copy = ticket, !.at = now] \in Call
      BY <3>2, IdleType DEF Call, CallOp
    <3> QED
      BY <2>14, <3>1, <3>3, EnterType DEF StartDecision
  <2>15. CASE LoadProposal(c)
    <3> DEFINE run == k.copy.agent.lastRunId
    <3>1. \A op \in {"approve", "reject"} : [k EXCEPT !.op = op, !.run = run] \in Call
      BY <2>0 DEF Call, CallOp, TicketDoc, AgentState
    <3>2. call' \in [Caller -> Call]
      <4>1. CASE run \in Run /\ runs[run].state = "proposed"
        <5>1. PICK op \in {"approve", "reject"} :
                call' = [call EXCEPT ![c] = [k EXCEPT !.op = op, !.run = run]]
          BY <2>15, <4>1 DEF LoadProposal, Enter
        <5> HIDE DEF run, k
        <5> QED
          BY <3>1, <5>1, EnterType
      <4>2. CASE ~(run \in Run /\ runs[run].state = "proposed")
        BY <2>15, <4>2, LeaveType DEF LoadProposal
      <4> QED
        BY <4>1, <4>2
    <3> QED
      BY <2>15, <3>2 DEF LoadProposal
  <2>16. CASE CommitApprove(c)
    <3>1. PICK decision \in {"approved", "edited"} : ticket' = Approved(ticket, k, decision)
      BY <2>16 DEF CommitApprove
    <3>2. ticket' \in TicketDoc
      BY <2>0, <3>1, ApprovedType DEF ProposalStatus
    <3>3. comments' \in [CommentKind -> Nat]
      BY <2>16, CountedType DEF CommitApprove
    <3> QED
      BY <2>16, <3>2, <3>3, LeaveType DEF CommitApprove
  <2>17. CASE CommitReject(c)
    <3>1. ticket' \in TicketDoc
      BY <2>17, ProposalSetType DEF CommitReject, ProposalStatus
    <3> QED
      BY <2>17, <3>1, LeaveType DEF CommitReject
  <2>18. CASE MissDecision(c) \/ CrashCall(c)
    BY <2>18, LeaveType DEF MissDecision, CrashCall
  <2> QED
    BY <1>2, <2>1, <2>2, <2>3, <2>4, <2>5, <2>6, <2>7, <2>8, <2>9, <2>10, <2>11, <2>12,
       <2>13, <2>14, <2>15, <2>16, <2>17, <2>18 DEF CallStep, Progress
<1>3. ASSUME NEW r \in Run, RunStep(r) PROVE TypeOK'
  <2>1. CASE BeginRun(r)
    <3> DEFINE begun == [state |-> "running", version |-> ticket.version]
    <3>1. begun \in [state : RunState, version : Nat]
      BY DEF RunState, TicketDoc
    <3>2. runs' = [runs EXCEPT ![r] = begun]
      BY <2>1 DEF BeginRun
    <3> HIDE DEF begun
    <3> QED
      BY <2>1, <3>1, <3>2 DEF BeginRun
  <2>2. ASSUME NEW state \in RunState, SetRun(r, state)
        PROVE  runs' \in [Run -> [state : RunState, version : Nat]]
    BY <2>2 DEF SetRun
  <2>3. CASE RecordProposal(r)
    <3>1. ticket' \in TicketDoc
      BY <2>3, ProposedFields DEF RecordProposal
    <3> QED
      BY <2>2, <2>3, <3>1 DEF RecordProposal, RunState
  <2>4. CASE FinishRun(r)
    BY <2>2, <2>4 DEF FinishRun, RunState
  <2>5. CASE CrashRun(r)
    BY <2>2, <2>5 DEF CrashRun, RunState
  <2> QED
    BY <1>3, <2>1, <2>3, <2>4, <2>5 DEF RunStep
<1>4. CASE Tick
  BY <1>4 DEF Tick
<1>5. CASE UNCHANGED vars
  BY <1>5 DEF vars
<1> QED
  BY <1>1, <1>2, <1>3, <1>4, <1>5 DEF Next

(* Every variable keeps its type in every behaviour. *)
THEOREM TypeCorrect == Spec => []TypeOK
<1>1. Init => TypeOK
  BY BlankType, IdleType DEF Init, TypeOK, RunState
<1> QED
  BY <1>1, TypeStep, PTL DEF Spec

-----------------------------------------------------------------------------
(* A version names one content.                                             *)

(* What each step does to versions: the ticket's never falls, and stands    *)
(* only while the content does; a copy an edit rests on is the one it had,  *)
(* or the ticket as it is.  Creation is apart: it makes the first version.  *)
Steady ==
  /\ ticket'.version >= ticket.version
  /\ ticket'.version = ticket.version => Content(ticket') = Content(ticket)
FreshCopies ==
  \A c \in Caller : call'[c].op \in Versioned =>
    \/ call'[c] = call[c]
    \/ ticket' = ticket /\ call'[c].copy = ticket

(* Only a ticket that exists has requests. *)
UnbornQuiet == life = "unborn" => \A c \in Caller : call[c] = Idle

(* Two tickets with the same fields have the same content. *)
LEMMA SameContent ==
  ASSUME NEW t \in TicketDoc, NEW u \in TicketDoc,
         t.status = u.status, t.priority = u.priority, t.assignee = u.assignee,
         t.dueAt = u.dueAt, t.resolvedAt = u.resolvedAt, t.slaAtRiskAt = u.slaAtRiskAt,
         t.slaBreachedAt = u.slaBreachedAt, t.agent.triageSource = u.agent.triageSource
  PROVE  Content(t) = Content(u)
  BY DEF Content

(* Where the proposal stands is no part of the content. *)
LEMMA ProposalKeepsContent ==
  ASSUME NEW t \in TicketDoc, NEW decision \in ProposalStatus
  PROVE  LET u == [t EXCEPT !.agent.proposalStatus = decision]
         IN  Content(u) = Content(t) /\ u.version = t.version
<1> DEFINE u == [t EXCEPT !.agent.proposalStatus = decision]
<1>1. u \in TicketDoc
  BY ProposalSetType
<1>2. /\ u.status = t.status /\ u.priority = t.priority /\ u.assignee = t.assignee
      /\ u.dueAt = t.dueAt /\ u.resolvedAt = t.resolvedAt
      /\ u.slaAtRiskAt = t.slaAtRiskAt /\ u.slaBreachedAt = t.slaBreachedAt
      /\ u.version = t.version
  BY DEF TicketDoc
<1>3. u.agent.triageSource = t.agent.triageSource
  BY DEF TicketDoc, AgentState
<1> HIDE DEF u
<1>4. Content(u) = Content(t) /\ u.version = t.version
  BY <1>1, <1>2, <1>3, SameContent
<1> QED
  BY <1>4 DEF u

(* Every writer but two makes a version; the decision makes one if it moves *)
(* the ticket, and recordProposal writes no content.                        *)
LEMMA VersionSteady ==
  ASSUME TypeOK, [Next]_vars
  PROVE  CreateTicket \/ Steady
<1>1. ASSUME ticket' = ticket PROVE Steady
  BY <1>1 DEF Steady, TypeOK, TicketDoc
<1>2. ASSUME ticket'.version = ticket.version + 1 PROVE Steady
  BY <1>2 DEF Steady, TypeOK, TicketDoc
<1>3. ASSUME ticket'.version = ticket.version, Content(ticket') = Content(ticket) PROVE Steady
  BY <1>3 DEF Steady, TypeOK, TicketDoc
<1>4. ASSUME NEW c \in Caller, CallStep(c) PROVE Steady
  <2>1. CASE CommitPatch(c)
    BY <1>2, <2>1 DEF CommitPatch, Patched, TypeOK, TicketDoc
  <2>2. CASE CommitComment(c)
    BY <1>1, <1>2, <2>2 DEF CommitComment, Resumed, TypeOK, TicketDoc
  <2>3. CASE CommitSla(c)
    BY <1>2, <2>3 DEF CommitSla, Marked, TypeOK, TicketDoc
  <2>4. CASE CommitEscalate(c)
    BY <1>2, <2>4 DEF CommitEscalate, Escalated, TypeOK, TicketDoc
  <2>5. CASE CommitResolve(c)
    BY <1>2, <2>5 DEF CommitResolve, Answered, TypeOK, TicketDoc
  <2>6. CASE CommitApprove(c)
    <3>1. PICK decision \in {"approved", "edited"} :
            ticket' = Approved(ticket, call[c], decision)
      BY <2>6 DEF CommitApprove
    <3>2. CASE StatusAfterReply(call[c].copy.status) = call[c].copy.status
      <4>1. ticket' = [ticket EXCEPT !.agent.proposalStatus = decision]
        BY <3>1, <3>2 DEF Approved, TypeOK, TicketDoc
      <4> QED
        BY <1>3, <4>1, ProposalKeepsContent DEF TypeOK, ProposalStatus
    <3>3. CASE StatusAfterReply(call[c].copy.status) # call[c].copy.status
      BY <1>2, <3>1, <3>3 DEF Approved, TypeOK, TicketDoc
    <3> QED
      BY <3>2, <3>3
  <2>7. CASE CommitReject(c)
    BY <1>3, <2>7, ProposalKeepsContent DEF CommitReject, TypeOK, ProposalStatus
  <2>8. CASE UNCHANGED ticket
    BY <1>1, <2>8
  <2> QED
    BY <1>4, <2>1, <2>2, <2>3, <2>4, <2>5, <2>6, <2>7, <2>8
       DEF CallStep, Progress, StartPatch, LosePatch, StartComment, StartSla, QuerySla,
           MissSla, DeleteTicket, PurgeComments, StartAgentWrite, LoseAgentWrite,
           StartDecision, LoadProposal, MissDecision, CrashCall
<1>5. ASSUME NEW r \in Run, RunStep(r) PROVE Steady
  <2>1. CASE RecordProposal(r)
    <3>1. ticket \in TicketDoc
      BY DEF TypeOK
    <3>2. ticket' = Proposed(ticket, r) \/ ticket' = ticket
      BY <2>1 DEF RecordProposal
    <3>3. CASE ticket' = Proposed(ticket, r)
      <4>1. ticket' \in TicketDoc /\ Content(ticket') = Content(ticket)
        BY <3>1, <3>3, ProposedFields, SameContent
      <4> QED
        BY <1>3, <3>1, <3>3, <4>1, ProposedFields
    <3> QED
      BY <1>1, <3>2, <3>3
  <2>2. CASE UNCHANGED ticket
    BY <1>1, <2>2
  <2> QED
    BY <1>5, <2>1, <2>2 DEF RunStep, BeginRun, FinishRun, CrashRun
<1>6. CASE Tick \/ UNCHANGED vars
  BY <1>1, <1>6 DEF Tick, vars
<1> QED
  BY <1>4, <1>5, <1>6 DEF Next

(* A copy an edit rests on was taken from the ticket, or kept. *)
LEMMA CopiesFresh ==
  ASSUME TypeOK, [Next]_vars
  PROVE  FreshCopies
<1>1. ASSUME NEW c \in Caller, CallStep(c) PROVE FreshCopies
  <2>1. ASSUME NEW k, Enter(c, k), k.op \notin Versioned PROVE FreshCopies
    BY <2>1 DEF Enter, FreshCopies, TypeOK
  <2>2. ASSUME NEW k, Enter(c, k), k.copy = ticket, ticket' = ticket PROVE FreshCopies
    BY <2>2 DEF Enter, FreshCopies, TypeOK
  <2>3. ASSUME Leave(c) PROVE FreshCopies
    <3>1. Idle.op \notin Versioned
      BY DEF Idle, Versioned
    <3> QED
      BY <2>3, <3>1 DEF Leave, FreshCopies, TypeOK
  <2>4. ASSUME NextBatch(c) PROVE FreshCopies
    <3>1. [Idle EXCEPT !.op = "sla", !.at = call[c].at, !.attempt = call[c].attempt + 1].op
            \notin Versioned
      BY DEF Idle, Versioned
    <3> QED
      BY <2>1, <2>3, <2>4, <3>1 DEF NextBatch
  <2>5. CASE StartPatch(c)
    <3>1. PICK role \in StaffRole \cup {"user", "agent"}, run \in Run \cup {NoRun},
               patch \in Patch, expected \in 0..ticket.version \cup {AnyVersion} :
            Enter(c, [Idle EXCEPT !.op = "patch", !.role = role, !.run = run, !.patch = patch,
                                  !.expected = expected, !.copy = ticket, !.at = now])
      BY ONLY <2>5, Zenon DEF StartPatch
    <3>2. [Idle EXCEPT !.op = "patch", !.role = role, !.run = run, !.patch = patch,
                       !.expected = expected, !.copy = ticket, !.at = now].copy = ticket
      BY DEF Idle
    <3>3. ticket' = ticket
      BY <2>5 DEF StartPatch
    <3> QED
      BY ONLY <2>2, <3>1, <3>2, <3>3
  <2>6. CASE StartAgentWrite(c)
    <3>1. PICK op \in {"escalate", "resolve"}, run \in Run :
            Enter(c, [Idle EXCEPT !.op = op, !.role = "agent", !.run = run,
                                  !.copy = ticket, !.at = now])
      BY ONLY <2>6, Zenon DEF StartAgentWrite
    <3>2. [Idle EXCEPT !.op = op, !.role = "agent", !.run = run,
                       !.copy = ticket, !.at = now].copy = ticket
      BY DEF Idle
    <3>3. ticket' = ticket
      BY <2>6 DEF StartAgentWrite
    <3> QED
      BY ONLY <2>2, <3>1, <3>2, <3>3
  <2>7. CASE LosePatch(c) \/ LoseAgentWrite(c)
    <3>1. \/ Enter(c, [call[c] EXCEPT !.copy = ticket, !.at = now, !.attempt = @ + 1])
          \/ Leave(c)
      BY <2>7 DEF LosePatch, LoseAgentWrite
    <3>2. [call[c] EXCEPT !.copy = ticket, !.at = now, !.attempt = @ + 1].copy = ticket
      BY DEF TypeOK, Call
    <3>3. ticket' = ticket
      BY <2>7 DEF LosePatch, LoseAgentWrite
    <3> QED
      BY ONLY <2>2, <2>3, <3>1, <3>2, <3>3
  <2>8. CASE StartComment(c)
    <3>1. PICK role \in StaffRole \cup {"user"}, kind \in {"public", "internal"} :
            Enter(c, [Idle EXCEPT !.op = "comment", !.role = role, !.kind = kind,
                                  !.copy = ticket, !.at = now])
      BY <2>8 DEF StartComment
    <3>2. [Idle EXCEPT !.op = "comment", !.role = role, !.kind = kind,
                       !.copy = ticket, !.at = now].op \notin Versioned
      BY DEF Idle, Versioned
    <3> QED
      BY ONLY <2>1, <3>1, <3>2
  <2>9. CASE StartSla(c)
    BY <2>1, <2>9 DEF StartSla, Idle, Versioned
  <2>10. CASE QuerySla(c)
    <3>1. [call[c] EXCEPT !.op = "slaWrite", !.copy = ticket].op \notin Versioned
      BY DEF TypeOK, Call, Versioned
    <3> QED
      BY <2>1, <2>3, <2>4, <2>10, <3>1 DEF QuerySla
  <2>11. CASE CommitSla(c) \/ MissSla(c)
    BY <2>3, <2>4, <2>11 DEF CommitSla, MissSla
  <2>12. CASE DeleteTicket(c)
    BY <2>1, <2>12 DEF DeleteTicket, Idle, Versioned
  <2>13. CASE StartDecision(c)
    <3>1. PICK role \in StaffRole :
            Enter(c, [Idle EXCEPT !.op = "load", !.role = role, !.copy = ticket, !.at = now])
      BY <2>13 DEF StartDecision
    <3>2. [Idle EXCEPT !.op = "load", !.role = role, !.copy = ticket, !.at = now].op
            \notin Versioned
      BY DEF Idle, Versioned
    <3> QED
      BY ONLY <2>1, <3>1, <3>2
  <2>14. CASE LoadProposal(c)
    <3> DEFINE run == call[c].copy.agent.lastRunId
    <3>1. \A op \in {"approve", "reject"} :
            [call[c] EXCEPT !.op = op, !.run = run].op \notin Versioned
      BY DEF TypeOK, Call, Versioned
    <3>2. \/ \E op \in {"approve", "reject"} : Enter(c, [call[c] EXCEPT !.op = op, !.run = run])
          \/ Leave(c)
      BY <2>14 DEF LoadProposal
    <3> HIDE DEF run
    <3> QED
      BY <2>1, <2>3, <3>1, <3>2
  <2>15. CASE CommitPatch(c) \/ CommitComment(c) \/ PurgeComments(c) \/ CommitEscalate(c)
              \/ CommitResolve(c) \/ CommitApprove(c) \/ CommitReject(c) \/ MissDecision(c)
              \/ CrashCall(c)
    BY <2>3, <2>15 DEF CommitPatch, CommitComment, PurgeComments, CommitEscalate,
         CommitResolve, CommitApprove, CommitReject, MissDecision, CrashCall
  <2> QED
    BY <1>1, <2>5, <2>6, <2>7, <2>8, <2>9, <2>10, <2>11, <2>12, <2>13, <2>14, <2>15
       DEF CallStep, Progress
<1>2. ASSUME UNCHANGED call PROVE FreshCopies
  BY <1>2 DEF FreshCopies
<1> QED
  BY <1>1, <1>2 DEF Next, CreateTicket, RunStep, BeginRun, RecordProposal, FinishRun,
       CrashRun, Tick, vars

(* Before the ticket exists nothing is in progress. *)
LEMMA QuietStep == UnbornQuiet /\ [Next]_vars => UnbornQuiet'
<1> SUFFICES ASSUME UnbornQuiet, [Next]_vars, life' = "unborn"
             PROVE  \A c \in Caller : call'[c] = Idle
  BY DEF UnbornQuiet
<1>1. ASSUME NEW c \in Caller, CallStep(c) PROVE FALSE
  <2>1. life = "unborn"
    BY <1>1 DEF CallStep, Progress, StartPatch, CommitPatch, LosePatch, StartComment,
         CommitComment, StartSla, QuerySla, CommitSla, MissSla, DeleteTicket, PurgeComments,
         StartAgentWrite, CommitEscalate, CommitResolve, LoseAgentWrite, StartDecision,
         LoadProposal, CommitApprove, CommitReject, MissDecision, CrashCall
  <2>2. call[c] = Idle /\ call[c].op = "idle"
    BY <2>1 DEF UnbornQuiet, Idle
  <2> QED
    BY <1>1, <2>1, <2>2
       DEF CallStep, Progress, CanStart, StartPatch, CommitPatch, LosePatch, StartComment,
         CommitComment, StartSla, QuerySla, CommitSla, MissSla, DeleteTicket, PurgeComments,
         StartAgentWrite, CommitEscalate, CommitResolve, LoseAgentWrite, StartDecision,
         LoadProposal, CommitApprove, CommitReject, MissDecision, CrashCall
<1>2. UNCHANGED <<life, call>>
  BY <1>1 DEF Next, vars, CreateTicket, RunStep, BeginRun, RecordProposal, FinishRun,
       CrashRun, Tick
<1> QED
  BY <1>2 DEF UnbornQuiet

(* The invariant, and that it holds. *)
LEMMA VersionStep ==
  TypeOK /\ UnbornQuiet /\ VersionPinsContent /\ [Next]_vars => VersionPinsContent'
<1> SUFFICES ASSUME TypeOK, UnbornQuiet, VersionPinsContent, [Next]_vars,
                    NEW c \in Caller, call'[c].op \in Versioned
             PROVE  /\ call'[c].copy.version <= ticket'.version
                    /\ call'[c].copy.version = ticket'.version =>
                          Content(call'[c].copy) = Content(ticket')
  BY DEF VersionPinsContent
<1>1. ~CreateTicket
  <2>1. CreateTicket => call[c] = Idle /\ call' = call
    BY DEF CreateTicket, UnbornQuiet
  <2> QED
    BY <2>1 DEF Idle, Versioned
<1>2. Steady
  BY <1>1, VersionSteady
<1>3. ticket.version \in Nat /\ ticket'.version \in Nat
  BY TypeStep DEF TypeOK, TicketDoc
<1>4. CASE call'[c] = call[c]
  <2>1. call[c].copy.version \in Nat
    BY DEF TypeOK, Call, TicketDoc
  <2> QED
    BY <1>2, <1>3, <1>4, <2>1 DEF Steady, VersionPinsContent
<1>5. CASE ticket' = ticket /\ call'[c].copy = ticket
  BY <1>3, <1>5
<1> QED
  BY <1>4, <1>5, CopiesFresh DEF FreshCopies

(* An edit written at the version it was computed from was computed from    *)
(* the ticket it is written over.                                           *)
THEOREM VersionPinned == Spec => []VersionPinsContent
<1>1. Init => TypeOK /\ UnbornQuiet /\ VersionPinsContent
  <2>1. Init => TypeOK
    BY BlankType, IdleType DEF Init, TypeOK, RunState
  <2>2. Init => UnbornQuiet /\ VersionPinsContent
    BY DEF Init, UnbornQuiet, VersionPinsContent, Idle, Versioned
  <2> QED
    BY <2>1, <2>2
<1> QED
  BY <1>1, TypeStep, QuietStep, VersionStep, PTL DEF Spec

-----------------------------------------------------------------------------
(* A resolution date exactly while finished.                                *)

(* Replying neither finishes nor reopens a ticket. *)
LEMMA ReplyKeepsFinish ==
  \A s \in Status : IsTerminal(StatusAfterReply(s)) <=> IsTerminal(s)
  BY DEF Status, IsTerminal, Terminal, StatusAfterReply, StatusTransitions, AgentStatus

Dated(t) == IsTerminal(t.status) <=> t.resolvedAt # None

(* An edit computed from the ticket it is written over keeps the date right: *)
(* what deriveTimestampChanges sets and clears follows from one content.    *)
LEMMA PatchedDated ==
  ASSUME NEW t \in TicketDoc, NEW k \in Call, k.copy.status = t.status,
         k.copy.resolvedAt = t.resolvedAt, Dated(t)
  PROVE  Dated(Patched(t, k))
<1> DEFINE u == Patched(t, k)
           carries == "status" \in DOMAIN k.patch
<1>1. k.at # None
  BY RulesAssumption DEF Call
<1>2. /\ u.status = FieldOf(k.patch, "status", t.status)
      /\ u.resolvedAt = CASE Resolves(k.copy, k.patch) -> k.at
                          [] Reopens(k.copy, k.patch) -> None
                          [] OTHER -> t.resolvedAt
  BY DEF Patched, TicketDoc
<1> HIDE DEF u
<1>3. ASSUME ~carries PROVE Dated(u)
  <2>1. u.status = t.status /\ ~Resolves(k.copy, k.patch) /\ ~Reopens(k.copy, k.patch)
    BY <1>2, <1>3 DEF FieldOf, Resolves, Reopens
  <2>2. u.resolvedAt = t.resolvedAt
    BY <1>2, <2>1
  <2> QED
    BY <2>1, <2>2 DEF Dated
<1>4. ASSUME carries, IsTerminal(k.patch.status) PROVE Dated(u)
  <2>1. u.status = k.patch.status /\ ~Reopens(k.copy, k.patch)
    BY <1>2, <1>4 DEF FieldOf, Reopens
  <2>2. CASE Resolves(k.copy, k.patch)
    BY <1>1, <1>2, <1>4, <2>1, <2>2 DEF Dated
  <2>3. CASE ~Resolves(k.copy, k.patch)
    <3>1. u.resolvedAt = t.resolvedAt
      BY <1>2, <2>1, <2>3
    <3>2. t.resolvedAt # None
      BY <1>4, <2>3 DEF Resolves
    <3> QED
      BY <1>4, <2>1, <3>1, <3>2 DEF Dated
  <2> QED
    BY <2>2, <2>3
<1>5. ASSUME carries, ~IsTerminal(k.patch.status) PROVE Dated(u)
  <2>1. u.status = k.patch.status /\ ~Resolves(k.copy, k.patch)
    BY <1>2, <1>5 DEF FieldOf, Resolves
  <2>2. CASE Reopens(k.copy, k.patch)
    BY <1>2, <1>5, <2>1, <2>2 DEF Dated
  <2>3. CASE ~Reopens(k.copy, k.patch)
    <3>1. u.resolvedAt = t.resolvedAt /\ ~IsTerminal(t.status)
      BY <1>2, <1>5, <2>1, <2>3 DEF Reopens
    <3> QED
      BY <1>5, <2>1, <3>1 DEF Dated
  <2> QED
    BY <2>2, <2>3
<1>6. Dated(u)
  BY <1>3, <1>4, <1>5
<1> QED
  BY <1>6 DEF u

(* Every step keeps the date with the status.                               *)
LEMMA DatedStep ==
  ASSUME TypeOK, VersionPinsContent, ResolvedAtIffTerminal, [Next]_vars
  PROVE  ResolvedAtIffTerminal'
<1> SUFFICES ASSUME life' = "live" PROVE Dated(ticket')
  BY DEF ResolvedAtIffTerminal, Dated
<1>1. CASE CreateTicket
  <2>1. PICK role \in StaffRole \cup {"user"}, fields \in Patch \cup {NoPatch} :
          ticket' = Raised(role, fields)
    BY <1>1 DEF CreateTicket
  <2>2. ticket'.resolvedAt = IF IsTerminal(ticket'.status) THEN now ELSE None
    BY <2>1 DEF Raised, BlankTicket
  <2>3. now # None
    BY RulesAssumption DEF TypeOK
  <2> QED
    BY <2>2, <2>3 DEF Dated
<1>2. ASSUME life = "live", ticket'.resolvedAt = ticket.resolvedAt,
             IsTerminal(ticket'.status) <=> IsTerminal(ticket.status)
      PROVE  Dated(ticket')
  BY <1>2 DEF Dated, ResolvedAtIffTerminal
<1>3. ASSUME NEW c \in Caller, CallStep(c) PROVE Dated(ticket')
  <2> DEFINE k == call[c]
  <2>1. k \in Call /\ k.copy \in TicketDoc /\ ticket \in TicketDoc
    BY DEF TypeOK, Call
  <2>2. ASSUME AtVersion(k), k.op \in Versioned PROVE Content(k.copy) = Content(ticket)
    BY <2>2 DEF AtVersion, VersionPinsContent
  <2>3. CASE CommitPatch(c)
    <3>1. k.copy.status = ticket.status /\ k.copy.resolvedAt = ticket.resolvedAt
      BY <2>2, <2>3 DEF CommitPatch, Versioned, Content
    <3>2. Dated(ticket)
      BY <2>3 DEF CommitPatch, AtVersion, ResolvedAtIffTerminal, Dated
    <3> QED
      BY <2>1, <2>3, <3>1, <3>2, PatchedDated DEF CommitPatch
  <2>4. CASE CommitComment(c)
    <3>1. CASE ResumesWork(k)
      <4>1. ticket' = Resumed(ticket)
        BY <2>4, <3>1 DEF CommitComment
      <4>2. ticket'.resolvedAt = ticket.resolvedAt /\ ticket'.status = "in-progress"
        BY <2>1, <4>1 DEF Resumed, TicketDoc
      <4> QED
        BY <1>2, <3>1, <4>2 DEF ResumesWork, IsTerminal, Terminal
    <3>2. CASE ~ResumesWork(k)
      BY <1>2, <2>4, <3>2 DEF CommitComment
    <3> QED
      BY <3>1, <3>2
  <2>5. CASE CommitSla(c)
    <3>1. ticket'.resolvedAt = ticket.resolvedAt /\ ticket'.status = ticket.status
      BY <2>1, <2>5 DEF CommitSla, Marked, TicketDoc
    <3> QED
      BY <1>2, <2>5, <3>1 DEF CommitSla
  <2>6. CASE CommitEscalate(c)
    <3>1. k.copy.status = ticket.status
      BY <2>2, <2>6 DEF CommitEscalate, Versioned, Content
    <3>2. /\ ticket'.resolvedAt = ticket.resolvedAt
          /\ ticket'.status = IF k.copy.status = "open" THEN "assigned" ELSE k.copy.status
      BY <2>1, <2>6 DEF CommitEscalate, Escalated, TicketDoc
    <3> QED
      BY <1>2, <2>6, <3>1, <3>2 DEF CommitEscalate, IsTerminal, Terminal
  <2>7. CASE CommitResolve(c)
    <3>1. k.copy.status = ticket.status /\ ticket.status \in Status
      BY <2>1, <2>2, <2>7 DEF CommitResolve, Versioned, Content, TicketDoc
    <3>2. /\ ticket'.resolvedAt = ticket.resolvedAt
          /\ ticket'.status = StatusAfterReply(k.copy.status)
      BY <2>1, <2>7 DEF CommitResolve, Answered, TicketDoc
    <3> QED
      BY <1>2, <2>7, <3>1, <3>2, ReplyKeepsFinish DEF CommitResolve
  <2>8. CASE CommitApprove(c)
    <3>1. k.copy.status = ticket.status /\ ticket.status \in Status
      BY <2>1, <2>8 DEF CommitApprove, Decides, TicketDoc
    <3>2. /\ ticket'.resolvedAt = ticket.resolvedAt
          /\ ticket'.status = StatusAfterReply(k.copy.status)
      BY <2>1, <2>8, <3>1 DEF CommitApprove, Approved, TicketDoc
    <3> QED
      BY <1>2, <2>8, <3>1, <3>2, ReplyKeepsFinish DEF CommitApprove
  <2>9. CASE CommitReject(c)
    <3>1. ticket'.resolvedAt = ticket.resolvedAt /\ ticket'.status = ticket.status
      BY <2>1, <2>9 DEF CommitReject, TicketDoc
    <3> QED
      BY <1>2, <2>9, <3>1 DEF CommitReject
  <2>10. CASE UNCHANGED <<life, ticket>>
    BY <1>2, <2>10
  <2>11. CASE DeleteTicket(c)
    BY <2>11 DEF DeleteTicket
  <2> QED
    BY <1>3, <2>3, <2>4, <2>5, <2>6, <2>7, <2>8, <2>9, <2>10, <2>11
       DEF CallStep, Progress, StartPatch, LosePatch, StartComment, StartSla, QuerySla,
           MissSla, PurgeComments, StartAgentWrite, LoseAgentWrite, StartDecision,
           LoadProposal, MissDecision, CrashCall
<1>4. ASSUME NEW r \in Run, RunStep(r) PROVE Dated(ticket')
  <2>1. life = "live" /\ ticket'.resolvedAt = ticket.resolvedAt /\ ticket'.status = ticket.status
    BY <1>4 DEF RunStep, BeginRun, RecordProposal, Proposed, FinishRun, CrashRun, TypeOK, TicketDoc
  <2> QED
    BY <1>2, <2>1
<1>5. CASE Tick \/ UNCHANGED vars
  BY <1>2, <1>5 DEF Tick, vars
<1> QED
  BY <1>1, <1>3, <1>4, <1>5 DEF Next

(* A ticket is dated exactly while it is finished, whoever wrote last. *)
THEOREM ResolvedWhenTerminal == Spec => []ResolvedAtIffTerminal
<1>1. Init => ResolvedAtIffTerminal
  BY DEF Init, ResolvedAtIffTerminal
<1>2. TypeOK /\ VersionPinsContent /\ ResolvedAtIffTerminal /\ [Next]_vars
        => ResolvedAtIffTerminal'
  BY DatedStep
<1> QED
  BY <1>1, <1>2, TypeCorrect, VersionPinned, PTL DEF Spec

-----------------------------------------------------------------------------
(* The history is true.                                                     *)

(* The changes between two tickets, field by field. *)
Changes(t, u) == UNION {ChangeEntry(f, t[f], u[f]) : f \in TrackedField}

(* The tracked fields are three.                                            *)
LEMMA ChangesByField ==
  ASSUME NEW t, NEW u
  PROVE  Changes(t, u) = ChangeEntry("status", t.status, u.status)
                           \cup ChangeEntry("priority", t.priority, u.priority)
                           \cup ChangeEntry("assignee", t.assignee, u.assignee)
  BY DEF Changes, TrackedField

(* Two tickets that agree on the tracked fields have no changes. *)
LEMMA NoChanges ==
  ASSUME NEW t, NEW u, u.status = t.status, u.priority = t.priority, u.assignee = t.assignee
  PROVE  Changes(t, u) = {}
  BY ChangesByField DEF ChangeEntry

(* What activityEntriesForPatch writes for a copy is what changes in a      *)
(* ticket of the same content.                                              *)
LEMMA PatchedChanges ==
  ASSUME NEW t \in TicketDoc, NEW k \in Call, k.copy.status = t.status,
         k.copy.priority = t.priority, k.copy.assignee = t.assignee
  PROVE  PatchEntries(k.copy, k.patch) = Changes(t, Patched(t, k))
<1> DEFINE u == Patched(t, k)
           p == k.patch
           b == k.copy
           Of(f) == IF f \in DOMAIN p /\ b[f] # p[f] THEN {Entry(f, b[f], p[f])} ELSE {}
<1>1. /\ u.status = FieldOf(p, "status", t.status)
      /\ u.priority = FieldOf(p, "priority", t.priority)
      /\ u.assignee = FieldOf(p, "assignee", t.assignee)
  BY DEF Patched, TicketDoc
<1>2. /\ Of("status") = ChangeEntry("status", t.status, u.status)
      /\ Of("priority") = ChangeEntry("priority", t.priority, u.priority)
      /\ Of("assignee") = ChangeEntry("assignee", t.assignee, u.assignee)
  BY <1>1 DEF ChangeEntry, FieldOf
<1>3. PatchEntries(b, p) = Of("status") \cup Of("priority") \cup Of("assignee")
  BY DEF PatchEntries, TrackedField
<1> QED
  BY <1>2, <1>3, ChangesByField

(* Every step appends the entries of the changes it makes.                  *)
LEMMA HistoryStep ==
  ASSUME TypeOK, VersionPinsContent, Next
  PROVE  HistoryMatches
<1> SUFFICES ASSUME Stays PROVE pushed' = Changes(ticket, ticket')
  BY DEF HistoryMatches, Changes
<1>1. ASSUME Silent, ticket'.status = ticket.status, ticket'.priority = ticket.priority,
             ticket'.assignee = ticket.assignee
      PROVE  pushed' = Changes(ticket, ticket')
  BY <1>1, NoChanges DEF Silent
<1>2. ASSUME NEW c \in Caller, CallStep(c) PROVE pushed' = Changes(ticket, ticket')
  <2> DEFINE k == call[c]
  <2>1. k \in Call /\ k.copy \in TicketDoc /\ ticket \in TicketDoc
    BY DEF TypeOK, Call
  <2>2. ASSUME AtVersion(k), k.op \in Versioned
        PROVE  /\ k.copy.status = ticket.status /\ k.copy.priority = ticket.priority
               /\ k.copy.assignee = ticket.assignee
    BY <2>2 DEF AtVersion, VersionPinsContent, Content
  <2>3. CASE CommitPatch(c)
    BY <2>1, <2>2, <2>3, PatchedChanges DEF CommitPatch, Versioned
  <2>4. CASE CommitComment(c)
    <3>1. CASE ResumesWork(k)
      <4>1. ticket' = Resumed(ticket) /\ ticket.status = "pending-user"
        BY <2>4, <3>1 DEF CommitComment, ResumesWork
      <4>2. /\ ticket'.status = "in-progress" /\ ticket'.priority = ticket.priority
            /\ ticket'.assignee = ticket.assignee
        BY <2>1, <4>1 DEF Resumed, TicketDoc
      <4>3. pushed' = {Entry("status", "pending-user", "in-progress")}
        BY <2>4, <3>1 DEF CommitComment
      <4> QED
        BY <4>1, <4>2, <4>3, ChangesByField DEF ChangeEntry
    <3>2. CASE ~ResumesWork(k)
      BY <2>4, <3>2, NoChanges DEF CommitComment
    <3> QED
      BY <3>1, <3>2
  <2>5. CASE CommitSla(c)
    <3>1. ticket' = Marked(ticket, k) /\ SlaApplies(k)
      BY <2>5 DEF CommitSla
    <3>2. ticket'.status = ticket.status /\ ticket'.assignee = ticket.assignee
      BY <2>1, <3>1 DEF Marked, TicketDoc
    <3>3. CASE EscalationDue(k.copy, k.at) = "breached"
      <4>1. /\ ticket.priority = k.copy.priority
            /\ ticket'.priority = RaisedPriority(k.copy.priority)
        BY <2>1, <3>1, <3>3 DEF SlaApplies, Marked, TicketDoc
      <4>2. pushed' = ChangeEntry("priority", k.copy.priority,
                                  RaisedPriority(k.copy.priority))
        BY <2>5, <3>3 DEF CommitSla
      <4> QED
        BY <3>2, <4>1, <4>2, ChangesByField DEF ChangeEntry
    <3>4. CASE EscalationDue(k.copy, k.at) # "breached"
      <4>1. ticket'.priority = ticket.priority
        BY <2>1, <3>1, <3>4 DEF Marked, TicketDoc
      <4>2. pushed' = {}
        BY <2>5, <3>4 DEF CommitSla
      <4> QED
        BY <3>2, <4>1, <4>2, NoChanges
    <3> QED
      BY <3>3, <3>4
  <2>6. CASE CommitEscalate(c)
    <3>1. k.copy.status = ticket.status /\ k.copy.assignee = ticket.assignee
      BY <2>2, <2>6 DEF CommitEscalate, Versioned
    <3>2. ticket'.priority = ticket.priority
      BY <2>1, <2>6 DEF CommitEscalate, Escalated, TicketDoc
    <3>3. pushed' = ChangeEntry("assignee", k.copy.assignee, ticket'.assignee)
                      \cup ChangeEntry("status", k.copy.status, ticket'.status)
      BY <2>6 DEF CommitEscalate
    <3> QED
      BY <3>1, <3>2, <3>3, ChangesByField DEF ChangeEntry
  <2>7. CASE CommitResolve(c)
    <3>1. k.copy.status = ticket.status
      BY <2>2, <2>7 DEF CommitResolve, Versioned
    <3>2. ticket'.priority = ticket.priority /\ ticket'.assignee = ticket.assignee
      BY <2>1, <2>7 DEF CommitResolve, Answered, TicketDoc
    <3>3. pushed' = ChangeEntry("status", k.copy.status, ticket'.status)
      BY <2>7 DEF CommitResolve
    <3> QED
      BY <3>1, <3>2, <3>3, ChangesByField DEF ChangeEntry
  <2>8. CASE CommitApprove(c)
    <3>1. k.copy.status = ticket.status
      BY <2>8 DEF CommitApprove, Decides
    <3>2. /\ ticket'.priority = ticket.priority /\ ticket'.assignee = ticket.assignee
          /\ ticket'.status = StatusAfterReply(k.copy.status)
      BY <2>1, <2>8, <3>1 DEF CommitApprove, Approved, TicketDoc
    <3>3. pushed' = ChangeEntry("status", k.copy.status, StatusAfterReply(k.copy.status))
      BY <2>8 DEF CommitApprove
    <3> QED
      BY <3>1, <3>2, <3>3, ChangesByField DEF ChangeEntry
  <2>9. CASE CommitReject(c)
    BY <1>1, <2>1, <2>9 DEF CommitReject, TicketDoc
  <2>10. CASE Silent /\ UNCHANGED ticket
    BY <1>1, <2>10
  <2> QED
    BY <1>2, <2>3, <2>4, <2>5, <2>6, <2>7, <2>8, <2>9, <2>10
       DEF CallStep, Progress, StartPatch, LosePatch, StartComment, StartSla, QuerySla,
           MissSla, DeleteTicket, PurgeComments, StartAgentWrite, LoseAgentWrite,
           StartDecision, LoadProposal, MissDecision, CrashCall
<1>3. ASSUME NEW r \in Run, RunStep(r) PROVE pushed' = Changes(ticket, ticket')
  <2>1. /\ Silent /\ ticket'.status = ticket.status
        /\ ticket'.priority = ticket.priority /\ ticket'.assignee = ticket.assignee
    BY <1>3 DEF RunStep, BeginRun, RecordProposal, Proposed, FinishRun, CrashRun, TypeOK, TicketDoc
  <2> QED
    BY <1>1, <2>1
<1>4. CASE Tick
  BY <1>1, <1>4 DEF Tick
<1>5. ~CreateTicket
  BY DEF CreateTicket, Stays
<1> QED
  BY <1>2, <1>3, <1>4, <1>5 DEF Next

(* Whatever copies the entries were computed from, every behaviour's history *)
(* says what happened and all that happened.                                *)
THEOREM HistoryTrue == Spec => HistoryIsTrue
<1>1. TypeOK /\ VersionPinsContent /\ [Next]_vars => [HistoryMatches]_vars
  BY HistoryStep
<1> QED
  BY <1>1, TypeCorrect, VersionPinned, PTL DEF Spec, HistoryIsTrue

-----------------------------------------------------------------------------
(* What a request in progress was checked for.                              *)

(* A request was accepted for the copy it still holds (canMutateTicket,     *)
(* checkPrecondition, canTransition, the checks of postResolution), at an   *)
(* instant of the clock.                                                    *)
Admitted(k) ==
  /\ k.at \in 0..MaxTime
  /\ k.op = "patch" =>
       /\ k.role \in StaffRole \cup {"user", "agent"}
       /\ k.patch \in Patch
       /\ PatchAdmitted(k.role, k.patch, k.expected, k.copy)
  /\ k.op = "resolve" => MayAnswer(k.copy)

AllAdmitted == now \in 0..MaxTime /\ \A c \in Caller : Admitted(call[c])

(* While an answer of its own is the last thing the agent said, the mark    *)
(* that it answered stands, in the ticket and in every copy that an edit    *)
(* could still write back.                                                  *)
AnswerStands ==
  ticket.said = "answer" =>
    /\ ticket.agent.proposalStatus = "posted"
    /\ \A c \in Caller :
         call[c].op \in Versioned /\ call[c].copy.version = ticket.version =>
           call[c].copy.agent.proposalStatus = "posted"

(* A call of one of the other operations needs an instant only. *)
LEMMA OtherAdmitted ==
  ASSUME NEW k, k.at \in 0..MaxTime, k.op \notin {"patch", "resolve"}
  PROVE  Admitted(k)
  BY DEF Admitted

(* An idle caller has nothing to be admitted for.                           *)
LEMMA IdleAdmitted == Admitted(Idle)
  BY TicketsAssumption DEF Admitted, Idle

(* The step that looks at the ticket checks it for the copy it keeps. *)
LEMMA AdmittedStep ==
  ASSUME TypeOK, AllAdmitted, [Next]_vars
  PROVE  AllAdmitted'
<1>1. now' \in 0..MaxTime
  <2>1. CASE Tick
    BY <2>1, TicketsAssumption DEF Tick, AllAdmitted
  <2>2. CASE UNCHANGED now
    BY <2>2 DEF AllAdmitted
  <2> QED
    BY <2>1, <2>2 DEF Next, vars, CreateTicket, CallStep, Progress, StartPatch, CommitPatch,
         LosePatch, StartComment, CommitComment, StartSla, QuerySla, CommitSla, MissSla,
         DeleteTicket, PurgeComments, StartAgentWrite, CommitEscalate, CommitResolve,
         LoseAgentWrite, StartDecision, LoadProposal, CommitApprove, CommitReject,
         MissDecision, CrashCall, RunStep, BeginRun, RecordProposal, FinishRun, CrashRun
<1>2. now \in 0..MaxTime
  BY DEF AllAdmitted
<1>3. ASSUME NEW c \in Caller, CallStep(c) PROVE \A d \in Caller : Admitted(call'[d])
  <2>1. ASSUME NEW k, Enter(c, k), Admitted(k) PROVE \A d \in Caller : Admitted(call'[d])
    BY <2>1 DEF Enter, AllAdmitted, TypeOK
  <2>2. ASSUME Leave(c) PROVE \A d \in Caller : Admitted(call'[d])
    BY <2>2, IdleAdmitted DEF Leave, AllAdmitted, TypeOK
  <2>3. call[c] \in Call /\ call[c].at \in 0..MaxTime /\ Admitted(call[c])
    BY DEF TypeOK, AllAdmitted, Admitted
  <2>4. ASSUME NextBatch(c) PROVE \A d \in Caller : Admitted(call'[d])
    <3> DEFINE k == [Idle EXCEPT !.op = "sla", !.at = call[c].at,
                                 !.attempt = call[c].attempt + 1]
    <3>1. k.at = call[c].at /\ k.op = "sla"
      BY DEF Idle
    <3>2. Enter(c, k) \/ Leave(c)
      BY <2>4 DEF NextBatch
    <3> HIDE DEF k
    <3>3. Admitted(k)
      BY <2>3, <3>1, OtherAdmitted
    <3> QED
      BY <2>1, <2>2, <3>2, <3>3
  <2>5. CASE StartPatch(c)
    <3>1. PICK role \in StaffRole \cup {"user", "agent"}, run \in Run \cup {NoRun},
               patch \in Patch, expected \in 0..ticket.version \cup {AnyVersion} :
            /\ PatchAdmitted(role, patch, expected, ticket)
            /\ Enter(c, [Idle EXCEPT !.op = "patch", !.role = role, !.run = run,
                                     !.patch = patch, !.expected = expected,
                                     !.copy = ticket, !.at = now])
      BY ONLY <2>5, Zenon DEF StartPatch
    <3> DEFINE k == [Idle EXCEPT !.op = "patch", !.role = role, !.run = run, !.patch = patch,
                                 !.expected = expected, !.copy = ticket, !.at = now]
    <3>2. /\ k.op = "patch" /\ k.role = role /\ k.patch = patch /\ k.expected = expected
          /\ k.copy = ticket /\ k.at = now
      BY DEF Idle
    <3> HIDE DEF k
    <3>3. Admitted(k)
      BY <1>2, <3>1, <3>2 DEF Admitted
    <3> QED
      BY <2>1, <3>1, <3>3 DEF k
  <2>6. CASE StartAgentWrite(c)
    <3>1. PICK op \in {"escalate", "resolve"}, run \in Run :
            /\ op = "resolve" => MayAnswer(ticket)
            /\ Enter(c, [Idle EXCEPT !.op = op, !.role = "agent", !.run = run,
                                     !.copy = ticket, !.at = now])
      BY ONLY <2>6, Zenon DEF StartAgentWrite
    <3> DEFINE k == [Idle EXCEPT !.op = op, !.role = "agent", !.run = run,
                                 !.copy = ticket, !.at = now]
    <3>2. k.op = op /\ k.copy = ticket /\ k.at = now
      BY DEF Idle
    <3> HIDE DEF k
    <3>3. Admitted(k)
      BY <1>2, <3>1, <3>2 DEF Admitted
    <3> QED
      BY <2>1, <3>1, <3>3 DEF k
  <2>7. CASE LosePatch(c) \/ LoseAgentWrite(c)
    <3> DEFINE k == [call[c] EXCEPT !.copy = ticket, !.at = now, !.attempt = @ + 1]
    <3>1. /\ k.op = call[c].op /\ k.role = call[c].role /\ k.patch = call[c].patch
          /\ k.expected = call[c].expected /\ k.copy = ticket /\ k.at = now
      BY <2>3 DEF Call
    <3>2. \/ Leave(c)
          \/ /\ Enter(c, k)
             /\ \/ /\ call[c].op = "patch"
                   /\ PatchAdmitted(call[c].role, call[c].patch, call[c].expected, ticket)
                \/ /\ call[c].op \in {"escalate", "resolve"}
                   /\ call[c].op = "resolve" => MayAnswer(ticket)
      BY <2>7 DEF LosePatch, LoseAgentWrite
    <3> HIDE DEF k
    <3>3. Enter(c, k) /\ ~Leave(c) => Admitted(k)
      BY <1>2, <2>3, <3>1, <3>2 DEF Admitted
    <3> QED
      BY <2>1, <2>2, <3>2, <3>3
  <2>8. CASE StartComment(c)
    <3>1. PICK role \in StaffRole \cup {"user"}, kind \in {"public", "internal"} :
            Enter(c, [Idle EXCEPT !.op = "comment", !.role = role, !.kind = kind,
                                  !.copy = ticket, !.at = now])
      BY <2>8 DEF StartComment
    <3> DEFINE k == [Idle EXCEPT !.op = "comment", !.role = role, !.kind = kind,
                                 !.copy = ticket, !.at = now]
    <3>2. k.op = "comment" /\ k.at = now
      BY DEF Idle
    <3> HIDE DEF k
    <3> QED
      BY <1>2, <2>1, <3>1, <3>2, OtherAdmitted DEF k
  <2>9. CASE StartSla(c)
    <3> DEFINE k == [Idle EXCEPT !.op = "sla", !.at = now]
    <3>1. k.op = "sla" /\ k.at = now /\ Enter(c, k)
      BY <2>9 DEF StartSla, Idle
    <3> HIDE DEF k
    <3> QED
      BY <1>2, <2>1, <3>1, OtherAdmitted
  <2>10. CASE QuerySla(c)
    <3> DEFINE k == [call[c] EXCEPT !.op = "slaWrite", !.copy = ticket]
    <3>1. k.op = "slaWrite" /\ k.at = call[c].at
      BY <2>3 DEF Call
    <3>2. Enter(c, k) \/ Leave(c) \/ NextBatch(c)
      BY <2>10 DEF QuerySla
    <3> HIDE DEF k
    <3> QED
      BY <2>1, <2>2, <2>3, <2>4, <3>1, <3>2, OtherAdmitted
  <2>11. CASE CommitSla(c) \/ MissSla(c)
    BY <2>2, <2>4, <2>11 DEF CommitSla, MissSla
  <2>12. CASE DeleteTicket(c)
    <3> DEFINE k == [Idle EXCEPT !.op = "purge"]
    <3>1. k.op = "purge" /\ k.at = 0 /\ Enter(c, k)
      BY <2>12 DEF DeleteTicket, Idle
    <3>2. 0 \in 0..MaxTime
      BY TicketsAssumption
    <3> HIDE DEF k
    <3> QED
      BY <2>1, <3>1, <3>2, OtherAdmitted
  <2>13. CASE StartDecision(c)
    <3>1. PICK role \in StaffRole :
            Enter(c, [Idle EXCEPT !.op = "load", !.role = role, !.copy = ticket, !.at = now])
      BY <2>13 DEF StartDecision
    <3> DEFINE k == [Idle EXCEPT !.op = "load", !.role = role, !.copy = ticket, !.at = now]
    <3>2. k.op = "load" /\ k.at = now
      BY DEF Idle
    <3> HIDE DEF k
    <3> QED
      BY <1>2, <2>1, <3>1, <3>2, OtherAdmitted DEF k
  <2>14. CASE LoadProposal(c)
    <3> DEFINE run == call[c].copy.agent.lastRunId
               k(op) == [call[c] EXCEPT !.op = op, !.run = run]
    <3>1. \A op \in {"approve", "reject"} : k(op).op = op /\ k(op).at = call[c].at
      BY <2>3 DEF Call
    <3>2. (\E op \in {"approve", "reject"} : Enter(c, k(op))) \/ Leave(c)
      BY <2>14 DEF LoadProposal
    <3> HIDE DEF k
    <3>3. \A op \in {"approve", "reject"} : Admitted(k(op))
      BY <2>3, <3>1, OtherAdmitted
    <3> QED
      BY <2>1, <2>2, <3>2, <3>3
  <2>15. CASE CommitPatch(c) \/ CommitComment(c) \/ PurgeComments(c) \/ CommitEscalate(c)
              \/ CommitResolve(c) \/ CommitApprove(c) \/ CommitReject(c) \/ MissDecision(c)
              \/ CrashCall(c)
    BY <2>2, <2>15 DEF CommitPatch, CommitComment, PurgeComments, CommitEscalate,
         CommitResolve, CommitApprove, CommitReject, MissDecision, CrashCall
  <2> QED
    BY <1>3, <2>5, <2>6, <2>7, <2>8, <2>9, <2>10, <2>11, <2>12, <2>13, <2>14, <2>15
       DEF CallStep, Progress
<1>4. ASSUME UNCHANGED call PROVE \A d \in Caller : Admitted(call'[d])
  BY <1>4 DEF AllAdmitted
<1>5. \A d \in Caller : Admitted(call'[d])
  BY <1>3, <1>4 DEF Next, CreateTicket, RunStep, BeginRun, RecordProposal, FinishRun,
       CrashRun, Tick, vars
<1> QED
  BY <1>1, <1>5 DEF AllAdmitted, Admitted

(* Only the agent's own answer makes it the last thing the agent said. *)
LEMMA OthersSayNothing ==
  ASSUME TypeOK, [Next]_vars, ~CreateTicket, \A c \in Caller : ~CommitResolve(c),
         ticket'.said = "answer"
  PROVE  /\ ticket.said = "answer"
         /\ \A r \in Run : RecordProposal(r) => ticket' = ticket
<1>0. ticket \in TicketDoc
  BY DEF TypeOK
<1>1. ASSUME NEW c \in Caller, CallStep(c) PROVE ticket'.said = ticket.said
  <2>1. CASE CommitApprove(c)
    BY <1>0, <2>1 DEF CommitApprove, Approved, TicketDoc
  <2>2. CASE CommitReject(c) \/ CommitComment(c)
    BY <1>0, <2>2 DEF CommitReject, CommitComment, Resumed, TicketDoc
  <2>3. CASE CommitPatch(c)
    BY <1>0, <2>3 DEF CommitPatch, Patched, TicketDoc
  <2>4. CASE CommitSla(c)
    BY <1>0, <2>4 DEF CommitSla, Marked, TicketDoc
  <2>5. CASE CommitEscalate(c)
    BY <1>0, <2>5 DEF CommitEscalate, Escalated, TicketDoc
  <2>6. CASE UNCHANGED ticket
    BY <2>6
  <2> QED
    BY <1>1, <2>1, <2>2, <2>3, <2>4, <2>5, <2>6
       DEF CallStep, Progress, StartPatch, LosePatch, StartComment, StartSla, QuerySla,
           MissSla, DeleteTicket, PurgeComments, StartAgentWrite, LoseAgentWrite,
           StartDecision, LoadProposal, MissDecision, CrashCall
<1>2. ASSUME NEW r \in Run, RecordProposal(r) PROVE ticket' = ticket
  BY <1>0, <1>2, ProposedFields DEF RecordProposal
<1> QED
  BY <1>1, <1>2 DEF Next, Tick, vars, RunStep, BeginRun, FinishRun, CrashRun

(* While the agent's own answer is the last thing it said, no write takes   *)
(* the mark off: edits write back a copy that has it, and there is nothing  *)
(* to decide.                                                               *)
LEMMA MarkKept ==
  ASSUME TypeOK, AnswerStands, [Next]_vars, ~CreateTicket,
         \A c \in Caller : ~CommitResolve(c), ticket'.said = "answer"
  PROVE  ticket'.agent.proposalStatus = "posted"
<1>0. ticket \in TicketDoc /\ ticket.said = "answer"
      /\ ticket.agent.proposalStatus = "posted"
  BY OthersSayNothing DEF TypeOK, AnswerStands
<1>1. ASSUME NEW c \in Caller, CallStep(c) PROVE ticket'.agent.proposalStatus = "posted"
  <2>0. call[c].copy.agent \in AgentState
    BY DEF TypeOK, Call, TicketDoc
  <2>1. ~CommitApprove(c) /\ ~CommitReject(c)
    BY <1>0 DEF CommitApprove, CommitReject, Decides
  <2>2. CASE CommitPatch(c)
    <3>1. call[c].copy.agent.proposalStatus = "posted"
      BY <1>0, <2>2 DEF AnswerStands, CommitPatch, AtVersion, Versioned
    <3>2. ASSUME NEW role, NEW run
          PROVE  NextAgentState(call[c].copy.agent, role, run).proposalStatus = "posted"
      BY <2>0, <3>1 DEF NextAgentState, AgentState
    <3> QED
      BY <1>0, <2>2, <3>2 DEF CommitPatch, Patched, TicketDoc
  <2>3. CASE CommitEscalate(c)
    <3>1. call[c].copy.agent.proposalStatus = "posted"
      BY <1>0, <2>3 DEF AnswerStands, CommitEscalate, AtVersion, Versioned
    <3> DEFINE agent == [call[c].copy.agent EXCEPT !.triageSource = "agent",
                                                   !.lastRunId = call[c].run]
    <3>2. agent.proposalStatus = "posted"
      BY <2>0, <3>1 DEF AgentState
    <3>3. ticket'.agent = agent
      BY <1>0, <2>3 DEF CommitEscalate, Escalated, TicketDoc
    <3> QED
      BY <3>2, <3>3
  <2>4. CASE CommitComment(c)
    BY <1>0, <2>4 DEF CommitComment, Resumed, TicketDoc
  <2>5. CASE CommitSla(c)
    BY <1>0, <2>5 DEF CommitSla, Marked, TicketDoc
  <2>6. CASE UNCHANGED ticket
    BY <1>0, <2>6
  <2> QED
    BY <1>1, <2>1, <2>2, <2>3, <2>4, <2>5, <2>6
       DEF CallStep, Progress, StartPatch, LosePatch, StartComment, StartSla, QuerySla,
           MissSla, DeleteTicket, PurgeComments, StartAgentWrite, LoseAgentWrite,
           StartDecision, LoadProposal, MissDecision, CrashCall
<1> QED
  BY <1>0, <1>1, OthersSayNothing DEF Next, Tick, vars, RunStep, BeginRun, FinishRun, CrashRun

(* So the mark stands, and with it every copy of its version. *)
LEMMA AnswerStandsStep ==
  ASSUME TypeOK, VersionPinsContent, AnswerStands, [Next]_vars
  PROVE  AnswerStands'
<1> SUFFICES ASSUME ticket'.said = "answer" PROVE AnswerStands'
  BY DEF AnswerStands
<1>0. ~CreateTicket
  <2>1. CreateTicket => ticket'.said = "nothing"
    BY DEF CreateTicket, Raised, BlankTicket
  <2> QED
    BY <2>1
<1>1. CASE \E c \in Caller : CommitResolve(c)
  <2>1. PICK c \in Caller : CommitResolve(c)
    BY <1>1
  <2>2. ticket'.agent.proposalStatus = "posted" /\ ticket'.version = ticket.version + 1
    BY <2>1 DEF CommitResolve, Answered, TypeOK, Call, TicketDoc, AgentState
  <2>3. ASSUME NEW d \in Caller, call'[d].op \in Versioned,
               call'[d].copy.version = ticket'.version
        PROVE  FALSE
    <3>1. call'[d] = call[d]
      BY <2>1, <2>3 DEF CommitResolve, Leave, Idle, Versioned, TypeOK
    <3>2. call[d].copy.version <= ticket.version
      BY <2>3, <3>1 DEF VersionPinsContent
    <3>3. ticket.version \in Nat
      BY DEF TypeOK, TicketDoc
    <3> QED
      BY <2>2, <2>3, <3>1, <3>2, <3>3
  <2> QED
    BY <2>2, <2>3 DEF AnswerStands
<1>2. CASE \A c \in Caller : ~CommitResolve(c)
  <2>1. ticket'.agent.proposalStatus = "posted" /\ ticket.said = "answer"
    BY <1>0, <1>2, MarkKept, OthersSayNothing
  <2>2. ASSUME NEW d \in Caller, call'[d].op \in Versioned,
               call'[d].copy.version = ticket'.version
        PROVE  call'[d].copy.agent.proposalStatus = "posted"
    <3>1. CASE call'[d] = call[d]
      <4>1. call[d].copy.version <= ticket.version /\ call[d].op \in Versioned
        BY <2>2, <3>1 DEF VersionPinsContent
      <4>2. /\ ticket'.version >= ticket.version
            /\ ticket.version \in Nat /\ ticket'.version \in Nat
            /\ call[d].copy.version \in Nat
        BY <1>0, VersionSteady, TypeStep DEF Steady, TypeOK, TicketDoc, Call
      <4>3. ticket.version = call[d].copy.version
        BY <2>2, <3>1, <4>1, <4>2
      <4> QED
        BY <2>1, <3>1, <4>1, <4>3 DEF AnswerStands
    <3>2. CASE ticket' = ticket /\ call'[d].copy = ticket
      BY <2>1, <3>2 DEF AnswerStands
    <3> QED
      BY <2>2, <3>1, <3>2, CopiesFresh DEF FreshCopies
  <2> QED
    BY <2>1, <2>2 DEF AnswerStands
<1> QED
  BY <1>1, <1>2

-----------------------------------------------------------------------------
(* What the requests in progress rest on, together, in every behaviour. *)
Grounds == TypeOK /\ UnbornQuiet /\ VersionPinsContent /\ AllAdmitted /\ AnswerStands

(* These grounds are inductive together.                                    *)
LEMMA GroundsStep == Grounds /\ [Next]_vars => Grounds'
  BY TypeStep, QuietStep, VersionStep, AdmittedStep, AnswerStandsStep DEF Grounds

(* So they hold in every behaviour.                                         *)
LEMMA GroundsHold == Spec => []Grounds
<1>1. Init => TypeOK
  BY BlankType, IdleType DEF Init, TypeOK, RunState
<1>2. Init => UnbornQuiet /\ VersionPinsContent /\ AnswerStands
  BY DEF Init, UnbornQuiet, VersionPinsContent, AnswerStands, BlankTicket, Idle, Versioned
<1>3. Init => AllAdmitted
  BY IdleAdmitted, TicketsAssumption DEF Init, AllAdmitted
<1> QED
  BY <1>1, <1>2, <1>3, GroundsStep, PTL DEF Spec, Grounds

(* The edit, or answer, that is seen to make a version is a commit. *)
LEMMA CommitsIsCommit ==
  ASSUME TypeOK, Next, NEW c \in Caller, NEW op \in {"patch", "resolve"}, Commits(c, op)
  PROVE  IF op = "patch" THEN CommitPatch(c) ELSE CommitResolve(c)
<1>1. call'[c] # call[c]
  BY DEF Commits, Idle
<1>2. PICK d \in Caller : CallStep(d)
  BY <1>1 DEF Next, CreateTicket, RunStep, BeginRun, RecordProposal, FinishRun, CrashRun, Tick
<1>3. d = c
  BY <1>1, <1>2 DEF TypeOK, CallStep, Progress, StartPatch, CommitPatch, LosePatch,
       StartComment, CommitComment, StartSla, QuerySla, CommitSla, MissSla, DeleteTicket,
       PurgeComments, StartAgentWrite, CommitEscalate, CommitResolve, LoseAgentWrite,
       StartDecision, LoadProposal, CommitApprove, CommitReject, MissDecision, CrashCall,
       Enter, Leave, NextBatch
<1>4. call[c].op = op /\ ticket' # ticket
  BY DEF Commits
<1> QED
  BY <1>2, <1>3, <1>4 DEF CallStep, Progress, StartPatch, CommitPatch, LosePatch,
       StartComment, CommitComment, StartSla, QuerySla, CommitSla, MissSla, DeleteTicket,
       PurgeComments, StartAgentWrite, CommitEscalate, CommitResolve, LoseAgentWrite,
       StartDecision, LoadProposal, CommitApprove, CommitReject, MissDecision, CrashCall

(* An edit that names a version is written over that version, whatever its  *)
(* attempts saw.                                                            *)
THEOREM NeverOverAnother == Spec => ConditionalNeverStale
<1>1. Grounds /\ Next => ConditionalStep
  <2> SUFFICES ASSUME Grounds, Next, NEW c \in Caller, Commits(c, "patch")
               PROVE  call[c].expected \in {AnyVersion, ticket.version}
    BY DEF ConditionalStep
  <2>1. CommitPatch(c)
    BY CommitsIsCommit DEF Grounds
  <2>2. call[c].copy.version = ticket.version
    BY <2>1 DEF CommitPatch, AtVersion
  <2>3. PreconditionHolds(call[c].expected, call[c].copy)
    BY <2>1 DEF CommitPatch, Grounds, AllAdmitted, Admitted, PatchAdmitted
  <2> QED
    BY <2>2, <2>3 DEF PreconditionHolds
<1>2. Grounds /\ [Next]_vars => [ConditionalStep]_vars
  BY <1>1
<1> QED
  BY <1>2, GroundsHold, PTL DEF Spec, ConditionalNeverStale

(* The agent answers by itself only a ticket that is not finished and whose *)
(* latest word of the agent's is not such an answer: a second one has a     *)
(* draft between.                                                           *)
THEOREM AnswersOnce == Spec => AutoReplyAllowed
<1>1. Grounds /\ Next => AutoReplyStep
  <2> SUFFICES ASSUME Grounds, Next, NEW c \in Caller, Commits(c, "resolve")
               PROVE  ~IsTerminal(ticket.status) /\ ticket.said # "answer"
    BY DEF AutoReplyStep
  <2>1. CommitResolve(c)
    BY CommitsIsCommit DEF Grounds
  <2>2. call[c].op = "resolve" /\ call[c].copy.version = ticket.version
    BY <2>1 DEF CommitResolve, AtVersion
  <2>3. Content(call[c].copy) = Content(ticket) /\ MayAnswer(call[c].copy)
    BY <2>2 DEF Grounds, VersionPinsContent, Versioned, AllAdmitted, Admitted
  <2>4. ~IsTerminal(ticket.status)
    BY <2>3 DEF MayAnswer, Content
  <2>5. ticket.said # "answer"
    BY <2>2, <2>3 DEF Grounds, AnswerStands, MayAnswer, Versioned
  <2> QED
    BY <2>4, <2>5
<1>2. Grounds /\ [Next]_vars => [AutoReplyStep]_vars
  BY <1>1
<1> QED
  BY <1>2, GroundsHold, PTL DEF Spec, AutoReplyAllowed

-----------------------------------------------------------------------------
(* Who writes the ticket, and what is announced.                            *)

(* The writers of the content.                                              *)
Writes(c) == CommitPatch(c) \/ CommitComment(c) \/ CommitSla(c) \/ CommitEscalate(c)
             \/ CommitResolve(c) \/ CommitApprove(c)

(* Any other step leaves the content of a ticket that is there alone, and   *)
(* announces nothing.                                                       *)
LEMMA WritersWrite ==
  ASSUME TypeOK, Next
  PROVE  \/ CreateTicket
         \/ \E c \in Caller : DeleteTicket(c)
         \/ Silent /\ life' = life /\ Content(ticket') = Content(ticket)
         \/ \E c \in Caller : Writes(c)
<1> DEFINE Kept == Silent /\ life' = life /\ Content(ticket') = Content(ticket)
<1>1. ASSUME NEW c \in Caller, CallStep(c) PROVE DeleteTicket(c) \/ Kept \/ Writes(c)
  <2>1. CASE CommitReject(c)
    BY <2>1, ProposalKeepsContent DEF CommitReject, TypeOK, ProposalStatus
  <2>2. CASE Silent /\ UNCHANGED <<life, ticket>>
    BY <2>2
  <2>3. \/ Writes(c) \/ DeleteTicket(c) \/ CommitReject(c)
        \/ Silent /\ UNCHANGED <<life, ticket>>
    BY <1>1 DEF CallStep, Progress, Writes, StartPatch, LosePatch, StartComment, StartSla,
         QuerySla, MissSla, PurgeComments, StartAgentWrite, LoseAgentWrite, StartDecision,
         LoadProposal, MissDecision, CrashCall
  <2> QED
    BY <2>1, <2>2, <2>3
<1>2. ASSUME NEW r \in Run, RunStep(r) PROVE Kept
  <2>1. CASE RecordProposal(r)
    <3>1. ticket \in TicketDoc
      BY DEF TypeOK
    <3>2. (ticket' = Proposed(ticket, r) \/ ticket' = ticket) /\ Silent /\ life' = life
      BY <2>1 DEF RecordProposal
    <3>3. ASSUME ticket' = Proposed(ticket, r) PROVE Content(ticket') = Content(ticket)
      BY <3>1, <3>3, ProposedFields, SameContent
    <3> QED
      BY <3>2, <3>3
  <2>2. CASE Silent /\ UNCHANGED <<life, ticket>>
    BY <2>2
  <2> QED
    BY <1>2, <2>1, <2>2 DEF RunStep, BeginRun, FinishRun, CrashRun
<1>3. CASE Tick
  BY <1>3 DEF Tick
<1> QED
  BY <1>1, <1>2, <1>3 DEF Next

(* The copy that a versioned write was computed from has the ticket's       *)
(* content.                                                                 *)
LEMMA CopyIsCurrent ==
  ASSUME Grounds, NEW c \in Caller, CommitPatch(c) \/ CommitEscalate(c) \/ CommitResolve(c)
  PROVE  LET b == call[c].copy IN
         /\ b.status = ticket.status /\ b.priority = ticket.priority
         /\ b.assignee = ticket.assignee /\ b.dueAt = ticket.dueAt
         /\ b.resolvedAt = ticket.resolvedAt
         /\ b.agent.triageSource = ticket.agent.triageSource
<1>1. call[c].op \in Versioned /\ call[c].copy.version = ticket.version
  BY DEF CommitPatch, CommitEscalate, CommitResolve, AtVersion, Versioned
<1>2. Content(call[c].copy) = Content(ticket)
  BY <1>1 DEF Grounds, VersionPinsContent
<1> QED
  BY <1>2 DEF Content

(* Among what an edit announces, with or without a comment, the status      *)
(* change is the one between the two copies.                                *)
Says(from, to) == IF from = to THEN {} ELSE {Event("ticket.status_changed", from, to)}
StatusIn(events) == {e \in events : e.type = "ticket.status_changed"}

(* Of an edit's events, those about the status say from where to where it   *)
(* went.                                                                    *)
LEMMA StatusEventOfEdit ==
  ASSUME NEW before, NEW after
  PROVE  /\ StatusIn(PatchEvents(before, after)) = Says(before.status, after.status)
         /\ StatusIn({Event("ticket.comment_added", None, None)}
                       \cup PatchEvents(before, after)) = Says(before.status, after.status)
<1>1. Event("ticket.comment_added", None, None).type # "ticket.status_changed"
  BY DEF Event
<1>2. \A from, to : /\ Event("ticket.assigned", from, to).type # "ticket.status_changed"
                    /\ Event("ticket.status_changed", from, to).type = "ticket.status_changed"
  BY DEF Event
<1> QED
  BY <1>1, <1>2 DEF StatusIn, Says, PatchEvents

(* Each writer announces the status change it makes.                        *)
LEMMA AnnouncedStep ==
  ASSUME Grounds, Next
  PROVE  StatusAnnouncedStep
<1> SUFFICES ASSUME Stays PROVE StatusIn(emitted') = Says(ticket.status, ticket'.status)
  BY DEF StatusAnnouncedStep, StatusEvents, StatusIn, Says
<1> USE DEF Grounds
<1>1. CASE Silent /\ Content(ticket') = Content(ticket)
  BY <1>1 DEF Silent, Content, StatusIn, Says
<1>2. ASSUME NEW c \in Caller, Writes(c)
      PROVE  StatusIn(emitted') = Says(ticket.status, ticket'.status)
  <2> DEFINE k == call[c]
  <2>1. k \in Call /\ ticket \in TicketDoc
    BY DEF TypeOK
  <2>2. ASSUME k.copy.status = ticket.status,
               \/ emitted' = PatchEvents(k.copy, ticket')
               \/ emitted' = {Event("ticket.comment_added", None, None)}
                               \cup PatchEvents(k.copy, ticket')
        PROVE  StatusIn(emitted') = Says(ticket.status, ticket'.status)
    <3>1. StatusIn(emitted') = Says(k.copy.status, ticket'.status)
      BY <2>2, StatusEventOfEdit
    <3> QED
      BY <2>2, <3>1
  <2>3. CASE CommitPatch(c) \/ CommitEscalate(c) \/ CommitResolve(c)
    <3>1. k.copy.status = ticket.status
      BY <2>3, CopyIsCurrent
    <3> QED
      BY <2>2, <2>3, <3>1 DEF CommitPatch, CommitEscalate, CommitResolve
  <2>4. CASE CommitApprove(c)
    BY <2>2, <2>4 DEF CommitApprove, Decides
  <2>5. CASE CommitComment(c)
    <3>1. CASE ResumesWork(k)
      BY <2>2, <2>5, <3>1 DEF CommitComment, ResumesWork
    <3>2. CASE ~ResumesWork(k)
      <4>1. emitted' = {Event("ticket.comment_added", None, None)} /\ ticket' = ticket
        BY <2>5, <3>2 DEF CommitComment
      <4> QED
        BY <4>1 DEF StatusIn, Says, Event
    <3> QED
      BY <3>1, <3>2
  <2>6. CASE CommitSla(c)
    <3>1. ticket'.status = ticket.status
      BY <2>1, <2>6 DEF CommitSla, Marked, TicketDoc
    <3>2. \A e \in emitted' : e.type # "ticket.status_changed"
      BY <2>6 DEF CommitSla, Event
    <3> QED
      BY <3>1, <3>2 DEF StatusIn, Says
  <2> QED
    BY <1>2, <2>3, <2>4, <2>5, <2>6 DEF Writes
<1>3. ~CreateTicket /\ \A c \in Caller : ~DeleteTicket(c)
  BY DEF CreateTicket, DeleteTicket, Stays
<1> QED
  BY <1>1, <1>2, <1>3, WritersWrite

(* Every status change is announced with the statuses it went between, and  *)
(* nothing else is announced as one.                                        *)
THEOREM ChangesAnnounced == Spec => StatusAnnounced
<1>1. Grounds /\ [Next]_vars => [StatusAnnouncedStep]_vars
  BY AnnouncedStep
<1> QED
  BY <1>1, GroundsHold, PTL DEF Spec, StatusAnnounced

-----------------------------------------------------------------------------
(* Statuses move along the table.                                           *)

(* Where a reply moves a ticket, the table has the move, and not as one     *)
(* that only an admin may make.                                             *)
LEMMA ReplyMoves ==
  ASSUME NEW s \in Status, StatusAfterReply(s) # s
  PROVE  /\ <<s, StatusAfterReply(s)>> \in StatusTransitions
         /\ <<s, StatusAfterReply(s)>> \notin AdminOnlyTransitions
  BY DEF StatusAfterReply, AgentStatus, AdminOnlyTransitions

(* Each writer moves the ticket along the table.                            *)
LEMMA WorkflowKept ==
  ASSUME Grounds, Next
  PROVE  WorkflowStep
<1> DEFINE Move == <<ticket.status, ticket'.status>>
           ByAdmin == \E c \in Caller : Commits(c, "patch") /\ call[c].role = "admin"
<1> SUFFICES ASSUME Stays, ticket.status # ticket'.status
             PROVE  Move \in StatusTransitions /\ (Move \in AdminOnlyTransitions => ByAdmin)
  BY DEF WorkflowStep
<1> USE DEF Grounds
<1>1. ~(Silent /\ Content(ticket') = Content(ticket))
  BY DEF Content
<1>2. ASSUME NEW c \in Caller, Writes(c)
      PROVE  Move \in StatusTransitions /\ (Move \in AdminOnlyTransitions => ByAdmin)
  <2> DEFINE k == call[c]
  <2>1. k \in Call /\ ticket \in TicketDoc /\ ticket.status \in Status
    BY DEF TypeOK, TicketDoc
  <2>2. CASE CommitPatch(c)
    <3>1. k.copy.status = ticket.status
      BY <2>2, CopyIsCurrent
    <3>2. ticket'.status = FieldOf(k.patch, "status", ticket.status)
      BY <2>1, <2>2 DEF CommitPatch, Patched, TicketDoc
    <3>3. "status" \in DOMAIN k.patch /\ ticket'.status = k.patch.status
      BY <3>2 DEF FieldOf
    <3>4. TransitionAllowed(ticket.status, ticket'.status, k.role)
      BY <2>2, <3>1, <3>3 DEF CommitPatch, AllAdmitted, Admitted, PatchAdmitted
    <3>5. Commits(c, "patch")
      <4>1. ticket'.version = ticket.version + 1 /\ ticket.version \in Nat
        BY <2>1, <2>2 DEF CommitPatch, Patched, TicketDoc
      <4>2. call'[c] = Idle /\ k.op = "patch"
        BY <2>2 DEF CommitPatch, Leave, TypeOK
      <4> QED
        BY <4>1, <4>2 DEF Commits
    <3> QED
      BY <3>4, <3>5 DEF TransitionAllowed
  <2>3. CASE CommitComment(c)
    <3>1. ResumesWork(k)
      BY <2>3 DEF CommitComment
    <3>2. ticket.status = "pending-user" /\ ticket'.status = "in-progress"
      BY <2>1, <2>3, <3>1 DEF CommitComment, ResumesWork, Resumed, TicketDoc
    <3> QED
      BY <3>2 DEF StatusTransitions, AdminOnlyTransitions
  <2>4. ~CommitSla(c)
    BY <2>1 DEF CommitSla, Marked, TicketDoc
  <2>5. CASE CommitEscalate(c)
    <3>1. k.copy.status = ticket.status
      BY <2>5, CopyIsCurrent
    <3>2. ticket.status = "open" /\ ticket'.status = "assigned"
      BY <2>1, <2>5, <3>1 DEF CommitEscalate, Escalated, TicketDoc
    <3> QED
      BY <3>2 DEF StatusTransitions, AdminOnlyTransitions
  <2>6. CASE CommitResolve(c)
    <3>1. k.copy.status = ticket.status
      BY <2>6, CopyIsCurrent
    <3>2. ticket'.status = StatusAfterReply(ticket.status)
      BY <2>1, <2>6, <3>1 DEF CommitResolve, Answered, TicketDoc
    <3> QED
      BY <2>1, <3>2, ReplyMoves
  <2>7. CASE CommitApprove(c)
    <3>1. k.copy.status = ticket.status
      BY <2>7 DEF CommitApprove, Decides
    <3>2. ticket'.status = StatusAfterReply(ticket.status)
      BY <2>1, <2>7, <3>1 DEF CommitApprove, Approved, TicketDoc
    <3> QED
      BY <2>1, <3>2, ReplyMoves
  <2> QED
    BY <1>2, <2>2, <2>3, <2>4, <2>5, <2>6, <2>7 DEF Writes
<1>3. ~CreateTicket /\ \A c \in Caller : ~DeleteTicket(c)
  BY DEF CreateTicket, DeleteTicket, Stays
<1> QED
  BY <1>1, <1>2, <1>3, WritersWrite

(* Whoever moves the ticket, it moves along the table, and a closed one     *)
(* only by an admin's edit.                                                 *)
THEOREM MovesAlongTheTable == Spec => WorkflowHonoured
<1>1. Grounds /\ [Next]_vars => [WorkflowStep]_vars
  BY WorkflowKept
<1> QED
  BY <1>1, GroundsHold, PTL DEF Spec, WorkflowHonoured

-----------------------------------------------------------------------------
(* A missed deadline is announced once.                                     *)

(* No writer but the SLA job announces a missed deadline, or touches its    *)
(* mark.                                                                    *)
LEMMA OthersKeepMark ==
  ASSUME TypeOK, NEW c \in Caller, Writes(c), ~CommitSla(c)
  PROVE  ~BreachAnnounced /\ ticket'.slaBreachedAt = ticket.slaBreachedAt
<1>1. ticket'.slaBreachedAt = ticket.slaBreachedAt
  BY DEF TypeOK, TicketDoc, Writes, CommitPatch, Patched, CommitComment, Resumed,
     CommitEscalate, Escalated, CommitResolve, Answered, CommitApprove, Approved
<1>2. \A b, a : \A e \in PatchEvents(b, a) : e.type # "ticket.sla_breached"
  BY DEF PatchEvents, Event
<1>3. Event("ticket.comment_added", None, None).type # "ticket.sla_breached"
  BY DEF Event
<1> QED
  BY <1>1, <1>2, <1>3 DEF Writes, BreachAnnounced, CommitPatch, CommitComment,
     CommitEscalate, CommitResolve, CommitApprove

(* Only the job's step announces a missed deadline, and only on an unmarked *)
(* ticket.                                                                  *)
LEMMA BreachKept ==
  ASSUME TypeOK, Next
  PROVE  BreachStep
<1>1. CASE CreateTicket
  BY <1>1 DEF CreateTicket, BreachStep, BreachAnnounced, Stays, Event
<1>2. ASSUME NEW c \in Caller, DeleteTicket(c) PROVE BreachStep
  BY <1>2 DEF DeleteTicket, Silent, BreachStep, BreachAnnounced, Stays
<1>3. CASE Silent /\ Content(ticket') = Content(ticket)
  BY <1>3 DEF Silent, Content, BreachStep, BreachAnnounced
<1>4. ASSUME NEW c \in Caller, Writes(c), ~CommitSla(c) PROVE BreachStep
  BY <1>4, OthersKeepMark DEF BreachStep
<1>5. ASSUME NEW c \in Caller, CommitSla(c) PROVE BreachStep
  <2> DEFINE k == call[c]
  <2>1. k \in Call /\ ticket \in TicketDoc
    BY DEF TypeOK
  <2>2. SlaApplies(k) /\ ticket' = Marked(ticket, k)
    BY <1>5 DEF CommitSla
  <2>3. CASE EscalationDue(k.copy, k.at) = "breached"
    <3>1. ~ticket.slaBreachedAt /\ ticket.priority = k.copy.priority /\ SlaRunning(ticket.status)
      BY <2>2, <2>3 DEF SlaApplies
    <3>2. ticket' = [ticket EXCEPT !.slaBreachedAt = TRUE, !.version = @ + 1,
                                   !.priority = RaisedPriority(@)]
      BY <2>1, <2>2, <2>3, <3>1 DEF Marked, TicketDoc
    <3> QED
      BY <3>1, <3>2 DEF BreachStep
  <2>4. CASE EscalationDue(k.copy, k.at) # "breached"
    <3>1. ticket'.slaBreachedAt = ticket.slaBreachedAt
      BY <2>1, <2>2, <2>4 DEF Marked, TicketDoc
    <3>2. ~BreachAnnounced
      BY <1>5, <2>4 DEF CommitSla, BreachAnnounced, Event
    <3> QED
      BY <3>1, <3>2 DEF BreachStep
  <2> QED
    BY <2>3, <2>4
<1> QED
  BY <1>1, <1>2, <1>3, <1>4, <1>5, WritersWrite

(* A ticket's missed deadline is announced at most once, by the step that   *)
(* marks it and raises its priority, however many jobs overlap.             *)
THEOREM MissedOnce == Spec => BreachedOnce
<1>1. TypeOK /\ [Next]_vars => [BreachStep]_vars
  BY BreachKept
<1> QED
  BY <1>1, TypeCorrect, PTL DEF Spec, BreachedOnce

-----------------------------------------------------------------------------
(* Who triaged the ticket.                                                  *)

(* What an edit written over the ticket it was computed from does to the    *)
(* source: the agent's edit of its triage is credited to the agent; a       *)
(* person's, to the person, where the agent had it.                         *)
LEMMA PatchedSource ==
  ASSUME NEW t \in TicketDoc, NEW k \in Call,
         k.copy.agent.triageSource = t.agent.triageSource
  PROVE  Patched(t, k).agent.triageSource =
           IF ~TouchesTriage(k.patch) THEN t.agent.triageSource
           ELSE IF k.role = "agent" THEN "agent"
           ELSE IF t.agent.triageSource = "agent" THEN "human" ELSE t.agent.triageSource
<1> DEFINE wrote == WritesAgentState(k.copy.agent, k.patch, k.role)
<1>1. k.copy \in TicketDoc /\ k.copy.agent \in AgentState /\ t.agent \in AgentState
  BY DEF Call, TicketDoc
<1>2. Patched(t, k).agent = IF wrote THEN NextAgentState(k.copy.agent, k.role, k.run)
                            ELSE t.agent
  BY DEF Patched, TicketDoc
<1>3. NextAgentState(k.copy.agent, k.role, k.run).triageSource
        = IF k.role = "agent" THEN "agent" ELSE "human"
  BY <1>1 DEF NextAgentState, AgentState
<1>4. wrote <=> TouchesTriage(k.patch) /\ (k.role = "agent" \/ t.agent.triageSource = "agent")
  BY DEF WritesAgentState
<1> QED
  BY <1>2, <1>3, <1>4

(* Each writer keeps who triaged, or credits the one who edits.             *)
LEMMA TriageKept ==
  ASSUME Grounds, Next
  PROVE  TriageStep
<1> SUFFICES ASSUME Stays
             PROVE  /\ ticket.agent.triageSource # "none" => ticket'.agent.triageSource # "none"
                    /\ ticket.agent.triageSource = "agent"
                         /\ ticket'.agent.triageSource = "agent" =>
                         \A c \in Caller : Commits(c, "patch") /\ call[c].role # "agent" =>
                           ticket'.assignee = ticket.assignee
                             /\ ticket'.priority = ticket.priority
  BY DEF TriageStep
<1> USE DEF Grounds
<1>1. ASSUME NEW c \in Caller, CommitPatch(c)
      PROVE  LET k == call[c] IN
             /\ k \in Call /\ ticket \in TicketDoc
             /\ ticket' = Patched(ticket, k)
             /\ k.copy.agent.triageSource = ticket.agent.triageSource
  BY <1>1, CopyIsCurrent DEF CommitPatch, TypeOK
<1>2. ASSUME ticket.agent.triageSource # "none" PROVE ticket'.agent.triageSource # "none"
  <2>1. CASE Silent /\ Content(ticket') = Content(ticket)
    BY <1>2, <2>1 DEF Content
  <2>2. ASSUME NEW c \in Caller, Writes(c) PROVE ticket'.agent.triageSource # "none"
    <3>1. CASE CommitPatch(c)
      BY <1>1, <1>2, <3>1, PatchedSource
    <3>2. CASE CommitEscalate(c) \/ CommitResolve(c)
      <4>1. ticket \in TicketDoc /\ call[c].copy.agent \in AgentState
        BY DEF TypeOK, Call, TicketDoc
      <4>2. \/ ticket'.agent = [call[c].copy.agent EXCEPT !.triageSource = "agent",
                                                          !.lastRunId = call[c].run]
            \/ ticket'.agent = [call[c].copy.agent EXCEPT !.triageSource = "agent",
                                                          !.lastRunId = call[c].run,
                                                          !.proposalStatus = "posted"]
        BY <3>2, <4>1 DEF CommitEscalate, Escalated, CommitResolve, Answered, TicketDoc
      <4> QED
        BY <4>1, <4>2 DEF AgentState
    <3>3. CASE CommitApprove(c)
      <4>1. PICK decision \in {"approved", "edited"} :
              ticket' = Approved(ticket, call[c], decision)
        BY <3>3 DEF CommitApprove
      <4>2. ticket'.agent = [ticket.agent EXCEPT !.proposalStatus = decision]
        BY <4>1 DEF Approved, TypeOK, TicketDoc
      <4> QED
        BY <1>2, <4>2 DEF TypeOK, TicketDoc, AgentState
    <3>4. CASE CommitComment(c) \/ CommitSla(c)
      <4>1. ticket'.agent = ticket.agent
        BY <3>4 DEF CommitComment, Resumed, CommitSla, Marked, TypeOK, TicketDoc
      <4> QED
        BY <1>2, <4>1
    <3> QED
      BY <2>2, <3>1, <3>2, <3>3, <3>4 DEF Writes
  <2>3. ~CreateTicket /\ \A c \in Caller : ~DeleteTicket(c)
    BY DEF CreateTicket, DeleteTicket, Stays
  <2> QED
    BY <2>1, <2>2, <2>3, WritersWrite
<1>3. ASSUME ticket.agent.triageSource = "agent", ticket'.agent.triageSource = "agent",
             NEW c \in Caller, Commits(c, "patch"), call[c].role # "agent"
      PROVE  ticket'.assignee = ticket.assignee /\ ticket'.priority = ticket.priority
  <2> DEFINE k == call[c]
  <2>1. CommitPatch(c)
    BY <1>3, CommitsIsCommit
  <2>2. ~TouchesTriage(k.patch)
    BY <1>1, <1>3, <2>1, PatchedSource
  <2>3. "assignee" \notin DOMAIN k.patch /\ "priority" \notin DOMAIN k.patch
    BY <2>2 DEF TouchesTriage
  <2>4. /\ ticket'.assignee = FieldOf(k.patch, "assignee", ticket.assignee)
        /\ ticket'.priority = FieldOf(k.patch, "priority", ticket.priority)
    BY <1>1, <2>1 DEF Patched, TicketDoc
  <2> QED
    BY <2>3, <2>4 DEF FieldOf
<1> QED
  BY <1>2, <1>3

(* Who triaged the ticket is never forgotten, and a person's change of the  *)
(* agent's triage is credited to the person.                                *)
THEOREM TriageIsCredited == Spec => TriageCredited
<1>1. Grounds /\ [Next]_vars => [TriageStep]_vars
  BY TriageKept
<1> QED
  BY <1>1, GroundsHold, PTL DEF Spec, TriageCredited

-----------------------------------------------------------------------------
(* The requests are served as if one after another (TicketDesk).            *)

(* The rules of the serial desk are the rules of the service. *)
LEMMA SameRules ==
  /\ Desk!NoPatch = NoPatch
  /\ \A s : Desk!IsTerminal(s) <=> IsTerminal(s)
  /\ \A s : Desk!SlaRunning(s) <=> SlaRunning(s)
  /\ \A s : Desk!StatusAfterReply(s) = StatusAfterReply(s)
  /\ \A p : Desk!DueAtFor(p) = DueAtFor(p) /\ Desk!RaisedPriority(p) = RaisedPriority(p)
  /\ \A p, f, old : Desk!FieldOf(p, f, old) = FieldOf(p, f, old)
  /\ \A p : Desk!TouchesTriage(p) <=> TouchesTriage(p)
<1>1. Desk!StatusTransitions = StatusTransitions
  BY DEF Desk!StatusTransitions, StatusTransitions
<1> QED
  BY <1>1
     DEF Desk!NoPatch, NoPatch, Desk!IsTerminal, Desk!Terminal, IsTerminal, Terminal,
         Desk!SlaRunning, Desk!SlaPaused, SlaRunning, SlaPaused, Desk!StatusAfterReply,
         Desk!AgentStatus, StatusAfterReply, AgentStatus, Desk!DueAtFor, DueAtFor,
         Desk!RaisedPriority, RaisedPriority, Desk!FieldOf, FieldOf, Desk!TouchesTriage,
         TouchesTriage

(* The desk asks of a request what the service asks.                        *)
LEMMA SamePermissions ==
  /\ \A role, p : MayMutate(role, p) => Desk!MayMutate(role, p)
  /\ \A from, to, role : TransitionAllowed(from, to, role)
                           => Desk!TransitionAllowed(from, to, role)
<1>1. Desk!StatusTransitions = StatusTransitions
        /\ Desk!AdminOnlyTransitions = AdminOnlyTransitions
  BY DEF Desk!StatusTransitions, StatusTransitions, Desk!AdminOnlyTransitions,
     AdminOnlyTransitions
<1>2. \A role, p : MayMutate(role, p) => Desk!MayMutate(role, p)
  BY DEF MayMutate, Desk!MayMutate, AgentStatus, Desk!AgentStatus
<1>3. \A from, to, role : TransitionAllowed(from, to, role)
                            => Desk!TransitionAllowed(from, to, role)
  BY <1>1 DEF TransitionAllowed, Desk!TransitionAllowed
<1> QED
  BY <1>2, <1>3

(* Before the ticket exists its document is the one every ticket starts     *)
(* from.                                                                    *)
UnbornBlank == life = "unborn" => Content(ticket) = Content(BlankTicket)

(* A ticket that does not exist yet stays blank.                            *)
LEMMA BlankStep == Grounds /\ UnbornBlank /\ [Next]_vars => UnbornBlank'
<1> SUFFICES ASSUME Grounds, UnbornBlank, [Next]_vars, life' = "unborn"
             PROVE  Content(ticket') = Content(BlankTicket)
  BY DEF UnbornBlank
<1>1. CASE Silent /\ life' = life /\ Content(ticket') = Content(ticket)
  BY <1>1 DEF UnbornBlank
<1>2. ~CreateTicket /\ \A c \in Caller : ~DeleteTicket(c)
  BY DEF CreateTicket, DeleteTicket
<1>3. ASSUME NEW c \in Caller, Writes(c) PROVE FALSE
  <2>1. call[c].op # "idle" /\ life = "unborn"
    BY <1>3 DEF Writes, CommitPatch, CommitComment, CommitSla, CommitEscalate, CommitResolve,
         CommitApprove
  <2> QED
    BY <2>1 DEF Grounds, UnbornQuiet, Idle
<1>4. CASE UNCHANGED vars
  BY <1>4 DEF vars, UnbornBlank
<1> QED
  BY <1>1, <1>2, <1>3, <1>4, WritersWrite DEF Grounds

(* What an edit leaves of a ticket whose content is that of its copy, field *)
(* by field, as the serial desk says it.                                    *)
LEMMA PatchedFields ==
  ASSUME NEW t \in TicketDoc, NEW k \in Call, k.copy.status = t.status,
         k.copy.priority = t.priority, k.copy.resolvedAt = t.resolvedAt, Dated(t)
  PROVE  LET u == Patched(t, k)
             p == k.patch
             status == FieldOf(p, "status", t.status)
         IN /\ u.status = status
            /\ u.priority = FieldOf(p, "priority", t.priority)
            /\ u.assignee = FieldOf(p, "assignee", t.assignee)
            /\ u.dueAt = FieldOf(p, "dueAt",
                                 IF FieldOf(p, "priority", t.priority) # t.priority
                                 THEN DueAtFor(p.priority) ELSE t.dueAt)
            /\ u.resolvedAt = IF IsTerminal(t.status) /\ IsTerminal(status) THEN t.resolvedAt
                              ELSE IF IsTerminal(status) THEN k.at ELSE None
            /\ u.slaAtRiskAt = t.slaAtRiskAt
            /\ u.slaBreachedAt = t.slaBreachedAt
<1> DEFINE u == Patched(t, k)
           p == k.patch
           status == FieldOf(p, "status", t.status)
<1>1. /\ u.status = status
      /\ u.priority = FieldOf(p, "priority", t.priority)
      /\ u.assignee = FieldOf(p, "assignee", t.assignee)
      /\ u.dueAt = IF NewTarget(k.copy, p) THEN DueAtFor(p.priority)
                   ELSE FieldOf(p, "dueAt", t.dueAt)
      /\ u.resolvedAt = CASE Resolves(k.copy, p) -> k.at
                          [] Reopens(k.copy, p) -> None
                          [] OTHER -> t.resolvedAt
      /\ u.slaAtRiskAt = t.slaAtRiskAt
      /\ u.slaBreachedAt = t.slaBreachedAt
  BY DEF Patched, TicketDoc
<1>2. u.dueAt = FieldOf(p, "dueAt", IF FieldOf(p, "priority", t.priority) # t.priority
                                    THEN DueAtFor(p.priority) ELSE t.dueAt)
  BY <1>1 DEF NewTarget, FieldOf
<1>3. u.resolvedAt = IF IsTerminal(t.status) /\ IsTerminal(status) THEN t.resolvedAt
                     ELSE IF IsTerminal(status) THEN k.at ELSE None
  <2>1. IsTerminal(t.status) <=> t.resolvedAt # None
    BY DEF Dated
  <2>2. CASE "status" \notin DOMAIN p
    <3>1. ~Resolves(k.copy, p) /\ ~Reopens(k.copy, p) /\ status = t.status
      BY <2>2 DEF Resolves, Reopens, FieldOf
    <3> QED
      BY <1>1, <2>1, <3>1
  <2>3. CASE "status" \in DOMAIN p
    <3>1. /\ status = p.status
          /\ Resolves(k.copy, p) <=> IsTerminal(status) /\ ~IsTerminal(t.status)
          /\ Reopens(k.copy, p) <=> ~IsTerminal(status) /\ IsTerminal(t.status)
      BY <2>1, <2>3 DEF Resolves, Reopens, FieldOf
    <3> QED
      BY <1>1, <2>1, <3>1
  <2> QED
    BY <2>2, <2>3
<1> QED
  BY <1>1, <1>2, <1>3

(* The desk's document of a ticket, field by field; two that agree in every *)
(* field are one.                                                           *)
DeskDoc == [status : Status, priority : Priority, assignee : Owner, dueAt : Nat,
            resolvedAt : Nat \cup {None}, slaAtRiskAt : BOOLEAN, slaBreachedAt : BOOLEAN,
            triageSource : TriageSource]

(* The content has the document's fields.                                   *)
LEMMA ContentFields ==
  ASSUME NEW t
  PROVE  /\ Content(t).status = t.status /\ Content(t).priority = t.priority
         /\ Content(t).assignee = t.assignee /\ Content(t).dueAt = t.dueAt
         /\ Content(t).resolvedAt = t.resolvedAt /\ Content(t).slaAtRiskAt = t.slaAtRiskAt
         /\ Content(t).slaBreachedAt = t.slaBreachedAt
         /\ Content(t).triageSource = t.agent.triageSource
  BY DEF Content

(* The content of a document is a document of the desk.                     *)
LEMMA ContentType ==
  ASSUME NEW t \in TicketDoc
  PROVE  Content(t) \in DeskDoc
<1>1. t.agent.triageSource \in TriageSource
  BY DEF TicketDoc, AgentState
<1> QED
  BY <1>1 DEF Content, DeskDoc, TicketDoc

(* Two documents of the desk with the same fields are one.                  *)
LEMMA SameDoc ==
  ASSUME NEW d \in DeskDoc, NEW e \in DeskDoc, d.status = e.status,
         d.priority = e.priority, d.assignee = e.assignee, d.dueAt = e.dueAt,
         d.resolvedAt = e.resolvedAt, d.slaAtRiskAt = e.slaAtRiskAt,
         d.slaBreachedAt = e.slaBreachedAt, d.triageSource = e.triageSource
  PROVE  d = e
  BY DEF DeskDoc

(* An edit is one the desk accepts for the ticket as it is.                 *)
LEMMA EditIsServed ==
  ASSUME Grounds, ResolvedAtIffTerminal, NEW c \in Caller, CommitPatch(c)
  PROVE  Desk!Next
<1> USE DEF Grounds
<1> DEFINE k == call[c]
           p == k.patch
           status == FieldOf(p, "status", ticket.status)
<1>0. ticket' \in TicketDoc
  BY PatchedType DEF CommitPatch, TypeOK
<1>1. /\ k \in Call /\ ticket \in TicketDoc /\ ticket' = Patched(ticket, k)
      /\ life = "live" /\ life' = life /\ k.op = "patch"
  BY DEF CommitPatch, AtVersion, TypeOK
<1>2. /\ k.copy.status = ticket.status /\ k.copy.priority = ticket.priority
      /\ k.copy.assignee = ticket.assignee /\ k.copy.resolvedAt = ticket.resolvedAt
      /\ k.copy.agent.triageSource = ticket.agent.triageSource
  BY CopyIsCurrent
<1>3. Dated(ticket)
  BY <1>1 DEF ResolvedAtIffTerminal, Dated
<1>4. /\ k.role \in StaffRole \cup {"user", "agent"} /\ p \in Patch /\ k.at \in 0..MaxTime
      /\ PatchAdmitted(k.role, p, k.expected, k.copy)
  BY <1>1 DEF AllAdmitted, Admitted
<1>5. /\ MayMutate(k.role, p)
      /\ TransitionAllowed(ticket.status, status, k.role)
      /\ "status" \in DOMAIN p /\ status = "assigned" =>
           FieldOf(p, "assignee", ticket.assignee) # Unassigned
  BY <1>2, <1>4 DEF PatchAdmitted, TransitionAllowed, FieldOf
<1>6. /\ ticket'.status = status
      /\ ticket'.priority = FieldOf(p, "priority", ticket.priority)
      /\ ticket'.assignee = FieldOf(p, "assignee", ticket.assignee)
      /\ ticket'.dueAt = FieldOf(p, "dueAt",
                                 IF FieldOf(p, "priority", ticket.priority) # ticket.priority
                                 THEN DueAtFor(p.priority) ELSE ticket.dueAt)
      /\ ticket'.resolvedAt = IF IsTerminal(ticket.status) /\ IsTerminal(status)
                              THEN ticket.resolvedAt
                              ELSE IF IsTerminal(status) THEN k.at ELSE None
      /\ ticket'.slaAtRiskAt = ticket.slaAtRiskAt
      /\ ticket'.slaBreachedAt = ticket.slaBreachedAt
  BY <1>1, <1>2, <1>3, PatchedFields
<1>7. ticket'.agent.triageSource =
        IF ~TouchesTriage(p) THEN ticket.agent.triageSource
        ELSE IF k.role = "agent" THEN "agent"
        ELSE IF ticket.agent.triageSource = "agent" THEN "human"
        ELSE ticket.agent.triageSource
  BY <1>1, <1>2, PatchedSource
<1> DEFINE owner == FieldOf(p, "assignee", ticket.assignee)
           priority == FieldOf(p, "priority", ticket.priority)
           due == FieldOf(p, "dueAt", IF priority # ticket.priority
                                      THEN DueAtFor(p.priority) ELSE ticket.dueAt)
           dated == IF IsTerminal(ticket.status) /\ IsTerminal(status) THEN ticket.resolvedAt
                    ELSE IF IsTerminal(status) THEN k.at ELSE None
           source == IF ~TouchesTriage(p) THEN ticket.agent.triageSource
                     ELSE IF k.role = "agent" THEN "agent"
                     ELSE IF ticket.agent.triageSource = "agent" THEN "human"
                     ELSE ticket.agent.triageSource
<1>8. /\ Desk!FieldOf(p, "status", Content(ticket).status) = status
      /\ Desk!FieldOf(p, "assignee", Content(ticket).assignee) = owner
      /\ Desk!FieldOf(p, "priority", Content(ticket).priority) = priority
      /\ Desk!FieldOf(p, "dueAt", IF priority # ticket.priority
                                  THEN Desk!DueAtFor(p.priority) ELSE ticket.dueAt) = due
      /\ (IF IsTerminal(ticket.status) /\ IsTerminal(status) THEN ticket.resolvedAt
          ELSE Desk!Stamped(status, k.at)) = dated
      /\ (CASE ~Desk!TouchesTriage(p) -> ticket.agent.triageSource
            [] Desk!TouchesTriage(p) /\ k.role = "agent" -> "agent"
            [] OTHER -> IF ticket.agent.triageSource = "agent" THEN "human"
                        ELSE ticket.agent.triageSource) = source
      /\ \A s : Desk!IsTerminal(s) <=> IsTerminal(s)
  BY SameRules, ContentFields DEF Desk!Stamped
<1>9. /\ ticket'.status = status /\ ticket'.priority = priority /\ ticket'.assignee = owner
      /\ ticket'.dueAt = due /\ ticket'.resolvedAt = dated
      /\ ticket'.agent.triageSource = source
      /\ ticket'.slaAtRiskAt = ticket.slaAtRiskAt
      /\ ticket'.slaBreachedAt = ticket.slaBreachedAt
  BY <1>6, <1>7
<1>10. /\ Desk!MayMutate(k.role, p)
       /\ Desk!TransitionAllowed(ticket.status, status, k.role)
       /\ "status" \in DOMAIN p /\ status = "assigned" => owner # Unassigned
  BY <1>5, SamePermissions
<1> HIDE DEF k, p, status, owner, priority, due, dated, source
<1>11. Content(ticket') =
         [Content(ticket) EXCEPT !.status = status, !.assignee = owner, !.priority = priority,
                                 !.dueAt = due, !.resolvedAt = dated,
                                 !.triageSource = source]
  <2> DEFINE d == Content(ticket)
             e == [d EXCEPT !.status = status, !.assignee = owner, !.priority = priority,
                            !.dueAt = due, !.resolvedAt = dated, !.triageSource = source]
  <2>1. d \in DeskDoc /\ Content(ticket') \in DeskDoc
    BY <1>0, <1>1, ContentType
  <2>2. /\ status \in Status /\ owner \in Owner /\ priority \in Priority /\ due \in Nat
        /\ dated \in Nat \cup {None} /\ source \in TriageSource
    BY <1>9, <2>1, ContentFields DEF DeskDoc
  <2> HIDE DEF d
  <2>3. e \in DeskDoc
    BY <2>1, <2>2 DEF DeskDoc
  <2>4. /\ e.status = status /\ e.priority = priority /\ e.assignee = owner /\ e.dueAt = due
        /\ e.resolvedAt = dated /\ e.slaAtRiskAt = d.slaAtRiskAt
        /\ e.slaBreachedAt = d.slaBreachedAt /\ e.triageSource = source
    BY <2>1, <2>2 DEF DeskDoc
  <2> HIDE DEF e
  <2>5. Content(ticket') = e
    BY <1>9, <2>1, <2>3, <2>4, SameDoc, ContentFields DEF d
  <2> QED
    BY <2>5 DEF d, e
<1>12. Desk!Edit(k.role, p, k.at)
  BY <1>1, <1>8, <1>10, <1>11, ContentFields DEF Desk!Edit
<1> QED
  BY <1>4, <1>12 DEF Desk!Next

(* The other ways the desk writes a document, told from the fields.         *)
LEMMA DeskWrites ==
  ASSUME NEW d \in DeskDoc, NEW e \in DeskDoc, e.dueAt = d.dueAt, e.resolvedAt = d.resolvedAt
  PROVE  /\ /\ e.priority = d.priority /\ e.assignee = d.assignee
            /\ e.slaAtRiskAt = d.slaAtRiskAt /\ e.slaBreachedAt = d.slaBreachedAt
            => /\ e.triageSource = d.triageSource => e = [d EXCEPT !.status = e.status]
               /\ e = [d EXCEPT !.status = e.status, !.triageSource = e.triageSource]
         /\ /\ e.priority = d.priority
            /\ e.slaAtRiskAt = d.slaAtRiskAt /\ e.slaBreachedAt = d.slaBreachedAt
            => e = [d EXCEPT !.assignee = e.assignee, !.status = e.status,
                             !.triageSource = e.triageSource]
         /\ /\ e.status = d.status /\ e.assignee = d.assignee
            /\ e.triageSource = d.triageSource
            => /\ e.slaAtRiskAt = d.slaAtRiskAt
                  => e = [d EXCEPT !.slaBreachedAt = e.slaBreachedAt, !.priority = e.priority]
               /\ e.slaBreachedAt = d.slaBreachedAt /\ e.priority = d.priority
                  => e = [d EXCEPT !.slaAtRiskAt = e.slaAtRiskAt]
<1>0. PICK status \in Status, priority \in Priority, owner \in Owner, source \in TriageSource,
           atRisk \in BOOLEAN, breached \in BOOLEAN :
        /\ e.status = status /\ e.priority = priority /\ e.assignee = owner
        /\ e.triageSource = source /\ e.slaAtRiskAt = atRisk /\ e.slaBreachedAt = breached
  BY DEF DeskDoc
<1>1. ASSUME e.priority = d.priority, e.assignee = d.assignee, e.slaAtRiskAt = d.slaAtRiskAt,
             e.slaBreachedAt = d.slaBreachedAt, e.triageSource = d.triageSource
      PROVE  e = [d EXCEPT !.status = status]
  <2> DEFINE w == [d EXCEPT !.status = status]
  <2>1. /\ w \in DeskDoc /\ w.status = status /\ w.priority = d.priority
        /\ w.assignee = d.assignee /\ w.dueAt = d.dueAt /\ w.resolvedAt = d.resolvedAt
        /\ w.slaAtRiskAt = d.slaAtRiskAt /\ w.slaBreachedAt = d.slaBreachedAt
        /\ w.triageSource = d.triageSource
    BY DEF DeskDoc
  <2> HIDE DEF w
  <2>2. e = w
    BY <1>0, <1>1, <2>1, SameDoc
  <2> QED
    BY <2>2 DEF w
<1>2. ASSUME e.priority = d.priority, e.assignee = d.assignee, e.slaAtRiskAt = d.slaAtRiskAt,
             e.slaBreachedAt = d.slaBreachedAt
      PROVE  e = [d EXCEPT !.status = status, !.triageSource = source]
  <2> DEFINE w == [d EXCEPT !.status = status, !.triageSource = source]
  <2>1. /\ w \in DeskDoc /\ w.status = status /\ w.priority = d.priority
        /\ w.assignee = d.assignee /\ w.dueAt = d.dueAt /\ w.resolvedAt = d.resolvedAt
        /\ w.slaAtRiskAt = d.slaAtRiskAt /\ w.slaBreachedAt = d.slaBreachedAt
        /\ w.triageSource = source
    BY DEF DeskDoc
  <2> HIDE DEF w
  <2>2. e = w
    BY <1>0, <1>2, <2>1, SameDoc
  <2> QED
    BY <2>2 DEF w
<1>3. ASSUME e.priority = d.priority, e.slaAtRiskAt = d.slaAtRiskAt,
             e.slaBreachedAt = d.slaBreachedAt
      PROVE  e = [d EXCEPT !.assignee = owner, !.status = status, !.triageSource = source]
  <2> DEFINE w == [d EXCEPT !.assignee = owner, !.status = status, !.triageSource = source]
  <2>1. /\ w \in DeskDoc /\ w.status = status /\ w.priority = d.priority
        /\ w.assignee = owner /\ w.dueAt = d.dueAt /\ w.resolvedAt = d.resolvedAt
        /\ w.slaAtRiskAt = d.slaAtRiskAt /\ w.slaBreachedAt = d.slaBreachedAt
        /\ w.triageSource = source
    BY DEF DeskDoc
  <2> HIDE DEF w
  <2>2. e = w
    BY <1>0, <1>3, <2>1, SameDoc
  <2> QED
    BY <2>2 DEF w
<1>4. ASSUME e.status = d.status, e.assignee = d.assignee, e.triageSource = d.triageSource,
             e.slaAtRiskAt = d.slaAtRiskAt
      PROVE  e = [d EXCEPT !.slaBreachedAt = breached, !.priority = priority]
  <2> DEFINE w == [d EXCEPT !.slaBreachedAt = breached, !.priority = priority]
  <2>1. w \in DeskDoc
    BY DEF DeskDoc
  <2>2. /\ w.status = d.status /\ w.priority = priority
        /\ w.assignee = d.assignee /\ w.dueAt = d.dueAt /\ w.resolvedAt = d.resolvedAt
        /\ w.slaAtRiskAt = d.slaAtRiskAt /\ w.slaBreachedAt = breached
        /\ w.triageSource = d.triageSource
    BY DEF DeskDoc
  <2> HIDE DEF w
  <2>3. e = w
    BY <1>0, <1>4, <2>1, <2>2, SameDoc
  <2> QED
    BY <2>3 DEF w
<1>5. ASSUME e.status = d.status, e.assignee = d.assignee, e.triageSource = d.triageSource,
             e.slaBreachedAt = d.slaBreachedAt, e.priority = d.priority
      PROVE  e = [d EXCEPT !.slaAtRiskAt = atRisk]
  <2> DEFINE w == [d EXCEPT !.slaAtRiskAt = atRisk]
  <2>1. w \in DeskDoc
    BY DEF DeskDoc
  <2>2. /\ w.status = d.status /\ w.priority = d.priority
        /\ w.assignee = d.assignee /\ w.dueAt = d.dueAt /\ w.resolvedAt = d.resolvedAt
        /\ w.slaAtRiskAt = atRisk /\ w.slaBreachedAt = d.slaBreachedAt
        /\ w.triageSource = d.triageSource
    BY DEF DeskDoc
  <2> HIDE DEF w
  <2>3. e = w
    BY <1>0, <1>5, <2>1, <2>2, SameDoc
  <2> QED
    BY <2>3 DEF w
<1> QED
  BY <1>0, <1>1, <1>2, <1>3, <1>4, <1>5

(* The other writers of the content are the desk's other actions. *)
LEMMA OtherIsServed ==
  ASSUME Grounds, NEW c \in Caller, Writes(c), ~CommitPatch(c)
  PROVE  Desk!Next \/ UNCHANGED Desk!deskVars
<1> USE DEF Grounds
<1> DEFINE k == call[c]
           d == Content(ticket)
           e == Content(ticket')
<1>0. k \in Call /\ ticket \in TicketDoc /\ ticket' \in TicketDoc
  <2>1. TypeOK'
    BY TypeStep DEF Writes, Next, CallStep, Progress
  <2> QED
    BY <2>1 DEF TypeOK
<1>1. d \in DeskDoc /\ e \in DeskDoc
  BY <1>0, ContentType
<1>2. CASE CommitComment(c)
  <2>1. CASE ResumesWork(k)
    <3>1. /\ life = "live" /\ life' = life /\ ticket.status = "pending-user"
          /\ ticket' = Resumed(ticket)
      BY <1>2, <2>1 DEF CommitComment, ResumesWork
    <3>2. /\ ticket'.status = "in-progress" /\ ticket'.priority = ticket.priority
          /\ ticket'.assignee = ticket.assignee /\ ticket'.dueAt = ticket.dueAt
          /\ ticket'.resolvedAt = ticket.resolvedAt
          /\ ticket'.slaAtRiskAt = ticket.slaAtRiskAt
          /\ ticket'.slaBreachedAt = ticket.slaBreachedAt /\ ticket'.agent = ticket.agent
      BY <1>0, <3>1 DEF Resumed, TicketDoc
    <3>3. /\ e.status = "in-progress" /\ e.priority = d.priority
          /\ e.assignee = d.assignee /\ e.dueAt = d.dueAt
          /\ e.resolvedAt = d.resolvedAt /\ e.slaAtRiskAt = d.slaAtRiskAt
          /\ e.slaBreachedAt = d.slaBreachedAt /\ e.triageSource = d.triageSource
          /\ d.status = "pending-user"
      BY <3>1, <3>2, ContentFields
    <3> HIDE DEF d, e
    <3>4. e = [d EXCEPT !.status = e.status]
      BY <1>1, <3>3, DeskWrites
    <3>5. e = [d EXCEPT !.status = "in-progress"]
      BY <3>3, <3>4
    <3> QED
      BY <3>1, <3>3, <3>5 DEF Desk!Next, Desk!Answer, d, e
  <2>2. CASE ~ResumesWork(k)
    BY <1>2, <2>2 DEF CommitComment, Desk!deskVars
  <2> QED
    BY <2>1, <2>2
<1>3. CASE CommitSla(c)
  <2>1. /\ life = "live" /\ life' = life /\ SlaRunning(ticket.status)
        /\ ticket' = Marked(ticket, k) /\ SlaApplies(k)
    BY <1>3 DEF CommitSla, SlaApplies
  <2>2. /\ ticket'.status = ticket.status /\ ticket'.assignee = ticket.assignee
        /\ ticket'.dueAt = ticket.dueAt /\ ticket'.resolvedAt = ticket.resolvedAt
        /\ ticket'.agent = ticket.agent
    BY <1>0, <2>1 DEF Marked, TicketDoc
  <2>3. Desk!SlaRunning(d.status)
    BY <2>1, SameRules, ContentFields
  <2>4. CASE EscalationDue(k.copy, k.at) = "breached"
    <3>1. /\ ~ticket.slaBreachedAt /\ ticket'.slaBreachedAt = TRUE
          /\ ticket'.slaAtRiskAt = ticket.slaAtRiskAt
          /\ ticket'.priority = RaisedPriority(ticket.priority)
      BY <1>0, <2>1, <2>4 DEF SlaApplies, Marked, TicketDoc
    <3>2. /\ e.status = d.status /\ e.assignee = d.assignee /\ e.dueAt = d.dueAt
          /\ e.resolvedAt = d.resolvedAt /\ e.triageSource = d.triageSource
          /\ e.slaAtRiskAt = d.slaAtRiskAt /\ ~d.slaBreachedAt /\ e.slaBreachedAt = TRUE
          /\ e.priority = Desk!RaisedPriority(d.priority)
      BY <2>2, <3>1, SameRules, ContentFields
    <3> HIDE DEF d, e
    <3>3. e = [d EXCEPT !.slaBreachedAt = e.slaBreachedAt, !.priority = e.priority]
      BY <1>1, <3>2, DeskWrites
    <3>4. e = [d EXCEPT !.slaBreachedAt = TRUE, !.priority = Desk!RaisedPriority(d.priority)]
      BY <3>2, <3>3
    <3> QED
      BY <2>1, <2>3, <3>2, <3>4 DEF Desk!Next, Desk!Milestone, d, e
  <2>5. CASE EscalationDue(k.copy, k.at) # "breached"
    <3>1. /\ ~ticket.slaAtRiskAt /\ ticket'.slaAtRiskAt = TRUE
          /\ ticket'.slaBreachedAt = ticket.slaBreachedAt
          /\ ticket'.priority = ticket.priority
      BY <1>0, <2>1, <2>5 DEF SlaApplies, Marked, TicketDoc
    <3>2. /\ e.status = d.status /\ e.assignee = d.assignee /\ e.dueAt = d.dueAt
          /\ e.resolvedAt = d.resolvedAt /\ e.triageSource = d.triageSource
          /\ e.slaBreachedAt = d.slaBreachedAt /\ e.priority = d.priority
          /\ ~d.slaAtRiskAt /\ e.slaAtRiskAt = TRUE
      BY <2>2, <3>1, ContentFields
    <3> HIDE DEF d, e
    <3>3. e = [d EXCEPT !.slaAtRiskAt = e.slaAtRiskAt]
      BY <1>1, <3>2, DeskWrites
    <3>4. e = [d EXCEPT !.slaAtRiskAt = TRUE]
      BY <3>2, <3>3
    <3> QED
      BY <2>1, <2>3, <3>2, <3>4 DEF Desk!Next, Desk!Milestone, d, e
  <2> QED
    BY <2>4, <2>5
<1>4. CASE CommitEscalate(c)
  <2>1. PICK group \in Group : ticket' = Escalated(ticket, k, group)
    BY <1>4 DEF CommitEscalate
  <2>2. life = "live" /\ life' = life /\ k.copy.status = ticket.status
    BY <1>4, CopyIsCurrent DEF CommitEscalate, AtVersion
  <2>3. /\ ticket'.assignee = group
        /\ ticket'.status = IF ticket.status = "open" THEN "assigned" ELSE ticket.status
        /\ ticket'.agent = [k.copy.agent EXCEPT !.triageSource = "agent", !.lastRunId = k.run]
        /\ ticket'.priority = ticket.priority /\ ticket'.dueAt = ticket.dueAt
        /\ ticket'.resolvedAt = ticket.resolvedAt
        /\ ticket'.slaAtRiskAt = ticket.slaAtRiskAt
        /\ ticket'.slaBreachedAt = ticket.slaBreachedAt
    BY <1>0, <2>1, <2>2 DEF Escalated, TicketDoc
  <2>4. ticket'.agent.triageSource = "agent"
    BY <1>0, <2>3 DEF Call, TicketDoc, AgentState
  <2>5. /\ e.assignee = group /\ e.triageSource = "agent"
        /\ e.status = IF d.status = "open" THEN "assigned" ELSE d.status
        /\ e.priority = d.priority /\ e.dueAt = d.dueAt
        /\ e.resolvedAt = d.resolvedAt /\ e.slaAtRiskAt = d.slaAtRiskAt
        /\ e.slaBreachedAt = d.slaBreachedAt
    BY <2>3, <2>4, ContentFields
  <2> HIDE DEF d, e
  <2>6. e = [d EXCEPT !.assignee = e.assignee, !.status = e.status,
                      !.triageSource = e.triageSource]
    BY <1>1, <2>5, DeskWrites
  <2>7. e = [d EXCEPT !.assignee = group,
                      !.status = IF d.status = "open" THEN "assigned" ELSE d.status,
                      !.triageSource = "agent"]
    BY <2>5, <2>6
  <2> QED
    BY <2>2, <2>7 DEF Desk!Next, Desk!HandOver, d, e
<1>5. CASE CommitResolve(c)
  <2>1. /\ life = "live" /\ life' = life /\ k.copy.status = ticket.status
        /\ ticket' = Answered(ticket, k) /\ k.op = "resolve"
    BY <1>5, CopyIsCurrent DEF CommitResolve, AtVersion
  <2>2. /\ ticket'.status = StatusAfterReply(ticket.status)
        /\ ticket'.agent = [k.copy.agent EXCEPT !.triageSource = "agent", !.lastRunId = k.run,
                                                !.proposalStatus = "posted"]
        /\ ticket'.priority = ticket.priority /\ ticket'.dueAt = ticket.dueAt
        /\ ticket'.assignee = ticket.assignee /\ ticket'.resolvedAt = ticket.resolvedAt
        /\ ticket'.slaAtRiskAt = ticket.slaAtRiskAt
        /\ ticket'.slaBreachedAt = ticket.slaBreachedAt
    BY <1>0, <2>1 DEF Answered, TicketDoc
  <2>3. ticket'.agent.triageSource = "agent"
    BY <1>0, <2>2 DEF Call, TicketDoc, AgentState
  <2>4. ~IsTerminal(ticket.status)
    BY <2>1 DEF AllAdmitted, Admitted, MayAnswer
  <2>5. /\ ~Desk!IsTerminal(d.status) /\ e.triageSource = "agent"
        /\ e.status = Desk!StatusAfterReply(d.status)
        /\ e.priority = d.priority /\ e.assignee = d.assignee /\ e.dueAt = d.dueAt
        /\ e.resolvedAt = d.resolvedAt /\ e.slaAtRiskAt = d.slaAtRiskAt
        /\ e.slaBreachedAt = d.slaBreachedAt
    BY <2>2, <2>3, <2>4, SameRules, ContentFields
  <2> HIDE DEF d, e
  <2>6. e = [d EXCEPT !.status = e.status, !.triageSource = e.triageSource]
    BY <1>1, <2>5, DeskWrites
  <2>7. e = [d EXCEPT !.status = Desk!StatusAfterReply(d.status), !.triageSource = "agent"]
    BY <2>5, <2>6
  <2> QED
    BY <2>1, <2>5, <2>7 DEF Desk!Next, Desk!Reply, d, e
<1>6. CASE CommitApprove(c)
  <2>1. PICK decision \in {"approved", "edited"} : ticket' = Approved(ticket, k, decision)
    BY <1>6 DEF CommitApprove
  <2>2. life = "live" /\ life' = life /\ k.copy.status = ticket.status
    BY <1>6 DEF CommitApprove, Decides
  <2>3. /\ ticket'.status = StatusAfterReply(ticket.status)
        /\ ticket'.agent = [ticket.agent EXCEPT !.proposalStatus = decision]
        /\ ticket'.priority = ticket.priority /\ ticket'.dueAt = ticket.dueAt
        /\ ticket'.assignee = ticket.assignee /\ ticket'.resolvedAt = ticket.resolvedAt
        /\ ticket'.slaAtRiskAt = ticket.slaAtRiskAt
        /\ ticket'.slaBreachedAt = ticket.slaBreachedAt
    BY <1>0, <2>1, <2>2 DEF Approved, TicketDoc
  <2>4. ticket'.agent.triageSource = ticket.agent.triageSource
    BY <1>0, <2>3 DEF TicketDoc, AgentState
  <2>5. /\ e.status = Desk!StatusAfterReply(d.status) /\ e.triageSource = d.triageSource
        /\ e.priority = d.priority /\ e.assignee = d.assignee /\ e.dueAt = d.dueAt
        /\ e.resolvedAt = d.resolvedAt /\ e.slaAtRiskAt = d.slaAtRiskAt
        /\ e.slaBreachedAt = d.slaBreachedAt
    BY <2>3, <2>4, SameRules, ContentFields
  <2> HIDE DEF d, e
  <2>6. e = [d EXCEPT !.status = e.status]
    BY <1>1, <2>5, DeskWrites
  <2>7. e = [d EXCEPT !.status = Desk!StatusAfterReply(d.status)]
    BY <2>5, <2>6
  <2> QED
    BY <2>2, <2>7 DEF Desk!Next, Desk!Reply, d, e
<1> QED
  BY <1>2, <1>3, <1>4, <1>5, <1>6 DEF Writes

(* Creating the ticket is raising it. *)
LEMMA CreationIsServed ==
  ASSUME Grounds, UnbornBlank, CreateTicket
  PROVE  Desk!Next
<1>1. PICK role \in StaffRole \cup {"user"}, fields \in Patch \cup {NoPatch} :
        ticket' = Raised(role, fields)
  BY DEF CreateTicket
<1>2. life = "unborn" /\ life' = "live" /\ Content(ticket) = Content(BlankTicket)
  BY DEF CreateTicket, UnbornBlank
<1> DEFINE status == IF role = "user" THEN "open" ELSE FieldOf(fields, "status", "open")
           priority == FieldOf(fields, "priority", "medium")
           owner == IF role = "user" THEN Unassigned
                    ELSE FieldOf(fields, "assignee", Unassigned)
           due == FieldOf(fields, "dueAt", DueAtFor(priority))
           dated == IF IsTerminal(status) THEN now ELSE None
           d == Content(ticket)
           e == Content(ticket')
<1>3. /\ ticket'.status = status /\ ticket'.priority = priority /\ ticket'.assignee = owner
      /\ ticket'.dueAt = due /\ ticket'.resolvedAt = dated
      /\ ticket'.slaAtRiskAt = FALSE /\ ticket'.slaBreachedAt = FALSE
      /\ ticket'.agent.triageSource = "none"
  BY <1>1 DEF Raised, BlankTicket, NoAgentState
<1>4. /\ d.slaAtRiskAt = FALSE /\ d.slaBreachedAt = FALSE /\ d.triageSource = "none"
  BY <1>2 DEF Content, BlankTicket, NoAgentState
<1>5. d \in DeskDoc /\ e \in DeskDoc
  <2>1. role \in Role
    BY TicketsAssumption DEF Role, PersonRole
  <2>2. ticket' \in TicketDoc
    BY <1>1, <2>1, RaisedType DEF Grounds, TypeOK
  <2> QED
    BY <2>2, ContentType DEF Grounds, TypeOK
<1>6. /\ e.status = status /\ e.priority = priority /\ e.assignee = owner /\ e.dueAt = due
      /\ e.resolvedAt = dated /\ e.slaAtRiskAt = d.slaAtRiskAt
      /\ e.slaBreachedAt = d.slaBreachedAt /\ e.triageSource = d.triageSource
  BY <1>3, <1>4, ContentFields
<1>7. /\ Desk!FieldOf(IF role = "user" THEN Desk!NoPatch ELSE fields, "status", "open") = status
      /\ Desk!FieldOf(fields, "priority", "medium") = priority
      /\ Desk!FieldOf(IF role = "user" THEN Desk!NoPatch ELSE fields, "assignee", Unassigned)
           = owner
      /\ Desk!FieldOf(fields, "dueAt", Desk!DueAtFor(priority)) = due
      /\ Desk!Stamped(status, now) = dated
  <2>1. DOMAIN NoPatch = {}
    BY DEF NoPatch
  <2> QED
    BY <2>1, SameRules DEF FieldOf, Desk!Stamped
<1> HIDE DEF status, priority, owner, due, dated, d, e
<1>8. e = [d EXCEPT !.status = status, !.assignee = owner, !.priority = priority,
                    !.dueAt = due, !.resolvedAt = dated]
  <2> DEFINE w == [d EXCEPT !.status = status, !.assignee = owner, !.priority = priority,
                            !.dueAt = due, !.resolvedAt = dated]
  <2>1. /\ status \in Status /\ owner \in Owner /\ priority \in Priority /\ due \in Nat
        /\ dated \in Nat \cup {None}
    BY <1>5, <1>6 DEF DeskDoc
  <2>2. w \in DeskDoc
    BY <1>5, <2>1 DEF DeskDoc
  <2>3. /\ w.status = status /\ w.priority = priority /\ w.assignee = owner /\ w.dueAt = due
        /\ w.resolvedAt = dated /\ w.slaAtRiskAt = d.slaAtRiskAt
        /\ w.slaBreachedAt = d.slaBreachedAt /\ w.triageSource = d.triageSource
    BY <1>5, <2>1 DEF DeskDoc
  <2> HIDE DEF w
  <2>4. e = w
    BY <1>5, <1>6, <2>2, <2>3, SameDoc
  <2> QED
    BY <2>4 DEF w
<1>9. Desk!Raise(role, fields, now)
  BY <1>2, <1>7, <1>8 DEF Desk!Raise, d, e
<1>10. now \in 0..MaxTime /\ fields \in Patch \cup {Desk!NoPatch}
  BY SameRules DEF Grounds, AllAdmitted
<1> QED
  BY <1>9, <1>10 DEF Desk!Next

(* Every step of the service is a step of the desk, or none. *)
LEMMA StepIsServed ==
  ASSUME Grounds, UnbornBlank, ResolvedAtIffTerminal, [Next]_vars
  PROVE  Desk!Next \/ UNCHANGED Desk!deskVars
<1>1. ASSUME NEW c \in Caller, DeleteTicket(c) PROVE Desk!Next
  <2>1. life = "live" /\ life' = "deleted" /\ ticket' = ticket
    BY <1>1 DEF DeleteTicket
  <2> QED
    BY <2>1 DEF Desk!Next, Desk!Delete
<1>2. CASE Silent /\ life' = life /\ Content(ticket') = Content(ticket)
  BY <1>2 DEF Desk!deskVars
<1>3. CASE UNCHANGED vars
  BY <1>3 DEF vars, Desk!deskVars
<1> QED
  BY <1>1, <1>2, <1>3, CreationIsServed, EditIsServed, OtherIsServed, WritersWrite
     DEF Writes, Grounds

(* What happens to a ticket, with versions, copies and attempts forgotten,  *)
(* is what happens if its requests are served one after another.            *)
THEOREM ServedOneByOne == Spec => DeskSpec
<1>1. Init => Desk!Init
  <2>1. Init => life = "unborn" /\ ticket = BlankTicket
    BY DEF Init
  <2>2. Content(BlankTicket) =
          [status |-> "open", priority |-> "medium", assignee |-> Unassigned, dueAt |-> 0,
           resolvedAt |-> None, slaAtRiskAt |-> FALSE, slaBreachedAt |-> FALSE,
           triageSource |-> "none"]
    BY DEF Content, BlankTicket, NoAgentState
  <2> QED
    BY <2>1, <2>2, Zenon DEF Desk!Init
<1>2. Init => UnbornBlank
  BY DEF Init, UnbornBlank
<1>3. Grounds /\ UnbornBlank /\ ResolvedAtIffTerminal /\ [Next]_vars
        => [Desk!Next]_(Desk!deskVars)
  BY StepIsServed
<1> QED
  BY <1>1, <1>2, <1>3, GroundsHold, BlankStep, ResolvedWhenTerminal, PTL
     DEF Spec, DeskSpec, Desk!Spec

=============================================================================
