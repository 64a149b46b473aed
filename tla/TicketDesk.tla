----------------------------- MODULE TicketDesk -----------------------------
(***************************************************************************)
(* What the ticket service promises: requests served one after another.    *)
(*                                                                         *)
(* There are no versions, copies, attempts or races here.  Each action is  *)
(* one accepted request, checked against the ticket as it is at that       *)
(* moment.  Tickets implements this specification: a request that read the *)
(* ticket before others changed it has, when it commits, an effect that    *)
(* this module allows on the ticket as it then is, or none.                *)
(***************************************************************************)
EXTENDS TicketRules

CONSTANTS
  StaffRole,  \* roles of the people working on tickets
  Patch,      \* what an edit may carry
  Group,      \* groups the agent may hand a ticket to
  Time        \* instants at which a ticket can be resolved

VARIABLES
  life,  \* whether the ticket exists
  doc    \* its contents

deskVars == <<life, doc>>

NoPatch == [f \in {} |-> None]
Stamped(status, at) == IF IsTerminal(status) THEN at ELSE None

Init ==
  /\ life = "unborn"
  /\ doc = [status |-> "open", priority |-> "medium", assignee |-> Unassigned, dueAt |-> 0,
            resolvedAt |-> None, slaAtRiskAt |-> FALSE, slaBreachedAt |-> FALSE,
            triageSource |-> "none"]

(* A requester raises an open ticket that nobody has; staff choose. *)
Raise(role, fields, at) ==
  /\ life = "unborn"
  /\ life' = "live"
  /\ LET chosen == IF role = "user" THEN NoPatch ELSE fields
         status == FieldOf(chosen, "status", "open")
         priority == FieldOf(fields, "priority", "medium")
     IN doc' = [doc EXCEPT
                  !.status = status,
                  !.assignee = FieldOf(chosen, "assignee", Unassigned),
                  !.priority = priority,
                  !.dueAt = FieldOf(fields, "dueAt", DueAtFor(priority)),
                  !.resolvedAt = Stamped(status, at)]

(* An edit: allowed for the role, and a move the workflow has from here.    *)
(* The resolution date follows the status.                                  *)
Edit(role, patch, at) ==
  LET status == FieldOf(patch, "status", doc.status)
      owner == FieldOf(patch, "assignee", doc.assignee)
      finished == IsTerminal(doc.status) /\ IsTerminal(status)
      retargeted == FieldOf(patch, "priority", doc.priority) # doc.priority
  IN
  /\ life = "live"
  /\ MayMutate(role, patch)
  /\ TransitionAllowed(doc.status, status, role)
  /\ "status" \in DOMAIN patch /\ status = "assigned" => owner # Unassigned
  /\ doc' = [doc EXCEPT
               !.status = status,
               !.assignee = owner,
               !.priority = FieldOf(patch, "priority", @),
               !.dueAt = FieldOf(patch, "dueAt",
                                 IF retargeted THEN DueAtFor(patch.priority) ELSE @),
               !.resolvedAt = IF finished THEN @ ELSE Stamped(status, at),
               !.triageSource = CASE ~TouchesTriage(patch) -> @
                                  [] TouchesTriage(patch) /\ role = "agent" -> "agent"
                                  [] OTHER -> IF @ = "agent" THEN "human" ELSE @]
  /\ UNCHANGED life

(* The requester's answer puts a waiting ticket back in work. *)
Answer ==
  /\ life = "live"
  /\ doc.status = "pending-user"
  /\ doc' = [doc EXCEPT !.status = "in-progress"]
  /\ UNCHANGED life

(* A reply of the agent's, approved by a person, or, for a ticket that is   *)
(* not finished, its own.                                                   *)
Reply ==
  /\ life = "live"
  /\ \/ doc' = [doc EXCEPT !.status = StatusAfterReply(@)]
     \/ /\ ~IsTerminal(doc.status)
        /\ doc' = [doc EXCEPT !.status = StatusAfterReply(@), !.triageSource = "agent"]
  /\ UNCHANGED life

(* The agent hands the ticket to a group. *)
HandOver(group) ==
  /\ life = "live"
  /\ doc' = [doc EXCEPT !.assignee = group,
                        !.status = IF @ = "open" THEN "assigned" ELSE @,
                        !.triageSource = "agent"]
  /\ UNCHANGED life

(* The SLA clock of an unfinished, unpaused ticket runs out, or nearly: each *)
(* happens once, and a missed deadline raises the priority.                 *)
Milestone ==
  /\ life = "live"
  /\ SlaRunning(doc.status)
  /\ \/ /\ ~doc.slaBreachedAt
        /\ doc' = [doc EXCEPT !.slaBreachedAt = TRUE, !.priority = RaisedPriority(@)]
     \/ /\ ~doc.slaAtRiskAt
        /\ doc' = [doc EXCEPT !.slaAtRiskAt = TRUE]
  /\ UNCHANGED life

Delete ==
  /\ life = "live"
  /\ life' = "deleted"
  /\ UNCHANGED doc

Next ==
  \/ \E role \in StaffRole \cup {"user"}, fields \in Patch \cup {NoPatch}, at \in Time :
       Raise(role, fields, at)
  \/ \E role \in StaffRole \cup {"user", "agent"}, patch \in Patch, at \in Time :
       Edit(role, patch, at)
  \/ Answer
  \/ Reply
  \/ \E group \in Group : HandOver(group)
  \/ Milestone
  \/ Delete

Spec == Init /\ [][Next]_deskVars

=============================================================================
