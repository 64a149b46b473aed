----------------------------- MODULE MCTickets -----------------------------
(* Instances of Tickets for TLC.                                            *)
EXTENDS Tickets, TLC

CONSTANTS a1, r1, r2

(* The hours per priority, scaled down: low is the longest, urgent is none. *)
MCSlaHours == [low |-> 3, medium |-> 2, high |-> 1, urgent |-> 0]

(* What people ask for: each status a race can turn on, an owner, no owner, *)
(* a priority, the deadline the SLA job reads, and a status together with   *)
(* the owner it needs.                                                      *)
PeoplePatch == {[status |-> "in-progress"], [status |-> "pending-user"],
                [status |-> "resolved"], [status |-> "closed"],
                [priority |-> "urgent"], [dueAt |-> 0, assignee |-> Unassigned],
                [status |-> "assigned", assignee |-> a1]}

(* What meets the agent: triage, and the moves around pending-user.         *)
AgentPatch == {[assignee |-> a1], [status |-> "closed"], [status |-> "in-progress"]}

(* One of each, where everything meets everything. *)
DeskPatch == {[assignee |-> a1, priority |-> "urgent"], [status |-> "resolved"]}

(* The history entries and events of the latest step are written by every   *)
(* step and read by none, so states are told apart without them.            *)
Memory == <<life, ticket, comments, runs, call, now>>

Callers == Permutations(Caller)
CallersAndRuns == Permutations(Caller) \cup Permutations(Run)

=============================================================================
