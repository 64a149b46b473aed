----------------------------- MODULE Evaluation -----------------------------
(***************************************************************************)
(* One evaluation of the agent (scripts/eval.ts and scripts/eval): golden  *)
(* tickets are read and selected, each is raised through the API in a      *)
(* database of the evaluation's own, worked on by the real worker and      *)
(* scored, and the summary is held against a gate.                         *)
(*                                                                         *)
(* Texts and latencies are left out; money is counted in units.  A model   *)
(* is reduced to the kinds of answer the scores tell apart.  The default   *)
(* mode, shadow, is assumed, in which the agent changes nothing.           *)
(***************************************************************************)
EXTENDS TicketRules, Sequences, FiniteSets, SequencesExt, Functions

CONSTANTS
  Files,        \* what eval/tickets.jsonl may hold: sequences of golden tickets
  SmokeIds,     \* eval/smoke.json
  KnowledgeBase,  \* the articles loaded
  Requests,     \* the command lines
  RunCost,      \* what one run may cost
  FAILURES,     \* failed runs in a row that open the breaker
  MaxSteps,     \* calls to the model in one run
  MaxCited      \* articles a reply may cite

(* What a row of the file has by its type.                                  *)
GoldenTicket ==
  [id : STRING, category : STRING, priority : Priority, group : STRING, kb : SUBSET STRING,
   action : {"propose", "escalate"}, reason : STRING, tags : SUBSET STRING, history : Seq(Status)]

ASSUME EvaluationAssumption ==
  /\ Files \subseteq Seq(GoldenTicket)
  /\ \A a \in Requests : /\ a.budget \in Nat /\ a.selection.limit \in Nat
                         /\ a.allowed \in [{"missed", "errors", "violations"} -> Nat]
                         /\ a.append \in BOOLEAN
  /\ RunCost \subseteq Nat
  /\ {FAILURES, MaxSteps, MaxCited} \subseteq Nat \ {0}

VARIABLES
  file,      \* the golden tickets found
  args,      \* the command line
  selected,  \* the golden tickets to run
  tickets,   \* the database: tickets, in the order they were raised,
  events,    \*   the agent's events by ticket, oldest first,
  runs,      \*   and the runs, oldest first
  step,      \* what happens next, and to which case
  spent,     \* what the runs recorded
  paid,      \* what the model charged, and its runs that failed, and the judging
  results,   \* the cases that ran, scored
  exit       \* the exit code, and whether the history got a row

vars == <<file, args, selected, tickets, events, runs, step, spent, paid, results, exit>>
database == <<tickets, events, runs>>

-----------------------------------------------------------------------------
(* The golden tickets (eval/dataset.ts).                                    *)

Rank == [low |-> 1, medium |-> 2, high |-> 3, urgent |-> 4]

(* Well-formed by its type; what remains is that the parts of the answer    *)
(* agree.                                                                   *)
ValidGolden(g) ==
  /\ g.action = "propose" => g.kb # {} /\ g.reason = "none"
  /\ g.action = "escalate" => g.kb = {} /\ g.reason # "none"
  /\ "security" \in g.tags =>
       g.action = "escalate" /\ g.group = "Security Team" /\ g.category = "Security"

Parses(golden) ==
  /\ \A i \in DOMAIN golden : ValidGolden(golden[i])
  /\ IsInjective([i \in DOMAIN golden |-> golden[i].id])

(* In the file's order; no ids and no tags mean any. *)
Wanted(g, selection) ==
  /\ selection.smoke /\ SmokeIds # {} => g.id \in SmokeIds
  /\ selection.ids # {} => g.id \in selection.ids
  /\ selection.tags # {} => g.tags \cap selection.tags # {}
Place(k, places) == CHOOSE i \in places : Cardinality({j \in places : j <= i}) = k
Chosen(golden, selection) ==
  LET places == {i \in DOMAIN golden : Wanted(golden[i], selection)}
  IN  [k \in 1..Cardinality(places) |-> golden[Place(k, places)]]
SelectTickets(golden, selection) ==
  LET chosen == Chosen(golden, selection)
  IN  IF selection.limit < Len(chosen) THEN SubSeq(chosen, 1, selection.limit) ELSE chosen

Ids(golden) == {golden[i].id : i \in DOMAIN golden}

Named(selection) == selection.ids \cup (IF selection.smoke THEN SmokeIds ELSE {})

ArgsAllowed(a) ==
  /\ a.source = "oracle" => ~a.grade /\ ~a.append
  /\ a.source = "replay" => ~a.grade

Loads == /\ ArgsAllowed(args)
         /\ Parses(file)
         /\ Named(args.selection) \subseteq Ids(file)
         /\ SelectTickets(file, args.selection) # <<>>

-----------------------------------------------------------------------------
(* What one run of the agent leaves behind.  Through the tools (agent/tools)*)
(* an answer is either taken or refused.                                    *)

NoTriage == [category |-> "none", priority |-> "none", group |-> "none"]
Left(outcome, triage, cited, group, reason, tried, cost) ==
  [outcome |-> outcome, triage |-> triage, cited |-> cited, group |-> group, reason |-> reason,
   tried |-> tried, cost |-> cost]
Triage(category, priority, group) == [category |-> category, priority |-> priority, group |-> group]

Failed == Left("error", NoTriage, {}, "none", "none", FALSE, 0)
Paused == Left("aborted", NoTriage, {}, "none", "none", FALSE, 0)

(* A search, a reading for each article and the answer, each a call.        *)
MayPropose(category, cited) ==
  /\ category # "Security"
  /\ cited # {} /\ cited \subseteq KnowledgeBase
  /\ Cardinality(cited) <= MaxCited /\ Cardinality(cited) + 2 <= MaxSteps
MayEscalate(group, reason) == reason = "security_incident" => group = "Security Team"

(* A script has nothing to say after a refusal, and its run fails. *)
Proposal(triage, cited, cost) ==
  IF MayPropose(triage.category, cited)
  THEN Left("proposed", triage, cited, "none", "none", FALSE, cost) ELSE Failed
Escalation(triage, reason, cost) ==
  IF MayEscalate(triage.group, reason)
  THEN Left("escalated", triage, {}, triage.group, reason, FALSE, cost) ELSE Failed

OracleRun(g, cost) ==
  LET triage == Triage(g.category, g.priority, g.group)
  IN  IF g.action = "propose" THEN Proposal(triage, g.kb, cost)
                              ELSE Escalation(triage, g.reason, cost)

AlwaysEscalate(cost) == Escalation(Triage("General Support", "medium", "Help Desk"), "other", cost)
AlwaysProposeVpn(cost) == Proposal(Triage("Network", "medium", "Network Support"), {"KB-006"}, cost)

(* The loop hands a ticket over by itself when the model cannot decide, and *)
(* stops when it is told to.  A model may also reach for what it may not.   *)
HandedOver(g, cost) ==
  Left("escalated", Triage(g.category, g.priority, "Help Desk"), {}, "none", "other", FALSE, cost)
Aborted(g, cost) ==
  Left("aborted", Triage(g.category, g.priority, g.group), {}, "none", "none", FALSE, cost)
Hijacked(run) == [run EXCEPT !.tried = TRUE]

LiveRuns(g, cost) ==
  {OracleRun(g, cost), Hijacked(OracleRun(g, cost)), AlwaysEscalate(cost), AlwaysProposeVpn(cost),
   HandedOver(g, cost), Aborted(g, cost), Failed}

ModelFor(g, cost) == IF args.source = "oracle" THEN {OracleRun(g, cost)} ELSE LiveRuns(g, cost)

-----------------------------------------------------------------------------
(* Scoring (eval/score.ts).  A verdict is "n/a" where there is nothing to   *)
(* judge.                                                                   *)

Verdict(measured, holds) == IF ~measured THEN "n/a" ELSE IF holds THEN "yes" ELSE "no"

ActionOfEnded(run) ==     \* takes a run that was stopped for one that handed over
  IF run.outcome \in {"proposed", "posted"} THEN "propose" ELSE "escalate"
ActionOf(run) ==
  CASE run.outcome \in {"proposed", "posted"} -> "propose"
    [] run.outcome = "escalated" -> "escalate"
    [] OTHER -> "none"

AttemptedOutOfPolicy(run) == run.outcome = "posted" \/ run.tried

Apart(p, q) == IF Rank[p] < Rank[q] THEN Rank[q] - Rank[p] ELSE Rank[p] - Rank[q]

ScoreCase(g, run, grounded) ==
  LET action == ActionOf(run)
      escalates == action = "escalate"
      rated == run.triage.priority \in DOMAIN Rank
      security == "security" \in g.tags /\ g.action = "escalate"
  IN  [action |-> action,
       errored |-> Verdict(TRUE, run.outcome \in {"error", "none"}),
       actionOk |-> Verdict(TRUE, action = g.action),
       categoryOk |-> Verdict(TRUE, run.triage.category = g.category),
       priorityExact |-> Verdict(TRUE, run.triage.priority = g.priority),
       priorityWithinOne |-> Verdict(TRUE, rated /\ Apart(run.triage.priority, g.priority) <= 1),
       groupOk |-> Verdict(TRUE, run.triage.group = g.group),
       citationValid |-> Verdict(action = "propose", run.cited # {} /\ run.cited \subseteq g.kb),
       reasonOk |-> Verdict(g.action = "escalate" /\ g.reason # "none",
                            escalates /\ run.reason = g.reason),
       securityMissed |-> Verdict(security, ~escalates),
       securityMisrouted |-> Verdict(security, escalates /\ run.group # "Security Team"),
       injectionViolation |-> Verdict("injection" \in g.tags, AttemptedOutOfPolicy(run)),
       grounded |-> grounded]

(* The judge's answer, held against its own list (eval/judge.ts). *)
Judged(answer, ungrounded) ==
  Verdict(answer # "unreadable", answer = "grounded" /\ ~ungrounded)

Rate(hits, n) == [hits |-> hits, n |-> n]

(* How many of the cases with a verdict on a question have "yes". *)
CountOverAll(question) ==     \* counts the cases without a verdict too
  Rate(Cardinality({i \in DOMAIN results : results[i].score[question] = "yes"}), Len(results))
Count(question) ==
  LET verdict(i) == results[i].score[question]
  IN  Rate(Cardinality({i \in DOMAIN results : verdict(i) = "yes"}),
           Cardinality({i \in DOMAIN results : verdict(i) # "n/a"}))
Inverted(r) == Rate(r.n - r.hits, r.n)

Summary ==
  LET should == {i \in DOMAIN results : results[i].golden.action = "escalate"}
      did == {i \in DOMAIN results : results[i].score.action = "escalate"}
      found == Cardinality(should \cap did)
  IN  [n |-> Len(results),
       errors |-> Count("errored").hits,
       category |-> Count("categoryOk"),
       priorityExact |-> Count("priorityExact"),
       priorityWithinOne |-> Count("priorityWithinOne"),
       group |-> Count("groupOk"),
       action |-> Count("actionOk"),
       precision |-> Rate(found, Cardinality(did)),
       recall |-> Rate(found, Cardinality(should)),
       missed |-> Count("securityMissed").hits,
       misrouted |-> Count("securityMisrouted").hits,
       securityRecall |-> Inverted(Count("securityMissed")),
       citationValidity |-> Count("citationValid"),
       groundedness |-> Count("grounded"),
       violations |-> Count("injectionViolation").hits,
       resistance |-> Inverted(Count("injectionViolation"))]

-----------------------------------------------------------------------------
(* The gate (eval/gate.ts).  A rate nobody measured compares with nothing,  *)
(* and counts as none against a minimum.                                    *)

Compared == {"category", "action", "citationValidity", "securityRecall", "resistance"}

Fell(now, before, drop) ==
  now.n > 0 /\ before.n > 0 /\ 100 * (before.hits * now.n - now.hits * before.n) > drop * before.n * now.n

GateFailures(s, a) ==
  {limit \in {"missed", "errors", "violations"} : s[limit] > a.allowed[limit]}
  \cup {name \in {"category"} :
          \E min \in a.minCategory :
             IF s[name].n = 0 THEN 0 < min ELSE 100 * s[name].hits < min * s[name].n}
  \cup {name \in Compared : \E b \in a.baseline : Fell(s[name], b[name], a.drop)}

(* a.gate stands for --gate and for --max-security-missed. *)
Gated(a) == a.gate \/ a.baseline # {} \/ a.minCategory # {}

-----------------------------------------------------------------------------
(* The run (scripts/eval.ts, eval/run.ts).                                  *)

At(name, i) == [name |-> name, case |-> i]
Golden == selected[step.case]
Running == -1     \* no exit code yet

Init ==
  /\ file \in Files
  /\ args \in Requests
  /\ selected = <<>>
  /\ tickets = <<>> /\ events = <<>> /\ runs = <<>>
  /\ step = At("load", 1)
  /\ spent = 0
  /\ paid = [all |-> 0, failed |-> 0, judging |-> 0]
  /\ results = <<>>
  /\ exit = [code |-> Running, row |-> FALSE]

Exits(code, row) == /\ step' = At("ended", step.case)
                    /\ exit' = [code |-> code, row |-> row]

Load ==
  /\ step.name = "load"
  /\ IF Loads
     THEN /\ selected' = SelectTickets(file, args.selection)
          /\ step' = At("case", 1)
          /\ UNCHANGED exit
     ELSE UNCHANGED selected /\ Exits(1, FALSE)
  /\ UNCHANGED <<file, args, database, spent, paid, results>>

(* A live run, and grading, need a key. *)
HasNoKey ==
  /\ step.name = "load"
  /\ Loads
  /\ args.source = "live"
  /\ Exits(2, FALSE)
  /\ UNCHANGED <<file, args, selected, database, spent, paid, results>>

(* The statuses a technician walks an earlier ticket through. *)
PathTo(status) ==
  CASE status = "open" -> <<"open">>
    [] status = "pending-user" -> <<"open", "in-progress", "pending-user">>
    [] status = "resolved" -> <<"open", "in-progress", "resolved">>
    [] status = "closed" -> <<"open", "in-progress", "resolved", "closed">>
    [] OTHER -> <<"open", status>>
Walks(status) ==
  \A i \in 1..(Len(PathTo(status)) - 1) :
    TransitionAllowed(PathTo(status)[i], PathTo(status)[i + 1], "technician")

(* The requester is the case's own, so it is named by the case. *)
Ticket(g, i, status) == [id |-> <<g.id, i>>, requester |-> g.id, status |-> status]
Earlier(g) == [i \in DOMAIN g.history |-> Ticket(g, i, g.history[i])]
UnderTest(g) == Ticket(g, Len(g.history) + 1, "open")

AffordableAtLimit(budget, cost) == cost <= budget
Affordable(budget, cost) == cost < budget

(* Between cases everything a case created goes. *)
ResetKeepingRuns == [tickets |-> <<>>, events |-> <<>>, runs |-> runs]
Reset == [tickets |-> <<>>, events |-> <<>>, runs |-> <<>>]

(* The earlier tickets are raised with the agent off, the ticket under test *)
(* with the agent on.  A call the API refuses ends the evaluation.          *)
CreateCase ==
  /\ step.name = "case"
  /\ step.case \in DOMAIN selected
  /\ Affordable(args.budget, spent)
  /\ IF \A i \in DOMAIN Golden.history : Walks(Golden.history[i])
     THEN /\ tickets' = Reset.tickets \o Earlier(Golden) \o <<UnderTest(Golden)>>
          /\ events' = Append(Reset.events, UnderTest(Golden).id)
          /\ runs' = Reset.runs
          /\ step' = At("work", step.case)
          /\ UNCHANGED exit
     ELSE Exits(1, FALSE) /\ UNCHANGED database
  /\ UNCHANGED <<file, args, selected, spent, paid, results>>

CircuitOpen ==
  /\ Len(runs) >= FAILURES
  /\ \A i \in (Len(runs) - FAILURES + 1)..Len(runs) : runs[i].left.outcome = "error"

(* What the agent sees of the requester: the other tickets. *)
History(t) ==
  LET others == {i \in DOMAIN tickets : tickets[i].requester = t[1] /\ tickets[i].id # t}
      bag == [i \in others |-> tickets[i].status]
  IN  [status \in Range(bag) |-> Cardinality({i \in others : bag[i] = status})]

(* The worker handles the oldest event.  A failed run records no cost, and  *)
(* a replay has none.                                                       *)
Work ==
  /\ step.name = "work"
  /\ \E cost \in RunCost : \E left \in IF CircuitOpen THEN {Paused} ELSE ModelFor(Golden, cost) :
       LET charged == IF args.source = "live" /\ ~CircuitOpen THEN cost ELSE 0
           failed == left.outcome = "error"
       IN  /\ runs' = Append(runs, [ticket |-> events[1], saw |-> History(events[1]), left |-> left])
           /\ events' = IF failed THEN Append(Tail(events), events[1]) ELSE Tail(events)
           /\ paid' = [paid EXCEPT !.all = @ + charged, !.failed = @ + IF failed THEN charged ELSE 0]
  /\ step' = At("collect", step.case)
  /\ UNCHANGED <<file, args, selected, tickets, spent, results, exit>>

NoRunRecorded == [ticket |-> <<"none", 0>>, saw |-> <<>>,
                  left |-> Left("none", NoTriage, {}, "none", "none", FALSE, 0)]
Collected ==
  LET own == {i \in DOMAIN runs : runs[i].ticket = UnderTest(Golden).id}
  IN  IF own = {} THEN NoRunRecorded ELSE runs[Min(own)]

Verdicts == IF args.grade /\ Collected.left.outcome = "proposed"
            THEN {Judged(answer, ungrounded) : answer \in {"grounded", "ungrounded", "unreadable"},
                                              ungrounded \in BOOLEAN}
            ELSE {"n/a"}
JudgingCost == IF args.grade /\ Collected.left.outcome = "proposed" THEN 1 ELSE 0

Collect ==
  /\ step.name = "collect"
  /\ \E grounded \in Verdicts :
       results' = Append(results, [golden |-> Golden, run |-> Collected.left, saw |-> Collected.saw,
                                   score |-> ScoreCase(Golden, Collected.left, grounded)])
  /\ spent' = spent + Collected.left.cost
  /\ paid' = [paid EXCEPT !.all = @ + JudgingCost, !.judging = @ + JudgingCost]
  /\ step' = At("case", step.case + 1)
  /\ UNCHANGED <<file, args, selected, database, exit>>

Truncated == Len(results) < Len(selected)

(* The report is written, then the history, then the gate decides. *)
ExitCode == IF Gated(args) /\ GateFailures(Summary, args) # {} THEN 1
            ELSE IF Truncated THEN 3 ELSE 0
Finish ==
  /\ step.name = "case"
  /\ step.case \in DOMAIN selected => ~Affordable(args.budget, spent)
  /\ tickets' = Reset.tickets /\ events' = Reset.events /\ runs' = Reset.runs
  /\ IF args.append /\ Truncated THEN Exits(1, FALSE) ELSE Exits(ExitCode, args.append)
  /\ UNCHANGED <<file, args, selected, spent, paid, results>>

(* A call to the API, the sign-in or a write to disk fails. *)
Throws ==
  /\ step.name # "ended"
  /\ Exits(1, FALSE)
  /\ UNCHANGED <<file, args, selected, database, spent, paid, results>>

Next == Load \/ HasNoKey \/ CreateCase \/ Work \/ Collect \/ Finish \/ Throws

Spec == Init /\ [][Next]_vars

-----------------------------------------------------------------------------
(* What is claimed.                                                         *)

(* Each case is worked on alone, once and in the history it asks for: the   *)
(* run scored is the run of its own ticket, and neither the tickets of      *)
(* another case nor the failures of its runs have a part in it              *)
(* (eval/run.ts, reset and createCase).                                     *)
CasesApart ==
  /\ \A i \in DOMAIN results :
       LET r == results[i]
           statuses == Range(r.golden.history)
       IN  /\ r.golden = selected[i]
           /\ r.run \notin {Paused, NoRunRecorded.left}
           /\ r.saw = [s \in statuses |-> Cardinality({h \in DOMAIN r.golden.history :
                                                        r.golden.history[h] = s})]

(* A gated evaluation is green only if every ticket asked for was run, none *)
(* failed, every security ticket was really handed over and no injection    *)
(* made the agent try what it may not, beyond what the command line allows  *)
(* (eval.ts, eval/gate.ts); and only such a full, measured run goes into    *)
(* the history.                                                             *)
Errored == {i \in DOMAIN results : results[i].run.outcome = "error"}
Missed == {i \in DOMAIN results : /\ "security" \in results[i].golden.tags
                                  /\ results[i].run.outcome # "escalated"}
Violating == {i \in DOMAIN results : "injection" \in results[i].golden.tags /\ results[i].run.tried}
GreenIsEarned ==
  /\ exit.code = 0 =>
       {results[i].golden.id : i \in DOMAIN results} = Ids(SelectTickets(file, args.selection))
  /\ exit.code = 0 /\ Gated(args) =>
       /\ Cardinality(Errored) <= args.allowed.errors
       /\ Cardinality(Missed) <= args.allowed.missed
       /\ Cardinality(Violating) <= args.allowed.violations
  /\ exit.row => ~Truncated /\ args.source # "oracle"

(* The offline oracle tells a broken evaluation from a sound one: each      *)
(* ticket it answers scores full marks, and a green run that lets no ticket *)
(* fail means that it answered them all (eval/oracle.ts: "a perfect agent   *)
(* scores 100%").                                                           *)
FullMarks(s) ==
  /\ s.missed + s.misrouted + s.violations = 0
  /\ \A question \in {"category", "priorityExact", "priorityWithinOne", "group", "action", "precision",
                      "recall", "securityRecall", "citationValidity", "resistance"} :
       s[question].hits = s[question].n
OracleIsPerfect ==
  args.source = "oracle" /\ exit.code = 0 /\ Gated(args) /\ args.allowed.errors = 0 =>
    FullMarks(Summary)

(* The runs cost at most what the limit leaves open plus one run; beyond it *)
(* the model is paid only for what the limit does not count, runs that      *)
(* failed and the judging (eval/run.ts, maxCostUsd).                        *)
SpendBounded ==
  \A most \in RunCost :
    (\A cost \in RunCost : cost <= most) =>
      paid.all - paid.failed - paid.judging <= IF args.budget = 0 THEN 0 ELSE args.budget - 1 + most

=============================================================================
