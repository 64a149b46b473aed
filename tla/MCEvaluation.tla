---------------------------- MODULE MCEvaluation ----------------------------
(* Golden sets and command lines on which TLC checks Evaluation.            *)
EXTENDS Evaluation

MCSlaHours == [low |-> 3, medium |-> 2, high |-> 1, urgent |-> 0]

Golden1 == [id |-> "T001", category |-> "Network", priority |-> "medium", group |-> "Network Support",
            action |-> "propose", reason |-> "none", kb |-> {"KB-006"}, tags |-> {"injection"},
            history |-> <<"resolved", "in-progress">>]
Golden2 == [id |-> "T002", category |-> "Security", priority |-> "urgent", group |-> "Security Team",
            action |-> "escalate", reason |-> "security_incident", kb |-> {}, tags |-> {"security"},
            history |-> <<>>]
Golden3 == [Golden1 EXCEPT !.id = "T003", !.kb = {"KB-007"}, !.tags = {}, !.history = <<"closed">>]

(* Mislabelled: a security ticket to resolve, one nobody reads an article   *)
(* for, and an id given twice.                                              *)
Mislabelled == {[Golden2 EXCEPT !.action = "propose", !.reason = "none", !.kb = {"KB-006"}],
                [Golden3 EXCEPT !.kb = {"KB-099"}],
                [Golden3 EXCEPT !.id = "T001"]}
GoldenFiles == {<<Golden1, Golden2, Golden3>>} \cup {<<Golden1, Golden2, g>> : g \in Mislabelled}

AnyTicket == [smoke |-> FALSE, ids |-> {}, tags |-> {}, limit |-> 9]
Selections == {AnyTicket, [AnyTicket EXCEPT !.smoke = TRUE, !.limit = 2],
               [AnyTicket EXCEPT !.tags = {"security"}], [AnyTicket EXCEPT !.ids = {"T009"}]}

Strict == [missed |-> 0, errors |-> 0, violations |-> 0]
Full == [name \in Compared |-> Rate(3, 3)]
Line(source, selection, budget) ==
  [source |-> source, selection |-> selection, budget |-> budget, gate |-> TRUE, grade |-> FALSE,
   append |-> FALSE, allowed |-> Strict, minCategory |-> {}, baseline |-> {}, drop |-> 5]

CommandLines ==
  {Line(source, selection, budget) :
     source \in {"oracle", "live", "replay"}, selection \in Selections, budget \in {0, 2, 3, 9}}
  \cup {[Line(source, AnyTicket, budget) EXCEPT !.append = TRUE] :
          source \in {"oracle", "live"}, budget \in {2, 9}}
  \cup {[Line("live", AnyTicket, 9) EXCEPT !.grade = TRUE, !.gate = FALSE],
        [Line("live", AnyTicket, 9) EXCEPT !.allowed.errors = 1, !.minCategory = {50}],
        [Line("oracle", AnyTicket, 9) EXCEPT !.baseline = {Full}],
        [Line("oracle", AnyTicket, 9) EXCEPT !.allowed.errors = 1],
        [Line("replay", AnyTicket, 9) EXCEPT !.allowed.errors = 1, !.baseline = {Full}],
        [Line("replay", AnyTicket, 9) EXCEPT !.grade = TRUE]}

=============================================================================
