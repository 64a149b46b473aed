-------------------------- MODULE AgentLoopProofs --------------------------
(* One conclusion, truly recorded, within the mode, and never against the   *)
(* owner, for any knowledge base and any number of turns, calls, edits and  *)
(* changes of the settings.                                                 *)
EXTENDS AgentLoop, FiniteSetTheorems, TLAPS

Outcome == {"running", "aborted", "triaged", "proposed", "posted", "escalated", "error"}
Reason == {"none", "mode_off", "kill_switch", "daily_cost_cap", "ticket_changed",
           "step_limit_reached", "budget_exceeded", "model_refusal", "no_decision"}
Decision == {None, "proposed", "posted", "escalated"}
Run == [step : {"begun", "asking", "thinking", "tools", "triaging", "answering", "checking",
                "posting", "escalating", "ended"},
        mode : Mode, turn : 0..MaxSteps, calls : Nat, allow : SUBSET Known,
        triage : Known \cup {None}, first : Category \cup {None}, pick : Known \cup {None},
        seen : Ticket \cup {None}, given : Settings \cup {None}, attempt : 0..3,
        read : SUBSET Article,
        decision : Decision, outcome : Outcome, reason : Reason]
Effects == [did : SUBSET {"triaged", "answered", "handed over"}, lost : BOOLEAN]

-----------------------------------------------------------------------------
(* The inductive invariant.                                                 *)

(* A run that goes on was let run, one that edits was let write, and one    *)
(* that answers is in auto mode and has read something.                     *)
Answering == {"answering", "checking", "posting"}
ModeSet ==
  /\ run.step \in {"asking", "thinking", "tools", "triaging", "escalating"} => run.mode # "off"
  /\ run.step = "triaging" => run.mode # "shadow"
  /\ run.step \in Answering => run.mode = "auto" /\ run.read # {} /\ run.attempt \in 1..3

(* The ticket that a triage or an answer saw is the ticket there is, or an  *)
(* older one.                                                               *)
Seeing == {"triaging", "checking", "posting"}
SeenTrue ==
  /\ run.step = "triaging" => run.pick \in Known /\ run.attempt \in {1, 2}
  /\ run.step \in Seeing =>
       /\ run.seen \in Ticket
       /\ run.seen.version <= ticket.version
       /\ run.seen.version = ticket.version => run.seen = ticket

(* A decision is made in a turn's tools and ends the run with that turn.    *)
DecidedLast ==
  /\ run.step \in {"begun", "asking", "thinking", "triaging", "escalating"} \cup Answering =>
       run.decision = None
  /\ run.step = "escalating" => run.reason # "none"
  /\ run.step = "ended" =>
       \/ run.outcome = "error"
       \/ run.outcome = run.decision /\ run.reason = "none"
       \/ run.outcome \in {"aborted", "triaged"} /\ run.decision = None
       \/ run.outcome = "escalated" /\ run.decision = None /\ run.reason # "none"

(* What was done is what was decided, or the hand-over of a run given up.   *)
Done == effects.did \ {"triaged"}
Due == IF run.decision = "posted" THEN {"answered"}
       ELSE IF run.decision = "escalated" /\ run.mode # "shadow" THEN {"handed over"}
       ELSE {}
GivenUp == run.step = "ended" /\ run.decision = None /\ run.outcome = "escalated"
DoneAsDecided ==
  effects.lost \/ Done = Due \/ (GivenUp /\ Done = {"handed over"})

IInv == RecordsTyped /\ ModeSet /\ SeenTrue /\ DecidedLast /\ DoneAsDecided

-----------------------------------------------------------------------------
(* What the steps are made of.                                              *)

(* The type invariant by its parts.                                         *)
LEMMA Typed ==
  RecordsTyped <=> /\ settings \in Settings /\ ticket \in Ticket /\ run \in Run
             /\ effects \in Effects /\ updates \in 0..MaxUpdates
BY DEF RecordsTyped, Run, Effects, Outcome, Reason, Decision

(* The same of the next state.                                              *)
LEMMA TypedNext ==
  RecordsTyped' <=> /\ settings' \in Settings /\ ticket' \in Ticket /\ run' \in Run
              /\ effects' \in Effects /\ updates' \in 0..MaxUpdates
BY DEF RecordsTyped, Run, Effects, Outcome, Reason, Decision

(* No decision is none of the decisions, and no triage none of the          *)
(* categories.                                                              *)
LEMMA NoneApart == None # "proposed" /\ None # "posted" /\ None # "escalated" /\ None \notin Known
BY AgentLoopAssumption DEF Known

(* A run that ends keeps its decision, and what it may do.                  *)
LEMMA EndsKeeping ==
  ASSUME run \in Run, NEW outcome \in Outcome, NEW reason \in Reason, Ends(outcome, reason)
  PROVE  /\ run' \in Run /\ run'.step = "ended" /\ run'.outcome = outcome /\ run'.reason = reason
         /\ run'.decision = run.decision /\ run'.mode = run.mode
BY DEF Ends, Run

(* A run that gives up has a reason to.                                     *)
LEMMA Escalating ==
  ASSUME run \in Run, NEW reason \in Reason, EscalatesBecause(reason)
  PROVE  /\ run' \in Run /\ run'.step = "escalating" /\ run'.reason = reason
         /\ run'.decision = run.decision /\ run'.mode = run.mode
BY DEF EscalatesBecause, Run

(* A tool call is counted.                                                  *)
LEMMA CallCounted ==
  ASSUME NEW next \in Run, Called(next)
  PROVE  /\ run' \in Run /\ run'.step = next.step /\ run'.reason = next.reason
         /\ run'.decision = next.decision /\ run'.mode = next.mode /\ run'.outcome = next.outcome
<1>1. next.calls + 1 \in Nat
  BY DEF Run
<1>2. run' = [next EXCEPT !.calls = next.calls + 1]
  BY DEF Called
<1> QED
  BY <1>1, <1>2 DEF Run

(* What the API did is done, whether the run is told so or its answer is    *)
(* lost.                                                                    *)
LEMMA Carried ==
  ASSUME effects \in Effects, NEW effect \in {"triaged", "answered", "handed over"},
         NEW next \in Run, NEW untold \in Run, Carries(effect, next, untold)
  PROVE  /\ effects' \in Effects /\ effects'.did = effects.did \cup {effect}
         /\ \/ effects'.lost = TRUE /\ Called(untold)
            \/ effects'.lost = effects.lost /\ Called(next)
<1>1. PICK lost \in BOOLEAN :
        /\ effects' = [did |-> effects.did \cup {effect}, lost |-> effects.lost \/ lost]
        /\ Called(IF lost THEN untold ELSE next)
  BY DEF Carries
<1>2. effects.did \in SUBSET {"triaged", "answered", "handed over"} /\ effects.lost \in BOOLEAN
  BY DEF Effects
<1>3. CASE lost = TRUE
  <2>1. effects' = [did |-> effects.did \cup {effect}, lost |-> TRUE] /\ Called(untold)
    BY <1>1, <1>3
  <2> QED
    BY <1>2, <2>1 DEF Effects
<1>4. CASE lost = FALSE
  <2>1. (effects.lost \/ FALSE) = effects.lost
    BY <1>2
  <2>2. effects' = [did |-> effects.did \cup {effect}, lost |-> effects.lost] /\ Called(next)
    BY <1>1, <1>4, <2>1
  <2> QED
    BY <1>2, <2>2 DEF Effects
<1> QED
  BY <1>3, <1>4

(* Only that.                                                               *)
LEMMA CarriesOne ==
  ASSUME NEW effect, NEW next, NEW untold, Carries(effect, next, untold)
  PROVE  effects'.did \ effects.did \subseteq {effect}
<1>1. effects'.did = effects.did \cup {effect}
  BY DEF Carries
<1> QED
  BY <1>1

(* The mode of a run is what the policy allows: never auto where the        *)
(* deployment cannot answer alone, and off only where it stays off.         *)
LEMMA ModeAllowed ==
  ASSUME settings \in Settings, NEW category
  PROVE  /\ EffectiveMode(settings, category) \in Mode
         /\ EffectiveMode(settings, category) # "off" =>
              RunnableMode(EffectiveMode(settings, category)) \in Mode \ {"off"}
<1>1. /\ settings.default \in Mode \cup {"unset"}
      /\ \A c \in Known : settings.own[c] \in Mode \cup {"unset"}
  BY DEF Settings
<1>2. DefaultMode(settings) \in Mode
  BY <1>1 DEF DefaultMode, Mode
<1>3. EffectiveMode(settings, category) \in Mode
  BY <1>1, <1>2 DEF EffectiveMode, Mode
<1> QED
  BY <1>3 DEF RunnableMode, Mode

-----------------------------------------------------------------------------
(* The parts of the invariant under a step.                                 *)

(* Nothing done and nothing new due leaves both in agreement.               *)
LEMMA DueKept ==
  ASSUME IInv, run.step # "ended", UNCHANGED effects, Due' = Due
  PROVE  DoneAsDecided'
BY DEF IInv, DoneAsDecided, Done, GivenUp

(* A run that has not decided owes nothing, and has done nothing but triage.*)
LEMMA NothingDue ==
  ASSUME IInv, run.step # "ended", run.decision = None
  PROVE  Due = {} /\ (effects.lost \/ Done = {})
BY NoneApart DEF IInv, DoneAsDecided, Due, GivenUp

(* Steps that do nothing to the ticket and change neither the decision nor  *)
(* the mode.                                                                *)
LEMMA QuietStep ==
  ASSUME IInv, run.step # "ended", run' \in Run,
         UNCHANGED <<settings, ticket, effects, updates>>,
         run'.decision = run.decision, run'.mode = run.mode,
         run'.step \notin Seeing, ModeSet', DecidedLast'
  PROVE  IInv'
<1>1. RecordsTyped'
  BY Typed, TypedNext DEF IInv
<1>2. Due' = Due
  BY DEF Due
<1>3. DoneAsDecided'
  BY <1>2, DueKept
<1>4. SeenTrue'
  BY DEF SeenTrue, Seeing
<1> QED
  BY <1>1, <1>3, <1>4 DEF IInv

(* A run that has decided nothing may be aborted, may stop after its        *)
(* triage, or may be given up.                                              *)
LEMMA StopStep ==
  ASSUME IInv, run.step # "ended", run.decision = None,
         UNCHANGED <<settings, ticket, effects, updates>>,
         \/ \E reason \in Reason : Ends("aborted", reason)
         \/ Ends("triaged", "no_decision")
         \/ run.mode # "off" /\ \E reason \in Reason \ {"none"} : EscalatesBecause(reason)
  PROVE  IInv'
<1>1. run \in Run
  BY Typed DEF IInv
<1>2. ASSUME NEW outcome \in {"aborted", "triaged"}, NEW reason \in Reason, Ends(outcome, reason)
      PROVE  IInv'
  <2>1. outcome \in Outcome
    BY DEF Outcome
  <2>2. /\ run' \in Run /\ run'.step = "ended" /\ run'.outcome = outcome
        /\ run'.decision = run.decision /\ run'.mode = run.mode
    BY <1>1, <1>2, <2>1, EndsKeeping
  <2> QED
    BY <2>2, QuietStep DEF ModeSet, DecidedLast, Seeing, Answering
<1>3. ASSUME run.mode # "off", NEW reason \in Reason \ {"none"}, EscalatesBecause(reason) PROVE IInv'
  <2>1. /\ run' \in Run /\ run'.step = "escalating" /\ run'.reason = reason
        /\ run'.decision = run.decision /\ run'.mode = run.mode
    BY <1>1, <1>3, Escalating
  <2> QED
    BY <1>3, <2>1, QuietStep DEF ModeSet, DecidedLast, Seeing, Answering
<1>4. "no_decision" \in Reason
  BY DEF Reason
<1> QED
  BY <1>2, <1>3, <1>4

(* A call that failed or was refused, or was only recorded.                 *)
LEMMA CallStep ==
  ASSUME IInv, run.step # "ended", UNCHANGED <<settings, ticket, effects, updates>>,
         NEW next \in Run, Called(next), next.step = "tools", next.mode = run.mode, run.mode # "off",
         next.decision = run.decision
           \/ (run.decision = None /\ next.decision = "proposed")
           \/ (run.decision = None /\ next.decision = "escalated" /\ run.mode = "shadow")
  PROVE  IInv'
<1>1. /\ run' \in Run /\ run'.step = "tools" /\ run'.mode = run.mode
      /\ run'.decision = next.decision
  BY CallCounted
<1>2. RecordsTyped'
  BY <1>1, Typed, TypedNext DEF IInv
<1>3. Due' = Due
  BY <1>1, NoneApart DEF Due
<1>4. DoneAsDecided'
  BY <1>3, DueKept
<1>5. ModeSet' /\ SeenTrue' /\ DecidedLast'
  BY <1>1 DEF ModeSet, SeenTrue, DecidedLast, Seeing, Answering
<1> QED
  BY <1>2, <1>4, <1>5 DEF IInv

-----------------------------------------------------------------------------
(* The actions.                                                             *)

(* The run begins in the mode the settings give it, or not at all.          *)
LEMMA BeginStep == ASSUME IInv, Begin PROVE IInv'
<1> DEFINE mode == RunnableMode(EffectiveMode(settings, ticket.category))
           new == [run EXCEPT !.step = "asking", !.mode = mode, !.first = ticket.category]
<1>1. /\ run.step = "begun" /\ UNCHANGED <<settings, ticket, effects, updates>>
      /\ \/ Ends("aborted", "mode_off")
         \/ EffectiveMode(settings, ticket.category) # "off" /\ run' = new
  BY DEF Begin
<1>2. /\ run \in Run /\ settings \in Settings /\ ticket.category \in Category
      /\ run.decision = None /\ "mode_off" \in Reason
  BY <1>1, Typed DEF IInv, DecidedLast, Ticket, Reason
<1>3. CASE Ends("aborted", "mode_off")
  BY <1>1, <1>2, <1>3, StopStep
<1>4. CASE EffectiveMode(settings, ticket.category) # "off" /\ run' = new
  <2>1. mode \in Mode \ {"off"}
    BY <1>2, <1>4, ModeAllowed
  <2> HIDE DEF mode
  <2>2. /\ new \in Run /\ new.step = "asking" /\ new.mode = mode /\ new.decision = run.decision
    BY <1>2, <2>1 DEF Run
  <2>3. RecordsTyped'
    BY <1>1, <1>4, <2>2, Typed, TypedNext DEF IInv
  <2>4. Due' = Due
    BY <1>2, <1>4, <2>2, NoneApart DEF Due
  <2>5. DoneAsDecided'
    BY <1>1, <2>4, DueKept
  <2>6. ModeSet' /\ SeenTrue' /\ DecidedLast'
    BY <1>2, <1>4, <2>1, <2>2 DEF ModeSet, SeenTrue, DecidedLast, Seeing, Answering
  <2> QED
    BY <2>3, <2>5, <2>6 DEF IInv
<1> QED
  BY <1>1, <1>3, <1>4

(* A turn begins, or the budgets or the switch end the run.                 *)
LEMMA AskStep == ASSUME IInv, Ask PROVE IInv'
<1> DEFINE new == [run EXCEPT !.step = "thinking", !.turn = TurnCounted]
<1>1. /\ run.step = "asking" /\ UNCHANGED <<settings, ticket, effects, updates>>
      /\ \/ EscalatesBecause("step_limit_reached") \/ EscalatesBecause("budget_exceeded")
         \/ Ends("aborted", "kill_switch") \/ Ends("aborted", "daily_cost_cap")
         \/ run.turn # MaxSteps /\ run' = new
  BY DEF Ask
<1>2. /\ run \in Run /\ run.decision = None /\ run.mode # "off"
      /\ {"step_limit_reached", "budget_exceeded", "kill_switch", "daily_cost_cap"}
           \subseteq Reason \ {"none"}
  BY <1>1, Typed DEF IInv, DecidedLast, ModeSet, Reason
<1>3. CASE run.turn # MaxSteps /\ run' = new
  <2>1. run.turn + 1 \in 0..MaxSteps
    BY <1>2, <1>3, AgentLoopAssumption DEF Run
  <2>2. new \in Run /\ new.step = "thinking" /\ new.decision = run.decision /\ new.mode = run.mode
    BY <1>2, <2>1 DEF Run, TurnCounted
  <2> QED
    BY <1>1, <1>2, <1>3, <2>2, QuietStep DEF ModeSet, DecidedLast, Seeing, Answering
<1> QED
  BY <1>1, <1>2, <1>3, StopStep

(* The model answered, refused, or called no tool.                          *)
LEMMA RespondStep == ASSUME IInv, Respond PROVE IInv'
<1> DEFINE new == [run EXCEPT !.step = "tools", !.calls = 0, !.allow = settings.allow]
<1>1. /\ run.step = "thinking" /\ UNCHANGED <<settings, ticket, effects, updates>>
      /\ \/ EscalatesBecause("model_refusal") \/ EscalatesBecause("no_decision")
         \/ Ends("aborted", "kill_switch") \/ Ends("triaged", "no_decision")
         \/ run' = new
  BY DEF Respond
<1>2. /\ run \in Run /\ run.decision = None /\ run.mode # "off"
      /\ {"model_refusal", "no_decision", "kill_switch"} \subseteq Reason \ {"none"}
      /\ settings.allow \in SUBSET Known
  BY <1>1, Typed DEF IInv, DecidedLast, ModeSet, Reason, Settings
<1>3. CASE run' = new
  <2>1. new \in Run /\ new.step = "tools" /\ new.decision = run.decision /\ new.mode = run.mode
    BY <1>2 DEF Run
  <2> QED
    BY <1>1, <1>2, <1>3, <2>1, QuietStep DEF ModeSet, DecidedLast, Seeing, Answering
<1> QED
  BY <1>1, <1>2, <1>3, StopStep

(* The turn is over, and with it a run that has decided.                    *)
LEMMA EndTurnStep == ASSUME IInv, EndTurn PROVE IInv'
<1> DEFINE new == [run EXCEPT !.step = "asking"]
<1>1. /\ run.step = "tools" /\ UNCHANGED <<settings, ticket, effects, updates>>
      /\ IF run.decision # None THEN Ends(run.decision, "none") ELSE run' = new
  BY DEF EndTurn
<1>2. run \in Run /\ run.mode # "off" /\ run.decision \in Decision
  BY <1>1, Typed DEF IInv, ModeSet, Run
<1>3. CASE run.decision # None
  <2>1. run.decision \in Outcome /\ "none" \in Reason
    BY <1>2, <1>3 DEF Decision, Outcome, Reason
  <2>2. /\ run' \in Run /\ run'.step = "ended" /\ run'.outcome = run.decision /\ run'.reason = "none"
        /\ run'.decision = run.decision /\ run'.mode = run.mode
    BY <1>1, <1>2, <1>3, <2>1, EndsKeeping
  <2> QED
    BY <1>1, <2>2, QuietStep DEF ModeSet, DecidedLast, Seeing, Answering
<1>4. CASE run.decision = None
  <2>1. new \in Run /\ new.step = "asking" /\ new.decision = run.decision /\ new.mode = run.mode
    BY <1>2 DEF Run
  <2> QED
    BY <1>1, <1>2, <1>4, <2>1, QuietStep DEF ModeSet, DecidedLast, Seeing, Answering
<1> QED
  BY <1>3, <1>4

(* What holds of a run that calls a tool.                                   *)
LEMMA AtTools ==
  ASSUME IInv, run.step = "tools"
  PROVE  /\ run \in Run /\ run.mode # "off" /\ run.mode \in Mode /\ ticket \in Ticket
         /\ effects \in Effects
BY Typed DEF IInv, ModeSet, Run

(* The tools that only look.                                                *)
LEMMA LookStep == ASSUME IInv, Look PROVE IInv'
<1>1. /\ run.step = "tools" /\ UNCHANGED <<settings, ticket, effects, updates>>
      /\ Called(run) \/ \E a \in Article : Called([run EXCEPT !.read = run.read \cup {a}])
  BY DEF Look, Calling
<1>2. run \in Run /\ run.mode # "off"
  BY <1>1, AtTools
<1>3. ASSUME NEW a \in Article
      PROVE  LET new == [run EXCEPT !.read = run.read \cup {a}]
             IN  new \in Run /\ new.step = run.step /\ new.mode = run.mode /\ new.decision = run.decision
  BY <1>2 DEF Run
<1>4. CASE Called(run)
  BY <1>1, <1>2, <1>4, CallStep
<1>5. ASSUME NEW a \in Article, Called([run EXCEPT !.read = run.read \cup {a}]) PROVE IInv'
  BY <1>1, <1>2, <1>3, <1>5, CallStep
<1> QED
  BY <1>1, <1>4, <1>5

(* A triage reads the ticket; in shadow mode it is only noted.              *)
LEMMA SetTriageStep == ASSUME IInv, SetTriage PROVE IInv'
<1>1. run.step = "tools" /\ UNCHANGED <<settings, updates>>
  BY DEF SetTriage, Calling
<1>2. PICK c \in Known :
        IF run.decision # None THEN Fails(run)
        ELSE IF Disposition(run.mode, "set_triage") = "dry-run" THEN Fails([run EXCEPT !.triage = c])
        ELSE /\ run' = [run EXCEPT !.step = "triaging", !.pick = c, !.attempt = 1, !.seen = ticket]
             /\ NothingDone
  BY DEF SetTriage
<1> DEFINE noted == [run EXCEPT !.triage = c]
           new == [run EXCEPT !.step = "triaging", !.pick = c, !.attempt = 1, !.seen = ticket]
<1>3. run \in Run /\ run.mode # "off" /\ ticket \in Ticket /\ ticket.version \in Nat
  BY <1>1, AtTools DEF Ticket
<1>4. CASE Fails(run)
  BY <1>1, <1>3, <1>4, CallStep DEF Fails, NothingDone
<1>5. CASE Fails(noted)
  <2>1. noted \in Run /\ noted.step = run.step /\ noted.mode = run.mode /\ noted.decision = run.decision
    BY <1>3 DEF Run
  <2> QED
    BY <1>1, <1>3, <1>5, <2>1, CallStep DEF Fails, NothingDone
<1>6. CASE /\ run.decision = None /\ Disposition(run.mode, "set_triage") # "dry-run"
           /\ run' = new /\ NothingDone
  <2>1. run.mode # "shadow"
    BY <1>6 DEF Disposition
  <2>2. /\ new \in Run /\ new.step = "triaging" /\ new.mode = run.mode /\ new.decision = run.decision
        /\ new.seen = ticket /\ new.pick = c /\ new.attempt = 1
    <3>1. ticket \in Ticket \cup {None} /\ c \in Known \cup {None} /\ 1 \in 0..3
      BY <1>3
    <3> QED
      BY <1>3, <3>1 DEF Run
  <2>3. RecordsTyped'
    BY <1>1, <1>6, <2>2, Typed, TypedNext DEF IInv, NothingDone
  <2>4. Due' = Due
    BY <1>6, <2>2 DEF Due
  <2>5. DoneAsDecided'
    BY <1>1, <1>6, <2>4, DueKept DEF NothingDone
  <2>6. SeenTrue'
    BY <1>3, <1>6, <2>2 DEF SeenTrue, Seeing, NothingDone
  <2>7. ModeSet' /\ DecidedLast'
    BY <1>3, <1>6, <2>1, <2>2 DEF ModeSet, DecidedLast, Answering
  <2> QED
    BY <2>3, <2>5, <2>6, <2>7 DEF IInv
<1> QED
  BY <1>2, <1>4, <1>5, <1>6

(* A call that is over leaves the run what it was.                          *)
LEMMA CallOver ==
  ASSUME run \in Run
  PROVE  /\ Over \in Run /\ Over.step = "tools" /\ Over.mode = run.mode
         /\ Over.decision = run.decision
<1>1. None \in Known \cup {None} /\ None \in Ticket \cup {None} /\ None \in Settings \cup {None} /\ 0 \in 0..3
  OBVIOUS
<1> QED
  BY <1>1 DEF Over, Run

(* What was triaged is neither answered nor handed over.                    *)
LEMMA TriagedStep ==
  ASSUME IInv, run.step # "ended", run.mode # "off", UNCHANGED <<settings, updates>>,
         ticket' \in Ticket, NEW told \in Run, NEW untold \in Run, Carries("triaged", told, untold),
         told.step = "tools", told.mode = run.mode, told.decision = run.decision,
         untold.step = "tools", untold.mode = run.mode, untold.decision = run.decision
  PROVE  IInv'
<1>1. /\ effects' \in Effects /\ effects'.did = effects.did \cup {"triaged"}
      /\ \/ effects'.lost = TRUE /\ Called(untold)
         \/ effects'.lost = effects.lost /\ Called(told)
  BY Carried, Typed DEF IInv
<1>2. /\ run' \in Run /\ run'.step = "tools" /\ run'.mode = run.mode
      /\ run'.decision = run.decision
  BY <1>1, CallCounted
<1>3. RecordsTyped'
  BY <1>1, <1>2, Typed, TypedNext DEF IInv
<1>4. Done' = Done /\ Due' = Due
  BY <1>1, <1>2 DEF Done, Due
<1>5. effects.lost \/ Done = Due
  BY DEF IInv, DoneAsDecided, GivenUp
<1>6. effects'.lost \/ Done' = Due'
  BY <1>1, <1>4, <1>5
<1>7. DoneAsDecided'
  BY <1>6 DEF DoneAsDecided
<1>8. ModeSet' /\ SeenTrue' /\ DecidedLast'
  BY <1>2 DEF ModeSet, SeenTrue, DecidedLast, Seeing, Answering
<1> QED
  BY <1>3, <1>7, <1>8 DEF IInv

(* A triage edits the ticket it saw, reads it again, or steps back.         *)
LEMMA CommitTriageStep == ASSUME IInv, CommitTriage PROVE IInv'
<1> DEFINE told == [Over EXCEPT !.triage = run.pick]
           again == [run EXCEPT !.attempt = run.attempt + 1, !.seen = ticket]
           owner == IF run.seen.owner = "Unassigned" THEN "group" ELSE ticket.owner
           edited == [ticket EXCEPT !.category = run.pick, !.version = ticket.version + 1,
                                    !.owner = owner]
<1>1. run.step = "triaging" /\ UNCHANGED <<settings, updates>>
  BY DEF CommitTriage
<1>2. \/ /\ ticket' = edited
         /\ Carries("triaged", told, Over)
      \/ run.attempt < 2 /\ run' = again /\ NothingDone
      \/ StepsBack
      \/ Fails(Over)
  <2>1. ticket \in Ticket
    BY Typed DEF IInv
  <2>2. [ticket EXCEPT !.category = run.pick, !.version = @ + 1,
                       !.owner = IF run.seen.owner = "Unassigned" THEN "group" ELSE @] = edited
    BY <2>1 DEF Ticket
  <2> QED
    BY <2>2 DEF CommitTriage
<1>3. /\ run \in Run /\ run.mode # "off" /\ run.mode # "shadow" /\ run.decision = None
      /\ run.pick \in Known /\ run.attempt \in {1, 2} /\ ticket \in Ticket /\ ticket.version \in Nat
  BY <1>1, Typed DEF IInv, ModeSet, DecidedLast, SeenTrue, Seeing, Ticket
<1>4. Over \in Run /\ Over.step = "tools" /\ Over.mode = run.mode /\ Over.decision = run.decision
  BY <1>3, CallOver
<1>5. told \in Run /\ told.step = "tools" /\ told.mode = run.mode /\ told.decision = run.decision
  BY <1>3, <1>4 DEF Run
<1>6. CASE ticket' = edited /\ Carries("triaged", told, Over)
  <2>1. owner \in {"Unassigned", "person", "group"} /\ run.pick \in Category
    BY <1>3 DEF Ticket, Category
  <2> HIDE DEF owner
  <2>2. edited \in Ticket
    <3>1. ticket.version + 1 \in Nat
      BY <1>3
    <3> QED
      BY <1>3, <2>1, <3>1 DEF Ticket
  <2> HIDE DEF edited, told
  <2> QED
    BY <1>1, <1>3, <1>4, <1>5, <1>6, <2>2, TriagedStep
<1>7. CASE run.attempt < 2 /\ run' = again /\ NothingDone
  <2>1. /\ again \in Run /\ again.step = "triaging" /\ again.mode = run.mode
        /\ again.decision = run.decision /\ again.seen = ticket /\ again.attempt = 2
        /\ again.pick = run.pick
    <3>1. run.attempt + 1 = 2 /\ 2 \in 0..3 /\ ticket \in Ticket \cup {None}
      BY <1>3, <1>7
    <3> QED
      BY <1>1, <1>3, <3>1 DEF Run
  <2>2. RecordsTyped'
    BY <1>1, <1>7, <2>1, Typed, TypedNext DEF IInv, NothingDone
  <2>3. Due' = Due
    BY <1>7, <2>1 DEF Due
  <2>4. DoneAsDecided'
    BY <1>1, <1>7, <2>3, DueKept DEF NothingDone
  <2>5. SeenTrue'
    BY <1>3, <1>7, <2>1 DEF SeenTrue, Seeing, NothingDone
  <2>6. ModeSet' /\ DecidedLast'
    BY <1>3, <1>7, <2>1 DEF ModeSet, DecidedLast, Answering
  <2> QED
    BY <2>2, <2>4, <2>5, <2>6 DEF IInv
<1>8. CASE StepsBack
  <2>1. Ends("aborted", "ticket_changed") /\ UNCHANGED <<settings, ticket, effects, updates>>
        /\ "ticket_changed" \in Reason
    BY <1>1, <1>8 DEF StepsBack, NothingDone, Reason
  <2> QED
    BY <1>1, <1>3, <2>1, StopStep
<1>9. CASE Fails(Over)
  BY <1>1, <1>3, <1>4, <1>9, CallStep DEF Fails, NothingDone
<1> QED
  BY <1>2, <1>6, <1>7, <1>8, <1>9

(* A proposal is noted when the checks let it.                              *)
LEMMA ProposeStep == ASSUME IInv, Propose PROVE IInv'
<1>1. /\ run.step = "tools" /\ UNCHANGED <<settings, ticket, effects, updates>>
      /\ Called(run) \/ (run.decision = None /\ Called(Decided("proposed")))
  BY DEF Propose, Calling, CheckResolution, Undecided
<1>2. run \in Run /\ run.mode # "off"
  BY <1>1, AtTools
<1>3. /\ Decided("proposed") \in Run /\ Decided("proposed").step = run.step
      /\ Decided("proposed").mode = run.mode /\ Decided("proposed").decision = "proposed"
  BY <1>2 DEF Decided, Run, Decision
<1>4. CASE Called(run)
  BY <1>1, <1>2, <1>4, CallStep
<1>5. CASE run.decision = None /\ Called(Decided("proposed"))
  BY <1>1, <1>2, <1>3, <1>5, CallStep
<1> QED
  BY <1>1, <1>4, <1>5

(* An answer or a hand-over is the first thing done, and is decided with    *)
(* it, unless its answer is lost.                                           *)
LEMMA ConcludedStep ==
  ASSUME IInv, run.step # "ended", run.mode # "off", run.decision = None,
         UNCHANGED <<settings, updates>>, ticket' \in Ticket, NEW effect, NEW decision,
         \/ effect = "answered" /\ decision = "posted"
         \/ effect = "handed over" /\ decision = "escalated" /\ run.mode # "shadow",
         NEW told \in Run, NEW untold \in Run, Carries(effect, told, untold),
         told.step = "tools", told.mode = run.mode, told.decision = decision,
         untold.step = "tools", untold.mode = run.mode
  PROVE  IInv'
<1>1. run \in Run /\ effects \in Effects
  BY Typed DEF IInv
<1>2. /\ decision \in Decision /\ effect \in {"triaged", "answered", "handed over"}
      /\ effect # "triaged"
  BY DEF Decision
<1>3. /\ effects' \in Effects /\ effects'.did = effects.did \cup {effect}
      /\ \/ effects'.lost = TRUE /\ Called(untold)
         \/ effects'.lost = effects.lost /\ Called(told)
  BY <1>1, <1>2, Carried
<1>4. /\ run' \in Run /\ run'.step = "tools" /\ run'.mode = run.mode
      /\ effects'.lost = TRUE \/ (effects'.lost = effects.lost /\ run'.decision = decision)
  BY <1>1, <1>3, CallCounted
<1>5. RecordsTyped'
  BY <1>3, <1>4, Typed, TypedNext DEF IInv
<1>6. effects.lost \/ Done = {}
  BY NothingDue
<1>7. Done' = Done \cup {effect}
  BY <1>2, <1>3 DEF Done
<1>8. run'.decision = decision => Due' = {effect}
  BY <1>4 DEF Due
<1>9. DoneAsDecided'
  <2>1. CASE effects'.lost = TRUE
    BY <2>1 DEF DoneAsDecided
  <2>2. CASE effects'.lost = effects.lost /\ run'.decision = decision
    <3>1. CASE Done = {}
      BY <1>7, <1>8, <2>2, <3>1 DEF DoneAsDecided
    <3>2. CASE Done # {}
      <4>1. effects'.lost
        BY <1>6, <2>2, <3>2
      <4> QED
        BY <4>1 DEF DoneAsDecided
    <3> QED
      BY <3>1, <3>2
  <2> QED
    BY <1>4, <2>1, <2>2
<1>10. ModeSet' /\ SeenTrue' /\ DecidedLast'
  BY <1>1, <1>4 DEF ModeSet, SeenTrue, DecidedLast, Seeing, Answering
<1> QED
  BY <1>5, <1>9, <1>10 DEF IInv

(* A conflict makes an undecided run step back.                             *)
LEMMA StepBackStep ==
  ASSUME IInv, run.step # "ended", run.decision = None, UNCHANGED <<settings, updates>>, StepsBack
  PROVE  IInv'
<1>1. Ends("aborted", "ticket_changed") /\ UNCHANGED <<settings, ticket, effects, updates>>
      /\ "ticket_changed" \in Reason
  BY DEF StepsBack, NothingDone, Reason
<1> QED
  BY <1>1, StopStep

(* The ticket stays a ticket when its version goes up.                      *)
LEMMA NextVersion ==
  ASSUME ticket \in Ticket
  PROVE  /\ ticket.version + 1 \in Nat /\ ticket.version + 1 > ticket.version
         /\ [ticket EXCEPT !.version = ticket.version + 1] \in Ticket
         /\ [ticket EXCEPT !.owner = "group", !.version = ticket.version + 1] \in Ticket
<1>1. ticket.version + 1 \in Nat /\ ticket.version + 1 > ticket.version
  BY DEF Ticket
<1> QED
  BY <1>1 DEF Ticket

(* An answer on its way is one of a run in auto mode that has read          *)
(* something.                                                               *)
LEMMA AnswerStep ==
  ASSUME IInv, run.step # "ended", run.decision = None, run.mode = "auto", run.read # {},
         UNCHANGED <<settings, ticket, effects, updates>>,
         run' \in Run, run'.step \in Answering, run'.decision = run.decision,
         run'.mode = run.mode, run'.read = run.read, run'.attempt \in 1..3,
         run'.step \in Seeing =>
           /\ run'.seen \in Ticket /\ run'.seen.version <= ticket.version
           /\ run'.seen.version = ticket.version => run'.seen = ticket
  PROVE  IInv'
<1>1. RecordsTyped'
  BY Typed, TypedNext DEF IInv
<1>2. Due' = Due
  BY DEF Due
<1>3. DoneAsDecided'
  BY <1>2, DueKept
<1>4. ModeSet' /\ SeenTrue' /\ DecidedLast'
  BY DEF ModeSet, SeenTrue, DecidedLast, Answering
<1> QED
  BY <1>1, <1>3, <1>4 DEF IInv

(* What holds of a run whose answer is on its way.                          *)
LEMMA AtAnswering ==
  ASSUME IInv, run.step \in Answering
  PROVE  /\ run \in Run /\ run.mode = "auto" /\ run.read # {} /\ run.attempt \in 1..3
         /\ run.decision = None /\ ticket \in Ticket /\ ticket.version \in Nat
BY Typed DEF IInv, ModeSet, DecidedLast, Ticket

(* A call that took several steps fails.                                    *)
LEMMA OverFails ==
  ASSUME IInv, run.step \in Answering, UNCHANGED <<settings, updates>>, Fails(Over) PROVE IInv'
<1>1. run \in Run /\ run.mode # "off" /\ run.step # "ended"
  BY AtAnswering DEF Answering
<1>2. Over \in Run /\ Over.step = "tools" /\ Over.mode = run.mode /\ Over.decision = run.decision
  BY <1>1, CallOver
<1> QED
  BY <1>1, <1>2, CallStep DEF Fails, NothingDone

(* An answer is sent to the server, or not.                                 *)
LEMMA PostStep == ASSUME IInv, Post PROVE IInv'
<1> DEFINE new == [run EXCEPT !.step = "answering", !.attempt = 1]
<1>1. run.step = "tools" /\ UNCHANGED <<settings, updates>>
  BY DEF Post, Calling
<1>2. run \in Run /\ run.mode # "off" /\ ticket \in Ticket
  BY <1>1, AtTools
<1>3. \/ Fails(run)
      \/ /\ run.decision = None /\ run.mode = "auto" /\ run.read # {}
         /\ run' = new /\ NothingDone
  <2>1. PICK r \in Resolution :
          \/ Fails(run)
          \/ CheckResolution(r) /\ MayPostAlone /\ run' = new /\ NothingDone
    BY DEF Post, AfterFailure
  <2>2. CheckResolution(r) => run.decision = None /\ run.read # {}
    <3>1. r.cited \in (SUBSET Article) \ {{}}
      BY <2>1 DEF Resolution
    <3> QED
      BY <3>1 DEF CheckResolution, Undecided
  <2> QED
    BY <2>1, <2>2 DEF MayPostAlone
<1>4. CASE Fails(run)
  BY <1>1, <1>2, <1>4, CallStep DEF Fails, NothingDone
<1>5. CASE /\ run.decision = None /\ run.mode = "auto" /\ run.read # {}
           /\ run' = new /\ NothingDone
  <2>1. /\ new \in Run /\ new.step = "answering" /\ new.attempt = 1 /\ new.read = run.read
        /\ new.decision = run.decision /\ new.mode = run.mode
    <3>1. 1 \in 0..3
      OBVIOUS
    <3> QED
      BY <1>2, <3>1 DEF Run
  <2> HIDE DEF new
  <2> QED
    BY <1>1, <1>5, <2>1, AnswerStep DEF NothingDone, Answering, Seeing
<1> QED
  BY <1>3, <1>4, <1>5

(* The server reads the ticket, and finds it answered or finished, or not.  *)
LEMMA ReadTicketStep == ASSUME IInv, ReadTicket PROVE IInv'
<1> DEFINE new == [run EXCEPT !.step = "checking", !.seen = ticket]
<1>1. /\ run.step = "answering" /\ UNCHANGED <<settings, updates>>
      /\ StepsBack \/ Fails(Over) \/ (run' = new /\ NothingDone)
  BY DEF ReadTicket
<1>2. run.step \in Answering /\ run.step # "ended"
  BY <1>1 DEF Answering
<1>3. /\ run \in Run /\ run.mode = "auto" /\ run.read # {} /\ run.attempt \in 1..3
      /\ run.decision = None /\ ticket \in Ticket /\ ticket.version \in Nat
  BY <1>2, AtAnswering
<1>4. CASE StepsBack
  BY <1>1, <1>2, <1>3, <1>4, StepBackStep
<1>5. CASE Fails(Over)
  BY <1>1, <1>2, <1>5, OverFails
<1>6. CASE run' = new /\ NothingDone
  <2>1. /\ new \in Run /\ new.step = "checking" /\ new.attempt = run.attempt /\ new.read = run.read
        /\ new.decision = run.decision /\ new.mode = run.mode /\ new.seen = ticket
    BY <1>3 DEF Run
  <2> HIDE DEF new
  <2> QED
    BY <1>1, <1>2, <1>3, <1>6, <2>1, AnswerStep DEF NothingDone, Answering
<1> QED
  BY <1>1, <1>4, <1>5, <1>6

(* It reads the settings, and refuses or goes on.                           *)
LEMMA CheckSettingsStep == ASSUME IInv, CheckSettings PROVE IInv'
<1> DEFINE new == [run EXCEPT !.step = "posting", !.given = SettingsNow]
<1>1. /\ run.step = "checking" /\ UNCHANGED <<settings, updates>>
      /\ Fails(Over) \/ (run' = new /\ NothingDone)
  BY DEF CheckSettings
<1>2. run.step \in Answering /\ run.step # "ended" /\ run.step \in Seeing
  BY <1>1 DEF Answering, Seeing
<1>3. /\ run \in Run /\ run.mode = "auto" /\ run.read # {} /\ run.attempt \in 1..3
      /\ run.decision = None /\ settings \in Settings
      /\ run.seen \in Ticket /\ run.seen.version <= ticket.version
      /\ run.seen.version = ticket.version => run.seen = ticket
  BY <1>2, AtAnswering, Typed DEF IInv, SeenTrue
<1>4. CASE Fails(Over)
  BY <1>1, <1>2, <1>4, OverFails
<1>5. CASE run' = new /\ NothingDone
  <2>1. /\ new \in Run /\ new.step = "posting" /\ new.attempt = run.attempt /\ new.read = run.read
        /\ new.decision = run.decision /\ new.mode = run.mode /\ new.seen = run.seen
    BY <1>3 DEF Run, SettingsNow
  <2> HIDE DEF new
  <2> QED
    BY <1>1, <1>2, <1>3, <1>5, <2>1, AnswerStep DEF NothingDone, Answering
<1> QED
  BY <1>1, <1>4, <1>5

(* The answer is given at the version that was read, or tried again, or     *)
(* given up.                                                                *)
LEMMA CommitPostStep == ASSUME IInv, CommitPost PROVE IInv'
<1> DEFINE told == [Over EXCEPT !.decision = "posted"]
           again == [run EXCEPT !.step = "answering", !.attempt = run.attempt + 1]
<1>1. run.step = "posting" /\ UNCHANGED <<settings, updates>>
  BY DEF CommitPost
<1>2. run.step \in Answering /\ run.step # "ended"
  BY <1>1 DEF Answering
<1>3. /\ run \in Run /\ run.mode = "auto" /\ run.read # {} /\ run.attempt \in 1..3
      /\ run.decision = None /\ ticket \in Ticket /\ ticket.version \in Nat
  BY <1>2, AtAnswering
<1>4. \/ /\ ticket' = [ticket EXCEPT !.version = ticket.version + 1]
         /\ Carries("answered", told, Over)
      \/ run.attempt < 3 /\ run' = again /\ NothingDone
      \/ StepsBack
      \/ Fails(Over)
  <2>1. /\ [ticket EXCEPT !.version = @ + 1] = [ticket EXCEPT !.version = ticket.version + 1]
        /\ [run EXCEPT !.step = "answering", !.attempt = @ + 1] = again
    BY <1>3 DEF Ticket, Run
  <2> QED
    BY <2>1 DEF CommitPost
<1>5. Over \in Run /\ Over.step = "tools" /\ Over.mode = run.mode /\ Over.decision = run.decision
  BY <1>3, CallOver
<1>6. told \in Run /\ told.step = "tools" /\ told.mode = run.mode /\ told.decision = "posted"
  BY <1>5 DEF Run, Decision
<1>7. CASE /\ ticket' = [ticket EXCEPT !.version = ticket.version + 1]
           /\ Carries("answered", told, Over)
  <2>1. ticket' \in Ticket
    BY <1>3, <1>7, NextVersion
  <2> HIDE DEF told
  <2> QED
    BY <1>1, <1>2, <1>3, <1>5, <1>6, <1>7, <2>1, ConcludedStep
<1>8. CASE run.attempt < 3 /\ run' = again /\ NothingDone
  <2>1. run.attempt + 1 \in 1..3
    BY <1>3, <1>8
  <2>2. /\ again \in Run /\ again.step = "answering" /\ again.attempt = run.attempt + 1
        /\ again.read = run.read /\ again.decision = run.decision /\ again.mode = run.mode
    <3>1. run.attempt + 1 \in 0..3
      BY <2>1
    <3> QED
      BY <1>3, <3>1 DEF Run
  <2> HIDE DEF again
  <2> QED
    BY <1>1, <1>2, <1>3, <1>8, <2>1, <2>2, AnswerStep DEF NothingDone, Answering, Seeing
<1>9. CASE StepsBack
  BY <1>1, <1>2, <1>3, <1>9, StepBackStep
<1>10. CASE Fails(Over)
  BY <1>1, <1>2, <1>10, OverFails
<1> QED
  BY <1>4, <1>7, <1>8, <1>9, <1>10

(* A hand-over is made, noted in shadow mode, fails, or meets a conflict.   *)
LEMMA EscalateStep == ASSUME IInv, Escalate PROVE IInv'
<1>1. run.step = "tools" /\ UNCHANGED <<settings, updates>>
  BY DEF Escalate, Calling
<1>2. run \in Run /\ run.mode # "off" /\ ticket \in Ticket
  BY <1>1, AtTools
<1>3. \/ Fails(run)
      \/ run.decision = None /\ run.mode = "shadow" /\ Fails(Decided("escalated"))
      \/ run.decision = None /\ StepsBack
      \/ /\ run.decision = None /\ run.mode # "shadow"
         /\ HandsOver
         /\ Carries("handed over", Decided("escalated"), run)
  BY <1>2 DEF Escalate, AfterFailure, Undecided, Disposition
<1>4. CASE Fails(run)
  BY <1>1, <1>2, <1>4, CallStep DEF Fails, NothingDone
<1>5. CASE run.decision = None /\ run.mode = "shadow" /\ Fails(Decided("escalated"))
  <2>1. /\ Decided("escalated") \in Run /\ Decided("escalated").step = "tools"
        /\ Decided("escalated").mode = run.mode /\ Decided("escalated").decision = "escalated"
    BY <1>1, <1>2 DEF Decided, Run, Decision
  <2> QED
    BY <1>1, <1>2, <1>5, <2>1, CallStep DEF Fails, NothingDone
<1>6. CASE run.decision = None /\ StepsBack
  BY <1>1, <1>6, StepBackStep
<1>7. CASE /\ run.decision = None /\ run.mode # "shadow"
           /\ HandsOver
           /\ Carries("handed over", Decided("escalated"), run)
  <2>1. ticket' = [ticket EXCEPT !.owner = "group", !.version = ticket.version + 1]
    BY <1>2, <1>7 DEF HandsOver, Ticket
  <2>2. ticket' \in Ticket
    BY <1>2, <2>1, NextVersion
  <2>3. /\ Decided("escalated") \in Run /\ Decided("escalated").step = "tools"
        /\ Decided("escalated").mode = run.mode /\ Decided("escalated").decision = "escalated"
    BY <1>1, <1>2 DEF Decided, Run, Decision
  <2> QED
    BY <1>1, <1>2, <1>7, <2>2, <2>3, ConcludedStep
<1> QED
  BY <1>3, <1>4, <1>5, <1>6, <1>7

(* A run that gives up hands the ticket over, or fails to.                  *)
LEMMA GiveUpStep == ASSUME IInv, GiveUp PROVE IInv'
<1> DEFINE triage == IF run.triage # None THEN run.triage
                     ELSE IF run.first \in Known THEN run.first ELSE "General"
           ended == [run EXCEPT !.triage = triage, !.step = "ended", !.outcome = "escalated"]
<1>1. /\ run \in Run /\ ticket \in Ticket /\ effects \in Effects
  BY Typed DEF IInv
<1>2. run.step = "escalating" /\ UNCHANGED <<settings, updates>>
  BY DEF GiveUp
<1>3. [[run EXCEPT !.triage = IF @ # None THEN @
                              ELSE IF run.first \in Known THEN run.first ELSE "General"]
         EXCEPT !.step = "ended", !.outcome = "escalated"] = ended
  BY <1>1 DEF Run
<1>4. \/ /\ Disposition(run.mode, "escalate") = "run"
         /\ HandsOver
         /\ Carries("handed over", ended, ended)
      \/ Fails(ended)
  <2> HIDE DEF ended
  <2> QED
    BY <1>3 DEF GiveUp
<1>5. run.decision = None /\ run.mode # "off" /\ run.reason # "none"
  BY <1>2 DEF IInv, DecidedLast, ModeSet
<1>6. triage \in Known \cup {None}
  BY <1>1 DEF Run, Known
<1>7. /\ ended \in Run /\ ended.step = "ended" /\ ended.outcome = "escalated"
      /\ ended.decision = None /\ ended.mode = run.mode /\ ended.reason = run.reason
  <2> HIDE DEF triage
  <2>1. "escalated" \in Outcome
    BY DEF Outcome
  <2> QED
    BY <1>1, <1>5, <1>6, <2>1 DEF Run
<1> HIDE DEF ended
<1>8. Called(ended) => /\ run' \in Run /\ run'.step = "ended" /\ run'.outcome = "escalated"
                       /\ run'.decision = None /\ run'.reason # "none"
  BY <1>5, <1>7, CallCounted
<1>9. Due = {} /\ (effects.lost \/ Done = {})
  BY <1>2, <1>5, NothingDue
<1>10. CASE Fails(ended)
  <2>1. Called(ended) /\ UNCHANGED <<ticket, effects>>
    BY <1>10 DEF Fails, NothingDone
  <2>2. RecordsTyped'
    BY <1>2, <1>8, <2>1, Typed, TypedNext DEF IInv
  <2>3. Due' = {} /\ Done' = Done /\ effects'.lost = effects.lost
    BY <1>8, <2>1, NoneApart DEF Due, Done
  <2>4. DoneAsDecided'
    BY <1>9, <2>3 DEF DoneAsDecided
  <2>5. ModeSet' /\ SeenTrue' /\ DecidedLast'
    BY <1>8, <2>1 DEF ModeSet, SeenTrue, DecidedLast, Seeing, Answering
  <2> QED
    BY <2>2, <2>4, <2>5 DEF IInv
<1>11. CASE HandsOver /\ Carries("handed over", ended, ended)
  <2>1. /\ effects' \in Effects /\ effects'.did = effects.did \cup {"handed over"}
        /\ Called(ended) /\ (effects'.lost = TRUE \/ effects'.lost = effects.lost)
    BY <1>1, <1>7, <1>11, Carried
  <2>2. ticket' = [ticket EXCEPT !.owner = "group", !.version = ticket.version + 1]
    BY <1>1, <1>11 DEF HandsOver, Ticket
  <2>3. ticket' \in Ticket
    BY <1>1, <2>2, NextVersion
  <2>4. RecordsTyped'
    BY <1>2, <1>8, <2>1, <2>3, Typed, TypedNext DEF IInv
  <2>5. Done' = Done \cup {"handed over"}
    BY <2>1 DEF Done
  <2>6. GivenUp'
    BY <1>8, <2>1 DEF GivenUp
  <2>7. DoneAsDecided'
    <3>1. CASE Done = {}
      BY <2>5, <2>6, <3>1 DEF DoneAsDecided
    <3>2. CASE Done # {}
      <4>1. effects'.lost
        BY <1>9, <2>1, <3>2
      <4> QED
        BY <4>1 DEF DoneAsDecided
    <3> QED
      BY <3>1, <3>2
  <2>8. ModeSet' /\ SeenTrue' /\ DecidedLast'
    BY <1>8, <2>1 DEF ModeSet, SeenTrue, DecidedLast, Seeing, Answering
  <2> QED
    BY <2>4, <2>7, <2>8 DEF IInv
<1> QED
  BY <1>4, <1>10, <1>11

(* Something throws under the loop.                                         *)
LEMMA ThrowsStep == ASSUME IInv, Throws PROVE IInv'
<1>1. run.step # "ended" /\ Ends("error", "none") /\ UNCHANGED <<settings, ticket, effects, updates>>
  BY DEF Throws
<1>2. run \in Run /\ "error" \in Outcome /\ "none" \in Reason
  BY Typed DEF IInv, Outcome, Reason
<1>3. /\ run' \in Run /\ run'.step = "ended" /\ run'.outcome = "error"
      /\ run'.decision = run.decision /\ run'.mode = run.mode
  BY <1>1, <1>2, EndsKeeping
<1> QED
  BY <1>1, <1>3, QuietStep DEF ModeSet, DecidedLast, Seeing, Answering

(* An admin changes the settings: the run is as it was.                     *)
LEMMA UpdateSettingsStep == ASSUME IInv, UpdateSettings PROVE IInv'
<1>1. UNCHANGED <<run, ticket, effects>> /\ updates < MaxUpdates /\ updates' = updates + 1
  BY DEF UpdateSettings
<1>2. settings \in Settings /\ updates \in 0..MaxUpdates
  BY Typed DEF IInv
<1>3. updates' \in 0..MaxUpdates
  BY <1>1, <1>2, AgentLoopAssumption
<1>4. settings' \in Settings
  <2>1. CASE settings' = [settings EXCEPT !.kill = ~@]
    BY <1>2, <2>1 DEF Settings
  <2>2. ASSUME NEW mode \in Mode, settings' = [settings EXCEPT !.default = mode]
        PROVE  settings' \in Settings
    BY <1>2, <2>2 DEF Settings
  <2>3. ASSUME NEW c \in Known, NEW mode \in Mode, settings' = [settings EXCEPT !.own[c] = mode]
        PROVE  settings' \in Settings
    <3>1. [settings.own EXCEPT ![c] = mode] \in [Known -> Mode \cup {"unset"}]
      BY <1>2, <2>3 DEF Settings
    <3>2. settings' = [settings EXCEPT !.own = [settings.own EXCEPT ![c] = mode]]
      BY <1>2, <2>3 DEF Settings
    <3> QED
      BY <1>2, <3>1, <3>2 DEF Settings
  <2>4. ASSUME NEW c \in Known,
               \/ settings' = [settings EXCEPT !.allow = @ \cup {c}]
               \/ settings' = [settings EXCEPT !.allow = @ \ {c}]
        PROVE  settings' \in Settings
    <3>1. settings.allow \cup {c} \in SUBSET Known /\ settings.allow \ {c} \in SUBSET Known
      BY <1>2 DEF Settings
    <3>2. \/ settings' = [settings EXCEPT !.allow = settings.allow \cup {c}]
          \/ settings' = [settings EXCEPT !.allow = settings.allow \ {c}]
      BY <1>2, <2>4 DEF Settings
    <3> QED
      BY <1>2, <3>1, <3>2 DEF Settings
  <2> QED
    BY <2>1, <2>2, <2>3, <2>4 DEF UpdateSettings
<1>5. RecordsTyped'
  BY <1>1, <1>3, <1>4, Typed, TypedNext DEF IInv
<1> QED
  BY <1>1, <1>5 DEF IInv, ModeSet, SeenTrue, DecidedLast, DoneAsDecided, Done, Due, GivenUp

(* A person edits the ticket: it is newer than what a call of the run saw.  *)
LEMMA PersonEditsStep == ASSUME IInv, PersonEdits PROVE IInv'
<1>1. UNCHANGED <<settings, run, effects, updates>> /\ ticket \in Ticket
  BY Typed DEF PersonEdits, IInv
<1>2. ticket.version + 1 \in Nat /\ ticket.version \in Nat
  BY <1>1 DEF Ticket
<1>3. ticket' \in Ticket /\ ticket'.version = ticket.version + 1
  <2>1. ASSUME NEW c \in Category,
               ticket' = [ticket EXCEPT !.category = c, !.version = ticket.version + 1]
        PROVE  ticket' \in Ticket /\ ticket'.version = ticket.version + 1
    BY <1>1, <1>2, <2>1 DEF Ticket
  <2>2. CASE ticket' = [ticket EXCEPT !.owner = "person", !.version = ticket.version + 1]
    BY <1>1, <1>2, <2>2 DEF Ticket
  <2>3. CASE ticket' = [ticket EXCEPT !.finished = ~ticket.finished, !.version = ticket.version + 1]
    <3>1. \A finished \in BOOLEAN :
            LET next == [ticket EXCEPT !.finished = finished, !.version = ticket.version + 1]
            IN  next \in Ticket /\ next.version = ticket.version + 1
      BY <1>1, <1>2 DEF Ticket
    <3>2. (~ticket.finished) \in BOOLEAN
      OBVIOUS
    <3> QED
      BY <2>3, <3>1, <3>2, Zenon
  <2> QED
    BY <1>1, <2>1, <2>2, <2>3 DEF PersonEdits, Ticket
<1>4. RecordsTyped'
  BY <1>1, <1>3, Typed, TypedNext DEF IInv
<1>5. SeenTrue'
  <2>1. run.step \in Seeing => run.seen.version \in Nat
    BY DEF IInv, SeenTrue, Ticket
  <2> QED
    BY <1>1, <1>2, <1>3, <2>1 DEF IInv, SeenTrue
<1> QED
  BY <1>1, <1>4, <1>5 DEF IInv, ModeSet, DecidedLast, DoneAsDecided, Done, Due, GivenUp

-----------------------------------------------------------------------------
(* The invariant, from the first state on.                                  *)

(* A run begins undecided, having done nothing.                             *)
LEMMA InitSound == Init => IInv
<1> SUFFICES ASSUME Init PROVE IInv
  OBVIOUS
<1>1. settings \in Settings
  <2>1. DefaultSettings \in Settings
    BY DEF DefaultSettings, Settings, Mode
  <2>2. [DefaultSettings EXCEPT !.default = "assist"] \in Settings
    BY <2>1 DEF Settings, Mode
  <2>3. [DefaultSettings EXCEPT !.default = "auto", !.allow = Known] \in Settings
    BY <2>1 DEF Settings, Mode
  <2> QED
    BY <2>1, <2>2, <2>3 DEF Init
<1>2. ticket \in Ticket
  <2>1. ticket \in [category : Category, owner : {"Unassigned", "person"}, version : {0},
                    finished : {FALSE}]
    BY DEF Init
  <2>2. \A c \in Category, o \in {"Unassigned", "person"} :
          [category |-> c, owner |-> o, version |-> 0, finished |-> FALSE] \in Ticket
    BY DEF Ticket
  <2>3. PICK c \in Category, o \in {"Unassigned", "person"} :
          ticket = [category |-> c, owner |-> o, version |-> 0, finished |-> FALSE]
    BY <2>1
  <2> QED
    BY <2>2, <2>3
<1>3. run \in Run
  BY AgentLoopAssumption DEF Init, Run, Mode, Outcome, Reason, Decision
<1>4. effects \in Effects /\ updates \in 0..MaxUpdates
  BY AgentLoopAssumption DEF Init, Effects
<1>5. RecordsTyped
  BY <1>1, <1>2, <1>3, <1>4, Typed
<1>6. run.step = "begun" /\ run.step \notin Seeing \cup Answering /\ run.decision = None /\ effects.did = {}
  BY DEF Init, Seeing, Answering
<1>7. Done = {} /\ Due = {}
  BY <1>6, NoneApart DEF Done, Due
<1> QED
  BY <1>5, <1>6, <1>7 DEF IInv, ModeSet, SeenTrue, DecidedLast, DoneAsDecided

(* Every step of the loop, of a person and of an admin keeps the invariant. *)
LEMMA StepSound == IInv /\ [Next]_vars => IInv'
<1> SUFFICES ASSUME IInv, [Next]_vars PROVE IInv'
  OBVIOUS
<1>1. CASE UNCHANGED vars
  BY <1>1, Typed, TypedNext DEF vars, IInv, ModeSet, SeenTrue, DecidedLast, DoneAsDecided, Done, Due,
       GivenUp
<1> QED
  BY <1>1, BeginStep, AskStep, RespondStep, EndTurnStep, LookStep, SetTriageStep, CommitTriageStep,
     ProposeStep, PostStep, ReadTicketStep, CheckSettingsStep, CommitPostStep, EscalateStep, GiveUpStep,
     ThrowsStep, UpdateSettingsStep, PersonEditsStep DEF Next, Step, Other

(* The invariant holds in every state of every behaviour.                   *)
LEMMA AlwaysIInv == Spec => []IInv
BY InitSound, StepSound, PTL DEF Spec

-----------------------------------------------------------------------------
(* What the server's check of the settings is worth at the write.           *)

(* The settings as they are belong to what they have been; and an answer    *)
(* about to be written was allowed by settings that are still of those, if  *)
(* the ticket is still what the server read.                                *)
PastSound ==
  /\ past \subseteq Settings /\ settings \in past
  /\ run.step = "posting" =>
       /\ MayPost(run.given, run.seen.category, "high")
       /\ AtVersion(run.seen.version) => run.given \in past

(* Past settings stay past settings for as long as the ticket is the same.  *)
LEMMA Remembered ==
  ASSUME settings' \in Settings, past \subseteq Settings, Remembers
  PROVE  /\ past' \subseteq Settings /\ settings' \in past'
         /\ ticket' = ticket => past \subseteq past'
BY DEF Remembers

(* Whoever changes the ticket makes a new version of it.                    *)
LEMMA TicketMoves ==
  ASSUME IInv, [Next]_vars
  PROVE  ticket' = ticket \/ ticket'.version = ticket.version + 1
<1>1. ticket \in Ticket
  BY Typed DEF IInv
<1>2. CASE PersonEdits
  BY <1>1, <1>2 DEF PersonEdits, Ticket
<1>3. CASE CommitTriage
  BY <1>1, <1>3 DEF CommitTriage, Fails, StepsBack, NothingDone, Ticket
<1>4. CASE CommitPost
  BY <1>1, <1>4 DEF CommitPost, Fails, StepsBack, NothingDone, Ticket
<1>5. CASE Escalate \/ GiveUp
  BY <1>1, <1>5 DEF Escalate, GiveUp, HandsOver, Fails, StepsBack, NothingDone, Ticket
<1>6. CASE Begin \/ Ask \/ Respond \/ EndTurn \/ Look \/ Propose \/ Throws \/ UpdateSettings
  BY <1>6 DEF Begin, Ask, Respond, EndTurn, Look, Propose, Throws, UpdateSettings
<1>7. CASE SetTriage \/ Post \/ ReadTicket \/ CheckSettings
  BY <1>7 DEF SetTriage, Post, ReadTicket, CheckSettings, Fails, StepsBack, NothingDone
<1>8. CASE UNCHANGED vars
  BY <1>8 DEF vars
<1> QED
  BY <1>2, <1>3, <1>4, <1>5, <1>6, <1>7, <1>8 DEF Next, Step, Other

(* An answer is about to be written only after a check, or while nothing    *)
(* but other people's steps happen.                                         *)
LEMMA PostingSince ==
  ASSUME IInv, IInv', [Next]_vars, run'.step = "posting"
  PROVE  UNCHANGED run \/ CheckSettings
<1>1. run \in Run /\ (run.step \in {"asking", "thinking", "tools"} => run.step \notin Answering)
  BY Typed DEF IInv, Answering
<1>2. ASSUME NEW next \in Run, Called(next), next.step # "posting" PROVE FALSE
  BY <1>2, CallCounted
<1>3. Over \in Run /\ Over.step = "tools"
  BY <1>1, CallOver
<1>4. ASSUME NEW effect \in {"triaged", "answered", "handed over"},
             NEW told \in Run, NEW untold \in Run, Carries(effect, told, untold),
             told.step # "posting", untold.step # "posting"
      PROVE  FALSE
  <2>1. Called(told) \/ Called(untold)
    BY <1>4 DEF Carries
  <2> QED
    BY <1>2, <1>4, <2>1
<1>5. ASSUME NEW outcome, NEW reason, Ends(outcome, reason) PROVE FALSE
  BY <1>1, <1>5 DEF Ends, Run
<1>6. ASSUME NEW reason, EscalatesBecause(reason) PROVE FALSE
  BY <1>1, <1>6 DEF EscalatesBecause, Run
<1>7. CASE Begin \/ Ask \/ Respond \/ EndTurn
  BY <1>1, <1>5, <1>6, <1>7 DEF Begin, Ask, Respond, EndTurn, Run
<1>8. CASE Look \/ Propose
  <2>1. run.step = "tools" /\ \E next \in Run : next.step = run.step /\ Called(next)
    <3>1. run.step = "tools" /\ run \in Run
      BY <1>1, <1>8 DEF Look, Propose, Calling
    <3>2. \A a \in Article : [run EXCEPT !.read = run.read \cup {a}] \in Run
                            /\ [run EXCEPT !.read = run.read \cup {a}].step = run.step
      BY <3>1 DEF Run
    <3>3. Decided("proposed") \in Run /\ Decided("proposed").step = run.step
      BY <3>1 DEF Decided, Run, Decision
    <3>4. \/ Called(run) \/ Called(Decided("proposed"))
          \/ \E a \in Article : Called([run EXCEPT !.read = run.read \cup {a}])
      BY <1>8 DEF Look, Propose
    <3> QED
      BY <3>1, <3>2, <3>3, <3>4
  <2> QED
    BY <1>2, <2>1
<1>9. CASE SetTriage
  <2>1. PICK c \in Known :
          \/ Called(run) \/ Called([run EXCEPT !.triage = c])
          \/ run' = [run EXCEPT !.step = "triaging", !.pick = c, !.attempt = 1, !.seen = ticket]
    BY <1>9 DEF SetTriage, Fails
  <2>2. [run EXCEPT !.triage = c] \in Run /\ [run EXCEPT !.triage = c].step = run.step
    BY <1>1 DEF Run
  <2>3. run.step = "tools"
    BY <1>9 DEF SetTriage, Calling
  <2> QED
    BY <1>1, <1>2, <2>1, <2>2, <2>3 DEF Run
<1>10. CASE CommitTriage
  <2>1. [Over EXCEPT !.triage = run.pick] \in Run /\ [Over EXCEPT !.triage = run.pick].step = "tools"
    <3>1. run.pick \in Known \cup {None}
      BY <1>1 DEF Run
    <3> QED
      BY <1>3, <3>1 DEF Run
  <2>2. \/ Carries("triaged", [Over EXCEPT !.triage = run.pick], Over)
        \/ run' = [run EXCEPT !.attempt = run.attempt + 1, !.seen = ticket] /\ run.step = "triaging"
        \/ StepsBack \/ Called(Over)
    BY <1>1, <1>10 DEF CommitTriage, Fails, Run
  <2>3. run' = [run EXCEPT !.attempt = run.attempt + 1, !.seen = ticket] /\ run.step = "triaging" => FALSE
    BY <1>1 DEF Run
  <2> QED
    BY <1>2, <1>3, <1>4, <1>5, <2>1, <2>2, <2>3 DEF StepsBack
<1>11. CASE Post
  <2>1. Called(run) \/ run' = [run EXCEPT !.step = "answering", !.attempt = 1]
    BY <1>11 DEF Post, Fails, AfterFailure
  <2>2. run.step = "tools"
    BY <1>11 DEF Post, Calling
  <2> QED
    BY <1>1, <1>2, <2>1, <2>2 DEF Run
<1>12. CASE ReadTicket
  <2>1. \/ StepsBack \/ Called(Over)
        \/ run' = [run EXCEPT !.step = "checking", !.seen = ticket]
    BY <1>12 DEF ReadTicket, Fails
  <2> QED
    BY <1>1, <1>2, <1>3, <1>5, <2>1 DEF StepsBack, Run
<1>13. CASE CommitPost
  <2>1. [Over EXCEPT !.decision = "posted"] \in Run /\ [Over EXCEPT !.decision = "posted"].step = "tools"
    BY <1>3 DEF Run, Decision
  <2>2. \/ Carries("answered", [Over EXCEPT !.decision = "posted"], Over)
        \/ run' = [run EXCEPT !.step = "answering", !.attempt = run.attempt + 1]
        \/ StepsBack \/ Called(Over)
    BY <1>1, <1>13 DEF CommitPost, Fails, Run
  <2>3. run' = [run EXCEPT !.step = "answering", !.attempt = run.attempt + 1] => FALSE
    BY <1>1 DEF Run
  <2> QED
    BY <1>2, <1>3, <1>4, <1>5, <2>1, <2>2, <2>3 DEF StepsBack
<1>14. CASE Escalate
  <2>1. run.step = "tools" /\ Decided("escalated") \in Run /\ Decided("escalated").step = run.step
    BY <1>1, <1>14 DEF Escalate, Calling, Decided, Run, Decision
  <2>2. \/ Called(run) \/ Called(Decided("escalated")) \/ StepsBack
        \/ Carries("handed over", Decided("escalated"), run)
    BY <1>14 DEF Escalate, Fails, AfterFailure
  <2> QED
    BY <1>1, <1>2, <1>4, <1>5, <2>1, <2>2 DEF StepsBack
<1>15. CASE GiveUp
  <2> DEFINE triage == IF run.triage # None THEN run.triage
                       ELSE IF run.first \in Known THEN run.first ELSE "General"
             ended == [run EXCEPT !.triage = triage, !.step = "ended", !.outcome = "escalated"]
  <2>1. triage \in Known \cup {None}
    BY <1>1 DEF Run, Known
  <2>2. [[run EXCEPT !.triage = IF @ # None THEN @
                                ELSE IF run.first \in Known THEN run.first ELSE "General"]
           EXCEPT !.step = "ended", !.outcome = "escalated"] = ended
    BY <1>1 DEF Run
  <2>3. ended \in Run /\ ended.step = "ended"
    <3> HIDE DEF triage
    <3> QED
      BY <1>1, <2>1 DEF Run, Outcome
  <2> HIDE DEF ended
  <2>4. Called(ended) \/ Carries("handed over", ended, ended)
    BY <1>15, <2>2 DEF GiveUp, Fails
  <2> QED
    BY <1>2, <1>4, <2>3, <2>4
<1>16. CASE Throws
  BY <1>5, <1>16 DEF Throws
<1>17. CASE UpdateSettings \/ PersonEdits \/ UNCHANGED vars
  BY <1>17 DEF UpdateSettings, PersonEdits, vars
<1> QED
  BY <1>7, <1>8, <1>9, <1>10, <1>11, <1>12, <1>13, <1>14, <1>15, <1>16, <1>17 DEF Next, Step, Other

(* Every step keeps the past, and what it says of an answer on its way.     *)
LEMMA PastKept == IInv /\ IInv' /\ PastSound /\ [Next]_vars => PastSound'
<1> SUFFICES ASSUME IInv, IInv', PastSound, [Next]_vars PROVE PastSound'
  OBVIOUS
<1>1. settings' \in Settings /\ past \subseteq Settings /\ settings \in past
  BY TypedNext DEF IInv, PastSound
<1>2. /\ past' \subseteq Settings /\ settings' \in past'
      /\ ticket' = ticket => past \subseteq past'
  <2>1. CASE Remembers
    BY <1>1, <2>1, Remembered
  <2>2. CASE UNCHANGED vars
    BY <1>1, <2>2 DEF vars
  <2> QED
    BY <2>1, <2>2 DEF Next, Step, Other
<1>3. ASSUME run'.step = "posting", UNCHANGED run
      PROVE  /\ MayPost(run'.given, run'.seen.category, "high")
             /\ AtVersion(run.seen.version)' => run'.given \in past'
  <2>1. run.step = "posting" /\ run.step \in Seeing
    BY <1>3 DEF Seeing
  <2>2. run.seen.version \in Nat /\ run.seen.version <= ticket.version /\ ticket.version \in Nat
    BY <2>1, Typed DEF IInv, SeenTrue, Ticket
  <2>3. AtVersion(run.seen.version)' => ticket' = ticket
    BY <1>3, <2>2, TicketMoves DEF AtVersion
  <2>4. AtVersion(run.seen.version)' => AtVersion(run.seen.version)
    BY <1>3, <2>3 DEF AtVersion
  <2> QED
    BY <1>2, <1>3, <2>1, <2>3, <2>4 DEF PastSound
<1>4. ASSUME run'.step = "posting", CheckSettings
      PROVE  /\ MayPost(run'.given, run'.seen.category, "high")
             /\ run'.given \in past'
  <2>1. run \in Run
    BY Typed DEF IInv
  <2>2. \/ /\ MayPost(settings, run.seen.category, "high")
           /\ run' = [run EXCEPT !.step = "posting", !.given = settings]
        \/ Called(Over)
    BY <1>4 DEF CheckSettings, SettingsNow, Fails
  <2>3. ~Called(Over)
    <3>1. Over \in Run /\ Over.step = "tools"
      BY <2>1, CallOver
    <3> QED
      BY <1>4, <3>1, CallCounted
  <2>4. MayPost(settings, run.seen.category, "high") /\ run'.given = settings /\ run'.seen = run.seen
    BY <2>1, <2>2, <2>3 DEF Run
  <2>5. UNCHANGED settings
    BY <1>4 DEF CheckSettings
  <2> QED
    BY <1>2, <2>4, <2>5
<1>5. run'.step = "posting" =>
        /\ MayPost(run'.given, run'.seen.category, "high")
        /\ AtVersion(run.seen.version)' => run'.given \in past'
  BY <1>3, <1>4, PostingSince
<1> QED
  BY <1>2, <1>5 DEF PastSound, MayPost, EffectiveMode, DefaultMode

(* It holds from the first state on.                                        *)
LEMMA AlwaysSound == Spec => [](IInv /\ PastSound)
<1>1. Init => PastSound
  <2> SUFFICES ASSUME Init PROVE PastSound
    OBVIOUS
  <2>1. settings \in Settings
    BY InitSound, Typed DEF IInv
  <2>2. past = {settings} /\ run.step = "begun"
    BY DEF Init
  <2> QED
    BY <2>1, <2>2 DEF PastSound
<1> QED
  BY <1>1, PastKept, InitSound, StepSound, PTL DEF Spec

-----------------------------------------------------------------------------
(* The theorems.                                                            *)

(* The records keep their types.                                            *)
THEOREM TypesHold == Spec => []TypeOK
BY AlwaysSound, PTL DEF IInv, PastSound, TypeOK

(* A run does not answer a ticket and also hand it over, or leave a         *)
(* proposal, whatever the model calls and in whatever order, unless the     *)
(* answer to one of its calls was lost.                                     *)
THEOREM ConcludesOnce == Spec => []OneConclusion
<1>1. IInv => OneConclusion
  <2> SUFFICES ASSUME IInv PROVE OneConclusion
    OBVIOUS
  <2> DEFINE Conclusions == (effects.did \ {"triaged"}) \cup ({run.decision} \cap {"proposed"})
  <2>1. CASE effects.lost
    BY <2>1 DEF OneConclusion
  <2>2. CASE Done = Due \/ (GivenUp /\ Done = {"handed over"})
    <3>1. \E one : Conclusions \subseteq {one}
      BY <2>2, NoneApart DEF Done, Due, GivenUp
    <3>2. PICK one : Conclusions = {} \/ Conclusions = {one}
      BY <3>1
    <3>3. Cardinality({}) = 0 /\ Cardinality({one}) = 1
      BY FS_EmptySet, FS_Singleton
    <3>4. Cardinality(Conclusions) <= 1
      BY <3>2, <3>3
    <3> QED
      BY <3>4 DEF OneConclusion
  <2> QED
    BY <2>1, <2>2 DEF IInv, DoneAsDecided
<1> QED
  BY <1>1, AlwaysIInv, PTL

(* What is recorded of a run that did not fail is what it did.              *)
THEOREM RecordTrue == Spec => []OutcomeTrue
<1>1. IInv => OutcomeTrue
  <2> SUFFICES ASSUME IInv, Ended, run.outcome # "error", run.mode # "shadow", ~effects.lost
               PROVE  /\ run.outcome = "posted" <=> "answered" \in effects.did
                      /\ run.outcome = "escalated" /\ run.reason = "none" => "handed over" \in effects.did
                      /\ "handed over" \in effects.did => run.outcome = "escalated"
    BY DEF OutcomeTrue
  <2>1. /\ \/ run.outcome = run.decision /\ run.reason = "none"
           \/ run.outcome \in {"aborted", "triaged"} /\ run.decision = None
           \/ run.outcome = "escalated" /\ run.decision = None /\ run.reason # "none"
        /\ Done = Due \/ (run.decision = None /\ run.outcome = "escalated" /\ Done = {"handed over"})
    BY DEF IInv, DecidedLast, DoneAsDecided, Ended, GivenUp
  <2>2. /\ "answered" \in effects.did <=> "answered" \in Done
        /\ "handed over" \in effects.did <=> "handed over" \in Done
    BY DEF Done
  <2>3. \/ run.outcome = "posted" /\ Done = {"answered"}
        \/ run.outcome = "escalated" /\ Done = {"handed over"}
        \/ run.outcome = "escalated" /\ run.reason # "none" /\ Done = {}
        \/ run.outcome \notin {"posted", "escalated"} /\ Done = {}
    <3>1. CASE run.outcome = run.decision /\ run.reason = "none" /\ Done = Due
      BY <3>1 DEF Due
    <3>2. CASE run.outcome \in {"aborted", "triaged"} /\ run.decision = None /\ Done = Due
      BY <3>2, NoneApart DEF Due
    <3>3. CASE run.outcome = "escalated" /\ run.decision = None /\ Done = {"handed over"}
      BY <3>3
    <3> QED
      BY <2>1, <3>1, <3>2, <3>3, NoneApart DEF Due
  <2>4. CASE run.outcome = "posted" /\ Done = {"answered"}
    BY <2>2, <2>4
  <2>5. CASE run.outcome = "escalated" /\ Done = {"handed over"}
    BY <2>2, <2>5
  <2>6. CASE run.outcome = "escalated" /\ run.reason # "none" /\ Done = {}
    BY <2>2, <2>6
  <2>7. CASE run.outcome \notin {"posted", "escalated"} /\ Done = {}
    BY <2>2, <2>7
  <2> QED
    BY <2>3, <2>4, <2>5, <2>6, <2>7
<1> QED
  BY <1>1, AlwaysIInv, PTL

(* A run does to the ticket only what its mode lets it, and answers only a  *)
(* ticket that the settings let it answer alone at some moment since the    *)
(* ticket became what it is.                                                *)
THEOREM ModesHonoured == Spec => ModeHonoured
<1> DEFINE new == effects'.did \ effects.did
           Allowed(s) == EffectiveMode(s, ticket.category) = "auto" /\ ticket.category \in s.allow
           Honoured == /\ new # {} => run.mode \in {"assist", "auto"}
                       /\ "answered" \in new =>
                            /\ run.mode = "auto" /\ run.read # {}
                            /\ ticket.category # "Security"
                            /\ \E s \in past : Allowed(s)
<1>1. ASSUME IInv, PastSound, [Next]_vars PROVE Honoured
  <2>1. run \in Run /\ effects \in Effects
    BY <1>1, Typed DEF IInv
  <2>2. CASE UNCHANGED effects
    BY <2>2
  <2>3. CASE CommitTriage
    <3>1. run.mode \in {"assist", "auto"}
      BY <1>1, <2>1, <2>3 DEF CommitTriage, IInv, ModeSet, Run, Mode
    <3>2. new \subseteq {"triaged"}
      BY <2>3, CarriesOne DEF CommitTriage, Fails, StepsBack, NothingDone
    <3> QED
      BY <3>1, <3>2
  <2>4. CASE CommitPost
    <3>1. CASE UNCHANGED effects
      BY <3>1
    <3>2. CASE ~UNCHANGED effects
      <4>1. /\ run.step = "posting" /\ AtVersion(run.seen.version)
            /\ \E told, untold : Carries("answered", told, untold)
        BY <2>4, <3>2 DEF CommitPost, Fails, StepsBack, NothingDone
      <4>2. run.step \in Answering /\ run.step \in Seeing
        BY <4>1 DEF Answering, Seeing
      <4>3. run.mode = "auto" /\ run.read # {}
        BY <1>1, <4>2, AtAnswering
      <4>4. run.seen = ticket /\ run.given \in past /\ MayPost(run.given, ticket.category, "high")
        BY <1>1, <4>1, <4>2 DEF IInv, SeenTrue, AtVersion, PastSound
      <4>5. ticket.category # "Security" /\ Allowed(run.given)
        BY <4>4 DEF MayPost
      <4>6. new \subseteq {"answered"}
        BY <4>1, CarriesOne
      <4> QED
        BY <4>3, <4>4, <4>5, <4>6
    <3> QED
      BY <3>1, <3>2
  <2>5. CASE Escalate
    <3>1. CASE UNCHANGED effects
      BY <3>1
    <3>2. CASE ~UNCHANGED effects
      <4>1. run.mode # "shadow" /\ run.step = "tools" /\ Carries("handed over", Decided("escalated"), run)
        BY <2>5, <3>2 DEF Escalate, Fails, StepsBack, NothingDone, Disposition, Calling
      <4>2. run.mode \in {"assist", "auto"}
        BY <1>1, <2>1, <4>1 DEF IInv, ModeSet, Run, Mode
      <4>3. new \subseteq {"handed over"}
        BY <4>1, CarriesOne
      <4> QED
        BY <4>2, <4>3
    <3> QED
      BY <3>1, <3>2
  <2>6. CASE GiveUp
    <3>1. CASE UNCHANGED effects
      BY <3>1
    <3>2. CASE ~UNCHANGED effects
      <4>1. /\ run.mode # "shadow" /\ run.step = "escalating"
            /\ \E ended : Carries("handed over", ended, ended)
        BY <2>6, <3>2 DEF GiveUp, Fails, NothingDone, Disposition
      <4>2. run.mode \in {"assist", "auto"}
        BY <1>1, <2>1, <4>1 DEF IInv, ModeSet, Run, Mode
      <4>3. new \subseteq {"handed over"}
        BY <4>1, CarriesOne
      <4> QED
        BY <4>2, <4>3
    <3> QED
      BY <3>1, <3>2
  <2>7. CASE SetTriage \/ Post \/ ReadTicket \/ CheckSettings
    BY <2>2, <2>7 DEF SetTriage, Post, ReadTicket, CheckSettings, Fails, StepsBack, NothingDone
  <2>8. CASE UNCHANGED vars
    BY <2>2, <2>8 DEF vars
  <2> QED
    BY <1>1, <2>2, <2>3, <2>4, <2>5, <2>6, <2>7, <2>8 DEF Next, Step, Other, Begin, Ask, Respond, EndTurn,
       Look, Propose, Throws, UpdateSettings, PersonEdits
<1> QED
  BY <1>1, AlwaysSound, PTL DEF Spec, ModeHonoured

(* A triage does not take the ticket from the person it belongs to: it      *)
(* edits only the version it read.                                          *)
THEOREM OwnersKept == Spec => OwnerKept
<1> DEFINE Kept == run.step = "triaging" /\ ticket.owner = "person" => ticket'.owner = "person"
<1>1. ASSUME IInv, [Next]_vars PROVE Kept
  <2> SUFFICES ASSUME run.step = "triaging", ticket.owner = "person" PROVE ticket'.owner = "person"
    OBVIOUS
  <2>1. ticket \in Ticket /\ run.seen \in Ticket
    BY <1>1, Typed DEF IInv, SeenTrue, Seeing
  <2>2. CASE UNCHANGED ticket
    BY <2>2
  <2>3. CASE CommitTriage
    <3>1. CASE AtVersion(run.seen.version)
      <4>1. run.seen = ticket
        BY <1>1, <3>1 DEF IInv, SeenTrue, Seeing, AtVersion
      <4>2. run.seen.owner # "Unassigned"
        BY <4>1
      <4>3. UNCHANGED ticket
              \/ ticket' = [ticket EXCEPT !.category = run.pick, !.version = ticket.version + 1,
                                          !.owner = ticket.owner]
        BY <2>1, <2>3, <3>1, <4>2 DEF CommitTriage, Fails, NothingDone, Ticket
      <4> QED
        BY <2>1, <4>3 DEF Ticket
    <3>2. CASE ~AtVersion(run.seen.version)
      BY <2>2, <2>3, <3>2 DEF CommitTriage, Fails, StepsBack, NothingDone
    <3> QED
      BY <3>1, <3>2
  <2>4. CASE PersonEdits
    BY <2>1, <2>4 DEF PersonEdits, Ticket
  <2>5. CASE UNCHANGED vars
    BY <2>2, <2>5 DEF vars
  <2> QED
    BY <1>1, <2>2, <2>3, <2>4, <2>5 DEF Next, Step, Other, Begin, Ask, Respond, EndTurn, Look, SetTriage,
       Propose, Post, ReadTicket, CheckSettings, CommitPost, Escalate, GiveUp, Calling, Throws,
       UpdateSettings
<1> QED
  BY <1>1, AlwaysIInv, PTL DEF Spec, OwnerKept

=============================================================================
