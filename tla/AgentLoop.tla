------------------------------ MODULE AgentLoop ------------------------------
(***************************************************************************)
(* One run of the agent on one ticket: the loop that asks the model and    *)
(* runs the tools it calls (agent/loop, registry, tools, httpApi), under   *)
(* settings an admin may change at any moment (agentSettingsService,       *)
(* agentPolicy), on a ticket people are working on too.                    *)
(*                                                                         *)
(* The model may answer anything.  An answer to the requester is what the  *)
(* server makes of it: a read of the ticket, one of the settings, and a    *)
(* write at the version read, with other people's steps in between.  What  *)
(* it does with an escalation, with its retries and writes, is module      *)
(* Tickets; here it is one step that applies or is refused.  The answer to *)
(* any of the calls may be lost.                                           *)
(***************************************************************************)
EXTENDS Integers, FiniteSets

CONSTANTS
  None,           \* no triage yet
  Article,        \* the knowledge base
  AutoAvailable,  \* autoModeAvailable: whether this deployment may answer alone
  MaxSteps,       \* calls to the model in one run
  MaxCalls,       \* bound on the tools of one turn
  MaxUpdates,     \* bound on changes of the settings
  MaxEdits        \* bound on people's edits of the ticket

ASSUME AgentLoopAssumption ==
  /\ AutoAvailable \in BOOLEAN
  /\ {MaxSteps, MaxCalls} \subseteq Nat \ {0}
  /\ {MaxUpdates, MaxEdits} \subseteq Nat
  /\ None \notin {"Security", "General", "typed", "proposed", "posted", "escalated"}

VARIABLES
  settings,  \* what is stored: kill switch, default mode, modes of categories, allowlist
  ticket,    \* what the run's calls read and write, and people edit
  run,       \* the run, in the worker's memory
  effects,   \* what the run has really done to the ticket, and whether an answer was lost
  updates,   \* changes of the settings so far
  past       \* history only: the settings there were since the ticket's last change

vars == <<settings, ticket, run, effects, updates, past>>

-----------------------------------------------------------------------------
(* Settings and policy.                                                     *)

Known == {"Security", "General"}             \* categories the agent chooses from
Category == Known \cup {"typed"}             \* a requester may type any other
Mode == {"off", "shadow", "assist", "auto"}

(* A category or default without a real mode counts as not set. *)
Settings == [kill : BOOLEAN, default : Mode \cup {"unset"},
             own : [Known -> Mode \cup {"unset"}], allow : SUBSET Known]
DefaultSettings ==
  [kill |-> FALSE, default |-> "unset", own |-> [c \in Known |-> "unset"], allow |-> {}]

DefaultMode(s) == IF s.default = "unset" THEN "shadow" ELSE s.default

EffectiveMode(s, category) ==
  IF s.kill THEN "off"
  ELSE IF category \in Known /\ s.own[category] # "unset" THEN s.own[category]
  ELSE DefaultMode(s)

RunnableMode(mode) == IF mode = "auto" /\ ~AutoAvailable THEN "assist" ELSE mode

Disposition(mode, tool) ==
  IF mode = "shadow" THEN "dry-run"
  ELSE IF mode = "assist" /\ tool = "post_resolution" THEN "refuse"
  ELSE "run"

(* What the server asks before it posts a reply: of the settings and the   *)
(* ticket's category, as it has just read them, and of the confidence.     *)
MayPost(s, category, confidence) ==
  /\ AutoAvailable
  /\ EffectiveMode(s, category) = "auto"
  /\ category \in s.allow
  /\ category # "Security"
  /\ confidence = "high"

UpdateSettings ==
  /\ run.step # "ended"
  /\ updates < MaxUpdates
  /\ updates' = updates + 1
  /\ \/ settings' = [settings EXCEPT !.kill = ~@]
     \/ \E mode \in Mode : settings' = [settings EXCEPT !.default = mode]
     \/ \E c \in Known, mode \in Mode : settings' = [settings EXCEPT !.own[c] = mode]
     \/ \E c \in Known : settings' = [settings EXCEPT !.allow = @ \cup {c}]
     \/ \E c \in Known : settings' = [settings EXCEPT !.allow = @ \ {c}]
  /\ UNCHANGED <<ticket, run, effects>>

-----------------------------------------------------------------------------
(* The run.                                                                 *)

(* The allowlist matters in auto mode; where it lacks something is up to the *)
(* admin.                                                                   *)
Init ==
  /\ settings \in {DefaultSettings, [DefaultSettings EXCEPT !.default = "assist"],
                   [DefaultSettings EXCEPT !.default = "auto", !.allow = Known]}
  /\ ticket \in [category : Category, owner : {"Unassigned", "person"}, version : {0},
                 finished : {FALSE}]
  /\ run = [step |-> "begun", mode |-> "off", turn |-> 0, calls |-> 0, allow |-> {},
            triage |-> None, first |-> None, pick |-> None, seen |-> None, given |-> None, attempt |-> 0,
            read |-> {}, decision |-> None, outcome |-> "running", reason |-> "none"]
  /\ effects = [did |-> {}, lost |-> FALSE]
  /\ updates = 0
  /\ past = {settings}

Ends(outcome, reason) ==
  run' = [run EXCEPT !.step = "ended", !.outcome = outcome, !.reason = reason]
EscalatesBecause(reason) == run' = [run EXCEPT !.step = "escalating", !.reason = reason]

(* The mode is the one for the category the ticket has when the run begins. *)
Begin ==
  LET mode == EffectiveMode(settings, ticket.category) IN
  /\ run.step = "begun"
  /\ IF mode = "off" THEN Ends("aborted", "mode_off")
     ELSE run' = [run EXCEPT !.step = "asking", !.mode = RunnableMode(mode),
                                 !.first = ticket.category]
  /\ UNCHANGED <<settings, ticket, effects, updates>>

TurnUncounted == run.turn
TurnCounted == run.turn + 1

(* A turn begins: the switch and the budgets, then the model is asked.      *)
Ask ==
  /\ run.step = "asking"
  /\ IF run.turn = MaxSteps THEN EscalatesBecause("step_limit_reached")
     ELSE IF settings.kill THEN Ends("aborted", "kill_switch")
     ELSE \/ Ends("aborted", "daily_cost_cap")
          \/ run.turn > 0 /\ EscalatesBecause("budget_exceeded")
          \/ run' = [run EXCEPT !.step = "thinking", !.turn = TurnCounted]
  /\ UNCHANGED <<settings, ticket, effects, updates>>

(* The model has answered: what it asked for is run only if it was not cut  *)
(* off and the switch is still off.                                         *)
Respond ==
  /\ run.step = "thinking"
  /\ \/ EscalatesBecause("model_refusal")
     \/ IF settings.kill THEN Ends("aborted", "kill_switch")
        ELSE \/ run' = [run EXCEPT !.step = "tools", !.calls = 0, !.allow = settings.allow]
             \/ IF run.triage # None THEN Ends("triaged", "no_decision")
                ELSE EscalatesBecause("no_decision")
  /\ UNCHANGED <<settings, ticket, effects, updates>>

(* The turn's tools have run. *)
EndTurn ==
  /\ run.step = "tools"
  /\ run.calls > 0
  /\ IF run.decision # None THEN Ends(run.decision, "none")
     ELSE run' = [run EXCEPT !.step = "asking"]
  /\ UNCHANGED <<settings, ticket, effects, updates>>

-----------------------------------------------------------------------------
(* executeTool: a call is refused, recorded (shadow mode), or carried out.  *)

Calling == run.step = "tools" /\ run.calls < MaxCalls
Called(next) == run' = [next EXCEPT !.calls = @ + 1]
Decided(decision) == [run EXCEPT !.decision = decision]

(* A call that failed decides nothing. *)
AfterFailureDecided(decision) == Decided(decision)
AfterFailure(decision) == run

(* The API did it: the run is told so, or its answer is lost on the way. *)
Carries(effect, next, untold) ==
  \E lost \in BOOLEAN :
    /\ effects' = [did |-> effects.did \cup {effect}, lost |-> effects.lost \/ lost]
    /\ Called(IF lost THEN untold ELSE next)

(* The call failed, was refused, or was only recorded. *)
NothingDone == UNCHANGED <<ticket, effects>>
Fails(next) == Called(next) /\ NothingDone
(* A conflict means that a person is on the ticket: the run steps back. *)
StepsBack == Ends("aborted", "ticket_changed") /\ NothingDone
(* The call that took several steps is over. *)
Over == [run EXCEPT !.step = "tools", !.pick = None, !.seen = None, !.given = None, !.attempt = 0]

(* The tools that only look; what was read in full is remembered.           *)
Look ==
  /\ Calling
  /\ \/ Called(run)
     \/ \E a \in Article : Called([run EXCEPT !.read = @ \cup {a}])
  /\ UNCHANGED <<settings, ticket, effects, updates>>

(* set_triage reads the ticket, then edits it at the version it read, and   *)
(* tries a conflict once more.                                              *)
SetTriage ==
  /\ Calling
  /\ \E c \in Known :
       IF run.decision # None THEN Fails(run)
       ELSE IF Disposition(run.mode, "set_triage") = "dry-run" THEN Fails([run EXCEPT !.triage = c])
       ELSE /\ run' = [run EXCEPT !.step = "triaging", !.pick = c, !.attempt = 1, !.seen = ticket]
            /\ NothingDone
  /\ UNCHANGED <<settings, updates>>

AtVersionAny(version) == version <= ticket.version
AtVersion(version) == version = ticket.version

CommitTriage ==
  /\ run.step = "triaging"
  /\ \/ /\ AtVersion(run.seen.version)
        /\ ticket' = [ticket EXCEPT !.category = run.pick, !.version = @ + 1,
                        !.owner = IF run.seen.owner = "Unassigned" THEN "group" ELSE @]
        /\ Carries("triaged", [Over EXCEPT !.triage = run.pick], Over)
     \/ /\ ~AtVersion(run.seen.version)
        /\ IF run.attempt < 2
           THEN run' = [run EXCEPT !.attempt = @ + 1, !.seen = ticket] /\ NothingDone
           ELSE StepsBack
     \/ Fails(Over)
  /\ UNCHANGED <<settings, updates>>

(* The checks the model cannot bypass.                                      *)
TriagedOnly == run.triage # None
Undecided == run.triage # None /\ run.decision = None

Resolution == [cited : (SUBSET Article) \ {{}}, confidence : {"high", "medium", "low"}]

CheckResolution(r) ==
  /\ Undecided
  /\ run.triage # "Security"
  /\ r.confidence # "low"
  /\ r.cited \subseteq run.read

Propose ==
  /\ Calling
  /\ \E r \in Resolution : Called(IF CheckResolution(r) THEN Decided("proposed") ELSE run)
  /\ UNCHANGED <<settings, ticket, effects, updates>>

MayPostAlone == run.mode = "auto" /\ run.triage \in run.allow

(* post_resolution: a request, if the agent's own checks let it be made.    *)
Post ==
  /\ Calling
  /\ \E r \in Resolution :
       IF \/ Disposition(run.mode, "post_resolution") = "refuse"
          \/ ~CheckResolution(r)
          \/ r.confidence # "high"
          \/ ~MayPostAlone
       THEN Fails(run)
       ELSE \/ run' = [run EXCEPT !.step = "answering", !.attempt = 1] /\ NothingDone
            \/ Fails(AfterFailure("posted"))
  /\ UNCHANGED <<settings, updates>>

(* The server reads the ticket. A second reply, or one to a finished ticket, *)
(* is a conflict.                                                           *)
ReadTicket ==
  /\ run.step = "answering"
  /\ \/ IF ticket.finished \/ "answered" \in effects.did THEN StepsBack
        ELSE run' = [run EXCEPT !.step = "checking", !.seen = ticket] /\ NothingDone
     \/ Fails(Over)
  /\ UNCHANGED <<settings, updates>>

(* It reads the settings, on every attempt, and refuses or goes on. *)
SettingsOnce == IF run.given = None THEN settings ELSE run.given
SettingsNow == settings

CheckSettings ==
  /\ run.step = "checking"
  /\ \/ /\ MayPost(SettingsNow, run.seen.category, "high")
        /\ run' = [run EXCEPT !.step = "posting", !.given = SettingsNow]
        /\ NothingDone
     \/ Fails(Over)
  /\ UNCHANGED <<settings, updates>>

(* It writes at the version it read; a lost race is tried again.            *)
CommitPost ==
  /\ run.step = "posting"
  /\ \/ /\ AtVersion(run.seen.version)
        /\ ticket' = [ticket EXCEPT !.version = @ + 1]
        /\ Carries("answered", [Over EXCEPT !.decision = "posted"], Over)
     \/ /\ ~AtVersion(run.seen.version)
        /\ IF run.attempt < 3
           THEN run' = [run EXCEPT !.step = "answering", !.attempt = @ + 1] /\ NothingDone
           ELSE StepsBack
     \/ Fails(Over)
  /\ UNCHANGED <<settings, updates>>

HandsOver == ticket' = [ticket EXCEPT !.owner = "group", !.version = @ + 1]

Escalate ==
  /\ Calling
  /\ IF ~Undecided THEN Fails(run)
     ELSE IF Disposition(run.mode, "escalate") = "dry-run" THEN Fails(Decided("escalated"))
     ELSE \/ HandsOver /\ Carries("handed over", Decided("escalated"), run)
          \/ StepsBack
          \/ Fails(AfterFailure("escalated"))
  /\ UNCHANGED <<settings, updates>>

(* escalateBecause: the same tool, whose failure nobody looks at.           *)
GiveUp ==
  LET triaged == [run EXCEPT !.triage = IF @ # None THEN @
                             ELSE IF run.first \in Known THEN run.first ELSE "General"]
      ended == [triaged EXCEPT !.step = "ended", !.outcome = "escalated"] IN
  /\ run.step = "escalating"
  /\ \/ /\ Disposition(run.mode, "escalate") = "run"
        /\ HandsOver
        /\ Carries("handed over", ended, ended)
     \/ Fails(ended)
  /\ UNCHANGED <<settings, updates>>

(* The model, the API or the database fails under the loop itself: the run  *)
(* is over, and its worker records it as failed.                            *)
Throws ==
  /\ run.step # "ended"
  /\ Ends("error", "none")
  /\ UNCHANGED <<settings, ticket, effects, updates>>

(* People: a new category, an owner, the end of the ticket or its reopening. *)
PersonEdits ==
  /\ run.step # "ended"
  /\ ticket.version < MaxEdits
  /\ \/ \E c \in Category : ticket' = [ticket EXCEPT !.category = c, !.version = @ + 1]
     \/ ticket' = [ticket EXCEPT !.owner = "person", !.version = @ + 1]
     \/ ticket' = [ticket EXCEPT !.finished = ~@, !.version = @ + 1]
  /\ UNCHANGED <<settings, run, effects, updates>>

-----------------------------------------------------------------------------

Remembers == past' = (IF ticket' = ticket THEN past ELSE {}) \cup {settings'}

Step ==
  /\ \/ Begin \/ Ask \/ Respond \/ EndTurn
     \/ Look \/ SetTriage \/ CommitTriage \/ Propose \/ Escalate \/ GiveUp
     \/ Post \/ ReadTicket \/ CheckSettings \/ CommitPost
  /\ Remembers

Other == (Throws \/ UpdateSettings \/ PersonEdits) /\ Remembers

Next == Step \/ Other

Spec == Init /\ [][Next]_vars

(* The loop goes on by itself, whatever the model, the people and the       *)
(* admins do.                                                               *)
FairSpec == Spec /\ WF_vars(Step)

-----------------------------------------------------------------------------

Ended == run.step = "ended"

Ticket == [category : Category, owner : {"Unassigned", "person", "group"},
           version : Nat, finished : BOOLEAN]

RecordsTyped ==
  /\ settings \in Settings
  /\ ticket \in Ticket
  /\ run \in [step : {"begun", "asking", "thinking", "tools", "triaging", "answering", "checking",
                      "posting", "escalating", "ended"},
              mode : Mode, turn : 0..MaxSteps, calls : Nat, allow : SUBSET Known,
              triage : Known \cup {None}, first : Category \cup {None}, pick : Known \cup {None},
              seen : Ticket \cup {None}, given : Settings \cup {None}, attempt : 0..3,
              read : SUBSET Article,
              decision : {None, "proposed", "posted", "escalated"},
              outcome : {"running", "aborted", "triaged", "proposed", "posted", "escalated", "error"},
              reason : {"none", "mode_off", "kill_switch", "daily_cost_cap", "ticket_changed",
                        "step_limit_reached", "budget_exceeded", "model_refusal", "no_decision"}]
  /\ effects \in [did : SUBSET {"triaged", "answered", "handed over"}, lost : BOOLEAN]
  /\ updates \in 0..MaxUpdates
TypeOK == RecordsTyped /\ past \subseteq Settings

(* A run does to the ticket what its mode lets it: nothing in shadow, no    *)
(* answer in assist.  In auto it answers, with something read in this run,  *)
(* a ticket that is not now a Security one, and only where the settings let *)
(* it answer such tickets alone at some moment since the ticket became what *)
(* it is: they are read again after every change of the ticket, although    *)
(* not again at the write, so a switch turned in between comes too late.    *)
ModeHonoured ==
  [][LET new == effects'.did \ effects.did IN
     /\ new # {} => run.mode \in {"assist", "auto"}
     /\ "answered" \in new =>
          /\ run.mode = "auto" /\ run.read # {}
          /\ ticket.category # "Security"
          /\ \E s \in past : EffectiveMode(s, ticket.category) = "auto" /\ ticket.category \in s.allow]_vars

(* One conclusion for a ticket: a run does not answer it and also hand it   *)
(* over or leave a proposal, in whatever order the model calls the tools,   *)
(* unless the answer to one of its calls was lost.                          *)
OneConclusion ==
  \/ effects.lost
  \/ Cardinality((effects.did \ {"triaged"}) \cup ({run.decision} \cap {"proposed"})) <= 1

(* What is recorded of a run is what it did to the ticket: "posted" that    *)
(* the requester was answered, a chosen hand-over that it was handed over,  *)
(* "aborted" and "triaged" that it neither answered nor handed over.  Only  *)
(* of a run that failed nothing is known.                                   *)
OutcomeTrue ==
  Ended /\ run.outcome # "error" /\ run.mode # "shadow" /\ ~effects.lost =>
    /\ run.outcome = "posted" <=> "answered" \in effects.did
    /\ run.outcome = "escalated" /\ run.reason = "none" => "handed over" \in effects.did
    /\ "handed over" \in effects.did => run.outcome = "escalated"

(* A triage never takes a ticket from the person it belongs to, although it *)
(* reads the owner in one request and edits in another (httpApi.setTriage). *)
OwnerKept ==
  [][run.step = "triaging" /\ ticket.owner = "person" => ticket'.owner = "person"]_vars

(* Every run ends, whatever the model asks for. *)
RunEnds == <>Ended

=============================================================================
