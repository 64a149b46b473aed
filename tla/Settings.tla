------------------------------ MODULE Settings ------------------------------
(* The agent's settings: the one stored document, the admin page that shows  *)
(* and changes it, and the routes in between, with several admins at once.   *)
(* The page has a button for the kill switch, which sends the switch alone,  *)
(* and a form for everything else, which is sent whole and reset whenever    *)
(* what is shown of the agent changes (pages/AdminAgentPage.tsx).            *)
(*                                                                           *)
(* The form's fields (mode, modes by category, allowlist, cap, limit) are    *)
(* always saved together and are one value here, the policy. The page also   *)
(* shows what the agent spent and whether it paused itself: `spent`.         *)
EXTENDS Naturals

CONSTANTS
  Admin,
  Call,       \* the updates sent, each of them once
  Policy,     \* the policies that are valid
  Default,    \* the one that applies when none, or none that is valid, is stored
  Bad,        \* a policy that is not valid
  None,       \* not stored, not shown, not fetched, not called
  Sent,       \* a fetch the server has not served yet
  Over,       \* a call that has ended
  MaxSpent,   \* bound on the changes of what is shown beside the settings
  MaxMoves    \* bound on the visits, edits and fetches that fail

ASSUME SettingsAssumption ==
  /\ Default \in Policy
  /\ Bad \notin Policy

VARIABLES
  stored,   \* the document: the switch and the policy, either of them None
  spent,    \* what the agent did meanwhile, as the page shows it
  open,     \* the admins whose page is open
  view,     \* what each admin's cache has of the settings, or None
  fetch,    \* None, Sent, or the answer on its way
  form,     \* the policy in the form
  touched,  \* the admins who changed the form since it was last reset
  call,     \* the updates: None, Over, or what was sent and how it stands
  moves

vars == <<stored, spent, open, view, fetch, form, touched, call, moves>>

-----------------------------------------------------------------------------
(* The server                                                                *)

(* What is stored over the defaults; what is not valid is ignored.           *)
GetSettings == [killSwitch |-> stored.killSwitch = TRUE,
                policy |-> IF stored.policy \in Policy THEN stored.policy ELSE Default]

SettingsView == [settings |-> GetSettings, spent |-> spent]

Acceptable(changes) ==
  "policy" \in DOMAIN changes => changes.policy \in Policy

-----------------------------------------------------------------------------
(* The page                                                                  *)

Controls(a) == a \in open /\ view[a] # None

CallsOf(a) == {k \in Call : call[k] \notin {None, Over} /\ call[k].by = a}

(* The buttons wait for the updates of the form they belong to.              *)
Pending(a) == \E k \in CallsOf(a) : call[k].here

Unmounted(a, calls) ==
  [k \in Call |-> IF k \in CallsOf(a) /\ calls[k] # Over
                  THEN [calls[k] EXCEPT !.here = FALSE] ELSE calls[k]]

ShowKeepingForm(a, v, calls) ==
  /\ view' = [view EXCEPT ![a] = v]
  /\ form' = IF Controls(a) THEN form ELSE [form EXCEPT ![a] = v.settings.policy]
  /\ touched' = touched
  /\ call' = calls

(* The form is keyed by what is shown: anything new mounts it anew.          *)
Show(a, v, calls) ==
  /\ view' = [view EXCEPT ![a] = v]
  /\ IF view[a] = v
     THEN form' = form /\ touched' = touched /\ call' = calls
     ELSE /\ form' = [form EXCEPT ![a] = v.settings.policy]
          /\ touched' = touched \ {a}
          /\ call' = Unmounted(a, calls)

Init ==
  /\ stored \in [killSwitch : {None, TRUE, FALSE}, policy : Policy \cup {Bad, None}]
  /\ spent = 0
  /\ open = {}
  /\ view = [a \in Admin |-> None]
  /\ fetch = [a \in Admin |-> None]
  /\ form = [a \in Admin |-> None]
  /\ touched = {}
  /\ call = [k \in Call |-> None]
  /\ moves = 0

Move == moves < MaxMoves /\ moves' = moves + 1

(* The page is opened: what the cache has shows at once and is fetched anew. *)
Visit(a) ==
  /\ Move
  /\ a \notin open
  /\ open' = open \cup {a}
  /\ fetch' = [fetch EXCEPT ![a] = Sent]
  /\ form' = [form EXCEPT ![a] = IF view[a] = None THEN None ELSE view[a].settings.policy]
  /\ touched' = touched \ {a}
  /\ UNCHANGED <<stored, spent, view, call>>

(* The page is left: its fetch is cancelled, its updates are not.            *)
Leave(a) ==
  /\ a \in open
  /\ open' = open \ {a}
  /\ fetch' = [fetch EXCEPT ![a] = None]
  /\ call' = Unmounted(a, call)
  /\ UNCHANGED <<stored, spent, view, form, touched, moves>>

ServeSettings(a) ==
  /\ fetch[a] = Sent
  /\ fetch' = [fetch EXCEPT ![a] = SettingsView]
  /\ UNCHANGED <<stored, spent, open, view, form, touched, call, moves>>

SettingsArrive(a) ==
  /\ fetch[a] \notin {None, Sent}
  /\ fetch' = [fetch EXCEPT ![a] = None]
  /\ Show(a, fetch[a], call)
  /\ UNCHANGED <<stored, spent, open, moves>>

FetchFails(a) ==
  /\ Move
  /\ fetch[a] # None
  /\ fetch' = [fetch EXCEPT ![a] = None]
  /\ UNCHANGED <<stored, spent, open, view, form, touched, call>>

EditForm(a, policy) ==
  /\ Move
  /\ Controls(a)
  /\ policy # form[a]
  /\ form' = [form EXCEPT ![a] = policy]
  /\ touched' = touched \cup {a}
  /\ UNCHANGED <<stored, spent, open, view, fetch, call>>

-----------------------------------------------------------------------------
(* The updates                                                               *)

Send(k, a, button, changes) ==
  call' = [call EXCEPT ![k] = [by |-> a, button |-> button, changes |-> changes,
                               saw |-> view[a].settings.killSwitch, phase |-> "sent",
                               answer |-> None, here |-> TRUE]]

ToggleKillSwitch(k, a) ==
  /\ call[k] = None
  /\ Controls(a)
  /\ ~Pending(a)
  /\ Send(k, a, "switch", [killSwitch |-> ~view[a].settings.killSwitch])
  /\ UNCHANGED <<stored, spent, open, view, fetch, form, touched, moves>>

FormAndSwitch(a) == [policy |-> form[a], killSwitch |-> view[a].settings.killSwitch]

(* Everything the form has, which is not the switch.                         *)
FormChanges(a) == [policy |-> form[a]]

Save(k, a) ==
  /\ call[k] = None
  /\ Controls(a)
  /\ ~Pending(a)
  /\ form[a] \in Policy
  /\ Send(k, a, "save", FormChanges(a))
  /\ UNCHANGED <<stored, spent, open, view, fetch, form, touched, moves>>

InPhase(k, phase) == call[k] \notin {None, Over} /\ call[k].phase = phase

(* Only what is sent changes.                                                *)
WriteSettings(k) ==
  /\ InPhase(k, "sent")
  /\ Acceptable(call[k].changes)
  /\ stored' = [f \in DOMAIN stored |->
                  IF f \in DOMAIN call[k].changes THEN call[k].changes[f] ELSE stored[f]]
  /\ call' = [call EXCEPT ![k].phase = "written"]
  /\ UNCHANGED <<spent, open, view, fetch, form, touched, moves>>

(* The answer is what is stored a moment later.                              *)
ReadBack(k) ==
  /\ InPhase(k, "written")
  /\ call' = [call EXCEPT ![k].phase = "read", ![k].answer = SettingsView]
  /\ UNCHANGED <<stored, spent, open, view, fetch, form, touched, moves>>

(* onSuccess: the answer is what the page now shows, open or not.            *)
UpdateAnswered(k) ==
  /\ InPhase(k, "read")
  /\ Show(call[k].by, call[k].answer, [call EXCEPT ![k] = Over])
  /\ UNCHANGED <<stored, spent, open, fetch, moves>>

(* Refused, never delivered, or its answer lost: what is shown stays.        *)
UpdateFails(k) ==
  /\ call[k] \notin {None, Over}
  /\ call' = [call EXCEPT ![k] = Over]
  /\ UNCHANGED <<stored, spent, open, view, fetch, form, touched, moves>>

(* A run ends, or the agent pauses itself.                                   *)
Spend ==
  /\ spent < MaxSpent
  /\ spent' = spent + 1
  /\ UNCHANGED <<stored, open, view, fetch, form, touched, call, moves>>

Next ==
  \/ \E a \in Admin :
       \/ Visit(a)
       \/ Leave(a)
       \/ ServeSettings(a)
       \/ SettingsArrive(a)
       \/ FetchFails(a)
       \/ \E p \in Policy \cup {Bad} : EditForm(a, p)
       \/ \E k \in Call : ToggleKillSwitch(k, a) \/ Save(k, a)
  \/ \E k \in Call :
       \/ WriteSettings(k)
       \/ ReadBack(k)
       \/ UpdateAnswered(k)
       \/ UpdateFails(k)
  \/ Spend

Spec == Init /\ [][Next]_vars

-----------------------------------------------------------------------------

View == [settings : [killSwitch : BOOLEAN, policy : Policy], spent : Nat]
CallRecord == [by : Admin, button : {"switch", "save"},
               changes : [killSwitch : BOOLEAN] \cup [policy : Policy],
               saw : BOOLEAN, phase : {"sent", "written", "read"},
               answer : View \cup {None}, here : BOOLEAN]

(* What is stored may be anything; what is shown, saved and sent is valid.   *)
TypeOK ==
  /\ stored \in [killSwitch : {None, TRUE, FALSE}, policy : Policy \cup {Bad, None}]
  /\ spent \in Nat
  /\ open \subseteq Admin
  /\ view \in [Admin -> View \cup {None}]
  /\ fetch \in [Admin -> View \cup {None, Sent}]
  /\ form \in [Admin -> Policy \cup {Bad, None}]
  /\ touched \subseteq Admin
  /\ call \in [Call -> CallRecord \cup {None, Over}]
  /\ moves \in Nat

(* The agent is stopped, or started again, only by an admin who was shown it *)
(* the other way and pressed the button for it: no save from a page that is  *)
(* out of date, no answer that comes late or is lost and asked for again     *)
(* turns the switch (toggleKillSwitch, save).                                *)
Turns(k) == /\ InPhase(k, "sent")
            /\ call[k].button = "switch"
            /\ call[k].saw = GetSettings.killSwitch
            /\ call'[k] # call[k]
SwitchIntended ==
  [][GetSettings'.killSwitch # GetSettings.killSwitch => \E k \in Call : Turns(k)]_vars

(* What the form holds beyond the admin's own changes is what the page shows,*)
(* whatever fetch, answer or visit brought it: a save puts back nothing that *)
(* the page did not show (Controls key={JSON.stringify(settings.data)}).     *)
FormFollowsPage ==
  \A a \in open \ touched :
    view[a] # None => form[a] = view[a].settings.policy

=============================================================================
