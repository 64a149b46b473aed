--------------------------- MODULE SettingsProofs ---------------------------
(* What holds of the agent's settings and their pages for any number of      *)
(* admins, updates and policies.                                             *)
EXTENDS Settings, TLAPS

(* Each button sends its part: the switch alone and the other way round from *)
(* what was shown, or everything but the switch. An update that was read     *)
(* back has an answer.                                                       *)
UnderWay(k) == call[k] \notin {None, Over}
SendsItsPart(c) ==
  IF c.button = "switch" THEN c.changes = [killSwitch |-> ~c.saw]
                         ELSE c.changes \in [policy : Policy]
CallsSound ==
  \A k \in Call : UnderWay(k) =>
    SendsItsPart(call[k]) /\ (call[k].phase = "read" => call[k].answer \in View)

IInv == TypeOK /\ CallsSound

CallsType == [Call -> CallRecord \cup {None, Over}]

-----------------------------------------------------------------------------

(* What the server answers is well formed, whatever is stored.               *)
LEMMA ViewTyped == TypeOK => SettingsView \in View
BY SettingsAssumption DEF TypeOK, SettingsView, GetSettings, View

(* Leaving a form changes of its updates only whether a button waits.        *)
LEMMA UnmountedSame ==
  ASSUME IInv, NEW a \in Admin, NEW calls \in CallsType,
         \A k \in Call : calls[k] = call[k] \/ calls[k] = Over
  PROVE  /\ Unmounted(a, calls) \in CallsType
         /\ \A k \in Call :
              LET c == Unmounted(a, calls)[k]
              IN \/ c = calls[k]
                 \/ UnderWay(k) /\ c = [call[k] EXCEPT !.here = FALSE]
<1>1. ASSUME NEW k \in Call, k \in CallsOf(a), calls[k] # Over
      PROVE  /\ UnderWay(k)
             /\ calls[k] = call[k]
             /\ [calls[k] EXCEPT !.here = FALSE] \in CallRecord
  BY <1>1 DEF CallsOf, UnderWay, IInv, TypeOK, CallRecord
<1> QED
  BY <1>1 DEF Unmounted, CallsType

(* Calls that change in `here` alone, or end, stay sound.                    *)
LEMMA SameCallsSound ==
  ASSUME IInv,
         \A k \in Call : \/ call'[k] = call[k]
                         \/ call'[k] = Over
                         \/ UnderWay(k) /\ call'[k] = [call[k] EXCEPT !.here = FALSE]
  PROVE  CallsSound'
<1> SUFFICES ASSUME NEW k \in Call, call'[k] \notin {None, Over}
             PROVE  /\ SendsItsPart(call'[k])
                    /\ call'[k].phase = "read" => call'[k].answer \in View
  BY DEF CallsSound, UnderWay, SendsItsPart
<1>1. UnderWay(k)
  BY DEF UnderWay
<1>2. call[k] \in CallRecord
  BY <1>1 DEF IInv, TypeOK, UnderWay
<1>3. SendsItsPart(call[k]) /\ (call[k].phase = "read" => call[k].answer \in View)
  BY <1>1 DEF IInv, CallsSound
<1>4. CASE call'[k] = call[k]
  BY <1>3, <1>4
<1>5. CASE call'[k] = [call[k] EXCEPT !.here = FALSE]
  <2>1. /\ call'[k].button = call[k].button
        /\ call'[k].changes = call[k].changes
        /\ call'[k].saw = call[k].saw
        /\ call'[k].phase = call[k].phase
        /\ call'[k].answer = call[k].answer
    BY <1>2, <1>5 DEF CallRecord
  <2> QED
    BY <2>1, <1>3 DEF SendsItsPart
<1> QED
  BY <1>4, <1>5

(* Showing an answer leaves the state well formed and the updates sound.     *)
LEMMA ShowKeeps ==
  ASSUME IInv, NEW a \in Admin, NEW v \in View, NEW calls \in CallsType,
         Show(a, v, calls),
         \A k \in Call : calls[k] = call[k] \/ calls[k] = Over
  PROVE  /\ view' \in [Admin -> View \cup {None}]
         /\ form' \in [Admin -> Policy \cup {Bad, None}]
         /\ touched' \subseteq Admin
         /\ call' \in CallsType
         /\ CallsSound'
<1>1. v.settings.policy \in Policy
  BY DEF View
<1>2. call' = calls \/ call' = Unmounted(a, calls)
  BY DEF Show
<1>3. /\ Unmounted(a, calls) \in CallsType
      /\ \A k \in Call : \/ Unmounted(a, calls)[k] = calls[k]
                         \/ /\ UnderWay(k)
                            /\ Unmounted(a, calls)[k] = [call[k] EXCEPT !.here = FALSE]
  BY UnmountedSame
<1>4. \A k \in Call : \/ call'[k] = call[k]
                      \/ call'[k] = Over
                      \/ UnderWay(k) /\ call'[k] = [call[k] EXCEPT !.here = FALSE]
  BY <1>2, <1>3
<1>5. CallsSound'
  BY <1>4, SameCallsSound
<1>6. call' \in CallsType
  BY <1>2, <1>3
<1>7. view' \in [Admin -> View \cup {None}]
  BY DEF Show, IInv, TypeOK
<1>8. form' \in [Admin -> Policy \cup {Bad, None}] /\ touched' \subseteq Admin
  BY <1>1 DEF Show, IInv, TypeOK
<1> QED
  BY <1>5, <1>6, <1>7, <1>8

(* A new update has the part its button sends.                               *)
LEMMA SendSound ==
  ASSUME IInv, NEW k \in Call, NEW a \in Admin, NEW button \in {"switch", "save"},
         NEW changes \in [killSwitch : BOOLEAN] \cup [policy : Policy],
         Controls(a), Send(k, a, button, changes),
         IF button = "switch" THEN changes = [killSwitch |-> ~view[a].settings.killSwitch]
                              ELSE changes \in [policy : Policy]
  PROVE  call' \in CallsType /\ CallsSound'
<1>1. view[a].settings.killSwitch \in BOOLEAN
  BY DEF IInv, TypeOK, Controls, View
<1>2. call' \in CallsType
  BY <1>1 DEF Send, IInv, TypeOK, CallsType, CallRecord
<1>3. ASSUME NEW j \in Call, call'[j] \notin {None, Over}
      PROVE  /\ SendsItsPart(call'[j])
             /\ call'[j].phase = "read" => call'[j].answer \in View
  <2>1. CASE j = k
    <3>1. /\ call'[j].button = button /\ call'[j].changes = changes
          /\ call'[j].saw = view[a].settings.killSwitch
          /\ call'[j].phase = "sent"
      BY <2>1 DEF Send, IInv, TypeOK
    <3> QED
      BY <3>1 DEF SendsItsPart
  <2>2. CASE j # k
    BY <2>2, <1>3 DEF Send, IInv, TypeOK, CallsSound, UnderWay
  <2> QED
    BY <2>1, <2>2
<1> QED
  BY <1>2, <1>3 DEF CallsSound, UnderWay, SendsItsPart

-----------------------------------------------------------------------------

(* The invariant holds at first, whatever an older release stored.          *)
LEMMA InitSound == Init => IInv
<1> SUFFICES ASSUME Init PROVE IInv
  OBVIOUS
<1>1. spent \in Nat /\ moves \in Nat
  BY DEF Init
<1>2. stored \in [killSwitch : {None, TRUE, FALSE}, policy : Policy \cup {Bad, None}]
  BY Zenon DEF Init
<1>3. /\ open \subseteq Admin /\ touched \subseteq Admin
      /\ view \in [Admin -> View \cup {None}]
      /\ fetch \in [Admin -> View \cup {None, Sent}]
      /\ form \in [Admin -> Policy \cup {Bad, None}]
      /\ call \in [Call -> CallRecord \cup {None, Over}]
  BY DEF Init
<1>4. CallsSound
  BY DEF Init, CallsSound, UnderWay
<1> QED
  BY <1>1, <1>2, <1>3, <1>4 DEF IInv, TypeOK

(* Moves are counted by a number.                                           *)
LEMMA MoveTyped == TypeOK /\ Move => moves' \in Nat
<1> SUFFICES ASSUME moves \in Nat, moves' = moves + 1 PROVE moves' \in Nat
  BY DEF TypeOK, Move
<1> QED
  OBVIOUS

(* Every step keeps it.                                                     *)
LEMMA StepSound == IInv /\ [Next]_vars => IInv'
<1> SUFFICES ASSUME IInv, [Next]_vars PROVE IInv'
  OBVIOUS
<1> USE DEF CallsType
<1>1. ASSUME NEW a \in Admin, Visit(a) PROVE IInv'
  <2>1. view[a] # None => view[a].settings.policy \in Policy
    BY DEF IInv, TypeOK, View
  <2>2. TypeOK'
    BY <1>1, <2>1, MoveTyped DEF Visit, IInv, TypeOK
  <2>3. CallsSound'
    BY <1>1, SameCallsSound DEF Visit
  <2> QED
    BY <2>2, <2>3 DEF IInv
<1>2. ASSUME NEW a \in Admin, Leave(a) PROVE IInv'
  <2>1. call \in CallsType
    BY DEF IInv, TypeOK
  <2>2. /\ call' \in CallsType
        /\ \A k \in Call : \/ call'[k] = call[k]
                           \/ UnderWay(k) /\ call'[k] = [call[k] EXCEPT !.here = FALSE]
    BY <1>2, <2>1, UnmountedSame DEF Leave
  <2>3. TypeOK'
    BY <1>2, <2>2 DEF Leave, IInv, TypeOK
  <2>4. CallsSound'
    BY <2>2, SameCallsSound
  <2> QED
    BY <2>3, <2>4 DEF IInv
<1>3. ASSUME NEW a \in Admin, ServeSettings(a) PROVE IInv'
  <2>1. TypeOK'
    BY <1>3, ViewTyped DEF ServeSettings, IInv, TypeOK
  <2>2. CallsSound'
    BY <1>3, SameCallsSound DEF ServeSettings
  <2> QED
    BY <2>1, <2>2 DEF IInv
<1>4. ASSUME NEW a \in Admin, SettingsArrive(a) PROVE IInv'
  <2>1. fetch[a] \in View /\ call \in CallsType
    BY <1>4 DEF SettingsArrive, IInv, TypeOK
  <2>2. Show(a, fetch[a], call)
    BY <1>4 DEF SettingsArrive
  <2>3. /\ view' \in [Admin -> View \cup {None}]
        /\ form' \in [Admin -> Policy \cup {Bad, None}]
        /\ touched' \subseteq Admin
        /\ call' \in CallsType
        /\ CallsSound'
    BY <2>1, <2>2, ShowKeeps
  <2> QED
    BY <1>4, <2>3 DEF SettingsArrive, IInv, TypeOK
<1>5. ASSUME NEW a \in Admin, FetchFails(a) PROVE IInv'
  <2>1. TypeOK'
    BY <1>5, MoveTyped DEF FetchFails, IInv, TypeOK
  <2>2. CallsSound'
    BY <1>5, SameCallsSound DEF FetchFails
  <2> QED
    BY <2>1, <2>2 DEF IInv
<1>6. ASSUME NEW a \in Admin, NEW p \in Policy \cup {Bad}, EditForm(a, p) PROVE IInv'
  <2>1. TypeOK'
    BY <1>6, MoveTyped DEF EditForm, IInv, TypeOK
  <2>2. CallsSound'
    BY <1>6, SameCallsSound DEF EditForm
  <2> QED
    BY <2>1, <2>2 DEF IInv
<1>7. ASSUME NEW a \in Admin, NEW k \in Call, ToggleKillSwitch(k, a) PROVE IInv'
  <2>1. view[a].settings.killSwitch \in BOOLEAN
    BY <1>7 DEF ToggleKillSwitch, Controls, IInv, TypeOK, View
  <2>2. call' \in CallsType /\ CallsSound'
    BY <1>7, <2>1, SendSound DEF ToggleKillSwitch
  <2> QED
    BY <1>7, <2>2 DEF ToggleKillSwitch, IInv, TypeOK
<1>8. ASSUME NEW a \in Admin, NEW k \in Call, Save(k, a) PROVE IInv'
  <2>1. FormChanges(a) \in [policy : Policy]
    BY <1>8 DEF Save, FormChanges
  <2>2. call' \in CallsType /\ CallsSound'
    BY <1>8, <2>1, SendSound DEF Save
  <2> QED
    BY <1>8, <2>2 DEF Save, IInv, TypeOK
<1>9. ASSUME NEW k \in Call, WriteSettings(k) PROVE IInv'
  <2>1. call[k] \in CallRecord /\ SendsItsPart(call[k])
    BY <1>9 DEF WriteSettings, InPhase, IInv, TypeOK, CallsSound, UnderWay
  <2>2. stored' \in [killSwitch : {None, TRUE, FALSE}, policy : Policy \cup {Bad, None}]
    <3>1. CASE call[k].changes \in [killSwitch : BOOLEAN]
      BY <1>9, <3>1 DEF WriteSettings, IInv, TypeOK
    <3>2. CASE call[k].changes \in [policy : Policy]
      BY <1>9, <3>2 DEF WriteSettings, IInv, TypeOK
    <3> QED
      BY <2>1, <3>1, <3>2 DEF CallRecord
  <2>3. call'[k] = [call[k] EXCEPT !.phase = "written"]
    BY <1>9 DEF WriteSettings, IInv, TypeOK
  <2>4. call'[k] \in CallRecord /\ SendsItsPart(call'[k]) /\ call'[k].phase = "written"
    BY <2>1, <2>3 DEF CallRecord, SendsItsPart
  <2>5. call' \in CallsType /\ \A j \in Call : j # k => call'[j] = call[j]
    BY <1>9, <2>3, <2>4 DEF WriteSettings, IInv, TypeOK
  <2>6. CallsSound'
    BY <2>4, <2>5 DEF CallsSound, UnderWay, SendsItsPart, IInv
  <2> QED
    BY <1>9, <2>2, <2>5, <2>6 DEF WriteSettings, IInv, TypeOK
<1>10. ASSUME NEW k \in Call, ReadBack(k) PROVE IInv'
  <2>1. call[k] \in CallRecord /\ SendsItsPart(call[k])
    BY <1>10 DEF ReadBack, InPhase, IInv, TypeOK, CallsSound, UnderWay
  <2>2. call'[k] = [call[k] EXCEPT !.phase = "read", !.answer = SettingsView]
    BY <1>10 DEF ReadBack, IInv, TypeOK
  <2>3. SettingsView \in View
    BY ViewTyped DEF IInv
  <2>4. call'[k] \in CallRecord /\ SendsItsPart(call'[k]) /\ call'[k].answer \in View
    BY <2>1, <2>2, <2>3 DEF CallRecord, SendsItsPart
  <2>5. call' \in CallsType /\ \A j \in Call : j # k => call'[j] = call[j]
    BY <1>10, <2>2, <2>4 DEF ReadBack, IInv, TypeOK
  <2>6. CallsSound'
    BY <2>4, <2>5 DEF CallsSound, UnderWay, SendsItsPart, IInv
  <2> QED
    BY <1>10, <2>5, <2>6 DEF ReadBack, IInv, TypeOK
<1>11. ASSUME NEW k \in Call, UpdateAnswered(k) PROVE IInv'
  <2>1. call[k] \in CallRecord /\ call[k].answer \in View /\ call[k].by \in Admin
    BY <1>11 DEF UpdateAnswered, InPhase, IInv, TypeOK, CallsSound, UnderWay, CallRecord
  <2>2. [call EXCEPT ![k] = Over] \in CallsType
    BY DEF IInv, TypeOK
  <2>3. \A j \in Call : [call EXCEPT ![k] = Over][j] \in {call[j], Over}
    BY DEF IInv, TypeOK
  <2>4. Show(call[k].by, call[k].answer, [call EXCEPT ![k] = Over])
    BY <1>11 DEF UpdateAnswered
  <2>5. /\ view' \in [Admin -> View \cup {None}]
        /\ form' \in [Admin -> Policy \cup {Bad, None}]
        /\ touched' \subseteq Admin
        /\ call' \in CallsType
        /\ CallsSound'
    BY <2>1, <2>2, <2>3, <2>4, ShowKeeps
  <2> QED
    BY <1>11, <2>5 DEF UpdateAnswered, IInv, TypeOK
<1>12. ASSUME NEW k \in Call, UpdateFails(k) PROVE IInv'
  <2>1. call' \in CallsType /\ \A j \in Call : call'[j] \in {call[j], Over}
    BY <1>12 DEF UpdateFails, IInv, TypeOK
  <2>2. CallsSound'
    BY <2>1, SameCallsSound
  <2> QED
    BY <1>12, <2>1, <2>2 DEF UpdateFails, IInv, TypeOK
<1>13. ASSUME Spend PROVE IInv'
  <2>1. CallsSound'
    BY <1>13, SameCallsSound DEF Spend
  <2>2. spent' \in Nat
    <3>1. spent \in Nat /\ spent' = spent + 1
      BY <1>13 DEF Spend, IInv, TypeOK
    <3> QED
      BY <3>1
  <2> QED
    BY <1>13, <2>1, <2>2 DEF Spend, IInv, TypeOK
<1>14. CASE UNCHANGED vars
  <2>1. CallsSound'
    BY <1>14, SameCallsSound DEF vars
  <2> QED
    BY <1>14, <2>1 DEF vars, IInv, TypeOK
<1> QED
  BY <1>1, <1>2, <1>3, <1>4, <1>5, <1>6, <1>7, <1>8, <1>9, <1>10, <1>11, <1>12, <1>13,
     <1>14 DEF Next

(* The settings, the pages and the updates are always well formed: whatever  *)
(* is in the document, what is shown and what a save sends is valid.         *)
THEOREM TypeCorrect == Spec => []TypeOK
<1>1. IInv => TypeOK
  BY DEF IInv
<1> QED
  BY <1>1, InitSound, StepSound, PTL DEF Spec

(* Whoever has which page open and however updates, fetches and answers are  *)
(* ordered, the switch turns only for an admin who was shown it the other    *)
(* way and pressed its button.                                               *)
THEOREM SwitchTurnedOnPurpose == Spec => SwitchIntended
<1>1. IInv /\ [Next]_vars =>
        [GetSettings'.killSwitch # GetSettings.killSwitch => \E k \in Call : Turns(k)]_vars
  <2> SUFFICES ASSUME IInv, Next, GetSettings'.killSwitch # GetSettings.killSwitch
               PROVE  \E k \in Call : Turns(k)
    OBVIOUS
  <2>1. stored' # stored
    BY DEF GetSettings
  <2>2. PICK k \in Call : WriteSettings(k)
    BY <2>1 DEF Next, Visit, Leave, ServeSettings, SettingsArrive, FetchFails, EditForm,
                ToggleKillSwitch, Save, ReadBack, UpdateAnswered, UpdateFails, Spend
  <2>3. /\ call[k] \in CallRecord
        /\ SendsItsPart(call[k])
        /\ call[k].phase = "sent"
    BY <2>2 DEF WriteSettings, InPhase, IInv, TypeOK, CallsSound, UnderWay
  <2>4. call[k].button = "switch"
    <3>1. CASE call[k].button # "switch"
      <4>1. call[k].changes \in [policy : Policy]
        BY <3>1, <2>3 DEF SendsItsPart
      <4>2. stored'.killSwitch = stored.killSwitch
        BY <2>2, <4>1 DEF WriteSettings, IInv, TypeOK
      <4> QED
        BY <4>2 DEF GetSettings
    <3> QED
      BY <3>1
  <2>5. stored'.killSwitch = ~call[k].saw
    BY <2>2, <2>3, <2>4 DEF WriteSettings, SendsItsPart, IInv, TypeOK
  <2>6. call[k].saw \in BOOLEAN
    BY <2>3 DEF CallRecord
  <2>7. call[k].saw = GetSettings.killSwitch
    BY <2>5, <2>6 DEF GetSettings
  <2>8. call'[k].phase = "written"
    BY <2>2, <2>3 DEF WriteSettings, IInv, TypeOK, CallRecord
  <2> QED
    BY <2>2, <2>3, <2>4, <2>7, <2>8 DEF Turns, WriteSettings
<1> QED
  BY <1>1, InitSound, StepSound, PTL DEF Spec, SwitchIntended

-----------------------------------------------------------------------------

(* Showing an answer keeps every form that was not touched at what its page  *)
(* shows.                                                                    *)
LEMMA ShowFollows ==
  ASSUME IInv, FormFollowsPage, NEW a \in Admin, NEW v \in View, NEW calls,
         Show(a, v, calls), UNCHANGED open
  PROVE  FormFollowsPage'
<1> SUFFICES ASSUME NEW b \in open \ touched', view'[b] # None
             PROVE  form'[b] = view'[b].settings.policy
  BY DEF FormFollowsPage
<1>1. b \in Admin
  BY DEF IInv, TypeOK
<1>2. CASE b = a
  BY <1>1, <1>2 DEF Show, FormFollowsPage, IInv, TypeOK
<1>3. CASE b # a
  BY <1>1, <1>3 DEF Show, FormFollowsPage, IInv, TypeOK
<1> QED
  BY <1>2, <1>3

(* Every step leaves an untouched form on what its page shows.              *)
LEMMA StepFollows == IInv /\ FormFollowsPage /\ [Next]_vars => FormFollowsPage'
<1> SUFFICES ASSUME IInv, FormFollowsPage, [Next]_vars PROVE FormFollowsPage'
  OBVIOUS
<1>1. ASSUME NEW a \in Admin, Visit(a) PROVE FormFollowsPage'
  BY <1>1 DEF Visit, FormFollowsPage, IInv, TypeOK
<1>2. ASSUME NEW a \in Admin, SettingsArrive(a) PROVE FormFollowsPage'
  <2>1. fetch[a] \in View
    BY <1>2 DEF SettingsArrive, IInv, TypeOK
  <2> QED
    BY <1>2, <2>1, ShowFollows DEF SettingsArrive
<1>3. ASSUME NEW a \in Admin, NEW p \in Policy \cup {Bad}, EditForm(a, p)
      PROVE  FormFollowsPage'
  BY <1>3 DEF EditForm, FormFollowsPage, IInv, TypeOK
<1>4. ASSUME NEW k \in Call, UpdateAnswered(k) PROVE FormFollowsPage'
  <2>1. call[k].by \in Admin /\ call[k].answer \in View
    BY <1>4 DEF UpdateAnswered, InPhase, IInv, TypeOK, CallsSound, UnderWay, CallRecord
  <2> QED
    BY <1>4, <2>1, ShowFollows DEF UpdateAnswered
<1>5. ASSUME NEW a \in Admin, Leave(a) PROVE FormFollowsPage'
  BY <1>5 DEF Leave, FormFollowsPage
<1>6. CASE UNCHANGED <<open, view, form, touched>>
  BY <1>6 DEF FormFollowsPage
<1> QED
  BY <1>1, <1>2, <1>3, <1>4, <1>5, <1>6
     DEF Next, ServeSettings, FetchFails, ToggleKillSwitch, Save, WriteSettings, ReadBack,
         UpdateFails, Spend, vars

(* A form nobody touched is what its page shows, for any number of admins.   *)
THEOREM FormsFollow == Spec => []FormFollowsPage
<1>1. Init => FormFollowsPage
  BY DEF Init, FormFollowsPage
<1> QED
  BY <1>1, InitSound, StepSound, StepFollows, PTL DEF Spec

=============================================================================
