------------------------------ MODULE Delivery ------------------------------
(***************************************************************************)
(* What the delivery of an event promises: one attempt after another, up   *)
(* to a limit, as one worker alone would make them (deliverPending: "so    *)
(* several workers can run at once without sending anything twice").       *)
(*                                                                         *)
(* There are no claims, locks or waits here.  Outbox, with any number of   *)
(* workers, implements this specification until a worker outlives its      *)
(* lock; what still holds from then on is Settled.                         *)
(***************************************************************************)
EXTENDS Naturals

CONSTANT Limit  \* attempts before the event is given up

VARIABLES
  outcome,   \* open, delivered or dead
  stage,     \* how far the attempt under way has come, idle between two
  attempts,  \* attempts since the event was new or revived
  received,  \* times the webhook received the event, up to two
  lost,      \* a receipt may have gone unrecorded
  crashes,   \* attempts a worker died in
  astray     \* a worker has outlived its lock

deliveryVars == <<outcome, stage, attempts, received, lost, crashes, astray>>

Init ==
  /\ outcome = "open"
  /\ stage = "idle"
  /\ attempts = 0 /\ received = 0 /\ crashes = 0
  /\ lost = FALSE
  /\ astray = FALSE

(* Only a worker that died is the reason of an attempt beyond the last one. *)
Begin ==
  /\ outcome = "open" /\ stage = "idle"
  /\ attempts < Limit + crashes
  /\ stage' = "claimed"
  /\ attempts' = attempts + 1
  /\ UNCHANGED <<outcome, received, lost, crashes>>

Received == received' = IF received < 2 THEN received + 1 ELSE received

Send ==
  /\ stage = "claimed"
  /\ \/ stage' = "sent" /\ Received /\ UNCHANGED lost
     \/ stage' = "failed" /\ Received /\ lost' = TRUE
     \/ stage' = "failed" /\ UNCHANGED <<received, lost>>
  /\ UNCHANGED <<outcome, attempts, crashes>>

LoseRecord ==
  /\ stage = "sent" /\ stage' = "failed"
  /\ lost' = TRUE
  /\ UNCHANGED <<outcome, attempts, received, crashes>>

Record ==
  /\ stage = "sent" /\ stage' = "idle"
  /\ outcome' = "delivered"
  /\ UNCHANGED <<attempts, received, lost, crashes>>

Fail ==
  /\ stage = "failed" /\ stage' = "idle"
  /\ outcome' = IF attempts >= Limit THEN "dead" ELSE "open"
  /\ UNCHANGED <<attempts, received, lost, crashes>>

Die ==
  /\ stage # "idle" /\ stage' = "idle"
  /\ crashes' = crashes + 1
  /\ lost' = (lost \/ stage = "sent")
  /\ UNCHANGED <<outcome, attempts, received>>

Revive ==
  /\ outcome = "dead" /\ outcome' = "open"
  /\ attempts' = 0
  /\ UNCHANGED <<stage, received, lost, crashes>>

(* Whoever works on it: delivered is final and was received, and an event   *)
(* that was given up is only taken up again as if it were new.              *)
Settled ==
  /\ received' >= received
  /\ outcome = "delivered" => outcome' = "delivered"
  /\ outcome' = "delivered" => received' > 0
  /\ outcome = "dead" /\ outcome' # "dead" => outcome' = "open" /\ attempts' = 0

Next ==
  \/ /\ ~astray /\ ~astray'
     /\ Begin \/ Send \/ LoseRecord \/ Record \/ Fail \/ Die \/ Revive
  \/ astray' /\ Settled

Spec == Init /\ [][Next]_deliveryVars

=============================================================================
