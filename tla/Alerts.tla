------------------------------ MODULE Alerts ------------------------------
(***************************************************************************)
(* The alarms of the monitors (scripts/resilience/alerts.py, called by     *)
(* scripts/operations/monitor.py, scripts/ha/monitor.py and                *)
(* scripts/resilience/check-health.py): each recipient has a state of his  *)
(* own for every check, and it follows what has been delivered to him.     *)
(*                                                                         *)
(* A round of the monitor is one step: any of its messages may fail, and   *)
(* so may the saving of the states it leads to.                            *)
(***************************************************************************)
EXTENDS Integers, FiniteSetsExt

CONSTANTS
  Admins, Checks,
  Reminder,     \* the time between two alarms of one outage, in rounds
  MaxAlertTime  \* bound of the model

ASSUME AlertAssumption == Reminder \in Nat \ {0} /\ MaxAlertTime \in Nat

VARIABLES
  now,
  alarm,   \* alert-state.json: the state of each recipient and check
  told,    \* what each recipient has been told last, and when
  bad,     \* failed observations of each check in a row, as far as they were saved
  reached, \* recipients whose messages of the last round have arrived
  unsaved  \* a state has been lost

alerting == <<now, alarm, told, bad, reached, unsaved>>

Quiet == [failures |-> 0, active |-> FALSE, sent |-> 0]
Enough == 3

InitAlerts ==
  /\ now = 1
  /\ alarm = [a \in Admins |-> [k \in Checks |-> Quiet]]
  /\ told = [a \in Admins |-> [k \in Checks |-> [what |-> "fine", at |-> 0]]]
  /\ bad = [k \in Checks |-> 0] /\ reached = Admins /\ unsaved = FALSE

\* Slip: the first failed observation is an outage.
NextStateAtOnce(old, healthy) ==
  [failures |-> IF healthy THEN 0 ELSE Enough, sent |-> old.sent, active |-> ~healthy]

\* next_state: the state after an observation, were the message of its event delivered.
NextState(old, healthy) ==
  LET failures == IF healthy THEN 0 ELSE Min({old.failures + 1, Enough})
  IN [failures |-> failures, sent |-> old.sent,
      active |-> failures >= Enough \/ (old.active /\ ~healthy)]

EventOf(old, healthy) ==
  CASE NextState(old, healthy).active /\ (~old.active \/ now - old.sent >= Reminder) -> "failure"
    [] old.active /\ healthy -> "recovery"
    [] OTHER -> "none"

\* Slip: an alarm counts as raised, whether its message has arrived or not.
NotedAnyhow(old, healthy, delivered) ==
  IF EventOf(old, healthy) = "none" THEN NextState(old, healthy)
  ELSE [NextState(old, healthy) EXCEPT !.sent = now]

\* Slip: the time of an alarm is that of its first message.
NotedFirst(old, healthy, delivered) ==
  IF EventOf(old, healthy) = "none" THEN NextState(old, healthy)
  ELSE IF delivered
  THEN [NextState(old, healthy) EXCEPT !.sent = IF old.active THEN @ ELSE now]
  ELSE [NextState(old, healthy) EXCEPT !.active = old.active]

\* The state that notify keeps: a message that failed is tried again.
Noted(old, healthy, delivered) ==
  IF EventOf(old, healthy) = "none" THEN NextState(old, healthy)
  ELSE IF delivered THEN [NextState(old, healthy) EXCEPT !.sent = now]
  ELSE [NextState(old, healthy) EXCEPT !.active = old.active]

\* notify: [healthy] is what was observed, [to] the recipients that can be reached.
Notify ==
  /\ now < MaxAlertTime
  /\ now' = now + 1
  /\ \E healthy \in [Checks -> BOOLEAN], to \in SUBSET Admins, saved \in BOOLEAN :
       /\ reached' = to
       /\ told' = [a \in Admins |-> [k \in Checks |->
            IF a \notin to \/ EventOf(alarm[a][k], healthy[k]) = "none" THEN told[a][k]
            ELSE [what |-> IF healthy[k] THEN "fine" ELSE "alarm", at |-> now]]]
       /\ IF saved
          THEN /\ alarm' = [a \in Admins |-> [k \in Checks |->
                              Noted(alarm[a][k], healthy[k], a \in to)]]
               /\ bad' = [k \in Checks |-> IF healthy[k] THEN 0 ELSE Min({bad[k] + 1, Enough})]
               /\ UNCHANGED unsaved
          ELSE unsaved' = TRUE /\ UNCHANGED <<alarm, bad>>

AlertSpec == InitAlerts /\ [][Notify]_alerting

-----------------------------------------------------------------------------
\* A recipient that can be reached knows of an outage at its third observation,
\* whoever else cannot be reached (alerts.py:95-129).
ToldInTime ==
  \A a \in reached, k \in Checks :
    bad[k] >= Enough /\ ~unsaved => told[a][k].what = "alarm"

\* Nobody is told of an outage that has not been observed three times in a row,
\* and nobody is told it is over who was not told of it, or a second time.
ToldForCause ==
  [][\A a \in Admins, k \in Checks : told'[a][k] # told[a][k] =>
       IF told'[a][k].what = "alarm" THEN told[a][k].what = "alarm" \/ bad'[k] >= Enough \/ unsaved'
       ELSE told[a][k].what = "alarm" \/ unsaved]_alerting

\* An outage that goes on is not told again before the reminder is due.
RemindersSpaced ==
  [][\A a \in Admins, k \in Checks :
       told'[a][k] # told[a][k] /\ told[a][k].what = "alarm" /\ told'[a][k].what = "alarm"
         => told'[a][k].at - told[a][k].at >= Reminder \/ unsaved]_alerting
=============================================================================
