------------------------------- MODULE Host -------------------------------
(***************************************************************************)
(* The production host as its tools see it: the lock they share, the marks *)
(* of maintenance and of fencing, the two worker containers, the           *)
(* administrator's operations (scripts/operations/control.py) and the      *)
(* bounded recovery (scripts/operations/monitor.py).                       *)
(*                                                                         *)
(* Every tool takes the lock without waiting: one that finds it held stops *)
(* before it changes anything.  A step is what a tool does between two     *)
(* points at which it can be killed or can see what another one did.       *)
(***************************************************************************)
EXTENDS Integers, Sequences, FiniteSets

CONSTANTS
  Jobs,     \* release workers that systemd may start
  Hour,     \* the window of the recovery's budget, in ticks of the clock
  Gap,      \* the shortest time between two recoveries
  Horizons  \* bounds of the model: ticks of the clock, commits pushed, uploads,
            \* submissions, and whether the administrator and the monitor act

ASSUME HostAssumption ==
  /\ Jobs \cap {"free", "control", "monitor"} = {}
  /\ Gap \in Nat /\ Hour \in Nat /\ Gap <= Hour
  /\ Horizons \subseteq [clock : Nat, head : Nat, uploads : Nat, submissions : Nat,
                       operations : BOOLEAN]

VARIABLES
  horizon,      \* the bounds of this behaviour
  clock,
  lock,         \* /run/lock/neyro-deploy.lock
  fenced, maintenance,  \* the marks in /etc/neyro-ops
  box,          \* the containers app and support
  fence,        \* a fence has been verified
  monitor,      \* the monitor: its round and recovery.json
  restarts      \* the times at which the recovery restarted the application

guards == <<fenced, maintenance>>
watch == <<monitor, restarts>>
host == <<horizon, clock, lock, guards, box, fence, watch>>

Names == {"app", "support"}
States == {"up", "sick", "down"}  \* running and healthy, running and unhealthy, stopped
Rounds == {"idle", "recover", "restarting"}
MaxFailures == 3
MaxRestarts == 2

InitHost(image) ==
  /\ horizon \in Horizons
  /\ clock = 0 /\ lock = "free" /\ fenced = FALSE /\ maintenance = FALSE
  /\ box = [n \in Names |-> [image |-> image, state |-> "up", restart |-> TRUE]]
  /\ fence = FALSE
  /\ monitor = [at |-> "idle", failures |-> 0, attempts |-> <<>>]
  /\ restarts = <<>>

Guarded == fenced \/ maintenance

\* docker restart, and what becomes of the process that was restarted.
Restart(n, state) == box' = [box EXCEPT ![n].state = state]

-----------------------------------------------------------------------------
(* control.py *)

MaintenanceOn ==
  /\ horizon.operations /\ lock = "free"
  /\ maintenance' = TRUE
  /\ UNCHANGED <<horizon, clock, lock, fenced, box, fence, watch>>

\* Slip: the mark of the fence is not looked at.
MaintenanceOffAnyhow ==
  /\ horizon.operations /\ lock = "free"
  /\ maintenance' = FALSE
  /\ UNCHANGED <<horizon, clock, lock, fenced, box, fence, watch>>

MaintenanceOff ==
  /\ horizon.operations /\ lock = "free" /\ ~fenced
  /\ maintenance' = FALSE
  /\ UNCHANGED <<horizon, clock, lock, fenced, box, fence, watch>>

RestartApp ==
  /\ horizon.operations /\ lock = "free" /\ ~Guarded /\ box["app"].state # "down"
  /\ \E s \in {"up", "sick"} : Restart("app", s)
  /\ UNCHANGED <<horizon, clock, lock, guards, fence, watch>>

\* The marks are written before the first command of Docker.
FenceBegins ==
  /\ horizon.operations /\ lock = "free"
  /\ lock' = "control" /\ fenced' = TRUE /\ maintenance' = TRUE
  /\ UNCHANGED <<horizon, clock, box, fence, watch>>

\* docker update --restart=no, docker stop, and a look at each container.
FenceHolds ==
  /\ lock = "control"
  /\ box' = [n \in Names |-> [box[n] EXCEPT !.state = "down", !.restart = FALSE]]
  /\ fence' = TRUE /\ lock' = "free"
  /\ UNCHANGED <<horizon, clock, guards, watch>>

\* A command of Docker fails, or the tool is interrupted.
FenceFails ==
  /\ lock = "control"
  /\ \E stopped \in SUBSET Names, restart \in BOOLEAN :
       box' = [n \in Names |->
         [box[n] EXCEPT !.state = IF n \in stopped THEN "down" ELSE @,
                        !.restart = restart /\ @]]
  /\ lock' = "free"
  /\ UNCHANGED <<horizon, clock, guards, fence, watch>>

-----------------------------------------------------------------------------
(* monitor.py: a round observes, decides and saves; a decision to recover  *)
(* is made again under the lock.                                           *)

\* The attempts of the last hour.  They are kept in the order of the clock: what
\* is too old is at the front.
Recent(attempts) ==
  LET old == {i \in DOMAIN attempts : clock - attempts[i] >= Hour}
  IN SubSeq(attempts, Cardinality(old) + 1, Len(attempts))

\* What recovery_decision asks of an observation besides the state of the
\* database, of the disk, of the memory and of the host's defences: [fine].
Eligible(fine) == fine /\ ~Guarded /\ box["app"].state = "sick"

\* Slip: the attempts are counted, the time since the last one is not.
SpacedByCount(attempts) == Len(attempts) < MaxRestarts

Spaced(attempts) ==
  /\ Len(attempts) < MaxRestarts
  /\ attempts = <<>> \/ clock - attempts[Len(attempts)] >= Gap

\* The failures and the attempts after a round, and whether to act.
Decision(fine) ==
  LET failures == IF ~Eligible(fine) THEN 0
                  ELSE IF monitor.failures + 1 < MaxFailures
                         THEN monitor.failures + 1 ELSE MaxFailures
      attempts == Recent(monitor.attempts)
  IN [failures |-> failures, attempts |-> attempts,
      act |-> failures = MaxFailures /\ Spaced(attempts)]

MonitorRound ==
  /\ horizon.operations /\ monitor.at = "idle"
  /\ \E fine \in BOOLEAN : LET d == Decision(fine) IN
       monitor' = [at |-> IF d.act THEN "recover" ELSE "idle",
                   failures |-> d.failures, attempts |-> d.attempts]
  /\ UNCHANGED <<horizon, clock, lock, guards, box, fence, restarts>>

\* Slip: recover goes by what the round has seen.
RecoverUnseen ==
  /\ monitor.at = "recover" /\ lock = "free"
  /\ lock' = "monitor"
  /\ monitor' = [monitor EXCEPT !.at = "restarting", !.failures = 0,
                                !.attempts = Append(@, clock)]
  /\ UNCHANGED <<horizon, clock, guards, box, fence, restarts>>

\* The attempt is saved before it is made.
Recover ==
  /\ monitor.at = "recover" /\ lock = "free"
  /\ \E fine \in BOOLEAN :
       IF Decision(fine).act
       THEN /\ lock' = "monitor"
            /\ monitor' = [monitor EXCEPT !.at = "restarting", !.failures = 0,
                                          !.attempts = Append(@, clock)]
       ELSE /\ monitor' = [monitor EXCEPT !.at = "idle"] /\ UNCHANGED lock
  /\ UNCHANGED <<horizon, clock, guards, box, fence, restarts>>

RecoverGivesWay ==
  /\ monitor.at = "recover" /\ lock # "free"
  /\ monitor' = [monitor EXCEPT !.at = "idle"]
  /\ UNCHANGED <<horizon, clock, lock, guards, box, fence, restarts>>

\* The container restarts; the command may still fail or be killed.
Recovered ==
  /\ monitor.at = "restarting"
  /\ \E s \in {"up", "sick"} : Restart("app", s)
  /\ restarts' = Append(restarts, clock)
  /\ monitor' = [monitor EXCEPT !.at = "idle"] /\ lock' = "free"
  /\ UNCHANGED <<horizon, clock, guards, fence>>

RecoveryFails ==
  /\ monitor.at = "restarting"
  /\ monitor' = [monitor EXCEPT !.at = "idle"] /\ lock' = "free"
  /\ UNCHANGED <<horizon, clock, guards, box, fence, restarts>>

-----------------------------------------------------------------------------
(* The containers, and time.                                               *)

\* The application gets sick or well while it runs; a container that dies is
\* started by Docker.
Sicken ==
  /\ horizon.operations /\ box["app"].state # "down"
  /\ \E s \in {"up", "sick"} : Restart("app", s)
  /\ UNCHANGED <<horizon, clock, lock, guards, fence, watch>>

\* docker restart has a limit of a minute, far below a tick.
Tick ==
  /\ clock < horizon.clock /\ monitor.at # "restarting"
  /\ clock' = clock + 1
  /\ UNCHANGED <<horizon, lock, guards, box, fence, watch>>

HostNext ==
  \/ MaintenanceOn \/ MaintenanceOff \/ RestartApp
  \/ FenceBegins \/ FenceHolds \/ FenceFails
  \/ MonitorRound \/ Recover \/ RecoverGivesWay \/ Recovered \/ RecoveryFails
  \/ Sicken \/ Tick

-----------------------------------------------------------------------------
\* At most two recoveries in an hour, and never two close together, whatever
\* is interrupted between the decision and the restart (monitor.py:121-156).
RestartBudget ==
  /\ \A i \in 1..Len(restarts) - 1 : restarts[i + 1] - restarts[i] >= Gap
  /\ \A i \in 1..Len(restarts) - MaxRestarts :
       restarts[i + MaxRestarts] - restarts[i] >= Hour

\* After a fence has been verified nothing on the host starts a worker again:
\* not a release that was under way or was waiting, not the recovery, not the
\* administrator's restart (control.py:29-48, neyro-release.py:205-206,
\* monitor.py:137-147).
FencedStaysDown == fence => fenced /\ \A n \in Names : box[n].state = "down"
=============================================================================
