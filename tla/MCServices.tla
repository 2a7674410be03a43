----------------------------- MODULE MCServices -----------------------------
(***************************************************************************)
(* Parts of the program that share no state: a run looks at each of them   *)
(* by itself, in a scene of its own.                                       *)
(***************************************************************************)
EXTENDS Alerts, Journal, Routes, Rotation, Pacing, SignIn, TLC

CONSTANTS a1, a2, own, main, backup

VARIABLE scene

Owned == [a \in {a1, a2} |-> IF a = a1 THEN own ELSE None]
Chain2 == <<main, backup>>
TabSymmetry == Permutations(SignTabs) \cup Permutations(SigningKeys)

all == <<scene, alerting, journal, routing, rotating, pacing, signing>>

Init ==
  /\ scene \in {"alerts", "journal", "routes", "rotation", "pacing", "sign in"}
  /\ InitAlerts /\ InitJournal /\ InitRoutes /\ InitRotation /\ InitPacing /\ InitSignIn

Next ==
  \/ scene = "alerts" /\ Notify
     /\ UNCHANGED <<scene, journal, routing, rotating, pacing, signing>>
  \/ scene = "journal" /\ JournalNext
     /\ UNCHANGED <<scene, alerting, routing, rotating, pacing, signing>>
  \/ scene = "routes" /\ RoutesNext
     /\ UNCHANGED <<scene, alerting, journal, rotating, pacing, signing>>
  \/ scene = "rotation" /\ RotationNext
     /\ UNCHANGED <<scene, alerting, journal, routing, pacing, signing>>
  \/ scene = "pacing" /\ PacingNext
     /\ UNCHANGED <<scene, alerting, journal, routing, rotating, signing>>
  \/ scene = "sign in" /\ SignInNext
     /\ UNCHANGED <<scene, alerting, journal, routing, rotating, pacing>>

Spec == Init /\ [][Next]_all
=============================================================================
