------------------------------- MODULE MCDesk -------------------------------
(***************************************************************************)
(* What comes to a channel's desk, for TLC: the news that is read and the  *)
(* drafts that wait for the owner, each in a scene of its own.             *)
(***************************************************************************)
EXTENDS Intake, Drafts, TLC

VARIABLE scene

Economy == [quality |-> "fast", strict |-> FALSE]
OneEdition == {Economy}
Paced == [paused |-> FALSE, autopost |-> TRUE, open |-> TRUE, mode |-> "paced",
          edition |-> Economy]
PacedOnly == {Paced}
DeskSymmetry == Permutations(Readers) \cup Permutations(Hands)

InitDesk ==
  /\ Init /\ InitIntake /\ InitDrafts
  /\ \/ scene = "reading" /\ ChannelOff
     \/ scene = "drafts"

NextDesk ==
  \/ scene = "reading" /\ ReadNews /\ UNCHANGED <<scene, drafting>>
  \/ scene = "reading" /\ World /\ UNCHANGED <<scene, intake, drafting>>
  \/ scene = "drafts" /\ DraftsNext /\ UNCHANGED <<scene, news, intake>>

Spec == InitDesk /\ [][NextDesk]_<<scene, news, intake, drafting>>
=============================================================================
