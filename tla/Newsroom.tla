----------------------------- MODULE Newsroom -----------------------------
(***************************************************************************)
(* The newsroom of a channel: arriving news, editing, digests and          *)
(* publication side by side over the same rows (app/core/scheduler.py).    *)
(* The readers of its source are one action, Arrive: Intake models them    *)
(* and checks that they make no other rows.                                *)
(***************************************************************************)
EXTENDS Editing, Digests

vars == <<news, editing, digesting>>

InitNewsroom == Init /\ InitEditing /\ InitDigests

\* The process dies: its tasks are gone, the rows stay.
Crash ==
  /\ desk' = Idle /\ redraft' = NoRedraft
  /\ runner' = [d \in Runners |-> NoRun]
  /\ <<desk, redraft, runner>>' # <<desk, redraft, runner>>
  /\ UNCHANGED <<news, sentOn>>

Next ==
  \/ (World \/ \E i \in Items : Arrive(i)) /\ UNCHANGED <<editing, digesting>>
  \/ Edit /\ UNCHANGED digesting
  \/ Summarize /\ UNCHANGED editing
  \/ Crash

Spec == InitNewsroom /\ [][Next]_vars

TypeOK == NewsOK /\ EditingOK /\ DigestsOK

\* Readers see a dated story at most once, by itself or in one digest: whatever
\* is pruned and read again, reconsidered, renewed by "publish now", rewritten,
\* taken into a digest or sent by its owner meanwhile.
AiredOnce == \A i \in Items \ Undated : aired[i] <= 1
=============================================================================
