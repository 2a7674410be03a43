---------------------------- MODULE MCRelease ----------------------------
(* Instances of Release for TLC. *)
EXTENDS Release, TLC

\* Two releases; one with the other tools about; time and nothing to release.
ReleasesOrTime ==
  {[clock |-> 0, head |-> 2, uploads |-> 3, submissions |-> 3, operations |-> FALSE],
   [clock |-> 0, head |-> 1, uploads |-> 1, submissions |-> 1, operations |-> TRUE],
   [clock |-> 5, head |-> 0, uploads |-> 0, submissions |-> 0, operations |-> TRUE]}

JobSymmetry == Permutations(Jobs)

\* What the monitor drops is what its filter drops.
RecentIsFilter ==
  Recent(monitor.attempts) = SelectSeq(monitor.attempts, LAMBDA t : clock - t < Hour)
=============================================================================
