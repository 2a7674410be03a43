---------------------------- MODULE MCBroadcast ----------------------------
(* Instances of Broadcast for TLC. *)
EXTENDS Broadcast, TLC

UserSymmetry == Permutations(Users)
WorkerSymmetry == Permutations(Workers)
Symmetry == UserSymmetry \cup WorkerSymmetry
=============================================================================
