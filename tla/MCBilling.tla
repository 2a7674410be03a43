----------------------------- MODULE MCBilling -----------------------------
(* Instances of Billing for TLC. *)
EXTENDS Billing, TLC

GrantSymmetry == Permutations(Grants)
OrderSymmetry == Permutations(Orders)
Symmetry == OrderSymmetry \cup GrantSymmetry
=============================================================================
