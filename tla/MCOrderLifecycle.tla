-------------------------- MODULE MCOrderLifecycle --------------------------
(* Two orders of one or two contracts, fills up to one contract too many. *)
EXTENDS OrderLifecycle, TLC

Symmetry == Permutations(Order)
=============================================================================
