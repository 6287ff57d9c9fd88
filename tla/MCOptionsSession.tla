-------------------------- MODULE MCOptionsSession --------------------------
EXTENDS OptionsSession

(* The strategies' positions close under ids of one class. *)
OneStrategy == [p \in Position |-> "put_credit_spread"]
=============================================================================
