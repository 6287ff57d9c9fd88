-------------------------- MODULE MCReconciliation --------------------------
(* One order, one instrument long or flat, queries that may take a unit of  *)
(* time, and cadences of one and two units.                          *)
EXTENDS Reconciliation
MCCadence == [orders |-> 1, positions |-> 2, account |-> 2]
=============================================================================
