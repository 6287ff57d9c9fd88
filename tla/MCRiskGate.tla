----------------------------- MODULE MCRiskGate -----------------------------
(* Two strategies with two ids each, a cap of two positions in all, two     *)
(* orders in flight, an id window of one hour out of three.                 *)
EXTENDS RiskGate

Symmetry == Permutations(Strategy)

NoProfitOrLoss ==
    /\ closed = [day |-> 0, week |-> 0] /\ \A c \in DOMAIN start : start[c] = 0
    /\ \A c \in DOMAIN positions : positions[c] = 0

(* Bound: the switch, the clock, and profits and losses are exercised one   *)
(* at a time, each with orders, fills and closes; their checks share        *)
(* nothing but the order that has to pass all of them.                      *)
OneAtATime ==
    \/ trips = <<>> /\ now = 0
    \/ trips = <<>> /\ NoProfitOrLoss
    \/ now = 0 /\ NoProfitOrLoss
=============================================================================
