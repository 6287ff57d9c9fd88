----------------------------- MODULE Divergence -----------------------------
(***************************************************************************)
(* The detectors of execution/divergence.py: what differs between the      *)
(* local view and the broker's, as a set of events.                        *)
(***************************************************************************)
LOCAL INSTANCE Integers

Event(type, severity, key) == [type |-> type, severity |-> severity, key |-> key]

TerminalStates == {"FILLED", "CANCELLED", "REJECTED", "EXPIRED"}

(* detect_order_divergences: local is a function from ids to order states,  *)
(* broker a function from the ids of open orders to their states.           *)
DetectOrderDivergences(local, broker) ==
    {Event("order_missing_at_broker", "high", c) :
        c \in {d \in DOMAIN local \ DOMAIN broker : local[d] \notin TerminalStates}}
    \cup
    {Event("local_filled_broker_working", "critical", c) :
        c \in {d \in DOMAIN local \cap DOMAIN broker :
                  /\ local[d] = "FILLED"
                  /\ broker[d] \in {"WORKING", "PARTIAL", "SUBMITTED"}}}

(* detect_position_divergences: functions from instruments to signed        *)
(* quantities, absent meaning flat.                                         *)
Quantity0(positions, i) == IF i \in DOMAIN positions THEN positions[i] ELSE 0

PositionDivergence(l, b) ==
    CASE l # 0 /\ b = 0 -> "position_local_broker_flat"
      [] l = 0 /\ b # 0 -> "position_local_flat_broker_open"
      [] OTHER          -> "position_quantity_mismatch"

DetectPositionDivergences(local, broker) ==
    {Event(PositionDivergence(Quantity0(local, i), Quantity0(broker, i)), "critical", i) :
        i \in {j \in DOMAIN local \cup DOMAIN broker :
                  Quantity0(local, j) # Quantity0(broker, j)}}

(* A version that takes margin that just fits for a breach. *)
DetectAccountDivergencesInclusive(margin, funds) ==
    IF margin > 0 /\ margin >= funds
    THEN {Event("margin_breach", "critical", "account")} ELSE {}

(* detect_account_divergences *)
DetectAccountDivergences(margin, funds) ==
    IF margin > 0 /\ margin > funds
    THEN {Event("margin_breach", "critical", "account")} ELSE {}
=============================================================================
