----------------------------- MODULE IbkrBroker -----------------------------
(***************************************************************************)
(* The broker as the two IBKR routers use it through ib_async (external).  *)
(*                                                                         *)
(* The broker executes, cancels and kills orders on its own.  Its updates  *)
(* travel to the client, where ib_async overwrites the Trade's orderStatus *)
(* and fires statusEvent; an update may be late and may be overtaken by a  *)
(* newer one (the client then sees only the newer), but is not lost while  *)
(* the connection lives.                                                   *)
(***************************************************************************)
EXTENDS Integers, Sequences

CONSTANTS
    Coid,           \* client order ids
    Quantity,       \* quantities an intent may ask for
    MaxPlace,       \* bound: orders sent to the broker in a behaviour
    PartialStatus   \* the statuses under which the broker reports partial fills

ASSUME QuantityAssumption == Quantity \subseteq Nat \ {0}
ASSUME MaxPlaceAssumption == MaxPlace \in Nat
ASSUME PartialStatusAssumption == PartialStatus \subseteq {"Submitted", "Filled"}

VARIABLES
    seen,       \* per broker order: trade.orderStatus as the client knows it
    brk,        \* per broker order: the broker's own record
    pending     \* broker orders with an update on its way to the client

-----------------------------------------------------------------------------
BrokerStatus == {"PendingSubmit", "PreSubmitted", "Submitted", "PendingCancel",
                 "Filled", "Cancelled", "ApiCancelled", "Inactive",
                 "ValidationError"}

DoneStatus == {"Filled", "Cancelled", "ApiCancelled", "Inactive"}

(* The broker is finished with an order. *)
Finished(b) == \/ brk[b].status \in {"Cancelled", "ApiCancelled", "Inactive"}
               \/ brk[b].filled = brk[b].total

BrokerInit == seen = <<>> /\ brk = <<>> /\ pending = {}

(* ib.placeOrder: a new Trade, PendingSubmit. *)
PlaceOrder(c, q) ==
    /\ Len(brk) < MaxPlace
    /\ brk' = Append(brk, [coid |-> c, total |-> q, status |-> "PendingSubmit",
                           filled |-> 0, cancel |-> FALSE])
    /\ seen' = Append(seen, [status |-> "PendingSubmit", filled |-> 0])
    /\ UNCHANGED pending

(* ib.cancelOrder: the request goes out and ib_async itself marks the Trade *)
(* PendingCancel.  Asking twice changes nothing more.                       *)
CancelOrder(b) ==
    /\ ~ brk[b].cancel
    /\ seen[b].status \notin DoneStatus
    /\ seen' = [seen EXCEPT ![b].status = "PendingCancel"]
    /\ brk' = [brk EXCEPT ![b].cancel = TRUE]
    /\ UNCHANGED pending

(* The client receives the broker's latest word on an order. *)
Latest(b) == [status |-> brk[b].status, filled |-> brk[b].filled]

Receive(b) ==
    /\ b \in pending
    /\ pending' = pending \ {b}
    /\ seen' = [seen EXCEPT ![b] = Latest(b)]
    /\ UNCHANGED brk

(* statusEvent fires only when the status or the fill changed. *)
Fires(b) == seen[b] # Latest(b)

-----------------------------------------------------------------------------
Update(b, status, filled) ==
    /\ brk' = [brk EXCEPT ![b].status = status, ![b].filled = filled]
    /\ pending' = pending \cup {b}
    /\ UNCHANGED seen

Accept(b, status) ==
    /\ \/ brk[b].status = "PendingSubmit"
             /\ status \in {"PreSubmitted", "Submitted", "ValidationError"}
       \/ brk[b].status = "ValidationError" /\ status \in {"PreSubmitted", "Submitted"}
       \/ brk[b].status = "PreSubmitted" /\ status = "Submitted"
    /\ Update(b, status, brk[b].filled)

Execute(b, filled) ==
    /\ brk[b].status \in {"Submitted", "PendingCancel", "Filled"}
    /\ filled \in (brk[b].filled + 1)..brk[b].total
    /\ \E status \in IF filled = brk[b].total THEN {"Filled"}
                     ELSE IF brk[b].status = "PendingCancel" THEN {"PendingCancel"}
                     ELSE PartialStatus : Update(b, status, filled)

Kill(b, status) ==
    /\ \/ status = "Inactive"
       \/ status = "Cancelled" /\ brk[b].status # "PendingSubmit"
       \/ brk[b].cancel /\ brk[b].status = "PendingSubmit" /\ status = "ApiCancelled"
       \/ brk[b].cancel /\ brk[b].status \in {"PreSubmitted", "Submitted"}
             /\ status = "PendingCancel"
    /\ Update(b, status, brk[b].filled)

BrokerStep(b) ==
    /\ ~ Finished(b)
    /\ \/ \E status \in BrokerStatus : Accept(b, status) \/ Kill(b, status)
       \/ \E filled \in 1..brk[b].total : Execute(b, filled)
=============================================================================
