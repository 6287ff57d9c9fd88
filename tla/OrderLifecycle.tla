--------------------------- MODULE OrderLifecycle ---------------------------
(***************************************************************************)
(* The order state machine of src/tradegy/execution/lifecycle.py: what a   *)
(* ManagedOrder may do, whoever drives it.  `apply_transition` is the only *)
(* way an order changes; its callers (the IBKR router, reconciliation, the *)
(* operator) propose a target state and a cumulative fill, and the machine *)
(* accepts or raises.  Here the callers may propose anything: this is the  *)
(* abstract specification that IbkrRouter is shown to implement.           *)
(***************************************************************************)
EXTENDS Integers, Sequences

CONSTANTS
    Order,      \* client order ids
    Quantity,   \* the quantities an intent may ask for
    Fill,       \* the cumulative fill counts a caller may report
    NoFill,     \* `filled_quantity=None`: the caller reports no fill count
    MaxLog      \* bound: records kept in one order's log, or Unbounded

Unbounded == -1

ASSUME QuantityAssumption == Quantity \subseteq Nat \ {0}
ASSUME FillAssumption == Fill \subseteq Nat /\ NoFill \notin Nat
ASSUME MaxLogAssumption == MaxLog \in Nat \cup {Unbounded}

VARIABLES
    orders,     \* coid -> ManagedOrder, for the orders somebody holds
    log         \* coid -> the transition records of that order, oldest first

vars == <<orders, log>>

-----------------------------------------------------------------------------
OrderState == {"PENDING", "SUBMITTED", "WORKING", "PARTIAL", "FILLED",
               "CANCELLED", "REJECTED", "EXPIRED", "UNKNOWN"}

Terminal == {"FILLED", "CANCELLED", "REJECTED", "EXPIRED"}

LegalTransitions ==
    [s \in OrderState |->
        CASE s = "PENDING"   -> {"SUBMITTED", "REJECTED", "UNKNOWN"}
          [] s = "SUBMITTED" -> {"WORKING", "REJECTED", "FILLED", "CANCELLED", "UNKNOWN"}
          [] s = "WORKING"   -> {"PARTIAL", "FILLED", "CANCELLED", "EXPIRED", "UNKNOWN"}
          [] s = "PARTIAL"   -> {"FILLED", "CANCELLED", "EXPIRED", "UNKNOWN"}
          [] s = "UNKNOWN"   -> {"WORKING", "PARTIAL", "FILLED", "CANCELLED", "REJECTED"}
          [] s \in Terminal  -> {}]

ManagedOrder == [state : OrderState, quantity : Quantity, filled : Nat]

TransitionRecord == [from : OrderState, to : OrderState]

NewManagedOrder(q) == [state |-> "PENDING", quantity |-> q, filled |-> 0]

Created == [from |-> "PENDING", to |-> "PENDING"]

NewFilled(order, filled) == IF filled = NoFill THEN order.filled ELSE filled

(* A version in which a cancelled order may be sent again. *)
MoveRevivesCancelled(order, to) ==
    \/ to = "PARTIAL" /\ order.state = "PARTIAL"
    \/ to # order.state /\ to \in LegalTransitions[order.state]
    \/ to = "SUBMITTED" /\ order.state = "CANCELLED"

(* The edges of the graph, and the PARTIAL self-loop. *)
Move(order, to) == \/ to = order.state /\ to = "PARTIAL"
                   \/ to # order.state /\ to \in LegalTransitions[order.state]

(* A version that trusts the caller's fill count when it says FILLED. *)
CanApplyUnchecked(order, to, filled) ==
    /\ Move(order, to)
    /\ to = "FILLED" \/ NewFilled(order, filled) <= order.quantity

(* apply_transition returns a new order exactly when this holds, and raises *)
(* IllegalTransition otherwise.                                             *)
CanApply(order, to, filled) ==
    /\ Move(order, to)
    /\ NewFilled(order, filled) <= order.quantity
    /\ to = "FILLED" => NewFilled(order, filled) = order.quantity

ApplyTransition(order, to, filled) ==
    [order EXCEPT !.state = to, !.filled = NewFilled(order, filled)]

-----------------------------------------------------------------------------
Init == /\ orders = [c \in {} |-> NewManagedOrder(0)]
        /\ log = [c \in {} |-> <<>>]

(* new_managed_order *)
Create(c, q) ==
    /\ c \notin DOMAIN orders
    /\ orders' = [d \in DOMAIN orders \cup {c} |->
                     IF d = c THEN NewManagedOrder(q) ELSE orders[d]]
    /\ log' = [d \in DOMAIN orders \cup {c} |->
                     IF d = c THEN <<Created>> ELSE log[d]]

(* A caller may enter an order and record it as sent in one step, and drop  *)
(* others by it: those it kept in the same place.                           *)
Submit(S, c, q) ==
    /\ c \notin DOMAIN orders
    /\ orders' = [d \in (DOMAIN orders \ S) \cup {c} |->
                     IF d = c THEN ApplyTransition(NewManagedOrder(q), "SUBMITTED", NoFill)
                              ELSE orders[d]]
    /\ log' = [d \in (DOMAIN orders \ S) \cup {c} |->
                     IF d = c THEN <<Created, [from |-> "PENDING", to |-> "SUBMITTED"]>>
                              ELSE log[d]]

(* A record that names the new state as its origin. *)
RecordSwapped(c, to) == Append(log[c], [from |-> to, to |-> orders[c].state])

Record(c, to) == Append(log[c], [from |-> orders[c].state, to |-> to])

(* apply_transition, when it does not raise *)
Transition(c, to, filled) ==
    /\ c \in DOMAIN orders
    /\ MaxLog = Unbounded \/ Len(log[c]) < MaxLog
    /\ CanApply(orders[c], to, filled)
    /\ orders' = [orders EXCEPT ![c] = ApplyTransition(orders[c], to, filled)]
    /\ log' = [log EXCEPT ![c] = Record(c, to)]

(* A ManagedOrder lives in its holder's memory; the holder may drop it. *)
Discard(S) ==
    /\ orders' = [c \in DOMAIN orders \ S |-> orders[c]]
    /\ log' = [c \in DOMAIN orders \ S |-> log[c]]

Next == \/ \E c \in Order, q \in Quantity :
               Create(c, q) \/ \E S \in SUBSET Order : Submit(S, c, q)
        \/ \E c \in Order, to \in OrderState, f \in Fill \cup {NoFill} :
               Transition(c, to, f)
        \/ \E S \in SUBSET Order : Discard(S)

Spec == Init /\ [][Next]_vars

-----------------------------------------------------------------------------
(* Type invariant. *)
TypeOK == /\ DOMAIN orders \subseteq Order
          /\ orders \in [DOMAIN orders -> ManagedOrder]
          /\ log \in [DOMAIN orders -> Seq(TransitionRecord)]

LegalRecord(r) == \/ r.from = "PARTIAL" /\ r.to = "PARTIAL"
                  \/ r.to \in LegalTransitions[r.from]

(* The log of an order is a walk of the transition graph: it starts at the  *)
(* birth record, every record leaves the state the one before it reached by *)
(* a legal edge, and the last one reaches the order's present state (the    *)
(* claim of lifecycle.py that state and log reconstruct the history).       *)
LogIsLegalPath ==
    \A c \in DOMAIN orders :
        /\ Len(log[c]) > 0
        /\ log[c][1] = Created
        /\ log[c][Len(log[c])].to = orders[c].state
        /\ \A i \in 2..Len(log[c]) : /\ log[c][i].from = log[c][i-1].to
                                     /\ LegalRecord(log[c][i])

(* An order is sent to the broker at most once in its life, whatever states *)
(* (UNKNOWN included) it goes through: SUBMITTED only ever follows birth.   *)
SubmittedAtMostOnce ==
    \A c \in DOMAIN orders : \A i \in 1..Len(log[c]) :
        log[c][i].to = "SUBMITTED" => i = 2

(* An order never holds more fills than it asked for, and one that says     *)
(* FILLED holds exactly what it asked for.                                  *)
FillsAreAccounted ==
    \A c \in DOMAIN orders :
        /\ orders[c].filled <= orders[c].quantity
        /\ orders[c].state = "FILLED" => orders[c].filled = orders[c].quantity

(* A terminal order is frozen while anybody holds it: neither its state nor *)
(* its fills nor its log ever change again.                                 *)
TerminalIsFinal ==
    [][\A c \in DOMAIN orders \cap DOMAIN orders' :
          orders[c].state \in Terminal =>
              orders'[c] = orders[c] /\ log'[c] = log[c]]_vars
=============================================================================
