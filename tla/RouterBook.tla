----------------------------- MODULE RouterBook -----------------------------
(***************************************************************************)
(* What the two IBKR routers have in common: the book of ManagedOrders and *)
(* Trades, how an order is sent and entered, and how a disconnect forgets  *)
(* it all.  They differ in what they make of the broker's events.          *)
(***************************************************************************)
EXTENDS IbkrBroker, IbkrStatus

CONSTANT NoFill         \* `filled_quantity=None`

ASSUME NoFillAssumption == NoFill \notin Nat

VARIABLES
    managed,    \* router._orders: coid -> ManagedOrder
    log,        \* coid -> the transition records of that ManagedOrder
    trades      \* router._trades: coid -> broker order number

book == <<managed, log, trades>>
vars == <<book, seen, brk, pending>>

(* The state machine the book is kept with; here logs end by themselves. *)
LC == INSTANCE OrderLifecycle WITH Order <- Coid, orders <- managed,
          Fill <- UNION {0..q : q \in Quantity}, MaxLog <- -1

-----------------------------------------------------------------------------
Tracked == DOMAIN managed

Init == /\ managed = [c \in {} |-> LC!NewManagedOrder(0)]
        /\ log = [c \in {} |-> <<>>]
        /\ trades = [c \in {} |-> 0]
        /\ BrokerInit

With(f, c, v) == [d \in DOMAIN f \cup {c} |-> IF d = c THEN v ELSE f[d]]

(* An order is sent, its events are wired to it under its coid, and the     *)
(* ManagedOrder is stored as SUBMITTED, in place of one that is there.      *)
Send(c, q) ==
    /\ PlaceOrder(c, q)
    /\ managed' = With(managed, c,
                       LC!ApplyTransition(LC!NewManagedOrder(q), "SUBMITTED", NoFill))
    /\ log' = With(log, c, <<LC!Created, [from |-> "PENDING", to |-> "SUBMITTED"]>>)
    /\ trades' = With(trades, c, Len(brk) + 1)

(* The transition of an order the handler stores. *)
Store(c, to, filled) ==
    /\ managed' = [managed EXCEPT ![c] = LC!ApplyTransition(@, to, filled)]
    /\ log' = [log EXCEPT ![c] = LC!Record(c, to)]

(* A cancel asks the broker; the outcome arrives as an event. *)
RequestCancel(c) == c \in DOMAIN trades /\ CancelOrder(trades[c]) /\ UNCHANGED book

(* The orders are forgotten; their Trades keep the wired handlers. *)
Forget ==
    /\ Tracked # {}
    /\ managed' = [c \in {} |-> LC!NewManagedOrder(0)]
    /\ log' = [c \in {} |-> <<>>]
    /\ trades' = [c \in {} |-> 0]
    /\ UNCHANGED <<seen, brk, pending>>

(* No earlier order was sent under this id, so no forgotten Trade fires     *)
(* into its entry of the book.                                              *)
Alone(c) == \A b \in DOMAIN brk : brk[b].coid = c => b = trades[c]

=============================================================================
