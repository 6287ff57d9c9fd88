----------------------------- MODULE IbkrRouter -----------------------------
(***************************************************************************)
(* The futures order router (execution/ibkr_router.py) with its status     *)
(* table (execution/ibkr_status.py), on top of the broker of IbkrBroker.   *)
(***************************************************************************)
EXTENDS RouterBook

(* place, which waits for nothing between its check of the id and the end. *)
Place(c, q) == c \notin Tracked /\ Send(c, q)

(* A version that stores the escalation without asking the state machine. *)
ApplyOrEscalateUnchecked(c, to, filled) ==
    IF LC!CanApply(managed[c], to, filled)
    THEN Store(c, to, filled)
    ELSE Store(c, "UNKNOWN", NoFill)

(* The transition the handler stores: the proposed one when it is legal,    *)
(* otherwise UNKNOWN; when that is illegal too the handler raises and       *)
(* stores nothing.                                                          *)
ApplyOrEscalate(c, to, filled) ==
    IF LC!CanApply(managed[c], to, filled)
    THEN Store(c, to, filled)
    ELSE IF LC!CanApply(managed[c], "UNKNOWN", NoFill)
    THEN Store(c, "UNKNOWN", NoFill)
    ELSE UNCHANGED <<managed, log>>

EventFillNone(c, filled, total) == NoFill

(* The cumulative count an event reports. *)
EventFill(c, filled, total) == filled

(* _handle_status_event, on the Trade of one broker order.  The closure     *)
(* that calls it remembers the client order id and nothing else.            *)
HandleStatusEvent(c, status, filled, total) ==
    IF c \notin Tracked \/ managed[c].state \in LC!Terminal
    THEN UNCHANGED <<managed, log>>
    ELSE LET to == MapIbkrStatus(status, filled, total) IN
         IF to = Hold \/ (to = managed[c].state /\ to # "PARTIAL")
         THEN UNCHANGED <<managed, log>>
         ELSE ApplyOrEscalate(c, to, EventFill(c, filled, total))

(* An update arrives and runs the handler wired to its Trade. *)
StatusEvent(b) ==
    /\ Receive(b)
    /\ IF Fires(b)
       THEN HandleStatusEvent(brk[b].coid, brk[b].status, brk[b].filled, brk[b].total)
       ELSE UNCHANGED <<managed, log>>
    /\ UNCHANGED trades

(* cancel: ib_async's own PendingCancel event is held by the handler. *)
Cancel(c) == RequestCancel(c)

Disconnect == Forget

-----------------------------------------------------------------------------
Next == \/ \E c \in Coid, q \in Quantity : Place(c, q)
        \/ \E c \in Coid : Cancel(c)
        \/ \E b \in DOMAIN brk : StatusEvent(b) \/ (BrokerStep(b) /\ UNCHANGED book)
        \/ Disconnect

(* Updates already sent do arrive; nothing else is promised. *)
Fairness == \A b \in 1..MaxPlace : WF_vars(b \in DOMAIN brk /\ StatusEvent(b))

Spec == Init /\ [][Next]_vars /\ Fairness

-----------------------------------------------------------------------------
(* The book is an instance of the order state machine: no event, in         *)
(* whatever order they come, moves an order along an edge lifecycle.py does *)
(* not have (_handle_status_event).                                         *)
ImplementsLifecycle == LC!Spec

(* What the book calls over is over at the broker, in the same way and with *)
(* every fill counted, although the partial fills on the way were not.      *)
TerminalAgrees ==
    \A c \in Tracked : LET b == trades[c] IN
        (Alone(c) /\ managed[c].state \in LC!Terminal) =>
            /\ Finished(b)
            /\ managed[c].filled = brk[b].filled
            /\ (managed[c].state = "FILLED") <=> (brk[b].filled = brk[b].total)
            /\ (managed[c].state = "REJECTED") => (brk[b].status = "Inactive")

(* An order the broker has filled or cancelled ends in the book too, by way *)
(* of UNKNOWN or not, unless the router is disconnected.  A dead (Inactive) *)
(* order at least leaves the states that say it works.                      *)
OutcomeIsLearned ==
    \A b \in 1..MaxPlace :
        (b \in DOMAIN brk /\ Finished(b))
            ~> \/ \A c \in Tracked : trades[c] # b
               \/ \E c \in Tracked :
                     /\ trades[c] = b
                     /\ \/ ~ Alone(c)
                        \/ managed[c].state \in LC!Terminal
                        \/ managed[c].state = "UNKNOWN" /\ brk[b].status = "Inactive"
=============================================================================
