--------------------------- MODULE OptionsRouter ---------------------------
(***************************************************************************)
(* The combo router (execution/ibkr_options_router.py): one multi-leg      *)
(* order is one ManagedOrder.  Its event handler differs from the futures  *)
(* router's: it reports no fill count to the state machine, it does not    *)
(* stop at terminal states, and a refused transition raises out of it.     *)
(* And place_combo waits for its legs' contracts between the check of the  *)
(* id and the order, so that two calls may overlap.                        *)
(***************************************************************************)
EXTENDS RouterBook

CONSTANT Caller         \* who may be in place_combo at one time

VARIABLE calls          \* [callers that await a contract -> what they place]

comboVars == <<vars, calls>>

ComboInit == Init /\ calls = [k \in {} |-> 0]

(* place_combo, up to the first leg that is not in the contract cache: an   *)
(* id that is tracked raises.                                               *)
PlaceCombo(k, c, q) ==
    /\ k \notin DOMAIN calls
    /\ c \notin Tracked
    /\ calls' = With(calls, k, [coid |-> c, quantity |-> q])
    /\ UNCHANGED vars

Returns(k) == k \in DOMAIN calls /\ calls' = [j \in DOMAIN calls \ {k} |-> calls[j]]

(* All legs are qualified: nothing asks for the id again.  One whose legs   *)
(* are all cached comes here at once.                                       *)
SendCombo(k) == Returns(k) /\ Send(calls[k].coid, calls[k].quantity)

(* A leg is not in the snapshot, or its contract does not qualify. *)
PlaceComboRaises(k) == Returns(k) /\ UNCHANGED vars

(* A version that stores what the broker says without the state machine. *)
HandleComboEventUnchecked(c, status, filled, total) ==
    LET to == MapIbkrStatus(status, filled, total) IN
    IF c \in Tracked /\ to \notin {Hold, managed[c].state}
    THEN /\ managed' = [managed EXCEPT ![c].state = to]
         /\ log' = [log EXCEPT ![c] = LC!Record(c, to)]
    ELSE UNCHANGED <<managed, log>>

(* _handle_status_event *)
HandleComboEvent(c, status, filled, total) ==
    LET to == MapIbkrStatus(status, filled, total) IN
    IF /\ c \in Tracked
       /\ to \notin {Hold, managed[c].state}
       /\ LC!CanApply(managed[c], to, NoFill)
    THEN Store(c, to, NoFill)
    ELSE UNCHANGED <<managed, log>>

ComboEvent(b) ==
    /\ Receive(b)
    /\ IF Fires(b)
       THEN HandleComboEvent(brk[b].coid, brk[b].status, brk[b].filled, brk[b].total)
       ELSE UNCHANGED <<managed, log>>
    /\ UNCHANGED trades

(* A version that marks the order cancelled on request, before the broker *)
(* has answered.                                                          *)
CancelComboEagerly(c) ==
    /\ c \in DOMAIN trades
    /\ managed[c].state \in {"SUBMITTED", "WORKING"}
    /\ CancelOrder(trades[c])
    /\ managed' = [managed EXCEPT ![c].state = "CANCELLED"]
    /\ log' = [log EXCEPT ![c] = LC!Record(c, "CANCELLED")]
    /\ UNCHANGED trades

(* cancel_combo *)
CancelCombo(c) == RequestCancel(c)

(* disconnect; the sessions that use this router make a new one each time. *)
DisconnectCombos == Forget

Placing == \E k \in Caller : \/ \E c \in Coid, q \in Quantity : PlaceCombo(k, c, q)
                              \/ SendCombo(k) \/ PlaceComboRaises(k)

Working == \/ \E c \in Coid : CancelCombo(c)
           \/ \E b \in DOMAIN brk : ComboEvent(b) \/ (BrokerStep(b) /\ UNCHANGED book)
           \/ DisconnectCombos

ComboNext == Placing \/ (Working /\ UNCHANGED calls)

ComboFairness == \A b \in 1..MaxPlace : WF_vars(b \in DOMAIN brk /\ ComboEvent(b))

ComboSpec == ComboInit /\ [][ComboNext]_comboVars /\ ComboFairness

-----------------------------------------------------------------------------
(* The ManagedOrders of the book by the broker's order each was made for. *)
ByOrder(f) == [b \in {trades[c] : c \in Tracked} |-> f[brk[b].coid]]

OrderLC == INSTANCE OrderLifecycle WITH Order <- 1..MaxPlace,
               orders <- ByOrder(managed), log <- ByOrder(log),
               Fill <- UNION {0..q : q \in Quantity}, MaxLog <- -1

(* Every ManagedOrder keeps to the order state machine while the book holds *)
(* it, although two calls with one id may both pass the check, the second   *)
(* then takes the place of the first, and events of both drive it.  For     *)
(* this an order goes by its number at the broker: an id may be used again. *)
CombosImplementLifecycle == OrderLC!Spec

(* While an id is placed once, a combo the book calls over is over at the   *)
(* broker: nothing that could still fill is forgotten.                      *)
OverIsOver ==
    \A c \in Tracked :
        (Alone(c) /\ managed[c].state \in LC!Terminal) => Finished(trades[c])

(* The module's own promise (ibkr_options_router.py:27-28): a ManagedOrder   *)
(* progresses PENDING, SUBMITTED, FILLED on the combo's status.             *)
FilledIsLearned ==
    \A c \in Tracked :
        (seen[trades[c]].status = "Filled" /\ seen[trades[c]].filled = managed[c].quantity)
            => managed[c].state = "FILLED"
=============================================================================
