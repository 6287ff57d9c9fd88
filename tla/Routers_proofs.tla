--------------------------- MODULE Routers_proofs ---------------------------
(***************************************************************************)
(* Both routers implement the order state machine, whatever the ids and    *)
(* quantities, however many orders are placed, and in whatever order the   *)
(* broker's updates arrive.  A step of a router is an entry of the book    *)
(* (Submit), one transition, the loss of the book (Discard), or nothing    *)
(* the state machine sees; that a transition reports a fill count the      *)
(* machine knows rests on the broker never over-filling.                   *)
(*                                                                         *)
(* What a book calls over is over at the broker: a book that agrees with   *)
(* it stays so because the broker leaves what it is finished with alone,   *)
(* an order sent alone under its id hears of its own updates only, and the *)
(* status table ends an order only on a status that does.                  *)
(***************************************************************************)
EXTENDS IbkrRouter, OptionsRouter, SequenceTheorems, TLAPS

-----------------------------------------------------------------------------
(* The broker's records: orders of known ids and quantities, never filled   *)
(* beyond their quantity.                                                   *)
BrokerOrder == [coid : Coid, total : Quantity, status : BrokerStatus, filled : Nat, cancel : BOOLEAN]

BrokerOK ==
    /\ brk \in Seq(BrokerOrder)
    /\ \A b \in DOMAIN brk : brk[b].filled <= brk[b].total
    /\ pending \subseteq DOMAIN brk

(* The broker starts without orders. *)
LEMMA BrokerInitOK == BrokerInit => BrokerOK
BY DEF BrokerInit, BrokerOK

(* A new order has no fills. *)
LEMMA PlaceOrderOK ==
    ASSUME BrokerOK, NEW c \in Coid, NEW q \in Quantity, PlaceOrder(c, q)
    PROVE  BrokerOK'
<1> DEFINE o == [coid |-> c, total |-> q, status |-> "PendingSubmit", filled |-> 0, cancel |-> FALSE]
<1>1. o \in BrokerOrder /\ o.filled <= o.total
  BY QuantityAssumption DEF BrokerOrder, BrokerStatus
<1>2. brk' = Append(brk, o) /\ pending' = pending
  BY DEF PlaceOrder
<1> HIDE DEF o
<1> QED BY <1>1, <1>2 DEF BrokerOK

(* A cancel marks an order, if it is there, and leaves its fills. *)
LEMMA CancelOrderOK ==
    ASSUME BrokerOK, NEW b, CancelOrder(b)
    PROVE  BrokerOK'
<1>1. brk' = [brk EXCEPT ![b].cancel = TRUE] /\ pending' = pending
  BY DEF CancelOrder
<1>2. CASE b \in DOMAIN brk
  <2> DEFINE o == [brk[b] EXCEPT !.cancel = TRUE]
  <2>1. brk[b] \in BrokerOrder
    BY <1>2 DEF BrokerOK
  <2>2. o \in BrokerOrder /\ o.filled = brk[b].filled /\ o.total = brk[b].total
    BY <2>1 DEF BrokerOrder
  <2>3. brk' = [brk EXCEPT ![b] = o]
    BY <1>1
  <2> HIDE DEF o
  <2>4. brk' \in Seq(BrokerOrder) /\ DOMAIN brk' = DOMAIN brk
    BY <1>2, <2>2, <2>3, ExceptSeq DEF BrokerOK
  <2>5. \A d \in DOMAIN brk : brk'[d] = IF d = b THEN o ELSE brk[d]
    BY <2>3
  <2> QED BY <1>1, <2>2, <2>4, <2>5 DEF BrokerOK
<1>3. CASE b \notin DOMAIN brk
  <2>1. brk' = brk
    BY <1>1, <1>3 DEF BrokerOK
  <2> QED BY <1>1, <2>1 DEF BrokerOK
<1> QED BY <1>2, <1>3

(* An update of a status and a fill count within the quantity. *)
LEMMA UpdateOK ==
    ASSUME BrokerOK, NEW b \in DOMAIN brk, NEW status \in BrokerStatus,
           NEW filled \in Nat, filled <= brk[b].total, Update(b, status, filled)
    PROVE  BrokerOK'
<1>1. /\ brk' = [brk EXCEPT ![b].status = status, ![b].filled = filled]
      /\ pending' = pending \cup {b}
  BY DEF Update
<1>2. brk[b] \in BrokerOrder
  BY DEF BrokerOK
<1> DEFINE o == [brk[b] EXCEPT !.status = status, !.filled = filled]
<1>3. o \in BrokerOrder /\ o.filled = filled /\ o.total = brk[b].total
  BY <1>2 DEF BrokerOrder
<1>4. brk' = [brk EXCEPT ![b] = o]
  BY <1>1
<1> HIDE DEF o
<1>5. brk' \in Seq(BrokerOrder) /\ DOMAIN brk' = DOMAIN brk
  BY <1>3, <1>4, ExceptSeq DEF BrokerOK
<1>6. \A d \in DOMAIN brk : brk'[d] = IF d = b THEN o ELSE brk[d]
  BY <1>4
<1> QED BY <1>1, <1>3, <1>5, <1>6 DEF BrokerOK

(* Whatever the broker does of its own, no order is over-filled. *)
LEMMA BrokerStepOK ==
    ASSUME BrokerOK, NEW b \in DOMAIN brk, BrokerStep(b)
    PROVE  BrokerOK'
<1>a. brk[b] \in BrokerOrder /\ brk[b].filled <= brk[b].total
  BY DEF BrokerOK
<1>0. brk[b].filled \in Nat /\ brk[b].filled <= brk[b].total /\ brk[b].total \in Nat
  BY <1>a, QuantityAssumption DEF BrokerOrder
<1>1. ASSUME NEW status \in BrokerStatus, Accept(b, status) PROVE BrokerOK'
  BY <1>0, <1>1, UpdateOK DEF Accept
<1>2. ASSUME NEW status \in BrokerStatus, Kill(b, status) PROVE BrokerOK'
  BY <1>0, <1>2, UpdateOK DEF Kill
<1>3. ASSUME NEW filled \in 1..brk[b].total, Execute(b, filled) PROVE BrokerOK'
  <2>1. PICK status \in {"Filled", "PendingCancel"} \cup PartialStatus : Update(b, status, filled)
    BY <1>3 DEF Execute
  <2>2. status \in BrokerStatus
    BY PartialStatusAssumption DEF BrokerStatus
  <2> QED BY <1>0, <2>1, <2>2, UpdateOK
<1> QED BY <1>1, <1>2, <1>3 DEF BrokerStep

(* Receiving an update changes nothing at the broker. *)
LEMMA ReceiveOK ==
    ASSUME BrokerOK, NEW b, Receive(b)
    PROVE  BrokerOK' /\ b \in DOMAIN brk
BY DEF BrokerOK, Receive

(* An order that is filled says so, even if it was being cancelled. *)
FilledSaysSo == \A b \in DOMAIN brk : brk[b].filled = brk[b].total => brk[b].status = "Filled"

(* A new order leaves the records of the others alone. *)
LEMMA PlaceAppends ==
    ASSUME BrokerOK, NEW c \in Coid, NEW q \in Quantity, PlaceOrder(c, q)
    PROVE  /\ DOMAIN brk' = DOMAIN brk \cup {Len(brk) + 1} /\ Len(brk) + 1 \notin DOMAIN brk
           /\ \A d \in DOMAIN brk : brk'[d] = brk[d]
           /\ brk'[Len(brk) + 1].coid = c
           /\ FilledSaysSo => FilledSaysSo'
<1> DEFINE o == [coid |-> c, total |-> q, status |-> "PendingSubmit", filled |-> 0, cancel |-> FALSE]
<1>1. brk' = Append(brk, o) /\ brk \in Seq(BrokerOrder)
  BY DEF PlaceOrder, BrokerOK
<1>2. o.filled # o.total /\ o.coid = c
  BY QuantityAssumption
<1> HIDE DEF o
<1>3. /\ DOMAIN brk' = DOMAIN brk \cup {Len(brk) + 1} /\ Len(brk) + 1 \notin DOMAIN brk
      /\ \A d \in DOMAIN brk : brk'[d] = brk[d]
      /\ brk'[Len(brk) + 1] = o
  BY <1>1
<1> QED BY <1>2, <1>3 DEF FilledSaysSo

(* A cancel only marks a record. *)
LEMMA CancelMarks ==
    ASSUME BrokerOK, NEW b, CancelOrder(b)
    PROVE  /\ DOMAIN brk' = DOMAIN brk
           /\ \A d \in DOMAIN brk : /\ brk'[d].coid = brk[d].coid /\ brk'[d].total = brk[d].total
                                    /\ brk'[d].status = brk[d].status /\ brk'[d].filled = brk[d].filled
           /\ FilledSaysSo => FilledSaysSo'
<1>1. brk' = [brk EXCEPT ![b] = [brk[b] EXCEPT !.cancel = TRUE]]
  BY DEF CancelOrder
<1>2. DOMAIN brk' = DOMAIN brk
  BY <1>1
<1>3. ASSUME NEW d \in DOMAIN brk
      PROVE  /\ brk'[d].coid = brk[d].coid /\ brk'[d].total = brk[d].total
             /\ brk'[d].status = brk[d].status /\ brk'[d].filled = brk[d].filled
  <2>1. brk[d] \in BrokerOrder
    BY DEF BrokerOK
  <2>2. brk'[d] = brk[d] \/ brk'[d] = [brk[d] EXCEPT !.cancel = TRUE]
    BY <1>1
  <2> QED BY <2>1, <2>2 DEF BrokerOrder
<1> QED BY <1>2, <1>3 DEF FilledSaysSo

(* An update touches the record it names, in its status and fills. *)
LEMMA UpdateTouches ==
    ASSUME BrokerOK, NEW b \in DOMAIN brk, NEW status, NEW filled, Update(b, status, filled)
    PROVE  /\ DOMAIN brk' = DOMAIN brk /\ \A d \in DOMAIN brk : d # b => brk'[d] = brk[d]
           /\ brk'[b].coid = brk[b].coid /\ brk'[b].total = brk[b].total
           /\ brk'[b].status = status /\ brk'[b].filled = filled
<1>1. brk' = [brk EXCEPT ![b] = [brk[b] EXCEPT !.status = status, !.filled = filled]]
  BY DEF Update
<1>2. brk[b] \in BrokerOrder
  BY DEF BrokerOK
<1>3. brk'[b] = [brk[b] EXCEPT !.status = status, !.filled = filled]
  BY <1>1
<1>4. /\ brk'[b].coid = brk[b].coid /\ brk'[b].total = brk[b].total
      /\ brk'[b].status = status /\ brk'[b].filled = filled
  BY <1>2, <1>3 DEF BrokerOrder
<1> QED BY <1>1, <1>4

(* The broker leaves what it is finished with alone, and the last fill of   *)
(* an order is reported as Filled.                                          *)
LEMMA FinishedStays ==
    ASSUME BrokerOK, FilledSaysSo, NEW b \in DOMAIN brk, BrokerStep(b)
    PROVE  /\ DOMAIN brk' = DOMAIN brk /\ FilledSaysSo'
           /\ \A d \in DOMAIN brk : brk'[d].coid = brk[d].coid /\ (Finished(d) => brk'[d] = brk[d])
<1>1. ~ Finished(b)
  BY DEF BrokerStep
<1>2. ASSUME NEW status, NEW filled, Update(b, status, filled), filled = brk[b].total => status = "Filled"
      PROVE  /\ DOMAIN brk' = DOMAIN brk /\ FilledSaysSo'
             /\ \A d \in DOMAIN brk : brk'[d].coid = brk[d].coid /\ (Finished(d) => brk'[d] = brk[d])
  BY <1>1, <1>2, UpdateTouches DEF FilledSaysSo
<1>3. brk[b].filled # brk[b].total
  BY <1>1 DEF Finished
<1>4. ASSUME NEW status \in BrokerStatus, Accept(b, status) \/ Kill(b, status)
      PROVE  Update(b, status, brk[b].filled)
  BY <1>4 DEF Accept, Kill
<1>5. ASSUME NEW filled, Execute(b, filled)
      PROVE  \E status : Update(b, status, filled) /\ (filled = brk[b].total => status = "Filled")
  BY <1>5 DEF Execute
<1> QED BY <1>2, <1>3, <1>4, <1>5 DEF BrokerStep
-----------------------------------------------------------------------------
(* The book.                                                                *)

(* The book's two halves have the same orders, all of known ids. *)
BookOK == DOMAIN managed \subseteq Coid /\ DOMAIN log = DOMAIN managed

RouterOK == BrokerOK /\ BookOK

(* What the status table proposes is a state of an order, or Hold. *)
LEMMA MapIbkrStatusState ==
    ASSUME NEW status, NEW filled \in Nat, NEW total \in Nat
    PROVE  MapIbkrStatus(status, filled, total) \in LC!OrderState \cup {Hold}
<1>1. CASE status = "PendingCancel"
  BY <1>1 DEF MapIbkrStatus, DirectMap
<1>2. CASE status # "PendingCancel" /\ status \in DOMAIN DirectMap
  <2>1. MapIbkrStatus(status, filled, total) = DirectMap[status]
    BY <1>2 DEF MapIbkrStatus, DirectMap
  <2>2. DirectMap[status] \in LC!OrderState
    BY <1>2 DEF DirectMap, LC!OrderState
  <2> QED BY <2>1, <2>2
<1>3. CASE status = "Filled"
  <2>1. status # "PendingCancel" /\ status \notin DOMAIN DirectMap
    BY <1>3 DEF DirectMap
  <2>2. MapIbkrStatus(status, filled, total) \in {"UNKNOWN", "FILLED", "PARTIAL"}
    BY <1>3, <2>1 DEF MapIbkrStatus
  <2> QED BY <2>2 DEF LC!OrderState
<1>4. CASE status \notin {"PendingCancel", "Filled"} \cup DOMAIN DirectMap
  <2>1. MapIbkrStatus(status, filled, total) = "UNKNOWN"
    BY <1>4 DEF MapIbkrStatus
  <2> QED BY <2>1 DEF LC!OrderState
<1> QED BY <1>1, <1>2, <1>3, <1>4

(* A fill count of the broker is one that the state machine knows. *)
LEMMA EventFillKnown ==
    ASSUME BrokerOK, NEW b \in DOMAIN brk
    PROVE  /\ brk[b].coid \in Coid
           /\ brk[b].filled \in Nat /\ brk[b].total \in Nat
           /\ brk[b].filled \in UNION {0..q : q \in Quantity}
<1>1. brk[b] \in BrokerOrder /\ brk[b].filled <= brk[b].total
  BY DEF BrokerOK
<1>2. brk[b].coid \in Coid /\ brk[b].filled \in Nat /\ brk[b].total \in Quantity
  BY <1>1 DEF BrokerOrder
<1>3. brk[b].filled \in 0..brk[b].total
  BY <1>1, <1>2, QuantityAssumption
<1> QED BY <1>2, <1>3, QuantityAssumption

(* Storing a transition the machine accepts is a transition of the machine. *)
LEMMA StoreIsTransition ==
    ASSUME BookOK, NEW c \in DOMAIN managed, NEW to \in LC!OrderState,
           NEW f \in (UNION {0..q : q \in Quantity}) \cup {NoFill},
           LC!CanApply(managed[c], to, f), Store(c, to, f)
    PROVE  LC!Next /\ BookOK'
<1>1. LC!Transition(c, to, f)
  BY DEF Store, LC!Transition, LC!Unbounded
<1>2. c \in Coid
  BY DEF BookOK
<1>3. BookOK'
  BY DEF Store, BookOK
<1> QED BY <1>1, <1>2, <1>3 DEF LC!Next

(* Sending an order keeps the book and the broker's records in shape. *)
LEMMA SendKeeps ==
    ASSUME RouterOK, NEW c \in Coid, NEW q \in Quantity, Send(c, q)
    PROVE  RouterOK'
<1>1. BookOK'
  BY DEF RouterOK, BookOK, Send, With
<1>2. BrokerOK'
  BY PlaceOrderOK DEF RouterOK, Send
<1> QED BY <1>1, <1>2 DEF RouterOK

(* What both routers do alike is a step of the machine. *)
LEMMA PlaceIsStep ==
    ASSUME RouterOK, NEW c \in Coid, NEW q \in Quantity, Place(c, q)
    PROVE  LC!Next /\ RouterOK'
<1>1. LC!Submit({}, c, q)
  BY DEF RouterOK, BookOK, Place, Send, Tracked, With, LC!Submit
<1>2. LC!Next
  BY <1>1 DEF LC!Next
<1> QED BY <1>2, SendKeeps DEF Place

LEMMA ForgetIsStep ==
    ASSUME RouterOK, Forget
    PROVE  LC!Next /\ RouterOK'
<1>1. LC!Discard(Coid)
  BY DEF RouterOK, BookOK, Forget, LC!Discard
<1>2. RouterOK'
  BY DEF RouterOK, BookOK, BrokerOK, Forget
<1> QED BY <1>1, <1>2 DEF LC!Next

(* The machine does not see requests, the broker's own steps, or stutters. *)
LEMMA UnseenIsStep ==
    ASSUME RouterOK, \/ \E c \in Coid : RequestCancel(c)
                     \/ \E b \in DOMAIN brk : BrokerStep(b) /\ UNCHANGED book
                     \/ UNCHANGED vars
    PROVE  UNCHANGED LC!vars /\ RouterOK'
<1>1. UNCHANGED book
  BY DEF RequestCancel, vars
<1>2. UNCHANGED LC!vars /\ BookOK'
  BY <1>1 DEF book, LC!vars, RouterOK, BookOK
<1>3. ASSUME NEW c \in Coid, RequestCancel(c) PROVE BrokerOK'
  BY <1>3, CancelOrderOK DEF RequestCancel, RouterOK
<1>4. ASSUME NEW b \in DOMAIN brk, BrokerStep(b) PROVE BrokerOK'
  BY <1>4, BrokerStepOK DEF RouterOK
<1>5. ASSUME UNCHANGED vars PROVE BrokerOK'
  BY <1>5 DEF vars, RouterOK, BrokerOK
<1>6. BrokerOK'
  BY <1>3, <1>4, <1>5
<1> QED BY <1>2, <1>6 DEF RouterOK

LEMMA InitIsInit == Init => LC!Init /\ RouterOK
<1> SUFFICES ASSUME Init PROVE LC!Init /\ RouterOK
  OBVIOUS
<1>1. LC!Init
  BY DEF Init, LC!Init
<1>2. BookOK
  BY DEF Init, BookOK
<1> QED BY <1>1, <1>2, BrokerInitOK DEF Init, RouterOK

-----------------------------------------------------------------------------
(* The futures router.                                                      *)

(* Whatever state is proposed, the handler takes one step of the machine,   *)
(* the escalation included, or none.                                        *)
LEMMA ApplyOrEscalateIsStep ==
    ASSUME BookOK, NEW c \in DOMAIN managed, NEW to \in LC!OrderState,
           NEW f \in UNION {0..q : q \in Quantity}, ApplyOrEscalate(c, to, f)
    PROVE  [LC!Next]_(LC!vars) /\ BookOK'
<1>1. CASE LC!CanApply(managed[c], to, f)
  BY <1>1, StoreIsTransition DEF ApplyOrEscalate
<1>2. CASE /\ ~ LC!CanApply(managed[c], to, f)
           /\ LC!CanApply(managed[c], "UNKNOWN", NoFill)
  <2>1. "UNKNOWN" \in LC!OrderState
    BY DEF LC!OrderState
  <2> QED BY <1>2, <2>1, StoreIsTransition DEF ApplyOrEscalate
<1>3. CASE /\ ~ LC!CanApply(managed[c], to, f)
           /\ ~ LC!CanApply(managed[c], "UNKNOWN", NoFill)
  BY <1>3 DEF ApplyOrEscalate, LC!vars, BookOK
<1> QED BY <1>1, <1>2, <1>3

LEMMA StatusEventIsStep ==
    ASSUME RouterOK, NEW b \in DOMAIN brk, StatusEvent(b)
    PROVE  [LC!Next]_(LC!vars) /\ RouterOK'
<1> DEFINE c == brk[b].coid
           to == MapIbkrStatus(brk[b].status, brk[b].filled, brk[b].total)
<1>1. BrokerOK'
  BY ReceiveOK DEF RouterOK, StatusEvent
<1>2. CASE UNCHANGED <<managed, log>>
  BY <1>1, <1>2 DEF RouterOK, BookOK, LC!vars
<1>3. CASE ~ UNCHANGED <<managed, log>>
  <2>1. HandleStatusEvent(c, brk[b].status, brk[b].filled, brk[b].total)
    BY <1>3 DEF StatusEvent
  <2>2. c \in DOMAIN managed /\ to # Hold /\ ApplyOrEscalate(c, to, brk[b].filled)
    BY <1>3, <2>1 DEF HandleStatusEvent, Tracked, EventFill
  <2>3. to \in LC!OrderState
    BY <2>2, MapIbkrStatusState, EventFillKnown DEF RouterOK
  <2>4. brk[b].filled \in UNION {0..q : q \in Quantity}
    BY EventFillKnown DEF RouterOK
  <2>5. BookOK
    BY DEF RouterOK
  <2> HIDE DEF c, to
  <2> QED BY <1>1, <2>2, <2>3, <2>4, <2>5, ApplyOrEscalateIsStep DEF RouterOK
<1> QED BY <1>2, <1>3

(* Every step of the router is a step of the machine or none, and keeps     *)
(* the invariant.                                                           *)
LEMMA StepIsStep == RouterOK /\ [Next]_vars => [LC!Next]_(LC!vars) /\ RouterOK'
<1> SUFFICES ASSUME RouterOK, [Next]_vars PROVE [LC!Next]_(LC!vars) /\ RouterOK'
  OBVIOUS
<1>1. ASSUME NEW c \in Coid, NEW q \in Quantity, Place(c, q)
      PROVE  [LC!Next]_(LC!vars) /\ RouterOK'
  BY <1>1, PlaceIsStep
<1>2. ASSUME NEW b \in DOMAIN brk, StatusEvent(b)
      PROVE  [LC!Next]_(LC!vars) /\ RouterOK'
  BY <1>2, StatusEventIsStep
<1>3. CASE Disconnect
  BY <1>3, ForgetIsStep DEF Disconnect
<1>4. CASE \/ \E c \in Coid : RequestCancel(c)
           \/ \E b \in DOMAIN brk : BrokerStep(b) /\ UNCHANGED book
           \/ UNCHANGED vars
  BY <1>4, UnseenIsStep
<1> QED BY <1>1, <1>2, <1>3, <1>4 DEF Next, Cancel

(* The router's book is always one that the broker's records explain. *)
THEOREM RouterInvariance == Spec => []RouterOK
<1>1. RouterOK /\ [Next]_vars => RouterOK'
  BY StepIsStep
<1> QED BY <1>1, InitIsInit, PTL DEF Spec

(* The router implements the order state machine: no events, in whatever    *)
(* order, move an order along an edge that lifecycle.py does not have.      *)
THEOREM RouterImplementsLifecycle == Spec => ImplementsLifecycle
<1>1. RouterOK /\ [Next]_vars => [LC!Next]_(LC!vars)
  BY StepIsStep
<1> QED BY <1>1, InitIsInit, RouterInvariance, PTL DEF Spec, ImplementsLifecycle, LC!Spec

-----------------------------------------------------------------------------
(* The combo router.                                                        *)

(* The handler stores a transition of the machine or nothing. *)
LEMMA ComboStores ==
    ASSUME NEW b \in DOMAIN brk, ComboEvent(b), ~ UNCHANGED <<managed, log>>
    PROVE  LET c == brk[b].coid
               to == MapIbkrStatus(brk[b].status, brk[b].filled, brk[b].total)
           IN  /\ c \in DOMAIN managed /\ to # Hold
               /\ LC!CanApply(managed[c], to, NoFill) /\ Store(c, to, NoFill)
BY DEF ComboEvent, HandleComboEvent, Tracked

LEMMA ComboEventKeeps ==
    ASSUME RouterOK, NEW b \in DOMAIN brk, ComboEvent(b)
    PROVE  RouterOK'
<1>1. BrokerOK'
  BY ReceiveOK DEF RouterOK, ComboEvent
<1>2. CASE UNCHANGED <<managed, log>>
  BY <1>1, <1>2 DEF RouterOK, BookOK
<1>3. CASE ~ UNCHANGED <<managed, log>>
  <2>1. BookOK'
    BY <1>3, ComboStores DEF Store, RouterOK, BookOK
  <2> QED BY <1>1, <2>1 DEF RouterOK
<1> QED BY <1>2, <1>3

(* Calls in place_combo ask for known ids and quantities. *)
CallsOK == \A k \in DOMAIN calls : calls[k].coid \in Coid /\ calls[k].quantity \in Quantity

CombosOK == RouterOK /\ CallsOK

(* A step of the combo router sends what a call has asked for, is that of a *)
(* handler, a disconnect, or none the book sees.                            *)
LEMMA ComboSteps ==
    ASSUME CombosOK, [ComboNext]_comboVars
    PROVE  /\ CallsOK'
           /\ \/ \E c \in Coid, q \in Quantity : Send(c, q)
              \/ \E b \in DOMAIN brk : ComboEvent(b)
              \/ Forget
              \/ \E c \in Coid : RequestCancel(c)
              \/ \E b \in DOMAIN brk : BrokerStep(b) /\ UNCHANGED book
              \/ UNCHANGED vars
<1>1. ASSUME NEW k \in Caller, NEW c \in Coid, NEW q \in Quantity, PlaceCombo(k, c, q)
      PROVE  CallsOK' /\ UNCHANGED vars
  BY <1>1 DEF PlaceCombo, With, CombosOK, CallsOK
<1>2. ASSUME NEW k \in Caller, SendCombo(k)
      PROVE  CallsOK' /\ \E c \in Coid, q \in Quantity : Send(c, q)
  BY <1>2 DEF SendCombo, Returns, CombosOK, CallsOK
<1>3. ASSUME NEW k \in Caller, PlaceComboRaises(k)
      PROVE  CallsOK' /\ UNCHANGED vars
  BY <1>3 DEF PlaceComboRaises, Returns, CombosOK, CallsOK
<1>4. CASE Working /\ UNCHANGED calls
  BY <1>4 DEF Working, CancelCombo, DisconnectCombos, CombosOK, CallsOK
<1>5. CASE UNCHANGED comboVars
  BY <1>5 DEF comboVars, CombosOK, CallsOK
<1> QED BY <1>1, <1>2, <1>3, <1>4, <1>5 DEF ComboNext, Placing

LEMMA CombosOKStep == CombosOK /\ [ComboNext]_comboVars => CombosOK'
<1> SUFFICES ASSUME CombosOK, [ComboNext]_comboVars PROVE CombosOK'
  OBVIOUS
<1>1. CASE \/ \E c \in Coid : RequestCancel(c)
           \/ \E b \in DOMAIN brk : BrokerStep(b) /\ UNCHANGED book
           \/ UNCHANGED vars
  BY <1>1, UnseenIsStep, ComboSteps DEF CombosOK
<1>2. CASE Forget
  BY <1>2, ForgetIsStep, ComboSteps DEF CombosOK
<1>3. ASSUME NEW c \in Coid, NEW q \in Quantity, Send(c, q) PROVE CombosOK'
  BY <1>3, SendKeeps, ComboSteps DEF CombosOK
<1>4. ASSUME NEW b \in DOMAIN brk, ComboEvent(b) PROVE CombosOK'
  BY <1>4, ComboEventKeeps, ComboSteps DEF CombosOK
<1> QED BY <1>1, <1>2, <1>3, <1>4, ComboSteps

LEMMA ComboInitOK == ComboInit => CombosOK
BY InitIsInit DEF ComboInit, CombosOK, CallsOK

-----------------------------------------------------------------------------
(* The book against the broker.                                             *)

(* What the book knows the broker by. *)
Follows ==
    /\ DOMAIN trades = DOMAIN managed
    /\ \A c \in DOMAIN trades : trades[c] \in DOMAIN brk /\ brk[trades[c]].coid = c
    /\ \A c \in DOMAIN managed : DOMAIN managed[c] = {"state", "quantity", "filled"}
    /\ FilledSaysSo

(* The entry of c and the broker's order b say the same: what a router that *)
(* counts fills knows, and the little that one that counts none does.       *)
Agrees(c, b) ==
    managed[c].state \in LC!Terminal =>
        /\ Finished(b)
        /\ managed[c].filled = brk[b].filled
        /\ (managed[c].state = "FILLED") <=> (brk[b].filled = brk[b].total)
        /\ (managed[c].state = "REJECTED") => (brk[b].status = "Inactive")

IsOver(c, b) == managed[c].state \in LC!Terminal => Finished(b)

BookAgrees == Follows /\ TerminalAgrees
CombosAgree == Follows /\ OverIsOver

(* A step that leaves the entry of c, its Trade and what the broker has     *)
(* finished of it as they are.                                              *)
LeftAlone(c) ==
    LET b == trades[c]
    IN  /\ managed'[c] = managed[c] /\ trades'[c] = b /\ b \in DOMAIN brk'
        /\ brk'[b].coid = brk[b].coid
        /\ Finished(b) => /\ brk'[b].status = brk[b].status /\ brk'[b].filled = brk[b].filled
                          /\ brk'[b].total = brk[b].total

(* Such a step keeps both kinds of agreement. *)
LEMMA LeftAloneAgrees ==
    ASSUME NEW c, LeftAlone(c)
    PROVE  /\ Agrees(c, trades[c]) => (Agrees(c, trades[c]))'
           /\ IsOver(c, trades[c]) => (IsOver(c, trades[c]))'
BY DEF LeftAlone, Agrees, IsOver, Finished

(* A new order is not over, and the others are as they were. *)
LEMMA SendFollows ==
    ASSUME RouterOK, Follows, NEW c \in Coid, NEW q \in Quantity, Send(c, q)
    PROVE  /\ Follows'
           /\ managed'[c].state = "SUBMITTED"
           /\ \A d \in DOMAIN managed' : d # c => d \in DOMAIN managed /\ LeftAlone(d) /\ (Alone(d)' => Alone(d))
<1> DEFINE b == Len(brk) + 1
           o == LC!ApplyTransition(LC!NewManagedOrder(q), "SUBMITTED", NoFill)
<1>1. /\ DOMAIN brk' = DOMAIN brk \cup {b} /\ b \notin DOMAIN brk
      /\ \A d \in DOMAIN brk : brk'[d] = brk[d]
      /\ brk'[b].coid = c
      /\ FilledSaysSo'
  BY PlaceAppends DEF RouterOK, Send, Follows
<1>2. /\ DOMAIN managed' = DOMAIN managed \cup {c} /\ managed'[c] = o
      /\ DOMAIN trades' = DOMAIN trades \cup {c} /\ trades'[c] = b
      /\ \A d \in DOMAIN managed \ {c} : managed'[d] = managed[d]
      /\ \A d \in DOMAIN trades \ {c} : trades'[d] = trades[d]
  BY DEF Send, With, Follows
<1>3. DOMAIN o = {"state", "quantity", "filled"} /\ o.state = "SUBMITTED"
  BY DEF LC!ApplyTransition, LC!NewManagedOrder
<1> HIDE DEF o, b
<1>4. ASSUME NEW d \in DOMAIN managed', d # c
      PROVE  d \in DOMAIN managed /\ LeftAlone(d) /\ (Alone(d)' => Alone(d))
  <2>1. d \in DOMAIN managed /\ d \in DOMAIN trades /\ trades[d] \in DOMAIN brk
    BY <1>2, <1>4 DEF Follows
  <2>2. managed'[d] = managed[d] /\ trades'[d] = trades[d] /\ brk'[trades[d]] = brk[trades[d]]
    BY <1>1, <1>2, <1>4, <2>1
  <2>3. LeftAlone(d)
    BY <1>1, <2>1, <2>2 DEF LeftAlone, Finished
  <2>4. Alone(d)' => Alone(d)
    BY <1>1, <2>2 DEF Alone
  <2> QED BY <2>1, <2>3, <2>4
<1>5. Follows'
  BY <1>1, <1>2, <1>3 DEF Follows
<1> QED BY <1>2, <1>3, <1>4, <1>5

(* Nothing is left to agree on. *)
LEMMA ForgetFollows ==
    ASSUME Follows, Forget
    PROVE  Follows' /\ DOMAIN managed' = {}
<1>1. managed' = [c \in {} |-> LC!NewManagedOrder(0)] /\ trades' = [c \in {} |-> 0] /\ brk' = brk
  BY DEF Forget
<1>2. DOMAIN managed' = {} /\ DOMAIN trades' = {}
  BY <1>1
<1> QED BY <1>1, <1>2 DEF Follows, FilledSaysSo

(* Neither requests nor the broker touch what the broker has finished. *)
LEMMA UnseenKeepsNumbers ==
    ASSUME RouterOK, Follows,
           \/ \E c \in Coid : RequestCancel(c)
           \/ \E b \in DOMAIN brk : BrokerStep(b) /\ UNCHANGED book
           \/ UNCHANGED vars
    PROVE  /\ DOMAIN brk' = DOMAIN brk /\ FilledSaysSo'
           /\ \A d \in DOMAIN brk :
                 /\ brk'[d].coid = brk[d].coid
                 /\ Finished(d) => /\ brk'[d].status = brk[d].status /\ brk'[d].filled = brk[d].filled
                                   /\ brk'[d].total = brk[d].total
<1> DEFINE kept == /\ DOMAIN brk' = DOMAIN brk /\ FilledSaysSo'
                   /\ \A d \in DOMAIN brk :
                         /\ brk'[d].coid = brk[d].coid
                         /\ Finished(d) => /\ brk'[d].status = brk[d].status /\ brk'[d].filled = brk[d].filled
                                           /\ brk'[d].total = brk[d].total
<1>1. ASSUME NEW c \in Coid, RequestCancel(c) PROVE kept
  BY <1>1, CancelMarks DEF RequestCancel, RouterOK, Follows
<1>2. ASSUME NEW b \in DOMAIN brk, BrokerStep(b) PROVE kept
  BY <1>2, FinishedStays DEF RouterOK, Follows
<1>3. CASE UNCHANGED vars
  BY <1>3 DEF vars, Follows, FilledSaysSo
<1> QED BY <1>1, <1>2, <1>3

LEMMA UnseenFollows ==
    ASSUME RouterOK, Follows,
           \/ \E c \in Coid : RequestCancel(c)
           \/ \E b \in DOMAIN brk : BrokerStep(b) /\ UNCHANGED book
           \/ UNCHANGED vars
    PROVE  /\ Follows' /\ DOMAIN managed' = DOMAIN managed
           /\ \A c \in DOMAIN managed : LeftAlone(c) /\ (Alone(c)' => Alone(c))
<1>1. UNCHANGED <<managed, trades>>
  BY DEF RequestCancel, vars, book
<1>2. /\ DOMAIN brk' = DOMAIN brk /\ FilledSaysSo'
      /\ \A d \in DOMAIN brk :
            /\ brk'[d].coid = brk[d].coid
            /\ Finished(d) => /\ brk'[d].status = brk[d].status /\ brk'[d].filled = brk[d].filled
                              /\ brk'[d].total = brk[d].total
  BY UnseenKeepsNumbers
<1>3. ASSUME NEW c \in DOMAIN managed PROVE LeftAlone(c) /\ (Alone(c)' => Alone(c))
  <2>1. trades[c] \in DOMAIN brk
    BY DEF Follows
  <2> QED BY <1>1, <1>2, <2>1 DEF LeftAlone, Alone
<1> QED BY <1>1, <1>2, <1>3 DEF Follows

(* What the status table calls over is over at the broker, and in that way. *)
LEMMA MapsToTheOutcome ==
    ASSUME BrokerOK, FilledSaysSo, NEW b \in DOMAIN brk, NEW to,
           to = MapIbkrStatus(brk[b].status, brk[b].filled, brk[b].total), to \in LC!Terminal
    PROVE  /\ Finished(b)
           /\ (to = "FILLED") <=> (brk[b].filled = brk[b].total)
           /\ (to = "REJECTED") => (brk[b].status = "Inactive")
<1> DEFINE status == brk[b].status
<1>1. /\ brk[b].filled \in Nat /\ brk[b].total \in Nat /\ brk[b].filled <= brk[b].total
      /\ brk[b].filled = brk[b].total => status = "Filled"
  BY EventFillKnown DEF BrokerOK, FilledSaysSo
<1>2. CASE status = "Filled"
  <2>1. to = "FILLED" /\ brk[b].filled >= brk[b].total
    BY <1>2 DEF MapIbkrStatus, DirectMap, LC!Terminal
  <2> QED BY <1>1, <2>1 DEF Finished
<1>3. CASE status # "Filled"
  <2>1. /\ status \in {"Cancelled", "ApiCancelled", "Inactive"}
        /\ to = IF status = "Inactive" THEN "REJECTED" ELSE "CANCELLED"
    BY <1>3 DEF MapIbkrStatus, DirectMap, LC!Terminal, Hold
  <2> QED BY <1>1, <1>3, <2>1 DEF Finished
<1> QED BY <1>2, <1>3

(* What a stored transition leaves of the book. *)
LEMMA StoreFollows ==
    ASSUME Follows, NEW c \in DOMAIN managed, NEW to, NEW f, Store(c, to, f), UNCHANGED <<brk, trades>>
    PROVE  /\ Follows' /\ DOMAIN managed' = DOMAIN managed
           /\ managed'[c].state = to /\ managed'[c].filled = LC!NewFilled(managed[c], f)
           /\ \A d \in DOMAIN managed : d # c => LeftAlone(d)
           /\ \A d : Alone(d)' => Alone(d)
<1>1. managed' = [managed EXCEPT ![c] = LC!ApplyTransition(managed[c], to, f)]
  BY DEF Store
<1>2. /\ DOMAIN managed' = DOMAIN managed
      /\ managed'[c] = LC!ApplyTransition(managed[c], to, f)
      /\ \A d \in DOMAIN managed : d # c => managed'[d] = managed[d]
  BY <1>1
<1>3. /\ managed'[c].state = to /\ managed'[c].filled = LC!NewFilled(managed[c], f)
      /\ DOMAIN managed'[c] = {"state", "quantity", "filled"}
  BY <1>2 DEF Follows, LC!ApplyTransition
<1>4. Follows'
  BY <1>2, <1>3 DEF Follows, FilledSaysSo
<1>5. \A d \in DOMAIN managed : d # c => LeftAlone(d)
  BY <1>2 DEF LeftAlone, Follows
<1> QED BY <1>2, <1>3, <1>4, <1>5 DEF Alone

(* The futures router ends an order only with the outcome of its event. *)
LEMMA StatusEventAgrees ==
    ASSUME RouterOK, BookAgrees, NEW b \in DOMAIN brk, StatusEvent(b)
    PROVE  BookAgrees'
<1> DEFINE c == brk[b].coid
           to == MapIbkrStatus(brk[b].status, brk[b].filled, brk[b].total)
<1>1. UNCHANGED <<brk, trades>> /\ Follows
  BY DEF StatusEvent, Receive, BookAgrees
<1>2. CASE UNCHANGED <<managed, log>>
  BY <1>1, <1>2 DEF BookAgrees, Follows, FilledSaysSo, TerminalAgrees, Tracked, Alone, Finished
<1>3. CASE c \in DOMAIN managed /\ \E s, f : Store(c, s, f)
            /\ (<<s, f>> = <<to, brk[b].filled>> \/ s = "UNKNOWN")
  <2>1. PICK s, f : Store(c, s, f) /\ (<<s, f>> = <<to, brk[b].filled>> \/ s = "UNKNOWN")
    BY <1>3
  <2>2. /\ Follows' /\ DOMAIN managed' = DOMAIN managed
        /\ managed'[c].state = s /\ managed'[c].filled = LC!NewFilled(managed[c], f)
        /\ \A d \in DOMAIN managed : d # c => LeftAlone(d)
        /\ \A d : Alone(d)' => Alone(d)
    BY <1>1, <1>3, <2>1, StoreFollows
  <2>3. (Agrees(c, b))'
    <3>1. CASE s = "UNKNOWN"
      BY <1>1, <2>2, <3>1 DEF Agrees, LC!Terminal
    <3>2. CASE s = to /\ f = brk[b].filled
      <4>1. managed'[c].state = to /\ managed'[c].filled = brk[b].filled
        BY <2>2, <3>2, EventFillKnown, NoFillAssumption DEF LC!NewFilled, RouterOK
      <4>2. to \in LC!Terminal =>
               /\ Finished(b)
               /\ (to = "FILLED") <=> (brk[b].filled = brk[b].total)
               /\ (to = "REJECTED") => (brk[b].status = "Inactive")
        BY MapsToTheOutcome DEF RouterOK, BookAgrees, Follows
      <4> HIDE DEF to
      <4> QED BY <1>1, <4>1, <4>2 DEF Agrees, Finished, c
    <3> QED BY <2>1, <3>1, <3>2
  <2>4. ASSUME NEW d \in DOMAIN managed, Alone(d), Agrees(d, trades[d])
        PROVE  (Agrees(d, trades[d]))'
    <3>1. CASE d = c
      <4>1. b = trades[c]
        BY <2>4, <3>1 DEF Alone
      <4> QED BY <1>1, <2>3, <3>1, <4>1
    <3>2. CASE d # c
      BY <2>2, <2>4, <3>2, LeftAloneAgrees
    <3> QED BY <3>1, <3>2
  <2> HIDE DEF c
  <2> QED BY <2>2, <2>4 DEF BookAgrees, TerminalAgrees, Tracked, Agrees
<1> QED BY <1>2, <1>3 DEF StatusEvent, HandleStatusEvent, Tracked, ApplyOrEscalate, EventFill

(* What the router calls over has ended at the broker, in the same way and  *)
(* with every fill counted, whatever updates came late, were overtaken or   *)
(* never came.                                                              *)
THEOREM OverAtTheBroker == Spec => []TerminalAgrees
<1>1. ASSUME Init PROVE BookAgrees
  BY <1>1 DEF Init, BrokerInit, BookAgrees, Follows, FilledSaysSo, TerminalAgrees, Tracked
<1>2. ASSUME RouterOK, BookAgrees, [Next]_vars PROVE BookAgrees'
  <2>1. ASSUME NEW c \in Coid, NEW q \in Quantity, Place(c, q) PROVE BookAgrees'
    <3>1. /\ Follows' /\ managed'[c].state = "SUBMITTED"
          /\ \A d \in DOMAIN managed' : d # c => d \in DOMAIN managed /\ LeftAlone(d) /\ (Alone(d)' => Alone(d))
      BY <1>2, <2>1, SendFollows DEF BookAgrees, Place
    <3> QED BY <1>2, <3>1, LeftAloneAgrees DEF BookAgrees, TerminalAgrees, Tracked, Agrees, LC!Terminal
  <2>2. ASSUME NEW b \in DOMAIN brk, StatusEvent(b) PROVE BookAgrees'
    BY <1>2, <2>2, StatusEventAgrees
  <2>3. CASE Disconnect
    BY <1>2, <2>3, ForgetFollows DEF Disconnect, BookAgrees, TerminalAgrees, Tracked
  <2>4. CASE \/ \E c \in Coid : RequestCancel(c)
             \/ \E b \in DOMAIN brk : BrokerStep(b) /\ UNCHANGED book
             \/ UNCHANGED vars
    <3>1. /\ Follows' /\ DOMAIN managed' = DOMAIN managed
          /\ \A c \in DOMAIN managed : LeftAlone(c) /\ (Alone(c)' => Alone(c))
      BY <1>2, <2>4, UnseenFollows DEF BookAgrees
    <3> QED BY <1>2, <3>1, LeftAloneAgrees DEF BookAgrees, TerminalAgrees, Tracked, Agrees
  <2> QED BY <1>2, <2>1, <2>2, <2>3, <2>4 DEF Next, Cancel
<1>3. BookAgrees => TerminalAgrees
  BY DEF BookAgrees
<1> QED BY <1>1, <1>2, <1>3, RouterInvariance, PTL DEF Spec

(* The combo router calls over only what has ended. *)
LEMMA ComboEventAgrees ==
    ASSUME RouterOK, CombosAgree, NEW b \in DOMAIN brk, ComboEvent(b)
    PROVE  CombosAgree'
<1> DEFINE c == brk[b].coid
           to == MapIbkrStatus(brk[b].status, brk[b].filled, brk[b].total)
<1>1. UNCHANGED <<brk, trades>> /\ Follows
  BY DEF ComboEvent, Receive, CombosAgree
<1>2. CASE UNCHANGED <<managed, log>>
  BY <1>1, <1>2 DEF CombosAgree, Follows, FilledSaysSo, OverIsOver, Tracked, Alone, Finished
<1>3. CASE c \in DOMAIN managed /\ Store(c, to, NoFill)
  <2>1. /\ Follows' /\ DOMAIN managed' = DOMAIN managed
        /\ managed'[c].state = to
        /\ \A d \in DOMAIN managed : d # c => LeftAlone(d)
        /\ \A d : Alone(d)' => Alone(d)
    BY <1>1, <1>3, StoreFollows
  <2>2. to \in LC!Terminal => Finished(b)
    BY MapsToTheOutcome DEF RouterOK, CombosAgree, Follows
  <2>3. (IsOver(c, b))'
    <3> HIDE DEF to
    <3> QED BY <1>1, <2>1, <2>2 DEF IsOver, Finished, c
  <2>4. ASSUME NEW d \in DOMAIN managed, Alone(d), IsOver(d, trades[d])
        PROVE  (IsOver(d, trades[d]))'
    <3>1. CASE d = c
      <4>1. b = trades[c]
        BY <2>4, <3>1 DEF Alone
      <4> QED BY <1>1, <2>3, <3>1, <4>1
    <3>2. CASE d # c
      BY <2>1, <2>4, <3>2, LeftAloneAgrees
    <3> QED BY <3>1, <3>2
  <2> HIDE DEF c
  <2> QED BY <2>1, <2>4 DEF CombosAgree, OverIsOver, Tracked, IsOver
<1> QED BY <1>2, <1>3 DEF ComboEvent, HandleComboEvent, Tracked

(* While an id is placed once, a combo that the book calls over has ended   *)
(* at the broker: the handler, which neither escalates nor counts fills, at *)
(* least forgets nothing that could still fill.                             *)
LEMMA CombosAgreeStep == CombosOK /\ CombosAgree /\ [ComboNext]_comboVars => CombosAgree'
<1> SUFFICES ASSUME CombosOK, RouterOK, CombosAgree, [ComboNext]_comboVars PROVE CombosAgree'
  BY DEF CombosOK
<1>1. ASSUME NEW c \in Coid, NEW q \in Quantity, Send(c, q) PROVE CombosAgree'
  <2>1. /\ Follows' /\ managed'[c].state = "SUBMITTED"
        /\ \A d \in DOMAIN managed' : d # c => d \in DOMAIN managed /\ LeftAlone(d) /\ (Alone(d)' => Alone(d))
    BY <1>1, SendFollows DEF CombosAgree
  <2> QED BY <2>1, LeftAloneAgrees DEF CombosAgree, OverIsOver, Tracked, IsOver, LC!Terminal
<1>2. ASSUME NEW b \in DOMAIN brk, ComboEvent(b) PROVE CombosAgree'
  BY <1>2, ComboEventAgrees
<1>3. CASE Forget
  BY <1>3, ForgetFollows DEF CombosAgree, OverIsOver, Tracked
<1>4. CASE \/ \E c \in Coid : RequestCancel(c)
           \/ \E b \in DOMAIN brk : BrokerStep(b) /\ UNCHANGED book
           \/ UNCHANGED vars
  <2>1. /\ Follows' /\ DOMAIN managed' = DOMAIN managed
        /\ \A c \in DOMAIN managed : LeftAlone(c) /\ (Alone(c)' => Alone(c))
    BY <1>4, UnseenFollows DEF CombosAgree
  <2> QED BY <2>1, LeftAloneAgrees DEF CombosAgree, OverIsOver, Tracked, IsOver
<1> QED BY <1>1, <1>2, <1>3, <1>4, ComboSteps

LEMMA CombosInvariance == ComboSpec => [](CombosOK /\ CombosAgree)
<1>1. ComboInit => CombosAgree
  BY DEF ComboInit, Init, BrokerInit, CombosAgree, Follows, FilledSaysSo, OverIsOver, Tracked
<1> QED BY <1>1, ComboInitOK, CombosOKStep, CombosAgreeStep, PTL DEF ComboSpec

THEOREM NothingLiveIsForgotten == ComboSpec => []OverIsOver
<1>1. CombosAgree => OverIsOver
  BY DEF CombosAgree
<1> QED BY <1>1, CombosInvariance, PTL

-----------------------------------------------------------------------------
(* The combo router implements the state machine, order by order.           *)

(* The broker holds no more orders than there are numbers for. *)
Numbered == Len(brk) <= MaxPlace

LEMMA NumberedStep == CombosOK /\ CombosAgree /\ Numbered /\ [ComboNext]_comboVars => Numbered'
<1> SUFFICES ASSUME CombosOK, RouterOK, Follows, Numbered, [ComboNext]_comboVars PROVE Numbered'
  BY DEF CombosOK, CombosAgree
<1>0. brk \in Seq(BrokerOrder) /\ brk' \in Seq(BrokerOrder) /\ MaxPlace \in Nat
  BY MaxPlaceAssumption, CombosOKStep DEF CombosOK, RouterOK, BrokerOK
<1>1. ASSUME NEW c \in Coid, NEW q \in Quantity, Send(c, q) PROVE Numbered'
  BY <1>0, <1>1 DEF Send, PlaceOrder, Numbered
<1>2. CASE DOMAIN brk' = DOMAIN brk
  <2>1. Len(brk) \in Nat /\ Len(brk') \in Nat /\ 1..Len(brk') = 1..Len(brk)
    BY <1>0, <1>2, LenProperties
  <2>2. Len(brk') = Len(brk)
    BY <2>1
  <2> QED BY <2>2 DEF Numbered
<1>3. CASE \/ \E c \in Coid : RequestCancel(c)
           \/ \E b \in DOMAIN brk : BrokerStep(b) /\ UNCHANGED book
           \/ UNCHANGED vars
  BY <1>2, <1>3, UnseenKeepsNumbers
<1>4. CASE UNCHANGED brk
  BY <1>2, <1>4
<1> QED BY <1>1, <1>3, <1>4, ComboSteps DEF ComboEvent, Receive, Forget

(* The machine seen by id and by number is the same. *)
LEMMA SameMachine ==
    /\ \A o, to, f : /\ OrderLC!CanApply(o, to, f) = LC!CanApply(o, to, f)
                    /\ OrderLC!ApplyTransition(o, to, f) = LC!ApplyTransition(o, to, f)
    /\ \A q : OrderLC!NewManagedOrder(q) = LC!NewManagedOrder(q)
    /\ OrderLC!Created = LC!Created /\ OrderLC!OrderState = LC!OrderState
<1>1. OrderLC!OrderState = LC!OrderState /\ OrderLC!Terminal = LC!Terminal
  BY DEF OrderLC!OrderState, LC!OrderState, OrderLC!Terminal, LC!Terminal
<1>2. OrderLC!LegalTransitions = LC!LegalTransitions
  BY <1>1 DEF OrderLC!LegalTransitions, LC!LegalTransitions
<1>3. \A o, f : OrderLC!NewFilled(o, f) = LC!NewFilled(o, f)
  BY DEF OrderLC!NewFilled, LC!NewFilled
<1>4. \A o, to : OrderLC!Move(o, to) = LC!Move(o, to)
  BY <1>2 DEF OrderLC!Move, LC!Move
<1>5. \A o, to, f : OrderLC!CanApply(o, to, f) = LC!CanApply(o, to, f)
  BY <1>3, <1>4 DEF OrderLC!CanApply, LC!CanApply
<1>6. \A o, to, f : OrderLC!ApplyTransition(o, to, f) = LC!ApplyTransition(o, to, f)
  BY <1>3 DEF OrderLC!ApplyTransition, LC!ApplyTransition
<1>7. \A q : OrderLC!NewManagedOrder(q) = LC!NewManagedOrder(q)
  BY DEF OrderLC!NewManagedOrder, LC!NewManagedOrder
<1>8. OrderLC!Created = LC!Created
  BY DEF OrderLC!Created, LC!Created
<1> QED BY <1>1, <1>5, <1>6, <1>7, <1>8

(* What the book holds, by number. *)
LEMMA Numbers ==
    ASSUME Follows, NEW c \in DOMAIN managed
    PROVE  /\ trades[c] \in DOMAIN ByOrder(managed) /\ brk[trades[c]].coid = c
           /\ \A d \in DOMAIN managed : trades[d] = trades[c] => d = c
           /\ \A f : ByOrder(f)[trades[c]] = f[c]
BY DEF Follows, ByOrder, Tracked

(* An order that is sent under an id in use takes the place of the other. *)
LEMMA SendIsSubmit ==
    ASSUME CombosOK, Follows, Numbered, NEW c \in Coid, NEW q \in Quantity, Send(c, q)
    PROVE  OrderLC!Next
<1> DEFINE b == Len(brk) + 1
           S == IF c \in Tracked THEN {trades[c]} ELSE {}
           o == LC!ApplyTransition(LC!NewManagedOrder(q), "SUBMITTED", NoFill)
           l == <<LC!Created, [from |-> "PENDING", to |-> "SUBMITTED"]>>
           nums == {trades[d] : d \in Tracked}
<1>1. /\ DOMAIN brk' = DOMAIN brk \cup {b} /\ b \notin DOMAIN brk
      /\ \A d \in DOMAIN brk : brk'[d] = brk[d]
      /\ brk'[b].coid = c
  BY PlaceAppends DEF CombosOK, RouterOK, Send
<1>2. /\ DOMAIN managed' = DOMAIN managed \cup {c} /\ managed'[c] = o
      /\ DOMAIN log' = DOMAIN managed \cup {c} /\ log'[c] = l
      /\ trades'[c] = b
      /\ \A d \in DOMAIN managed \ {c} : managed'[d] = managed[d] /\ log'[d] = log[d] /\ trades'[d] = trades[d]
  BY DEF Send, With, Follows, CombosOK, RouterOK, BookOK
<1>3. /\ \A d \in DOMAIN managed : trades[d] \in DOMAIN brk /\ brk[trades[d]].coid = d
      /\ nums \subseteq DOMAIN brk
  BY DEF Follows, Tracked
<1>4. b \in 1..MaxPlace /\ S \subseteq 1..MaxPlace /\ DOMAIN brk \subseteq 1..MaxPlace
  <2>1. brk \in Seq(BrokerOrder) /\ MaxPlace \in Nat /\ Len(brk) < MaxPlace
    BY MaxPlaceAssumption DEF CombosOK, RouterOK, BrokerOK, Send, PlaceOrder
  <2>2. Len(brk) \in Nat /\ DOMAIN brk = 1..Len(brk)
    BY <2>1, LenProperties
  <2>3. DOMAIN brk \subseteq 1..MaxPlace
    BY <2>1, <2>2
  <2> QED BY <1>3, <2>1, <2>2, <2>3 DEF Tracked
<1> HIDE DEF b, o, l
<1>5. {trades'[d] : d \in DOMAIN managed'} = (nums \ S) \cup {b}
  BY <1>1, <1>2, <1>3 DEF Tracked
<1>6. \A n \in nums \ S : brk'[n].coid = brk[n].coid /\ brk[n].coid \in DOMAIN managed \ {c}
  BY <1>1, <1>3 DEF Tracked
<1>7. ByOrder(managed)' = [n \in (nums \ S) \cup {b} |-> IF n = b THEN o ELSE ByOrder(managed)[n]]
  BY <1>1, <1>2, <1>3, <1>5, <1>6 DEF ByOrder, Tracked
<1>8. ByOrder(log)' = [n \in (nums \ S) \cup {b} |-> IF n = b THEN l ELSE ByOrder(log)[n]]
  BY <1>1, <1>2, <1>3, <1>5, <1>6 DEF ByOrder, Tracked
<1>9. DOMAIN ByOrder(managed) = nums
  BY DEF ByOrder
<1>10. OrderLC!Submit(S, b, q)
  BY <1>1, <1>3, <1>7, <1>8, <1>9, SameMachine DEF OrderLC!Submit, o, l
<1> HIDE DEF S
<1> QED BY <1>4, <1>10 DEF OrderLC!Next

(* What a handler stores is a transition of that order. *)
LEMMA StoreIsTransitionOf ==
    ASSUME CombosOK, Follows, Numbered, NEW b \in DOMAIN brk, ComboEvent(b)
    PROVE  [OrderLC!Next]_(OrderLC!vars)
<1> DEFINE c == brk[b].coid
           to == MapIbkrStatus(brk[b].status, brk[b].filled, brk[b].total)
           t == trades[c]
<1>0. UNCHANGED <<brk, trades>>
  BY DEF ComboEvent, Receive
<1>1. CASE UNCHANGED <<managed, log>>
  BY <1>0, <1>1 DEF OrderLC!vars, ByOrder, Tracked
<1>2. CASE ~ UNCHANGED <<managed, log>>
  <2>1. c \in DOMAIN managed /\ to # Hold /\ LC!CanApply(managed[c], to, NoFill) /\ Store(c, to, NoFill)
    BY <1>2, ComboStores
  <2>2. to \in LC!OrderState
    BY <2>1, MapIbkrStatusState, EventFillKnown DEF CombosOK, RouterOK
  <2>3. t \in 1..MaxPlace
    <3>1. t \in DOMAIN brk /\ brk \in Seq(BrokerOrder) /\ MaxPlace \in Nat
      BY <2>1, MaxPlaceAssumption DEF Follows, CombosOK, RouterOK, BrokerOK
    <3>2. t \in 1..Len(brk) /\ Len(brk) \in Nat /\ Len(brk) <= MaxPlace
      BY <3>1, LenProperties DEF Numbered
    <3> HIDE DEF t
    <3> QED BY <3>1, <3>2
  <2> HIDE DEF to
  <2>4. /\ t \in DOMAIN ByOrder(managed) /\ ByOrder(managed)[t] = managed[c] /\ ByOrder(log)[t] = log[c]
        /\ \A d \in DOMAIN managed : trades[d] = t => d = c
    BY <2>1, Numbers
  <2>5. DOMAIN managed' = DOMAIN managed /\ DOMAIN log = DOMAIN managed
    BY <2>1 DEF Store, CombosOK, RouterOK, BookOK
  <2>6. \A n \in DOMAIN ByOrder(managed) : brk[n].coid \in DOMAIN managed /\ (brk[n].coid = c <=> n = t)
    BY <2>1 DEF ByOrder, Tracked, Follows
  <2>7. ByOrder(managed)' = [ByOrder(managed) EXCEPT ![t] = LC!ApplyTransition(managed[c], to, NoFill)]
    BY <1>0, <2>1, <2>4, <2>5, <2>6 DEF Store, ByOrder, Tracked
  <2>8. ByOrder(log)' = [ByOrder(log) EXCEPT ![t] = LC!Record(c, to)]
    BY <1>0, <2>1, <2>4, <2>5, <2>6 DEF Store, ByOrder, Tracked
  <2>9. LC!Record(c, to) = OrderLC!Record(t, to)
    BY <2>4 DEF LC!Record, OrderLC!Record
  <2>10. OrderLC!Transition(t, to, NoFill)
    BY <2>1, <2>4, <2>7, <2>8, <2>9, SameMachine DEF OrderLC!Transition, OrderLC!Unbounded
  <2> HIDE DEF t
  <2> QED BY <2>2, <2>3, <2>10, SameMachine DEF OrderLC!Next
<1> QED BY <1>1, <1>2

LEMMA ForgetIsDiscard ==
    ASSUME CombosOK, Follows, Numbered, Forget
    PROVE  OrderLC!Next
<1> DEFINE nums == {trades[d] : d \in Tracked}
<1>1. nums \subseteq 1..MaxPlace
  <2>1. brk \in Seq(BrokerOrder) /\ MaxPlace \in Nat /\ nums \subseteq DOMAIN brk
    BY MaxPlaceAssumption DEF Follows, Tracked, CombosOK, RouterOK, BrokerOK
  <2>2. Len(brk) \in Nat /\ DOMAIN brk = 1..Len(brk) /\ Len(brk) <= MaxPlace
    BY <2>1, LenProperties DEF Numbered
  <2> HIDE DEF nums
  <2> QED BY <2>1, <2>2
<1>2. DOMAIN managed' = {} /\ DOMAIN ByOrder(managed) = nums /\ DOMAIN ByOrder(log) = nums
  BY DEF Forget, ByOrder
<1>3. nums \ (1..MaxPlace) = {}
  BY <1>1
<1>4. OrderLC!Discard(1..MaxPlace)
  <2>1. ByOrder(managed)' = [n \in {} |-> ByOrder(managed)[n]]
    BY <1>2 DEF ByOrder, Tracked
  <2>2. ByOrder(log)' = [n \in {} |-> ByOrder(log)[n]]
    BY <1>2 DEF ByOrder, Tracked
  <2> QED BY <1>2, <1>3, <2>1, <2>2 DEF OrderLC!Discard
<1> QED BY <1>4 DEF OrderLC!Next

(* The book by number does not change with what only the broker sees. *)
LEMMA UnseenIsStutter ==
    ASSUME CombosOK, Follows,
           \/ \E c \in Coid : RequestCancel(c)
           \/ \E b \in DOMAIN brk : BrokerStep(b) /\ UNCHANGED book
           \/ UNCHANGED vars
    PROVE  UNCHANGED OrderLC!vars
<1>1. UNCHANGED <<managed, log, trades>>
  BY DEF RequestCancel, book, vars
<1>2. \A b \in DOMAIN brk : brk'[b].coid = brk[b].coid
  BY UnseenKeepsNumbers DEF CombosOK
<1>3. \A b \in {trades[c] : c \in Tracked} : b \in DOMAIN brk
  BY DEF Follows, Tracked
<1>4. ByOrder(managed)' = ByOrder(managed) /\ ByOrder(log)' = ByOrder(log)
  BY <1>1, <1>2, <1>3 DEF ByOrder, Tracked
<1> QED BY <1>4 DEF OrderLC!vars

(* Order by order, the combo router implements the order state machine:     *)
(* whatever combos do at the broker and however calls overlap, a            *)
(* ManagedOrder of the book moves only along the edges of lifecycle.py,     *)
(* with each move in its log.                                               *)
THEOREM CombosImplement == ComboSpec => CombosImplementLifecycle
<1>1. ComboInit => Numbered /\ OrderLC!Init
  <2> SUFFICES ASSUME ComboInit PROVE Numbered /\ OrderLC!Init
    OBVIOUS
  <2>1. DOMAIN managed = {} /\ brk = <<>>
    BY DEF ComboInit, Init, BrokerInit
  <2>2. ByOrder(managed) = [c \in {} |-> OrderLC!NewManagedOrder(0)] /\ ByOrder(log) = [c \in {} |-> <<>>]
    BY <2>1 DEF ByOrder, Tracked
  <2> QED BY <2>1, <2>2, MaxPlaceAssumption DEF Numbered, OrderLC!Init
<1>2. CombosOK /\ CombosAgree /\ Numbered /\ [ComboNext]_comboVars => [OrderLC!Next]_(OrderLC!vars)
  <2> SUFFICES ASSUME CombosOK, Follows, Numbered, [ComboNext]_comboVars
               PROVE  [OrderLC!Next]_(OrderLC!vars)
    BY DEF CombosAgree
  <2> QED BY ComboSteps, SendIsSubmit, StoreIsTransitionOf, ForgetIsDiscard, UnseenIsStutter
<1> QED BY <1>1, <1>2, CombosInvariance, NumberedStep, PTL DEF ComboSpec, CombosImplementLifecycle, OrderLC!Spec
=============================================================================
