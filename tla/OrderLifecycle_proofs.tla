----------------------- MODULE OrderLifecycle_proofs -----------------------
(***************************************************************************)
(* What holds of every order whatever the order ids, the quantities, the   *)
(* fill counts callers report and the length of the logs.                  *)
(*                                                                         *)
(* TypeOK, FillsAreAccounted and LogIsLegalPath are inductive together:    *)
(* the log's last record must name the present state for the next record   *)
(* to be a legal edge.  SubmittedAtMostOnce follows from the path alone,   *)
(* since no edge of the graph leads back to PENDING.                       *)
(***************************************************************************)
EXTENDS OrderLifecycle, TLAPS

IInv == TypeOK /\ FillsAreAccounted /\ LogIsLegalPath

(* No edge leads to PENDING, and SUBMITTED is reached from PENDING only. *)
LEMMA GraphShape ==
    ASSUME NEW r \in TransitionRecord, LegalRecord(r)
    PROVE  r.to # "PENDING" /\ (r.to = "SUBMITTED" => r.from = "PENDING")
BY DEF LegalRecord, LegalTransitions, TransitionRecord, OrderState, Terminal

(* What apply_transition returns is a ManagedOrder with sound fills. *)
LEMMA ApplyTransitionSound ==
    ASSUME NEW o \in ManagedOrder, NEW to \in OrderState,
           NEW f \in Fill \cup {NoFill}, CanApply(o, to, f),
           o.filled <= o.quantity
    PROVE  LET n == ApplyTransition(o, to, f) IN
               /\ n \in ManagedOrder
               /\ n.state = to
               /\ n.quantity = o.quantity
               /\ n.filled <= n.quantity
               /\ n.state = "FILLED" => n.filled = n.quantity
BY FillAssumption, QuantityAssumption
   DEF ApplyTransition, CanApply, NewFilled, ManagedOrder

LEMMA InitIInv == Init => IInv
BY DEF Init, IInv, TypeOK, FillsAreAccounted, LogIsLegalPath

LEMMA CreateIInv ==
    ASSUME IInv, NEW c \in Order, NEW q \in Quantity, Create(c, q)
    PROVE  IInv'
<1>1. NewManagedOrder(q) \in ManagedOrder /\ <<Created>> \in Seq(TransitionRecord)
  BY QuantityAssumption
     DEF NewManagedOrder, ManagedOrder, OrderState, Created, TransitionRecord
<1>2. TypeOK'
  BY <1>1 DEF IInv, TypeOK, Create
<1>3. FillsAreAccounted'
  BY QuantityAssumption DEF IInv, FillsAreAccounted, Create, NewManagedOrder
<1>4. LogIsLegalPath'
  <2> SUFFICES ASSUME NEW d \in DOMAIN orders'
               PROVE  /\ Len(log'[d]) > 0
                      /\ log'[d][1] = Created
                      /\ log'[d][Len(log'[d])].to = orders'[d].state
                      /\ \A i \in 2..Len(log'[d]) :
                             /\ log'[d][i].from = log'[d][i-1].to
                             /\ LegalRecord(log'[d][i])
    BY DEF LogIsLegalPath
  <2>1. CASE d = c
    <3>1. log'[d] = <<Created>> /\ orders'[d] = NewManagedOrder(q)
      BY <2>1 DEF Create
    <3> QED BY <3>1 DEF Created, NewManagedOrder
  <2>2. CASE d # c
    <3>1. d \in DOMAIN orders /\ log'[d] = log[d] /\ orders'[d] = orders[d]
      BY <2>2 DEF Create
    <3> QED BY <3>1 DEF IInv, LogIsLegalPath
  <2> QED BY <2>1, <2>2
<1> QED BY <1>2, <1>3, <1>4 DEF IInv

LEMMA SubmitIInv ==
    ASSUME IInv, NEW S \in SUBSET Order, NEW c \in Order, NEW q \in Quantity, Submit(S, c, q)
    PROVE  IInv'
<1> DEFINE o == ApplyTransition(NewManagedOrder(q), "SUBMITTED", NoFill)
           s == <<Created, [from |-> "PENDING", to |-> "SUBMITTED"]>>
<1>1. NewManagedOrder(q) \in ManagedOrder
  BY QuantityAssumption DEF NewManagedOrder, ManagedOrder, OrderState
<1>2a. CanApply(NewManagedOrder(q), "SUBMITTED", NoFill)
  BY QuantityAssumption
     DEF CanApply, Move, LegalTransitions, OrderState, NewManagedOrder, NewFilled, Terminal
<1>2b. NewManagedOrder(q).filled = 0 /\ NewManagedOrder(q).quantity = q /\ 0 <= q
  BY QuantityAssumption DEF NewManagedOrder
<1>2c. "SUBMITTED" \in OrderState
  BY DEF OrderState
<1>2d. o \in ManagedOrder /\ o.state = "SUBMITTED" /\ o.quantity = q
  BY <1>1, <1>2a, <1>2b, <1>2c, ApplyTransitionSound
<1>2e. o.filled = 0
  BY <1>1, <1>2b DEF ApplyTransition, NewFilled, ManagedOrder
<1>2. o \in ManagedOrder /\ o.state = "SUBMITTED" /\ 0 <= q /\ o.filled = 0 /\ o.quantity = q
  BY <1>2b, <1>2d, <1>2e
<1>3. /\ s \in Seq(TransitionRecord) /\ Len(s) = 2 /\ s[1] = Created
      /\ s[2].from = s[1].to /\ s[2].to = "SUBMITTED" /\ LegalRecord(s[2])
  BY DEF Created, TransitionRecord, OrderState, LegalRecord, LegalTransitions, Terminal
<1>4. /\ orders' = [d \in (DOMAIN orders \ S) \cup {c} |-> IF d = c THEN o ELSE orders[d]]
      /\ log' = [d \in (DOMAIN orders \ S) \cup {c} |-> IF d = c THEN s ELSE log[d]]
      /\ c \notin DOMAIN orders
  BY DEF Submit
<1> HIDE DEF o, s
<1>5. TypeOK'
  BY <1>2, <1>3, <1>4 DEF IInv, TypeOK
<1>6. FillsAreAccounted'
  BY <1>2, <1>4, QuantityAssumption DEF IInv, FillsAreAccounted
<1>7. LogIsLegalPath'
  <2> SUFFICES ASSUME NEW d \in DOMAIN orders'
               PROVE  /\ Len(log'[d]) > 0
                      /\ log'[d][1] = Created
                      /\ log'[d][Len(log'[d])].to = orders'[d].state
                      /\ \A i \in 2..Len(log'[d]) :
                             /\ log'[d][i].from = log'[d][i-1].to
                             /\ LegalRecord(log'[d][i])
    BY DEF LogIsLegalPath
  <2>1. CASE d = c
    <3>1. log'[d] = s /\ orders'[d] = o
      BY <2>1, <1>4
    <3> QED BY <3>1, <1>2, <1>3
  <2>2. CASE d # c
    <3>1. d \in DOMAIN orders /\ log'[d] = log[d] /\ orders'[d] = orders[d]
      BY <2>2, <1>4
    <3> QED BY <3>1 DEF IInv, LogIsLegalPath
  <2> QED BY <2>1, <2>2
<1> QED BY <1>5, <1>6, <1>7 DEF IInv

LEMMA TransitionIInv ==
    ASSUME IInv, NEW c \in Order, NEW to \in OrderState,
           NEW f \in Fill \cup {NoFill}, Transition(c, to, f)
    PROVE  IInv'
<1> DEFINE rec == [from |-> orders[c].state, to |-> to]
<1>1. /\ c \in DOMAIN orders
      /\ orders[c] \in ManagedOrder
      /\ log[c] \in Seq(TransitionRecord)
      /\ orders[c].filled <= orders[c].quantity
      /\ CanApply(orders[c], to, f)
  BY DEF IInv, TypeOK, FillsAreAccounted, Transition
<1>2. rec \in TransitionRecord /\ LegalRecord(rec)
  BY <1>1 DEF CanApply, Move, LegalRecord, TransitionRecord, ManagedOrder
<1>3. /\ orders' = [orders EXCEPT ![c] = ApplyTransition(orders[c], to, f)]
      /\ log' = [log EXCEPT ![c] = Append(log[c], rec)]
  BY DEF Transition, Record
<1>4. Append(log[c], rec) \in Seq(TransitionRecord)
  BY <1>1, <1>2
<1>5. TypeOK'
  BY <1>1, <1>3, <1>4, ApplyTransitionSound DEF IInv, TypeOK
<1>6. FillsAreAccounted'
  BY <1>1, <1>3, ApplyTransitionSound DEF IInv, TypeOK, FillsAreAccounted
<1>7. LogIsLegalPath'
  <2> SUFFICES ASSUME NEW d \in DOMAIN orders'
               PROVE  /\ Len(log'[d]) > 0
                      /\ log'[d][1] = Created
                      /\ log'[d][Len(log'[d])].to = orders'[d].state
                      /\ \A i \in 2..Len(log'[d]) :
                             /\ log'[d][i].from = log'[d][i-1].to
                             /\ LegalRecord(log'[d][i])
    BY DEF LogIsLegalPath
  <2>0. d \in DOMAIN orders /\ d \in DOMAIN log
    BY <1>3 DEF IInv, TypeOK
  <2>1. CASE d = c
    <3>1. log'[d] = Append(log[c], rec) /\ orders'[d].state = to
      BY <2>0, <2>1, <1>1, <1>3, ApplyTransitionSound
    <3>2. /\ Len(log[c]) > 0 /\ log[c][1] = Created
          /\ log[c][Len(log[c])].to = orders[c].state
          /\ \A i \in 2..Len(log[c]) : /\ log[c][i].from = log[c][i-1].to
                                       /\ LegalRecord(log[c][i])
      BY <1>1 DEF IInv, LogIsLegalPath
    <3>3. /\ Len(log'[d]) = Len(log[c]) + 1
          /\ \A i \in 1..Len(log[c]) : log'[d][i] = log[c][i]
          /\ log'[d][Len(log[c]) + 1] = rec
      BY <3>1, <1>1, <1>2
    <3> QED BY <3>1, <3>2, <3>3, <1>1, <1>2
  <2>2. CASE d # c
    <3>1. log'[d] = log[d] /\ orders'[d] = orders[d]
      BY <2>0, <2>2, <1>3
    <3> QED BY <3>1, <2>0 DEF IInv, LogIsLegalPath
  <2> QED BY <2>1, <2>2
<1> QED BY <1>5, <1>6, <1>7 DEF IInv

LEMMA DiscardIInv ==
    ASSUME IInv, NEW S \in SUBSET Order, Discard(S)
    PROVE  IInv'
<1>1. TypeOK'
  BY DEF IInv, TypeOK, Discard
<1>2. FillsAreAccounted'
  BY DEF IInv, FillsAreAccounted, Discard
<1>3. LogIsLegalPath'
  <2>1. \A d \in DOMAIN orders' : /\ d \in DOMAIN orders
                                  /\ log'[d] = log[d]
                                  /\ orders'[d] = orders[d]
    BY DEF Discard
  <2> QED BY <2>1 DEF IInv, LogIsLegalPath
<1> QED BY <1>1, <1>2, <1>3 DEF IInv

LEMMA StepIInv == IInv /\ [Next]_vars => IInv'
<1> SUFFICES ASSUME IInv, [Next]_vars PROVE IInv'
  OBVIOUS
<1>1. ASSUME NEW c \in Order, NEW q \in Quantity, Create(c, q) PROVE IInv'
  BY <1>1, CreateIInv
<1>2. ASSUME NEW c \in Order, NEW to \in OrderState,
             NEW f \in Fill \cup {NoFill}, Transition(c, to, f)
      PROVE  IInv'
  BY <1>2, TransitionIInv
<1>3. ASSUME NEW S \in SUBSET Order, Discard(S) PROVE IInv'
  BY <1>3, DiscardIInv
<1>4. ASSUME NEW S \in SUBSET Order, NEW c \in Order, NEW q \in Quantity, Submit(S, c, q) PROVE IInv'
  BY <1>4, SubmitIInv
<1>5. CASE UNCHANGED vars
  BY <1>5 DEF vars, IInv, TypeOK, FillsAreAccounted, LogIsLegalPath
<1> QED BY <1>1, <1>2, <1>3, <1>4, <1>5 DEF Next

(* The three conjuncts of the invariant hold in every reachable state. *)
THEOREM Invariance == Spec => []IInv
BY InitIInv, StepIInv, PTL DEF Spec

(* Every value the machine holds has its declared type. *)
THEOREM TypeCorrect == Spec => []TypeOK
<1>1. IInv => TypeOK  BY DEF IInv
<1> QED BY <1>1, Invariance, PTL

(* No order is over-filled, and FILLED orders are filled exactly. *)
THEOREM FillsCorrect == Spec => []FillsAreAccounted
<1>1. IInv => FillsAreAccounted  BY DEF IInv
<1> QED BY <1>1, Invariance, PTL

(* Every transition log is a walk of the graph ending in the state. *)
THEOREM LogCorrect == Spec => []LogIsLegalPath
<1>1. IInv => LogIsLegalPath  BY DEF IInv
<1> QED BY <1>1, Invariance, PTL

(* No order is sent to the broker twice: a second SUBMITTED record would   *)
(* need a record before it that leads to PENDING, and only birth does.     *)
THEOREM SubmittedOnce == Spec => []SubmittedAtMostOnce
<1>1. IInv => SubmittedAtMostOnce
  <2> SUFFICES ASSUME IInv, NEW c \in DOMAIN orders,
                      NEW i \in 1..Len(log[c]), log[c][i].to = "SUBMITTED"
               PROVE  i = 2
    BY DEF SubmittedAtMostOnce
  <2>1. log[c] \in Seq(TransitionRecord)
    BY DEF IInv, TypeOK
  <2>2. /\ log[c][1].to = "PENDING"
        /\ \A j \in 2..Len(log[c]) : /\ log[c][j].from = log[c][j-1].to
                                     /\ LegalRecord(log[c][j])
    BY DEF IInv, LogIsLegalPath, Created
  <2>3. \A j \in 2..Len(log[c]) :
            /\ log[c][j] \in TransitionRecord
            /\ log[c][j].to # "PENDING"
            /\ log[c][j].to = "SUBMITTED" => log[c][j].from = "PENDING"
    BY <2>1, <2>2, GraphShape
  <2>4. i \in 2..Len(log[c])
    BY <2>1, <2>2
  <2>5. log[c][i-1].to = "PENDING"
    BY <2>2, <2>3, <2>4
  <2>6. i - 1 \notin 2..Len(log[c])
    BY <2>3, <2>5
  <2> QED BY <2>4, <2>6, <2>1
<1> QED BY <1>1, Invariance, PTL

(* A terminal order never changes while somebody holds it. *)
THEOREM TerminalFinal == Spec => TerminalIsFinal
<1> DEFINE A == \A c \in DOMAIN orders \cap DOMAIN orders' :
                   orders[c].state \in Terminal =>
                       orders'[c] = orders[c] /\ log'[c] = log[c]
<1>1. IInv /\ [Next]_vars => [A]_vars
  <2> SUFFICES ASSUME IInv, Next PROVE A
    OBVIOUS
  <2>1. ASSUME NEW c \in Order, NEW q \in Quantity, Create(c, q) PROVE A
    BY <2>1 DEF Create
  <2>2. ASSUME NEW c \in Order, NEW to \in OrderState,
               NEW f \in Fill \cup {NoFill}, Transition(c, to, f)
        PROVE  A
    <3>1. orders[c].state \notin Terminal
      BY <2>2 DEF Transition, CanApply, Move, LegalTransitions, Terminal, OrderState
    <3>2. \A d \in DOMAIN orders : d # c => orders'[d] = orders[d] /\ log'[d] = log[d]
      BY <2>2 DEF Transition, IInv, TypeOK
    <3> QED BY <3>1, <3>2
  <2>3. ASSUME NEW S \in SUBSET Order, Discard(S) PROVE A
    BY <2>3 DEF Discard
  <2>4. ASSUME NEW S \in SUBSET Order, NEW c \in Order, NEW q \in Quantity, Submit(S, c, q) PROVE A
    BY <2>4 DEF Submit
  <2> QED BY <2>1, <2>2, <2>3, <2>4 DEF Next
<1> QED BY <1>1, Invariance, PTL DEF Spec, TerminalIsFinal
=============================================================================
