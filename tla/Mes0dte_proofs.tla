--------------------------- MODULE Mes0dte_proofs ---------------------------
(***************************************************************************)
(* What holds of a day of the MES 0DTE daemon for any number of ticks and  *)
(* of starts of the entry job.  The two jobs share no lock.  What keeps    *)
(* them apart is the record: the entry job works while there is none, the  *)
(* sweep while it says open (Exclusive).  From this follow which orders    *)
(* the record tells of (OrdersRecorded) and, from the order of precedence  *)
(* of the triggers, that a sweep which runs to its end at the force-close  *)
(* time closes (ForceCloses).                                              *)
(***************************************************************************)
EXTENDS Mes0dte, FiniteSetTheorems, SequenceTheorems, TLAPS

Role == {"entry", "close"}
ComboOrder == [role : Role, lots : {1, -1}, status : {"working", "filled", "dead"}]

TypeOK ==
    /\ clock \in 0..(LastTick + 1) /\ swept \in BOOLEAN
    /\ kill \in BOOLEAN /\ record \in {"none", "open", "closed", "torn"}
    /\ epc \in {"idle", "checked", "placed"} /\ mpc \in {"idle", "read", "placed"}
    /\ orders \in Seq(ComboOrder)
    /\ since \in 0..clock

(* The jobs are never at work at the same time. *)
Exclusive ==
    /\ epc # "idle" => record = "none"
    /\ mpc # "idle" => record = "open"
    /\ swept => record # "none"

(* The orders the record tells of, or is about to: those of jobs that have  *)
(* not died before they recorded them.                                      *)
OnRecord(role) == Sent(role) \ lost

(* While a job stands between placement and record, its order is the last   *)
(* one; otherwise the record tells whether there is one.                    *)
OrdersRecorded ==
    /\ lost \subseteq DOMAIN orders
    /\ (record = "none" /\ epc # "placed") => OnRecord("entry") = {}
    /\ epc = "placed" => OnRecord("entry") = {Len(orders)}
    /\ (record # "closed" /\ mpc # "placed") => OnRecord("close") = {}
    /\ mpc = "placed" => OnRecord("close") = {Len(orders)}
    /\ \A role \in Role : \A i, j \in OnRecord(role) : i = j

(* A close is only ever sent for an entry, the other way round. *)
CloseFollowsEntry ==
    /\ record \in {"open", "closed"} => Sent("entry") # {}
    /\ record = "closed" => Sent("close") # {}
    /\ Sent("close") # {} => Sent("entry") # {}
    /\ \A i \in DOMAIN orders : orders[i].lots = IF orders[i].role = "entry" THEN 1 ELSE -1

(* Every tick from the force-close time on that left the record open was    *)
(* a fault, the present one included if its sweep is over.                  *)
ForceCloses ==
    record = "open" =>
        /\ \A t \in ForceTick..(clock - 1) : t > since => t \in fault
        /\ (swept /\ mpc = "idle" /\ clock >= ForceTick) => clock \in fault

-----------------------------------------------------------------------------
(* The types, step by step. *)
LEMMA InitTypeOK == Init => TypeOK
<1> SUFFICES ASSUME Init PROVE TypeOK
  OBVIOUS
<1>1. orders \in Seq(ComboOrder)
  BY DEF Init
<1>2. clock \in 0..(LastTick + 1) /\ since \in 0..clock
  BY TicksAssumption DEF Init
<1> QED BY <1>1, <1>2, Zenon DEF Init, TypeOK

(* What a placement does to the orders sent. *)
LEMMA Placement ==
    ASSUME orders \in Seq(ComboOrder), NEW role \in Role, NEW lots \in {1, -1}, PlaceCombo(role, lots)
    PROVE  /\ orders' \in Seq(ComboOrder)
           /\ Len(orders') = Len(orders) + 1 /\ Len(orders) \in Nat
           /\ DOMAIN orders = 1..Len(orders) /\ DOMAIN orders' = 1..(Len(orders) + 1)
           /\ orders'[Len(orders) + 1].role = role /\ orders'[Len(orders) + 1].lots = lots
           /\ \A i \in DOMAIN orders : orders'[i] = orders[i]
           /\ Sent(role)' = Sent(role) \cup {Len(orders) + 1}
           /\ \A other \in Role \ {role} : Sent(other)' = Sent(other)
           /\ \A r \in Role : Sent(r) \subseteq 1..Len(orders)
<1> DEFINE o == [role |-> role, lots |-> lots, status |-> "working"]
<1>1. o \in ComboOrder /\ orders' = Append(orders, o)
  BY DEF ComboOrder, PlaceCombo
<1>2. o.role = role /\ o.lots = lots
  OBVIOUS
<1> HIDE DEF o
<1>3. /\ orders' \in Seq(ComboOrder)
      /\ Len(orders') = Len(orders) + 1 /\ Len(orders) \in Nat
      /\ DOMAIN orders = 1..Len(orders) /\ DOMAIN orders' = 1..(Len(orders) + 1)
      /\ orders'[Len(orders) + 1] = o
      /\ \A i \in DOMAIN orders : orders'[i] = orders[i]
  BY <1>1
<1>4. \A r : Sent(r)' = {i \in 1..(Len(orders) + 1) : orders'[i].role = r}
  BY <1>3 DEF Sent
<1>5. \A r : Sent(r) = {i \in 1..Len(orders) : orders[i].role = r}
  BY <1>3 DEF Sent
<1>6. Sent(role)' = Sent(role) \cup {Len(orders) + 1}
  BY <1>2, <1>3, <1>4, <1>5
<1>7. ASSUME NEW other \in Role \ {role} PROVE Sent(other)' = Sent(other)
  <2>1. orders'[Len(orders) + 1].role # other
    BY <1>2, <1>3
  <2>2. Len(orders) \in Nat /\ \A i \in 1..Len(orders) : orders'[i] = orders[i]
    BY <1>3
  <2>3. {i \in 1..(Len(orders) + 1) : orders'[i].role = other} = {i \in 1..Len(orders) : orders[i].role = other}
    BY <2>1, <2>2
  <2> QED BY <1>4, <1>5, <2>3
<1> QED BY <1>2, <1>3, <1>5, <1>6, <1>7

(* What becomes of an order at the broker changes no order but its status. *)
LEMMA OutcomeKeeps ==
    ASSUME TypeOK, NEW i \in DOMAIN orders, NEW status \in {"filled", "dead"}, Outcome(i, status)
    PROVE  /\ orders' \in Seq(ComboOrder)
           /\ Len(orders') = Len(orders) /\ DOMAIN orders' = DOMAIN orders
           /\ \A j \in DOMAIN orders : orders'[j].role = orders[j].role /\ orders'[j].lots = orders[j].lots
           /\ \A r : Sent(r)' = Sent(r)
<1> DEFINE o == [orders[i] EXCEPT !.status = status]
<1>1. orders[i] \in ComboOrder /\ orders \in Seq(ComboOrder)
  BY DEF TypeOK
<1>2. o \in ComboOrder /\ o.role = orders[i].role /\ o.lots = orders[i].lots
  BY <1>1 DEF ComboOrder
<1>3. orders' = [orders EXCEPT ![i] = o]
  BY DEF Outcome
<1> HIDE DEF o
<1>4. /\ orders' \in Seq(ComboOrder) /\ Len(orders') = Len(orders) /\ DOMAIN orders' = DOMAIN orders
      /\ \A j \in DOMAIN orders : orders'[j] = IF j = i THEN o ELSE orders[j]
  BY <1>1, <1>2, <1>3
<1>5. \A j \in DOMAIN orders : orders'[j].role = orders[j].role /\ orders'[j].lots = orders[j].lots
  BY <1>2, <1>4
<1>6. \A r : Sent(r)' = Sent(r)
  BY <1>4, <1>5 DEF Sent
<1> QED BY <1>4, <1>5, <1>6

(* Every step keeps the types; only the orders sent take an argument. *)
LEMMA NextTypeOK == TypeOK /\ [Next]_vars => TypeOK'
<1> SUFFICES ASSUME TypeOK, [Next]_vars PROVE TypeOK'
  OBVIOUS
<1> USE TicksAssumption
<1>1. CASE EntryStart
  BY <1>1 DEF TypeOK, EntryStart, files, history
<1>2. CASE EntryGivesUp
  BY <1>2 DEF TypeOK, EntryGivesUp, files, history
<1>3. CASE EntryPlace
  <2>1. orders' \in Seq(ComboOrder)
    BY <1>3, Placement DEF TypeOK, EntryPlace, Role
  <2> QED BY <1>3, <2>1 DEF TypeOK, EntryPlace, files, history
<1>4. CASE EntryRecord
  BY <1>4 DEF TypeOK, EntryRecord
<1>5. CASE EntryDies
  BY <1>5 DEF TypeOK, EntryDies
<1>6. CASE SweepStart
  BY <1>6 DEF TypeOK, SweepStart, files, history
<1>7. CASE SweepHolds
  BY <1>7 DEF TypeOK, SweepHolds, files, history
<1>8. CASE SweepPlace
  <2>1. orders' \in Seq(ComboOrder)
    BY <1>8, Placement DEF TypeOK, SweepPlace, Role, CloseLots
  <2> QED BY <1>8, <2>1 DEF TypeOK, SweepPlace, files, history
<1>9. CASE SweepMark
  BY <1>9 DEF TypeOK, SweepMark, MarkEntryClosed, history
<1>10. CASE SweepFails
  BY <1>10 DEF TypeOK, SweepFails, files
<1>11. CASE SweepDies
  BY <1>11 DEF TypeOK, SweepDies
<1>12. CASE Operator
  BY <1>12 DEF TypeOK, Operator, history
<1>13. CASE Tick
  <2>1. clock' \in 0..(LastTick + 1) /\ since' \in 0..clock'
    BY <1>13 DEF TypeOK, Tick
  <2> QED BY <1>13, <2>1 DEF TypeOK, Tick, files
<1>14. ASSUME NEW i \in DOMAIN orders, NEW status \in {"filled", "dead"}, Outcome(i, status)
       PROVE  TypeOK'
  <2>1. orders' \in Seq(ComboOrder)
    BY <1>14, OutcomeKeeps
  <2> QED BY <1>14, <2>1 DEF TypeOK, Outcome, files, history
<1>15. CASE UNCHANGED vars
  BY <1>15 DEF TypeOK, vars, files, history
<1> QED
  BY <1>1, <1>2, <1>3, <1>4, <1>5, <1>6, <1>7, <1>8, <1>9, <1>10, <1>11, <1>12, <1>13, <1>14, <1>15
  DEF Next

(* The variables keep their types. *)
LEMMA DayTypes == Spec => []TypeOK
BY InitTypeOK, NextTypeOK, PTL DEF Spec

-----------------------------------------------------------------------------
(* Each job starts on a record that keeps the other from starting. *)
LEMMA NextExclusive == TypeOK /\ Exclusive /\ [Next]_vars => Exclusive'
<1> SUFFICES ASSUME TypeOK, Exclusive, [Next]_vars PROVE Exclusive'
  OBVIOUS
<1> USE DEF TypeOK, Exclusive, files, history
<1>1. CASE EntryStart
  BY <1>1 DEF EntryStart, MayEnter
<1>2. CASE EntryGivesUp \/ EntryPlace \/ EntryRecord \/ EntryDies
  BY <1>2 DEF EntryGivesUp, EntryPlace, EntryRecord, EntryDies
<1>3. CASE SweepStart
  BY <1>3 DEF SweepStart
<1>4. CASE SweepHolds \/ SweepPlace \/ SweepMark \/ SweepFails \/ SweepDies
  BY <1>4 DEF SweepHolds, SweepPlace, SweepMark, SweepFails, SweepDies, MarkEntryClosed
<1>5. CASE Operator \/ Tick
  BY <1>5 DEF Operator, Tick
<1>6. CASE UNCHANGED <<record, epc, mpc, swept>>
  BY <1>6
<1>7. \/ EntryStart \/ EntryGivesUp \/ EntryPlace \/ EntryRecord \/ EntryDies
      \/ SweepStart \/ SweepHolds \/ SweepPlace \/ SweepMark \/ SweepFails \/ SweepDies
      \/ Operator \/ Tick \/ UNCHANGED <<record, epc, mpc, swept>>
  BY DEF Next, Outcome, vars
<1> QED BY <1>1, <1>2, <1>3, <1>4, <1>5, <1>6, <1>7

-----------------------------------------------------------------------------
(* The order whose job dies before it could record it is the last one. *)
LEMMA LastIsOnRecord ==
    ASSUME TypeOK, NEW role \in Role, OnRecord(role) = {Len(orders)}
    PROVE  LastSent(role) = Len(orders) /\ Len(orders) \in DOMAIN orders /\ orders[Len(orders)].role = role
<1>1. Len(orders) \in Nat /\ DOMAIN orders = 1..Len(orders)
  BY DEF TypeOK
<1>2. Len(orders) \in Sent(role) /\ Sent(role) \subseteq 1..Len(orders)
  BY <1>1 DEF OnRecord, Sent
<1>3. \A j \in Sent(role) : j <= Len(orders)
  BY <1>1, <1>2
<1>4. ASSUME NEW i \in Sent(role), \A j \in Sent(role) : j <= i PROVE i = Len(orders)
  BY <1>1, <1>2, <1>4
<1>5. LastSent(role) = Len(orders)
  BY <1>2, <1>3, <1>4 DEF LastSent
<1> QED BY <1>1, <1>2, <1>5 DEF Sent

(* A step that sends no order and loses none. *)
LEMMA SentKept ==
    ASSUME TypeOK,
           \/ UNCHANGED <<orders, lost>>
           \/ \E i \in DOMAIN orders : \E status \in {"filled", "dead"} : Outcome(i, status)
    PROVE  /\ DOMAIN orders' = DOMAIN orders /\ Len(orders') = Len(orders) /\ lost' = lost
           /\ \A j \in DOMAIN orders : orders'[j].role = orders[j].role /\ orders'[j].lots = orders[j].lots
           /\ \A r : Sent(r)' = Sent(r)
           /\ \A r : OnRecord(r)' = OnRecord(r)
<1>1. CASE UNCHANGED <<orders, lost>>
  BY <1>1 DEF Sent, OnRecord
<1>2. ASSUME NEW i \in DOMAIN orders, NEW status \in {"filled", "dead"}, Outcome(i, status)
      PROVE  /\ DOMAIN orders' = DOMAIN orders /\ Len(orders') = Len(orders) /\ lost' = lost
             /\ \A j \in DOMAIN orders : orders'[j].role = orders[j].role /\ orders'[j].lots = orders[j].lots
             /\ \A r : Sent(r)' = Sent(r)
             /\ \A r : OnRecord(r)' = OnRecord(r)
  <2>1. lost' = lost
    BY <1>2 DEF Outcome, history
  <2>2. /\ DOMAIN orders' = DOMAIN orders /\ Len(orders') = Len(orders)
        /\ \A j \in DOMAIN orders : orders'[j].role = orders[j].role /\ orders'[j].lots = orders[j].lots
        /\ \A r : Sent(r)' = Sent(r)
    BY <1>2, OutcomeKeeps
  <2> QED BY <2>1, <2>2 DEF OnRecord
<1> QED BY <1>1, <1>2

(* The steps that touch no order, except for what the broker does to one. *)
Quiet == \/ EntryStart \/ EntryGivesUp \/ EntryRecord
         \/ SweepStart \/ SweepHolds \/ SweepMark \/ SweepFails
         \/ Operator \/ Tick
         \/ \E i \in DOMAIN orders : \E status \in {"filled", "dead"} : Outcome(i, status)
         \/ UNCHANGED vars

(* A step sends an order, loses one or is quiet. *)
LEMMA StepCases ==
    [Next]_vars => EntryPlace \/ EntryDies \/ SweepPlace \/ SweepDies \/ Quiet
BY DEF Next, Quiet

(* A quiet step leaves the orders sent as they are. *)
LEMMA QuietKeeps ==
    ASSUME TypeOK, Quiet
    PROVE  /\ DOMAIN orders' = DOMAIN orders /\ Len(orders') = Len(orders) /\ lost' = lost
           /\ \A j \in DOMAIN orders : orders'[j].role = orders[j].role /\ orders'[j].lots = orders[j].lots
           /\ \A r : Sent(r)' = Sent(r)
           /\ \A r : OnRecord(r)' = OnRecord(r)
<1>1. CASE \E i \in DOMAIN orders : \E status \in {"filled", "dead"} : Outcome(i, status)
  BY <1>1, SentKept
<1>2. CASE UNCHANGED <<orders, lost>>
  BY <1>2, SentKept
<1>3. \/ \E i \in DOMAIN orders : \E status \in {"filled", "dead"} : Outcome(i, status)
      \/ UNCHANGED <<orders, lost>>
  BY DEF Quiet, EntryStart, EntryGivesUp, EntryRecord, SweepStart, SweepHolds, SweepMark, SweepFails,
         Operator, Tick, history, vars
<1> QED BY <1>1, <1>2, <1>3

(* Of the record and the jobs, a quiet step changes only one. *)
LEMMA QuietMoves ==
    ASSUME TypeOK, Exclusive, Quiet
    PROVE  \/ record' = record /\ epc' = epc /\ mpc' = mpc
           \/ record' = record /\ epc # "placed" /\ epc' # "placed" /\ mpc' = mpc
           \/ record' = record /\ mpc # "placed" /\ mpc' # "placed" /\ epc' = epc
           \/ record = "none" /\ epc = "placed" /\ record' = "open" /\ epc' = "idle" /\ mpc' = mpc
           \/ mpc = "placed" /\ record' = "closed" /\ mpc' = "idle" /\ epc' = epc
<1>1. CASE EntryStart \/ EntryGivesUp
  BY <1>1 DEF EntryStart, EntryGivesUp, files
<1>2. CASE EntryRecord
  BY <1>2 DEF EntryRecord, Exclusive
<1>3. CASE SweepStart \/ SweepHolds \/ SweepFails
  BY <1>3 DEF SweepStart, SweepHolds, SweepFails, files
<1>4. CASE SweepMark
  BY <1>4 DEF SweepMark, MarkEntryClosed
<1>5. CASE record' = record /\ epc' = epc /\ mpc' = mpc
  BY <1>5
<1>6. \/ EntryStart \/ EntryGivesUp \/ EntryRecord \/ SweepStart \/ SweepHolds \/ SweepFails \/ SweepMark
      \/ record' = record /\ epc' = epc /\ mpc' = mpc
  BY DEF Quiet, Outcome, Operator, Tick, files, vars
<1> QED BY <1>1, <1>2, <1>3, <1>4, <1>5, <1>6

(* A job sends its order only while the record tells of none. *)
LEMMA NextOrdersRecorded ==
    TypeOK /\ Exclusive /\ OrdersRecorded /\ [Next]_vars => OrdersRecorded'
<1> SUFFICES ASSUME TypeOK, Exclusive, OrdersRecorded, [Next]_vars PROVE OrdersRecorded'
  OBVIOUS
<1> DEFINE n == Len(orders)
<1> USE DEF Role
<1>0. n \in Nat /\ DOMAIN orders = 1..n /\ lost \subseteq 1..n /\ Len(orders) + 1 \notin lost
  BY DEF TypeOK, OrdersRecorded
<1>1. CASE EntryPlace
  <2>1. record = "none" /\ mpc = "idle" /\ epc # "placed" /\ epc' = "placed"
        /\ record' = record /\ mpc' = mpc /\ lost' = lost
    BY <1>1 DEF EntryPlace, Exclusive, files, history
  <2>2. OnRecord("entry") = {} /\ OnRecord("close") = {}
    BY <2>1 DEF OrdersRecorded
  <2>3. Sent("entry")' = Sent("entry") \cup {n + 1} /\ Sent("close")' = Sent("close")
        /\ Len(orders') = n + 1 /\ DOMAIN orders' = 1..(n + 1)
    BY <1>1, Placement DEF TypeOK, EntryPlace
  <2>4. OnRecord("entry")' = {n + 1} /\ OnRecord("close")' = {}
    BY <1>0, <2>1, <2>2, <2>3 DEF OnRecord
  <2>5. lost' \subseteq DOMAIN orders'
    BY <1>0, <2>1, <2>3
  <2> QED BY <2>1, <2>3, <2>4, <2>5 DEF OrdersRecorded
<1>2. CASE SweepPlace
  <2>1. record = "open" /\ epc = "idle" /\ mpc # "placed" /\ mpc' = "placed"
        /\ record' = record /\ epc' = epc /\ lost' = lost
    BY <1>2 DEF SweepPlace, Exclusive, files, history
  <2>2. OnRecord("close") = {} /\ \A i, j \in OnRecord("entry") : i = j
    BY <2>1 DEF OrdersRecorded
  <2>3. Sent("close")' = Sent("close") \cup {n + 1} /\ Sent("entry")' = Sent("entry")
        /\ Len(orders') = n + 1 /\ DOMAIN orders' = 1..(n + 1)
    BY <1>2, Placement DEF TypeOK, SweepPlace, CloseLots
  <2>4. OnRecord("close")' = {n + 1} /\ OnRecord("entry")' = OnRecord("entry")
    BY <1>0, <2>1, <2>2, <2>3 DEF OnRecord
  <2>5. lost' \subseteq DOMAIN orders'
    BY <1>0, <2>1, <2>3
  <2> QED BY <2>1, <2>2, <2>3, <2>4, <2>5 DEF OrdersRecorded
<1>3. CASE EntryDies
  <2>1. record = "none" /\ mpc = "idle" /\ epc = "placed" /\ epc' = "idle" /\ mpc' = mpc
        /\ orders' = orders /\ lost' = lost \cup {LastSent("entry")} /\ record' # "closed"
    BY <1>3 DEF EntryDies, Exclusive
  <2>2. OnRecord("entry") = {n} /\ OnRecord("close") = {}
    BY <2>1 DEF OrdersRecorded
  <2>3. LastSent("entry") = n /\ n \in DOMAIN orders
    BY <2>2, LastIsOnRecord
  <2>4. OnRecord("entry")' = {} /\ OnRecord("close")' = {}
    BY <2>1, <2>2, <2>3 DEF OnRecord, Sent
  <2>5. lost' \subseteq DOMAIN orders'
    BY <1>0, <2>1, <2>3
  <2> QED BY <2>1, <2>4, <2>5 DEF OrdersRecorded
<1>4. CASE SweepDies
  <2>1. record = "open" /\ epc = "idle" /\ mpc = "placed" /\ mpc' = "idle" /\ epc' = epc
        /\ orders' = orders /\ lost' = lost \cup {LastSent("close")} /\ record' \in {"open", "torn"}
    BY <1>4 DEF SweepDies, Exclusive
  <2>2. OnRecord("close") = {n} /\ \A i, j \in OnRecord("entry") : i = j
    BY <2>1 DEF OrdersRecorded
  <2>3. LastSent("close") = n /\ n \in DOMAIN orders /\ orders[n].role = "close"
    BY <2>2, LastIsOnRecord
  <2>4. OnRecord("close")' = {} /\ OnRecord("entry")' = OnRecord("entry")
    BY <2>1, <2>2, <2>3 DEF OnRecord, Sent
  <2>5. lost' \subseteq DOMAIN orders'
    BY <1>0, <2>1, <2>3
  <2> QED BY <2>1, <2>2, <2>4, <2>5 DEF OrdersRecorded
<1>5. CASE Quiet
  <2>1. DOMAIN orders' = DOMAIN orders /\ Len(orders') = Len(orders) /\ lost' = lost
        /\ OnRecord("entry")' = OnRecord("entry") /\ OnRecord("close")' = OnRecord("close")
    BY <1>5, QuietKeeps
  <2>2. lost' \subseteq DOMAIN orders'
    BY <2>1 DEF OrdersRecorded
  <2>3. \A role \in Role : \A i, j \in OnRecord(role)' : i = j
    BY <2>1 DEF OrdersRecorded
  <2>4. /\ (record' = "none" /\ epc' # "placed") => OnRecord("entry")' = {}
        /\ epc' = "placed" => OnRecord("entry")' = {Len(orders')}
        /\ (record' # "closed" /\ mpc' # "placed") => OnRecord("close")' = {}
        /\ mpc' = "placed" => OnRecord("close")' = {Len(orders')}
    BY <1>5, <2>1, QuietMoves DEF OrdersRecorded
  <2> QED BY <2>2, <2>3, <2>4 DEF OrdersRecorded
<1> QED BY <1>1, <1>2, <1>3, <1>4, <1>5, StepCases

(* The sweep closes only what the record says is open. *)
LEMMA NextCloseFollowsEntry ==
    TypeOK /\ Exclusive /\ OrdersRecorded /\ CloseFollowsEntry /\ [Next]_vars => CloseFollowsEntry'
<1> SUFFICES ASSUME TypeOK, Exclusive, OrdersRecorded, CloseFollowsEntry, [Next]_vars
             PROVE  CloseFollowsEntry'
  OBVIOUS
<1> USE DEF Role
<1>1. CASE EntryPlace
  <2>1. record = "none" /\ record' = record
    BY <1>1 DEF EntryPlace, Exclusive, files
  <2>2. Sent("entry")' # {}
    BY <1>1, Placement DEF TypeOK, EntryPlace
  <2>3. \A i \in DOMAIN orders' : orders'[i].lots = IF orders'[i].role = "entry" THEN 1 ELSE -1
    BY <1>1, Placement DEF TypeOK, EntryPlace, CloseFollowsEntry
  <2> QED BY <2>1, <2>2, <2>3 DEF CloseFollowsEntry
<1>2. CASE SweepPlace
  <2>1. record = "open" /\ record' = record
    BY <1>2 DEF SweepPlace, Exclusive, files
  <2>2. Sent("entry")' # {} /\ Sent("close")' # {}
    BY <1>2, <2>1, Placement DEF TypeOK, SweepPlace, CloseLots, CloseFollowsEntry
  <2>3. \A i \in DOMAIN orders' : orders'[i].lots = IF orders'[i].role = "entry" THEN 1 ELSE -1
    BY <1>2, Placement DEF TypeOK, SweepPlace, CloseLots, CloseFollowsEntry
  <2> QED BY <2>1, <2>2, <2>3 DEF CloseFollowsEntry
<1>3. CASE EntryDies \/ SweepDies
  <2>1. orders' = orders /\ record' \in {record, "torn"}
    BY <1>3 DEF EntryDies, SweepDies
  <2> QED BY <2>1 DEF CloseFollowsEntry, Sent
<1>4. CASE Quiet
  <2>1. DOMAIN orders' = DOMAIN orders
        /\ (\A j \in DOMAIN orders : orders'[j].role = orders[j].role /\ orders'[j].lots = orders[j].lots)
        /\ Sent("entry")' = Sent("entry") /\ Sent("close")' = Sent("close")
    BY <1>4, QuietKeeps
  <2>2. \A i \in DOMAIN orders' : orders'[i].lots = IF orders'[i].role = "entry" THEN 1 ELSE -1
    BY <2>1 DEF CloseFollowsEntry
  <2>3. epc = "placed" => Sent("entry") # {}
    BY DEF OrdersRecorded, OnRecord
  <2>4. mpc = "placed" => record = "open" /\ Sent("close") # {}
    BY DEF OrdersRecorded, OnRecord, Exclusive
  <2> QED BY <1>4, <2>1, <2>2, <2>3, <2>4, QuietMoves DEF CloseFollowsEntry
<1> QED BY <1>1, <1>2, <1>3, <1>4, StepCases

(* From the force-close time on no sweep ends with "hold". *)
LEMMA NextForceCloses ==
    TypeOK /\ Exclusive /\ ForceCloses /\ [Next]_vars => ForceCloses'
<1> SUFFICES ASSUME TypeOK, Exclusive, ForceCloses, [Next]_vars PROVE ForceCloses'
  OBVIOUS
<1> USE TicksAssumption DEF TypeOK
<1>1. CASE EntryRecord
  BY <1>1 DEF EntryRecord, Exclusive, ForceCloses
<1>2. CASE EntryDies
  BY <1>2 DEF EntryDies, Exclusive, ForceCloses
<1>3. CASE SweepStart
  BY <1>3 DEF SweepStart, ForceCloses, files, history
<1>4. CASE SweepHolds
  <2>1. ~ (clock >= ForceTick)
    BY <1>4 DEF SweepHolds, Trigger, ForceDue
  <2> QED BY <1>4, <2>1 DEF SweepHolds, ForceCloses, files, history
<1>5. CASE SweepPlace
  BY <1>5 DEF SweepPlace, ForceCloses, files, history
<1>6. CASE SweepMark
  BY <1>6 DEF SweepMark, MarkEntryClosed, ForceCloses
<1>7. CASE SweepFails
  BY <1>7 DEF SweepFails, ForceCloses, files, Exclusive
<1>8. CASE SweepDies
  BY <1>8 DEF SweepDies, ForceCloses, Exclusive
<1>9. CASE Tick
  <2>1. record' = record /\ since' = since /\ clock' = clock + 1 /\ swept' = FALSE /\ mpc = "idle"
    BY <1>9, Zenon DEF Tick, files
  <2>2. (~ swept /\ record = "open" => clock \in fault') /\ \A t \in fault : t \in fault'
    <3>1. CASE ~ swept /\ record = "open"
      <4>1. fault' = fault \cup {clock}
        BY <1>9, <3>1, Zenon DEF Tick
      <4> QED BY <4>1, Zenon
    <3>2. CASE ~ (~ swept /\ record = "open")
      <4>1. fault' = fault
        BY <1>9, <3>2, Zenon DEF Tick
      <4> QED BY <3>2, <4>1, Zenon
    <3> QED BY <3>1, <3>2, Zenon
  <2>3. record = "open" /\ clock >= ForceTick => clock \in fault'
    BY <2>1, <2>2, Zenon DEF ForceCloses
  <2>4. ASSUME record = "open", NEW t \in ForceTick..clock, t > since PROVE t \in fault'
    <3>1. CASE t = clock
      BY <2>3, <2>4, <3>1
    <3>2. CASE t # clock
      <4>1. t \in ForceTick..(clock - 1)
        BY <3>2
      <4> QED BY <2>2, <2>4, <4>1 DEF ForceCloses
    <3> QED BY <3>1, <3>2
  <2>5. clock' - 1 = clock
    BY <2>1
  <2> QED BY <2>1, <2>4, <2>5, Zenon DEF ForceCloses
<1>10. CASE UNCHANGED <<clock, swept, record, mpc, since, fault>>
  BY <1>10 DEF ForceCloses
<1>11. \/ EntryRecord \/ EntryDies
       \/ SweepStart \/ SweepHolds \/ SweepPlace \/ SweepMark \/ SweepFails \/ SweepDies \/ Tick
       \/ UNCHANGED <<clock, swept, record, mpc, since, fault>>
  BY DEF Next, EntryStart, EntryGivesUp, EntryPlace, Operator, Outcome, vars, files, history
<1> QED BY <1>1, <1>2, <1>3, <1>4, <1>5, <1>6, <1>7, <1>8, <1>9, <1>10, <1>11

-----------------------------------------------------------------------------
DayInv == TypeOK /\ Exclusive /\ OrdersRecorded /\ CloseFollowsEntry /\ ForceCloses

(* A day begins without record and without orders. *)
LEMMA InitDayInv == Init => DayInv
<1> SUFFICES ASSUME Init PROVE DayInv
  OBVIOUS
<1>1. \A r : Sent(r) = {} /\ OnRecord(r) = {}
  BY DEF Init, Sent, OnRecord
<1>2. lost \subseteq DOMAIN orders /\ DOMAIN orders = {}
  BY DEF Init
<1>3. OrdersRecorded /\ CloseFollowsEntry
  BY <1>1, <1>2, Zenon DEF Init, OrdersRecorded, CloseFollowsEntry
<1>4. Exclusive /\ ForceCloses
  BY DEF Init, Exclusive, ForceCloses
<1> QED BY <1>3, <1>4, InitTypeOK DEF DayInv

(* The invariant of a day. *)
LEMMA DayInvariant == Spec => []DayInv
<1>1. DayInv /\ [Next]_vars => DayInv'
  BY NextTypeOK, NextExclusive, NextOrdersRecorded, NextCloseFollowsEntry, NextForceCloses DEF DayInv
<1> QED BY <1>1, InitDayInv, PTL DEF Spec

-----------------------------------------------------------------------------
(* A set whose members are all equal. *)
LEMMA AtMostOne ==
    ASSUME NEW S, \A x, y \in S : x = y
    PROVE  IsFiniteSet(S) /\ Cardinality(S) \in 0..1 /\ (S # {} => Cardinality(S) = 1)
<1>1. CASE S = {}
  <2>1. IsFiniteSet(S) /\ Cardinality(S) = 0
    BY <1>1, FS_EmptySet
  <2>2. 0 \in 0..1
    OBVIOUS
  <2> QED BY <1>1, <2>1, <2>2, Zenon
<1>2. CASE S # {}
  <2>1. PICK x \in S : TRUE
    BY <1>2
  <2>2. S = {x}
    BY <2>1
  <2>3. IsFiniteSet({x}) /\ Cardinality({x}) = 1
    BY FS_Singleton
  <2> QED BY <2>2, <2>3
<1> QED BY <1>1, <1>2

(* One entry order and one closing order a day, but for one more for every  *)
(* job that died between its placement and its record: what is started      *)
(* again finds the record and refuses (run_entry, run_management).          *)
THEOREM OneOrderPerDay == Spec => []OneOrderEach
<1>1. ASSUME DayInv PROVE OneOrderEach
  <2> SUFFICES ASSUME NEW role \in Role
               PROVE  Cardinality(Sent(role)) <= 1 + Cardinality(lost \cap Sent(role))
    BY DEF OneOrderEach, Role
  <2>1. Len(orders) \in Nat /\ Sent(role) \subseteq 1..Len(orders) /\ IsFiniteSet(1..Len(orders))
    BY <1>1, FS_Interval DEF DayInv, TypeOK, Sent
  <2>2. IsFiniteSet(Sent(role)) /\ IsFiniteSet(lost \cap Sent(role))
    BY <2>1, FS_Subset
  <2>3. IsFiniteSet(OnRecord(role)) /\ Cardinality(OnRecord(role)) \in 0..1
    BY <1>1, AtMostOne DEF DayInv, OrdersRecorded
  <2>4. Sent(role) = OnRecord(role) \cup (lost \cap Sent(role))
        /\ OnRecord(role) \cap (lost \cap Sent(role)) = {}
    BY DEF OnRecord
  <2>5. Cardinality(Sent(role)) = Cardinality(OnRecord(role)) + Cardinality(lost \cap Sent(role))
    <3>1. Cardinality(OnRecord(role) \cup (lost \cap Sent(role)))
             = Cardinality(OnRecord(role)) + Cardinality(lost \cap Sent(role))
                 - Cardinality(OnRecord(role) \cap (lost \cap Sent(role)))
      BY <2>2, <2>3, FS_Union
    <3>2. Cardinality({}) = 0
      BY FS_EmptySet
    <3>3. Cardinality(OnRecord(role)) \in Nat /\ Cardinality(lost \cap Sent(role)) \in Nat
      BY <2>2, <2>3, FS_CardinalityType
    <3>4. Cardinality(OnRecord(role) \cap (lost \cap Sent(role))) = 0
      BY <2>4, <3>2
    <3>5. Cardinality(Sent(role)) = Cardinality(OnRecord(role) \cup (lost \cap Sent(role)))
      BY <2>4
    <3> QED BY <3>1, <3>3, <3>4, <3>5
  <2> QED BY <2>2, <2>3, <2>5, FS_CardinalityType
<1> QED BY <1>1, DayInvariant, PTL

(* The lots held are the filled entries less the filled closes. *)
LEMMA LotsByRole ==
    ASSUME TypeOK, CloseFollowsEntry
    PROVE  /\ Lots(1) = Cardinality({i \in Sent("entry") : orders[i].status = "filled"})
           /\ Lots(-1) = Cardinality({i \in Sent("close") : orders[i].status = "filled"})
<1>1. \A i \in DOMAIN orders : orders[i] \in ComboOrder
  BY DEF TypeOK
<1>2. \A i \in DOMAIN orders : /\ orders[i].lots = 1 <=> orders[i].role = "entry"
                               /\ orders[i].lots = -1 <=> orders[i].role = "close"
  BY <1>1 DEF CloseFollowsEntry, ComboOrder, Role
<1>3. {i \in DOMAIN orders : orders[i].lots = 1 /\ orders[i].status = "filled"}
        = {i \in Sent("entry") : orders[i].status = "filled"}
  <2>1. ASSUME NEW i \in DOMAIN orders PROVE orders[i].lots = 1 <=> i \in Sent("entry")
    <3>1. i \in Sent("entry") <=> orders[i].role = "entry"
      BY DEF Sent
    <3> QED BY <1>2, <3>1
  <2>2. Sent("entry") \subseteq DOMAIN orders
    BY Zenon DEF Sent
  <2> QED BY <2>1, <2>2
<1>4. {i \in DOMAIN orders : orders[i].lots = -1 /\ orders[i].status = "filled"}
        = {i \in Sent("close") : orders[i].status = "filled"}
  <2>1. ASSUME NEW i \in DOMAIN orders PROVE orders[i].lots = -1 <=> i \in Sent("close")
    <3>1. i \in Sent("close") <=> orders[i].role = "close"
      BY DEF Sent
    <3> QED BY <1>2, <3>1
  <2>2. Sent("close") \subseteq DOMAIN orders
    BY Zenon DEF Sent
  <2> QED BY <2>1, <2>2
<1> QED BY <1>3, <1>4 DEF Lots

(* The filled orders of a role of which none was lost: at most one, and one *)
(* if an order was sent and every one filled.                               *)
LEMMA FilledOfRole ==
    ASSUME DayInv, NEW role \in Role
    PROVE  LET filled == {i \in Sent(role) : orders[i].status = "filled"}
           IN  /\ Cardinality(filled) \in Nat
               /\ lost \cap Sent(role) = {} => Cardinality(filled) <= 1
               /\ (Sent(role) # {} /\ \A i \in Sent(role) : orders[i].status = "filled")
                     => Cardinality(filled) >= 1
               /\ Sent(role) = {} => Cardinality(filled) = 0
<1> DEFINE filled == {i \in Sent(role) : orders[i].status = "filled"}
<1>1. Len(orders) \in Nat /\ filled \subseteq 1..Len(orders) /\ IsFiniteSet(1..Len(orders))
  BY FS_Interval DEF DayInv, TypeOK, Sent
<1>2. IsFiniteSet(filled) /\ Cardinality(filled) \in Nat
  BY <1>1, FS_Subset, FS_CardinalityType
<1>3. ASSUME lost \cap Sent(role) = {} PROVE Cardinality(filled) <= 1
  <2>1. Sent(role) = OnRecord(role)
    BY <1>3 DEF OnRecord
  <2>2. \A x, y \in filled : x = y
    BY <2>1 DEF DayInv, OrdersRecorded
  <2> QED BY <2>2, AtMostOne
<1>4. ASSUME Sent(role) # {}, \A i \in Sent(role) : orders[i].status = "filled"
      PROVE  Cardinality(filled) >= 1
  <2>1. filled # {}
    BY <1>4
  <2>2. Cardinality(filled) # 0
    BY <1>2, <2>1, FS_EmptySet
  <2> QED BY <1>2, <2>2
<1>5. ASSUME Sent(role) = {} PROVE Cardinality(filled) = 0
  <2>1. filled = {}
    BY <1>5
  <2> QED BY <2>1, FS_EmptySet
<1> HIDE DEF filled
<1>6. /\ Cardinality(filled) \in Nat
      /\ lost \cap Sent(role) = {} => Cardinality(filled) <= 1
      /\ (Sent(role) # {} /\ \A i \in Sent(role) : orders[i].status = "filled")
            => Cardinality(filled) >= 1
      /\ Sent(role) = {} => Cardinality(filled) = 0
  BY <1>2, <1>3, <1>4, <1>5
<1> QED BY <1>6 DEF filled

(* The record is written when an order is placed, not when it fills.  What  *)
(* the position then is and the record does not say comes from a leg that   *)
(* did not fill or from a job that died: there is no third cause.           *)
THEOREM MisstatedIsExplained == Spec => []MisstatedHasACause
<1>1. ASSUME DayInv PROVE MisstatedHasACause
  <2> DEFINE bought == {i \in Sent("entry") : orders[i].status = "filled"}
             sold == {i \in Sent("close") : orders[i].status = "filled"}
  <2>1. Held = Cardinality(bought) - Cardinality(sold)
    BY <1>1, LotsByRole DEF Held, DayInv
  <2>2. /\ Cardinality(bought) \in Nat
        /\ lost \cap Sent("entry") = {} => Cardinality(bought) <= 1
        /\ (Sent("entry") # {} /\ \A i \in Sent("entry") : orders[i].status = "filled")
              => Cardinality(bought) >= 1
    BY <1>1, FilledOfRole DEF Role
  <2>3. /\ Cardinality(sold) \in Nat
        /\ lost \cap Sent("close") = {} => Cardinality(sold) <= 1
        /\ (Sent("close") # {} /\ \A i \in Sent("close") : orders[i].status = "filled")
              => Cardinality(sold) >= 1
        /\ Sent("close") = {} => Cardinality(sold) = 0
    BY <1>1, FilledOfRole DEF Role
  <2> HIDE DEF bought, sold
  <2>4. ASSUME record = "closed", Held > 0,
               \A i \in Sent("close") : orders[i].status = "filled"
        PROVE  lost \cap Sent("entry") # {}
    <3>1. Sent("close") # {}
      BY <1>1, <2>4 DEF DayInv, CloseFollowsEntry
    <3> QED BY <2>1, <2>2, <2>3, <2>4, <3>1
  <2>5. ASSUME Held < 0, \A i \in Sent("entry") : orders[i].status = "filled"
        PROVE  lost \cap Sent("close") # {}
    <3>1. Sent("close") # {}
      BY <2>1, <2>2, <2>3, <2>5
    <3>2. Sent("entry") # {}
      BY <1>1, <3>1 DEF DayInv, CloseFollowsEntry
    <3> QED BY <2>1, <2>2, <2>3, <2>5, <3>2
  <2> QED BY <2>4, <2>5 DEF MisstatedHasACause
<1> QED BY <1>1, DayInvariant, PTL

(* A record still open at the end of the day: no sweep of the force-close   *)
(* period ran to its end, for whatever number of ticks the period has.      *)
THEOREM DayEndsClosedOrFaulty == Spec => []DayEndsClosed
<1>1. ASSUME DayInv PROVE DayEndsClosed
  BY <1>1, TicksAssumption DEF DayInv, TypeOK, ForceCloses, DayEndsClosed
<1> QED BY <1>1, DayInvariant, PTL
=============================================================================
