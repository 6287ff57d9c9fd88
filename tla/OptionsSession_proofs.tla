----------------------- MODULE OptionsSession_proofs -----------------------
(***************************************************************************)
(* What holds of the live-options session for any number of dates,         *)
(* candidates, runs, orders and dealings of others, at a broker that       *)
(* refuses a client order id it has seen (BrokerDedups; without it the     *)
(* command, run again, enters twice).  Three facts carry the argument.  An *)
(* id is filled once (IdsOnce).  An order that is neither dead nor filled  *)
(* in part nor let go of is on the registry, but for the one the session   *)
(* waits for (SeenOrLeft).  And what is due to be closed has no live close *)
(* but those that were still working when this run began, or came since    *)
(* (DueAlone), so that of two live closes of one position the earlier was  *)
(* still to come when the run of the later began (Crossing).               *)
(***************************************************************************)
EXTENDS OptionsSession, FiniteSetTheorems, SequenceTheorems, TLAPS

Role == {"entry", "flatten"}
Status == {"working", "filled", "part", "dead"}
Coid == (Role \X Position) \cup ({"flatten"} \X Nat \X Nat \X Range(StrategyOf))
ComboOrder == [coid : Coid, role : Role, pos : Position, left : BOOLEAN, status : Status, from : Nat, until : Nat]
Row == [type : {"open", "close"}, pos : Position]
OpenRow(p) == [type |-> "open", pos |-> p]
CloseOf(p) == [type |-> "close", pos |-> p]
RowOf(order) == IF order.role = "entry" THEN OpenRow(order.pos) ELSE CloseOf(order.pos)

TypeOK ==
    /\ day \in 1..MaxDay /\ runs \in Nat
    /\ pc \in {"idle", "route", "closing", "entering"}
    /\ todo \in Seq(Position) /\ entries \in Seq(1..MaxEntry) /\ seq \in Nat
    /\ book \in {"none", "working", "filled", "dead"} /\ current \in Nat
    /\ orders \in Seq(ComboOrder)
    /\ stray \subseteq Position
    /\ registry \in Seq(Row)

(* The order the session waits for is the one it placed for the item at the *)
(* head of its list, and the book is never ahead of the broker.  No close   *)
(* is due between two runs.  What is still working has seen every run       *)
(* begin.                                                                   *)
AwaitsCurrent ==
    /\ pc = "idle" => todo = <<>>
    /\ pc = "closing" =>
          /\ todo # <<>> /\ current \in DOMAIN orders
          /\ orders[current].role = "flatten" /\ orders[current].pos = Head(todo)
    /\ pc = "entering" =>
          /\ entries # <<>> /\ current \in DOMAIN orders
          /\ orders[current].role = "entry" /\ orders[current].pos = <<day, Head(entries)>>
    /\ pc \in {"closing", "entering"} =>
          \/ book = "working"
          \/ book = "filled" /\ orders[current].status = "filled"
          \/ book = "dead" /\ orders[current].status \in {"dead", "part"}
    /\ \A i \in DOMAIN orders :
          orders[i].role = "flatten" /\ orders[i].status = "working" => orders[i].until = runs

(* An entry bears the id of its position; of the orders of one id all but   *)
(* the first are refused.                                                   *)
IdsOnce ==
    /\ \A i \in DOMAIN orders : orders[i].role = "entry" => orders[i].coid = <<"entry", orders[i].pos>>
    /\ \A i, j \in DOMAIN orders :
          (i < j /\ orders[i].coid = orders[j].coid) => orders[j].status = "dead"

Awaited(i) == pc \in {"closing", "entering"} /\ i = current

(* What the session has let go of is marked, as is what others gave; the    *)
(* rest of what is not dead has filled, in part or onto the registry.       *)
SeenOrLeft ==
    \A i \in DOMAIN orders :
        (orders[i].status # "dead" /\ ~ orders[i].left /\ ~ Awaited(i)) =>
            \/ orders[i].status = "part"
            \/ orders[i].status = "filled" /\ RowOf(orders[i]) \in Range(registry)

(* Odd legs are left by an order filled in part. *)
StrayHasOrder ==
    \A p \in stray : \E i \in DOMAIN orders : orders[i].pos = p /\ orders[i].status = "part"

(* The rows of the registry have their orders. *)
RowsHaveOrders ==
    \A p \in Position :
        /\ OpenRow(p) \in Range(registry) => Traded("entry", p) # {}
        /\ CloseOf(p) \in Range(registry) => Traded("flatten", p) # {}

LiveClose(i) == orders[i].role = "flatten" /\ orders[i].status # "dead"

(* What is due is due once, was entered, and has no live close but those    *)
(* that were still to come when this run began, none of which the session   *)
(* waits for.                                                               *)
Due(p) ==
    /\ Traded("entry", p) # {}
    /\ \A i \in DOMAIN orders :
          (LiveClose(i) /\ orders[i].pos = p /\ ~ Awaited(i)) =>
              orders[i].until = runs /\ orders[i].left

DueAlone ==
    /\ \A m, n \in DOMAIN todo : todo[m] = todo[n] => m = n
    /\ \A m \in DOMAIN todo : Due(todo[m])

(* Only what was entered is closed, and of two live closes of one position  *)
(* the earlier was still to come when the run of the later began, and the   *)
(* session did not see both to their end.                                   *)
Crossing ==
    /\ \A i \in DOMAIN orders : orders[i].role = "flatten" => Traded("entry", orders[i].pos) # {}
    /\ \A i, j \in DOMAIN orders :
          (i < j /\ LiveClose(i) /\ LiveClose(j) /\ orders[i].pos = orders[j].pos) =>
              orders[i].until >= orders[j].from /\ (orders[i].left \/ orders[j].left)

SessionInv == /\ TypeOK /\ AwaitsCurrent /\ IdsOnce /\ SeenOrLeft /\ StrayHasOrder
              /\ RowsHaveOrders /\ DueAlone /\ Crossing

-----------------------------------------------------------------------------
(* A row appended is a row more. *)
LEMMA RangeAppend ==
    ASSUME NEW S, NEW s \in Seq(S), NEW x \in S
    PROVE  Append(s, x) \in Seq(S) /\ Range(Append(s, x)) = Range(s) \cup {x}
<1> DEFINE t == Append(s, x)
<1>1. /\ t \in Seq(S) /\ Len(s) \in Nat /\ DOMAIN s = 1..Len(s) /\ DOMAIN t = 1..(Len(s) + 1)
      /\ \A k \in 1..Len(s) : t[k] = s[k]
      /\ t[Len(s) + 1] = x
  OBVIOUS
<1> HIDE DEF t
<1>2. Range(t) = Range(s) \cup {x}
  BY <1>1 DEF Range
<1> QED BY <1>1, <1>2 DEF t

(* What a step that adds no order may do to the orders there are. *)
Kept ==
    /\ orders' \in Seq(ComboOrder)
    /\ Len(orders') = Len(orders) /\ DOMAIN orders' = DOMAIN orders
    /\ \A i \in DOMAIN orders :
          /\ orders'[i].coid = orders[i].coid /\ orders'[i].role = orders[i].role
          /\ orders'[i].pos = orders[i].pos
          /\ orders'[i].from = orders[i].from /\ orders'[i].until >= orders[i].until
          /\ orders[i].left => orders'[i].left
          /\ \/ orders'[i].status = orders[i].status
             \/ orders[i].status = "working" /\ orders'[i].status \in {"filled", "part", "dead"}

(* No run begins. *)
SameUntil == \A i \in DOMAIN orders : orders'[i].until = orders[i].until

(* The orders are numbered from 1 to their number. *)
LEMMA LengthFacts ==
    ASSUME TypeOK
    PROVE  /\ Len(orders) \in Nat /\ DOMAIN orders = 1..Len(orders)
           /\ \A i \in DOMAIN orders : orders[i] \in ComboOrder
<1>1. orders \in Seq(ComboOrder)
  BY DEF TypeOK
<1> QED BY <1>1

(* What is known of the order awaited. *)
LEMMA AwaitedFacts ==
    ASSUME TypeOK, AwaitsCurrent, pc \in {"closing", "entering"}
    PROVE  /\ current \in DOMAIN orders
           /\ book \in {"working", "filled", "dead"}
           /\ book = "filled" => orders[current].status = "filled"
           /\ book = "dead" => orders[current].status \in {"dead", "part"}
BY DEF AwaitsCurrent

(* A step that leaves the orders alone keeps them. *)
LEMMA SameKept == TypeOK /\ UNCHANGED orders => Kept /\ SameUntil
<1> SUFFICES ASSUME TypeOK, UNCHANGED orders PROVE Kept /\ SameUntil
  OBVIOUS
<1>1. \A i \in DOMAIN orders : orders[i].until \in Nat
  BY LengthFacts DEF ComboOrder
<1> QED BY <1>1 DEF TypeOK, Kept, SameUntil

(* A step that rewrites some orders, each as it may be, keeps them. *)
LEMMA Rewritten ==
    ASSUME TypeOK, DOMAIN orders' = DOMAIN orders, orders' = [i \in DOMAIN orders |-> orders'[i]],
           \A i \in DOMAIN orders :
              /\ orders'[i] \in ComboOrder
              /\ orders'[i].coid = orders[i].coid /\ orders'[i].role = orders[i].role
              /\ orders'[i].pos = orders[i].pos
              /\ orders'[i].from = orders[i].from /\ orders'[i].until >= orders[i].until
              /\ orders[i].left => orders'[i].left
              /\ \/ orders'[i].status = orders[i].status
                 \/ orders[i].status = "working" /\ orders'[i].status \in {"filled", "part", "dead"}
    PROVE  Kept
<1>1. Len(orders) \in Nat /\ DOMAIN orders = 1..Len(orders)
  BY LengthFacts
<1>2. orders' \in Seq(ComboOrder) /\ Len(orders') = Len(orders)
  BY <1>1
<1> QED BY <1>2 DEF Kept

(* Letting go of the order awaited marks it, and nothing else. *)
LEMMA LetGoKept ==
    ASSUME TypeOK, current \in DOMAIN orders, LetGo
    PROVE  /\ Kept /\ SameUntil /\ orders'[current].left
           /\ \A i \in DOMAIN orders : orders'[i].status = orders[i].status
<1> DEFINE o(i) == IF i = current THEN [orders[i] EXCEPT !.left = TRUE] ELSE orders[i]
<1>1. \A i \in DOMAIN orders : orders[i] \in ComboOrder /\ orders[i].until \in Nat
  BY LengthFacts DEF ComboOrder
<1>2. ASSUME NEW i \in DOMAIN orders
      PROVE  /\ o(i) \in ComboOrder
             /\ o(i).coid = orders[i].coid /\ o(i).role = orders[i].role /\ o(i).pos = orders[i].pos
             /\ o(i).from = orders[i].from /\ o(i).until = orders[i].until
             /\ orders[i].left => o(i).left
             /\ o(i).status = orders[i].status
  BY <1>1 DEF ComboOrder
<1>3. orders' = [i \in DOMAIN orders |-> o(i)]
  <2>1. orders = [i \in DOMAIN orders |-> orders[i]]
    <3>1. orders \in Seq(ComboOrder)
      BY DEF TypeOK
    <3> QED BY <3>1
  <2> QED BY <2>1 DEF LetGo
<1>4. o(current).left
  BY <1>1 DEF ComboOrder
<1>5. \A i \in DOMAIN orders : o(i).until >= orders[i].until
  BY <1>1, <1>2
<1> HIDE DEF o
<1>6. /\ DOMAIN orders' = DOMAIN orders /\ orders' = [i \in DOMAIN orders |-> orders'[i]]
      /\ \A i \in DOMAIN orders : orders'[i] = o(i)
  BY <1>3
<1>7. Kept
  BY <1>2, <1>5, <1>6, Rewritten
<1> QED BY <1>2, <1>4, <1>6, <1>7 DEF SameUntil

(* What becomes of an order at the broker touches its status only. *)
LEMMA OutcomeKept ==
    ASSUME TypeOK, NEW k \in DOMAIN orders, NEW status \in {"filled", "part", "dead"}, Outcome(k, status)
    PROVE  /\ Kept /\ SameUntil
           /\ \A i \in DOMAIN orders : orders'[i].left = orders[i].left
           /\ orders'[k].status = status
<1> DEFINE o(i) == IF i = k THEN [orders[i] EXCEPT !.status = status] ELSE orders[i]
<1>1. /\ \A i \in DOMAIN orders : orders[i] \in ComboOrder /\ orders[i].until \in Nat
      /\ orders[k].status = "working"
  BY LengthFacts DEF ComboOrder, Outcome
<1>2. ASSUME NEW i \in DOMAIN orders
      PROVE  /\ o(i) \in ComboOrder
             /\ o(i).coid = orders[i].coid /\ o(i).role = orders[i].role /\ o(i).pos = orders[i].pos
             /\ o(i).from = orders[i].from /\ o(i).until = orders[i].until
             /\ o(i).left = orders[i].left
             /\ \/ o(i).status = orders[i].status
                \/ orders[i].status = "working" /\ o(i).status \in {"filled", "part", "dead"}
  BY <1>1 DEF ComboOrder, Status
<1>3. orders' = [i \in DOMAIN orders |-> o(i)]
  <2>1. orders = [i \in DOMAIN orders |-> orders[i]]
    <3>1. orders \in Seq(ComboOrder)
      BY DEF TypeOK
    <3> QED BY <3>1
  <2> QED BY <2>1 DEF Outcome
<1>4. o(k).status = status
  BY <1>1 DEF ComboOrder
<1>5. \A i \in DOMAIN orders : o(i).until >= orders[i].until
  BY <1>1, <1>2
<1> HIDE DEF o
<1>6. /\ DOMAIN orders' = DOMAIN orders /\ orders' = [i \in DOMAIN orders |-> orders'[i]]
      /\ \A i \in DOMAIN orders : orders'[i] = o(i)
  BY <1>3
<1>7. Kept
  BY <1>2, <1>5, <1>6, Rewritten
<1> QED BY <1>2, <1>4, <1>6, <1>7 DEF SameUntil

(* With a run, what still works has seen it begin. *)
LEMMA StartKept ==
    ASSUME TypeOK, AwaitsCurrent, Start
    PROVE  /\ Kept
           /\ \A i \in DOMAIN orders :
                 /\ orders'[i].left = orders[i].left /\ orders'[i].status = orders[i].status
                 /\ orders'[i].role = "flatten" /\ orders'[i].status = "working" => orders'[i].until = runs'
<1> DEFINE o(i) == IF orders[i].role = "flatten" /\ orders[i].status = "working"
                   THEN [orders[i] EXCEPT !.until = runs + 1] ELSE orders[i]
<1>1. /\ \A i \in DOMAIN orders : orders[i] \in ComboOrder /\ orders[i].until \in Nat
      /\ runs \in Nat
  BY LengthFacts DEF ComboOrder, TypeOK
<1>2. \A i \in DOMAIN orders :
         orders[i].role = "flatten" /\ orders[i].status = "working" => orders[i].until = runs
  BY DEF AwaitsCurrent
<1>3. ASSUME NEW i \in DOMAIN orders
      PROVE  /\ o(i) \in ComboOrder
             /\ o(i).coid = orders[i].coid /\ o(i).role = orders[i].role /\ o(i).pos = orders[i].pos
             /\ o(i).from = orders[i].from /\ o(i).until >= orders[i].until
             /\ o(i).left = orders[i].left
             /\ o(i).status = orders[i].status
             /\ o(i).role = "flatten" /\ o(i).status = "working" => o(i).until = runs + 1
  BY <1>1, <1>2 DEF ComboOrder
<1>4. orders' = [i \in DOMAIN orders |-> o(i)] /\ runs' = runs + 1
  BY DEF Start, Begin
<1> HIDE DEF o
<1>5. /\ DOMAIN orders' = DOMAIN orders /\ orders' = [i \in DOMAIN orders |-> orders'[i]]
      /\ \A i \in DOMAIN orders : orders'[i] = o(i)
  BY <1>4
<1>6. Kept
  BY <1>3, <1>5, Rewritten
<1> QED BY <1>3, <1>4, <1>5, <1>6

(* What an order that comes adds. *)
Adds(role, coid, p, left) ==
    /\ orders' \in Seq(ComboOrder)
    /\ Len(orders') = Len(orders) + 1 /\ Len(orders) \in Nat
    /\ DOMAIN orders = 1..Len(orders) /\ DOMAIN orders' = 1..(Len(orders) + 1)
    /\ \A i \in DOMAIN orders : orders'[i] = orders[i]
    /\ orders'[Len(orders) + 1].role = role /\ orders'[Len(orders) + 1].coid = coid
    /\ orders'[Len(orders) + 1].pos = p /\ orders'[Len(orders) + 1].left = left
    /\ role = "flatten" => /\ orders'[Len(orders) + 1].from = runs
                           /\ orders'[Len(orders) + 1].until = runs
    /\ (\E i \in DOMAIN orders : orders[i].coid = coid) => orders'[Len(orders) + 1].status = "dead"

(* An order that comes is added. *)
LEMMA NewOrderAdds ==
    ASSUME TypeOK, NEW role \in Role, NEW coid \in Coid, NEW p \in Position, NEW status \in Status,
           NEW left \in BOOLEAN, NewOrder(role, coid, p, status, left),
           (\E i \in DOMAIN orders : orders[i].coid = coid) => status = "dead"
    PROVE  Adds(role, coid, p, left) /\ orders'[Len(orders) + 1].status = status
<1> DEFINE run == IF role = "flatten" THEN runs ELSE 0
           o == [coid |-> coid, role |-> role, pos |-> p, left |-> left, status |-> status,
                 from |-> run, until |-> run]
<1>1. run \in Nat /\ (role = "flatten" => run = runs)
  BY DEF TypeOK
<1>2. orders' = Append(orders, o)
  BY DEF NewOrder
<1> HIDE DEF run
<1>3. /\ o \in ComboOrder /\ o.role = role /\ o.coid = coid /\ o.pos = p /\ o.left = left
      /\ o.status = status /\ o.from = run /\ o.until = run
  BY <1>1 DEF ComboOrder
<1> HIDE DEF o
<1>4. /\ orders' \in Seq(ComboOrder)
      /\ Len(orders') = Len(orders) + 1 /\ Len(orders) \in Nat
      /\ DOMAIN orders = 1..Len(orders) /\ DOMAIN orders' = 1..(Len(orders) + 1)
      /\ \A i \in DOMAIN orders : orders'[i] = orders[i]
      /\ orders'[Len(orders) + 1] = o
  <2>1. orders \in Seq(ComboOrder)
    BY DEF TypeOK
  <2> QED BY <1>2, <1>3, <2>1, AppendProperties
<1> QED BY <1>1, <1>3, <1>4 DEF Adds

(* An order placed is refused if its id is known. *)
LEMMA Placement ==
    ASSUME TypeOK, BrokerDedups, NEW role \in Role, NEW coid \in Coid, NEW p \in Position,
           Place(role, coid, p)
    PROVE  Adds(role, coid, p, FALSE) /\ current' = Len(orders) + 1
<1> DEFINE st == IF BrokerDedups /\ \E i \in DOMAIN orders : orders[i].coid = coid THEN "dead" ELSE "working"
<1>1. st \in Status /\ ((\E i \in DOMAIN orders : orders[i].coid = coid) => st = "dead")
  BY DEF Status
<1>2. NewOrder(role, coid, p, st, FALSE) /\ current' = Len(orders) + 1
  BY DEF Place
<1> HIDE DEF st
<1> QED BY <1>1, <1>2, NewOrderAdds

(* The bounds are natural numbers. *)
LEMMA Bounds == MaxDay \in Nat /\ MaxEntry \in Nat
BY BoundsAssumption

(* The close loop adds a close of the position at the head of its list. *)
LEMMA CloseAdds ==
    ASSUME TypeOK, BrokerDedups, PlaceClose
    PROVE  /\ Head(todo) \in Position /\ 1 \in DOMAIN todo /\ todo[1] = Head(todo)
           /\ Adds("flatten", <<"flatten", day, seq, StrategyOf[Head(todo)]>>, Head(todo), FALSE)
           /\ current' = Len(orders) + 1
<1>1. todo \in Seq(Position) /\ todo # <<>> /\ day \in Nat /\ seq \in Nat
  BY Bounds DEF TypeOK, PlaceClose
<1>2. Head(todo) \in Position /\ 1 \in DOMAIN todo /\ todo[1] = Head(todo)
  BY <1>1, EmptySeq, LenProperties
<1> DEFINE coid == <<"flatten", day, seq, StrategyOf[Head(todo)]>>
<1>3. coid \in Coid
  <2>1. StrategyOf[Head(todo)] \in Range(StrategyOf)
    BY <1>2, StrategyAssumption DEF Range
  <2> QED BY <1>1, <2>1 DEF Coid
<1>4. Place("flatten", coid, Head(todo))
  BY DEF PlaceClose
<1> HIDE DEF coid
<1>5. "flatten" \in Role
  BY DEF Role
<1>6. Adds("flatten", coid, Head(todo), FALSE) /\ current' = Len(orders) + 1
  BY <1>2, <1>3, <1>4, <1>5, Placement
<1> QED BY <1>2, <1>6 DEF coid

(* The entry loop adds an entry of this date. *)
LEMMA EntryAdds ==
    ASSUME TypeOK, BrokerDedups, PlaceEntry
    PROVE  /\ <<day, Head(entries)>> \in Position
           /\ Adds("entry", <<"entry", <<day, Head(entries)>>>>, <<day, Head(entries)>>, FALSE)
           /\ current' = Len(orders) + 1
<1> DEFINE p == <<day, Head(entries)>>
<1>1. entries \in Seq(1..MaxEntry) /\ entries # <<>> /\ day \in 1..MaxDay
  BY DEF TypeOK, PlaceEntry
<1>2. Head(entries) \in 1..MaxEntry
  BY <1>1, HeadTailProperties
<1>3. p \in Position
  BY <1>1, <1>2 DEF Position, Own
<1>4. Place("entry", <<"entry", p>>, p)
  BY DEF PlaceEntry
<1> HIDE DEF p
<1>5. <<"entry", p>> \in Coid /\ "entry" \in Role
  BY <1>3 DEF Coid, Role
<1>6. Adds("entry", <<"entry", p>>, p, FALSE) /\ current' = Len(orders) + 1
  BY <1>3, <1>4, <1>5, Placement
<1> QED BY <1>3, <1>6 DEF p

(* What others give is added, and nothing but its odd legs with it. *)
LEMMA ElsewhereAdds ==
    ASSUME TypeOK, NEW role \in Role, NEW p \in Position, NEW status \in {"filled", "part"},
           Elsewhere(role, p, status)
    PROVE  /\ Adds(role, <<role, p>>, p, TRUE)
           /\ orders'[Len(orders) + 1].status = status
           /\ stray' = IF status = "part" THEN stray \cup {p} ELSE stray
           /\ UNCHANGED <<day, runs, process, registry>>
<1>1. <<role, p>> \in Coid /\ status \in Status
  BY DEF Coid, Status
<1>2. NewOrder(role, <<role, p>>, p, status, TRUE)
  BY DEF Elsewhere
<1>3. ~ \E i \in DOMAIN orders : orders[i].coid = <<role, p>>
  BY DEF Elsewhere
<1>4. Adds(role, <<role, p>>, p, TRUE) /\ orders'[Len(orders) + 1].status = status
  BY <1>1, <1>2, <1>3, NewOrderAdds
<1> QED BY <1>4 DEF Elsewhere

(* Others open a foreign position or close one that is held. *)
LEMMA OthersAdd ==
    ASSUME TypeOK
    PROVE  /\ \A p \in Foreign : OpenElsewhere(p) =>
                  /\ p \in Position /\ Adds("entry", <<"entry", p>>, p, TRUE)
                  /\ UNCHANGED <<day, runs, process, stray, registry>>
           /\ \A p \in Position, status \in {"filled", "part"} : CloseElsewhere(p, status) =>
                  /\ Held(p) = 1 /\ Adds("flatten", <<"flatten", p>>, p, TRUE)
                  /\ orders'[Len(orders) + 1].status = status
                  /\ stray' = IF status = "part" THEN stray \cup {p} ELSE stray
                  /\ UNCHANGED <<day, runs, process, registry>>
<1>0. "entry" \in Role /\ "flatten" \in Role
  BY DEF Role
<1>1. ASSUME NEW p \in Foreign, OpenElsewhere(p)
      PROVE  /\ p \in Position /\ Adds("entry", <<"entry", p>>, p, TRUE)
             /\ UNCHANGED <<day, runs, process, stray, registry>>
  <2>1. p \in Position /\ Elsewhere("entry", p, "filled") /\ "filled" # "part"
    BY <1>1 DEF OpenElsewhere, Position
  <2> QED BY <1>0, <2>1, ElsewhereAdds
<1>2. ASSUME NEW p \in Position, NEW status \in {"filled", "part"}, CloseElsewhere(p, status)
      PROVE  /\ Held(p) = 1 /\ Adds("flatten", <<"flatten", p>>, p, TRUE)
             /\ orders'[Len(orders) + 1].status = status
             /\ stray' = IF status = "part" THEN stray \cup {p} ELSE stray
             /\ UNCHANGED <<day, runs, process, registry>>
  <2>1. Held(p) = 1 /\ Elsewhere("flatten", p, status)
    BY <1>2 DEF CloseElsewhere
  <2> QED BY <1>0, <2>1, ElsewhereAdds
<1> QED BY <1>1, <1>2

(* Others trade. *)
OthersTrade == \/ \E p \in Foreign : OpenElsewhere(p)
               \/ \E p \in Position, status \in {"filled", "part"} : CloseElsewhere(p, status)

(* Every other step keeps the orders, and all but the start of a run their  *)
(* history.                                                                 *)
LEMMA OthersKeep ==
    ASSUME TypeOK, AwaitsCurrent, [Next]_vars
    PROVE  \/ PlaceClose \/ PlaceEntry \/ OthersTrade
           \/ Kept /\ Start
           \/ Kept /\ SameUntil /\ runs' = runs
<1>0. runs' = runs \/ Start
  BY DEF Next, vars, process, PlaceClose, PlaceEntry, PlaceFails, Learn, CloseDone,
         EntryDone, PersistRaises, Finish, Crash, Outcome, Backfill, WriteOff, AddRow, NewSnapshot,
         OpenElsewhere, CloseElsewhere, Elsewhere, TidyLegs
<1>1. CASE UNCHANGED orders
  BY <1>0, <1>1, SameKept
<1>2. ASSUME NEW i \in DOMAIN orders, NEW status \in {"filled", "part", "dead"}, Outcome(i, status)
      PROVE  Kept /\ SameUntil
  BY <1>2, OutcomeKept
<1>3. CASE Start
  BY <1>3, StartKept
<1>4. CASE current \in DOMAIN orders /\ LetGo
  BY <1>0, <1>4, LetGoKept
<1>5. CASE CloseDone \/ EntryDone \/ PersistRaises \/ Crash
  <2>1. UNCHANGED orders \/ LetGo
    BY <1>5 DEF CloseDone, EntryDone, PersistRaises, Crash, CancelWorking
  <2>2. UNCHANGED orders \/ current \in DOMAIN orders
    BY <1>5 DEF CloseDone, EntryDone, PersistRaises, Crash, AwaitsCurrent, TypeOK
  <2> QED BY <2>1, <2>2, <1>1, <1>4
<1>6. CASE PlaceFails \/ Learn \/ Finish \/ NewSnapshot
           \/ (\E p \in Position : Backfill(p) \/ WriteOff(p) \/ TidyLegs(p)) \/ UNCHANGED vars
  BY <1>1, <1>6 DEF PlaceFails, Learn, Finish, NewSnapshot, Backfill, WriteOff, AddRow, TidyLegs, vars
<1> QED BY <1>0, <1>2, <1>3, <1>5, <1>6 DEF Next, OthersTrade

(* What others do leaves the session and the orders it knows as they were. *)
LEMMA OthersLeave ==
    ASSUME TypeOK, OthersTrade
    PROVE  /\ UNCHANGED <<day, runs, process, registry>>
           /\ \A i \in DOMAIN orders : i \in DOMAIN orders' /\ orders'[i] = orders[i]
<1> DEFINE alone == /\ UNCHANGED <<day, runs, process, registry>>
                    /\ \A i \in DOMAIN orders : i \in DOMAIN orders' /\ orders'[i] = orders[i]
<1>1. ASSUME NEW role, NEW c, NEW p, Adds(role, c, p, TRUE)
      PROVE  \A i \in DOMAIN orders : i \in DOMAIN orders' /\ orders'[i] = orders[i]
  BY <1>1 DEF Adds
<1>2. ASSUME NEW p \in Foreign, OpenElsewhere(p) PROVE alone
  BY <1>1, <1>2, OthersAdd
<1>3. ASSUME NEW p \in Position, NEW status \in {"filled", "part"}, CloseElsewhere(p, status) PROVE alone
  BY <1>1, <1>3, OthersAdd
<1> QED BY <1>2, <1>3 DEF OthersTrade

(* What counts at the broker goes on counting. *)
LEMMA TradedGrows ==
    ASSUME TypeOK, AwaitsCurrent, BrokerDedups, [Next]_vars, NEW role, NEW p
    PROVE  Traded(role, p) # {} => Traded(role, p)' # {}
<1>1. ASSUME \A i \in DOMAIN orders :
               /\ i \in DOMAIN orders' /\ orders'[i].role = orders[i].role /\ orders'[i].pos = orders[i].pos
               /\ orders[i].status # "working" => orders'[i].status = orders[i].status
      PROVE  Traded(role, p) # {} => Traded(role, p)' # {}
  <2>1. Traded(role, p) \subseteq Traded(role, p)'
    BY <1>1 DEF Traded, Counts
  <2> QED BY <2>1
<1>2. CASE Kept
  BY <1>1, <1>2 DEF Kept
<1>3. ASSUME NEW r, NEW c, NEW q, NEW l, Adds(r, c, q, l)
      PROVE  Traded(role, p) # {} => Traded(role, p)' # {}
  BY <1>1, <1>3 DEF Adds
<1>4. CASE OthersTrade
  BY <1>3, <1>4, OthersAdd DEF OthersTrade
<1> QED BY <1>2, <1>3, <1>4, OthersKeep, CloseAdds, EntryAdds

(* A sequence of the members of a set has no others, and none twice. *)
LEMMA SeqsOfSet ==
    ASSUME NEW S, NEW T \in SUBSET S, IsFiniteSet(S), NEW s \in SetToSeqs(T)
    PROVE  /\ s \in Seq(S)
           /\ \A m \in DOMAIN s : s[m] \in T
           /\ \A m, n \in DOMAIN s : s[m] = s[n] => m = n
<1>1. Cardinality(T) \in Nat
  BY FS_Subset, FS_CardinalityType
<1>2. s \in [1..Cardinality(T) -> T] /\ \A m, n \in 1..Cardinality(T) : m # n => s[m] # s[n]
  BY DEF SetToSeqs
<1>3. s \in Seq(S)
  BY <1>1, <1>2
<1> QED BY <1>2, <1>3

(* A position is due once, and it is one of those picked. *)
LEMMA InOrderFacts ==
    ASSUME NEW T \in SUBSET Position, NEW s \in InOrder(T)
    PROVE  /\ s \in Seq(Position)
           /\ \A m \in DOMAIN s : s[m] \in T
           /\ \A m, n \in DOMAIN s : s[m] = s[n] => m = n
<1>1. IsFiniteSet(Position)
  <2>1. IsFiniteSet(1..MaxDay) /\ IsFiniteSet(1..MaxEntry)
    BY Bounds, FS_Interval
  <2>2. IsFiniteSet(Own)
    BY <2>1, FS_Product DEF Own
  <2>3. IsFiniteSet(Foreign)
    BY ForeignAssumption
  <2> QED BY <2>2, <2>3, FS_Union DEF Position
<1>2. s \in SetToSeqs(T)
  BY DEF InOrder
<1> QED BY <1>1, <1>2, SeqsOfSet

(* A run begins with closes picked from the matched positions. *)
LEMMA StartPicks ==
    ASSUME Start
    PROVE  /\ todo' \in Seq(Position) /\ entries' \in Seq(1..MaxEntry)
           /\ \A m \in DOMAIN todo' : todo'[m] \in Matched
           /\ \A m, n \in DOMAIN todo' : todo'[m] = todo'[n] => m = n
<1>1. PICK T \in (IF Diverged THEN {{}} ELSE SUBSET Matched) : todo' \in InOrder(T)
  BY DEF Start, Begin
<1>2. T \subseteq Matched /\ T \in SUBSET Position
  BY <1>1 DEF Matched, OpenPositions
<1>3. PICK E \in SUBSET (1..MaxEntry) : entries' \in SetToSeqs(E)
  BY DEF Start, Begin
<1>4. IsFiniteSet(1..MaxEntry)
  BY Bounds, FS_Interval
<1>5. entries' \in Seq(1..MaxEntry)
  BY <1>3, <1>4, SeqsOfSet
<1> QED BY <1>1, <1>2, <1>5, InOrderFacts

(* A filled close is recorded as one. *)
LEMMA CloseRecorded ==
    ASSUME TypeOK, AwaitsCurrent, CloseDone, book = "filled"
    PROVE  /\ registry' \in Seq(Row) /\ Head(todo) \in Position
           /\ Range(registry') = Range(registry) \cup {CloseOf(Head(todo))}
<1>1. registry \in Seq(Row) /\ todo \in Seq(Position) /\ todo # <<>>
  BY DEF CloseDone, AwaitsCurrent, TypeOK
<1>2. Head(todo) \in Position
  BY <1>1, HeadTailProperties
<1>3. CloseOf(Head(todo)) \in Row
  BY <1>2 DEF CloseOf, Row
<1>4. registry' = Append(registry, CloseOf(Head(todo)))
  BY DEF CloseDone, CloseRow, CloseOf
<1> QED BY <1>1, <1>2, <1>3, <1>4, RangeAppend

(* A filled entry is recorded as one. *)
LEMMA EntryRecorded ==
    ASSUME TypeOK, AwaitsCurrent, EntryDone, book = "filled"
    PROVE  /\ registry' \in Seq(Row) /\ <<day, Head(entries)>> \in Position
           /\ Range(registry') = Range(registry) \cup {OpenRow(<<day, Head(entries)>>)}
<1>1. registry \in Seq(Row) /\ entries \in Seq(1..MaxEntry) /\ entries # <<>> /\ day \in 1..MaxDay
  BY DEF EntryDone, AwaitsCurrent, TypeOK
<1>2. Head(entries) \in 1..MaxEntry
  BY <1>1, HeadTailProperties
<1>3. <<day, Head(entries)>> \in Position
  BY <1>1, <1>2 DEF Position, Own
<1>4. OpenRow(<<day, Head(entries)>>) \in Row
  BY <1>3 DEF OpenRow, Row
<1>5. registry' = Append(registry, OpenRow(<<day, Head(entries)>>))
  BY DEF EntryDone, EntryRow, OpenRow
<1> QED BY <1>1, <1>3, <1>4, <1>5, RangeAppend, ZenonT(30)

(* The registry only grows, and by what the broker has done. *)
LEMMA RegistrySteps ==
    ASSUME TypeOK, AwaitsCurrent, [Next]_vars
    PROVE  /\ registry' \in Seq(Row)
           /\ \/ registry' = registry
              \/ /\ CloseDone /\ book = "filled" /\ Head(todo) \in Position
                 /\ Range(registry') = Range(registry) \cup {CloseOf(Head(todo))}
              \/ /\ EntryDone /\ book = "filled" /\ <<day, Head(entries)>> \in Position
                 /\ Range(registry') = Range(registry) \cup {OpenRow(<<day, Head(entries)>>)}
              \/ \E p \in Position : /\ Backfill(p)
                                     /\ Range(registry') = Range(registry) \cup {OpenRow(p)}
              \/ \E p \in Position : /\ WriteOff(p)
                                     /\ Range(registry') = Range(registry) \cup {CloseOf(p)}
<1>0. registry \in Seq(Row)
  BY DEF TypeOK
<1>1. CASE registry' = registry
  BY <1>0, <1>1
<1>2. CASE CloseDone /\ book = "filled"
  BY <1>2, CloseRecorded
<1>3. CASE EntryDone /\ book = "filled"
  BY <1>3, EntryRecorded
<1>4. ASSUME NEW p \in Position, Backfill(p)
      PROVE  registry' \in Seq(Row) /\ Range(registry') = Range(registry) \cup {OpenRow(p)}
  <2>1. OpenRow(p) \in Row /\ registry' = Append(registry, OpenRow(p))
    BY <1>4 DEF OpenRow, Row, Backfill, AddRow
  <2> QED BY <1>0, <2>1, RangeAppend
<1>5. ASSUME NEW p \in Position, WriteOff(p)
      PROVE  registry' \in Seq(Row) /\ Range(registry') = Range(registry) \cup {CloseOf(p)}
  <2>1. CloseOf(p) \in Row /\ registry' = Append(registry, CloseOf(p))
    BY <1>5 DEF CloseOf, Row, WriteOff, AddRow
  <2> QED BY <1>0, <2>1, RangeAppend
<1>6. \/ registry' = registry
      \/ CloseDone /\ book = "filled"
      \/ EntryDone /\ book = "filled"
      \/ \E p \in Position : Backfill(p) \/ WriteOff(p)
  BY DEF Next, vars, process, Start, Begin, PlaceClose, PlaceEntry, PlaceFails, Learn, CloseDone, CloseRow,
         EntryDone, EntryRow, PersistRaises, Finish, Crash, Outcome, NewSnapshot, OpenElsewhere,
         CloseElsewhere, Elsewhere, TidyLegs
<1> QED BY <1>1, <1>2, <1>3, <1>4, <1>5, <1>6

(* The orders there are after a step are well formed. *)
LEMMA OrdersTyped ==
    ASSUME TypeOK, AwaitsCurrent, BrokerDedups, [Next]_vars
    PROVE  orders' \in Seq(ComboOrder)
<1>1. CASE OthersTrade
  BY <1>1, OthersAdd DEF OthersTrade, Adds
<1>2. CASE PlaceClose \/ PlaceEntry
  BY <1>2, CloseAdds, EntryAdds DEF Adds
<1>3. CASE Kept
  BY <1>3 DEF Kept
<1> QED BY <1>1, <1>2, <1>3, OthersKeep

(* Every step keeps the types. *)
LEMMA NextTypeOK ==
    TypeOK /\ AwaitsCurrent /\ BrokerDedups /\ [Next]_vars => TypeOK'
<1> SUFFICES ASSUME TypeOK, AwaitsCurrent, BrokerDedups, [Next]_vars PROVE TypeOK'
  OBVIOUS
<1>0. seq \in Nat /\ seq + 1 \in Nat /\ runs \in Nat /\ runs + 1 \in Nat /\ 0 \in Nat
  BY DEF TypeOK
<1>1. orders' \in Seq(ComboOrder) /\ registry' \in Seq(Row)
  BY OrdersTyped, RegistrySteps
<1>2. /\ todo # <<>> => Tail(todo) \in Seq(Position)
      /\ entries # <<>> => Tail(entries) \in Seq(1..MaxEntry)
  BY HeadTailProperties DEF TypeOK
<1>3. Len(orders) + 1 \in Nat
  BY LengthFacts
<1> DEFINE Shape == /\ day' \in 1..MaxDay /\ runs' \in Nat
                    /\ pc' \in {"idle", "route", "closing", "entering"}
                    /\ todo' \in Seq(Position) /\ entries' \in Seq(1..MaxEntry) /\ seq' \in Nat
                    /\ book' \in {"none", "working", "filled", "dead"} /\ current' \in Nat
                    /\ stray' \subseteq Position
<1>4. <<>> \in Seq(Position) /\ <<>> \in Seq(1..MaxEntry)
  OBVIOUS
<1>5. CASE Start
  <2>1. todo' \in Seq(Position) /\ entries' \in Seq(1..MaxEntry)
    BY <1>5, StartPicks
  <2>2. /\ runs' = runs + 1 /\ pc' = "route" /\ seq' = 0 /\ book' = "none" /\ current' = 0
        /\ day' = day /\ stray' = stray
    BY <1>5 DEF Start, Begin
  <2> QED BY <1>0, <1>1, <2>1, <2>2 DEF TypeOK
<1>6. CASE PlaceClose \/ PlaceEntry
  BY <1>1, <1>3, <1>6 DEF TypeOK, PlaceClose, PlaceEntry, Place
<1>7. CASE PlaceFails
  BY <1>0, <1>1, <1>2, <1>7 DEF TypeOK, PlaceFails, NextClose, NextEntry
<1>8. CASE Learn
  BY <1>1, <1>8 DEF TypeOK, Learn
<1>9. CASE CloseDone \/ EntryDone \/ PersistRaises
  <2>1. /\ \/ pc = "closing" /\ NextClose
           \/ pc = "entering" /\ NextEntry
        /\ pc' = "route" /\ book' = "none"
        /\ UNCHANGED <<day, runs, current, stray>>
    BY <1>9 DEF CloseDone, EntryDone, PersistRaises
  <2>2. (pc = "closing" => todo # <<>>) /\ (pc = "entering" => entries # <<>>)
    BY DEF AwaitsCurrent
  <2> QED BY <1>0, <1>1, <1>2, <2>1, <2>2 DEF TypeOK, NextClose, NextEntry
<1>10. CASE Finish \/ Crash
  BY <1>0, <1>1, <1>4, <1>10 DEF TypeOK, Finish, Crash, Gone
<1>11. CASE (\E p \in Position : Backfill(p) \/ WriteOff(p)) \/ UNCHANGED vars
  BY <1>1, <1>11 DEF TypeOK, Backfill, WriteOff, AddRow, process, vars
<1>12. CASE NewSnapshot
  BY <1>1, <1>12, Bounds DEF TypeOK, NewSnapshot, process
<1>13. ASSUME NEW i \in DOMAIN orders, NEW status \in {"filled", "part", "dead"}, Outcome(i, status)
       PROVE  TypeOK'
  <2>1. orders[i].pos \in Position
    BY LengthFacts DEF ComboOrder
  <2> QED BY <1>1, <1>13, <2>1 DEF TypeOK, Outcome, process
<1>14. CASE OthersTrade
  BY <1>1, <1>14, OthersAdd DEF OthersTrade, TypeOK, process
<1>15. CASE \E p \in Position : TidyLegs(p)
  BY <1>1, <1>15 DEF TypeOK, TidyLegs, process
<1> QED BY <1>5, <1>6, <1>7, <1>8, <1>9, <1>10, <1>11, <1>12, <1>13, <1>14, <1>15 DEF Next, OthersTrade

(* What a step that lets the session wait on does: the order awaited is     *)
(* what it was, and ahead of the book if anything.                          *)
LEMMA AwaitStays ==
    ASSUME TypeOK, AwaitsCurrent, pc' = pc, todo' = todo, entries' = entries, day' = day,
           current' = current, book' = book,
           current \in DOMAIN orders =>
              /\ current \in DOMAIN orders'
              /\ orders'[current].role = orders[current].role /\ orders'[current].pos = orders[current].pos
              /\ orders[current].status # "working" => orders'[current].status = orders[current].status,
           \A i \in DOMAIN orders' :
              orders'[i].role = "flatten" /\ orders'[i].status = "working" => orders'[i].until = runs'
    PROVE  AwaitsCurrent'
<1>1. pc \in {"closing", "entering"} => current \in DOMAIN orders
  BY DEF AwaitsCurrent
<1>2. pc = "closing" => /\ todo # <<>> /\ current \in DOMAIN orders'
                        /\ orders'[current].role = "flatten" /\ orders'[current].pos = Head(todo)
  BY <1>1 DEF AwaitsCurrent
<1>3. pc = "entering" => /\ entries # <<>> /\ current \in DOMAIN orders'
                         /\ orders'[current].role = "entry" /\ orders'[current].pos = <<day, Head(entries)>>
  BY <1>1 DEF AwaitsCurrent
<1>4. pc \in {"closing", "entering"} =>
          \/ book = "working"
          \/ book = "filled" /\ orders'[current].status = "filled"
          \/ book = "dead" /\ orders'[current].status \in {"dead", "part"}
  BY <1>1 DEF AwaitsCurrent
<1>5. pc = "idle" => todo = <<>>
  BY DEF AwaitsCurrent
<1> QED BY <1>2, <1>3, <1>4, <1>5 DEF AwaitsCurrent

(* What works has seen every run begin. *)
LEMMA WorkingSeesRuns ==
    ASSUME TypeOK, AwaitsCurrent, BrokerDedups, [Next]_vars
    PROVE  \A i \in DOMAIN orders' :
              orders'[i].role = "flatten" /\ orders'[i].status = "working" => orders'[i].until = runs'
<1> DEFINE seen == \A i \in DOMAIN orders' :
                      orders'[i].role = "flatten" /\ orders'[i].status = "working" => orders'[i].until = runs'
<1>1. CASE Start
  BY <1>1, StartKept DEF Kept
<1>2. CASE Kept /\ SameUntil /\ runs' = runs
  BY <1>2 DEF Kept, SameUntil, AwaitsCurrent
<1>3. ASSUME NEW role, NEW c, NEW p, NEW l, Adds(role, c, p, l), runs' = runs PROVE seen
  <2> SUFFICES ASSUME NEW i \in DOMAIN orders', orders'[i].role = "flatten", orders'[i].status = "working"
               PROVE  orders'[i].until = runs
    BY <1>3
  <2>1. CASE i \in DOMAIN orders
    BY <1>3, <2>1 DEF Adds, AwaitsCurrent
  <2>2. CASE i = Len(orders) + 1
    BY <1>3, <2>2 DEF Adds
  <2> QED BY <1>3, <2>1, <2>2 DEF Adds
<1>4. CASE PlaceClose \/ PlaceEntry
  BY <1>3, <1>4, CloseAdds, EntryAdds DEF PlaceClose, PlaceEntry
<1>5. CASE OthersTrade
  BY <1>3, <1>5, OthersAdd DEF OthersTrade
<1> QED BY <1>1, <1>2, <1>4, <1>5, OthersKeep

(* The session waits for what it placed; the broker moves on at most from   *)
(* working, and the session date only between two runs.                     *)
LEMMA NextAwaitsCurrent ==
    TypeOK /\ AwaitsCurrent /\ BrokerDedups /\ [Next]_vars => AwaitsCurrent'
<1> SUFFICES ASSUME TypeOK, AwaitsCurrent, BrokerDedups, [Next]_vars PROVE AwaitsCurrent'
  OBVIOUS
<1>0. \A i \in DOMAIN orders' :
          orders'[i].role = "flatten" /\ orders'[i].status = "working" => orders'[i].until = runs'
  BY WorkingSeesRuns
<1>1. CASE PlaceClose
  <2>1. /\ current' \in DOMAIN orders' /\ orders'[current'].role = "flatten"
        /\ orders'[current'].pos = Head(todo)
    BY <1>1, CloseAdds DEF Adds
  <2>2. pc' = "closing" /\ todo # <<>> /\ todo' = todo /\ book' = "working"
    BY <1>1 DEF PlaceClose, Place
  <2> QED BY <1>0, <2>1, <2>2 DEF AwaitsCurrent
<1>2. CASE PlaceEntry
  <2>1. /\ current' \in DOMAIN orders' /\ orders'[current'].role = "entry"
        /\ orders'[current'].pos = <<day, Head(entries)>>
    BY <1>2, EntryAdds DEF Adds
  <2>2. pc' = "entering" /\ entries # <<>> /\ entries' = entries /\ day' = day /\ book' = "working"
    BY <1>2 DEF PlaceEntry, Place
  <2> QED BY <1>0, <2>1, <2>2 DEF AwaitsCurrent
<1>3. CASE Learn
  <2>1. /\ pc' = pc /\ todo' = todo /\ entries' = entries /\ day' = day /\ orders' = orders
        /\ current' = current /\ pc # "idle"
        /\ \/ book' = "filled" /\ orders[current].status = "filled"
           \/ book' = "dead" /\ orders[current].status \in {"dead", "part"}
    BY <1>3 DEF Learn
  <2> QED BY <1>0, <2>1 DEF AwaitsCurrent
<1>4. CASE Start \/ PlaceFails \/ CloseDone \/ EntryDone \/ PersistRaises
  <2>1. pc' = "route"
    BY <1>4 DEF Start, Begin, PlaceFails, CloseDone, EntryDone, PersistRaises
  <2> QED BY <1>0, <2>1 DEF AwaitsCurrent
<1>5. CASE Finish \/ Crash
  <2>1. pc' = "idle" /\ todo' = <<>>
    BY <1>5 DEF Finish, Crash, Gone
  <2> QED BY <1>0, <2>1 DEF AwaitsCurrent
<1>6. CASE NewSnapshot \/ \E p \in Position : Backfill(p) \/ WriteOff(p)
  <2>1. pc' = "idle" /\ pc = "idle" /\ todo' = todo
    BY <1>6 DEF NewSnapshot, Backfill, WriteOff, AddRow, process
  <2> QED BY <1>0, <2>1 DEF AwaitsCurrent
<1>7. CASE OthersTrade
  <2>1. /\ UNCHANGED <<day, process>>
        /\ current \in DOMAIN orders => current \in DOMAIN orders' /\ orders'[current] = orders[current]
    BY <1>7, OthersLeave
  <2> QED BY <1>0, <2>1, AwaitStays DEF process
<1>8. CASE (\E i \in DOMAIN orders, status \in {"filled", "part", "dead"} : Outcome(i, status))
           \/ (\E p \in Position : TidyLegs(p)) \/ UNCHANGED vars
  <2>1. Kept
    <3>1. ASSUME NEW i \in DOMAIN orders, NEW status \in {"filled", "part", "dead"}, Outcome(i, status)
          PROVE  Kept
      BY <3>1, OutcomeKept
    <3>2. CASE UNCHANGED orders
      BY <3>2, SameKept
    <3> QED BY <1>8, <3>1, <3>2 DEF TidyLegs, vars
  <2>2. UNCHANGED <<day, process>>
    BY <1>8 DEF Outcome, TidyLegs, vars
  <2>3. current \in DOMAIN orders =>
              /\ current \in DOMAIN orders'
              /\ orders'[current].role = orders[current].role /\ orders'[current].pos = orders[current].pos
              /\ orders[current].status # "working" => orders'[current].status = orders[current].status
    BY <2>1 DEF Kept
  <2> QED BY <1>0, <2>2, <2>3, AwaitStays DEF process
<1> QED BY <1>1, <1>2, <1>3, <1>4, <1>5, <1>6, <1>7, <1>8 DEF Next, OthersTrade

(* The broker refuses the second order of an id. *)
LEMMA NextIdsOnce ==
    TypeOK /\ AwaitsCurrent /\ IdsOnce /\ BrokerDedups /\ [Next]_vars => IdsOnce'
<1> SUFFICES ASSUME TypeOK, AwaitsCurrent, IdsOnce, BrokerDedups, [Next]_vars PROVE IdsOnce'
  OBVIOUS
<1> DEFINE n == Len(orders)
<1>1. ASSUME NEW role, NEW c, NEW p, NEW l, Adds(role, c, p, l), role = "entry" => c = <<"entry", p>>
      PROVE  IdsOnce'
  <2>1. ASSUME NEW i \in DOMAIN orders', orders'[i].role = "entry"
        PROVE  orders'[i].coid = <<"entry", orders'[i].pos>>
    <3>1. CASE i \in DOMAIN orders
      BY <1>1, <2>1, <3>1 DEF Adds, IdsOnce
    <3>2. CASE i = n + 1
      BY <1>1, <2>1, <3>2 DEF Adds
    <3> QED BY <1>1, <3>1, <3>2 DEF Adds
  <2>2. ASSUME NEW i \in DOMAIN orders', NEW j \in DOMAIN orders', i < j,
               orders'[i].coid = orders'[j].coid
        PROVE  orders'[j].status = "dead"
    <3>1. i \in DOMAIN orders /\ orders'[i] = orders[i]
      BY <1>1, <2>2 DEF Adds
    <3>2. CASE j \in DOMAIN orders
      BY <1>1, <2>2, <3>1, <3>2 DEF Adds, IdsOnce
    <3>3. CASE j = n + 1
      BY <1>1, <2>2, <3>1, <3>3 DEF Adds
    <3> QED BY <1>1, <3>2, <3>3 DEF Adds
  <2> QED BY <2>1, <2>2 DEF IdsOnce
<1>2. CASE Kept
  <2>1. \A i \in DOMAIN orders' :
            orders'[i].role = "entry" => orders'[i].coid = <<"entry", orders'[i].pos>>
    BY <1>2 DEF Kept, IdsOnce
  <2>2. \A i, j \in DOMAIN orders' :
            (i < j /\ orders'[i].coid = orders'[j].coid) => orders'[j].status = "dead"
    BY <1>2 DEF Kept, IdsOnce
  <2> QED BY <2>1, <2>2 DEF IdsOnce
<1>3. CASE PlaceClose
  BY <1>1, <1>3, CloseAdds
<1>4. CASE PlaceEntry
  BY <1>1, <1>4, EntryAdds
<1>5. CASE OthersTrade
  <2>1. ASSUME NEW p \in Foreign, OpenElsewhere(p) PROVE IdsOnce'
    BY <1>1, <2>1, OthersAdd
  <2>2. ASSUME NEW p \in Position, NEW status \in {"filled", "part"}, CloseElsewhere(p, status)
        PROVE  IdsOnce'
    BY <1>1, <2>2, OthersAdd
  <2> QED BY <1>5, <2>1, <2>2 DEF OthersTrade
<1> QED BY <1>2, <1>3, <1>4, <1>5, OthersKeep

(* The order placed is awaited. *)
AwaitsNew == pc' \in {"closing", "entering"} /\ current' = Len(orders) + 1

(* The session waits for one order, and when it stops waiting it has either *)
(* recorded the fill, seen the end, or let go.                              *)
LEMMA NextSeenOrLeft ==
    TypeOK /\ AwaitsCurrent /\ SeenOrLeft /\ BrokerDedups /\ [Next]_vars => SeenOrLeft'
<1> SUFFICES ASSUME TypeOK, AwaitsCurrent, SeenOrLeft, BrokerDedups, [Next]_vars PROVE SeenOrLeft'
  OBVIOUS
<1> DEFINE n == Len(orders)
           Seen(i) == \/ orders'[i].status = "part"
                      \/ orders'[i].status = "filled" /\ RowOf(orders'[i]) \in Range(registry')
<1>0. Range(registry) \subseteq Range(registry')
  BY RegistrySteps
<1>1. ASSUME NEW role, NEW c, NEW p, NEW l, Adds(role, c, p, l),
             orders'[n + 1].left \/ AwaitsNew,
             \A i \in DOMAIN orders : Awaited(i) => Awaited(i)'
      PROVE  SeenOrLeft'
  <2> SUFFICES ASSUME NEW i \in DOMAIN orders', orders'[i].status # "dead", ~ orders'[i].left, ~ Awaited(i)'
               PROVE  Seen(i)
    BY DEF SeenOrLeft
  <2>1. i # n + 1
    BY <1>1 DEF Awaited, AwaitsNew
  <2>2. i \in DOMAIN orders /\ orders'[i] = orders[i]
    <3>1. n \in Nat /\ DOMAIN orders = 1..n /\ DOMAIN orders' = 1..(n + 1)
      BY <1>1 DEF Adds
    <3>2. i \in 1..n
      BY <2>1, <3>1
    <3> QED BY <1>1, <3>1, <3>2 DEF Adds
  <2>3. ~ Awaited(i)
    BY <1>1, <2>2
  <2> QED BY <1>0, <2>2, <2>3 DEF SeenOrLeft
<1>2. ASSUME Kept,
             \A i \in DOMAIN orders :
                Awaited(i) /\ ~ Awaited(i)' => \/ orders'[i].left \/ orders'[i].status = "dead" \/ Seen(i)
      PROVE  SeenOrLeft'
  <2> SUFFICES ASSUME NEW i \in DOMAIN orders', orders'[i].status # "dead", ~ orders'[i].left, ~ Awaited(i)'
               PROVE  Seen(i)
    BY DEF SeenOrLeft
  <2>1. i \in DOMAIN orders /\ RowOf(orders'[i]) = RowOf(orders[i])
    BY <1>2 DEF Kept, RowOf
  <2>2. CASE Awaited(i)
    BY <1>2, <2>1, <2>2
  <2>3. CASE ~ Awaited(i)
    <3>1. orders[i].status # "dead" /\ ~ orders[i].left
      <4>1. orders[i].status = "dead" => orders'[i].status = "dead"
        BY <1>2, <2>1 DEF Kept
      <4>2. orders[i].left => orders'[i].left
        BY <1>2, <2>1 DEF Kept
      <4> QED BY <4>1, <4>2
    <3>2. \/ orders[i].status = "part"
          \/ orders[i].status = "filled" /\ RowOf(orders[i]) \in Range(registry)
      BY <2>1, <2>3, <3>1 DEF SeenOrLeft
    <3>3. orders'[i].status = orders[i].status
      BY <1>2, <2>1, <3>2 DEF Kept
    <3> QED BY <1>0, <2>1, <3>2, <3>3
  <2> QED BY <2>2, <2>3
<1>3. ASSUME Kept, orders'[current].left \/ orders'[current].status = "dead" \/ Seen(current)
      PROVE  SeenOrLeft'
  BY <1>2, <1>3 DEF Awaited
<1>4. CASE PlaceClose \/ PlaceEntry
  <2>1. pc = "route" /\ pc' \in {"closing", "entering"} /\ current' = n + 1
    BY <1>4 DEF PlaceClose, PlaceEntry, Place
  <2>2. AwaitsNew /\ \A i \in DOMAIN orders : Awaited(i) => Awaited(i)'
    BY <2>1 DEF Awaited, AwaitsNew
  <2>3. CASE PlaceClose
    BY <1>1, <2>2, <2>3, CloseAdds
  <2>4. CASE PlaceEntry
    BY <1>1, <2>2, <2>4, EntryAdds
  <2> QED BY <1>4, <2>3, <2>4
<1>5. CASE OthersTrade
  <2>1. \A i \in DOMAIN orders : Awaited(i) => Awaited(i)'
    BY <1>5, OthersLeave DEF Awaited, process
  <2>2. ASSUME NEW role, NEW c, NEW p, Adds(role, c, p, TRUE) PROVE SeenOrLeft'
    <3>1. orders'[n + 1].left
      BY <2>2 DEF Adds
    <3> QED BY <1>1, <2>1, <2>2, <3>1
  <2>3. ASSUME NEW p \in Foreign, OpenElsewhere(p) PROVE SeenOrLeft'
    BY <2>2, <2>3, OthersAdd
  <2>4. ASSUME NEW p \in Position, NEW status \in {"filled", "part"}, CloseElsewhere(p, status)
        PROVE  SeenOrLeft'
    BY <2>2, <2>4, OthersAdd
  <2> QED BY <1>5, <2>3, <2>4 DEF OthersTrade
<1>6. CASE Kept /\ pc' = pc /\ current' = current
  BY <1>2, <1>6 DEF Awaited
<1>7. CASE CloseDone
  <2>1. /\ current \in DOMAIN orders /\ book \in {"working", "filled", "dead"}
        /\ orders[current].role = "flatten" /\ orders[current].pos = Head(todo)
        /\ book = "filled" => orders[current].status = "filled"
        /\ book = "dead" => orders[current].status \in {"dead", "part"}
    BY <1>7, AwaitedFacts DEF CloseDone, AwaitsCurrent
  <2>2. CASE book = "working"
    <3>1. LetGo
      BY <1>7, <2>2 DEF CloseDone, CancelWorking
    <3> QED BY <1>3, <2>1, <3>1, LetGoKept
  <2>3. CASE book = "dead"
    <3>1. UNCHANGED orders
      BY <1>7, <2>3 DEF CloseDone, CancelWorking
    <3> QED BY <1>3, <2>1, <2>3, <3>1, SameKept
  <2>4. CASE book = "filled"
    <3>1. UNCHANGED orders
      BY <1>7, <2>4 DEF CloseDone, CancelWorking
    <3>2. CloseOf(Head(todo)) \in Range(registry')
      BY <1>7, <2>4, CloseRecorded
    <3>3. RowOf(orders[current]) = CloseOf(Head(todo))
      BY <2>1 DEF RowOf
    <3>4. Seen(current)
      BY <2>1, <2>4, <3>1, <3>2, <3>3
    <3> QED BY <1>3, <3>1, <3>4, SameKept
  <2> QED BY <2>1, <2>2, <2>3, <2>4
<1>8. CASE EntryDone
  <2>1. /\ current \in DOMAIN orders /\ book \in {"working", "filled", "dead"}
        /\ orders[current].role = "entry" /\ orders[current].pos = <<day, Head(entries)>>
        /\ book = "filled" => orders[current].status = "filled"
        /\ book = "dead" => orders[current].status \in {"dead", "part"}
    BY <1>8, AwaitedFacts DEF EntryDone, AwaitsCurrent
  <2>2. CASE book = "working"
    <3>1. LetGo
      BY <1>8, <2>2 DEF EntryDone, CancelWorking
    <3> QED BY <1>3, <2>1, <3>1, LetGoKept
  <2>3. CASE book = "dead"
    <3>1. UNCHANGED orders
      BY <1>8, <2>3 DEF EntryDone, CancelWorking
    <3> QED BY <1>3, <2>1, <2>3, <3>1, SameKept
  <2>4. CASE book = "filled"
    <3>1. UNCHANGED orders
      BY <1>8, <2>4 DEF EntryDone, CancelWorking
    <3>2. OpenRow(<<day, Head(entries)>>) \in Range(registry')
      BY <1>8, <2>4, EntryRecorded
    <3>3. RowOf(orders[current]) = OpenRow(<<day, Head(entries)>>)
      BY <2>1 DEF RowOf
    <3>4. Seen(current)
      BY <2>1, <2>4, <3>1, <3>2, <3>3
    <3> QED BY <1>3, <3>1, <3>4, SameKept
  <2> QED BY <2>1, <2>2, <2>3, <2>4
<1>9. CASE PersistRaises \/ (Crash /\ pc # "route")
  <2>1. LetGo /\ current \in DOMAIN orders
    BY <1>9 DEF PersistRaises, Crash, AwaitsCurrent, TypeOK
  <2> QED BY <1>3, <2>1, LetGoKept
<1>10. CASE Kept /\ pc \notin {"closing", "entering"}
  BY <1>2, <1>10 DEF Awaited
<1>11. \/ CloseDone \/ EntryDone \/ PersistRaises \/ (Crash /\ pc # "route")
       \/ (pc' = pc /\ current' = current)
       \/ pc \notin {"closing", "entering"}
       \/ OthersTrade
  BY DEF Next, OthersTrade, vars, process, Start, Begin, PlaceClose, PlaceEntry, PlaceFails, Learn,
         Finish, Crash, Outcome, Backfill, WriteOff, AddRow, NewSnapshot, TidyLegs
<1> QED BY <1>4, <1>5, <1>6, <1>7, <1>8, <1>9, <1>10, <1>11, OthersKeep

(* Legs go astray where an order fills in part. *)
LEMMA NextStrayHasOrder ==
    TypeOK /\ AwaitsCurrent /\ StrayHasOrder /\ BrokerDedups /\ [Next]_vars => StrayHasOrder'
<1> SUFFICES ASSUME TypeOK, AwaitsCurrent, StrayHasOrder, BrokerDedups, [Next]_vars PROVE StrayHasOrder'
  OBVIOUS
<1> DEFINE HasPart(p) == \E i \in DOMAIN orders' : orders'[i].pos = p /\ orders'[i].status = "part"
<1>1. \A p \in stray : HasPart(p)
  <2>1. ASSUME \A i \in DOMAIN orders :
                  /\ i \in DOMAIN orders' /\ orders'[i].pos = orders[i].pos
                  /\ orders[i].status = "part" => orders'[i].status = "part"
        PROVE  \A p \in stray : HasPart(p)
    BY <2>1 DEF StrayHasOrder
  <2>2. CASE Kept
    BY <2>1, <2>2 DEF Kept
  <2>3. ASSUME NEW role, NEW c, NEW q, NEW l, Adds(role, c, q, l) PROVE \A p \in stray : HasPart(p)
    <3>1. \A i \in DOMAIN orders : i \in DOMAIN orders' /\ orders'[i] = orders[i]
      BY <2>3 DEF Adds
    <3> QED BY <2>1, <3>1
  <2>4. CASE PlaceClose
    BY <2>3, <2>4, CloseAdds
  <2>5. CASE PlaceEntry
    BY <2>3, <2>5, EntryAdds
  <2>6. CASE OthersTrade
    BY <2>1, <2>6, OthersLeave
  <2> QED BY <2>2, <2>4, <2>5, <2>6, OthersKeep
<1>2. CASE stray' \subseteq stray
  BY <1>1, <1>2 DEF StrayHasOrder
<1>3. ASSUME NEW i \in DOMAIN orders, NEW status \in {"filled", "part", "dead"}, Outcome(i, status)
      PROVE  StrayHasOrder'
  <2>1. Kept /\ orders'[i].status = status
    BY <1>3, OutcomeKept
  <2>2. status = "part" => HasPart(orders[i].pos)
    BY <2>1 DEF Kept
  <2>3. \A p \in stray' : p \in stray \/ (p = orders[i].pos /\ status = "part")
    BY <1>3 DEF Outcome
  <2> QED BY <1>1, <2>2, <2>3 DEF StrayHasOrder
<1>4. ASSUME NEW p \in Position, NEW status \in {"filled", "part"}, CloseElsewhere(p, status)
      PROVE  StrayHasOrder'
  <2>1. /\ Adds("flatten", <<"flatten", p>>, p, TRUE)
        /\ orders'[Len(orders) + 1].status = status
        /\ stray' = IF status = "part" THEN stray \cup {p} ELSE stray
    BY <1>4, OthersAdd
  <2>2. status = "part" => HasPart(p)
    BY <2>1 DEF Adds
  <2> QED BY <1>1, <2>1, <2>2 DEF StrayHasOrder
<1>5. ASSUME NEW p \in Foreign, OpenElsewhere(p) PROVE stray' = stray
  BY <1>5, OthersAdd
<1>6. \/ stray' \subseteq stray
      \/ \E i \in DOMAIN orders, status \in {"filled", "part", "dead"} : Outcome(i, status)
      \/ OthersTrade
  BY DEF Next, OthersTrade, vars, process, Start, Begin, PlaceClose, PlaceEntry, PlaceFails, Learn,
         CloseDone, EntryDone, PersistRaises, Finish, Crash, Backfill, WriteOff, AddRow, NewSnapshot, TidyLegs
<1> QED BY <1>2, <1>3, <1>4, <1>5, <1>6 DEF OthersTrade

-----------------------------------------------------------------------------
(* The trades of a position can be counted. *)
LEMMA TradedFinite ==
    ASSUME TypeOK, NEW role, NEW p
    PROVE  /\ IsFiniteSet(Traded(role, p)) /\ Cardinality(Traded(role, p)) \in Nat
           /\ Traded(role, p) = {} <=> Cardinality(Traded(role, p)) = 0
<1>1. Len(orders) \in Nat /\ Traded(role, p) \subseteq 1..Len(orders)
  BY LengthFacts DEF Traded
<1>2. IsFiniteSet(1..Len(orders))
  BY <1>1, FS_Interval
<1>3. IsFiniteSet(Traded(role, p))
  BY <1>1, <1>2, FS_Subset
<1> QED BY <1>3, FS_CardinalityType, FS_EmptySet

(* A set of at most one member. *)
LEMMA AtMostOne ==
    ASSUME NEW S, \A x, y \in S : x = y
    PROVE  Cardinality(S) = 0 \/ Cardinality(S) = 1
<1>1. CASE S = {}
  <2>1. Cardinality(S) = 0
    BY <1>1, FS_EmptySet
  <2> QED BY <2>1
<1>2. CASE S # {}
  <2>1. PICK x \in S : TRUE
    BY <1>2
  <2>2. S = {x}
    BY <2>1
  <2>3. Cardinality({x}) = 1
    BY FS_Singleton
  <2> QED BY <2>2, <2>3
<1> QED BY <1>1, <1>2

(* No position is entered twice. *)
LEMMA EntryOnce ==
    ASSUME TypeOK, IdsOnce, NEW p
    PROVE  Cardinality(Traded("entry", p)) = 0 \/ Cardinality(Traded("entry", p)) = 1
<1>1. ASSUME NEW i \in Traded("entry", p), NEW j \in Traded("entry", p), i < j PROVE FALSE
  <2>1. i \in DOMAIN orders /\ j \in DOMAIN orders /\ orders[j].status = "filled"
        /\ orders[i].coid = orders[j].coid
    BY DEF Traded, Counts, IdsOnce
  <2>2. orders[j].status = "dead"
    BY <1>1, <2>1 DEF IdsOnce
  <2> QED BY <2>1, <2>2
<1>2. ASSUME NEW i \in Traded("entry", p), NEW j \in Traded("entry", p) PROVE i = j
  <2>1. i \in Nat /\ j \in Nat
    BY LengthFacts DEF Traded
  <2> QED BY <2>1, <1>1
<1> QED BY <1>2, AtMostOne

(* What is held was entered, and no close of it has come about. *)
LEMMA HeldIsWhole ==
    ASSUME TypeOK, IdsOnce, NEW p, Held(p) >= 1
    PROVE  Traded("entry", p) # {} /\ Traded("flatten", p) = {}
BY EntryOnce, TradedFinite DEF Held

(* A row is written on FILLED only, for what the broker holds, or, by hand, *)
(* for what it no longer holds.                                             *)
LEMMA NextRowsHaveOrders ==
    TypeOK /\ AwaitsCurrent /\ IdsOnce /\ RowsHaveOrders /\ BrokerDedups /\ [Next]_vars => RowsHaveOrders'
<1> SUFFICES ASSUME TypeOK, AwaitsCurrent, IdsOnce, RowsHaveOrders, BrokerDedups, [Next]_vars,
                    NEW p \in Position
             PROVE  /\ OpenRow(p) \in Range(registry') => Traded("entry", p)' # {}
                    /\ CloseOf(p) \in Range(registry') => Traded("flatten", p)' # {}
  BY DEF RowsHaveOrders, OpenRow, CloseOf
<1>0. /\ OpenRow(p) \in Range(registry) => Traded("entry", p)' # {}
      /\ CloseOf(p) \in Range(registry) => Traded("flatten", p)' # {}
  BY TradedGrows DEF RowsHaveOrders
<1>1. CASE registry' = registry
  BY <1>0, <1>1
<1>2. ASSUME NEW q, Traded("flatten", q) # {}, Range(registry') = Range(registry) \cup {CloseOf(q)}
      PROVE  /\ OpenRow(p) \in Range(registry') => Traded("entry", p)' # {}
             /\ CloseOf(p) \in Range(registry') => Traded("flatten", p)' # {}
  <2>1. OpenRow(p) # CloseOf(q) /\ (CloseOf(p) = CloseOf(q) => p = q)
    BY DEF OpenRow, CloseOf
  <2>2. p = q => Traded("flatten", p)' # {}
    BY <1>2, TradedGrows
  <2> QED BY <1>0, <1>2, <2>1, <2>2
<1>3. ASSUME NEW q, Traded("entry", q) # {}, Range(registry') = Range(registry) \cup {OpenRow(q)}
      PROVE  /\ OpenRow(p) \in Range(registry') => Traded("entry", p)' # {}
             /\ CloseOf(p) \in Range(registry') => Traded("flatten", p)' # {}
  <2>1. CloseOf(p) # OpenRow(q) /\ (OpenRow(p) = OpenRow(q) => p = q)
    BY DEF OpenRow, CloseOf
  <2>2. p = q => Traded("entry", p)' # {}
    BY <1>3, TradedGrows
  <2> QED BY <1>0, <1>3, <2>1, <2>2
<1>4. CASE CloseDone /\ book = "filled" /\ Range(registry') = Range(registry) \cup {CloseOf(Head(todo))}
  <2>1. current \in Traded("flatten", Head(todo))
    BY <1>4, AwaitedFacts DEF CloseDone, AwaitsCurrent, Traded, Counts
  <2> QED BY <1>2, <1>4, <2>1
<1>5. CASE EntryDone /\ book = "filled"
           /\ Range(registry') = Range(registry) \cup {OpenRow(<<day, Head(entries)>>)}
  <2>1. current \in Traded("entry", <<day, Head(entries)>>)
    BY <1>5, AwaitedFacts DEF EntryDone, AwaitsCurrent, Traded, Counts
  <2> QED BY <1>3, <1>5, <2>1
<1>6. ASSUME NEW q \in Position, Backfill(q) PROVE Traded("entry", q) # {}
  <2>1. Held(q) >= 1
    BY <1>6 DEF Backfill
  <2> QED BY <2>1, HeldIsWhole
<1>7. ASSUME NEW q \in Position, WriteOff(q) PROVE Traded("flatten", q) # {}
  <2>1. OpenRow(q) \in Range(registry) /\ Held(q) <= 0
    BY <1>7 DEF WriteOff, OpenPositions, OpenRow
  <2>2. Traded("entry", q) # {}
    BY <2>1 DEF RowsHaveOrders
  <2>3. /\ Cardinality(Traded("entry", q)) \in Nat /\ Cardinality(Traded("entry", q)) # 0
        /\ Traded("flatten", q) = {} => Cardinality(Traded("flatten", q)) = 0
    BY <2>2, TradedFinite
  <2> QED BY <2>1, <2>3 DEF Held
<1> QED BY <1>1, <1>2, <1>3, <1>4, <1>5, <1>6, <1>7, RegistrySteps


-----------------------------------------------------------------------------
(* What is due stays due during the run, unless its own close is over. *)
LEMMA DueKept ==
    ASSUME TypeOK, AwaitsCurrent, BrokerDedups, [Next]_vars, Kept, SameUntil, runs' = runs, NEW p, Due(p),
           \A i \in DOMAIN orders : (LiveClose(i) /\ orders[i].pos = p /\ Awaited(i)) => Awaited(i)'
    PROVE  Due(p)'
<1>1. Traded("entry", p)' # {}
  BY TradedGrows DEF Due
<1>2. ASSUME NEW i \in DOMAIN orders', LiveClose(i)', orders'[i].pos = p, ~ Awaited(i)'
      PROVE  orders'[i].until = runs' /\ orders'[i].left
  <2>1. /\ i \in DOMAIN orders /\ orders'[i].pos = orders[i].pos
        /\ orders'[i].role = orders[i].role /\ orders'[i].until = orders[i].until
        /\ orders[i].left => orders'[i].left
        /\ orders[i].status = "dead" => orders'[i].status = "dead"
    BY DEF Kept, SameUntil
  <2>2. LiveClose(i) /\ orders[i].pos = p
    BY <1>2, <2>1 DEF LiveClose
  <2>3. ~ Awaited(i)
    BY <1>2, <2>1, <2>2
  <2>4. orders[i].until = runs /\ orders[i].left
    BY <2>1, <2>2, <2>3 DEF Due
  <2> QED BY <2>1, <2>4
<1> QED BY <1>1, <1>2 DEF Due

(* What is not the last is before it. *)
LEMMA BelowLast ==
    ASSUME NEW n \in Nat, NEW i \in 1..(n + 1), i # n + 1
    PROVE  i \in 1..n
OBVIOUS

(* ... and while an order comes that the session waits for, or that others  *)
(* gave.                                                                    *)
LEMMA DuePlaced ==
    ASSUME TypeOK, AwaitsCurrent, BrokerDedups, [Next]_vars, NEW role \in Role, NEW c, NEW q, NEW l,
           Adds(role, c, q, l), NEW p, Due(p), runs' = runs,
           orders'[Len(orders) + 1].left \/ AwaitsNew,
           \A i \in DOMAIN orders : Awaited(i) => Awaited(i)'
    PROVE  Due(p)'
<1>1. Traded("entry", p)' # {}
  BY TradedGrows DEF Due
<1>2. ASSUME NEW i \in DOMAIN orders', LiveClose(i)', orders'[i].pos = p, ~ Awaited(i)'
      PROVE  orders'[i].until = runs' /\ orders'[i].left
  <2>0. Len(orders) \in Nat /\ DOMAIN orders = 1..Len(orders) /\ i \in 1..(Len(orders) + 1)
    BY <1>2 DEF Adds
  <2>1. CASE i = Len(orders) + 1
    <3>1. orders'[i].role = "flatten"
      BY <1>2 DEF LiveClose
    <3>2. orders'[i].until = runs
      BY <2>1, <3>1 DEF Adds
    <3> QED BY <1>2, <2>1, <3>2 DEF Awaited, AwaitsNew
  <2>2. CASE i # Len(orders) + 1
    <3>1. i \in DOMAIN orders
      BY <2>0, <2>2, BelowLast
    <3>2. orders'[i] = orders[i]
      BY <3>1 DEF Adds
    <3>3. LiveClose(i) /\ orders[i].pos = p /\ ~ Awaited(i)
      BY <1>2, <3>1, <3>2 DEF LiveClose
    <3>4. orders[i].until = runs /\ orders[i].left
      BY <3>1, <3>3 DEF Due
    <3> QED BY <3>2, <3>4
  <2> QED BY <2>1, <2>2
<1> QED BY <1>1, <1>2 DEF Due

(* A live close of what the broker holds is still working. *)
LEMMA HeldNotClosed ==
    ASSUME TypeOK, IdsOnce, NEW p, Held(p) >= 1, NEW i \in DOMAIN orders, LiveClose(i), orders[i].pos = p
    PROVE  orders[i].status = "working"
<1>1. Traded("flatten", p) = {}
  BY HeldIsWhole
<1>2. orders[i].status \notin {"filled", "part"}
  BY <1>1 DEF Traded, Counts, LiveClose
<1>3. orders[i].status \in Status
  BY LengthFacts DEF ComboOrder
<1> QED BY <1>2, <1>3 DEF LiveClose, Status

(* What the close loop picks is due: the books agree, so the broker holds   *)
(* it, and no close of it has come about.                                   *)
LEMMA PickedIsDue ==
    ASSUME TypeOK, AwaitsCurrent, IdsOnce, SeenOrLeft, BrokerDedups, [Next]_vars, Start, NEW p \in Matched
    PROVE  Due(p)'
<1>1. Held(p) >= 1
  BY DEF Matched
<1>2. Traded("entry", p)' # {}
  BY <1>1, HeldIsWhole, TradedGrows
<1>3. ASSUME NEW i \in DOMAIN orders', LiveClose(i)', orders'[i].pos = p
      PROVE  orders'[i].until = runs' /\ orders'[i].left
  <2>1. /\ i \in DOMAIN orders /\ orders'[i].role = orders[i].role /\ orders'[i].pos = orders[i].pos
        /\ orders'[i].left = orders[i].left /\ orders'[i].status = orders[i].status
    BY StartKept DEF Kept
  <2>2. LiveClose(i) /\ orders[i].pos = p
    BY <1>3, <2>1 DEF LiveClose
  <2>3. orders[i].status = "working"
    BY <1>1, <2>1, <2>2, HeldNotClosed
  <2>4. ~ Awaited(i)
    BY DEF Awaited, Start, Begin
  <2>5. orders[i].left \in BOOLEAN
    BY <2>1, LengthFacts DEF ComboOrder
  <2>6. orders[i].left
    BY <2>1, <2>3, <2>4, <2>5 DEF SeenOrLeft
  <2>7. orders'[i].until = runs'
    BY <2>1, <2>2, <2>3, StartKept DEF LiveClose
  <2> QED BY <2>1, <2>6, <2>7
<1> QED BY <1>2, <1>3 DEF Due

(* What is due was picked while the books agreed, or has been due since. *)
LEMMA NextDueAlone ==
    TypeOK /\ AwaitsCurrent /\ IdsOnce /\ SeenOrLeft /\ DueAlone /\ BrokerDedups /\ [Next]_vars => DueAlone'
<1> SUFFICES ASSUME TypeOK, AwaitsCurrent, IdsOnce, SeenOrLeft, DueAlone, BrokerDedups, [Next]_vars
             PROVE  DueAlone'
  OBVIOUS
<1> DEFINE n == Len(orders)
<1>1. CASE todo' = <<>>
  <2>1. DOMAIN todo' = {}
    BY <1>1
  <2> QED BY <2>1 DEF DueAlone
<1>2. CASE Start
  <2>1. /\ \A m \in DOMAIN todo' : todo'[m] \in Matched
        /\ \A m, k \in DOMAIN todo' : todo'[m] = todo'[k] => m = k
    BY <1>2, StartPicks
  <2>2. \A p \in Matched : Due(p)'
    BY <1>2, PickedIsDue
  <2>3. ASSUME NEW m \in DOMAIN todo' PROVE Due(todo[m])'
    <3>1. PICK p \in Matched : p = todo'[m]
      BY <2>1, <2>3
    <3>2. Due(p)'
      BY <2>2
    <3> QED BY <3>1, <3>2
  <2> QED BY <2>1, <2>3 DEF DueAlone
<1>3. ASSUME todo' = todo, \A p : Due(p) => Due(p)' PROVE DueAlone'
  <2>1. ASSUME NEW m \in DOMAIN todo' PROVE Due(todo[m])'
    <3> DEFINE p == todo[m]
    <3>1. Due(p) /\ p = todo'[m]
      BY <1>3, <2>1 DEF DueAlone
    <3> QED BY <1>3, <3>1
  <2> QED BY <1>3, <2>1 DEF DueAlone
<1>4. ASSUME todo # <<>>, todo' = Tail(todo), \A p : p # Head(todo) /\ Due(p) => Due(p)' PROVE DueAlone'
  <2>1. todo \in Seq(Position)
    BY DEF TypeOK
  <2>2. /\ 1 \in DOMAIN todo /\ todo[1] = Head(todo)
        /\ \A m \in DOMAIN todo' : m \in Nat /\ m # 0 /\ m + 1 \in DOMAIN todo /\ todo'[m] = todo[m + 1]
    BY <1>4, <2>1, EmptySeq, HeadTailProperties
  <2>3. ASSUME NEW m \in DOMAIN todo', NEW k \in DOMAIN todo', todo'[m] = todo'[k] PROVE m = k
    <3>1. m + 1 = k + 1
      BY <2>2, <2>3 DEF DueAlone
    <3> QED BY <2>2, <3>1
  <2>4. ASSUME NEW m \in DOMAIN todo' PROVE Due(todo[m])'
    <3>1. todo[m + 1] # Head(todo) /\ Due(todo[m + 1])
      <4>1. m + 1 # 1 /\ m + 1 \in DOMAIN todo
        BY <2>2
      <4> QED BY <2>2, <4>1 DEF DueAlone
    <3>2. PICK p : p = todo[m + 1]
      OBVIOUS
    <3>3. p # Head(todo) /\ Due(p) /\ p = todo'[m]
      BY <2>2, <3>1, <3>2
    <3>4. Due(p)'
      BY <1>4, <3>3
    <3> QED BY <3>3, <3>4
  <2> QED BY <2>3, <2>4 DEF DueAlone
<1>5. ASSUME NEW role \in Role, NEW c, NEW q, NEW l, Adds(role, c, q, l), todo' = todo, runs' = runs,
             orders'[n + 1].left \/ AwaitsNew,
             \A i \in DOMAIN orders : Awaited(i) => Awaited(i)'
      PROVE  DueAlone'
  <2>1. \A p : Due(p) => Due(p)'
    BY <1>5, DuePlaced
  <2> QED BY <1>3, <1>5, <2>1
<1>6. CASE PlaceClose \/ PlaceEntry
  <2>1. /\ pc = "route" /\ pc' \in {"closing", "entering"} /\ current' = n + 1
        /\ todo' = todo /\ runs' = runs
    BY <1>6 DEF PlaceClose, PlaceEntry, Place
  <2>2. AwaitsNew /\ \A i \in DOMAIN orders : Awaited(i) => Awaited(i)'
    BY <2>1 DEF Awaited, AwaitsNew
  <2>3. "entry" \in Role /\ "flatten" \in Role
    BY DEF Role
  <2>4. CASE PlaceClose
    BY <1>5, <2>1, <2>2, <2>3, <2>4, CloseAdds
  <2>5. CASE PlaceEntry
    BY <1>5, <2>1, <2>2, <2>3, <2>5, EntryAdds
  <2> QED BY <1>6, <2>4, <2>5
<1>7. CASE OthersTrade
  <2>1. todo' = todo /\ runs' = runs /\ \A i \in DOMAIN orders : Awaited(i) => Awaited(i)'
    BY <1>7, OthersLeave DEF Awaited, process
  <2>2. ASSUME NEW role \in Role, NEW c, NEW p, Adds(role, c, p, TRUE) PROVE DueAlone'
    <3>1. orders'[n + 1].left
      BY <2>2 DEF Adds
    <3> QED BY <1>5, <2>1, <2>2, <3>1
  <2>3. "entry" \in Role /\ "flatten" \in Role
    BY DEF Role
  <2>4. ASSUME NEW p \in Foreign, OpenElsewhere(p) PROVE DueAlone'
    BY <2>2, <2>3, <2>4, OthersAdd
  <2>5. ASSUME NEW p \in Position, NEW status \in {"filled", "part"}, CloseElsewhere(p, status)
        PROVE  DueAlone'
    BY <2>2, <2>3, <2>5, OthersAdd
  <2> QED BY <1>7, <2>4, <2>5 DEF OthersTrade
<1>8. ASSUME pc = "closing", NextClose, Kept, SameUntil, runs' = runs PROVE DueAlone'
  <2>1. todo # <<>> /\ todo' = Tail(todo) /\ orders[current].pos = Head(todo)
    BY <1>8 DEF NextClose, AwaitsCurrent
  <2>2. ASSUME NEW p, p # Head(todo), Due(p) PROVE Due(p)'
    BY <1>8, <2>1, <2>2, DueKept DEF Awaited
  <2> QED BY <1>4, <2>1, <2>2
<1>9. ASSUME Kept, SameUntil, runs' = runs,
             \/ pc' = pc /\ current' = current
             \/ pc \notin {"closing", "entering"}
             \/ pc = "entering",
             NEW p, Due(p)
      PROVE  Due(p)'
  <2>1. ASSUME NEW i \in DOMAIN orders, LiveClose(i), Awaited(i) PROVE Awaited(i)'
    <3>1. pc # "entering"
      BY <2>1 DEF LiveClose, Awaited, AwaitsCurrent
    <3> QED BY <1>9, <2>1, <3>1 DEF Awaited
  <2> QED BY <1>9, <2>1, DueKept
<1>10. CASE PlaceFails
  <2>1. Kept /\ SameUntil /\ runs' = runs /\ pc = "route"
    BY <1>10, SameKept DEF PlaceFails
  <2>2. \A p : Due(p) => Due(p)'
    BY <2>1, <1>9
  <2>3. (todo # <<>> /\ todo' = Tail(todo)) \/ todo' = todo
    BY <1>10 DEF PlaceFails, NextClose, NextEntry
  <2> QED BY <1>3, <1>4, <2>2, <2>3
<1>11. CASE Kept /\ SameUntil /\ runs' = runs /\ todo' = todo
            /\ ((pc' = pc /\ current' = current) \/ pc = "entering")
  <2>1. \A p : Due(p) => Due(p)'
    BY <1>9, <1>11
  <2> QED BY <1>3, <1>11, <2>1
<1>12. \/ Start \/ PlaceClose \/ PlaceEntry \/ OthersTrade \/ PlaceFails
       \/ todo' = <<>>
       \/ (pc = "closing" /\ NextClose)
       \/ todo' = todo /\ ((pc' = pc /\ current' = current) \/ pc = "entering")
  BY DEF Next, OthersTrade, vars, process, Learn, CloseDone, EntryDone, PersistRaises, NextEntry,
         Finish, Crash, Gone, Outcome, Backfill, WriteOff, AddRow, NewSnapshot, TidyLegs
<1> QED BY <1>1, <1>2, <1>6, <1>7, <1>8, <1>10, <1>11, <1>12, OthersKeep

(* A close is placed by the session only for what is due, and by others     *)
(* only for what the broker holds.                                          *)
LEMMA NextCrossing ==
    TypeOK /\ AwaitsCurrent /\ IdsOnce /\ DueAlone /\ Crossing /\ BrokerDedups /\ [Next]_vars => Crossing'
<1> SUFFICES ASSUME TypeOK, AwaitsCurrent, IdsOnce, DueAlone, Crossing, BrokerDedups, [Next]_vars
             PROVE  Crossing'
  OBVIOUS
<1> DEFINE n == Len(orders)
<1>1. CASE Kept
  <2>1. ASSUME NEW i \in DOMAIN orders', orders'[i].role = "flatten"
        PROVE  Traded("entry", orders[i].pos)' # {}
    <3>1. PICK p : p = orders[i].pos
      OBVIOUS
    <3>2. i \in DOMAIN orders /\ orders[i].role = "flatten" /\ orders'[i].pos = p
      BY <1>1, <2>1, <3>1 DEF Kept
    <3>3. Traded("entry", p)' # {}
      BY <3>1, <3>2, TradedGrows DEF Crossing
    <3> QED BY <3>2, <3>3
  <2>2. ASSUME NEW i \in DOMAIN orders', NEW j \in DOMAIN orders', i < j, LiveClose(i)', LiveClose(j)',
               orders'[i].pos = orders'[j].pos
        PROVE  orders'[i].until >= orders'[j].from /\ (orders'[i].left \/ orders'[j].left)
    <3>1. /\ i \in DOMAIN orders /\ j \in DOMAIN orders /\ orders[i].pos = orders[j].pos
          /\ orders'[i].until >= orders[i].until /\ orders'[j].from = orders[j].from
          /\ orders[i].left => orders'[i].left
          /\ orders[j].left => orders'[j].left
      BY <1>1, <2>2 DEF Kept
    <3>2. LiveClose(i) /\ LiveClose(j)
      BY <1>1, <2>2, <3>1 DEF Kept, LiveClose
    <3>3. orders[i].until >= orders[j].from /\ (orders[i].left \/ orders[j].left)
      BY <2>2, <3>1, <3>2 DEF Crossing
    <3>4. /\ orders[i].until \in Nat /\ orders[j].from \in Nat
      BY <3>1, LengthFacts DEF ComboOrder
    <3>5. orders'[i].until \in Nat
      <4>1. orders' \in Seq(ComboOrder)
        BY <1>1 DEF Kept
      <4>2. orders'[i] \in ComboOrder
        BY <2>2, <4>1
      <4> QED BY <4>2 DEF ComboOrder
    <3> QED BY <3>1, <3>3, <3>4, <3>5
  <2> QED BY <2>1, <2>2 DEF Crossing
<1>2. ASSUME NEW role, NEW c, NEW p, NEW l, Adds(role, c, p, l),
             role = "flatten" =>
                /\ Traded("entry", p) # {}
                /\ \A i \in DOMAIN orders : LiveClose(i) /\ orders[i].pos = p =>
                      orders[i].until = runs /\ (orders[i].left \/ l)
      PROVE  Crossing'
  <2>1. ASSUME NEW i \in DOMAIN orders', orders'[i].role = "flatten"
        PROVE  Traded("entry", orders[i].pos)' # {}
    <3>1. PICK q : q = orders'[i].pos
      OBVIOUS
    <3>2. CASE i \in DOMAIN orders
      <4>1. Traded("entry", q) # {}
        BY <1>2, <2>1, <3>1, <3>2 DEF Adds, Crossing
      <4> QED BY <3>1, <4>1, TradedGrows
    <3>3. CASE i = n + 1
      <4>1. Traded("entry", q) # {}
        BY <1>2, <2>1, <3>1, <3>3 DEF Adds
      <4> QED BY <3>1, <4>1, TradedGrows
    <3> QED BY <1>2, <2>1, <3>2, <3>3 DEF Adds
  <2>2. ASSUME NEW i \in DOMAIN orders', NEW j \in DOMAIN orders', i < j, LiveClose(i)', LiveClose(j)',
               orders'[i].pos = orders'[j].pos
        PROVE  orders'[i].until >= orders'[j].from /\ (orders'[i].left \/ orders'[j].left)
    <3>1. i \in DOMAIN orders /\ orders'[i] = orders[i]
      BY <1>2, <2>2 DEF Adds
    <3>2. LiveClose(i)
      BY <2>2, <3>1 DEF LiveClose
    <3>3. CASE j \in DOMAIN orders
      <4>1. orders'[j] = orders[j]
        BY <1>2, <3>3 DEF Adds
      <4>2. LiveClose(j)
        BY <2>2, <4>1 DEF LiveClose
      <4> QED BY <2>2, <3>1, <3>2, <3>3, <4>1, <4>2 DEF Crossing
    <3>4. CASE j = n + 1
      <4>1. orders'[j].role = role /\ orders'[j].pos = p /\ orders'[j].left = l
        BY <1>2, <3>4 DEF Adds
      <4>2. role = "flatten" /\ orders[i].pos = p
        BY <2>2, <3>1, <4>1 DEF LiveClose
      <4>3. orders'[j].from = runs
        BY <1>2, <3>4, <4>2 DEF Adds
      <4>4. orders[i].until = runs /\ (orders[i].left \/ l)
        BY <1>2, <3>1, <3>2, <4>2
      <4>5. runs \in Nat
        BY DEF TypeOK
      <4> QED BY <3>1, <4>1, <4>3, <4>4, <4>5
    <3> QED BY <1>2, <2>2, <3>3, <3>4 DEF Adds
  <2> QED BY <2>1, <2>2 DEF Crossing
<1>3. CASE PlaceClose
  <2>1. Due(Head(todo)) /\ pc = "route"
    BY <1>3, CloseAdds DEF DueAlone, PlaceClose
  <2>2. /\ Traded("entry", Head(todo)) # {}
        /\ \A i \in DOMAIN orders : LiveClose(i) /\ orders[i].pos = Head(todo) =>
              orders[i].until = runs /\ orders[i].left
    BY <2>1 DEF Due, Awaited
  <2> QED BY <1>2, <1>3, <2>2, CloseAdds
<1>4. CASE PlaceEntry
  <2>1. "entry" # "flatten"
    OBVIOUS
  <2> QED BY <1>2, <1>4, <2>1, EntryAdds
<1>5. ASSUME NEW p \in Foreign, OpenElsewhere(p) PROVE Crossing'
  <2>1. "entry" # "flatten"
    OBVIOUS
  <2> QED BY <1>2, <1>5, <2>1, OthersAdd
<1>6. ASSUME NEW p \in Position, NEW status \in {"filled", "part"}, CloseElsewhere(p, status)
      PROVE  Crossing'
  <2>1. Held(p) = 1 /\ Adds("flatten", <<"flatten", p>>, p, TRUE)
    BY <1>6, OthersAdd
  <2>2. Held(p) >= 1
    BY <2>1
  <2>3. Traded("entry", p) # {}
    BY <2>2, HeldIsWhole
  <2>4. \A i \in DOMAIN orders : LiveClose(i) /\ orders[i].pos = p => orders[i].until = runs
    BY <2>2, HeldNotClosed DEF AwaitsCurrent, LiveClose
  <2> QED BY <1>2, <2>1, <2>3, <2>4
<1> QED BY <1>1, <1>3, <1>4, <1>5, <1>6, OthersKeep DEF OthersTrade

-----------------------------------------------------------------------------
(* Before the first run there is nothing. *)
LEMMA InitSessionInv == Init => SessionInv
<1> SUFFICES ASSUME Init PROVE SessionInv
  OBVIOUS
<1>1. DOMAIN orders = {} /\ DOMAIN todo = {} /\ DOMAIN registry = {} /\ stray = {}
  BY DEF Init
<1>2. Range(registry) = {}
  BY <1>1 DEF Range
<1>3. day \in 1..MaxDay
  BY BoundsAssumption DEF Init
<1>4. TypeOK
  BY <1>3 DEF Init, TypeOK
<1>5. AwaitsCurrent
  BY <1>1 DEF Init, AwaitsCurrent
<1>6. IdsOnce /\ SeenOrLeft /\ StrayHasOrder /\ DueAlone /\ Crossing
  BY <1>1, Zenon DEF IdsOnce, SeenOrLeft, StrayHasOrder, DueAlone, Crossing
<1>7. RowsHaveOrders
  BY <1>2 DEF RowsHaveOrders
<1> QED BY <1>4, <1>5, <1>6, <1>7 DEF SessionInv

(* The invariant of the session, at a broker that refuses an id it has seen. *)
LEMMA SessionInvariant ==
    ASSUME BrokerDedups
    PROVE  Spec => []SessionInv
<1>1. SessionInv /\ [Next]_vars => SessionInv'
  BY NextTypeOK, NextAwaitsCurrent, NextIdsOnce, NextSeenOrLeft, NextStrayHasOrder, NextRowsHaveOrders,
     NextDueAlone, NextCrossing
  DEF SessionInv
<1> QED BY <1>1, InitSessionInv, PTL DEF Spec

(* Two closes of a position that both came about crossed each other. *)
LEMMA ClosedTwice ==
    ASSUME SessionInv, NEW p, ~ Crossed(p)
    PROVE  \A i, j \in Traded("flatten", p) : i = j
<1> USE DEF SessionInv
<1>1. ASSUME NEW i \in Traded("flatten", p), NEW j \in Traded("flatten", p), i < j PROVE FALSE
  <2>1. /\ i \in DOMAIN orders /\ j \in DOMAIN orders
        /\ LiveClose(i) /\ orders[i].pos = p
        /\ LiveClose(j) /\ orders[j].pos = p /\ orders[j].status # "dead"
    BY DEF Traded, Counts, LiveClose
  <2>2. orders[i].until >= orders[j].from
    BY <1>1, <2>1 DEF Crossing
  <2>3. orders[i].coid # orders[j].coid
    BY <1>1, <2>1 DEF IdsOnce
  <2> QED BY <1>1, <2>2, <2>3 DEF Crossed
<1>2. ASSUME NEW i \in Traded("flatten", p), NEW j \in Traded("flatten", p) PROVE i = j
  <2>1. i \in Nat /\ j \in Nat
    BY LengthFacts DEF Traded
  <2> QED BY <2>1, <1>1
<1> QED BY <1>2

(* No position is entered twice, and none is closed twice or turned over    *)
(* but by closes that crossed each other, the run of the later having       *)
(* reconciled before the earlier came about; however late the broker fills  *)
(* what the session gave up on, wherever it dies, whatever dates it is run  *)
(* for and whoever else trades in the account (_run_full_session_async,     *)
(* route_close_decisions).                                                  *)
THEOREM NeverTurnedOver ==
    ASSUME BrokerDedups
    PROVE  Spec => []NeverInverted
<1>1. ASSUME SessionInv PROVE NeverInverted
  <2> SUFFICES ASSUME NEW p \in Position, ~ Crossed(p) PROVE Held(p) \in {0, 1}
    BY DEF NeverInverted
  <2> DEFINE in == Cardinality(Traded("entry", p))
             out == Cardinality(Traded("flatten", p))
  <2>1. in = 0 \/ in = 1
    BY <1>1, EntryOnce DEF SessionInv
  <2>2. out = 0 \/ out = 1
    BY <1>1, ClosedTwice, AtMostOne
  <2>3. out = 1 => in # 0
    <3>1. Traded("flatten", p) # {} => Traded("entry", p) # {}
      BY <1>1 DEF SessionInv, Crossing, Traded
    <3> QED BY <1>1, <3>1, TradedFinite DEF SessionInv
  <2> QED BY <2>1, <2>2, <2>3 DEF Held
<1> QED BY <1>1, SessionInvariant, PTL

(* An open row tells of an entry that filled, and a close row of a position *)
(* the broker no longer holds: rows are written on FILLED only, or by hand  *)
(* for what the broker's positions show.                                    *)
THEOREM RegistryClaimsTrue ==
    ASSUME BrokerDedups
    PROVE  Spec => []RegistryIsTrue
<1>1. ASSUME SessionInv PROVE RegistryIsTrue
  <2> SUFFICES ASSUME NEW p \in Position
               PROVE  /\ OpenRow(p) \in Range(registry) => Traded("entry", p) # {}
                      /\ CloseOf(p) \in Range(registry) => Held(p) <= 0
    BY DEF RegistryIsTrue, OpenRow, CloseOf
  <2> DEFINE in == Cardinality(Traded("entry", p))
             out == Cardinality(Traded("flatten", p))
  <2>1. OpenRow(p) \in Range(registry) => Traded("entry", p) # {}
    BY <1>1 DEF SessionInv, RowsHaveOrders
  <2>2. CloseOf(p) \in Range(registry) => Traded("flatten", p) # {}
    BY <1>1 DEF SessionInv, RowsHaveOrders
  <2>3. in = 0 \/ in = 1
    BY <1>1, EntryOnce DEF SessionInv
  <2>4. out \in Nat /\ (Traded("flatten", p) # {} => out # 0)
    BY <1>1, TradedFinite DEF SessionInv
  <2>5. CloseOf(p) \in Range(registry) => in - out <= 0
    BY <2>2, <2>3, <2>4
  <2> QED BY <2>1, <2>5 DEF Held
<1> QED BY <1>1, SessionInvariant, PTL

(* Between two runs the registry and the broker differ on a position only   *)
(* where an order of it filled in part, or filled after the session had let *)
(* go of it, or came from others: every fill the session saw to its end is  *)
(* on the registry, and no order disturbs another position.                 *)
THEOREM DivergenceIsExplained ==
    ASSUME BrokerDedups
    PROVE  Spec => []DivergenceHasACause
<1>1. ASSUME SessionInv PROVE DivergenceHasACause
  <2> SUFFICES ASSUME NEW p \in Position, pc = "idle",
                      \A i \in DOMAIN orders : orders[i].pos = p =>
                          /\ orders[i].status # "part"
                          /\ orders[i].status = "filled" => ~ orders[i].left
               PROVE  p \notin stray /\ Held(p) = IF p \in OpenPositions THEN 1 ELSE 0
    BY DEF DivergenceHasACause
  <2> USE <1>1 DEF SessionInv
  <2> DEFINE in == Cardinality(Traded("entry", p))
             out == Cardinality(Traded("flatten", p))
  <2>0. p \notin stray
    BY DEF StrayHasOrder
  <2>1. \A i \in DOMAIN orders : ~ Awaited(i)
    BY DEF Awaited
  <2>2. Traded("entry", p) # {} => OpenRow(p) \in Range(registry)
    BY <2>1 DEF Traded, Counts, SeenOrLeft, RowOf
  <2>3. Traded("flatten", p) # {} => CloseOf(p) \in Range(registry)
    BY <2>1 DEF Traded, Counts, SeenOrLeft, RowOf
  <2>4. p \in OpenPositions <=> Traded("entry", p) # {} /\ Traded("flatten", p) = {}
    BY <2>2, <2>3 DEF RowsHaveOrders, OpenPositions, OpenRow, CloseOf
  <2>5. Traded("flatten", p) # {} => Traded("entry", p) # {}
    BY DEF Crossing, Traded
  <2>6. \A i, j \in Traded("flatten", p) : i = j
    <3>1. ASSUME NEW i \in Traded("flatten", p), NEW j \in Traded("flatten", p), i < j PROVE FALSE
      <4>1. /\ i \in DOMAIN orders /\ j \in DOMAIN orders /\ LiveClose(i) /\ LiveClose(j)
            /\ orders[i].pos = p /\ orders[j].pos = p
            /\ orders[i].status = "filled" /\ orders[j].status = "filled"
        BY DEF Traded, Counts, LiveClose
      <4> QED BY <3>1, <4>1 DEF Crossing
    <3>2. Traded("flatten", p) \subseteq Nat
      BY LengthFacts DEF Traded
    <3> QED BY <3>1, <3>2
  <2>7. (in = 0 \/ in = 1) /\ (out = 0 \/ out = 1)
    BY <2>6, EntryOnce, AtMostOne
  <2>8. (in = 0 <=> Traded("entry", p) = {}) /\ (out = 0 <=> Traded("flatten", p) = {})
    BY TradedFinite
  <2>9. in - out = IF p \in OpenPositions THEN 1 ELSE 0
    BY <2>4, <2>5, <2>7, <2>8
  <2> QED BY <2>0, <2>9 DEF Held
<1> QED BY <1>1, SessionInvariant, PTL
=============================================================================
