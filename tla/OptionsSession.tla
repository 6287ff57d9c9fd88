--------------------------- MODULE OptionsSession ---------------------------
(***************************************************************************)
(* The daily live-options session (live/options_routing.py,                *)
(* options_close_loop.py, options_position_registry.py and the CLI command *)
(* that starts it): reconcile the registry with the broker's positions,    *)
(* route closes if the books agree, then route the day's entries; every    *)
(* order is awaited for a while, cancelled if it is still working, and     *)
(* recorded in the registry only when the book says FILLED.                *)
(*                                                                         *)
(* A position is one combo of one lot; one of the session's is named by    *)
(* what its entry's id is made of, <<session date, candidate>>, where a    *)
(* candidate is a strategy at its place in a decision.  The router's book  *)
(* lives in the session process and learns of an order's fate at most      *)
(* while the process runs; the broker goes on without it.                  *)
(*                                                                         *)
(* The session date is that of the latest snapshot ingested, not the       *)
(* trading day: two dates may be run on one trading day, and one date on   *)
(* several.  Others trade in the account too: the operator in TWS, and the *)
(* clearing house by assigning legs.  Which orders fill, in part or in     *)
(* full, which positions trigger a close, and when the process dies, is    *)
(* left open.                                                              *)
(***************************************************************************)
EXTENDS Integers, Sequences, FiniteSets, SequencesExt

CONSTANTS
    MaxDay,         \* bound: session dates
    MaxEntry,       \* bound: entry candidates
    MaxRun,         \* bound: times the command is run, several for one date or not
    MaxOrder,       \* bound: orders the broker receives
    MaxElsewhere,   \* bound: positions others close
    Foreign,        \* positions opened outside the system
    StrategyOf,     \* the strategy class of a position
    BrokerDedups,   \* whether the broker refuses a client order id it has seen
    LearnsFills     \* whether the router's book can come to say FILLED

ASSUME BoundsAssumption == {MaxDay, MaxEntry, MaxRun, MaxOrder} \subseteq Nat \ {0} /\ MaxElsewhere \in Nat
ASSUME SwitchesAssumption == {BrokerDedups, LearnsFills} \subseteq BOOLEAN

Own == (1..MaxDay) \X (1..MaxEntry)

ASSUME ForeignAssumption == IsFiniteSet(Foreign) /\ Foreign \cap Own = {}

Position == Own \cup Foreign

ASSUME StrategyAssumption == DOMAIN StrategyOf = Position

VARIABLES
    day,        \* session_date of the decision
    runs,       \* times the command has run
    pc,         \* where the session process stands
    todo,       \* closes still to route, in order
    entries,    \* candidates still to route, in order
    seq,        \* intent_seq of the close to route next
    book,       \* what the router's book says of the order awaited
    current,    \* which of the broker's orders is awaited
    orders,     \* every order the broker has received, in order; history: `left`,
                \* the session did not see it to its end; of a close, `from` and
                \* `until`, the last run begun when it came and when it ended
    stray,      \* positions with legs out of proportion at the broker
    registry    \* the rows of positions.jsonl

process == <<pc, todo, entries, seq, book, current>>
vars == <<day, runs, process, orders, stray, registry>>

-----------------------------------------------------------------------------
(* The broker's books (external).  A combo filled in part, in some of its   *)
(* legs or contracts only, makes no whole lot, and a whole lot no more.     *)
Counts(order) == \/ order.status = "filled"
                 \/ order.role = "flatten" /\ order.status = "part"

Traded(role, p) ==
    {i \in DOMAIN orders : /\ orders[i].role = role
                           /\ orders[i].pos = p
                           /\ Counts(orders[i])}

(* Whole lots of p held at the broker: those entered less those closed.     *)
Held(p) == Cardinality(Traded("entry", p)) - Cardinality(Traded("flatten", p))

(* load_open_positions: opened at some time and never closed, whatever the  *)
(* order of the rows.                                                       *)
OpenPositions ==
    {p \in Position : /\ [type |-> "open", pos |-> p] \in Range(registry)
                      /\ [type |-> "close", pos |-> p] \notin Range(registry)}

(* reconcile, for positions that share no leg: what the broker holds beyond *)
(* or short of the registry, in lots or in legs, is divergence.             *)
Matched == {p \in OpenPositions : Held(p) >= 1}

Diverged == \/ OpenPositions # Matched
            \/ stray # {}
            \/ \E p \in Position : Held(p) # (IF p \in Matched THEN 1 ELSE 0)

-----------------------------------------------------------------------------
Init == /\ day = 1
        /\ runs = 0
        /\ pc = "idle"
        /\ todo = <<>> /\ entries = <<>>
        /\ seq = 0
        /\ book = "none" /\ current = 0
        /\ orders = <<>>
        /\ stray = {}
        /\ registry = <<>>

(* The positions of T in registry order: each before those whose first open *)
(* row comes later.                                                         *)
InOrder(T) ==
    {s \in SetToSeqs(T) :
        \A i, j \in DOMAIN s : i < j =>
            \E m \in DOMAIN registry :
                /\ registry[m] = [type |-> "open", pos |-> s[i]]
                /\ \A k \in 1..m : registry[k] # [type |-> "open", pos |-> s[j]]}

(* The command generates the decision, and returns without a change when it *)
(* has no entry candidate, no connection or another account; otherwise it   *)
(* reconciles.  If the books agree it closes the positions should_close     *)
(* picks from the matched ones.                                             *)
Begin(pick) ==
    /\ pc = "idle"
    /\ runs < MaxRun
    /\ runs' = runs + 1
    /\ \E T \in pick : todo' \in InOrder(T)
    /\ \E E \in (SUBSET (1..MaxEntry)) \ {{}} : entries' \in SetToSeqs(E)
    /\ pc' = "route" /\ seq' = 0 /\ book' = "none" /\ current' = 0
    /\ orders' = [i \in DOMAIN orders |->
                     IF orders[i].role = "flatten" /\ orders[i].status = "working"
                     THEN [orders[i] EXCEPT !.until = runs + 1] ELSE orders[i]]
    /\ UNCHANGED <<day, stray, registry>>

(* A version that closes what the registry says it holds. *)
StartUnreconciled == Begin(SUBSET OpenPositions)

Start == Begin(IF Diverged THEN {{}} ELSE SUBSET Matched)

(* An order the broker receives. *)
NewOrder(role, coid, p, status, left) ==
    LET run == IF role = "flatten" THEN runs ELSE 0 IN
    /\ Len(orders) < MaxOrder
    /\ orders' = Append(orders, [coid |-> coid, role |-> role, pos |-> p, left |-> left,
                                 status |-> status, from |-> run, until |-> run])

(* place_combo reaches the broker: a new working order, unless the broker   *)
(* knows the client order id and refuses it.                                *)
Place(role, coid, p) ==
    /\ NewOrder(role, coid, p,
                IF BrokerDedups /\ \E i \in DOMAIN orders : orders[i].coid = coid
                THEN "dead" ELSE "working", FALSE)
    /\ book' = "working" /\ current' = Len(orders) + 1

(* A close is known by its strategy, the session date and its place among   *)
(* the closes of this run.                                                  *)
PlaceClose ==
    /\ pc = "route" /\ todo # <<>>
    /\ Place("flatten", <<"flatten", day, seq, StrategyOf[Head(todo)]>>, Head(todo))
    /\ pc' = "closing"
    /\ UNCHANGED <<day, runs, todo, entries, seq, stray, registry>>

PlaceEntry ==
    LET p == <<day, Head(entries)>> IN
    /\ pc = "route" /\ todo = <<>> /\ entries # <<>>
    /\ Place("entry", <<"entry", p>>, p)
    /\ pc' = "entering"
    /\ UNCHANGED <<day, runs, todo, entries, seq, stray, registry>>

(* The loops go on to the next item. *)
NextClose == todo' = Tail(todo) /\ seq' = seq + 1 /\ UNCHANGED entries
NextEntry == entries' = Tail(entries) /\ UNCHANGED <<todo, seq>>

(* place_combo raises (a leg is not in the snapshot, the contract does not  *)
(* qualify): the item is reported and the session goes on.                  *)
PlaceFails ==
    /\ pc = "route"
    /\ \/ todo # <<>> /\ NextClose
       \/ todo = <<>> /\ entries # <<>> /\ NextEntry
    /\ UNCHANGED <<day, runs, pc, book, current, orders, stray, registry>>

(* The broker's answer reaches the book of the running session, or does not *)
(* in time; one that ended filled in part is cancelled in the book.  The    *)
(* combo router of the repository never learns of a fill (see               *)
(* OptionsRouter); the session is written for one that does, and what it    *)
(* then may do includes what it does with the other.                        *)
Learn ==
    /\ pc \in {"closing", "entering"}
    /\ book = "working"
    /\ \/ orders[current].status \in {"dead", "part"} /\ book' = "dead"
       \/ orders[current].status = "filled" /\ LearnsFills /\ book' = "filled"
    /\ UNCHANGED <<day, runs, pc, todo, entries, seq, current, orders, stray, registry>>

LetGo == orders' = [orders EXCEPT ![current].left = TRUE]

(* The end of await_terminal_state for one order.  Only FILLED is recorded; *)
(* a non-terminal order is cancelled, without waiting for the answer, so    *)
(* that it may still fill.                                                  *)
CancelWorking == IF book = "working" THEN LetGo ELSE UNCHANGED orders

CloseRow == IF book = "filled"
            THEN Append(registry, [type |-> "close", pos |-> Head(todo)])
            ELSE registry

CloseDone ==
    /\ pc = "closing"
    /\ registry' = CloseRow
    /\ CancelWorking
    /\ NextClose
    /\ pc' = "route" /\ book' = "none"
    /\ UNCHANGED <<day, runs, current, stray>>

(* A version that records an entry as soon as it has been placed. *)
EntryRowOnPlacement(p) == Append(registry, [type |-> "open", pos |-> p])

(* A version that forgets the row. *)
EntryRowForgotten(p) == registry

EntryRow(p) == IF book = "filled" THEN Append(registry, [type |-> "open", pos |-> p])
                                  ELSE registry

EntryDone ==
    /\ pc = "entering"
    /\ registry' = EntryRow(<<day, Head(entries)>>)
    /\ CancelWorking
    /\ NextEntry
    /\ pc' = "route" /\ book' = "none"
    /\ UNCHANGED <<day, runs, current, stray>>

(* Writing the row of a filled combo raises (undefined risk, a leg without  *)
(* a price, the file): it is reported as not accepted and not recorded.     *)
PersistRaises ==
    /\ book = "filled"
    /\ LetGo
    /\ \/ pc = "closing" /\ NextClose
       \/ pc = "entering" /\ NextEntry
    /\ pc' = "route" /\ book' = "none"
    /\ UNCHANGED <<day, runs, current, stray, registry>>

(* Nothing of the process outlives it. *)
Gone == /\ pc' = "idle"
        /\ todo' = <<>> /\ entries' = <<>>
        /\ seq' = 0 /\ book' = "none" /\ current' = 0

(* The session disconnects; its router is gone. *)
Finish ==
    /\ pc = "route" /\ todo = <<>> /\ entries = <<>>
    /\ Gone
    /\ UNCHANGED <<day, runs, orders, stray, registry>>

Crash ==
    /\ pc # "idle"
    /\ IF pc = "route" THEN UNCHANGED orders ELSE LetGo
    /\ Gone
    /\ UNCHANGED <<day, runs, stray, registry>>

-----------------------------------------------------------------------------
(* The operator, between two runs, as the runbook has it. *)
AddRow(type, p) ==
    /\ pc = "idle"
    /\ registry' = Append(registry, [type |-> type, pos |-> p])
    /\ UNCHANGED <<day, runs, process, orders, stray>>

(* backfill_from_file: a position the broker holds and the registry does    *)
(* not know is entered; one that is registered is skipped.                  *)
Backfill(p) == Held(p) = 1 /\ p \notin OpenPositions /\ AddRow("open", p)

(* A position the broker no longer holds is written off by hand. *)
WriteOff(p) == Held(p) <= 0 /\ p \in OpenPositions /\ AddRow("close", p)

(* A snapshot of a later date is ingested: the next session has that date,  *)
(* whatever trading day it is.                                              *)
NewSnapshot ==
    /\ pc = "idle" /\ day < MaxDay
    /\ day' = day + 1
    /\ UNCHANGED <<runs, process, orders, stray, registry>>

-----------------------------------------------------------------------------
(* The broker and the market, external.  An order fills, in full or in      *)
(* part, or is refused, cancelled or, at the end of its trading day, lapses.*)
Outcome(i, status) ==
    /\ orders[i].status = "working"
    /\ orders' = [orders EXCEPT ![i].status = status]
    /\ stray' = IF status = "part" THEN stray \cup {orders[i].pos} ELSE stray
    /\ UNCHANGED <<day, runs, process, registry>>

(* Others trade in the account, at any time. *)
Elsewhere(role, p, status) ==
    /\ NewOrder(role, <<role, p>>, p, status, TRUE)
    /\ \A i \in DOMAIN orders : orders[i].coid # <<role, p>>
    /\ stray' = IF status = "part" THEN stray \cup {p} ELSE stray
    /\ UNCHANGED <<day, runs, process, registry>>

(* A foreign position is opened in TWS, or was there from before. *)
OpenElsewhere(p) == Elsewhere("entry", p, "filled")

(* A position is closed in TWS, assigned or expired, in whole or in a leg.  *)
CloseElsewhere(p, status) ==
    /\ Held(p) = 1
    /\ Cardinality({q \in Position : \E i \in DOMAIN orders : orders[i].coid = <<"flatten", q>>}) < MaxElsewhere
    /\ Elsewhere("flatten", p, status)

(* The odd legs are closed out in TWS. *)
TidyLegs(p) ==
    /\ p \in stray
    /\ stray' = stray \ {p}
    /\ UNCHANGED <<day, runs, process, orders, registry>>

Next == \/ Start \/ PlaceClose \/ PlaceEntry \/ PlaceFails
        \/ Learn \/ CloseDone \/ EntryDone \/ PersistRaises \/ Finish \/ Crash
        \/ \E p \in Position : Backfill(p) \/ WriteOff(p)
        \/ NewSnapshot
        \/ \E i \in DOMAIN orders, status \in {"filled", "part", "dead"} : Outcome(i, status)
        \/ \E p \in Foreign : OpenElsewhere(p)
        \/ \E p \in Position, status \in {"filled", "part"} : CloseElsewhere(p, status)
        \/ \E p \in Position : TidyLegs(p)

Spec == Init /\ [][Next]_vars

-----------------------------------------------------------------------------
(* Two closes of a position went through under two ids, and the run of the  *)
(* second, or the last one before it if others gave it, had begun while the *)
(* first was still to come: it was working then, or others gave it since.   *)
Crossed(p) ==
    \E i, j \in Traded("flatten", p) :
        /\ i < j
        /\ orders[i].coid # orders[j].coid
        /\ orders[i].until >= orders[j].from

(* No position is entered twice or closed twice, however late the broker    *)
(* fills an order the session gave up on, wherever the process died,        *)
(* whatever dates it is run for and whoever else trades: a second close     *)
(* would turn it over.  The one way is two closes that crossed each other   *)
(* between a reconciliation and what was sent on the strength of it.        *)
NeverInverted == \A p \in Position : Held(p) \in {0, 1} \/ Crossed(p)

(* The registry claims nothing the broker did not do: a position with an    *)
(* open row was entered, and one with a close row is not held.              *)
RegistryIsTrue ==
    \A p \in Position :
        /\ [type |-> "open", pos |-> p] \in Range(registry) => Traded("entry", p) # {}
        /\ [type |-> "close", pos |-> p] \in Range(registry) => Held(p) <= 0

(* The books disagree on a position only because of an order of that very   *)
(* position that filled in part, that filled after the session had let go   *)
(* of it (timed out, died, could not write the row), or that others gave:   *)
(* the causes the code and the runbook name.  Orders seen to their end      *)
(* never make registry and broker differ, and closing one position never    *)
(* disturbs another.                                                        *)
DivergenceHasACause ==
    \A p \in Position :
        (pc = "idle" /\ (p \in stray \/ Held(p) # (IF p \in OpenPositions THEN 1 ELSE 0)))
            => \E i \in DOMAIN orders :
                  /\ orders[i].pos = p
                  /\ \/ orders[i].status = "part"
                     \/ orders[i].status = "filled" /\ orders[i].left
=============================================================================
