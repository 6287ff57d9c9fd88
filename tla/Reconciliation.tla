--------------------------- MODULE Reconciliation ---------------------------
(***************************************************************************)
(* The reconciliation loop (execution/reconciliation.py): run_forever wakes*)
(* every SleepTime, and tick() runs each check that is due: it awaits the  *)
(* broker's answer, then reads the local state, compares and dispatches.   *)
(* While it awaits, both sides go on changing.  A query that raises ends   *)
(* the tick; a handler that raises is logged.                              *)
(*                                                                         *)
(* The loop is written against the BrokerRouter protocol; a router whose   *)
(* queries answer at once is the special case without steps in between.    *)
(* The time since a check's _last_run stands for the timestamp.            *)
(***************************************************************************)
EXTENDS Integers, FiniteSets, FiniteSetsExt, Divergence

CONSTANTS
    OrderId, Instrument,    \* what the two sides know
    MaxQuantity,            \* bound: positions are 0..MaxQuantity
    Funds,                  \* available_funds; the margin is Funds or one more
    Cadence,                \* cadences, per check
    SleepTime,              \* sleep_seconds
    Delay,                  \* the longest a query takes
    MaxAge                  \* ages saturate here, beyond every cadence

(* The checks of a tick in their order; the pnl check compares nothing yet  *)
(* and is left out.                                                         *)
Order == <<"orders", "positions", "account">>
Checks == {Order[i] : i \in 1..3}

ASSUME CadenceAssumption ==
    /\ Cadence \in [Checks -> Nat \ {0}]
    /\ MaxAge \in Nat /\ \A c \in Checks : Cadence[c] < MaxAge
ASSUME TimesAssumption == SleepTime \in Nat \ {0} /\ {Delay, MaxQuantity, Funds} \subseteq Nat

VARIABLES
    local,      \* the local view: order states and positions
    broker,     \* the broker's: open orders, positions, margin
    pc,         \* "asleep", or the check whose answer is awaited or compared
    waited,     \* time since the loop fell asleep, or since the query was sent
    inTick,     \* time since the running tick was given its `now`
    answers,    \* the answer that has come and is not yet compared: none or one
    age,        \* time since _last_run; MaxAge if it never ran
    escalated,  \* history: the check that ran last, if it called the
                \* escalation handler, and else "none"
    agreed,     \* history: the sides have agreed ever since the query was sent
    excused     \* history: the checks that have not run since a query last raised

env == <<local, broker>>
loop == <<pc, waited, inTick, answers, age>>
history == <<escalated, agreed, excused>>
reconcileVars == <<env, loop, history>>

-----------------------------------------------------------------------------
(* What the query of a check asks the broker. *)
Queried(check, b) ==
    CASE check = "orders"    -> b.orders
      [] check = "positions" -> b.positions
      [] check = "account"   -> b.margin

EventsOf(check, l, reply) ==
    CASE check = "orders"    -> DetectOrderDivergences(l.orders, reply)
      [] check = "positions" -> DetectPositionDivergences(l.positions, reply)
      [] check = "account"   -> DetectAccountDivergences(reply, Funds)

(* Whether the two sides tell the same story about what a check compares. *)
Agree(check, l, b) ==
    CASE check = "orders"    -> \A o \in OrderId : l.orders[o] = "FILLED" <=> o \notin DOMAIN b.orders
      [] check = "positions" -> l.positions = b.positions
      [] check = "account"   -> b.margin <= Funds
      [] OTHER               -> TRUE

(* A version that waits for more than the cadence. *)
IsDueStrict(check, elapsed) == elapsed > Cadence[check]

(* _is_due: the time since the last run has reached the cadence. *)
IsDue(check, elapsed) == elapsed >= Cadence[check]

(* The first check from the i-th on that is due, given the time elapsed     *)
(* since the last run of each; if there is none the tick ends.              *)
NextDue(i, elapsed) ==
    LET due == {j \in i..3 : IsDue(Order[j], elapsed[Order[j]])}
    IN  IF due = {} THEN "asleep" ELSE Order[Min(due)]

Index(check) == CHOOSE i \in 1..3 : Order[i] = check

(* The tick goes on to the next due check or ends.  What is due is judged   *)
(* by the `now` the tick was given, however long it has been running.       *)
GoOn(i) ==
    /\ pc' = NextDue(i, [c \in Checks |-> age[c] - inTick])
    /\ waited' = 0
    /\ agreed' = Agree(pc', local, broker)

Wake == /\ pc = "asleep" /\ waited >= SleepTime
        /\ inTick' = 0
        /\ pc' = NextDue(1, age)
        /\ waited' = 0
        /\ agreed' = Agree(pc', local, broker)
        /\ UNCHANGED <<env, answers, age, escalated, excused>>

Awaiting == pc # "asleep" /\ answers = {}

Answer == /\ Awaiting
          /\ answers' = {Queried(pc, broker)}
          /\ UNCHANGED <<env, pc, waited, inTick, age, history>>

(* The query raises; run_forever logs it and goes to sleep. *)
Fail == /\ Awaiting
        /\ pc' = "asleep" /\ waited' = 0
        /\ excused' = Checks
        /\ UNCHANGED <<env, inTick, answers, age, escalated, agreed>>

(* A version whose escalation is skipped when the divergence handler raises. *)
EscalatesUnlessRaised(event, raised) == event.severity = "critical" /\ ~ raised

(* _dispatch: the escalation handler is called on every critical event,     *)
(* whether or not the divergence handler raised.                            *)
Escalates(event, raised) == event.severity = "critical"

Compare ==
    /\ \E reply \in answers, raised \in BOOLEAN :
          escalated' = IF \E e \in EventsOf(pc, local, reply) : Escalates(e, raised)
                       THEN pc ELSE "none"
    /\ age' = [age EXCEPT ![pc] = inTick]
    /\ GoOn(Index(pc) + 1)
    /\ answers' = {}
    /\ excused' = excused \ {pc}
    /\ UNCHANGED <<env, inTick>>

-----------------------------------------------------------------------------
(* Time passes; the loop sleeps no longer than it asked for, a query takes  *)
(* no longer than Delay, and an answer is compared at once.                 *)
Elapsed(t) == IF t = MaxAge THEN t ELSE t + 1

Time == /\ IF pc = "asleep" THEN waited < SleepTime ELSE Awaiting /\ waited < Delay
        /\ waited' = waited + 1
        /\ inTick' = Elapsed(inTick)
        /\ age' = [c \in Checks |-> Elapsed(age[c])]
        /\ UNCHANGED <<env, pc, answers, history>>

(* The broker's side moves, or the local one, never both at once: orders    *)
(* open and end, positions and margin change (external).                    *)
LocalOrders == [OrderId -> {"WORKING", "FILLED"}]
BrokerOrders == UNION {[O -> {"WORKING"}] : O \in SUBSET OrderId}
Positions == [Instrument -> 0..MaxQuantity]

BrokerMoves ==
    /\ \/ \E o \in BrokerOrders : broker' = [broker EXCEPT !.orders = o]
       \/ \E p \in Positions : broker' = [broker EXCEPT !.positions = p]
       \/ \E m \in {Funds, Funds + 1} : broker' = [broker EXCEPT !.margin = m]
    /\ agreed' = (agreed /\ Agree(pc, local, broker'))
    /\ UNCHANGED <<local, loop, escalated, excused>>

LocalMoves ==
    /\ \/ \E o \in LocalOrders : local' = [local EXCEPT !.orders = o]
       \/ \E p \in Positions : local' = [local EXCEPT !.positions = p]
    /\ agreed' = (agreed /\ Agree(pc, local', broker))
    /\ UNCHANGED <<broker, loop, escalated, excused>>

-----------------------------------------------------------------------------
ReconcileInit ==
    /\ local = [orders |-> [o \in OrderId |-> "WORKING"],
                positions |-> [i \in Instrument |-> 0]]
    /\ broker = [orders |-> [o \in OrderId |-> "WORKING"],
                 positions |-> [i \in Instrument |-> 0], margin |-> Funds]
    /\ pc = "asleep" /\ answers = {}
    /\ waited = SleepTime /\ inTick = 0
    /\ age = [c \in Checks |-> MaxAge]
    /\ escalated = "none" /\ agreed = TRUE /\ excused = {}

ReconcileNext == Wake \/ Answer \/ Fail \/ Compare \/ Time \/ BrokerMoves \/ LocalMoves

(* The loop runs, time passes, and no query raises for ever. *)
Fairness == /\ WF_reconcileVars(Wake) /\ WF_reconcileVars(Compare) /\ WF_reconcileVars(Time)
            /\ \A c \in Checks : SF_reconcileVars(pc = c /\ Answer)

ReconcileSpec == ReconcileInit /\ [][ReconcileNext]_reconcileVars /\ Fairness

-----------------------------------------------------------------------------
(* Unless a query has raised in between, a check that has run is run again  *)
(* within its cadence, one sleep, and the queries of two ticks: of the one  *)
(* that comes just too early, or of the one that ran it last, and of the    *)
(* one that runs it.  Slow queries add up but do not accumulate, as the     *)
(* timestamps are taken when a tick starts.                                 *)
Longest(c) == Max({Cadence[c] - 1 + 2 * Delay, 3 * Delay}) + SleepTime + Index(c) * Delay
RunsOnTime == \A c \in Checks \ excused : age[c] < MaxAge => age[c] <= Longest(c)

(* The escalation handler is called only if the two sides really disagreed  *)
(* at some time since the query was sent, although the answer and the local *)
(* view it is compared with are read at different times.                    *)
EscalationIsGrounded ==
    [][(Compare /\ escalated' # "none") => ~ agreed]_reconcileVars

(* A position difference that stays as it is gets escalated again and       *)
(* again, whatever the handlers raise and however often a query fails.      *)
DifferenceIsEscalated ==
    \A p, q \in Positions :
        (p # q /\ <>[](local.positions = p /\ broker.positions = q))
            => []<>(escalated = "positions")
=============================================================================
