------------------------------ MODULE RiskGate ------------------------------
(***************************************************************************)
(* What stands before an order: the kill switch (execution/kill_switch.py),*)
(* the pre-flight checks with their running counters (risk_caps.py) and    *)
(* the duplicate check (idempotency.py).  The three are values and pure    *)
(* functions; the caller that holds them is external.  It does what their  *)
(* interfaces ask for: it checks an entry, sends it if every check passed, *)
(* reports each fill once and marks open positions to market; positions    *)
(* may be held over the end of a day.  The checks of connection, hours,    *)
(* margin and tier compare values the caller supplies; they may fail any   *)
(* order.                                                                  *)
(***************************************************************************)
EXTENDS Integers, Sequences, FiniteSets, FiniteSetsExt, SequencesExt

CONSTANTS
    Strategy,       \* strategy ids
    MaxSeq,         \* bound: intent_seq is 0..MaxSeq
    MaxTotal,       \* max_concurrent_positions_total
    MaxInstances,   \* max_concurrent_instances_per_strategy
    DailyLossCap,   \* daily_loss_cap_dollars
    WeeklyLossCap,  \* weekly_loss_cap_dollars
    Window,         \* window_hours of the deduper
    MaxInFlight,    \* orders the caller may have unanswered at a time
    MaxNow,         \* bound: the clock is 0..MaxNow
    MaxEvents,      \* bound: events in the kill switch's history
    MaxMark,        \* bound: a position's profit or loss
    MaxClaims       \* bound: orders sent

ASSUME RiskGateAssumption ==
    /\ {MaxSeq, MaxTotal, MaxInstances, Window, MaxNow, MaxEvents, MaxMark, MaxClaims} \subseteq Nat
    /\ {DailyLossCap, WeeklyLossCap, MaxInFlight} \subseteq Nat \ {0}

VARIABLES
    state, trips,   \* KillSwitch: state and trip_history
    risk,           \* RiskState
    seen,           \* IdempotencyKeyDeduper._seen: coid -> time
    now,            \* the clock
    inFlight,       \* orders sent and not yet answered
    positions,      \* open positions: coid of the entry -> profit or loss
    closed,         \* history: profit or loss of the trades closed today and
                    \* this week
    start,          \* history: the open positions when the day began
    claims          \* history: <<coid, time>> of every order sent

switch == <<state, trips>>
market == <<inFlight, positions, closed, start>>
vars == <<switch, risk, seen, now, market, claims>>

Coid == Strategy \X (0..MaxSeq)

RiskState == [realizedToday : Int, realizedThisWeek : Int, openPnl : Int, openPositions : Nat,
              instances : [Strategy -> Nat]]

-----------------------------------------------------------------------------
IsActive == state # "inactive"

(* A version that, once cleared, takes a further trip for the old one. *)
StateAfterTripIfWaiting == IF state = "inactive" THEN "active" ELSE state

StateAfterTrip == "active"

Record(event) == Len(trips) < MaxEvents /\ trips' = Append(trips, event)

(* trip, from any state and by any source. *)
Trip == /\ state' = StateAfterTrip
        /\ Record("trip")
        /\ UNCHANGED <<risk, seen, now, market, claims>>

(* clear, by an operator. *)
Clear == /\ IsActive
         /\ state' = "awaiting_reconciliation"
         /\ Record("clear")
         /\ UNCHANGED <<risk, seen, now, market, claims>>

MarkReconciled == /\ state = "awaiting_reconciliation"
                  /\ state' = "inactive"
                  /\ Record("reconciled")
                  /\ UNCHANGED <<risk, seen, now, market, claims>>

-----------------------------------------------------------------------------
OpenPnl(pos) == MapThenSumSet(LAMBDA c : pos[c], DOMAIN pos)

(* Versions that let an order through at the limit. *)
UnderDailyCapInclusive == risk.realizedToday + risk.openPnl >= -DailyLossCap
UnderPositionCapInclusive == risk.openPositions <= MaxTotal

UnderWeeklyCap == risk.realizedThisWeek + risk.openPnl > -WeeklyLossCap
UnderDailyCap == risk.realizedToday + risk.openPnl > -DailyLossCap
UnderPositionCap == risk.openPositions < MaxTotal
UnderInstanceCap(s) == risk.instances[s] < MaxInstances

PreFlightCheck(s) ==
    ~ IsActive /\ UnderDailyCap /\ UnderWeeklyCap /\ UnderPositionCap /\ UnderInstanceCap(s)

(* A version whose entries expire one hour early. *)
StillSeenStrict == {c \in DOMAIN seen : seen[c] > now - Window}

(* _gc: what is left of the seen ids once the stale ones are dropped. *)
StillSeen == {c \in DOMAIN seen : seen[c] >= now - Window}

(* register succeeds; a refused duplicate does not refresh its time. *)
Register(c) ==
    /\ c \notin StillSeen
    /\ seen' = [d \in StillSeen \cup {c} |-> IF d = c THEN now ELSE seen[d]]

(* The caller sends an entry that passed every check. *)
Submit(c) ==
    /\ Len(claims) < MaxClaims
    /\ Cardinality(inFlight) < MaxInFlight
    /\ c \notin inFlight \cup DOMAIN positions
    /\ PreFlightCheck(c[1])
    /\ Register(c)
    /\ inFlight' = inFlight \cup {c}
    /\ claims' = Append(claims, <<c, now>>)
    /\ UNCHANGED <<switch, risk, now, positions, closed, start>>

(* register refuses a duplicate, dropping stale ids on the way. *)
Refuse(c) ==
    /\ c \in StillSeen
    /\ StillSeen # DOMAIN seen
    /\ seen' = [d \in StillSeen |-> seen[d]]
    /\ UNCHANGED <<switch, risk, now, market, claims>>

AtLeastZero(n) == IF n < 0 THEN 0 ELSE n

UpdateOnFill(s, realized, open, delta) ==
    [realizedToday    |-> risk.realizedToday + realized,
     realizedThisWeek |-> risk.realizedThisWeek + realized,
     openPnl          |-> risk.openPnl + open,
     openPositions    |-> AtLeastZero(risk.openPositions + delta),
     instances        |-> [risk.instances EXCEPT ![s] = AtLeastZero(@ + delta)]]

(* An entry fills: flat to open. *)
EntryFill(c) ==
    /\ c \in inFlight
    /\ inFlight' = inFlight \ {c}
    /\ positions' = [d \in DOMAIN positions \cup {c} |-> IF d = c THEN 0 ELSE positions[d]]
    /\ risk' = UpdateOnFill(c[1], 0, 0, 1)
    /\ UNCHANGED <<switch, seen, now, closed, start, claims>>

(* An entry dies unfilled. *)
EntryDies(c) ==
    /\ c \in inFlight
    /\ inFlight' = inFlight \ {c}
    /\ UNCHANGED <<switch, risk, seen, now, positions, closed, start, claims>>

(* The market moves an open position by one. *)
Mark(c, d) ==
    /\ c \in DOMAIN positions
    /\ positions[c] + d \in -MaxMark..MaxMark
    /\ positions' = [positions EXCEPT ![c] = @ + d]
    /\ risk' = UpdateOnFill(c[1], 0, d, 0)
    /\ UNCHANGED <<switch, seen, now, inFlight, closed, start, claims>>

(* A position is closed: its profit or loss is realized. *)
CloseFill(c) ==
    /\ c \in DOMAIN positions
    /\ positions' = [d \in DOMAIN positions \ {c} |-> positions[d]]
    /\ closed' = [day |-> closed.day + positions[c], week |-> closed.week + positions[c]]
    /\ risk' = UpdateOnFill(c[1], positions[c], -positions[c], -1)
    /\ UNCHANGED <<switch, seen, now, inFlight, start, claims>>

(* reset_daily_counters: with positions held, their profit or loss so far   *)
(* leaves the counters.                                                     *)
ResetDailyCounters ==
    /\ risk' = [risk EXCEPT !.realizedToday = 0, !.openPnl = 0]
    /\ closed' = [closed EXCEPT !.day = 0]
    /\ start' = positions
    /\ UNCHANGED <<switch, seen, now, inFlight, positions, claims>>

(* reset_weekly_counters *)
ResetWeeklyCounters ==
    /\ risk' = [risk EXCEPT !.realizedThisWeek = 0]
    /\ closed' = [closed EXCEPT !.week = 0]
    /\ UNCHANGED <<switch, seen, now, inFlight, positions, start, claims>>

Hour == /\ now < MaxNow
        /\ now' = now + 1
        /\ UNCHANGED <<switch, risk, seen, market, claims>>

-----------------------------------------------------------------------------
Init == /\ state = "inactive" /\ trips = <<>>
        /\ risk = [realizedToday |-> 0, realizedThisWeek |-> 0, openPnl |-> 0, openPositions |-> 0,
                   instances |-> [s \in Strategy |-> 0]]
        /\ seen = [c \in {} |-> 0]
        /\ now = 0
        /\ inFlight = {} /\ positions = [c \in {} |-> 0]
        /\ closed = [day |-> 0, week |-> 0]
        /\ start = positions
        /\ claims = <<>>

Next == \/ Trip \/ Clear \/ MarkReconciled
        \/ \E c \in Coid : \/ Submit(c) \/ Refuse(c) \/ EntryFill(c) \/ EntryDies(c)
                           \/ CloseFill(c) \/ \E d \in {-1, 1} : Mark(c, d)
        \/ ResetDailyCounters \/ ResetWeeklyCounters \/ Hour

Spec == Init /\ [][Next]_vars

-----------------------------------------------------------------------------
(* Type invariant. *)
TypeOK ==
    /\ state \in {"inactive", "active", "awaiting_reconciliation"}
    /\ trips \in Seq({"trip", "clear", "reconciled"})
    /\ risk \in RiskState
    /\ DOMAIN seen \subseteq Coid /\ \A c \in DOMAIN seen : seen[c] \in 0..now
    /\ now \in Nat
    /\ inFlight \subseteq Coid /\ DOMAIN positions \subseteq Coid
    /\ positions \in [DOMAIN positions -> Int] /\ closed \in [day : Int, week : Int]
    /\ DOMAIN start \subseteq Coid /\ start \in [DOMAIN start -> Int]
    /\ claims \in Seq(Coid \X Nat)

(* Orders pass again only once a clear and then a reconciliation have come  *)
(* after the last trip: a trip that comes while the first is being cleared  *)
(* starts the procedure anew.                                               *)
ResumesOnlyReconciled ==
    ~ IsActive =>
        \A i \in DOMAIN trips : trips[i] = "trip" =>
            /\ Len(trips) >= i + 2
            /\ trips[Len(trips) - 1] = "clear" /\ trips[Len(trips)] = "reconciled"

OfStrategy(s, S) == {c \in S : c[1] = s}

(* The position cap counts open positions, not orders in flight: it can be  *)
(* overrun, but by no more than the orders the caller has in flight at a    *)
(* time, less the one that was under the cap.                               *)
PositionCapOverrun ==
    /\ Cardinality(DOMAIN positions) + Cardinality(inFlight) < MaxTotal + MaxInFlight
    /\ \A s \in Strategy :
          Cardinality(OfStrategy(s, DOMAIN positions \cup inFlight)) < MaxInstances + MaxInFlight

ChangeToday == OpenPnl(positions) - OpenPnl(start)

(* No order is sent once the trades closed today, or this week, together    *)
(* with the change of the open positions since the daily reset have lost    *)
(* the cap, whatever way the loss went from open to realized.  So the loss  *)
(* a position brings over the reset does not count, also in the week, until *)
(* a reset that follows its close.                                          *)
NoOrderPastLossCap ==
    [][claims' # claims => /\ closed.day + ChangeToday > -DailyLossCap
                           /\ closed.week + ChangeToday > -WeeklyLossCap]_vars

(* One id is sent at most once in any window, refusals and expiries of      *)
(* other ids in between included.                                           *)
OncePerWindow ==
    \A i, j \in DOMAIN claims :
        (i < j /\ claims[i][1] = claims[j][1]) => claims[j][2] - claims[i][2] > Window
=============================================================================
