----------------------------- MODULE Transforms -----------------------------
(***************************************************************************)
(* The transforms of features/transforms: each makes a frame from frames.  *)
(* A frame is a function from the times of its rows to the rows, so it is   *)
(* sorted and has one row a time; a row that the code drops as null is a    *)
(* time that is not in the domain.  Ratios and ranks are in percent.        *)
(***************************************************************************)
EXTENDS Integers, FiniteSets, FiniteSetsExt, Functions

CONSTANT Sessions   \* the sessions [open, close] of the exchange calendar

ASSUME SessionAssumption ==
    \A s \in Sessions : /\ s.open \in Int /\ s.close \in Int /\ s.open < s.close
                        /\ \A r \in Sessions : r = s \/ r.close <= s.open \/ s.close <= r.open

Series(S, Value(_)) == [t \in S |-> [value |-> Value(t)]]

(* The row of an asof join, backward and forward: none or one. *)
LastAt(S, t) == {s \in S : s <= t /\ \A u \in S : u <= t => u <= s}
FirstFrom(S, t) == {s \in S : t <= s /\ \A u \in S : t <= u => s <= u}

(* The n latest rows at t, and the times that have as many. *)
LastRows(S, t, n) == {s \in S : s <= t /\ Cardinality({u \in S : s <= u /\ u <= t}) <= n}
Full(S, n) == {t \in S : Cardinality(LastRows(S, t, n)) = n}
Lagged(S, t, n) == Min(LastRows(S, t, n + 1))

ColumnSum(frame, column, S) == SumFunction([t \in S |-> frame[t][column]])
Square(n) == n * n

ColumnSelect(frame, column) == Series(DOMAIN frame, LAMBDA t : frame[t][column])

RollingChange(frame, column, lag, mode) ==
    LET T == DOMAIN frame
        old(t) == frame[Lagged(T, t, lag)][column]
    IN  IF mode = "abs" THEN Series(Full(T, lag + 1), LAMBDA t : frame[t][column] - old(t))
        ELSE Series({t \in Full(T, lag + 1) : old(t) # 0},
                    LAMBDA t : (100 * (frame[t][column] - old(t))) \div old(t))

(* A logarithm of a ratio and the change in percent have the same sign and order. *)
LogReturn(bars, column) == RollingChange(bars, column, 1, "pct")

TrueRange(bars) ==
    LET T == DOMAIN bars
        before(t) == {bars[Lagged(T, t, 1)].close : s \in {t} \cap Full(T, 2)}
    IN  Series(T, LAMBDA t : Max({bars[t].high} \cup before(t)) - Min({bars[t].low} \cup before(t)))

RollingMean(frame, column, window) ==
    LET T == DOMAIN frame
    IN  Series(Full(T, window), LAMBDA t : ColumnSum(frame, column, LastRows(T, t, window)) \div window)

(* The variance of a window, times the square of its length. *)
Dispersion(frame, column, S) ==
    Cardinality(S) * SumFunction([t \in S |-> Square(frame[t][column])])
        - Square(ColumnSum(frame, column, S))

RollingRealizedVol(frame, column, window) ==
    LET T == DOMAIN frame
    IN  Series(Full(T, window), LAMBDA t : Dispersion(frame, column, LastRows(T, t, window)))

(* z * |z|, so that no root is taken; there is none in a flat window. *)
RollingZscore(frame, column, window) ==
    LET T == DOMAIN frame
        spread(t) == Dispersion(frame, column, LastRows(T, t, window))
        off(t) == window * frame[t][column] - ColumnSum(frame, column, LastRows(T, t, window))
        z2(t) == (100 * Square(off(t)) * (window - 1)) \div (window * spread(t))
    IN  Series({t \in Full(T, window) : spread(t) > 0}, LAMBDA t : IF off(t) < 0 THEN - z2(t) ELSE z2(t))

RollingPercentileRank(frame, column, window) ==
    LET T == DOMAIN frame
        less(t) == {u \in LastRows(T, t, window) : frame[u][column] < frame[t][column]}
        equal(t) == {u \in LastRows(T, t, window) : frame[u][column] = frame[t][column]}
    IN  Series(Full(T, window), LAMBDA t : (50 * (2 * Cardinality(less(t)) + Cardinality(equal(t)) - 1))
                                               \div (window - 1))

TwoSeriesRatio(a, b, column) ==
    Series({t \in DOMAIN a \cap DOMAIN b : b[t][column] # 0},
           LAMBDA t : (100 * a[t][column]) \div b[t][column])

-----------------------------------------------------------------------------
(* Bars: a bin takes what happens in [end - cadence, end) and is labelled   *)
(* with its end.                                                            *)
BinEnd(t, cadence) == (t \div cadence) * cadence + cadence
Binned(S, end, cadence) == {t \in S : end - cadence <= t /\ t < end}

ResampleOhlcv(ticks, cadence) ==
    [end \in {BinEnd(t, cadence) : t \in DOMAIN ticks} |->
        LET In == Binned(DOMAIN ticks, end, cadence)
            prices == {ticks[t].price : t \in In}
        IN  [open |-> ticks[Min(In)].price, high |-> Max(prices), low |-> Min(prices),
             close |-> ticks[Max(In)].price, volume |-> ColumnSum(ticks, "size", In)]]

ResampleOhlcvBars(bars, cadence) ==
    [end \in {BinEnd(t, cadence) : t \in DOMAIN bars} |->
        LET In == Binned(DOMAIN bars, end, cadence)
        IN  [open |-> bars[Min(In)].open, high |-> Max({bars[t].high : t \in In}),
             low |-> Min({bars[t].low : t \in In}), close |-> bars[Max(In)].close,
             volume |-> ColumnSum(bars, "volume", In)]]

-----------------------------------------------------------------------------
(* The session features are for the bars of a session only. *)
During(s, t) == s.open <= t /\ t < s.close
SessionOf(t) == {s \in Sessions : During(s, t)}
Tagged(bars) == {t \in DOMAIN bars : SessionOf(t) # {}}
InSession(bars, s) == {t \in DOMAIN bars : During(s, t)}

SessionPosition(bars) ==
    Series(Tagged(bars), LAMBDA t : LET s == CHOOSE s \in SessionOf(t) : TRUE
                                    IN  (100 * (t - s.open)) \div (s.close - s.open))

SessionVwap(bars) ==
    LET sofar(t) == {u \in Tagged(bars) : SessionOf(u) = SessionOf(t) /\ u <= t}
        traded(t) == ColumnSum(bars, "volume", sofar(t))
        paid(t) == SumFunction([u \in sofar(t) |-> (bars[u].high + bars[u].low + bars[u].close) * bars[u].volume])
    IN  Series({t \in Tagged(bars) : traded(t) > 0}, LAMBDA t : paid(t) \div (3 * traded(t)))

(* A version that gives the level to every bar of the session. *)
OpeningRangeAllDay(bars, level, minutes) ==
    LET opening(t) == {u \in DOMAIN bars : \E s \in SessionOf(t) : s.open <= u /\ u < s.open + minutes}
    IN  Series({t \in Tagged(bars) : opening(t) # {}},
               LAMBDA t : IF level = "high" THEN Max({bars[u].high : u \in opening(t)})
                          ELSE Min({bars[u].low : u \in opening(t)}))

(* A bar just before the end of the window is in it; the level is known from the end on. *)
OpeningRangeLevels(bars, level, minutes) ==
    LET opening(t) == {u \in DOMAIN bars : \E s \in SessionOf(t) : s.open <= u /\ u < s.open + minutes}
        known(t) == \E s \in SessionOf(t) : s.open + minutes <= t /\ s.open + minutes < s.close
    IN  Series({t \in Tagged(bars) : known(t) /\ opening(t) # {}},
               LAMBDA t : IF level = "high" THEN Max({bars[u].high : u \in opening(t)})
                          ELSE Min({bars[u].low : u \in opening(t)}))

(* The last bar of the last session before this one that has a bar. *)
PriorSessionClose(bars) ==
    LET before(t) == {u \in Tagged(bars) : \E s \in SessionOf(t) : u < s.open}
    IN  Series({t \in Tagged(bars) : before(t) # {}}, LAMBDA t : bars[Max(before(t))].close)

-----------------------------------------------------------------------------
(* Events have a type and an importance. *)
OfType(events, types) == {e \in DOMAIN events : events[e].type \in types}

EventWindowFlag(events, timeline, pre, post, importance) ==
    LET E == {e \in DOMAIN events : events[e].importance \in importance}
        near(t) == (\E e \in LastAt(E, t) : t - e <= post) \/ (\E e \in FirstFrom(E, t) : e - t <= pre)
    IN  Series(DOMAIN timeline, LAMBDA t : IF near(t) THEN 1 ELSE 0)

TimeSinceLastEvent(events, timeline, types, most) ==
    LET last(t) == LastAt(OfType(events, types), t)
    IN  Series({t \in DOMAIN timeline : \E e \in last(t) : t - e <= most}, LAMBDA t : t - Max(last(t)))

TimeToNextEvent(events, timeline, types, most) ==
    LET next(t) == FirstFrom(OfType(events, types), t)
    IN  Series({t \in DOMAIN timeline : \E e \in next(t) : e - t <= most}, LAMBDA t : Min(next(t)) - t)

(* The return over the minutes after an event, known when they are over. *)
EventReactionReturn(events, bars, types, minutes, most) ==
    LET priceAt(t) == bars[Max(LastAt(DOMAIN bars, t))].close
        E == {e \in OfType(events, types) : LastAt(DOMAIN bars, e) # {} /\ priceAt(e) > 0}
        last(t) == LastAt(E, t - minutes)
        return(e) == (100 * (priceAt(e + minutes) - priceAt(e))) \div priceAt(e)
    IN  Series({t \in DOMAIN bars : \E e \in last(t) : t - e <= most}, LAMBDA t : return(Max(last(t))))
=============================================================================
