------------------------------ MODULE Backtest ------------------------------
(***************************************************************************)
(* The bar loop of harness/runner.py (run_backtest) with the fills of      *)
(* harness/execution.py, around a strategy of StrategyClasses.  One step    *)
(* is one turn of the loop.  Every class sends at most one market order a   *)
(* bar, for a fixed quantity.  A side is 1 (long), -1 (short) or 0 (flat),  *)
(* so that both are one formula.  What a trade earns is left out.           *)
(***************************************************************************)
EXTENDS StrategyClasses

CONSTANTS
    Strategies,     \* [class, params, stop, trail, hold, gates, exits, lag, values]
                    \* values gives the possible values of each feature, lag says
                    \* by how many bars they come late, 0 or 1
    MaxPrice,       \* bound: prices are 0..MaxPrice
    MaxSession,     \* bound: session ids are 1..MaxSession
    Far             \* bound: signals that are this old are not told apart

ASSUME BacktestAssumption == MaxPrice \in Nat /\ MaxSession \in Nat \ {0} /\ Far \in Nat \ {0}

Classes == {"stand_down", "gated_entry", "momentum_breakout", "vwap_reversion", "gap_fill_fade",
            "range_break_continuation", "range_break_fade", "volume_spike_fade", "compression_breakout"}

(* A spec names a class of the registry, and has its parameters within what *)
(* the class allows, and the features that its class requires; a trailing   *)
(* stop has its feature among those of the spec.                            *)
ASSUME StrategiesAssumption ==
    \A s \in Strategies :
        /\ s.class \in Classes /\ s.lag \in {0, 1}
        /\ s.class \in {"gated_entry", "volume_spike_fade"} => s.params.sides \in (SUBSET Sides) \ {{}}
        /\ s.class = "range_break_fade" =>
              /\ s.params.sides \in SUBSET Sides /\ s.params.lookback \in 1..Far
              /\ {"upper", "lower"} \subseteq DOMAIN s.values
              /\ s.values["upper"] \subseteq Int /\ s.values["lower"] \subseteq Int
        /\ s.trail # {} => "atr" \in DOMAIN s.values /\ s.values["atr"] \subseteq Int
        /\ \A rule \in s.trail : rule.multiplier \in Nat

VARIABLES
    strategy,   \* the spec that is run
    memory,     \* State.extra of the strategy
    position,   \* Position: side, entry, initial and current stop, best price, bars held
    order,      \* side of the entry order queued for the next open, or 0
    exit,       \* pending_close_reason, or "none"
    session,    \* current_session_id; 0 before the first
    served,     \* the features of the last bar
    outside,    \* whether that bar lay outside any session
    done,       \* the window has been flushed
    raised,     \* a stop could not be computed and the run was abandoned
    unbooked,   \* entries filled less trades recorded
    signal,     \* history: for each kind of signal, bars since the last that the strategy
                \* was shown in this session, whether one since was hidden from it, and
                \* whether it was true
    decided,    \* history: session of the last order, and the signal that it fades
    reached     \* history: the best price since the entry

run == <<memory, position, order, exit, raised, unbooked, signal, decided, reached>>
vars == <<strategy, run, session, served, outside, done>>

Price == 0..MaxPrice
Bar == {b \in [open : Price, high : Price, low : Price, close : Price] :
           /\ b.low <= b.open /\ b.low <= b.close
           /\ b.open <= b.high /\ b.close <= b.high}

Features == LET ids == DOMAIN strategy.values
            IN  {f \in [ids -> UNION {strategy.values[id] : id \in ids}] :
                    \A id \in ids : f[id] \in strategy.values[id]}

NoPrice == -1       \* None

Flat == [side |-> 0, entry |-> 0, initial |-> 0, stop |-> 0, best |-> NoPrice, held |-> 0]

(* The favorable end of a bar's range. *)
Favorable(side, b) == IF side = 1 THEN b.high ELSE b.low
Adverse(side, b) == IF side = 1 THEN b.low ELSE b.high

(* The kinds of signal that a class remembers: a spike up or down; a bar    *)
(* beyond one of the levels that its features may serve.                    *)
Kinds ==
    CASE strategy.class = "volume_spike_fade" -> Sides \X {0}
      [] strategy.class = "range_break_fade"  ->
            ({1} \X (strategy.values["upper"] \ {NoValue})) \cup ({-1} \X (strategy.values["lower"] \ {NoValue}))
      [] OTHER -> {}

NoSignal == [age |-> Far, hidden |-> FALSE, own |-> TRUE]
Silence == [k \in Kinds |-> NoSignal]

-----------------------------------------------------------------------------
(* The parts of a turn, each taking the run to the next: m is a record of   *)
(* the variables in `run`.                                                  *)
IsFlat(m) == m.position.side = 0

(* A close through apply_fill, and its trade; the best price is kept. *)
Close(m) == [m EXCEPT !.position = [Flat EXCEPT !.best = m.position.best], !.unbooked = @ - 1]

(* What a session begins with, once the one before has been flattened. *)
Anew(m) == [m EXCEPT !.position = Flat, !.memory = Fresh, !.signal = Silence]
Flattened(m) == IF IsFlat(m) THEN m ELSE Close(m)

(* A version that keeps the orders queued in the session before. *)
BoundaryKeepsOrders(m) == [Anew(Flattened(m)) EXCEPT !.exit = "none"]

(* A version that drops the position with the strategy's state. *)
BoundaryDropsPosition(m) == [Anew(m) EXCEPT !.order = 0, !.exit = "none"]

(* A new session: flatten at the last bar's close, drop what is queued,     *)
(* initialize the strategy anew.                                            *)
Boundary(m) == [Anew(Flattened(m)) EXCEPT !.order = 0, !.exit = "none"]

Opened(m, b, f) == [side |-> m.order, entry |-> b.open,
                    initial |-> StopPrice(strategy.stop, m.order, b.open, f),
                    stop |-> StopPrice(strategy.stop, m.order, b.open, f),
                    best |-> NoPrice, held |-> 0]

(* A version that leaves the best price of the trade before. *)
FillOrderKeepsBest(m, b, f) ==
    IF m.order = 0 THEN m
    ELSE [m EXCEPT !.order = 0, !.unbooked = @ + 1, !.reached = b.open,
                   !.position = [Opened(m, b, f) EXCEPT !.best = m.position.best]]

(* 1) The queued order fills at the open; on an open position apply_fill    *)
(* takes it for a close, of which no trade is recorded.                     *)
FillOrder(m, b, f) ==
    CASE m.order = 0 -> m
      [] m.order # 0 /\ ~ IsFlat(m) -> [m EXCEPT !.order = 0, !.position = [Flat EXCEPT !.best = m.position.best]]
      [] m.order # 0 /\ IsFlat(m) /\ StopRaises(strategy.stop, f) -> [m EXCEPT !.raised = TRUE]
      [] OTHER -> [m EXCEPT !.order = 0, !.unbooked = @ + 1, !.reached = b.open,
                            !.position = Opened(m, b, f)]

(* 1a) The queued exit closes at the open. *)
CloseQueued(m) ==
    IF m.exit = "none" \/ IsFlat(m) THEN m
    ELSE [Close(m) EXCEPT !.exit = "none"]

(* 2) The stop, if the bar's range reaches it. *)
StopCheck(m, b) ==
    IF ~ IsFlat(m) /\ ~ Better(m.position.side, Adverse(m.position.side, b), m.position.stop)
    THEN Close(m) ELSE m

(* time_stop, if there is one. *)
TimeIsUp(held) == strategy.hold > 0 /\ held >= strategy.hold

(* 3) An open position: count the bar, move the best price and the stop,    *)
(* queue an exit.                                                           *)
Manage(m, b, f) ==
    IF IsFlat(m) THEN m
    ELSE LET p == m.position
             end == Favorable(p.side, b)
             q == [p EXCEPT !.held = @ + 1,
                            !.best = IF @ = NoPrice \/ Better(p.side, end, @) THEN end ELSE @]
             r == [q EXCEPT !.stop = IF strategy.trail = {} THEN @
                                     ELSE TrailingATR(CHOOSE rule \in strategy.trail : TRUE, q, f)]
         IN  [m EXCEPT !.position = r,
                       !.reached = IF Better(p.side, end, @) THEN end ELSE @,
                       !.exit = IF \E c \in strategy.exits : Holds(c, r, b, f) THEN "invalidation"
                                ELSE IF TimeIsUp(r.held) THEN "time" ELSE @]

(* Whether the strategy is shown the bar. *)
IsShown(m, b, f) == /\ IsFlat(m) /\ m.exit = "none"
                    /\ \A c \in strategy.gates : Holds(c, m.position, b, f)

(* What a class with a memory takes the bar for; a level is broken by a bar *)
(* whether it is served on that bar or not.                                 *)
Signals(b, f) ==
    IF strategy.class = "volume_spike_fade" THEN {<<x.side, 0>> : x \in Spike(strategy.params, b, f)}
    ELSE {k \in Kinds : Better(k[1], Favorable(k[1], b), k[2])}

Heard(m, b, f, real) ==
    [k \in Kinds |->
        IF IsShown(m, b, f) /\ k \in Signals(b, f)
        THEN [age |-> 0, hidden |-> FALSE, own |-> k \in Signals(b, real)]
        ELSE [m.signal[k] EXCEPT !.age = Min({Far, @ + 1}), !.hidden = @ \/ ~ IsShown(m, b, f)]]

(* What an order fades: a spike of the bars before, or a break, by this bar *)
(* or one before, of the level that is served now.                          *)
Faded(side, before, now, f) ==
    CASE strategy.class = "volume_spike_fade" -> before[<<- side, 0>>]
      [] strategy.class = "range_break_fade"  -> now[<<- side, IF side = -1 THEN f.upper ELSE f.lower>>]
      [] OTHER -> NoSignal

(* 4) Flat and with no exit queued: the gates and the strategy decide.  An  *)
(* order has its stop computed, which may raise.                            *)
Decide(m, b, f, real) ==
    LET d == OnBar(strategy, m.memory, b, f)
        now == Heard(m, b, f, real)
        heard == [m EXCEPT !.signal = now]
    IN  CASE ~ IsShown(m, b, f)                -> heard
          [] IsShown(m, b, f) /\ d.side = 0    -> [heard EXCEPT !.memory = d.memory]
          [] IsShown(m, b, f) /\ d.side # 0 /\ StopRaises(strategy.stop, f) -> [heard EXCEPT !.raised = TRUE]
          [] OTHER -> [heard EXCEPT !.memory = d.memory, !.order = d.side,
                                    !.decided = [session |-> session', faded |-> Faded(d.side, m.signal, now, f)]]

-----------------------------------------------------------------------------
Now == [memory |-> memory, position |-> position, order |-> order, exit |-> exit, raised |-> raised,
        unbooked |-> unbooked, signal |-> signal,
        decided |-> decided, reached |-> reached]

Becomes(m) ==
    /\ memory' = m.memory /\ position' = m.position /\ order' = m.order /\ exit' = m.exit
    /\ raised' = m.raised /\ unbooked' = m.unbooked
    /\ signal' = m.signal /\ decided' = m.decided /\ reached' = m.reached

(* A turn of the loop in the session that is running, or in the next one. *)
Turn(b) ==
    /\ ~ done /\ ~ raised
    /\ session' \in {session, session + 1} \cap 1..MaxSession
    /\ outside => session' # session
    /\ served' \in Features
    /\ \E f \in {IF strategy.lag = 0 THEN served' ELSE served},
          start \in {IF session \in {0, session'} THEN Now ELSE Boundary(Now)} :
       \E filled \in {FillOrder(start, b, f)} :
          IF filled.raised THEN Becomes(filled)
          ELSE \E left \in {StopCheck(CloseQueued(filled), b)} :
               \E managed \in {Manage(left, b, f)} :
               \E after \in {Decide(managed, b, f, served')} : Becomes(after)
    /\ outside' = FALSE
    /\ UNCHANGED <<strategy, done>>

(* A bar outside any session is skipped, but it becomes the last bar. *)
Skip ==
    /\ ~ done /\ ~ raised
    /\ served' \in Features /\ outside' = TRUE
    /\ UNCHANGED <<strategy, run, session, done>>

(* The final flush. *)
Flush ==
    /\ ~ done /\ ~ raised /\ (session # 0 \/ outside)
    /\ done' = TRUE
    /\ Becomes(IF IsFlat(Now) THEN Now ELSE Close(Now))
    /\ UNCHANGED <<strategy, session, served, outside>>

-----------------------------------------------------------------------------
Init == /\ strategy \in Strategies
        /\ memory = Fresh /\ position = Flat /\ order = 0 /\ exit = "none"
        /\ session = 0 /\ outside = FALSE /\ done = FALSE /\ raised = FALSE
        /\ served = [id \in DOMAIN strategy.values |-> NoValue]
        /\ signal = Silence
        /\ decided = [session |-> 0, faded |-> NoSignal]
        /\ unbooked = 0 /\ reached = 0

Next == Flush \/ Skip \/ \E b \in Bar : Turn(b)

Spec == Init /\ [][Next]_vars

-----------------------------------------------------------------------------
Held == IF position.side = 0 THEN 0 ELSE 1

(* Every entry that fills becomes exactly one trade, whichever of the four  *)
(* places closes it; only the position still open has none.  Orders and     *)
(* exits in the queue fit the position they meet.                           *)
OneTradePerEntry ==
    ~ raised => /\ unbooked = Held
                /\ done => Held = 0
                /\ ~ done => (order # 0 => Held = 0) /\ (exit # "none" => Held = 1)

(* A position stems from a decision of the session it is held in, and so    *)
(* does the order in the queue until the session is over.                   *)
DecidedThisSession == (Held = 1 \/ order # 0) => decided.session = session

(* The stop is where the prices of this trade put it: at its initial        *)
(* distance, or behind the best price seen since the entry.                 *)
StopFromOwnPrices ==
    Held = 1 =>
        \/ position.stop = position.initial
        \/ \E rule \in strategy.trail : \E atr \in strategy.values["atr"] \ {NoValue} :
               ~ Better(position.side, position.stop + position.side * rule.multiplier * atr, reached)

(* An order that fades a spike is decided on the bar after a spike the      *)
(* other way, and one that fades a break within the look-back of a bar      *)
(* beyond the level that is served when it is decided, whatever the levels  *)
(* were before; unless bars in between were hidden from the strategy, by a  *)
(* gate, a position or a queued exit.  And a spike is what it is taken for  *)
(* unless features come late.                                               *)
SignalIsRecent ==
    order # 0 /\ ~ raised =>
        CASE strategy.class = "volume_spike_fade" ->
                (decided.faded.age = 0 \/ decided.faded.hidden) /\ (decided.faded.own \/ strategy.lag > 0)
          [] strategy.class = "range_break_fade"  ->
                decided.faded.age < strategy.params.lookback \/ decided.faded.hidden
          [] OTHER -> TRUE
=============================================================================
