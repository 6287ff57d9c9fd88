--------------------------- MODULE StrategyClasses ---------------------------
(***************************************************************************)
(* The strategy classes (strategies/classes) and the conditions, stops and *)
(* adjustments around them (strategies/auxiliary_classes).  A class keeps   *)
(* a memory for the session: [attempts, armed, recent].  A side is 1 or -1  *)
(* and p.sides is the direction_mode; prices are in ticks.                  *)
(***************************************************************************)
EXTENDS Integers, Sequences, SequencesExt, FiniteSetsExt

Sides == {-1, 1}
NoValue == -1       \* a feature that has no value yet

Known(f, ids) == \A id \in ids : f[id] # NoValue

(* initialize: what a session starts with. *)
Fresh == [attempts |-> [s \in Sides |-> 0], armed |-> {}, recent |-> <<>>]
Spent(m) == m.attempts[1] + m.attempts[-1]

Nothing(m) == [side |-> 0, memory |-> m]
Enter(m, side) == [side |-> side, memory |-> [m EXCEPT !.attempts[side] = @ + 1]]
MayTry(p, m, side) == side \in p.sides /\ m.attempts[side] < p.most

StandDown(m) == Nothing(m)

GatedEntry(p, m) == IF Spent(m) < p.most THEN Enter(m, CHOOSE s \in p.sides : TRUE) ELSE Nothing(m)

MomentumBreakout(p, m, f) ==
    IF Spent(m) < p.most /\ Known(f, {"return"}) /\ f["return"] > p.threshold THEN Enter(m, 1) ELSE Nothing(m)

VwapReversion(p, m, b, f) ==
    IF Spent(m) < p.most /\ Known(f, {"vwap"}) /\ b.close <= f.vwap - p.threshold THEN Enter(m, 1)
    ELSE Nothing(m)

(* The gap is in percent of the close before; one counter for both sides. *)
GapFillFade(p, m, b, f) ==
    LET gap == 100 * (b.close - f.prior)
        usable == Spent(m) < p.most /\ Known(f, {"prior"}) /\ f.prior > 0
    IN  CASE usable /\ gap >= p.threshold * f.prior /\ -1 \in p.sides -> Enter(m, -1)
          [] usable /\ gap <= - p.threshold * f.prior /\ 1 \in p.sides -> Enter(m, 1)
          [] OTHER -> Nothing(m)

RangeBreakContinuation(p, m, b, f) ==
    LET ready == Known(f, {"upper", "lower", "volume"}) /\ f.volume >= p.threshold
        up == ready /\ MayTry(p, m, 1) /\ b.close >= f.upper + p.buffer
        down == ready /\ MayTry(p, m, -1) /\ b.close <= f.lower - p.buffer
    IN  IF up THEN Enter(m, 1) ELSE IF down THEN Enter(m, -1) ELSE Nothing(m)

(* A break of the level that the last bars made, this one included, and a   *)
(* close back inside.                                                       *)
RangeBreakFade(p, m, b, f) ==
    LET bars == Append(m.recent, [high |-> b.high, low |-> b.low])
        recent == SubSeq(bars, Max({1, Len(bars) - p.lookback + 1}), Len(bars))
        after == [m EXCEPT !.recent = recent]
        ready == Known(f, {"upper", "lower"})
        failedUp == (\E x \in ToSet(recent) : x.high > f.upper) /\ b.close <= f.upper - p.buffer
        failedDown == (\E x \in ToSet(recent) : x.low < f.lower) /\ b.close >= f.lower + p.buffer
    IN  CASE ready /\ MayTry(p, m, -1) /\ failedUp -> Enter(after, -1)
          [] ready /\ ~ (MayTry(p, m, -1) /\ failedUp) /\ MayTry(p, m, 1) /\ failedDown -> Enter(after, 1)
          [] OTHER -> Nothing(after)

(* A bar of much volume that closes near an end of its range. *)
Spike(p, b, f) ==
    LET range == b.high - b.low
        above == 100 * (b.close - b.low)
        busy == Known(f, {"volume"}) /\ f.volume >= p.threshold /\ range > 0
    IN  CASE busy /\ above >= p.close * range -> {[side |-> 1, high |-> b.high, low |-> b.low]}
          [] busy /\ above < p.close * range /\ above <= (100 - p.close) * range ->
                {[side |-> -1, high |-> b.high, low |-> b.low]}
          [] OTHER -> {}

Extends(spike, b) == IF spike.side = 1 THEN b.high > spike.high ELSE b.low < spike.low

(* A version that waits until the spike is no longer extended. *)
VolumeSpikeFadeWaits(p, m, b, f) ==
    LET faded == {x \in m.armed : ~ Extends(x, b)}
        entered == {x.side : x \in {y \in faded : MayTry(p, m, - y.side)}}
        d == IF entered = {} THEN Nothing(m) ELSE Enter(m, - (CHOOSE s \in entered : TRUE))
        left == m.armed \ faded
    IN  [d EXCEPT !.memory.armed = IF Spike(p, b, f) # {} THEN Spike(p, b, f) ELSE left]

(* The next bar of the strategy does not extend the spike: fade it.  The    *)
(* spike is let go of either way, and this bar may be the next one.         *)
VolumeSpikeFade(p, m, b, f) ==
    LET entered == {x.side : x \in {y \in m.armed : ~ Extends(y, b) /\ MayTry(p, m, - y.side)}}
        d == IF entered = {} THEN Nothing(m) ELSE Enter(m, - (CHOOSE s \in entered : TRUE))
    IN  [d EXCEPT !.memory.armed = Spike(p, b, f)]

Compressed(p, f) == Known(f, {"range", "atr"}) /\ f.atr > 0 /\ 100 * f.range < p.threshold * f.atr

(* A close beyond the last compressed bar. *)
CompressionBreakout(p, m, b, f) ==
    LET up == {x \in m.armed : MayTry(p, m, 1) /\ b.close >= x.high + p.buffer}
        down == {x \in m.armed : MayTry(p, m, -1) /\ b.close <= x.low - p.buffer}
        d == CASE up # {}                 -> Enter([m EXCEPT !.armed = {}], 1)
               [] up = {} /\ down # {}    -> Enter([m EXCEPT !.armed = {}], -1)
               [] OTHER                   -> Nothing(m)
    IN  IF Compressed(p, f) THEN [d EXCEPT !.memory.armed = {[high |-> b.high, low |-> b.low]}] ELSE d

(* on_bar of a flat strategy: the side of its order, or 0, and its memory. *)
OnBar(s, m, b, f) ==
    CASE s.class = "stand_down"               -> StandDown(m)
      [] s.class = "gated_entry"              -> GatedEntry(s.params, m)
      [] s.class = "momentum_breakout"        -> MomentumBreakout(s.params, m, f)
      [] s.class = "vwap_reversion"           -> VwapReversion(s.params, m, b, f)
      [] s.class = "gap_fill_fade"            -> GapFillFade(s.params, m, b, f)
      [] s.class = "range_break_continuation" -> RangeBreakContinuation(s.params, m, b, f)
      [] s.class = "range_break_fade"         -> RangeBreakFade(s.params, m, b, f)
      [] s.class = "volume_spike_fade"        -> VolumeSpikeFade(s.params, m, b, f)
      [] s.class = "compression_breakout"     -> CompressionBreakout(s.params, m, b, f)

-----------------------------------------------------------------------------
(* Conditions, of gates and of invalidations. *)
FeatureThreshold(c, f) ==
    f[c.id] # NoValue /\ CASE c.op = "gt"  -> f[c.id] > c.threshold
                           [] c.op = "gte" -> f[c.id] >= c.threshold
                           [] c.op = "lt"  -> f[c.id] < c.threshold
                           [] c.op = "lte" -> f[c.id] <= c.threshold
                           [] c.op = "eq"  -> f[c.id] = c.threshold

FeatureRange(c, f) == f[c.id] # NoValue /\ c.lo <= f[c.id] /\ f[c.id] <= c.hi

TimeOfSession(c, f) == f.position # NoValue /\ c.lo <= f.position /\ f.position <= c.hi

Distance(p) == p.side * (p.entry - p.initial)

(* The bar reaches so many times the initial risk beyond the entry. *)
RMultipleTarget(c, p, b) ==
    LET risk == Max({Distance(p), - Distance(p)})
        target == p.entry + p.side * c.multiple * risk
    IN  p.side # 0 /\ risk > 0 /\ IF p.side = 1 THEN b.high >= target ELSE b.low <= target

Holds(c, p, b, f) ==
    CASE c.condition = "feature_threshold" -> FeatureThreshold(c, f)
      [] c.condition = "feature_range"     -> FeatureRange(c, f)
      [] c.condition = "time_of_session"   -> TimeOfSession(c, f)
      [] c.condition = "r_multiple_target" -> RMultipleTarget(c, p, b)

(* The initial stop; atr_multiple raises without an ATR or beyond its cap. *)
StopDistance(stop, f) == IF stop.method = "fixed_ticks" THEN stop.ticks ELSE stop.multiplier * f.atr
StopRaises(stop, f) ==
    stop.method = "atr_multiple" /\ (~ Known(f, {"atr"}) \/ stop.multiplier * f.atr > stop.cap)
StopPrice(stop, side, price, f) == price - side * StopDistance(stop, f)

Better(side, p, q) == side * (p - q) > 0

(* trailing_atr: behind the best price, once that is far enough, and never  *)
(* back.                                                                    *)
TrailingATR(rule, p, f) ==
    LET candidate == p.best - p.side * rule.multiplier * f.atr
        active == rule.activation * Distance(p) <= p.side * (p.best - p.entry)
    IN  IF Known(f, {"atr"}) /\ active /\ Better(p.side, candidate, p.stop) THEN candidate ELSE p.stop
=============================================================================
