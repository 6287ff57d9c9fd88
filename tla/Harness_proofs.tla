--------------------------- MODULE Harness_proofs ---------------------------
(***************************************************************************)
(* Theorems of the harness: the bar loop (Backtest), the features it reads  *)
(* and their validation (FeatureStore, FeatureServing) and the pair         *)
(* backtest on them (Pairs), for any strategies, prices, calendars and      *)
(* registries of features.                                                 *)
(*                                                                         *)
(* The bar loop.  A turn takes the run through its parts in order, and each *)
(* part is a function of the run, so that the argument is one lemma per    *)
(* part: what holds before it (Mid, once the order of the bar before has    *)
(* filled) holds after it.                                                 *)
(*                                                                         *)
(* The features.  A transform that looks back only gives the same rows up   *)
(* to a time from inputs that agree up to it (TransformsLookBack, a lemma   *)
(* per transform); so does a registry of them, by the rank of a feature     *)
(* (CausalFrames).  Hence what a feature is from scratch does not change as *)
(* the archive grows, and what is stored is that, as far as the feature was *)
(* computed (FeatureInv), which is inductive and gives the rest.            *)
(*                                                                         *)
(* The pairs.  The loop is a recursive function of the row.  What holds     *)
(* after the row before holds after a row, one lemma per part of the turn;  *)
(* the first row after which it would not gives the contradiction.          *)
(***************************************************************************)
EXTENDS Backtest, Pairs, Sums_proofs

-----------------------------------------------------------------------------
Parts == {"memory", "position", "order", "exit", "raised", "unbooked", "signal", "decided", "reached"}
PositionFields == {"side", "entry", "initial", "stop", "best", "held"}

(* A run as the parts take it; a side is that of a position or order. *)
IsRun(m) ==
    /\ DOMAIN m = Parts /\ DOMAIN m.position = PositionFields
    /\ m.position.side \in {-1, 0, 1} /\ m.order \in {-1, 0, 1} /\ m.raised \in BOOLEAN

(* As many entries without a trade as there are positions, and in the queue *)
(* only what fits the position.                                             *)
Booked(m) ==
    /\ m.unbooked = IF IsFlat(m) THEN 0 ELSE 1
    /\ m.order # 0 => IsFlat(m)
    /\ m.exit # "none" => ~ IsFlat(m)

(* The position and the order stem from a decision of session s. *)
DecidedIn(m, s) == (~ IsFlat(m) \/ m.order # 0) => m.decided.session = s

(* The best price is no better than what has been reached, and the stop is  *)
(* the initial one or no better than its distance behind what was reached.  *)
Trailed(m) ==
    \E rule \in strategy.trail : \E atr \in strategy.values["atr"] \ {NoValue} :
        ~ Better(m.position.side, m.position.stop + m.position.side * rule.multiplier * atr, m.reached)

StopOwn(m) ==
    ~ IsFlat(m) =>
        /\ m.reached \in Int /\ m.position.best \in Int
        /\ m.position.best = NoPrice \/ ~ Better(m.position.side, m.position.best, m.reached)
        /\ m.position.stop = m.position.initial \/ (m.position.stop \in Int /\ Trailed(m))

RunOK(m, s) == IsRun(m) /\ DecidedIn(m, s) /\ StopOwn(m) /\ (~ m.raised => Booked(m))

(* Between the fill of the order and the next decision. *)
Mid(m, s) == RunOK(m, s) /\ ~ m.raised /\ m.order = 0

-----------------------------------------------------------------------------
(* Every class answers with a side or none. *)
LEMMA OnBarSide ==
    ASSUME NEW s \in Strategies, NEW m, NEW b, NEW f
    PROVE  OnBar(s, m, b, f).side \in {-1, 0, 1}
<1>0. Nothing(m).side = 0 /\ \A n, side : Enter(n, side).side = side /\ Nothing(n).side = 0
  BY DEF Nothing, Enter
<1>1. CASE s.class = "stand_down"
  BY <1>0, <1>1 DEF OnBar, StandDown
<1>2. CASE s.class = "gated_entry"
  <2> DEFINE side == CHOOSE x \in s.params.sides : TRUE
  <2>1. s.params.sides \in (SUBSET Sides) \ {{}}
    BY <1>2, StrategiesAssumption
  <2>2. side \in {-1, 1}
    BY <2>1 DEF Sides
  <2>3. OnBar(s, m, b, f) = Enter(m, side) \/ OnBar(s, m, b, f) = Nothing(m)
    BY <1>2 DEF OnBar, GatedEntry
  <2> HIDE DEF side
  <2> QED BY <1>0, <2>2, <2>3
<1>3. CASE s.class = "momentum_breakout"
  BY <1>0, <1>3 DEF OnBar, MomentumBreakout
<1>4. CASE s.class = "vwap_reversion"
  BY <1>0, <1>4 DEF OnBar, VwapReversion
<1>5. CASE s.class = "gap_fill_fade"
  BY <1>0, <1>5 DEF OnBar, GapFillFade
<1>6. CASE s.class = "range_break_continuation"
  BY <1>0, <1>6 DEF OnBar, RangeBreakContinuation
<1>7. CASE s.class = "range_break_fade"
  BY <1>0, <1>7 DEF OnBar, RangeBreakFade
<1>8. CASE s.class = "volume_spike_fade"
  <2> DEFINE entered == {x.side : x \in {y \in m.armed : ~ Extends(y, b) /\ MayTry(s.params, m, - y.side)}}
             d == IF entered = {} THEN Nothing(m) ELSE Enter(m, - (CHOOSE x \in entered : TRUE))
  <2>1. s.params.sides \subseteq {-1, 1}
    BY <1>8, StrategiesAssumption DEF Sides
  <2>2. \A x \in entered : - x \in {-1, 1}
    BY <2>1 DEF MayTry
  <2>3. d.side \in {-1, 0, 1} /\ DOMAIN d = {"side", "memory"}
    <3>1. entered # {} => - (CHOOSE x \in entered : TRUE) \in {-1, 1}
      BY <2>2
    <3> HIDE DEF entered
    <3> QED BY <1>0, <3>1 DEF Nothing, Enter
  <2>4. OnBar(s, m, b, f) = [d EXCEPT !.memory.armed = Spike(s.params, b, f)]
    BY <1>8 DEF OnBar, VolumeSpikeFade
  <2> HIDE DEF d
  <2> QED BY <2>3, <2>4
<1>9. CASE s.class = "compression_breakout"
  BY <1>0, <1>9 DEF OnBar, CompressionBreakout, Enter, Nothing
<1> QED BY <1>1, <1>2, <1>3, <1>4, <1>5, <1>6, <1>7, <1>8, <1>9, StrategiesAssumption DEF Classes

(* A price of a bar is a number. *)
LEMMA BarPrices ==
    ASSUME NEW b \in Bar
    PROVE  b.open \in Nat /\ b.high \in Nat /\ b.low \in Nat /\ b.close \in Nat
BY BacktestAssumption DEF Bar, Price

(* A close leaves a flat run, one trade the richer. *)
LEMMA CloseKeeps ==
    ASSUME NEW m, NEW s, Mid(m, s), ~ IsFlat(m)
    PROVE  /\ RunOK([Close(m) EXCEPT !.exit = "none"], s) /\ ~ Close(m).raised /\ Close(m).order = 0
           /\ IsFlat(Close(m)) /\ Close(m).unbooked = 0
           /\ m.exit = "none" => Mid(Close(m), s)
BY DEF Mid, RunOK, IsRun, Booked, DecidedIn, StopOwn, IsFlat, Close, Flat, Parts, PositionFields

(* The order fills, or its stop raises. *)
LEMMA FillOrderKeeps ==
    ASSUME NEW m, NEW s, RunOK(m, s), ~ m.raised, NEW b \in Bar, NEW f
    PROVE  LET n == FillOrder(m, b, f) IN IF n.raised THEN RunOK(n, s) ELSE Mid(n, s)
<1>1. CASE m.order = 0
  BY <1>1 DEF FillOrder, Mid
<1>2. CASE m.order # 0
  <2>1. IsFlat(m) /\ m.decided.session = s
    BY <1>2 DEF RunOK, Booked, DecidedIn
  <2>2. CASE StopRaises(strategy.stop, f)
    <3>1. FillOrder(m, b, f) = [m EXCEPT !.raised = TRUE]
      BY <1>2, <2>1, <2>2 DEF FillOrder
    <3> QED BY <2>1, <3>1 DEF RunOK, IsRun, DecidedIn, StopOwn, IsFlat, Parts
  <2>3. CASE ~ StopRaises(strategy.stop, f)
    <3> DEFINE p == Opened(m, b, f)
               n == [m EXCEPT !.order = 0, !.unbooked = @ + 1, !.reached = b.open, !.position = p]
    <3>1. FillOrder(m, b, f) = n
      BY <1>2, <2>1, <2>3 DEF FillOrder
    <3>2. /\ DOMAIN p = PositionFields /\ p.side = m.order /\ p.side \in {-1, 1}
          /\ p.best = NoPrice /\ p.stop = p.initial
      BY <1>2 DEF Opened, PositionFields, RunOK, IsRun
    <3> HIDE DEF p
    <3>3. /\ DOMAIN n = Parts /\ n.position = p /\ n.order = 0 /\ n.raised = m.raised
          /\ n.unbooked = 1 /\ n.reached = b.open /\ n.decided = m.decided /\ n.exit = m.exit
      BY <2>1 DEF RunOK, IsRun, Booked, IsFlat, Parts
    <3> HIDE DEF n
    <3>4. b.open \in Int /\ NoPrice \in Int
      BY BarPrices DEF NoPrice
    <3>5. IsRun(n) /\ ~ n.raised
      BY <3>2, <3>3 DEF RunOK, IsRun
    <3>6. Booked(n) /\ DecidedIn(n, s) /\ StopOwn(n)
      BY <2>1, <3>2, <3>3, <3>4 DEF Booked, DecidedIn, StopOwn, IsFlat
    <3> QED BY <3>1, <3>3, <3>5, <3>6 DEF RunOK, Mid
  <2> QED BY <2>2, <2>3
<1> QED BY <1>1, <1>2

(* The queued exit and the stop close what is open. *)
LEMMA LeavingKeeps ==
    ASSUME NEW m, NEW s, Mid(m, s), NEW b
    PROVE  Mid(StopCheck(CloseQueued(m), b), s) /\ CloseQueued(m).exit = "none"
<1> DEFINE n == CloseQueued(m)
<1>1. Mid(n, s) /\ n.exit = "none"
  <2>1. CASE m.exit = "none"
    BY <2>1 DEF CloseQueued
  <2>2. CASE m.exit # "none"
    <3>1. ~ IsFlat(m)
      BY <2>2 DEF Mid, RunOK, Booked
    <3>2. n = [Close(m) EXCEPT !.exit = "none"]
      BY <2>2, <3>1 DEF CloseQueued
    <3>3. DOMAIN Close(m) = Parts
      BY DEF Close, Mid, RunOK, IsRun
    <3>4. n.raised = Close(m).raised /\ n.order = Close(m).order /\ n.exit = "none"
      BY <3>2, <3>3 DEF Parts
    <3> QED BY <3>1, <3>2, <3>4, CloseKeeps DEF Mid
  <2> QED BY <2>1, <2>2
<1> HIDE DEF n
<1>2. Mid(StopCheck(n, b), s)
  <2>1. StopCheck(n, b) = n \/ (~ IsFlat(n) /\ StopCheck(n, b) = Close(n))
    BY DEF StopCheck
  <2> QED BY <1>1, <2>1, CloseKeeps
<1> QED BY <1>1, <1>2 DEF n

(* The features a turn sees are those of the strategy, or have no value. *)
Offered(f) == \A id \in DOMAIN strategy.values : f[id] = NoValue \/ f[id] \in strategy.values[id]

(* The trailing stop moves to its distance behind the best price, or not. *)
LEMMA TrailingMoves ==
    ASSUME NEW rule \in strategy.trail, strategy \in Strategies, NEW f, Offered(f),
           NEW q, q.side \in {-1, 1}, q.best \in Int
    PROVE  \/ TrailingATR(rule, q, f) = q.stop
           \/ \E atr \in strategy.values["atr"] \ {NoValue} :
                  /\ q.side * rule.multiplier * atr \in Int
                  /\ TrailingATR(rule, q, f) = q.best - q.side * rule.multiplier * atr
<1> DEFINE atr == f["atr"]
<1>1. CASE atr = NoValue
  BY <1>1 DEF TrailingATR, Known
<1>2. CASE atr # NoValue
  <2>1. rule.multiplier \in Int /\ "atr" \in DOMAIN strategy.values /\ strategy.values["atr"] \subseteq Int
    BY StrategiesAssumption
  <2>2. atr \in strategy.values["atr"] \ {NoValue} /\ atr \in Int
    BY <1>2, <2>1 DEF Offered
  <2>3. q.side * rule.multiplier * atr \in Int
    <3> HIDE DEF atr
    <3> QED BY <2>1, <2>2
  <2>4. TrailingATR(rule, q, f) \in {q.stop, q.best - q.side * rule.multiplier * atr}
    BY DEF TrailingATR
  <2> QED BY <2>2, <2>3, <2>4
<1> QED BY <1>1, <1>2

(* The best price seen and the best price so far move together. *)
LEMMA BestMoves ==
    ASSUME NEW side \in {-1, 1}, NEW end \in Int, NEW best \in Int, NEW top \in Int,
           best = NoPrice \/ ~ Better(side, best, top)
    PROVE  LET best2 == IF best = NoPrice \/ Better(side, end, best) THEN end ELSE best
               top2 == IF Better(side, end, top) THEN end ELSE top
           IN  /\ best2 \in Int /\ top2 \in Int /\ ~ Better(side, best2, top2)
               /\ \A x \in Int : ~ Better(side, x, top) => ~ Better(side, x, top2)
<1>1. CASE side = 1
  BY <1>1 DEF Better
<1>2. CASE side = -1
  BY <1>2 DEF Better
<1> QED BY <1>1, <1>2

(* An open position is kept, its stop behind what has been reached. *)
LEMMA ManageKeeps ==
    ASSUME NEW m, NEW s, Mid(m, s), NEW b \in Bar, NEW f, strategy \in Strategies, Offered(f)
    PROVE  Mid(Manage(m, b, f), s)
<1>1. CASE IsFlat(m)
  BY <1>1 DEF Manage
<1>2. CASE ~ IsFlat(m)
  <2> DEFINE p == m.position
             end == Favorable(p.side, b)
             q == [p EXCEPT !.held = @ + 1,
                            !.best = IF @ = NoPrice \/ Better(p.side, end, @) THEN end ELSE @]
             stop2 == IF strategy.trail = {} THEN q.stop
                      ELSE TrailingATR(CHOOSE rule \in strategy.trail : TRUE, q, f)
             r == [q EXCEPT !.stop = stop2]
             top2 == IF Better(p.side, end, m.reached) THEN end ELSE m.reached
             why == IF \E c \in strategy.exits : Holds(c, r, b, f) THEN "invalidation"
                    ELSE IF TimeIsUp(r.held) THEN "time" ELSE m.exit
             n == [m EXCEPT !.position = r, !.reached = top2, !.exit = why]
  <2>1. Manage(m, b, f) = n
    BY <1>2 DEF Manage, Mid, RunOK, IsRun, Parts, PositionFields
  <2>2. /\ p.side \in {-1, 1} /\ end \in Int /\ p.best \in Int /\ m.reached \in Int
        /\ p.best = NoPrice \/ ~ Better(p.side, p.best, m.reached)
    BY <1>2, BarPrices DEF Mid, RunOK, IsRun, StopOwn, IsFlat, Favorable
  <2>3. DOMAIN q = PositionFields /\ q.side = p.side /\ q.stop = p.stop /\ q.initial = p.initial
    BY DEF Mid, RunOK, IsRun, PositionFields
  <2>4. q.best = IF p.best = NoPrice \/ Better(p.side, end, p.best) THEN end ELSE p.best
    BY DEF Mid, RunOK, IsRun, PositionFields
  <2>5. /\ q.best \in Int /\ top2 \in Int /\ ~ Better(p.side, q.best, top2)
        /\ \A x \in Int : ~ Better(p.side, x, m.reached) => ~ Better(p.side, x, top2)
    <3> DEFINE best2 == IF p.best = NoPrice \/ Better(p.side, end, p.best) THEN end ELSE p.best
    <3>1. /\ best2 \in Int /\ top2 \in Int /\ ~ Better(p.side, best2, top2)
          /\ \A x \in Int : ~ Better(p.side, x, m.reached) => ~ Better(p.side, x, top2)
      <4> HIDE DEF p, q, end
      <4> QED BY <2>2, BestMoves
    <3> HIDE DEF top2, p, q, end
    <3> QED BY <2>4, <3>1
  <2>6. DOMAIN r = PositionFields /\ r.side = p.side /\ r.initial = p.initial /\ r.best = q.best /\ r.stop = stop2
    <3> HIDE DEF q, stop2, p
    <3> QED BY <2>3 DEF PositionFields
  <2>7. /\ DOMAIN n = Parts /\ n.position = r /\ n.reached = top2 /\ n.raised = m.raised /\ n.order = m.order
        /\ n.unbooked = m.unbooked /\ n.decided = m.decided
    <3> HIDE DEF r, top2, why
    <3> QED BY DEF Mid, RunOK, IsRun, Parts
  <2>8. r.stop = r.initial \/ (r.stop \in Int /\ Trailed(n))
    <3> HIDE DEF r, n, top2, q, p
    <3>1. CASE stop2 = q.stop
      <4>1. p.stop = p.initial \/ (p.stop \in Int /\ Trailed(m))
        BY <1>2 DEF p, Mid, RunOK, StopOwn
      <4>2. CASE p.stop \in Int /\ Trailed(m)
        <5>1. PICK rule \in strategy.trail, atr \in strategy.values["atr"] \ {NoValue} :
                 ~ Better(p.side, p.stop + p.side * rule.multiplier * atr, m.reached)
          BY <4>2 DEF Trailed, p
        <5>2. p.stop + p.side * rule.multiplier * atr \in Int
          BY <2>2, <4>2, StrategiesAssumption
        <5>3. ~ Better(p.side, p.stop + p.side * rule.multiplier * atr, top2)
          BY <2>5, <5>1, <5>2
        <5> QED BY <2>3, <2>6, <2>7, <3>1, <4>2, <5>3 DEF Trailed
      <4> QED BY <2>3, <2>6, <3>1, <4>1, <4>2
    <3>2. CASE stop2 # q.stop
      <4> DEFINE rule == CHOOSE x \in strategy.trail : TRUE
      <4>1. rule \in strategy.trail /\ stop2 = TrailingATR(rule, q, f)
        BY <3>2
      <4> HIDE DEF rule, stop2
      <4>2. PICK atr \in strategy.values["atr"] \ {NoValue} :
               /\ q.side * rule.multiplier * atr \in Int
               /\ stop2 = q.best - q.side * rule.multiplier * atr
        BY <2>2, <2>3, <2>5, <3>2, <4>1, TrailingMoves
      <4>3. stop2 \in Int /\ stop2 + q.side * rule.multiplier * atr = q.best
        <5> DEFINE d == q.side * rule.multiplier * atr
        <5> HIDE DEF d
        <5>1. d \in Int /\ stop2 = q.best - d
          BY <4>2 DEF d
        <5>2. stop2 \in Int /\ stop2 + d = q.best
          BY <2>5, <5>1
        <5> QED BY <5>2 DEF d
      <4> QED BY <2>3, <2>5, <2>6, <2>7, <4>1, <4>3 DEF Trailed
    <3> QED BY <3>1, <3>2
  <2> HIDE DEF n, r, top2, q, p, stop2
  <2>9. IsRun(n) /\ Booked(n) /\ DecidedIn(n, s) /\ ~ n.raised /\ n.order = 0
    BY <1>2, <2>2, <2>6, <2>7 DEF p, Mid, RunOK, IsRun, Booked, DecidedIn, IsFlat
  <2>10. StopOwn(n)
    BY <2>5, <2>6, <2>7, <2>8 DEF StopOwn
  <2> QED BY <2>1, <2>9, <2>10 DEF Mid, RunOK
<1> QED BY <1>1, <1>2

(* What is decided is queued on a flat run, in the session that decides. *)
LEMMA DecideKeeps ==
    ASSUME NEW m, Mid(m, session'), NEW b, NEW f, NEW real, strategy \in Strategies
    PROVE  RunOK(Decide(m, b, f, real), session')
<1> DEFINE d == OnBar(strategy, m.memory, b, f)
           h == Heard(m, b, f, real)
           heard == [m EXCEPT !.signal = h]
           dec == [session |-> session', faded |-> Faded(d.side, m.signal, h, f)]
<1>0. d.side \in {-1, 0, 1}
  BY OnBarSide
<1>1. \/ Decide(m, b, f, real) = heard
      \/ Decide(m, b, f, real) = [heard EXCEPT !.memory = d.memory]
      \/ Decide(m, b, f, real) = [heard EXCEPT !.raised = TRUE]
      \/ /\ IsShown(m, b, f)
         /\ Decide(m, b, f, real) = [heard EXCEPT !.memory = d.memory, !.order = d.side, !.decided = dec]
  BY DEF Decide
<1>2. DOMAIN m = Parts
  BY DEF Mid, RunOK, IsRun
<1> HIDE DEF d, h
<1>3. /\ DOMAIN heard = Parts
      /\ heard.position = m.position /\ heard.order = m.order /\ heard.raised = m.raised /\ heard.exit = m.exit
      /\ heard.unbooked = m.unbooked /\ heard.decided = m.decided /\ heard.reached = m.reached
  BY <1>2 DEF Parts
<1>4. dec.session = session'
  OBVIOUS
<1> HIDE DEF heard, dec
<1>5. ASSUME NEW n,
             /\ DOMAIN n = Parts
             /\ n.position = m.position /\ n.order = m.order /\ n.raised \in BOOLEAN /\ n.exit = m.exit
             /\ n.unbooked = m.unbooked /\ n.decided = m.decided /\ n.reached = m.reached
      PROVE  RunOK(n, session')
  BY <1>5 DEF Mid, RunOK, IsRun, Booked, DecidedIn, StopOwn, Trailed, IsFlat
<1>6. CASE Decide(m, b, f, real) = heard
  BY <1>3, <1>5, <1>6 DEF Mid, RunOK, IsRun
<1>7. CASE Decide(m, b, f, real) = [heard EXCEPT !.memory = d.memory]
  <2> DEFINE n == [heard EXCEPT !.memory = d.memory]
  <2>1. /\ DOMAIN n = Parts
        /\ n.position = m.position /\ n.order = m.order /\ n.raised = m.raised /\ n.exit = m.exit
        /\ n.unbooked = m.unbooked /\ n.decided = m.decided /\ n.reached = m.reached
    BY <1>3 DEF Parts
  <2>2. n.raised \in BOOLEAN
    BY <2>1 DEF Mid, RunOK, IsRun
  <2> HIDE DEF n
  <2>3. RunOK(n, session')
    BY <1>5, <2>1, <2>2
  <2> QED BY <1>7, <2>3 DEF n
<1>8. CASE Decide(m, b, f, real) = [heard EXCEPT !.raised = TRUE]
  <2> DEFINE n == [heard EXCEPT !.raised = TRUE]
  <2>1. /\ DOMAIN n = Parts
        /\ n.position = m.position /\ n.order = m.order /\ n.raised = TRUE /\ n.exit = m.exit
        /\ n.unbooked = m.unbooked /\ n.decided = m.decided /\ n.reached = m.reached
    BY <1>3 DEF Parts
  <2> HIDE DEF n
  <2>2. RunOK(n, session')
    BY <1>5, <2>1
  <2> QED BY <1>8, <2>2 DEF n
<1>9. CASE /\ IsShown(m, b, f)
           /\ Decide(m, b, f, real) = [heard EXCEPT !.memory = d.memory, !.order = d.side, !.decided = dec]
  <2> DEFINE n == [heard EXCEPT !.memory = d.memory, !.order = d.side, !.decided = dec]
  <2>1. /\ DOMAIN n = Parts
        /\ n.position = m.position /\ n.order = d.side /\ n.raised = m.raised /\ n.exit = m.exit
        /\ n.unbooked = m.unbooked /\ n.decided = dec
    BY <1>3 DEF Parts
  <2>2. IsFlat(m) /\ m.exit = "none"
    BY <1>9 DEF IsShown
  <2> HIDE DEF n
  <2>3. RunOK(n, session')
    BY <1>0, <1>4, <2>1, <2>2 DEF Mid, RunOK, IsRun, Booked, DecidedIn, StopOwn, IsFlat
  <2> QED BY <1>9, <2>3 DEF n
<1> QED BY <1>1, <1>6, <1>7, <1>8, <1>9

-----------------------------------------------------------------------------
(* The inductive invariant.  A run that was abandoned or flushed need not   *)
(* be booked in its queue, and before the first session nothing is open.    *)
LoopInv ==
    /\ strategy \in Strategies /\ Offered(served) /\ session \in Nat
    /\ IsRun(Now) /\ DecidedIn(Now, session) /\ StopOwn(Now)
    /\ session = 0 => IsFlat(Now) /\ order = 0
    /\ ~ raised => (unbooked = Held) /\ (IF done THEN Held = 0 ELSE Booked(Now))

(* What Now holds. *)
LEMMA NowHolds ==
    /\ DOMAIN Now = Parts
    /\ Now.memory = memory /\ Now.position = position /\ Now.order = order /\ Now.exit = exit
    /\ Now.raised = raised /\ Now.unbooked = unbooked /\ Now.signal = signal /\ Now.decided = decided
    /\ Now.reached = reached
BY DEF Now, Parts

(* A turn begins with the run of its session, or with one begun anew. *)
LEMMA StartHolds ==
    ASSUME LoopInv, ~ done, ~ raised, session' \in {session, session + 1}
    PROVE  /\ RunOK(IF session \in {0, session'} THEN Now ELSE Boundary(Now), session')
           /\ ~ (IF session \in {0, session'} THEN Now ELSE Boundary(Now)).raised
<1>1. RunOK(Now, session) /\ ~ Now.raised
  BY NowHolds DEF LoopInv, RunOK
<1>2. CASE session \in {0, session'}
  <2>1. DecidedIn(Now, session')
    BY <1>2, NowHolds DEF LoopInv, DecidedIn, IsFlat
  <2> QED BY <1>1, <1>2, <2>1 DEF RunOK
<1>3. CASE session \notin {0, session'}
  <2> DEFINE m == Flattened(Now)
             n == Boundary(Now)
  <2>1. DOMAIN m = Parts /\ m.raised = FALSE /\ m.unbooked = 0
    <3>1. CASE IsFlat(Now)
      BY <1>1, <3>1 DEF Flattened, RunOK, IsRun, Booked
    <3>2. CASE ~ IsFlat(Now)
      BY <1>1, <3>2 DEF Flattened, RunOK, IsRun, Booked, Close, Parts
    <3> QED BY <3>1, <3>2
  <2> HIDE DEF m
  <2>2. n = [[m EXCEPT !.position = Flat, !.memory = Fresh, !.signal = Silence] EXCEPT !.order = 0, !.exit = "none"]
    BY DEF Boundary, Anew, m
  <2>3. /\ DOMAIN n = Parts /\ n.position = Flat /\ n.order = 0 /\ n.exit = "none"
        /\ n.raised = FALSE /\ n.unbooked = 0
    BY <2>1, <2>2 DEF Parts
  <2> HIDE DEF n
  <2>4. DOMAIN Flat = PositionFields /\ Flat.side = 0
    BY DEF Flat, PositionFields
  <2>5. RunOK(n, session') /\ ~ n.raised
    BY <2>3, <2>4 DEF RunOK, IsRun, Booked, DecidedIn, StopOwn, IsFlat
  <2> QED BY <1>3, <2>5 DEF n
<1> QED BY <1>2, <1>3

(* A run is what the variables become. *)
LEMMA BecomesHolds ==
    ASSUME NEW n, Becomes(n), RunOK(n, session'), strategy' = strategy,
           strategy \in Strategies, Offered(served)', session' \in Nat \ {0}, done' = FALSE
    PROVE  LoopInv'
<1>1. /\ (DOMAIN Now = Parts)' /\ (Now.position)' = n.position /\ (Now.order)' = n.order /\ (Now.exit)' = n.exit
      /\ (Now.raised)' = n.raised /\ (Now.unbooked)' = n.unbooked /\ (Now.decided)' = n.decided
      /\ (Now.reached)' = n.reached
  BY DEF Becomes, Now, Parts
<1>2. IsRun(Now)' /\ DecidedIn(Now, session)'
  BY <1>1 DEF RunOK, IsRun, DecidedIn, IsFlat
<1>3. StopOwn(Now)'
  BY <1>1 DEF RunOK, StopOwn, Trailed, IsFlat
<1>4. ~ raised' => (unbooked' = Held' /\ Booked(Now)')
  BY <1>1 DEF RunOK, Booked, Held, IsFlat, Becomes
<1> QED BY <1>2, <1>3, <1>4 DEF LoopInv

(* A turn takes the parts in order. *)
LEMMA TurnKeeps ==
    ASSUME LoopInv, NEW b \in Bar, Turn(b)
    PROVE  LoopInv'
<1>1. /\ ~ done /\ ~ raised /\ done' = FALSE /\ strategy' = strategy /\ strategy \in Strategies
      /\ session' \in {session, session + 1} /\ session' \in Nat \ {0}
  BY BacktestAssumption DEF Turn, LoopInv, IsRun, Now
<1>2. Offered(served')
  BY DEF Turn, Features, Offered
<1>3. Offered(served)'
  BY <1>1, <1>2 DEF Offered
<1> DEFINE f == IF strategy.lag = 0 THEN served' ELSE served
           start == IF session \in {0, session'} THEN Now ELSE Boundary(Now)
           filled == FillOrder(start, b, f)
           left == StopCheck(CloseQueued(filled), b)
           managed == Manage(left, b, f)
           after == Decide(managed, b, f, served')
<1>4. IF filled.raised THEN Becomes(filled) ELSE Becomes(after)
  BY DEF Turn
<1>5. Offered(f)
  BY <1>2 DEF LoopInv
<1>6. RunOK(start, session') /\ ~ start.raised
  BY <1>1, StartHolds
<1> HIDE DEF f, start, filled, left, managed, after
<1>7. IF filled.raised THEN RunOK(filled, session') ELSE Mid(filled, session')
  BY <1>6, FillOrderKeeps DEF filled
<1>8. CASE filled.raised
  BY <1>1, <1>3, <1>4, <1>7, <1>8, BecomesHolds
<1>9. CASE ~ filled.raised
  <2>1. Mid(left, session')
    BY <1>7, <1>9, LeavingKeeps DEF left
  <2>2. Mid(managed, session')
    BY <1>1, <1>5, <2>1, ManageKeeps DEF managed
  <2>3. RunOK(after, session')
    BY <1>1, <2>2, DecideKeeps DEF after
  <2> QED BY <1>1, <1>3, <1>4, <1>9, <2>3, BecomesHolds
<1> QED BY <1>8, <1>9

(* The final flush closes what is open. *)
LEMMA FlushKeeps ==
    ASSUME LoopInv, Flush
    PROVE  LoopInv'
<1> DEFINE n == IF IsFlat(Now) THEN Now ELSE Close(Now)
<1>1. ~ raised /\ done' = TRUE /\ Becomes(n) /\ UNCHANGED <<strategy, session, served>>
  BY DEF Flush
<1>2. /\ DOMAIN n = Parts /\ IsFlat(n) /\ n.position.side = 0 /\ DOMAIN n.position = PositionFields
      /\ n.order = order /\ n.raised = raised /\ n.decided = decided /\ n.unbooked = 0
  <2>1. IsRun(Now) /\ Now.unbooked = IF IsFlat(Now) THEN 0 ELSE 1
    BY <1>1, NowHolds DEF LoopInv, Held, IsFlat, Flush
  <2>2. CASE IsFlat(Now)
    BY <2>1, <2>2, NowHolds DEF IsRun, IsFlat
  <2>3. CASE ~ IsFlat(Now)
    BY <2>1, <2>3, NowHolds DEF IsRun, IsFlat, Close, Flat, Parts, PositionFields
  <2> QED BY <2>2, <2>3
<1> HIDE DEF n
<1>3. /\ (DOMAIN Now = Parts)' /\ (Now.position)' = n.position /\ (Now.order)' = order
      /\ (Now.raised)' = raised /\ (Now.decided)' = decided
  BY <1>1, <1>2 DEF Becomes, Now, Parts
<1>4. IsRun(Now)' /\ IsFlat(Now)' /\ StopOwn(Now)'
  BY <1>2, <1>3, NowHolds DEF LoopInv, IsRun, IsFlat, StopOwn
<1>5. DecidedIn(Now, session)'
  BY <1>1, <1>3, <1>4, NowHolds DEF LoopInv, DecidedIn, IsFlat
<1>6. unbooked' = 0 /\ Held' = 0 /\ order' = order
  BY <1>1, <1>2 DEF Becomes, Held
<1> QED BY <1>1, <1>4, <1>5, <1>6 DEF LoopInv, Offered

(* Every reachable state satisfies the invariant. *)
THEOREM Loops == Spec => []LoopInv
<1>1. ASSUME Init PROVE LoopInv
  <2>1. /\ strategy \in Strategies /\ Offered(served) /\ session = 0 /\ done = FALSE
        /\ position = Flat /\ order = 0 /\ exit = "none" /\ raised = FALSE /\ unbooked = 0
    BY <1>1 DEF Init, Offered
  <2>2. Flat.side = 0 /\ DOMAIN Flat = PositionFields
    BY DEF Flat, PositionFields
  <2>3. IsRun(Now) /\ DecidedIn(Now, session) /\ StopOwn(Now) /\ Booked(Now) /\ IsFlat(Now)
    BY <2>1, <2>2, NowHolds DEF IsRun, DecidedIn, StopOwn, Booked, IsFlat
  <2> QED BY <2>1, <2>2, <2>3 DEF LoopInv, Held
<1>2. ASSUME LoopInv, [Next]_vars PROVE LoopInv'
  <2>1. CASE Flush
    BY <1>2, <2>1, FlushKeeps
  <2>2. CASE Skip
    <3>1. UNCHANGED <<strategy, run, session, done>> /\ Offered(served')
      BY <2>2 DEF Skip, Features, Offered
    <3> QED BY <1>2, <3>1
        DEF LoopInv, run, Offered, Now, IsRun, DecidedIn, StopOwn, Trailed, Booked, IsFlat, Held
  <2>3. CASE \E b \in Bar : Turn(b)
    BY <1>2, <2>3, TurnKeeps
  <2>4. CASE UNCHANGED vars
    BY <1>2, <2>4
    DEF LoopInv, vars, run, Offered, Now, IsRun, DecidedIn, StopOwn, Trailed, Booked, IsFlat, Held
  <2> QED BY <1>2, <2>1, <2>2, <2>3, <2>4 DEF Next
<1> QED BY <1>1, <1>2, PTL DEF Spec

-----------------------------------------------------------------------------
(* Every entry that fills becomes one trade, at whichever of the four       *)
(* places of the loop it is closed, and nothing is queued that does not fit *)
(* the position it will meet.                                               *)
THEOREM EveryEntryIsBooked == Spec => []OneTradePerEntry
<1>1. LoopInv => OneTradePerEntry
  BY NowHolds DEF LoopInv, OneTradePerEntry, Booked, IsFlat, Held
<1> QED BY <1>1, Loops, PTL

(* What is held or queued was decided in the session that is running: the   *)
(* boundary flattens and drops the queue before the next bar is met.        *)
THEOREM NothingCrossesSessions == Spec => []DecidedThisSession
<1>1. LoopInv => DecidedThisSession
  BY NowHolds DEF LoopInv, DecidedThisSession, DecidedIn, IsFlat, Held
<1> QED BY <1>1, Loops, PTL

(* A stop is the initial one, or trails no better price than this trade has *)
(* seen since its entry.                                                    *)
THEOREM StopIsOfThisTrade == Spec => []StopFromOwnPrices
<1>1. LoopInv => StopFromOwnPrices
  BY NowHolds DEF LoopInv, StopFromOwnPrices, StopOwn, Trailed, IsFlat, Held
<1> QED BY <1>1, Loops, PTL

-----------------------------------------------------------------------------
(* Signals.  The classes that arm on a bar and act on a later one do so     *)
(* from their memory, which is compared with the history of what they were  *)
(* shown.                                                                   *)

(* Whether a signal is that of the bar before, and what it is taken for. *)
JustHeard(g) == (g.age = 0 \/ g.hidden) /\ (g.own \/ strategy.lag > 0)

(* What is armed by volume_spike_fade, and what it has acted on. *)
SpikesAreFresh(m) ==
    strategy.class = "volume_spike_fade" =>
        /\ \A x \in m.memory.armed : x.side \in Sides /\ JustHeard(m.signal[<<x.side, 0>>])
        /\ m.order # 0 => JustHeard(m.decided.faded)

(* A bar beyond a level that range_break_fade may be served. *)
Breaks(x, k) == Better(k[1], Favorable(k[1], x), k[2])

(* What the ring of the last bars keeps of a bar. *)
HighLow == [high : Int, low : Int]

(* A break still among the last bars is no older than its place among them. *)
BreaksAreRecent(m) ==
    strategy.class = "range_break_fade" =>
        /\ m.memory.recent \in Seq(HighLow)
        /\ \A i \in 1..Len(m.memory.recent), k \in Kinds :
               Breaks(m.memory.recent[i], k) =>
                   m.signal[k].hidden \/ m.signal[k].age <= Len(m.memory.recent) - i
        /\ m.order # 0 => m.decided.faded.hidden \/ m.decided.faded.age < strategy.params.lookback

Aged(g) == DOMAIN g = {"age", "hidden", "own"} /\ g.age \in Nat

Remembers(m) ==
    /\ strategy.class \in {"volume_spike_fade", "range_break_fade"} =>
           DOMAIN m.memory = {"attempts", "armed", "recent"}
    /\ \A k \in Kinds : Aged(m.signal[k])
    /\ SpikesAreFresh(m) /\ BreaksAreRecent(m)

(* What the parts before the decision leave alone. *)
SameTale(m, n) ==
    /\ DOMAIN n = Parts /\ n.memory = m.memory /\ n.signal = m.signal /\ n.decided = m.decided
    /\ n.order \in {m.order, 0}

(* The parts before the decision leave the memory and the signals alone. *)
LEMMA PartsTellNothing ==
    ASSUME NEW m, DOMAIN m = Parts, NEW b, NEW f
    PROVE  /\ SameTale(m, FillOrder(m, b, f)) /\ SameTale(m, CloseQueued(m))
           /\ SameTale(m, StopCheck(m, b)) /\ SameTale(m, Manage(m, b, f))
<1>1. SameTale(m, Close(m)) /\ SameTale(m, [Close(m) EXCEPT !.exit = "none"])
  BY DEF SameTale, Close, Parts
<1>2. SameTale(m, FillOrder(m, b, f))
  <2>1. \/ FillOrder(m, b, f) = m
        \/ FillOrder(m, b, f) = [m EXCEPT !.order = 0, !.position = [Flat EXCEPT !.best = m.position.best]]
        \/ FillOrder(m, b, f) = [m EXCEPT !.raised = TRUE]
        \/ FillOrder(m, b, f) = [m EXCEPT !.order = 0, !.unbooked = @ + 1, !.reached = b.open,
                                          !.position = Opened(m, b, f)]
    BY DEF FillOrder
  <2> QED BY <2>1 DEF SameTale, Parts
<1>3. SameTale(m, CloseQueued(m)) /\ SameTale(m, StopCheck(m, b))
  BY <1>1 DEF CloseQueued, StopCheck, SameTale
<1>4. SameTale(m, Manage(m, b, f))
  <2>1. \/ Manage(m, b, f) = m
        \/ \E p, top, why : Manage(m, b, f) = [m EXCEPT !.position = p, !.reached = top, !.exit = why]
    BY DOMAIN m = Parts, ZenonT(30) DEF Manage, Parts
  <2> QED BY <2>1 DEF SameTale, Parts
<1> QED BY <1>2, <1>3, <1>4

(* So what was remembered stays so. *)
LEMMA SameTaleKeeps ==
    ASSUME NEW m, NEW n, SameTale(m, n), Remembers(m)
    PROVE  Remembers(n)
BY DEF SameTale, Remembers, SpikesAreFresh, BreaksAreRecent

(* The larger of two numbers. *)
LEMMA MaxOfTwo ==
    ASSUME NEW x \in Int, NEW y \in Int
    PROVE  Max({x, y}) = IF x >= y THEN x ELSE y
BY DEF Max

(* The smaller of two numbers. *)
LEMMA MinOfTwo ==
    ASSUME NEW x \in Int, NEW y \in Int
    PROVE  Min({x, y}) = IF x <= y THEN x ELSE y
BY DEF Min

(* What a decision leaves, for the variables the signals are told by. *)
LEMMA DecideTells ==
    ASSUME NEW m, DOMAIN m = Parts, NEW b, NEW f, NEW real
    PROVE  LET n == Decide(m, b, f, real)
               d == OnBar(strategy, m.memory, b, f)
               h == Heard(m, b, f, real)
           IN  /\ DOMAIN n = Parts
               /\ ~ n.raised =>
                     /\ n.signal = h
                     /\ n.memory = IF IsShown(m, b, f) THEN d.memory ELSE m.memory
                     /\ IF IsShown(m, b, f) /\ d.side # 0
                        THEN n.order = d.side /\ n.decided.faded = Faded(d.side, m.signal, h, f)
                        ELSE n.order = m.order /\ n.decided = m.decided
<1> DEFINE n == Decide(m, b, f, real)
           d == OnBar(strategy, m.memory, b, f)
           h == Heard(m, b, f, real)
           heard == [m EXCEPT !.signal = h]
<1> HIDE DEF d, h
<1>1. /\ ~ IsShown(m, b, f) => n = heard
      /\ IsShown(m, b, f) /\ d.side = 0 => n = [heard EXCEPT !.memory = d.memory]
      /\ IsShown(m, b, f) /\ d.side # 0 =>
            \/ n = [heard EXCEPT !.raised = TRUE]
            \/ n = [heard EXCEPT !.memory = d.memory, !.order = d.side,
                                 !.decided = [session |-> session', faded |-> Faded(d.side, m.signal, h, f)]]
  BY DEF Decide, d, h
<1>2. /\ DOMAIN heard = Parts /\ heard.signal = h /\ heard.memory = m.memory
      /\ heard.order = m.order /\ heard.decided = m.decided
  BY DEF Parts
<1> HIDE DEF n, heard
<1>3. CASE ~ IsShown(m, b, f)
  BY <1>1, <1>2, <1>3 DEF n, d, h
<1>4. CASE IsShown(m, b, f) /\ d.side = 0
  BY <1>1, <1>2, <1>4 DEF n, d, h, Parts
<1>5. CASE IsShown(m, b, f) /\ d.side # 0
  <2> DEFINE dec == [session |-> session', faded |-> Faded(d.side, m.signal, h, f)]
  <2>1. CASE n = [heard EXCEPT !.raised = TRUE]
    <3>1. DOMAIN n = Parts /\ n.raised
      BY <1>2, <2>1 DEF Parts
    <3> QED BY <3>1 DEF n
  <2>2. CASE n = [heard EXCEPT !.memory = d.memory, !.order = d.side, !.decided = dec]
    <3>1. dec.faded = Faded(d.side, m.signal, h, f)
      OBVIOUS
    <3> HIDE DEF dec
    <3>2. DOMAIN n = Parts /\ n.signal = h /\ n.memory = d.memory /\ n.order = d.side /\ n.decided = dec
      BY <1>2, <2>2 DEF Parts
    <3> QED BY <1>5, <3>1, <3>2 DEF n, d, h
  <2> QED BY <1>1, <1>5, <2>1, <2>2
<1> QED BY <1>3, <1>4, <1>5

(* How a signal ages. *)
LEMMA HeardAges ==
    ASSUME NEW m, NEW k \in Kinds, Aged(m.signal[k]), NEW b, NEW f, NEW real
    PROVE  LET g == m.signal[k]
               h == Heard(m, b, f, real)[k]
           IN  /\ Aged(h)
               /\ IF IsShown(m, b, f) /\ k \in Signals(b, f)
                  THEN h.age = 0 /\ h.own = (k \in Signals(b, real))
                  ELSE /\ h.age <= g.age + 1 /\ h.own = g.own
                       /\ h.hidden = (g.hidden \/ ~ IsShown(m, b, f))
<1> DEFINE g == m.signal[k]
           h == Heard(m, b, f, real)[k]
<1>0. h = IF IsShown(m, b, f) /\ k \in Signals(b, f)
          THEN [age |-> 0, hidden |-> FALSE, own |-> k \in Signals(b, real)]
          ELSE [g EXCEPT !.age = Min({Far, @ + 1}), !.hidden = @ \/ ~ IsShown(m, b, f)]
  BY DEF Heard
<1>1. CASE IsShown(m, b, f) /\ k \in Signals(b, f)
  <2> HIDE DEF h
  <2> QED BY <1>0, <1>1 DEF h, Aged
<1>2. CASE ~ (IsShown(m, b, f) /\ k \in Signals(b, f))
  <2> DEFINE age == Min({Far, g.age + 1})
  <2>0. DOMAIN g = {"age", "hidden", "own"} /\ g.age \in Nat
    BY DEF Aged
  <2> HIDE DEF g, h
  <2>1. age \in Nat /\ age <= g.age + 1
    BY <2>0, MinOfTwo, BacktestAssumption
  <2>2. h = [g EXCEPT !.age = age, !.hidden = @ \/ ~ IsShown(m, b, f)]
    BY <1>0, <1>2, <2>0
  <2> HIDE DEF age
  <2>3. DOMAIN h = {"age", "hidden", "own"} /\ h.age = age /\ h.own = g.own
    BY <2>0, <2>2
  <2>4. h.hidden = (g.hidden \/ ~ IsShown(m, b, f))
    BY <2>0, <2>2
  <2> QED BY <1>2, <2>1, <2>3, <2>4 DEF g, h, Aged
<1> QED BY <1>1, <1>2

(* A spike has a side. *)
LEMMA SpikeSides ==
    ASSUME NEW p, NEW b, NEW f, NEW x \in Spike(p, b, f)
    PROVE  x.side \in Sides
BY DEF Spike, Sides

(* A spike is armed on the bar that is heard. *)
LEMMA SpikesKept ==
    ASSUME NEW m, DOMAIN m = Parts, Remembers(m), m.order = 0, NEW b, NEW f, NEW real,
           strategy.lag \in {0, 1}, strategy.lag = 0 => f = real, strategy.class = "volume_spike_fade"
    PROVE  LET n == Decide(m, b, f, real)
           IN  ~ n.raised => SpikesAreFresh(n) /\ DOMAIN n.memory = {"attempts", "armed", "recent"}
<1> DEFINE n == Decide(m, b, f, real)
           d == OnBar(strategy, m.memory, b, f)
           h == Heard(m, b, f, real)
<1>0. SUFFICES ASSUME ~ n.raised
               PROVE  SpikesAreFresh(n) /\ DOMAIN n.memory = {"attempts", "armed", "recent"}
  OBVIOUS
<1> DEFINE spike == Spike(strategy.params, b, f)
<1>1. /\ d.memory.armed = spike /\ DOMAIN d.memory = {"attempts", "armed", "recent"}
      /\ d.side # 0 => \E x \in m.memory.armed : d.side = - x.side
  <2> DEFINE entered == {x.side : x \in {y \in m.memory.armed :
                                        ~ Extends(y, b) /\ MayTry(strategy.params, m.memory, - y.side)}}
             one == CHOOSE x \in entered : TRUE
             e == IF entered = {} THEN Nothing(m.memory) ELSE Enter(m.memory, - one)
  <2>1. d = [e EXCEPT !.memory.armed = spike]
    BY DEF OnBar, VolumeSpikeFade
  <2>2. DOMAIN m.memory = {"attempts", "armed", "recent"}
    BY DEF Remembers
  <2>3. entered # {} => \E x \in m.memory.armed : one = x.side
    <3>1. \A s \in entered : \E x \in m.memory.armed : s = x.side
      OBVIOUS
    <3>2. entered # {} => one \in entered
      OBVIOUS
    <3> HIDE DEF entered, one
    <3> QED BY <3>1, <3>2
  <2> HIDE DEF entered, one
  <2>4. DOMAIN e = {"side", "memory"} /\ DOMAIN e.memory = {"attempts", "armed", "recent"}
    BY <2>2 DEF Nothing, Enter
  <2>5. e.side = IF entered = {} THEN 0 ELSE - one
    BY DEF Nothing, Enter
  <2> HIDE DEF e, d, spike
  <2>6. d.side = e.side /\ d.memory.armed = spike /\ DOMAIN d.memory = {"attempts", "armed", "recent"}
    BY <2>1, <2>4
  <2> QED BY <2>3, <2>5, <2>6
<1>2. Signals(b, f) = {<<x.side, 0>> : x \in spike} /\ Kinds = Sides \X {0}
  BY DEF Signals, Kinds
<1>3. /\ n.signal = h
      /\ n.memory = IF IsShown(m, b, f) THEN d.memory ELSE m.memory
      /\ IF IsShown(m, b, f) /\ d.side # 0
         THEN n.order = d.side /\ n.decided.faded = Faded(d.side, m.signal, h, f)
         ELSE n.order = m.order /\ n.decided = m.decided
  BY <1>0, DecideTells
<1>4. \A k \in Kinds :
         IF IsShown(m, b, f) /\ k \in Signals(b, f)
         THEN h[k].age = 0 /\ h[k].own = (k \in Signals(b, real))
         ELSE /\ h[k].own = m.signal[k].own
              /\ h[k].hidden = (m.signal[k].hidden \/ ~ IsShown(m, b, f))
  BY HeardAges DEF Remembers
<1>5. \A x \in m.memory.armed : x.side \in Sides /\ JustHeard(m.signal[<<x.side, 0>>])
  BY DEF Remembers, SpikesAreFresh
<1>6. \A x \in spike : x.side \in Sides
  BY SpikeSides
<1>7. n.order # 0 => JustHeard(n.decided.faded)
  <2>1. SUFFICES ASSUME n.order # 0 PROVE JustHeard(n.decided.faded)
    OBVIOUS
  <2>2. d.side # 0 /\ n.decided.faded = Faded(d.side, m.signal, h, f)
    BY <1>3, <2>1
  <2>3. PICK x \in m.memory.armed : d.side = - x.side
    BY <1>1, <2>2
  <2>4. - d.side = x.side
    <3>1. x.side = 1 \/ x.side = -1
      BY <1>5 DEF Sides
    <3> HIDE DEF d
    <3> QED BY <2>3, <3>1
  <2>5. Faded(d.side, m.signal, h, f) = m.signal[<<- d.side, 0>>]
    BY DEF Faded
  <2> QED BY <1>5, <2>2, <2>4, <2>5
<1> HIDE DEF n, d, h, spike
<1>8. \A x \in n.memory.armed : x.side \in Sides /\ JustHeard(n.signal[<<x.side, 0>>])
  <2>1. SUFFICES ASSUME NEW x \in n.memory.armed
                 PROVE  x.side \in Sides /\ JustHeard(h[<<x.side, 0>>])
    BY <1>3
  <2>2. x.side \in Sides
    BY <1>1, <1>3, <1>5, <1>6
  <2> DEFINE k == <<x.side, 0>>
  <2>3. k \in Kinds
    BY <1>2, <2>2
  <2>4. CASE ~ IsShown(m, b, f)
    <3>1. JustHeard(m.signal[k])
      BY <1>3, <1>5, <2>4
    <3> HIDE DEF k
    <3> QED BY <1>4, <2>2, <2>3, <2>4, <3>1 DEF JustHeard, k
  <2>5. CASE IsShown(m, b, f)
    <3>1. k \in Signals(b, f)
      BY <1>1, <1>2, <1>3, <2>5
    <3> HIDE DEF k
    <3>2. h[k].age = 0 /\ h[k].own = (k \in Signals(b, real))
      BY <1>4, <2>3, <2>5, <3>1
    <3>3. CASE strategy.lag = 0
      <4>1. h[k].own
        BY <3>1, <3>2, <3>3
      <4> QED BY <2>2, <3>2, <4>1 DEF JustHeard, k
    <3>4. CASE strategy.lag = 1
      BY <2>2, <3>2, <3>4 DEF JustHeard, k
    <3> QED BY <3>3, <3>4
  <2> QED BY <2>4, <2>5
<1>9. DOMAIN n.memory = {"attempts", "armed", "recent"}
  BY <1>1, <1>3 DEF Remembers
<1> QED BY <1>7, <1>8, <1>9 DEF SpikesAreFresh, n

(* The ring of the last bars, x added. *)
Ring(recent, x, lookback) ==
    LET bars == Append(recent, x)
    IN  SubSeq(bars, Max({1, Len(bars) - lookback + 1}), Len(bars))

(* A bar in the ring is the one added, or was in it and is older by one. *)
Turned(recent, x, lookback, ring) ==
    /\ ring \in Seq(HighLow) /\ Len(ring) \in Nat /\ Len(ring) <= lookback
    /\ \A j \in 1..Len(ring) :
           \/ j = Len(ring) /\ ring[j] = x
           \/ \E i \in 1..Len(recent) :
                 ring[j] = recent[i] /\ Len(recent) - i + 1 = Len(ring) - j

(* Adding a bar turns the ring. *)
LEMMA RingTurns ==
    ASSUME NEW recent \in Seq(HighLow), NEW x \in HighLow, NEW lookback \in Nat
    PROVE  Turned(recent, x, lookback, Ring(recent, x, lookback))
<1> DEFINE ring == Ring(recent, x, lookback)
<1> DEFINE bars == Append(recent, x)
           first == Max({1, Len(bars) - lookback + 1})
<1>0. ring = SubSeq(bars, first, Len(bars))
  BY DEF Ring
<1> HIDE DEF ring
<1>1. /\ bars \in Seq(HighLow) /\ Len(bars) = Len(recent) + 1 /\ bars[Len(recent) + 1] = x
      /\ \A i \in 1..Len(recent) : bars[i] = recent[i]
  OBVIOUS
<1>2. first \in Nat /\ first >= 1 /\ first >= Len(bars) - lookback + 1 /\ first <= Len(bars) + 1
  <2>1. first = IF 1 >= Len(bars) - lookback + 1 THEN 1 ELSE Len(bars) - lookback + 1
    BY <1>1, MaxOfTwo
  <2> QED BY <1>1, <2>1
<1> HIDE DEF bars, first
<1>3. /\ ring \in Seq(HighLow) /\ Len(ring) = Len(bars) - first + 1
      /\ \A j \in 1..Len(ring) : ring[j] = bars[first + j - 1]
  BY <1>0, <1>1, <1>2
<1>4. ASSUME NEW j \in 1..Len(ring)
      PROVE  \/ j = Len(ring) /\ ring[j] = x
             \/ \E i \in 1..Len(recent) :
                   ring[j] = recent[i] /\ Len(recent) - i + 1 = Len(ring) - j
  <2> DEFINE i == first + j - 1
  <2>1. i \in 1..(Len(recent) + 1) /\ ring[j] = bars[i] /\ Len(recent) - i + 1 = Len(ring) - j
    BY <1>1, <1>2, <1>3
  <2>2. i = Len(recent) + 1 => j = Len(ring)
    BY <1>1, <1>2, <1>3
  <2> HIDE DEF i
  <2> QED BY <1>1, <2>1, <2>2
<1>5. Len(ring) \in Nat /\ Len(ring) <= lookback
  BY <1>1, <1>2, <1>3
<1> QED BY <1>3, <1>4, <1>5 DEF Turned, ring

(* A break of any level is heard on its own bar, and acted on while that    *)
(* bar is in the ring.                                                      *)
LEMMA BreaksKept ==
    ASSUME NEW m, DOMAIN m = Parts, Remembers(m), m.order = 0, NEW b \in Bar, NEW f, Offered(f),
           NEW real, strategy \in Strategies, strategy.class = "range_break_fade"
    PROVE  LET n == Decide(m, b, f, real)
           IN  ~ n.raised => BreaksAreRecent(n) /\ DOMAIN n.memory = {"attempts", "armed", "recent"}
<1> DEFINE n == Decide(m, b, f, real)
           d == OnBar(strategy, m.memory, b, f)
           h == Heard(m, b, f, real)
           x == [high |-> b.high, low |-> b.low]
           lookback == strategy.params.lookback
           ring == Ring(m.memory.recent, x, lookback)
<1>0. SUFFICES ASSUME ~ n.raised
               PROVE  BreaksAreRecent(n) /\ DOMAIN n.memory = {"attempts", "armed", "recent"}
  OBVIOUS
<1>1. lookback \in Nat
  BY StrategiesAssumption
<1>2. /\ Kinds = ({1} \X (strategy.values["upper"] \ {NoValue})) \cup ({-1} \X (strategy.values["lower"] \ {NoValue}))
      /\ \A k \in Kinds : k \in Signals(b, f) <=> Breaks(x, k)
  <2>1. Kinds = ({1} \X (strategy.values["upper"] \ {NoValue})) \cup ({-1} \X (strategy.values["lower"] \ {NoValue}))
    BY DEF Kinds
  <2>2. Signals(b, f) = {k \in Kinds : Better(k[1], Favorable(k[1], b), k[2])}
    BY DEF Signals
  <2>3. \A side : Favorable(side, x) = Favorable(side, b)
    BY DEF Favorable
  <2> QED BY <2>1, <2>2, <2>3 DEF Breaks
<1>3. /\ f["upper"] = NoValue \/ f["upper"] \in strategy.values["upper"]
      /\ f["lower"] = NoValue \/ f["lower"] \in strategy.values["lower"]
      /\ strategy.values["upper"] \subseteq Int /\ strategy.values["lower"] \subseteq Int
  BY StrategiesAssumption DEF Offered
<1>4. /\ \A y \in HighLow, u \in Int : Breaks(y, <<1, u>>) <=> y.high > u
      /\ \A y \in HighLow, l \in Int : Breaks(y, <<-1, l>>) <=> y.low < l
  BY DEF Breaks, Better, Favorable, HighLow
<1>5. x \in HighLow /\ m.memory.recent \in Seq(HighLow) /\ DOMAIN m.memory = {"attempts", "armed", "recent"}
  BY BarPrices DEF Remembers, BreaksAreRecent, HighLow
<1>6. /\ ring \in Seq(HighLow) /\ Len(ring) \in Nat /\ Len(ring) <= lookback
      /\ \A j \in 1..Len(ring) :
             \/ j = Len(ring) /\ ring[j] = x
             \/ \E i \in 1..Len(m.memory.recent) :
                   ring[j] = m.memory.recent[i] /\ Len(m.memory.recent) - i + 1 = Len(ring) - j
  <2>1. Turned(m.memory.recent, x, lookback, ring)
    <3> HIDE DEF x, lookback
    <3> QED BY <1>1, <1>5, RingTurns
  <2> HIDE DEF x, lookback, ring
  <2> QED BY <2>1 DEF Turned
<1>7. /\ d.memory.recent = ring /\ DOMAIN d.memory = {"attempts", "armed", "recent"}
      /\ d.side # 0 => \E k \in Kinds, j \in 1..Len(ring) :
                         Breaks(ring[j], k) /\ Faded(d.side, m.signal, h, f) = h[k]
  <2> DEFINE after == [m.memory EXCEPT !.recent = ring]
             failedUp == \E y \in ToSet(ring) : y.high > f.upper
             failedDown == \E y \in ToSet(ring) : y.low < f.lower
  <2>1. after.recent = ring /\ DOMAIN after = {"attempts", "armed", "recent"}
    BY <1>5
  <2>2. \/ d = Nothing(after)
        \/ d = Enter(after, -1) /\ Known(f, {"upper", "lower"}) /\ failedUp
        \/ d = Enter(after, 1) /\ Known(f, {"upper", "lower"}) /\ failedDown
    BY DEF OnBar, RangeBreakFade, Ring
  <2> HIDE DEF after, d, ring, h
  <2>3. \A side : /\ Enter(after, side).memory.recent = ring /\ Enter(after, side).side = side
                  /\ DOMAIN Enter(after, side).memory = {"attempts", "armed", "recent"}
    BY <2>1 DEF Enter
  <2>4. Nothing(after).side = 0 /\ Nothing(after).memory = after
    BY DEF Nothing
  <2>5. /\ Faded(-1, m.signal, h, f) = h[<<- (-1), f.upper>>]
        /\ Faded(1, m.signal, h, f) = h[<<-1, f.lower>>]
    BY DEF Faded
  <2>6. CASE d = Nothing(after)
    BY <2>1, <2>4, <2>6
  <2>7. CASE d = Enter(after, -1) /\ Known(f, {"upper", "lower"}) /\ failedUp
    <3> DEFINE u == f["upper"]
    <3>1. u # NoValue /\ u \in strategy.values["upper"] /\ u \in Int
      BY <1>3, <2>7 DEF Known
    <3>2. PICK j \in 1..Len(ring) : ring[j].high > u
      BY <1>6, <2>7 DEF ToSet
    <3>3. <<1, u>> \in Kinds /\ Breaks(ring[j], <<1, u>>)
      <4>1. ring[j] \in HighLow
        BY <1>6
      <4> HIDE DEF u
      <4> QED BY <1>2, <1>4, <3>1, <3>2, <4>1
    <3>4. Faded(-1, m.signal, h, f) = h[<<1, u>>]
      BY <2>5
    <3>5. d.side = -1 /\ d.memory.recent = ring /\ DOMAIN d.memory = {"attempts", "armed", "recent"}
      BY <2>3, <2>7
    <3> HIDE DEF u
    <3> QED BY <3>3, <3>4, <3>5
  <2>8. CASE d = Enter(after, 1) /\ Known(f, {"upper", "lower"}) /\ failedDown
    <3> DEFINE l == f["lower"]
    <3>1. l # NoValue /\ l \in strategy.values["lower"] /\ l \in Int
      BY <1>3, <2>8 DEF Known
    <3>2. PICK j \in 1..Len(ring) : ring[j].low < l
      BY <1>6, <2>8 DEF ToSet
    <3>3. <<-1, l>> \in Kinds /\ Breaks(ring[j], <<-1, l>>)
      <4>1. ring[j] \in HighLow
        BY <1>6
      <4> HIDE DEF l
      <4> QED BY <1>2, <1>4, <3>1, <3>2, <4>1
    <3>4. Faded(1, m.signal, h, f) = h[<<-1, l>>]
      BY <2>5
    <3>5. d.side = 1 /\ d.memory.recent = ring /\ DOMAIN d.memory = {"attempts", "armed", "recent"}
      BY <2>3, <2>8
    <3> HIDE DEF l
    <3> QED BY <3>3, <3>4, <3>5
  <2> QED BY <2>2, <2>6, <2>7, <2>8
<1>8. /\ n.signal = h
      /\ n.memory = IF IsShown(m, b, f) THEN d.memory ELSE m.memory
      /\ IF IsShown(m, b, f) /\ d.side # 0
         THEN n.order = d.side /\ n.decided.faded = Faded(d.side, m.signal, h, f)
         ELSE n.order = m.order /\ n.decided = m.decided
  BY <1>0, DecideTells
<1>9. \A k \in Kinds :
         /\ h[k].age \in Nat /\ m.signal[k].age \in Nat
         /\ IF IsShown(m, b, f) /\ k \in Signals(b, f)
            THEN h[k].age = 0
            ELSE /\ h[k].age <= m.signal[k].age + 1
                 /\ h[k].hidden = (m.signal[k].hidden \/ ~ IsShown(m, b, f))
  BY HeardAges DEF Remembers, Aged
<1>10. \A i \in 1..Len(m.memory.recent), k \in Kinds :
          Breaks(m.memory.recent[i], k) =>
              m.signal[k].hidden \/ m.signal[k].age <= Len(m.memory.recent) - i
  BY DEF Remembers, BreaksAreRecent
<1> HIDE DEF n, d, h, x, ring, lookback
<1>11. CASE ~ IsShown(m, b, f)
  <2>1. n.memory = m.memory /\ n.order = 0 /\ n.signal = h
    BY <1>8, <1>11
  <2>2. \A k \in Kinds : n.signal[k].hidden
    BY <1>9, <1>11, <2>1
  <2> QED BY <1>5, <2>1, <2>2 DEF BreaksAreRecent
<1>12. CASE IsShown(m, b, f)
  <2>1. ASSUME NEW j \in 1..Len(ring), NEW k \in Kinds, Breaks(ring[j], k)
        PROVE  h[k].hidden \/ h[k].age <= Len(ring) - j
    <3>1. CASE k \in Signals(b, f)
      BY <1>6, <1>9, <1>12, <3>1
    <3>2. CASE k \notin Signals(b, f)
      <4>1. PICK i \in 1..Len(m.memory.recent) :
               ring[j] = m.memory.recent[i] /\ Len(m.memory.recent) - i + 1 = Len(ring) - j
        BY <1>2, <1>6, <2>1, <3>2
      <4>2. m.signal[k].hidden \/ m.signal[k].age <= Len(m.memory.recent) - i
        BY <1>10, <2>1, <4>1
      <4>3. CASE m.signal[k].hidden
        BY <1>9, <3>2, <4>3
      <4>4. CASE m.signal[k].age <= Len(m.memory.recent) - i
        <5>1. Len(m.memory.recent) \in Nat /\ h[k].age <= m.signal[k].age + 1
          BY <1>5, <1>9, <3>2
        <5>2. Len(m.memory.recent) - i \in Int /\ Len(ring) - j \in Int
          BY <1>6, <5>1
        <5>3. h[k].age \in Nat /\ m.signal[k].age \in Nat
          BY <1>9
        <5> QED BY <4>1, <4>4, <5>1, <5>2, <5>3, SMTT(30)
      <4> QED BY <4>2, <4>3, <4>4
    <3> QED BY <3>1, <3>2
  <2>2. n.memory.recent = ring /\ DOMAIN n.memory = {"attempts", "armed", "recent"} /\ n.signal = h
    BY <1>7, <1>8, <1>12
  <2>3. n.order # 0 => n.decided.faded.hidden \/ n.decided.faded.age < lookback
    <3>1. SUFFICES ASSUME n.order # 0
                   PROVE  n.decided.faded.hidden \/ n.decided.faded.age < lookback
      OBVIOUS
    <3>2. d.side # 0 /\ n.decided.faded = Faded(d.side, m.signal, h, f)
      BY <1>8, <1>12, <3>1
    <3>3. PICK k \in Kinds, j \in 1..Len(ring) :
             Breaks(ring[j], k) /\ Faded(d.side, m.signal, h, f) = h[k]
      BY <1>7, <3>2
    <3>4. h[k].hidden \/ h[k].age <= Len(ring) - j
      BY <2>1, <3>3
    <3> QED BY <1>1, <1>6, <1>9, <3>2, <3>3, <3>4
  <2> QED BY <1>6, <2>1, <2>2, <2>3 DEF BreaksAreRecent, lookback
<1> QED BY <1>11, <1>12 DEF n

(* What is remembered stays in step with the history through a decision. *)
LEMMA DecideRemembers ==
    ASSUME NEW m, DOMAIN m = Parts, Remembers(m), m.order = 0, NEW b \in Bar, NEW real,
           NEW f, Offered(f), strategy.lag = 0 => f = real, strategy \in Strategies,
           ~ Decide(m, b, f, real).raised
    PROVE  Remembers(Decide(m, b, f, real))
<1> DEFINE n == Decide(m, b, f, real)
<1>1. \A k \in Kinds : Aged(n.signal[k])
  <2>1. n.signal = Heard(m, b, f, real)
    BY DecideTells
  <2>2. ASSUME NEW k \in Kinds PROVE Aged(Heard(m, b, f, real)[k])
    BY HeardAges DEF Remembers
  <2> HIDE DEF n
  <2> QED BY <2>1, <2>2
<1>2. strategy.lag \in {0, 1}
  BY StrategiesAssumption
<1>3. CASE strategy.class = "volume_spike_fade"
  <2>1. SpikesAreFresh(n) /\ DOMAIN n.memory = {"attempts", "armed", "recent"}
    BY <1>2, <1>3, SpikesKept
  <2> QED BY <1>1, <1>3, <2>1 DEF Remembers, BreaksAreRecent
<1>4. CASE strategy.class = "range_break_fade"
  <2>1. BreaksAreRecent(n) /\ DOMAIN n.memory = {"attempts", "armed", "recent"}
    BY <1>4, BreaksKept
  <2> QED BY <1>1, <1>4, <2>1 DEF Remembers, SpikesAreFresh
<1>5. CASE strategy.class \notin {"volume_spike_fade", "range_break_fade"}
  BY <1>1, <1>5 DEF Remembers, SpikesAreFresh, BreaksAreRecent
<1> QED BY <1>3, <1>4, <1>5

(* A run with a fresh memory and nothing queued has nothing to remember. *)
LEMMA FreshRemembers ==
    ASSUME NEW m, m.memory = Fresh, m.signal = Silence, m.order = 0
    PROVE  Remembers(m)
<1>1. DOMAIN Fresh = {"attempts", "armed", "recent"} /\ Fresh.armed = {} /\ Fresh.recent = <<>>
  BY DEF Fresh
<1>2. \A k \in Kinds : Aged(Silence[k])
  BY BacktestAssumption DEF Silence, NoSignal, Aged
<1>3. <<>> \in Seq(HighLow) /\ Len(<<>>) = 0
  OBVIOUS
<1> QED BY <1>1, <1>2, <1>3 DEF Remembers, SpikesAreFresh, BreaksAreRecent

(* The inductive invariant of the signals. *)
TaleInv == LoopInv /\ (~ raised => Remembers(Now))

(* A turn keeps what is remembered. *)
LEMMA TurnRemembers ==
    ASSUME TaleInv, LoopInv', NEW b \in Bar, Turn(b)
    PROVE  TaleInv'
<1> DEFINE f == IF strategy.lag = 0 THEN served' ELSE served
           start == IF session \in {0, session'} THEN Now ELSE Boundary(Now)
           filled == FillOrder(start, b, f)
           queued == CloseQueued(filled)
           left == StopCheck(queued, b)
           managed == Manage(left, b, f)
           after == Decide(managed, b, f, served')
<1>1. /\ LoopInv /\ ~ done /\ ~ raised /\ session' \in {session, session + 1}
      /\ strategy' = strategy /\ strategy \in Strategies /\ Offered(served)
      /\ Offered(served')
  BY DEF Turn, TaleInv, LoopInv, Features, Offered
<1>2. IF filled.raised THEN Becomes(filled) ELSE Becomes(after)
  BY DEF Turn
<1>3. (strategy.lag = 0 => f = served') /\ Offered(f)
  BY <1>1
<1>4. RunOK(start, session') /\ ~ start.raised
  BY <1>1, StartHolds
<1>5. DOMAIN start = Parts /\ Remembers(start)
  <2>1. CASE session \in {0, session'}
    BY <1>1, <2>1, NowHolds DEF TaleInv
  <2>2. CASE session \notin {0, session'}
    <3>1. DOMAIN Flattened(Now) = Parts
      BY NowHolds DEF Flattened, Close
    <3>2. start = [[Flattened(Now) EXCEPT !.position = Flat, !.memory = Fresh, !.signal = Silence]
                      EXCEPT !.order = 0, !.exit = "none"]
      BY <2>2 DEF Boundary, Anew
    <3>3. DOMAIN start = Parts /\ start.memory = Fresh /\ start.signal = Silence /\ start.order = 0
      BY <3>1, <3>2 DEF Parts
    <3> QED BY <3>3, FreshRemembers
  <2> QED BY <2>1, <2>2
<1> HIDE DEF f, start, filled, queued, left, managed, after
<1>6. IF filled.raised THEN RunOK(filled, session') ELSE Mid(filled, session')
  BY <1>4, FillOrderKeeps DEF filled
<1>7. ASSUME NEW n, Becomes(n), n.raised \/ Remembers(n)
      PROVE  TaleInv'
  <2>1. raised' = n.raised /\ order' = n.order
    BY <1>7 DEF Becomes
  <2>2. (Now.memory)' = n.memory /\ (Now.signal)' = n.signal /\ (Now.decided)' = n.decided /\ (Now.order)' = n.order
    BY <1>7 DEF Becomes, Now
  <2>3. Remembers(n) => Remembers(Now)'
    BY <1>1, <2>2 DEF Remembers, SpikesAreFresh, BreaksAreRecent, Kinds, JustHeard
  <2> QED BY <1>7, <2>1, <2>3 DEF TaleInv
<1>8. CASE filled.raised
  BY <1>2, <1>7, <1>8
<1>9. CASE ~ filled.raised
  <2>1. SameTale(start, filled) /\ Remembers(filled) /\ DOMAIN filled = Parts
    BY <1>5, PartsTellNothing, SameTaleKeeps DEF filled, SameTale
  <2>2. Remembers(queued) /\ DOMAIN queued = Parts
    BY <2>1, PartsTellNothing, SameTaleKeeps DEF queued, SameTale
  <2>3. Remembers(left) /\ DOMAIN left = Parts
    BY <2>2, PartsTellNothing, SameTaleKeeps DEF left, SameTale
  <2>4. Remembers(managed) /\ DOMAIN managed = Parts /\ managed.order = 0
    <3>1. filled.order = 0
      BY <1>6, <1>9 DEF Mid
    <3>2. queued.order = 0
      BY <2>1, <3>1, PartsTellNothing DEF queued, SameTale
    <3>3. left.order = 0
      BY <2>2, <3>2, PartsTellNothing DEF left, SameTale
    <3>4. managed.order = 0
      BY <2>3, <3>3, PartsTellNothing DEF managed, SameTale
    <3> QED BY <2>3, <3>4, PartsTellNothing, SameTaleKeeps DEF managed, SameTale
  <2>5. after.raised \/ Remembers(after)
    BY <1>1, <1>3, <2>4, DecideRemembers DEF after
  <2> QED BY <1>2, <1>7, <1>9, <2>5
<1> QED BY <1>8, <1>9

(* A fade is of a spike on the bar before, or of a break, within the        *)
(* look-back, of the level that is served when it is decided, unless bars   *)
(* were hidden from the strategy; and a spike is what it is taken for       *)
(* unless features come late.  The levels may be missing and move as they   *)
(* will.                                                                    *)
THEOREM FadesAreRecent == Spec => []SignalIsRecent
<1>1. ASSUME Init, LoopInv PROVE TaleInv
  <2>1. Remembers(Now)
    BY <1>1, NowHolds, FreshRemembers DEF Init
  <2> QED BY <1>1, <2>1 DEF TaleInv
<1>2. ASSUME LoopInv, LoopInv', TaleInv, [Next]_vars PROVE TaleInv'
  <2>1. ASSUME UNCHANGED <<strategy, memory, signal, decided, order, raised>> PROVE TaleInv'
    <3>1. UNCHANGED <<Now.memory, Now.signal, Now.decided, Now.order>>
      BY <2>1 DEF Now
    <3> QED BY <1>2, <2>1, <3>1 DEF TaleInv, Remembers, SpikesAreFresh, BreaksAreRecent, Kinds, JustHeard
  <2>2. CASE Flush
    <3> DEFINE n == IF IsFlat(Now) THEN Now ELSE Close(Now)
    <3>1. Becomes(n) /\ strategy' = strategy
      BY <2>2 DEF Flush
    <3>2. /\ n.memory = memory /\ n.signal = signal /\ n.decided = decided
          /\ n.order = order /\ n.raised = raised
      BY NowHolds DEF Close, Parts
    <3> HIDE DEF n
    <3> QED BY <2>1, <3>1, <3>2 DEF Becomes
  <2>3. CASE Skip
    BY <2>1, <2>3 DEF Skip, run
  <2>4. CASE \E b \in Bar : Turn(b)
    BY <1>2, <2>4, TurnRemembers
  <2>5. CASE UNCHANGED vars
    BY <2>1, <2>5 DEF vars, run
  <2> QED BY <1>2, <2>2, <2>3, <2>4, <2>5 DEF Next
<1>3. TaleInv => SignalIsRecent
  <2>1. SUFFICES ASSUME TaleInv, order # 0, ~ raised PROVE SignalIsRecent
    BY DEF SignalIsRecent
  <2>2. Remembers(Now) /\ Now.order # 0 /\ Now.decided = decided
    BY <2>1, NowHolds DEF TaleInv
  <2>3. strategy.class = "volume_spike_fade" => JustHeard(decided.faded)
    BY <2>2 DEF Remembers, SpikesAreFresh
  <2>4. strategy.class = "range_break_fade" =>
           decided.faded.hidden \/ decided.faded.age < strategy.params.lookback
    BY <2>2 DEF Remembers, BreaksAreRecent
  <2> QED BY <2>3, <2>4 DEF SignalIsRecent, JustHeard
<1> QED BY <1>1, <1>2, <1>3, Loops, PTL DEF Spec

-----------------------------------------------------------------------------
(* Two frames that agree up to a time.                                      *)
Timed(a) == DOMAIN a \in SUBSET Int /\ IsFiniteSet(DOMAIN a)
SameTo(S, T, k) == \A t \in Int : t <= k => (t \in S <=> t \in T)
Agree(a, b, k) == SameTo(DOMAIN a, DOMAIN b, k) /\ \A t \in DOMAIN a : t <= k => a[t] = b[t]

(* What looks back from a time sees the same.                               *)
LEMMA LooksBack ==
    ASSUME NEW S \in SUBSET Int, NEW T \in SUBSET Int, NEW k \in Int, SameTo(S, T, k), NEW t \in Int, t <= k
    PROVE  /\ LastAt(S, t) = LastAt(T, t)
           /\ \A n : LastRows(S, t, n) = LastRows(T, t, n) /\ (t \in Full(S, n) <=> t \in Full(T, n))
           /\ \A n : Lagged(S, t, n) = Lagged(T, t, n)
<1>1. \A u \in Int : u <= t => (u \in S <=> u \in T)
  BY DEF SameTo
<1>2. LastAt(S, t) = LastAt(T, t)
  BY <1>1 DEF LastAt
<1>3. ASSUME NEW n PROVE LastRows(S, t, n) = LastRows(T, t, n)
  <2>1. ASSUME NEW s \in Int, s <= t
        PROVE  {u \in S : s <= u /\ u <= t} = {u \in T : s <= u /\ u <= t}
    BY <1>1
  <2>2. \A s \in Int : s <= t =>
           (s \in S /\ Cardinality({u \in S : s <= u /\ u <= t}) <= n
               <=> s \in T /\ Cardinality({u \in T : s <= u /\ u <= t}) <= n)
    BY <1>1, <2>1
  <2>3. \A s : s \in LastRows(S, t, n) <=> s \in LastRows(T, t, n)
    BY <2>2 DEF LastRows
  <2> QED BY <2>3
<1>4. \A n : t \in Full(S, n) <=> t \in Full(T, n)
  BY <1>1, <1>3 DEF Full
<1>5. \A n : Lagged(S, t, n) = Lagged(T, t, n)
  BY <1>3 DEF Lagged
<1> QED BY <1>2, <1>3, <1>4, <1>5

(* The latest rows at a time are rows until then. *)
LEMMA LastRowsAreRows ==
    ASSUME NEW S \in SUBSET Int, IsFiniteSet(S), NEW t, NEW n
    PROVE  /\ LastRows(S, t, n) \subseteq S /\ \A s \in LastRows(S, t, n) : s <= t
           /\ t \in Full(S, n) => t \in S
           /\ n \in Nat /\ t \in Full(S, n + 1) => Lagged(S, t, n) \in S /\ Lagged(S, t, n) <= t
<1>1. LastRows(S, t, n) \subseteq S /\ \A s \in LastRows(S, t, n) : s <= t
  BY DEF LastRows
<1>2. t \in Full(S, n) => t \in S
  BY DEF Full
<1>3. ASSUME n \in Nat, t \in Full(S, n + 1)
      PROVE  Lagged(S, t, n) \in S /\ Lagged(S, t, n) <= t
  <2> DEFINE R == LastRows(S, t, n + 1)
  <2>1. Cardinality(R) = n + 1
    BY <1>3 DEF Full
  <2>2. R \subseteq S /\ \A s \in R : s <= t
    BY DEF LastRows
  <2> HIDE DEF R
  <2>3. IsFiniteSet(R) /\ R \in SUBSET Int
    BY <2>2, FS_Subset
  <2>4. R # {}
    BY <1>3, <2>1, FS_EmptySet
  <2>5. Min(R) \in R
    BY <2>3, <2>4, Extremes
  <2> QED BY <2>2, <2>5 DEF Lagged, R
<1> QED BY <1>1, <1>2, <1>3

(* A sum of rows is of their values.                                        *)
LEMMA SumsAgree ==
    ASSUME NEW a, NEW b, NEW column, NEW S, \A t \in S : a[t] = b[t]
    PROVE  ColumnSum(a, column, S) = ColumnSum(b, column, S) /\ Dispersion(a, column, S) = Dispersion(b, column, S)
<1>1. [t \in S |-> a[t][column]] = [t \in S |-> b[t][column]]
  OBVIOUS
<1>2. [t \in S |-> Square(a[t][column])] = [t \in S |-> Square(b[t][column])]
  OBVIOUS
<1>3. ColumnSum(a, column, S) = ColumnSum(b, column, S)
  BY <1>1, Zenon DEF ColumnSum
<1>4. Dispersion(a, column, S) = Dispersion(b, column, S)
  BY <1>2, <1>3, Zenon DEF Dispersion
<1> QED BY <1>3, <1>4

(* A frame of times of another, with the same values until a time. *)
LEMMA PartsAgree ==
    ASSUME NEW a, Timed(a), NEW b, Timed(b), NEW k \in Int, NEW c, NEW d,
           DOMAIN c \subseteq DOMAIN a, DOMAIN d \subseteq DOMAIN b,
           \A t \in Int : t <= k => (t \in DOMAIN c <=> t \in DOMAIN d) /\ (t \in DOMAIN c => c[t] = d[t])
    PROVE  Timed(c) /\ Timed(d) /\ Agree(c, d, k)
<1>1. Timed(c) /\ Timed(d)
  BY FS_Subset DEF Timed
<1>2. Agree(c, d, k)
  BY <1>1 DEF Agree, SameTo, Timed
<1> QED BY <1>1, <1>2

LEMMA ColumnSelectLooksBack ==
    ASSUME NEW a, Timed(a), NEW b, Timed(b), NEW k \in Int, Agree(a, b, k), NEW column
    PROVE  Timed(ColumnSelect(a, column)) /\ Agree(ColumnSelect(a, column), ColumnSelect(b, column), k)
<1> DEFINE c == ColumnSelect(a, column)
           d == ColumnSelect(b, column)
<1>1. /\ DOMAIN c = DOMAIN a /\ \A t \in DOMAIN a : c[t] = [value |-> a[t][column]]
      /\ DOMAIN d = DOMAIN b /\ \A t \in DOMAIN b : d[t] = [value |-> b[t][column]]
  BY DEF ColumnSelect, Series
<1> HIDE DEF c, d
<1>2. \A t \in Int : t <= k => (t \in DOMAIN c <=> t \in DOMAIN d) /\ (t \in DOMAIN c => c[t] = d[t])
  BY <1>1 DEF Agree, SameTo
<1>3. Timed(c) /\ Agree(c, d, k)
  BY <1>1, <1>2, PartsAgree
<1> QED BY <1>3 DEF c, d

(* The windows of two frames. *)
LEMMA WindowsAgree ==
    ASSUME NEW a, Timed(a), NEW b, Timed(b), NEW k \in Int, Agree(a, b, k), NEW t \in Int, t <= k
    PROVE  /\ t \in DOMAIN a <=> t \in DOMAIN b
           /\ t \in DOMAIN a => a[t] = b[t]
           /\ \A n : /\ t \in Full(DOMAIN a, n) <=> t \in Full(DOMAIN b, n)
                     /\ LastRows(DOMAIN a, t, n) = LastRows(DOMAIN b, t, n)
                     /\ \A u \in LastRows(DOMAIN a, t, n) : a[u] = b[u]
                     /\ \A column : ColumnSum(a, column, LastRows(DOMAIN a, t, n))
                                       = ColumnSum(b, column, LastRows(DOMAIN b, t, n))
                     /\ \A column : Dispersion(a, column, LastRows(DOMAIN a, t, n))
                                       = Dispersion(b, column, LastRows(DOMAIN b, t, n))
           /\ \A n \in Nat : t \in Full(DOMAIN a, n + 1) =>
                     /\ Lagged(DOMAIN a, t, n) = Lagged(DOMAIN b, t, n)
                     /\ a[Lagged(DOMAIN a, t, n)] = b[Lagged(DOMAIN b, t, n)]
<1> DEFINE S == DOMAIN a
           T == DOMAIN b
<1>0. S \in SUBSET Int /\ T \in SUBSET Int /\ IsFiniteSet(S) /\ IsFiniteSet(T) /\ SameTo(S, T, k)
  BY DEF Timed, Agree
<1>1. (t \in S <=> t \in T) /\ (t \in S => a[t] = b[t])
  BY DEF Agree, SameTo
<1>2. \A n : /\ t \in Full(S, n) <=> t \in Full(T, n)
            /\ LastRows(S, t, n) = LastRows(T, t, n)
            /\ Lagged(S, t, n) = Lagged(T, t, n)
  BY <1>0, LooksBack
<1>3. \A n : \A u \in LastRows(S, t, n) : a[u] = b[u]
  <2> SUFFICES ASSUME NEW n, NEW u \in LastRows(S, t, n) PROVE a[u] = b[u]
    OBVIOUS
  <2>1. u \in S /\ u <= t /\ u \in Int
    BY <1>0, LastRowsAreRows
  <2>2. u <= k
    BY <2>1
  <2> QED BY <2>1, <2>2 DEF Agree
<1>4. ASSUME NEW n, NEW column
      PROVE  /\ ColumnSum(a, column, LastRows(S, t, n)) = ColumnSum(b, column, LastRows(T, t, n))
             /\ Dispersion(a, column, LastRows(S, t, n)) = Dispersion(b, column, LastRows(T, t, n))
  <2> DEFINE R == LastRows(S, t, n)
  <2>1. \A u \in R : a[u] = b[u]
    BY <1>3
  <2>2. LastRows(T, t, n) = R
    BY <1>2
  <2> HIDE DEF R
  <2>3. ColumnSum(a, column, R) = ColumnSum(b, column, R) /\ Dispersion(a, column, R) = Dispersion(b, column, R)
    BY <2>1, SumsAgree
  <2> QED BY <2>2, <2>3 DEF R
<1>5. ASSUME NEW n \in Nat, t \in Full(S, n + 1)
      PROVE  a[Lagged(S, t, n)] = b[Lagged(T, t, n)]
  <2>1. Lagged(S, t, n) \in S /\ Lagged(S, t, n) <= t
    BY <1>0, <1>5, LastRowsAreRows
  <2>2. Lagged(S, t, n) <= k
    BY <1>0, <2>1
  <2> QED BY <1>2, <2>1, <2>2 DEF Agree
<1> QED BY <1>1, <1>2, <1>3, <1>4, <1>5

LEMMA RollingChangeLooksBack ==
    ASSUME NEW a, Timed(a), NEW b, Timed(b), NEW k \in Int, Agree(a, b, k), NEW column, NEW lag \in Nat, NEW mode
    PROVE  /\ Timed(RollingChange(a, column, lag, mode))
           /\ Agree(RollingChange(a, column, lag, mode), RollingChange(b, column, lag, mode), k)
<1> DEFINE S == DOMAIN a
           T == DOMAIN b
           c == RollingChange(a, column, lag, mode)
           d == RollingChange(b, column, lag, mode)
<1>0. S \in SUBSET Int /\ T \in SUBSET Int
  BY DEF Timed
<1>1. \A t \in Int : t <= k =>
         /\ t \in Full(S, lag + 1) <=> t \in Full(T, lag + 1)
         /\ t \in Full(S, lag + 1) => a[t] = b[t] /\ a[Lagged(S, t, lag)] = b[Lagged(T, t, lag)]
  <2>1. \A n, t : t \in Full(S, n) => t \in S
    BY DEF Full
  <2> QED BY <2>1, WindowsAgree
<1>2. Full(S, lag + 1) \subseteq S /\ Full(T, lag + 1) \subseteq T
  BY DEF Full
<1>3. CASE mode = "abs"
  <2>1. /\ DOMAIN c = Full(S, lag + 1) /\ DOMAIN d = Full(T, lag + 1)
        /\ \A t \in Full(S, lag + 1) : c[t] = [value |-> a[t][column] - a[Lagged(S, t, lag)][column]]
        /\ \A t \in Full(T, lag + 1) : d[t] = [value |-> b[t][column] - b[Lagged(T, t, lag)][column]]
    BY <1>3 DEF RollingChange, Series
  <2> HIDE DEF c, d, S, T
  <2>2. \A t \in Int : t <= k => (t \in DOMAIN c <=> t \in DOMAIN d) /\ (t \in DOMAIN c => c[t] = d[t])
    BY <1>1, <2>1
  <2>3. Timed(c) /\ Agree(c, d, k)
    BY <1>2, <2>1, <2>2, PartsAgree DEF S, T
  <2> QED BY <2>3 DEF c, d
<1>4. CASE mode # "abs"
  <2> DEFINE A == {t \in Full(S, lag + 1) : a[Lagged(S, t, lag)][column] # 0}
             B == {t \in Full(T, lag + 1) : b[Lagged(T, t, lag)][column] # 0}
  <2>1. /\ DOMAIN c = A /\ DOMAIN d = B
        /\ \A t \in A : c[t] = [value |-> (100 * (a[t][column] - a[Lagged(S, t, lag)][column]))
                                             \div a[Lagged(S, t, lag)][column]]
        /\ \A t \in B : d[t] = [value |-> (100 * (b[t][column] - b[Lagged(T, t, lag)][column]))
                                             \div b[Lagged(T, t, lag)][column]]
    BY <1>4 DEF RollingChange, Series
  <2> HIDE DEF c, d
  <2>2. \A t \in Int : t <= k => (t \in A <=> t \in B)
    BY <1>1
  <2>3. ASSUME NEW t \in Int, t <= k, t \in A
        PROVE  c[t] = d[t]
    <3>1. t \in B
      BY <2>2, <2>3
    <3>2. a[t] = b[t] /\ a[Lagged(S, t, lag)] = b[Lagged(T, t, lag)]
      BY <1>1, <2>3
    <3> DEFINE p == a[t]
               q == a[Lagged(S, t, lag)]
               r == b[t]
               o == b[Lagged(T, t, lag)]
    <3>3. c[t] = [value |-> (100 * (p[column] - q[column])) \div q[column]]
      BY <2>1, <2>3
    <3>4. d[t] = [value |-> (100 * (r[column] - o[column])) \div o[column]]
      BY <2>1, <3>1
    <3>5. p = r /\ q = o
      BY <3>2
    <3> HIDE DEF p, q, r, o
    <3> QED BY <3>3, <3>4, <3>5, Zenon
  <2>4. Timed(c) /\ Agree(c, d, k)
    <3>1. A \subseteq S /\ B \subseteq T
      BY <1>2
    <3>2. DOMAIN c = A /\ DOMAIN d = B
      BY <2>1
    <3> HIDE DEF A, B, S, T
    <3>3. \A t \in Int : t <= k => (t \in DOMAIN c <=> t \in DOMAIN d) /\ (t \in DOMAIN c => c[t] = d[t])
      BY <2>2, <2>3, <3>2
    <3>4. DOMAIN c \subseteq DOMAIN a /\ DOMAIN d \subseteq DOMAIN b
      BY <3>1, <3>2 DEF S, T
    <3> QED BY <3>3, <3>4, PartsAgree
  <2> QED BY <2>4 DEF c, d
<1> QED BY <1>3, <1>4

LEMMA TrueRangeLooksBack ==
    ASSUME NEW a, Timed(a), NEW b, Timed(b), NEW k \in Int, Agree(a, b, k)
    PROVE  Timed(TrueRange(a)) /\ Agree(TrueRange(a), TrueRange(b), k)
<1> DEFINE S == DOMAIN a
           T == DOMAIN b
           c == TrueRange(a)
           d == TrueRange(b)
           before(t) == {a[Lagged(S, t, 1)].close : s \in {t} \cap Full(S, 2)}
           beforeB(t) == {b[Lagged(T, t, 1)].close : s \in {t} \cap Full(T, 2)}
<1>1. /\ DOMAIN c = S /\ DOMAIN d = T
      /\ \A t \in S : c[t] = [value |-> Max({a[t].high} \cup before(t)) - Min({a[t].low} \cup before(t))]
      /\ \A t \in T : d[t] = [value |-> Max({b[t].high} \cup beforeB(t)) - Min({b[t].low} \cup beforeB(t))]
  BY DEF TrueRange, Series
<1>2. ASSUME NEW t \in Int, t <= k
      PROVE  /\ t \in S <=> t \in T
             /\ t \in S => a[t] = b[t] /\ before(t) = beforeB(t)
  <2>1. /\ t \in S <=> t \in T
        /\ t \in S => a[t] = b[t]
        /\ t \in Full(S, 2) <=> t \in Full(T, 2)
    BY <1>2, WindowsAgree
  <2>2. t \in Full(S, 1 + 1) => a[Lagged(S, t, 1)] = b[Lagged(T, t, 1)]
    BY <1>2, WindowsAgree
  <2>3. before(t) = beforeB(t)
    <3>1. 1 + 1 = 2
      OBVIOUS
    <3>2. CASE t \in Full(S, 2)
      <4>1. a[Lagged(S, t, 1)] = b[Lagged(T, t, 1)]
        BY <2>2, <3>1, <3>2
      <4> QED BY <2>1, <3>2, <4>1
    <3>3. CASE t \notin Full(S, 2)
      BY <2>1, <3>3
    <3> QED BY <3>2, <3>3
  <2> QED BY <2>1, <2>3
<1> HIDE DEF c, d, before, beforeB
<1>3. \A t \in Int : t <= k => (t \in DOMAIN c <=> t \in DOMAIN d) /\ (t \in DOMAIN c => c[t] = d[t])
  BY <1>1, <1>2
<1>4. Timed(c) /\ Agree(c, d, k)
  BY <1>1, <1>3, PartsAgree
<1> QED BY <1>4 DEF c, d

LEMMA RollingWindowsLookBack ==
    ASSUME NEW a, Timed(a), NEW b, Timed(b), NEW k \in Int, Agree(a, b, k), NEW column, NEW window
    PROVE  /\ Timed(RollingMean(a, column, window))
           /\ Agree(RollingMean(a, column, window), RollingMean(b, column, window), k)
           /\ Timed(RollingRealizedVol(a, column, window))
           /\ Agree(RollingRealizedVol(a, column, window), RollingRealizedVol(b, column, window), k)
<1> DEFINE S == DOMAIN a
           T == DOMAIN b
<1>0. Full(S, window) \subseteq S /\ Full(T, window) \subseteq T
  BY DEF Full
<1>1. \A t \in Int : t <= k =>
         /\ t \in Full(S, window) <=> t \in Full(T, window)
         /\ ColumnSum(a, column, LastRows(S, t, window)) = ColumnSum(b, column, LastRows(T, t, window))
         /\ Dispersion(a, column, LastRows(S, t, window)) = Dispersion(b, column, LastRows(T, t, window))
  BY WindowsAgree
<1>2. /\ Timed(RollingMean(a, column, window))
      /\ Agree(RollingMean(a, column, window), RollingMean(b, column, window), k)
  <2> DEFINE c == RollingMean(a, column, window)
             d == RollingMean(b, column, window)
  <2>1. /\ DOMAIN c = Full(S, window) /\ DOMAIN d = Full(T, window)
        /\ \A t \in Full(S, window) : c[t] = [value |-> ColumnSum(a, column, LastRows(S, t, window)) \div window]
        /\ \A t \in Full(T, window) : d[t] = [value |-> ColumnSum(b, column, LastRows(T, t, window)) \div window]
    BY DEF RollingMean, Series
  <2> HIDE DEF c, d
  <2>2. \A t \in Int : t <= k => (t \in DOMAIN c <=> t \in DOMAIN d) /\ (t \in DOMAIN c => c[t] = d[t])
    BY <1>1, <2>1
  <2>3. Timed(c) /\ Agree(c, d, k)
    BY <1>0, <2>1, <2>2, PartsAgree
  <2> QED BY <2>3 DEF c, d
<1>3. /\ Timed(RollingRealizedVol(a, column, window))
      /\ Agree(RollingRealizedVol(a, column, window), RollingRealizedVol(b, column, window), k)
  <2> DEFINE c == RollingRealizedVol(a, column, window)
             d == RollingRealizedVol(b, column, window)
  <2>1. /\ DOMAIN c = Full(S, window) /\ DOMAIN d = Full(T, window)
        /\ \A t \in Full(S, window) : c[t] = [value |-> Dispersion(a, column, LastRows(S, t, window))]
        /\ \A t \in Full(T, window) : d[t] = [value |-> Dispersion(b, column, LastRows(T, t, window))]
    BY DEF RollingRealizedVol, Series
  <2> HIDE DEF c, d
  <2>2. \A t \in Int : t <= k => (t \in DOMAIN c <=> t \in DOMAIN d) /\ (t \in DOMAIN c => c[t] = d[t])
    BY <1>1, <2>1
  <2>3. Timed(c) /\ Agree(c, d, k)
    BY <1>0, <2>1, <2>2, PartsAgree
  <2> QED BY <2>3 DEF c, d
<1> QED BY <1>2, <1>3

LEMMA RollingZscoreLooksBack ==
    ASSUME NEW a, Timed(a), NEW b, Timed(b), NEW k \in Int, Agree(a, b, k), NEW column, NEW window
    PROVE  /\ Timed(RollingZscore(a, column, window))
           /\ Agree(RollingZscore(a, column, window), RollingZscore(b, column, window), k)
<1> DEFINE S == DOMAIN a
           T == DOMAIN b
           c == RollingZscore(a, column, window)
           d == RollingZscore(b, column, window)
           spread(t) == Dispersion(a, column, LastRows(S, t, window))
           spreadB(t) == Dispersion(b, column, LastRows(T, t, window))
           off(t) == window * a[t][column] - ColumnSum(a, column, LastRows(S, t, window))
           offB(t) == window * b[t][column] - ColumnSum(b, column, LastRows(T, t, window))
           z2(t) == (100 * Square(off(t)) * (window - 1)) \div (window * spread(t))
           z2B(t) == (100 * Square(offB(t)) * (window - 1)) \div (window * spreadB(t))
           A == {t \in Full(S, window) : spread(t) > 0}
           B == {t \in Full(T, window) : spreadB(t) > 0}
<1>1. /\ DOMAIN c = A /\ DOMAIN d = B
      /\ \A t \in A : c[t] = [value |-> IF off(t) < 0 THEN - z2(t) ELSE z2(t)]
      /\ \A t \in B : d[t] = [value |-> IF offB(t) < 0 THEN - z2B(t) ELSE z2B(t)]
  BY DEF RollingZscore, Series
<1>2. \A t : t \in Full(S, window) => t \in S
  BY DEF Full
<1>3. A \subseteq S /\ B \subseteq T
  BY DEF Full
<1>4. ASSUME NEW t \in Int, t <= k
      PROVE  /\ t \in Full(S, window) <=> t \in Full(T, window)
             /\ spread(t) = spreadB(t)
             /\ t \in Full(S, window) => off(t) = offB(t) /\ z2(t) = z2B(t)
  <2>1. /\ t \in Full(S, window) <=> t \in Full(T, window)
        /\ ColumnSum(a, column, LastRows(S, t, window)) = ColumnSum(b, column, LastRows(T, t, window))
        /\ Dispersion(a, column, LastRows(S, t, window)) = Dispersion(b, column, LastRows(T, t, window))
        /\ t \in S => a[t] = b[t]
    BY <1>4, WindowsAgree
  <2>2. spread(t) = spreadB(t)
    BY <2>1
  <2>3. t \in Full(S, window) => off(t) = offB(t)
    BY <1>2, <2>1
  <2> HIDE DEF spread, spreadB, off, offB
  <2> QED BY <2>1, <2>2, <2>3
<1> HIDE DEF c, d, spread, spreadB, off, offB, z2, z2B
<1>5. \A t \in Int : t <= k => (t \in A <=> t \in B) /\ (t \in A => c[t] = d[t])
  BY <1>1, <1>4
<1>6. Timed(c) /\ Agree(c, d, k)
  <2> HIDE DEF A, B
  <2> QED BY <1>1, <1>3, <1>5, PartsAgree
<1> QED BY <1>6 DEF c, d

LEMMA RollingRankLooksBack ==
    ASSUME NEW a, Timed(a), NEW b, Timed(b), NEW k \in Int, Agree(a, b, k), NEW column, NEW window
    PROVE  /\ Timed(RollingPercentileRank(a, column, window))
           /\ Agree(RollingPercentileRank(a, column, window), RollingPercentileRank(b, column, window), k)
<1> DEFINE S == DOMAIN a
           T == DOMAIN b
           c == RollingPercentileRank(a, column, window)
           d == RollingPercentileRank(b, column, window)
           less(t) == {u \in LastRows(S, t, window) : a[u][column] < a[t][column]}
           lessB(t) == {u \in LastRows(T, t, window) : b[u][column] < b[t][column]}
           equal(t) == {u \in LastRows(S, t, window) : a[u][column] = a[t][column]}
           equalB(t) == {u \in LastRows(T, t, window) : b[u][column] = b[t][column]}
<1>1. /\ DOMAIN c = Full(S, window) /\ DOMAIN d = Full(T, window)
      /\ \A t \in Full(S, window) : c[t] = [value |-> (50 * (2 * Cardinality(less(t)) + Cardinality(equal(t)) - 1))
                                                           \div (window - 1)]
      /\ \A t \in Full(T, window) : d[t] = [value |-> (50 * (2 * Cardinality(lessB(t)) + Cardinality(equalB(t)) - 1))
                                                           \div (window - 1)]
  BY DEF RollingPercentileRank, Series
<1>2. Full(S, window) \subseteq S /\ Full(T, window) \subseteq T
  BY DEF Full
<1>3. ASSUME NEW t \in Int, t <= k
      PROVE  /\ t \in Full(S, window) <=> t \in Full(T, window)
             /\ t \in Full(S, window) => less(t) = lessB(t) /\ equal(t) = equalB(t)
  <2>1. /\ t \in Full(S, window) <=> t \in Full(T, window)
        /\ LastRows(S, t, window) = LastRows(T, t, window)
        /\ \A u \in LastRows(S, t, window) : a[u] = b[u]
        /\ t \in S => a[t] = b[t]
    BY <1>3, WindowsAgree
  <2> QED BY <1>2, <2>1
<1> HIDE DEF c, d, less, lessB, equal, equalB
<1>4. \A t \in Int : t <= k => (t \in DOMAIN c <=> t \in DOMAIN d) /\ (t \in DOMAIN c => c[t] = d[t])
  BY <1>1, <1>3
<1>5. Timed(c) /\ Agree(c, d, k)
  BY <1>1, <1>2, <1>4, PartsAgree
<1> QED BY <1>5 DEF c, d

LEMMA RatioLooksBack ==
    ASSUME NEW a, Timed(a), NEW b, Timed(b), NEW k \in Int, Agree(a, b, k),
           NEW a2, Timed(a2), NEW b2, Timed(b2), Agree(a2, b2, k), NEW column
    PROVE  /\ Timed(TwoSeriesRatio(a, a2, column))
           /\ Agree(TwoSeriesRatio(a, a2, column), TwoSeriesRatio(b, b2, column), k)
<1> DEFINE c == TwoSeriesRatio(a, a2, column)
           d == TwoSeriesRatio(b, b2, column)
<1>1. /\ DOMAIN c = {t \in DOMAIN a \cap DOMAIN a2 : a2[t][column] # 0}
      /\ DOMAIN d = {t \in DOMAIN b \cap DOMAIN b2 : b2[t][column] # 0}
      /\ \A t \in DOMAIN c : c[t] = [value |-> (100 * a[t][column]) \div a2[t][column]]
      /\ \A t \in DOMAIN d : d[t] = [value |-> (100 * b[t][column]) \div b2[t][column]]
  BY DEF TwoSeriesRatio, Series
<1> HIDE DEF c, d
<1>2. DOMAIN c \subseteq DOMAIN a /\ DOMAIN d \subseteq DOMAIN b
  BY <1>1
<1>3. ASSUME NEW t \in Int, t <= k
      PROVE  (t \in DOMAIN c <=> t \in DOMAIN d) /\ (t \in DOMAIN c => c[t] = d[t])
  <2>1. /\ t \in DOMAIN a <=> t \in DOMAIN b
        /\ t \in DOMAIN a2 <=> t \in DOMAIN b2
        /\ t \in DOMAIN a => a[t] = b[t]
        /\ t \in DOMAIN a2 => a2[t] = b2[t]
    BY <1>3 DEF Agree, SameTo
  <2>2. t \in DOMAIN c <=> t \in DOMAIN d
    BY <1>1, <2>1
  <2>3. ASSUME t \in DOMAIN c PROVE c[t] = d[t]
    <3>1. t \in DOMAIN d /\ a[t] = b[t] /\ a2[t] = b2[t]
      BY <1>1, <2>1, <2>2, <2>3
    <3> DEFINE p == a[t]
               q == a2[t]
               r == b[t]
               o == b2[t]
    <3>2. c[t] = [value |-> (100 * p[column]) \div q[column]] /\ d[t] = [value |-> (100 * r[column]) \div o[column]]
      BY <1>1, <2>3, <3>1
    <3>3. p = r /\ q = o
      BY <3>1
    <3> HIDE DEF p, q, r, o
    <3> QED BY <3>2, <3>3, Zenon
  <2> QED BY <2>2, <2>3
<1>4. Timed(c) /\ Agree(c, d, k)
  BY <1>2, <1>3, PartsAgree
<1> QED BY <1>4 DEF c, d

-----------------------------------------------------------------------------
(* A bar takes what happens in its bin, which ends with it. *)
LEMMA BinOf ==
    ASSUME NEW t \in Int, NEW cadence \in Nat \ {0}
    PROVE  BinEnd(t, cadence) \in Int /\ BinEnd(t, cadence) - cadence <= t /\ t < BinEnd(t, cadence)
<1>1. t \div cadence \in Int /\ t % cadence \in 0..(cadence - 1) /\ t = cadence * (t \div cadence) + (t % cadence)
  OBVIOUS
<1>2. cadence * (t \div cadence) = (t \div cadence) * cadence
  BY <1>1
<1> DEFINE q == (t \div cadence) * cadence
           r == t % cadence
<1>3. q \in Int /\ r \in Int /\ 0 <= r /\ r < cadence /\ t = q + r
  BY <1>1, <1>2
<1>4. BinEnd(t, cadence) = q + cadence
  BY DEF BinEnd
<1> HIDE DEF q, r
<1> QED BY <1>3, <1>4

LEMMA BinsAgree ==
    ASSUME NEW a, Timed(a), NEW b, Timed(b), NEW k \in Int, Agree(a, b, k - 1), NEW cadence \in Nat \ {0},
           NEW end \in Int, end <= k
    PROVE  LET In == Binned(DOMAIN a, end, cadence)
           IN  /\ (\E t \in DOMAIN a : end = BinEnd(t, cadence)) <=> (\E t \in DOMAIN b : end = BinEnd(t, cadence))
               /\ Binned(DOMAIN b, end, cadence) = In
               /\ \A t \in In : a[t] = b[t]
               /\ (\E t \in DOMAIN a : end = BinEnd(t, cadence)) => Min(In) \in In /\ Max(In) \in In
<1> DEFINE In == Binned(DOMAIN a, end, cadence)
<1>0. DOMAIN a \in SUBSET Int /\ DOMAIN b \in SUBSET Int /\ IsFiniteSet(DOMAIN a)
  BY DEF Timed
<1>1. \A t \in Int : t < end => (t \in DOMAIN a <=> t \in DOMAIN b) /\ (t \in DOMAIN a => a[t] = b[t])
  BY DEF Agree, SameTo
<1>2. (\E t \in DOMAIN a : end = BinEnd(t, cadence)) <=> (\E t \in DOMAIN b : end = BinEnd(t, cadence))
  <2>1. \A t \in Int : end = BinEnd(t, cadence) => t < end
    BY BinOf
  <2> QED BY <1>0, <1>1, <2>1
<1>3. Binned(DOMAIN b, end, cadence) = In
  BY <1>0, <1>1 DEF Binned
<1>4. \A t \in In : a[t] = b[t]
  BY <1>0, <1>1 DEF Binned
<1>5. ASSUME \E t \in DOMAIN a : end = BinEnd(t, cadence)
      PROVE  Min(In) \in In /\ Max(In) \in In
  <2>1. PICK t \in DOMAIN a : end = BinEnd(t, cadence)
    BY <1>5
  <2>2. t \in In
    BY <1>0, <2>1, BinOf DEF Binned
  <2>3. In \in SUBSET Int /\ IsFiniteSet(In) /\ In # {}
    <3>1. In \subseteq DOMAIN a
      BY DEF Binned
    <3> HIDE DEF In
    <3> QED BY <1>0, <2>2, <3>1, FS_Subset
  <2> HIDE DEF In
  <2> QED BY <2>3, Extremes
<1> QED BY <1>2, <1>3, <1>4, <1>5

(* The ends of the bins of a frame. *)
LEMMA EndsOfBins ==
    ASSUME NEW a, Timed(a), NEW cadence \in Nat \ {0}
    PROVE  LET D == {BinEnd(t, cadence) : t \in DOMAIN a}
           IN  D \in SUBSET Int /\ IsFiniteSet(D) /\ \A end \in D : \E t \in DOMAIN a : t < end
<1> DEFINE D == {BinEnd(t, cadence) : t \in DOMAIN a}
           g == [t \in DOMAIN a |-> BinEnd(t, cadence)]
<1>1. DOMAIN a \in SUBSET Int /\ IsFiniteSet(DOMAIN a)
  BY DEF Timed
<1>2. D \in SUBSET Int /\ \A end \in D : \E t \in DOMAIN a : t < end
  BY <1>1, BinOf
<1>3. D = Range(g)
  BY DEF Range
<1>4. IsFiniteSet(Range(g))
  <2>1. DOMAIN g = DOMAIN a
    OBVIOUS
  <2> HIDE DEF g
  <2> QED BY <1>1, <2>1, ValuesAreFinite
<1> QED BY <1>2, <1>3, <1>4

LEMMA ResampleLooksBack ==
    ASSUME NEW a, Timed(a), NEW b, Timed(b), NEW k \in Int, Agree(a, b, k - 1), NEW cadence \in Nat \ {0}
    PROVE  /\ Timed(ResampleOhlcv(a, cadence))
           /\ Agree(ResampleOhlcv(a, cadence), ResampleOhlcv(b, cadence), k)
           /\ Timed(ResampleOhlcvBars(a, cadence))
           /\ Agree(ResampleOhlcvBars(a, cadence), ResampleOhlcvBars(b, cadence), k)
<1> DEFINE C == {BinEnd(t, cadence) : t \in DOMAIN a}
           D == {BinEnd(t, cadence) : t \in DOMAIN b}
           In(end) == Binned(DOMAIN a, end, cadence)
<1>1. C \in SUBSET Int /\ IsFiniteSet(C) /\ D \in SUBSET Int
  BY EndsOfBins
<1>2. ASSUME NEW end \in Int, end <= k
      PROVE  /\ end \in C <=> end \in D
             /\ Binned(DOMAIN b, end, cadence) = In(end)
             /\ \A t \in In(end) : a[t] = b[t]
             /\ end \in C => Min(In(end)) \in In(end) /\ Max(In(end)) \in In(end)
  <2>1. /\ end \in C <=> \E t \in DOMAIN a : end = BinEnd(t, cadence)
        /\ end \in D <=> \E t \in DOMAIN b : end = BinEnd(t, cadence)
    OBVIOUS
  <2>2. /\ (\E t \in DOMAIN a : end = BinEnd(t, cadence)) <=> (\E t \in DOMAIN b : end = BinEnd(t, cadence))
        /\ Binned(DOMAIN b, end, cadence) = In(end)
        /\ \A t \in In(end) : a[t] = b[t]
        /\ (\E t \in DOMAIN a : end = BinEnd(t, cadence)) => Min(In(end)) \in In(end) /\ Max(In(end)) \in In(end)
    <3> HIDE DEF C, D
    <3> QED BY <1>2, BinsAgree
  <2> HIDE DEF C, D, In
  <2> QED BY <2>1, <2>2
<1>3. ASSUME NEW c, NEW d, DOMAIN c = C, DOMAIN d = D,
             \A end \in Int : end <= k /\ end \in C /\ end \in D => c[end] = d[end]
      PROVE  Timed(c) /\ Agree(c, d, k)
  <2>1. Timed(c)
    BY <1>1, <1>3 DEF Timed
  <2> HIDE DEF C, D
  <2> QED BY <1>1, <1>2, <1>3, <2>1 DEF Agree, SameTo
<1>4. Timed(ResampleOhlcv(a, cadence)) /\ Agree(ResampleOhlcv(a, cadence), ResampleOhlcv(b, cadence), k)
  <2> DEFINE c == ResampleOhlcv(a, cadence)
             d == ResampleOhlcv(b, cadence)
             InB(end) == Binned(DOMAIN b, end, cadence)
  <2>1. /\ DOMAIN c = C /\ DOMAIN d = D
        /\ \A end \in C : c[end] =
              [open |-> a[Min(In(end))].price, high |-> Max({a[t].price : t \in In(end)}),
               low |-> Min({a[t].price : t \in In(end)}),
               close |-> a[Max(In(end))].price, volume |-> ColumnSum(a, "size", In(end))]
        /\ \A end \in D : d[end] =
              [open |-> b[Min(InB(end))].price, high |-> Max({b[t].price : t \in InB(end)}),
               low |-> Min({b[t].price : t \in InB(end)}),
               close |-> b[Max(InB(end))].price, volume |-> ColumnSum(b, "size", InB(end))]
    BY DEF ResampleOhlcv
  <2>2. ASSUME NEW end \in Int, end <= k, end \in C, end \in D
        PROVE  c[end] = d[end]
    <3> DEFINE I == In(end)
    <3>1. InB(end) = I /\ (\A t \in I : a[t] = b[t]) /\ Min(I) \in I /\ Max(I) \in I
      BY <1>2, <2>2
    <3>2. /\ c[end] = [open |-> a[Min(I)].price, high |-> Max({a[t].price : t \in I}),
                       low |-> Min({a[t].price : t \in I}),
                       close |-> a[Max(I)].price, volume |-> ColumnSum(a, "size", I)]
          /\ d[end] = [open |-> b[Min(I)].price, high |-> Max({b[t].price : t \in I}),
                       low |-> Min({b[t].price : t \in I}),
                       close |-> b[Max(I)].price, volume |-> ColumnSum(b, "size", I)]
      BY <2>1, <2>2, <3>1, Zenon
    <3> HIDE DEF I, c, d
    <3>3. {a[t].price : t \in I} = {b[t].price : t \in I}
      BY <3>1
    <3>4. ColumnSum(a, "size", I) = ColumnSum(b, "size", I)
      BY <3>1, SumsAgree
    <3>5. a[Min(I)].price = b[Min(I)].price /\ a[Max(I)].price = b[Max(I)].price
      BY <3>1
    <3> QED BY <3>2, <3>3, <3>4, <3>5, Zenon
  <2>3. Timed(c) /\ Agree(c, d, k)
    <3>1. DOMAIN c = C /\ DOMAIN d = D
      BY <2>1
    <3> HIDE DEF c, d, C, D
    <3> QED BY <1>3, <2>2, <3>1
  <2> QED BY <2>3
<1>5. Timed(ResampleOhlcvBars(a, cadence)) /\ Agree(ResampleOhlcvBars(a, cadence), ResampleOhlcvBars(b, cadence), k)
  <2> DEFINE c == ResampleOhlcvBars(a, cadence)
             d == ResampleOhlcvBars(b, cadence)
             InB(end) == Binned(DOMAIN b, end, cadence)
  <2>1. /\ DOMAIN c = C /\ DOMAIN d = D
        /\ \A end \in C : c[end] =
              [open |-> a[Min(In(end))].open, high |-> Max({a[t].high : t \in In(end)}),
               low |-> Min({a[t].low : t \in In(end)}), close |-> a[Max(In(end))].close,
               volume |-> ColumnSum(a, "volume", In(end))]
        /\ \A end \in D : d[end] =
              [open |-> b[Min(InB(end))].open, high |-> Max({b[t].high : t \in InB(end)}),
               low |-> Min({b[t].low : t \in InB(end)}), close |-> b[Max(InB(end))].close,
               volume |-> ColumnSum(b, "volume", InB(end))]
    BY DEF ResampleOhlcvBars
  <2>2. ASSUME NEW end \in Int, end <= k, end \in C, end \in D
        PROVE  c[end] = d[end]
    <3> DEFINE I == In(end)
    <3>1. InB(end) = I /\ (\A t \in I : a[t] = b[t]) /\ Min(I) \in I /\ Max(I) \in I
      BY <1>2, <2>2
    <3>2. /\ c[end] = [open |-> a[Min(I)].open, high |-> Max({a[t].high : t \in I}),
                       low |-> Min({a[t].low : t \in I}), close |-> a[Max(I)].close,
                       volume |-> ColumnSum(a, "volume", I)]
          /\ d[end] = [open |-> b[Min(I)].open, high |-> Max({b[t].high : t \in I}),
                       low |-> Min({b[t].low : t \in I}), close |-> b[Max(I)].close,
                       volume |-> ColumnSum(b, "volume", I)]
      BY <2>1, <2>2, <3>1, Zenon
    <3> HIDE DEF I, c, d
    <3>3. {a[t].high : t \in I} = {b[t].high : t \in I} /\ {a[t].low : t \in I} = {b[t].low : t \in I}
      BY <3>1
    <3>4. ColumnSum(a, "volume", I) = ColumnSum(b, "volume", I)
      BY <3>1, SumsAgree
    <3>5. a[Min(I)].open = b[Min(I)].open /\ a[Max(I)].close = b[Max(I)].close
      BY <3>1
    <3> QED BY <3>2, <3>3, <3>4, <3>5, Zenon
  <2>3. Timed(c) /\ Agree(c, d, k)
    <3>1. DOMAIN c = C /\ DOMAIN d = D
      BY <2>1
    <3> HIDE DEF c, d, C, D
    <3> QED BY <1>3, <2>2, <3>1
  <2> QED BY <2>3
<1> QED BY <1>4, <1>5

-----------------------------------------------------------------------------
(* The features of the sessions, of which a time is in one at most. *)
LEMMA OneSession ==
    \A t \in Int : \A r, s \in SessionOf(t) : r = s /\ s \in Sessions /\ s.open \in Int /\ s.open <= t /\ t < s.close
<1> SUFFICES ASSUME NEW t \in Int, NEW r \in SessionOf(t), NEW s \in SessionOf(t)
             PROVE  r = s /\ s \in Sessions /\ s.open \in Int /\ s.open <= t /\ t < s.close
  OBVIOUS
<1>1. /\ s \in Sessions /\ s.open <= t /\ t < s.close /\ s.open \in Int /\ s.close \in Int
      /\ r \in Sessions /\ r.open <= t /\ t < r.close /\ r.open \in Int /\ r.close \in Int
  BY SessionAssumption DEF SessionOf, During
<1>2. r = s \/ r.close <= s.open \/ s.close <= r.open
  BY <1>1, SessionAssumption
<1> QED BY <1>1, <1>2

LEMMA SessionFeaturesLookBack ==
    ASSUME NEW a, Timed(a), NEW b, Timed(b), NEW k \in Int, Agree(a, b, k)
    PROVE  /\ Timed(SessionPosition(a)) /\ Agree(SessionPosition(a), SessionPosition(b), k)
           /\ Timed(SessionVwap(a)) /\ Agree(SessionVwap(a), SessionVwap(b), k)
<1> DEFINE S == Tagged(a)
           T == Tagged(b)
<1>0. /\ S \subseteq DOMAIN a /\ T \subseteq DOMAIN b
      /\ \A t \in Int : t <= k => (t \in S <=> t \in T) /\ (t \in S => a[t] = b[t])
  BY DEF Tagged, Agree, SameTo
<1>1. Timed(SessionPosition(a)) /\ Agree(SessionPosition(a), SessionPosition(b), k)
  <2> DEFINE c == SessionPosition(a)
             d == SessionPosition(b)
             share(t) == LET s == CHOOSE s \in SessionOf(t) : TRUE
                         IN  (100 * (t - s.open)) \div (s.close - s.open)
  <2>1. /\ DOMAIN c = S /\ DOMAIN d = T
        /\ \A t \in S : c[t] = [value |-> share(t)]
        /\ \A t \in T : d[t] = [value |-> share(t)]
    BY DEF SessionPosition, Series
  <2> HIDE DEF c, d, S, T, share
  <2>2. \A t \in Int : t <= k => (t \in DOMAIN c <=> t \in DOMAIN d) /\ (t \in DOMAIN c => c[t] = d[t])
    BY <1>0, <2>1
  <2>3. Timed(c) /\ Agree(c, d, k)
    BY <1>0, <2>1, <2>2, PartsAgree
  <2> QED BY <2>3 DEF c, d
<1>2. Timed(SessionVwap(a)) /\ Agree(SessionVwap(a), SessionVwap(b), k)
  <2> DEFINE c == SessionVwap(a)
             d == SessionVwap(b)
             sofar(t) == {u \in S : SessionOf(u) = SessionOf(t) /\ u <= t}
             sofarB(t) == {u \in T : SessionOf(u) = SessionOf(t) /\ u <= t}
             paid(t) == SumFunction([u \in sofar(t) |-> (a[u].high + a[u].low + a[u].close) * a[u].volume])
             paidB(t) == SumFunction([u \in sofarB(t) |-> (b[u].high + b[u].low + b[u].close) * b[u].volume])
             traded(t) == ColumnSum(a, "volume", sofar(t))
             tradedB(t) == ColumnSum(b, "volume", sofarB(t))
  <2>1. /\ DOMAIN c = {t \in S : traded(t) > 0} /\ DOMAIN d = {t \in T : tradedB(t) > 0}
        /\ \A t \in DOMAIN c : c[t] = [value |-> paid(t) \div (3 * traded(t))]
        /\ \A t \in DOMAIN d : d[t] = [value |-> paidB(t) \div (3 * tradedB(t))]
    BY DEF SessionVwap, Series
  <2>2. ASSUME NEW t \in Int, t <= k
        PROVE  traded(t) = tradedB(t) /\ paid(t) = paidB(t)
    <3>0. S \subseteq Int /\ T \subseteq Int
      BY <1>0 DEF Timed
    <3>1. sofar(t) = sofarB(t)
      <4> HIDE DEF S, T
      <4> QED BY <1>0, <2>2, <3>0
    <3>2. \A u \in sofar(t) : a[u] = b[u]
      <4> HIDE DEF S, T
      <4> QED BY <1>0, <2>2, <3>0
    <3> DEFINE R == sofar(t)
    <3>3. [u \in R |-> (a[u].high + a[u].low + a[u].close) * a[u].volume]
             = [u \in R |-> (b[u].high + b[u].low + b[u].close) * b[u].volume]
      <4> HIDE DEF R
      <4>1. \A u \in R : a[u] = b[u]
        BY <3>2 DEF R
      <4> QED BY <4>1
    <3>4. ColumnSum(a, "volume", R) = ColumnSum(b, "volume", R)
      <4> HIDE DEF R
      <4>1. \A u \in R : a[u] = b[u]
        BY <3>2 DEF R
      <4> QED BY <4>1, SumsAgree
    <3>5. sofarB(t) = R
      BY <3>1
    <3>6. tradedB(t) = ColumnSum(b, "volume", R)
      <4> HIDE DEF sofar, sofarB, R
      <4> QED BY <3>5
    <3>7. paidB(t) = SumFunction([u \in R |-> (b[u].high + b[u].low + b[u].close) * b[u].volume])
      <4> HIDE DEF sofar, sofarB, R
      <4> QED BY <3>5, Zenon
    <3>8. traded(t) = ColumnSum(a, "volume", R)
      OBVIOUS
    <3>9. paid(t) = SumFunction([u \in R |-> (a[u].high + a[u].low + a[u].close) * a[u].volume])
      OBVIOUS
    <3> HIDE DEF R, traded, tradedB, paid, paidB, sofar, sofarB
    <3> QED BY <3>3, <3>4, <3>6, <3>7, <3>8, <3>9, Zenon
  <2> HIDE DEF c, d, S, T, paid, paidB, traded, tradedB
  <2>3. ASSUME NEW t \in Int, t <= k
        PROVE  (t \in DOMAIN c <=> t \in DOMAIN d) /\ (t \in DOMAIN c => c[t] = d[t])
    <3>1. t \in DOMAIN c <=> t \in DOMAIN d
      BY <1>0, <2>1, <2>2, <2>3
    <3>2. ASSUME t \in DOMAIN c PROVE c[t] = d[t]
      BY <2>1, <2>2, <2>3, <3>1, <3>2
    <3> QED BY <3>1, <3>2
  <2>4. Timed(c) /\ Agree(c, d, k)
    <3>1. DOMAIN c \subseteq DOMAIN a /\ DOMAIN d \subseteq DOMAIN b
      BY <1>0, <2>1
    <3> QED BY <2>3, <3>1, PartsAgree
  <2> QED BY <2>4 DEF c, d
<1> QED BY <1>1, <1>2

LEMMA OpeningRangeLooksBack ==
    ASSUME NEW a, Timed(a), NEW b, Timed(b), NEW k \in Int, Agree(a, b, k), NEW level, NEW minutes \in Nat
    PROVE  /\ Timed(OpeningRangeLevels(a, level, minutes))
           /\ Agree(OpeningRangeLevels(a, level, minutes), OpeningRangeLevels(b, level, minutes), k)
<1> DEFINE c == OpeningRangeLevels(a, level, minutes)
           d == OpeningRangeLevels(b, level, minutes)
           opening(t) == {u \in DOMAIN a : \E s \in SessionOf(t) : s.open <= u /\ u < s.open + minutes}
           openingB(t) == {u \in DOMAIN b : \E s \in SessionOf(t) : s.open <= u /\ u < s.open + minutes}
           over(t) == \E s \in SessionOf(t) : s.open + minutes <= t /\ s.open + minutes < s.close
           A == {t \in Tagged(a) : over(t) /\ opening(t) # {}}
           B == {t \in Tagged(b) : over(t) /\ openingB(t) # {}}
<1>1. /\ DOMAIN c = A /\ DOMAIN d = B
      /\ \A t \in A : c[t] = [value |-> IF level = "high" THEN Max({a[u].high : u \in opening(t)})
                                        ELSE Min({a[u].low : u \in opening(t)})]
      /\ \A t \in B : d[t] = [value |-> IF level = "high" THEN Max({b[u].high : u \in openingB(t)})
                                        ELSE Min({b[u].low : u \in openingB(t)})]
  BY DEF OpeningRangeLevels, Series
<1>2. ASSUME NEW t \in Int, t <= k, over(t)
      PROVE  opening(t) = openingB(t) /\ \A u \in opening(t) : a[u] = b[u]
  <2>1. PICK s \in SessionOf(t) : s.open + minutes <= t
    BY <1>2
  <2>2. s.open \in Int /\ \A r \in SessionOf(t) : r = s
    BY OneSession
  <2>3. DOMAIN a \subseteq Int /\ DOMAIN b \subseteq Int
    BY DEF Timed
  <2>4. \A u \in Int : (\E r \in SessionOf(t) : r.open <= u /\ u < r.open + minutes) => u <= k
    BY <1>2, <2>1, <2>2
  <2>5. \A u \in Int : u <= k => (u \in DOMAIN a <=> u \in DOMAIN b) /\ (u \in DOMAIN a => a[u] = b[u])
    BY DEF Agree, SameTo
  <2> QED BY <2>3, <2>4, <2>5
<1>3. ASSUME NEW t \in Int, t <= k
      PROVE  (t \in A <=> t \in B) /\ (t \in A => c[t] = d[t])
  <2>1. t \in Tagged(a) <=> t \in Tagged(b)
    BY <1>3 DEF Tagged, Agree, SameTo
  <2>2. t \in A <=> t \in B
    BY <1>2, <1>3, <2>1
  <2>3. ASSUME t \in A PROVE c[t] = d[t]
    <3> DEFINE O == opening(t)
    <3>1. openingB(t) = O /\ (\A u \in O : a[u] = b[u]) /\ t \in B
      BY <1>2, <1>3, <2>2, <2>3
    <3>2. /\ c[t] = [value |-> IF level = "high" THEN Max({a[u].high : u \in O}) ELSE Min({a[u].low : u \in O})]
          /\ d[t] = [value |-> IF level = "high" THEN Max({b[u].high : u \in O}) ELSE Min({b[u].low : u \in O})]
      <4> HIDE DEF c, d, openingB
      <4> QED BY <1>1, <2>3, <3>1, Zenon
    <3> HIDE DEF O
    <3>3. {a[u].high : u \in O} = {b[u].high : u \in O} /\ {a[u].low : u \in O} = {b[u].low : u \in O}
      BY <3>1
    <3> DEFINE high == {a[u].high : u \in O}
               low == {a[u].low : u \in O}
               highB == {b[u].high : u \in O}
               lowB == {b[u].low : u \in O}
    <3>4. /\ c[t] = [value |-> IF level = "high" THEN Max(high) ELSE Min(low)]
          /\ d[t] = [value |-> IF level = "high" THEN Max(highB) ELSE Min(lowB)]
          /\ high = highB /\ low = lowB
      <4> HIDE DEF c, d
      <4> QED BY <3>2, <3>3
    <3> HIDE DEF c, d, high, low, highB, lowB
    <3> QED BY <3>4
  <2> QED BY <2>2, <2>3
<1>4. Timed(c) /\ Agree(c, d, k)
  <2>1. DOMAIN c = A /\ DOMAIN d = B /\ A \subseteq DOMAIN a /\ B \subseteq DOMAIN b
    BY <1>1 DEF Tagged
  <2> HIDE DEF c, d, A, B
  <2> QED BY <1>3, <2>1, PartsAgree
<1> QED BY <1>4

LEMMA PriorCloseLooksBack ==
    ASSUME NEW a, Timed(a), NEW b, Timed(b), NEW k \in Int, Agree(a, b, k)
    PROVE  Timed(PriorSessionClose(a)) /\ Agree(PriorSessionClose(a), PriorSessionClose(b), k)
<1> DEFINE c == PriorSessionClose(a)
           d == PriorSessionClose(b)
           before(t) == {u \in Tagged(a) : \E s \in SessionOf(t) : u < s.open}
           beforeB(t) == {u \in Tagged(b) : \E s \in SessionOf(t) : u < s.open}
           A == {t \in Tagged(a) : before(t) # {}}
           B == {t \in Tagged(b) : beforeB(t) # {}}
<1>0. /\ DOMAIN a \subseteq Int /\ DOMAIN b \subseteq Int /\ IsFiniteSet(DOMAIN a)
      /\ Tagged(a) \subseteq DOMAIN a /\ Tagged(b) \subseteq DOMAIN b
      /\ \A t \in Int : t <= k => (t \in Tagged(a) <=> t \in Tagged(b)) /\ (t \in Tagged(a) => a[t] = b[t])
  BY DEF Tagged, Agree, SameTo, Timed
<1>1. /\ DOMAIN c = A /\ DOMAIN d = B
      /\ \A t \in A : c[t] = [value |-> a[Max(before(t))].close]
      /\ \A t \in B : d[t] = [value |-> b[Max(beforeB(t))].close]
  BY DEF PriorSessionClose, Series
<1>2. ASSUME NEW t \in Int, t <= k
      PROVE  before(t) = beforeB(t) /\ \A u \in before(t) : a[u] = b[u]
  <2>1. \A u \in Int : (\E s \in SessionOf(t) : u < s.open) => u <= k
    BY <1>2, OneSession
  <2> QED BY <1>0, <2>1
<1>3. ASSUME NEW t \in Int, t <= k
      PROVE  (t \in A <=> t \in B) /\ (t \in A => c[t] = d[t])
  <2>1. t \in A <=> t \in B
    BY <1>0, <1>2, <1>3
  <2>2. ASSUME t \in A PROVE c[t] = d[t]
    <3> DEFINE O == before(t)
    <3>1. beforeB(t) = O /\ (\A u \in O : a[u] = b[u]) /\ t \in B
      BY <1>2, <1>3, <2>1, <2>2
    <3>2. O \in SUBSET Int /\ IsFiniteSet(O) /\ O # {}
      <4>1. O \subseteq DOMAIN a /\ O # {}
        BY <1>0, <2>2
      <4> HIDE DEF O
      <4> QED BY <1>0, <4>1, FS_Subset
    <3>3. Max(O) \in O
      <4> HIDE DEF O
      <4> QED BY <3>2, Extremes
    <3>4. c[t] = [value |-> a[Max(O)].close] /\ d[t] = [value |-> b[Max(O)].close]
      <4>1. t \in A /\ t \in B /\ beforeB(t) = before(t)
        BY <2>2, <3>1
      <4> HIDE DEF c, d, before, beforeB, A, B
      <4> QED BY <1>1, <4>1, Zenon
    <3> HIDE DEF O, c, d
    <3> QED BY <3>1, <3>3, <3>4
  <2> QED BY <2>1, <2>2
<1>4. Timed(c) /\ Agree(c, d, k)
  <2>1. DOMAIN c = A /\ DOMAIN d = B /\ A \subseteq DOMAIN a /\ B \subseteq DOMAIN b
    BY <1>0, <1>1
  <2> HIDE DEF c, d, A, B
  <2> QED BY <1>3, <2>1, PartsAgree
<1> QED BY <1>4

-----------------------------------------------------------------------------
(* The features of events: these may be announced for times to come. *)
LEMMA LastIsRow ==
    ASSUME NEW S \in SUBSET Int, IsFiniteSet(S), NEW t \in Int
    PROVE  /\ LastAt(S, t) # {} => Max(LastAt(S, t)) \in LastAt(S, t)
           /\ \A s \in LastAt(S, t) : s \in S /\ s <= t
           /\ \A s \in S : s <= t => LastAt(S, t) # {}
<1>1. \A s \in LastAt(S, t) : s \in S /\ s <= t
  BY DEF LastAt
<1>2. ASSUME LastAt(S, t) # {} PROVE Max(LastAt(S, t)) \in LastAt(S, t)
  <2> DEFINE L == LastAt(S, t)
  <2>1. L \subseteq S
    BY <1>1
  <2> HIDE DEF L
  <2>2. IsFiniteSet(L) /\ L \in SUBSET Int /\ L # {}
    BY <1>2, <2>1, FS_Subset DEF L
  <2>3. Max(L) \in L
    BY <2>2, Extremes
  <2> QED BY <2>3 DEF L
<1>3. ASSUME NEW s \in S, s <= t PROVE LastAt(S, t) # {}
  <2> DEFINE U == {u \in S : u <= t}
  <2>1. IsFiniteSet(U) /\ U \in SUBSET Int /\ U # {}
    BY <1>3, FS_Subset
  <2> HIDE DEF U
  <2>2. Max(U) \in U /\ \A u \in U : u <= Max(U)
    BY <2>1, Extremes
  <2>3. Max(U) \in LastAt(S, t)
    BY <2>2 DEF LastAt, U
  <2> QED BY <2>3
<1> QED BY <1>1, <1>2, <1>3

LEMMA EventsOfTypeAgree ==
    ASSUME NEW e, Timed(e), NEW f, Timed(f), NEW k \in Int, Agree(e, f, k), NEW types
    PROVE  /\ OfType(e, types) \subseteq DOMAIN e /\ OfType(f, types) \subseteq DOMAIN f
           /\ SameTo(OfType(e, types), OfType(f, types), k)
BY DEF OfType, Agree, SameTo, Timed

LEMMA TimeSinceLooksBack ==
    ASSUME NEW e, Timed(e), NEW f, Timed(f), NEW a, Timed(a), NEW b, Timed(b),
           NEW k \in Int, Agree(e, f, k), Agree(a, b, k), NEW types, NEW most
    PROVE  /\ Timed(TimeSinceLastEvent(e, a, types, most))
           /\ Agree(TimeSinceLastEvent(e, a, types, most), TimeSinceLastEvent(f, b, types, most), k)
<1> DEFINE c == TimeSinceLastEvent(e, a, types, most)
           d == TimeSinceLastEvent(f, b, types, most)
           last(t) == LastAt(OfType(e, types), t)
           lastF(t) == LastAt(OfType(f, types), t)
<1>1. /\ DOMAIN c = {t \in DOMAIN a : \E x \in last(t) : t - x <= most}
      /\ DOMAIN d = {t \in DOMAIN b : \E x \in lastF(t) : t - x <= most}
      /\ \A t \in DOMAIN c : c[t] = [value |-> t - Max(last(t))]
      /\ \A t \in DOMAIN d : d[t] = [value |-> t - Max(lastF(t))]
  BY DEF TimeSinceLastEvent, Series
<1>2. \A t \in Int : t <= k => last(t) = lastF(t)
  <2>1. /\ OfType(e, types) \in SUBSET Int /\ OfType(f, types) \in SUBSET Int
        /\ SameTo(OfType(e, types), OfType(f, types), k)
    BY EventsOfTypeAgree DEF Timed
  <2> QED BY <2>1, LooksBack
<1> HIDE DEF c, d, last, lastF
<1>3. \A t \in Int : t <= k => (t \in DOMAIN c <=> t \in DOMAIN d) /\ (t \in DOMAIN c => c[t] = d[t])
  BY <1>1, <1>2 DEF Agree, SameTo
<1>4. DOMAIN c \subseteq DOMAIN a /\ DOMAIN d \subseteq DOMAIN b
  BY <1>1
<1>5. Timed(c) /\ Agree(c, d, k)
  BY <1>3, <1>4, PartsAgree
<1> QED BY <1>5 DEF c, d

LEMMA ReactionLooksBack ==
    ASSUME NEW e, Timed(e), NEW f, Timed(f), NEW a, Timed(a), NEW b, Timed(b),
           NEW k \in Int, Agree(e, f, k), Agree(a, b, k), NEW types, NEW minutes \in Nat, NEW most
    PROVE  /\ Timed(EventReactionReturn(e, a, types, minutes, most))
           /\ Agree(EventReactionReturn(e, a, types, minutes, most),
                    EventReactionReturn(f, b, types, minutes, most), k)
<1> DEFINE c == EventReactionReturn(e, a, types, minutes, most)
           d == EventReactionReturn(f, b, types, minutes, most)
           price(t) == a[Max(LastAt(DOMAIN a, t))].close
           priceB(t) == b[Max(LastAt(DOMAIN b, t))].close
           E == {x \in OfType(e, types) : LastAt(DOMAIN a, x) # {} /\ price(x) > 0}
           F == {x \in OfType(f, types) : LastAt(DOMAIN b, x) # {} /\ priceB(x) > 0}
           last(t) == LastAt(E, t - minutes)
           lastF(t) == LastAt(F, t - minutes)
           return(x) == (100 * (price(x + minutes) - price(x))) \div price(x)
           returnB(x) == (100 * (priceB(x + minutes) - priceB(x))) \div priceB(x)
<1>0. /\ DOMAIN a \in SUBSET Int /\ DOMAIN b \in SUBSET Int /\ IsFiniteSet(DOMAIN a) /\ IsFiniteSet(DOMAIN b)
      /\ SameTo(DOMAIN a, DOMAIN b, k)
      /\ OfType(e, types) \in SUBSET Int /\ OfType(f, types) \in SUBSET Int
      /\ SameTo(OfType(e, types), OfType(f, types), k) /\ IsFiniteSet(OfType(e, types))
  BY EventsOfTypeAgree, FS_Subset DEF Timed, Agree
<1>1. /\ DOMAIN c = {t \in DOMAIN a : \E x \in last(t) : t - x <= most}
      /\ DOMAIN d = {t \in DOMAIN b : \E x \in lastF(t) : t - x <= most}
      /\ \A t \in DOMAIN c : c[t] = [value |-> return(Max(last(t)))]
      /\ \A t \in DOMAIN d : d[t] = [value |-> returnB(Max(lastF(t)))]
  BY DEF EventReactionReturn, Series
<1>2. ASSUME NEW t \in Int, t <= k
      PROVE  /\ LastAt(DOMAIN a, t) = LastAt(DOMAIN b, t)
             /\ LastAt(DOMAIN a, t) # {} => price(t) = priceB(t)
  <2>1. LastAt(DOMAIN a, t) = LastAt(DOMAIN b, t)
    BY <1>0, <1>2, LooksBack
  <2>2. ASSUME LastAt(DOMAIN a, t) # {} PROVE price(t) = priceB(t)
    <3> DEFINE m == Max(LastAt(DOMAIN a, t))
    <3>1. m \in LastAt(DOMAIN a, t)
      BY <1>0, <1>2, <2>2, LastIsRow
    <3>2. m \in DOMAIN a /\ m <= t
      BY <1>0, <1>2, <3>1, LastIsRow
    <3> HIDE DEF m
    <3>3. m <= k
      BY <1>0, <1>2, <3>2
    <3>4. a[m] = b[m]
      BY <3>2, <3>3 DEF Agree
    <3> QED BY <2>1, <3>4 DEF m
  <2> QED BY <2>1, <2>2
<1>3. E \in SUBSET Int /\ F \in SUBSET Int /\ SameTo(E, F, k) /\ IsFiniteSet(E)
  <2>1. SameTo(E, F, k)
    <3> HIDE DEF price, priceB
    <3> QED BY <1>0, <1>2 DEF SameTo
  <2>2. E \subseteq OfType(e, types) /\ F \subseteq OfType(f, types)
    OBVIOUS
  <2> HIDE DEF E, F
  <2> QED BY <1>0, <2>1, <2>2, FS_Subset
<1>4. ASSUME NEW t \in Int, t <= k
      PROVE  last(t) = lastF(t) /\ (last(t) # {} => return(Max(last(t))) = returnB(Max(lastF(t))))
  <2> HIDE DEF E, F
  <2>0. t - minutes \in Int /\ t - minutes <= k
    BY <1>4
  <2>1. last(t) = lastF(t)
    BY <1>3, <2>0, LooksBack
  <2>2. ASSUME last(t) # {} PROVE return(Max(last(t))) = returnB(Max(lastF(t)))
    <3> DEFINE m == Max(last(t))
    <3>1. m \in last(t)
      BY <1>3, <2>0, <2>2, LastIsRow
    <3>2. m \in E /\ m <= t - minutes
      BY <1>3, <2>0, <3>1, LastIsRow
    <3>3. Max(lastF(t)) = m
      BY <2>1
    <3> HIDE DEF m, last, lastF
    <3>4. m \in Int /\ m + minutes \in Int /\ m <= k /\ m + minutes <= k
      BY <1>3, <1>4, <3>2
    <3>5. LastAt(DOMAIN a, m) # {} /\ LastAt(DOMAIN a, m + minutes) # {}
      <4>1. LastAt(DOMAIN a, m) # {}
        BY <3>2 DEF E
      <4>2. PICK u \in LastAt(DOMAIN a, m) : TRUE
        BY <4>1
      <4>3. u \in DOMAIN a /\ u <= m + minutes
        BY <1>0, <3>4, <4>2, LastIsRow
      <4> QED BY <1>0, <3>4, <4>1, <4>3, LastIsRow
    <3>6. price(m) = priceB(m) /\ price(m + minutes) = priceB(m + minutes)
      BY <1>2, <3>4, <3>5
    <3>7. return(m) = returnB(m)
      <4> HIDE DEF price, priceB
      <4> QED BY <3>6, Zenon
    <3> HIDE DEF return, returnB
    <3> QED BY <3>3, <3>7 DEF m
  <2> QED BY <2>1, <2>2
<1> HIDE DEF c, d, last, lastF, return, returnB, E, F
<1>5. ASSUME NEW t \in Int, t <= k
      PROVE  (t \in DOMAIN c <=> t \in DOMAIN d) /\ (t \in DOMAIN c => c[t] = d[t])
  <2>1. t \in DOMAIN a <=> t \in DOMAIN b
    BY <1>0, <1>5 DEF SameTo
  <2>2. t \in DOMAIN c <=> t \in DOMAIN d
    BY <1>1, <1>4, <1>5, <2>1
  <2>3. ASSUME t \in DOMAIN c PROVE c[t] = d[t]
    <3>1. last(t) # {}
      BY <1>1, <2>3
    <3>2. return(Max(last(t))) = returnB(Max(lastF(t)))
      BY <1>4, <1>5, <3>1
    <3> QED BY <1>1, <2>2, <2>3, <3>2, Zenon
  <2> QED BY <2>2, <2>3
<1>6. DOMAIN c \subseteq DOMAIN a /\ DOMAIN d \subseteq DOMAIN b
  BY <1>1
<1>7. Timed(c) /\ Agree(c, d, k)
  BY <1>5, <1>6, PartsAgree
<1> QED BY <1>7 DEF c, d

-----------------------------------------------------------------------------
(* Every transform but those of events to come looks back only. *)
LooksBackOnly(r) == r.transform \notin {"event_window_flag", "time_to_next_event"}
Resamples(r) == r.transform \in {"resample_ohlcv", "resample_ohlcv_bars"}

LEMMA TransformsLookBack ==
    ASSUME NEW r, FeatureOk(r), LooksBackOnly(r), NEW k \in Int, NEW in, NEW jn,
           \A i \in 1..Arity(r.transform) :
               /\ Timed(in[i]) /\ Timed(jn[i])
               /\ Agree(in[i], jn[i], k) \/ (Resamples(r) /\ Agree(in[i], jn[i], k - 1))
    PROVE  Timed(Transformed(r, in)) /\ Agree(Transformed(r, in), Transformed(r, jn), k)
<1> DEFINE c == Transformed(r, in)
           d == Transformed(r, jn)
<1> SUFFICES Timed(c) /\ Agree(c, d, k)
  OBVIOUS
<1> HIDE DEF c, d
<1>1. r.transform \in {"resample_ohlcv", "resample_ohlcv_bars", "column_select", "log_return", 
                      "true_range", "rolling_change", "rolling_mean", "rolling_realized_vol", 
                      "rolling_zscore", "rolling_percentile_rank", "session_position", 
                      "session_vwap", "opening_range_levels", "prior_session_close", 
                      "two_series_ratio", "time_since_last_event", "event_reaction_return"}
  BY DEF FeatureOk, LooksBackOnly, Arity
<1>2. /\ Timed(in[1]) /\ Timed(jn[1])
      /\ Agree(in[1], jn[1], k) \/ (Resamples(r) /\ Agree(in[1], jn[1], k - 1))
  BY <1>1 DEF FeatureOk, Arity
<1>3. ~Resamples(r) => Agree(in[1], jn[1], k)
  BY <1>2
<1>4. r.transform \in {"two_series_ratio", "time_since_last_event", "event_reaction_return"} =>
         Timed(in[2]) /\ Timed(jn[2]) /\ Agree(in[2], jn[2], k)
  BY DEF Arity, Resamples
<1>5. Agree(in[1], jn[1], k - 1)
  BY <1>2 DEF Agree, SameTo, Timed
<1>6. CASE r.transform = "resample_ohlcv"
  <2>1. c = ResampleOhlcv(in[1], r.params.cadence) /\ d = ResampleOhlcv(jn[1], r.params.cadence)
    BY <1>6 DEF c, d, Transformed
  <2>2. r.params.cadence \in Nat \ {0}
    BY <1>6 DEF FeatureOk
    <2> QED BY <1>2, <1>5, <2>1, <2>2, ResampleLooksBack
<1>7. CASE r.transform = "resample_ohlcv_bars"
  <2>1. c = ResampleOhlcvBars(in[1], r.params.cadence) /\ d = ResampleOhlcvBars(jn[1], r.params.cadence)
    BY <1>7 DEF c, d, Transformed
  <2>2. r.params.cadence \in Nat \ {0}
    BY <1>7 DEF FeatureOk
    <2> QED BY <1>2, <1>5, <2>1, <2>2, ResampleLooksBack
<1>8. CASE r.transform = "column_select"
  <2>1. c = ColumnSelect(in[1], r.params.column) /\ d = ColumnSelect(jn[1], r.params.column)
    BY <1>8 DEF c, d, Transformed
  <2>2. ~Resamples(r)
    BY <1>8 DEF Resamples
    <2> QED BY <1>2, <1>3, <2>1, <2>2, ColumnSelectLooksBack
<1>9. CASE r.transform = "log_return"
  <2>1. c = RollingChange(in[1], "close", 1, "pct") /\ d = RollingChange(jn[1], "close", 1, "pct")
    BY <1>9 DEF c, d, Transformed, LogReturn
  <2>2. ~Resamples(r)
    BY <1>9 DEF Resamples
    <2> QED BY <1>2, <1>3, <2>1, <2>2, RollingChangeLooksBack
<1>10. CASE r.transform = "true_range"
  <2>1. c = TrueRange(in[1]) /\ d = TrueRange(jn[1])
    BY <1>10 DEF c, d, Transformed
  <2>2. ~Resamples(r)
    BY <1>10 DEF Resamples
    <2> QED BY <1>2, <1>3, <2>1, <2>2, TrueRangeLooksBack
<1>11. CASE r.transform = "rolling_change"
  <2>1. /\ c = RollingChange(in[1], r.params.column, r.params.window, "abs")
        /\ d = RollingChange(jn[1], r.params.column, r.params.window, "abs")
    BY <1>11 DEF c, d, Transformed
  <2>2. ~Resamples(r)
    BY <1>11 DEF Resamples
  <2>3. r.params.window \in Nat
    BY <1>11 DEF FeatureOk
    <2> QED BY <1>2, <1>3, <2>1, <2>2, <2>3, RollingChangeLooksBack
<1>12. CASE r.transform = "rolling_mean"
  <2>1. /\ c = RollingMean(in[1], r.params.column, r.params.window)
        /\ d = RollingMean(jn[1], r.params.column, r.params.window)
    BY <1>12 DEF c, d, Transformed
  <2>2. ~Resamples(r)
    BY <1>12 DEF Resamples
    <2> QED BY <1>2, <1>3, <2>1, <2>2, RollingWindowsLookBack
<1>13. CASE r.transform = "rolling_realized_vol"
  <2>1. /\ c = RollingRealizedVol(in[1], "value", r.params.window)
        /\ d = RollingRealizedVol(jn[1], "value", r.params.window)
    BY <1>13 DEF c, d, Transformed
  <2>2. ~Resamples(r)
    BY <1>13 DEF Resamples
    <2> QED BY <1>2, <1>3, <2>1, <2>2, RollingWindowsLookBack
<1>14. CASE r.transform = "rolling_zscore"
  <2>1. /\ c = RollingZscore(in[1], r.params.column, r.params.window)
        /\ d = RollingZscore(jn[1], r.params.column, r.params.window)
    BY <1>14 DEF c, d, Transformed
  <2>2. ~Resamples(r)
    BY <1>14 DEF Resamples
    <2> QED BY <1>2, <1>3, <2>1, <2>2, RollingZscoreLooksBack
<1>15. CASE r.transform = "rolling_percentile_rank"
  <2>1. /\ c = RollingPercentileRank(in[1], r.params.column, r.params.window)
        /\ d = RollingPercentileRank(jn[1], r.params.column, r.params.window)
    BY <1>15 DEF c, d, Transformed
  <2>2. ~Resamples(r)
    BY <1>15 DEF Resamples
    <2> QED BY <1>2, <1>3, <2>1, <2>2, RollingRankLooksBack
<1>16. CASE r.transform = "session_position"
  <2>1. c = SessionPosition(in[1]) /\ d = SessionPosition(jn[1])
    BY <1>16 DEF c, d, Transformed
  <2>2. ~Resamples(r)
    BY <1>16 DEF Resamples
    <2> QED BY <1>2, <1>3, <2>1, <2>2, SessionFeaturesLookBack
<1>17. CASE r.transform = "session_vwap"
  <2>1. c = SessionVwap(in[1]) /\ d = SessionVwap(jn[1])
    BY <1>17 DEF c, d, Transformed
  <2>2. ~Resamples(r)
    BY <1>17 DEF Resamples
    <2> QED BY <1>2, <1>3, <2>1, <2>2, SessionFeaturesLookBack
<1>18. CASE r.transform = "opening_range_levels"
  <2>1. /\ c = OpeningRangeLevels(in[1], r.params.column, r.params.window)
        /\ d = OpeningRangeLevels(jn[1], r.params.column, r.params.window)
    BY <1>18 DEF c, d, Transformed
  <2>2. ~Resamples(r)
    BY <1>18 DEF Resamples
  <2>3. r.params.window \in Nat
    BY <1>18 DEF FeatureOk
    <2> QED BY <1>2, <1>3, <2>1, <2>2, <2>3, OpeningRangeLooksBack
<1>19. CASE r.transform = "prior_session_close"
  <2>1. c = PriorSessionClose(in[1]) /\ d = PriorSessionClose(jn[1])
    BY <1>19 DEF c, d, Transformed
  <2>2. ~Resamples(r)
    BY <1>19 DEF Resamples
    <2> QED BY <1>2, <1>3, <2>1, <2>2, PriorCloseLooksBack
<1>20. CASE r.transform = "two_series_ratio"
  <2>1. c = TwoSeriesRatio(in[1], in[2], "close") /\ d = TwoSeriesRatio(jn[1], jn[2], "close")
    BY <1>20 DEF c, d, Transformed
  <2>2. ~Resamples(r)
    BY <1>20 DEF Resamples
    <2> QED BY <1>2, <1>3, <1>4, <1>20, <2>1, <2>2, RatioLooksBack
<1>21. CASE r.transform = "time_since_last_event"
  <2>1. /\ c = TimeSinceLastEvent(in[1], in[2], r.params.types, r.params.most)
        /\ d = TimeSinceLastEvent(jn[1], jn[2], r.params.types, r.params.most)
    BY <1>21 DEF c, d, Transformed
  <2>2. ~Resamples(r)
    BY <1>21 DEF Resamples
    <2> QED BY <1>2, <1>3, <1>4, <1>21, <2>1, <2>2, TimeSinceLooksBack
<1>22. CASE r.transform = "event_reaction_return"
  <2>1. /\ c = EventReactionReturn(in[1], in[2], r.params.types, r.params.window, r.params.most)
        /\ d = EventReactionReturn(jn[1], jn[2], r.params.types, r.params.window, r.params.most)
    BY <1>22 DEF c, d, Transformed
  <2>2. ~Resamples(r)
    BY <1>22 DEF Resamples
  <2>3. r.params.window \in Nat
    BY <1>22 DEF FeatureOk
    <2> QED BY <1>2, <1>3, <1>4, <1>22, <2>1, <2>2, <2>3, ReactionLooksBack
<1> QED BY <1>1, <1>6, <1>7, <1>8, <1>9, <1>10, <1>11, <1>12, <1>13, <1>14, <1>15, <1>16, <1>17, <1>18, <1>19, <1>20, <1>21, <1>22

(* Without rows in the inputs there are none. *)
LEMMA NoRowsFromNone ==
    ASSUME NEW r, FeatureOk(r), LooksBackOnly(r), NEW in, \A i \in 1..Arity(r.transform) : DOMAIN in[i] = {}
    PROVE  DOMAIN Transformed(r, in) = {}
<1>0. DOMAIN in[1] = {} /\ (r.transform \in {"two_series_ratio", "time_since_last_event", "event_reaction_return"} =>
                               DOMAIN in[2] = {})
  BY DEF FeatureOk, Arity
<1>1. r.transform \in {"resample_ohlcv", "resample_ohlcv_bars", "column_select", "log_return", "true_range",
                      "rolling_change", "rolling_mean", "rolling_realized_vol", "rolling_zscore",
                      "rolling_percentile_rank", "session_position", "session_vwap", "opening_range_levels",
                      "prior_session_close", "two_series_ratio", "time_since_last_event",
                      "event_reaction_return"}
  BY DEF FeatureOk, LooksBackOnly, Arity
<1>2. \A n : Full({}, n) = {}
  BY DEF Full
<1>3. \A a : DOMAIN a = {} => Tagged(a) = {}
  BY DEF Tagged
<1>4. CASE r.transform \in {"resample_ohlcv", "resample_ohlcv_bars"}
  BY <1>0, <1>4 DEF Transformed, ResampleOhlcv, ResampleOhlcvBars
<1>5. CASE r.transform \in {"column_select", "log_return", "true_range", "rolling_change"}
  BY <1>0, <1>2, <1>5 DEF Transformed, ColumnSelect, LogReturn, RollingChange, TrueRange, Series
<1>6. CASE r.transform \in {"rolling_mean", "rolling_realized_vol", "rolling_zscore", "rolling_percentile_rank"}
  BY <1>0, <1>2, <1>6 DEF Transformed, RollingMean, RollingRealizedVol, RollingZscore, RollingPercentileRank, Series
<1>7. CASE r.transform \in {"session_position", "session_vwap", "opening_range_levels", "prior_session_close"}
  BY <1>0, <1>3, <1>7 DEF Transformed, SessionPosition, SessionVwap, OpeningRangeLevels, PriorSessionClose, Series
<1>8. CASE r.transform \in {"two_series_ratio", "time_since_last_event", "event_reaction_return"}
  BY <1>0, <1>8 DEF Transformed, TwoSeriesRatio, TimeSinceLastEvent, EventReactionReturn, Series
<1> QED BY <1>1, <1>4, <1>5, <1>6, <1>7, <1>8

(* A flag at a time is the same by the same events, whatever the other times are. *)
LEMMA EventsToComeAgree ==
    ASSUME NEW r, ~LooksBackOnly(r), NEW in, NEW jn, in[1] = jn[1],
           NEW t, t \in DOMAIN in[2] <=> t \in DOMAIN jn[2]
    PROVE  /\ t \in DOMAIN Transformed(r, in) <=> t \in DOMAIN Transformed(r, jn)
           /\ t \in DOMAIN Transformed(r, in) => Transformed(r, in)[t] = Transformed(r, jn)[t]
<1>1. CASE r.transform = "event_window_flag"
  <2> DEFINE p == r.params
             c == EventWindowFlag(in[1], in[2], p.window, p.window, {"high"})
             d == EventWindowFlag(jn[1], jn[2], p.window, p.window, {"high"})
             E == {e \in DOMAIN in[1] : in[1][e].importance \in {"high"}}
             near(x) == (\E e \in LastAt(E, x) : x - e <= p.window) \/ (\E e \in FirstFrom(E, x) : e - x <= p.window)
  <2>1. Transformed(r, in) = c /\ Transformed(r, jn) = d
    BY <1>1 DEF Transformed
  <2>2. /\ DOMAIN c = DOMAIN in[2] /\ DOMAIN d = DOMAIN jn[2]
        /\ \A x \in DOMAIN in[2] : c[x] = [value |-> IF near(x) THEN 1 ELSE 0]
        /\ \A x \in DOMAIN jn[2] : d[x] = [value |-> IF near(x) THEN 1 ELSE 0]
    BY DEF EventWindowFlag, Series
  <2> HIDE DEF c, d, near
  <2> QED BY <2>1, <2>2
<1>2. CASE r.transform = "time_to_next_event"
  <2> DEFINE p == r.params
             c == TimeToNextEvent(in[1], in[2], p.types, p.most)
             d == TimeToNextEvent(jn[1], jn[2], p.types, p.most)
             next(x) == FirstFrom(OfType(in[1], p.types), x)
  <2>1. Transformed(r, in) = c /\ Transformed(r, jn) = d
    BY <1>2 DEF Transformed
  <2>2. /\ DOMAIN c = {x \in DOMAIN in[2] : \E e \in next(x) : e - x <= p.most}
        /\ DOMAIN d = {x \in DOMAIN jn[2] : \E e \in next(x) : e - x <= p.most}
        /\ \A x \in DOMAIN c : c[x] = [value |-> Min(next(x)) - x]
        /\ \A x \in DOMAIN d : d[x] = [value |-> Min(next(x)) - x]
    BY DEF TimeToNextEvent, Series
  <2> HIDE DEF c, d, next
  <2> QED BY <2>1, <2>2
<1> QED BY <1>1, <1>2 DEF LooksBackOnly

(* A row that the events until its time give is there when more are known. *)
LEMMA EventsToComeAdd ==
    ASSUME NEW r, ~LooksBackOnly(r), NEW in, Timed(in[1]), NEW t \in Int,
           NEW jn, jn[1] = UpTo(in[1], t), t \in DOMAIN in[2] <=> t \in DOMAIN jn[2],
           t \in DOMAIN Transformed(r, jn)
    PROVE  t \in DOMAIN Transformed(r, in)
<1>1. CASE r.transform = "event_window_flag"
  BY <1>1 DEF Transformed, EventWindowFlag, Series
<1>2. CASE r.transform = "time_to_next_event"
  <2> DEFINE p == r.params
             E == OfType(in[1], p.types)
             F == OfType(jn[1], p.types)
  <2>1. /\ DOMAIN Transformed(r, in) = {x \in DOMAIN in[2] : \E e \in FirstFrom(E, x) : e - x <= p.most}
        /\ DOMAIN Transformed(r, jn) = {x \in DOMAIN jn[2] : \E e \in FirstFrom(F, x) : e - x <= p.most}
    BY <1>2 DEF Transformed, TimeToNextEvent, Series
  <2>2. \A e : e \in F <=> e \in E /\ e <= t
    BY DEF OfType, UpTo
  <2>3. PICK e \in FirstFrom(F, t) : e - t <= p.most
    BY <2>1
  <2>4. E \subseteq Int
    BY DEF OfType, Timed
  <2> HIDE DEF E, F
  <2>5. e \in FirstFrom(E, t)
    <3>1. e \in F /\ t <= e
      BY <2>3 DEF FirstFrom
    <3>2. e \in E /\ e \in Int /\ e = t
      <4>1. e \in E /\ e <= t /\ e \in Int
        BY <2>2, <2>4, <3>1, Zenon
      <4>2. t \in Int
        OBVIOUS
      <4> HIDE DEF E, F
      <4> QED BY <3>1, <4>1, <4>2
    <3>3. \A u \in E : t <= u => e <= u
      BY <3>2
    <3> QED BY <3>1, <3>2, <3>3 DEF FirstFrom
  <2> QED BY <2>1, <2>3, <2>5
<1> QED BY <1>1, <1>2 DEF LooksBackOnly

-----------------------------------------------------------------------------
(* The frames of a registry from given sources. *)
Registered == {s.registry : s \in Setups}
Inputs(reg, h, name) == [i \in DOMAIN reg[name].inputs |-> h[reg[name].inputs[i]]]
Row(reg, h, src, name) == IF name \in Sources THEN src[name] ELSE Transformed(reg[name], Inputs(reg, h, name))
Solves(reg, h, src) == h = [name \in Sources \cup DOMAIN reg |-> Row(reg, h, src, name)]

LEMMA RegisteredInputs ==
    ASSUME NEW reg \in Registered
    PROVE  /\ IsFiniteSet(DOMAIN reg) /\ DOMAIN reg \cap Sources = {}
           /\ \A f \in DOMAIN reg :
                 /\ FeatureOk(reg[f]) /\ DOMAIN reg[f].inputs = 1..Arity(reg[f].transform)
                 /\ \A i \in DOMAIN reg[f].inputs : /\ reg[f].inputs[i] \in Sources \cup DOMAIN reg
                                                    /\ reg[f].inputs[i] \in ToSet(reg[f].inputs)
                 /\ IsFiniteSet(ToSet(reg[f].inputs)) /\ ToSet(reg[f].inputs) \subseteq Sources \cup DOMAIN reg
           /\ \E rank : \A f \in DOMAIN reg : /\ rank[f] \in Nat /\ rank[f] <= Cardinality(DOMAIN reg)
                                              /\ \A i \in ToSet(reg[f].inputs) \cap DOMAIN reg : rank[i] < rank[f]
<1> DEFINE ids == DOMAIN reg
<1>1. /\ IsFiniteSet(ids) /\ ids \cap Sources = {}
      /\ \A f \in ids : FeatureOk(reg[f]) /\ reg[f].inputs \in Seq(Sources \cup ids)
      /\ \E rank \in [ids -> 0..Cardinality(ids)] :
             \A f \in ids : \A i \in ToSet(reg[f].inputs) \cap ids : rank[i] < rank[f]
  BY RegistryAssumption DEF Registered
<1>2. ASSUME NEW f \in ids
      PROVE  /\ DOMAIN reg[f].inputs = 1..Arity(reg[f].transform)
             /\ \A i \in DOMAIN reg[f].inputs : /\ reg[f].inputs[i] \in Sources \cup ids
                                                /\ reg[f].inputs[i] \in ToSet(reg[f].inputs)
             /\ IsFiniteSet(ToSet(reg[f].inputs)) /\ ToSet(reg[f].inputs) \subseteq Sources \cup ids
  <2> DEFINE q == reg[f].inputs
  <2>1. q \in Seq(Sources \cup ids) /\ Len(q) = Arity(reg[f].transform)
    BY <1>1 DEF FeatureOk
  <2> HIDE DEF q, ids
  <2>2. DOMAIN q = 1..Len(q) /\ Len(q) \in Nat /\ \A i \in DOMAIN q : q[i] \in Sources \cup ids
    BY <2>1
  <2>3. ToSet(q) = {q[i] : i \in DOMAIN q}
    BY DEF ToSet
  <2>4. IsFiniteSet(ToSet(q))
    <3>1. IsFiniteSet(1..Len(q))
      BY <2>2, FS_Interval
    <3>2. IsFiniteSet(Range(q))
      BY <2>2, <3>1, ValuesAreFinite
    <3>3. ToSet(q) = Range(q)
      BY <2>3 DEF Range
    <3> QED BY <3>2, <3>3
  <2>5. \A i \in DOMAIN q : q[i] \in ToSet(q)
    BY <2>3
  <2>6. ToSet(q) \subseteq Sources \cup ids
    BY <2>2, <2>3
  <2> QED BY <2>1, <2>2, <2>4, <2>5, <2>6 DEF q, ids
<1>3. PICK rank \in [ids -> 0..Cardinality(ids)] :
         \A f \in ids : \A i \in ToSet(reg[f].inputs) \cap ids : rank[i] < rank[f]
  BY <1>1
<1>4. \A f \in ids : rank[f] \in Nat /\ rank[f] <= Cardinality(ids)
  <2>1. Cardinality(ids) \in Nat
    BY <1>1, FS_CardinalityType
  <2> HIDE DEF ids
  <2> QED BY <1>3, <2>1
<1> QED BY <1>1, <1>2, <1>3, <1>4

LEMMA SolutionExists ==
    ASSUME NEW reg \in Registered, NEW src
    PROVE  \E h : Solves(reg, h, src)
<1> DEFINE ids == DOMAIN reg
<1>1. PICK rank : \A f \in ids : /\ rank[f] \in Nat /\ rank[f] <= Cardinality(ids)
                                 /\ \A i \in ToSet(reg[f].inputs) \cap ids : rank[i] < rank[f]
  BY RegisteredInputs
<1>2. Cardinality(ids) \in Nat
  BY RegisteredInputs, FS_CardinalityType
<1> DEFINE Names(n) == Sources \cup {f \in ids : rank[f] < n}
           P == {n \in Nat : \E h : h = [name \in Names(n) |-> Row(reg, h, src, name)]}
<1>3. 0 \in P
  <2>1. Names(0) = Sources
    BY <1>1
  <2> DEFINE h == [name \in Sources |-> src[name]]
  <2>2. \A name \in Sources : Row(reg, h, src, name) = src[name]
    BY DEF Row
  <2> HIDE DEF Names
  <2>3. h = [name \in Names(0) |-> Row(reg, h, src, name)]
    <3>1. h = [name \in Sources |-> h[name]]
      OBVIOUS
    <3> HIDE DEF h
    <3>2. \A name \in Sources : h[name] = src[name]
      BY DEF h
    <3> QED BY <2>1, <2>2, <3>1, <3>2
  <2> QED BY <2>3
<1>4. ASSUME NEW n \in Nat, n \in P PROVE n + 1 \in P
  <2>1. PICK h : h = [name \in Names(n) |-> Row(reg, h, src, name)]
    BY <1>4
  <2> DEFINE g == [name \in Names(n + 1) |-> Row(reg, h, src, name)]
  <2>2. Names(n) \subseteq Names(n + 1)
    BY <1>1
  <2>3. \A name \in Names(n) : g[name] = h[name]
    <3> HIDE DEF Names
    <3>1. \A name \in Names(n) : h[name] = Row(reg, h, src, name)
      BY <2>1
    <3>2. \A name \in Names(n) : g[name] = Row(reg, h, src, name)
      BY <2>2
    <3> QED BY <3>1, <3>2
  <2>4. ASSUME NEW name \in Names(n + 1) PROVE Row(reg, h, src, name) = Row(reg, g, src, name)
    <3>1. CASE name \in Sources
      BY <3>1 DEF Row
    <3>2. CASE name \notin Sources
      <4>1. name \in ids /\ rank[name] < n + 1
        BY <3>2
      <4>2. ASSUME NEW i \in DOMAIN reg[name].inputs PROVE reg[name].inputs[i] \in Names(n)
        <5>1. reg[name].inputs[i] \in Sources \cup ids /\ reg[name].inputs[i] \in ToSet(reg[name].inputs)
          BY <4>1, <4>2, RegisteredInputs
        <5> DEFINE j == reg[name].inputs[i]
        <5>2. j \in ids => rank[j] < rank[name] /\ rank[j] \in Nat /\ rank[name] \in Nat
          BY <1>1, <4>1, <5>1
        <5> HIDE DEF j, ids
        <5>3. j \in ids => rank[j] < n
          BY <4>1, <5>2
        <5> QED BY <5>1, <5>3 DEF j
      <4> HIDE DEF Names, g
      <4>3. Inputs(reg, g, name) = Inputs(reg, h, name)
        BY <2>3, <4>2 DEF Inputs
      <4> QED BY <3>2, <4>3 DEF Row
    <3> QED BY <3>1, <3>2
  <2>5. g = [name \in Names(n + 1) |-> Row(reg, g, src, name)]
    <3>1. g = [name \in Names(n + 1) |-> g[name]]
      <4> HIDE DEF Names
      <4> QED OBVIOUS
    <3>2. \A name \in Names(n + 1) : g[name] = Row(reg, h, src, name)
      <4> HIDE DEF Names
      <4> QED OBVIOUS
    <3> HIDE DEF g, Names
    <3> QED BY <2>4, <3>1, <3>2
  <2> HIDE DEF g, Names
  <2>6. \E x : x = [name \in Names(n + 1) |-> Row(reg, x, src, name)]
    BY <2>5, Zenon
  <2> QED BY <2>6
<1>5. Nat \subseteq P
  <2> HIDE DEF P
  <2> QED BY <1>3, <1>4, NumberInduction
<1>6. PICK h : h = [name \in Names(Cardinality(ids) + 1) |-> Row(reg, h, src, name)]
  <2>1. Cardinality(ids) + 1 \in P
    <3> HIDE DEF P
    <3> QED BY <1>2, <1>5
  <2> QED BY <2>1
<1>7. Names(Cardinality(ids) + 1) = Sources \cup ids
  <2>1. \A f \in ids : rank[f] < Cardinality(ids) + 1
    BY <1>1, <1>2
  <2> HIDE DEF ids
  <2> QED BY <2>1
<1> HIDE DEF Names
<1> QED BY <1>6, <1>7 DEF Solves

LEMMA FramesSolve ==
    registry \in Registered => \A t : Solves(registry, FramesBy(t), [s \in Sources |-> SourceBy(s, t)])
<1> SUFFICES ASSUME registry \in Registered, NEW t
             PROVE  Solves(registry, FramesBy(t), [s \in Sources |-> SourceBy(s, t)])
  OBVIOUS
<1> DEFINE src == [s \in Sources |-> SourceBy(s, t)]
           step(h, name) == IF name \in Sources THEN SourceBy(name, t)
                            ELSE Transformed(registry[name],
                                    [i \in DOMAIN registry[name].inputs |-> h[registry[name].inputs[i]]])
<1> SUFFICES Solves(registry, FramesBy(t), src)
  OBVIOUS
<1>1. \A h : \A name : Row(registry, h, src, name) = step(h, name)
  BY DEF Row, Inputs
<1>2. PICK h : Solves(registry, h, src)
  BY SolutionExists
<1>3. h = [name \in Sources \cup FeatureIds |-> step(h, name)]
  <2> HIDE DEF step, src
  <2> QED BY <1>1, <1>2 DEF Solves, FeatureIds
<1>4. FramesBy(t) = CHOOSE g : g = [name \in Sources \cup FeatureIds |-> step(g, name)]
  BY Zenon DEF FramesBy
<1> HIDE DEF step
<1>5. FramesBy(t) = [name \in Sources \cup FeatureIds |-> step(FramesBy(t), name)]
  BY <1>3, <1>4, Zenon
<1> HIDE DEF src
<1> QED BY <1>1, <1>5 DEF Solves, FeatureIds

(* How far back a feature has to know a source or a feature. *)
Reach(name, s) == IF name \in {"ticks", "other"} THEN s - 1 ELSE s

(* A feature that looks back only is the same by inputs that agree. *)
LEMMA FeatureLooksBack ==
    ASSUME NEW reg \in Registered, NEW f \in DOMAIN reg, LooksBackOnly(reg[f]), NEW h, NEW g, NEW s \in Int,
           \A j \in ToSet(reg[f].inputs) : Timed(h[j]) /\ Timed(g[j]) /\ Agree(h[j], g[j], Reach(j, s))
    PROVE  /\ Timed(Transformed(reg[f], Inputs(reg, h, f))) /\ Timed(Transformed(reg[f], Inputs(reg, g, f)))
           /\ Agree(Transformed(reg[f], Inputs(reg, h, f)), Transformed(reg[f], Inputs(reg, g, f)), s)
<1> DEFINE in == Inputs(reg, h, f)
           jn == Inputs(reg, g, f)
           r == reg[f]
<1>1. /\ FeatureOk(r) /\ DOMAIN r.inputs = 1..Arity(r.transform)
      /\ \A i \in DOMAIN r.inputs : r.inputs[i] \in ToSet(r.inputs)
  BY RegisteredInputs
<1>2. ToSet(r.inputs) \cap {"ticks", "other"} # {} => Resamples(r)
  BY <1>1 DEF FeatureOk, Resamples
<1>3. ASSUME NEW i \in 1..Arity(r.transform)
      PROVE  /\ Timed(in[i]) /\ Timed(jn[i])
             /\ Agree(in[i], jn[i], s) \/ (Resamples(r) /\ Agree(in[i], jn[i], s - 1))
  <2> DEFINE j == r.inputs[i]
  <2>1. in[i] = h[j] /\ jn[i] = g[j] /\ j \in ToSet(r.inputs)
    BY <1>1, <1>3 DEF Inputs
  <2>2. Timed(h[j]) /\ Timed(g[j]) /\ Agree(h[j], g[j], Reach(j, s))
    BY <2>1
  <2> HIDE DEF j, in, jn, r
  <2>3. CASE j \in {"ticks", "other"}
    BY <1>2, <2>1, <2>2, <2>3 DEF Reach
  <2>4. CASE j \notin {"ticks", "other"}
    BY <2>1, <2>2, <2>4 DEF Reach
  <2> QED BY <2>3, <2>4
<1>4. \A i \in 1..Arity(r.transform) : Timed(jn[i]) /\ Agree(jn[i], jn[i], s)
  BY <1>3 DEF Agree, SameTo
<1> HIDE DEF in, jn
<1>5. Timed(Transformed(r, in)) /\ Agree(Transformed(r, in), Transformed(r, jn), s)
  BY <1>1, <1>3, TransformsLookBack
<1>6. Timed(Transformed(r, jn))
  BY <1>1, <1>4, TransformsLookBack
<1> QED BY <1>5, <1>6 DEF in, jn

(* A set of features that look back only, with those below them. *)
LooksBackWithin(reg, A) ==
    /\ A \subseteq DOMAIN reg
    /\ \A f \in A : LooksBackOnly(reg[f]) /\ ToSet(reg[f].inputs) \cap DOMAIN reg \subseteq A

LEMMA CausalFrames ==
    ASSUME NEW reg \in Registered, NEW A, LooksBackWithin(reg, A), NEW s \in Int,
           NEW src, NEW h, Solves(reg, h, src), NEW srd, NEW g, Solves(reg, g, srd),
           \A x \in Sources : Timed(src[x]) /\ Timed(srd[x]) /\ Agree(src[x], srd[x], Reach(x, s))
    PROVE  \A f \in A : Timed(h[f]) /\ Timed(g[f]) /\ Agree(h[f], g[f], s)
<1>1. PICK rank : \A f \in DOMAIN reg : /\ rank[f] \in Nat
                                        /\ \A i \in ToSet(reg[f].inputs) \cap DOMAIN reg : rank[i] < rank[f]
  BY RegisteredInputs
<1> DEFINE Good(f) == Timed(h[f]) /\ Timed(g[f]) /\ Agree(h[f], g[f], s)
           P == {n \in Nat : \A f \in A : rank[f] < n => Good(f)}
<1>2. \A x \in Sources : h[x] = src[x] /\ g[x] = srd[x]
  BY DEF Solves, Row
<1>3. DOMAIN reg \cap Sources = {}
  BY RegisteredInputs
<1>4. 0 \in P
  BY <1>1 DEF LooksBackWithin
<1>5. ASSUME NEW n \in Nat, n \in P PROVE n + 1 \in P
  <2>1. ASSUME NEW f \in A, rank[f] < n + 1 PROVE Good(f)
    <3>1. f \in DOMAIN reg /\ f \notin Sources /\ LooksBackOnly(reg[f]) /\ ToSet(reg[f].inputs) \cap DOMAIN reg \subseteq A
      BY <1>3 DEF LooksBackWithin
    <3>2. h[f] = Transformed(reg[f], Inputs(reg, h, f)) /\ g[f] = Transformed(reg[f], Inputs(reg, g, f))
      BY <3>1 DEF Solves, Row
    <3>3. ASSUME NEW j \in ToSet(reg[f].inputs)
          PROVE  Timed(h[j]) /\ Timed(g[j]) /\ Agree(h[j], g[j], Reach(j, s))
      <4>1. j \in Sources \cup DOMAIN reg
        BY <3>1, <3>3, RegisteredInputs
      <4>2. CASE j \in Sources
        BY <1>2, <4>2
      <4>3. CASE j \notin Sources
        <5>1. j \in A /\ rank[j] < rank[f] /\ rank[j] \in Nat /\ rank[f] \in Nat
          BY <1>1, <3>1, <3>3, <4>1, <4>3
        <5>2. Good(j)
          <6> HIDE DEF Good
          <6>1. rank[j] < n
            BY <2>1, <5>1
          <6> QED BY <1>5, <5>1, <6>1
        <5>3. Reach(j, s) = s
          BY <4>3 DEF Reach, Sources
        <5> QED BY <5>2, <5>3
      <4> QED BY <4>2, <4>3
    <3>4. /\ Timed(Transformed(reg[f], Inputs(reg, h, f))) /\ Timed(Transformed(reg[f], Inputs(reg, g, f)))
          /\ Agree(Transformed(reg[f], Inputs(reg, h, f)), Transformed(reg[f], Inputs(reg, g, f)), s)
      BY <3>1, <3>3, FeatureLooksBack
    <3> QED BY <3>2, <3>4
  <2> HIDE DEF Good
  <2> QED BY <2>1
<1>6. Nat \subseteq P
  <2> HIDE DEF P
  <2> QED BY <1>4, <1>5, NumberInduction
<1>7. ASSUME NEW f \in A PROVE Good(f)
  <2>1. rank[f] \in Nat /\ rank[f] + 1 \in P
    <3>1. rank[f] \in Nat
      BY <1>1 DEF LooksBackWithin
    <3> HIDE DEF P
    <3> QED BY <1>6, <3>1
  <2> HIDE DEF Good
  <2> QED BY <2>1
<1> QED BY <1>7

LEMMA NoFramesFromNothing ==
    ASSUME NEW reg \in Registered, NEW A, LooksBackWithin(reg, A),
           NEW src, NEW h, Solves(reg, h, src), \A x \in Sources : DOMAIN src[x] = {}
    PROVE  \A f \in A : DOMAIN h[f] = {}
<1>1. PICK rank : \A f \in DOMAIN reg : /\ rank[f] \in Nat
                                        /\ \A i \in ToSet(reg[f].inputs) \cap DOMAIN reg : rank[i] < rank[f]
  BY RegisteredInputs
<1> DEFINE P == {n \in Nat : \A f \in A : rank[f] < n => DOMAIN h[f] = {}}
<1>2. \A x \in Sources : h[x] = src[x]
  BY DEF Solves, Row
<1>3. /\ DOMAIN reg \cap Sources = {}
      /\ \A g \in DOMAIN reg :
            /\ DOMAIN reg[g].inputs = 1..Arity(reg[g].transform)
            /\ \A i \in DOMAIN reg[g].inputs : /\ reg[g].inputs[i] \in Sources \cup DOMAIN reg
                                               /\ reg[g].inputs[i] \in ToSet(reg[g].inputs)
  BY RegisteredInputs
<1>4. 0 \in P
  BY <1>1 DEF LooksBackWithin
<1>5. ASSUME NEW n \in Nat, n \in P PROVE n + 1 \in P
  <2>1. ASSUME NEW f \in A, rank[f] < n + 1 PROVE DOMAIN h[f] = {}
    <3>1. f \in DOMAIN reg /\ f \notin Sources /\ LooksBackOnly(reg[f]) /\ ToSet(reg[f].inputs) \cap DOMAIN reg \subseteq A
      BY <1>3 DEF LooksBackWithin
    <3>2. h[f] = Transformed(reg[f], Inputs(reg, h, f))
      BY <3>1 DEF Solves, Row
    <3>3. ASSUME NEW i \in 1..Arity(reg[f].transform) PROVE DOMAIN Inputs(reg, h, f)[i] = {}
      <4> DEFINE j == reg[f].inputs[i]
      <4>1. i \in DOMAIN reg[f].inputs /\ j \in Sources \cup DOMAIN reg /\ j \in ToSet(reg[f].inputs)
        BY <1>3, <3>1, <3>3
      <4>2. Inputs(reg, h, f)[i] = h[j]
        BY <4>1 DEF Inputs
      <4> HIDE DEF j
      <4>3. CASE j \in Sources
        BY <1>2, <4>2, <4>3
      <4>4. CASE j \notin Sources
        <5>1. j \in A /\ rank[j] < rank[f] /\ rank[j] \in Nat /\ rank[f] \in Nat
          BY <1>1, <3>1, <4>1, <4>4
        <5>2. rank[j] < n
          BY <2>1, <5>1
        <5> QED BY <1>5, <4>2, <5>1, <5>2
      <4> QED BY <4>3, <4>4
    <3>4. FeatureOk(reg[f])
      BY <3>1, RegisteredInputs
    <3> QED BY <3>1, <3>2, <3>3, <3>4, NoRowsFromNone
  <2> QED BY <2>1
<1>6. Nat \subseteq P
  <2> HIDE DEF P
  <2> QED BY <1>4, <1>5, NumberInduction
<1>7. ASSUME NEW f \in A PROVE DOMAIN h[f] = {}
  <2>1. rank[f] \in Nat /\ rank[f] + 1 \in P
    <3>1. rank[f] \in Nat
      BY <1>1 DEF LooksBackWithin
    <3> HIDE DEF P
    <3> QED BY <1>6, <3>1
  <2> QED BY <2>1
<1> QED BY <1>7

-----------------------------------------------------------------------------
(* The features that see nothing to come. *)
LookingBack == {f \in FeatureIds : ~SeesAhead(f)}

LEMMA LookingBackIsClosed == registry \in Registered => LooksBackWithin(registry, LookingBack)
<1> SUFFICES ASSUME registry \in Registered PROVE LooksBackWithin(registry, LookingBack)
  OBVIOUS
<1>1. ASSUME NEW f \in LookingBack PROVE LooksBackOnly(registry[f])
  <2>1. f \in Below(f)
    BY DEF Below, LookingBack
  <2> QED BY <2>1 DEF LookingBack, SeesAhead, LooksAhead, LooksBackOnly
<1>2. ASSUME NEW f \in LookingBack, NEW j \in ToSet(registry[f].inputs) \cap DOMAIN registry
      PROVE  j \in LookingBack
  <2>1. Below(j) \subseteq Below(f)
    BY <1>2 DEF Below, LookingBack, InputsOf, FeatureIds
  <2> QED BY <1>2, <2>1 DEF LookingBack, SeesAhead, FeatureIds
<1> QED BY <1>1, <1>2 DEF LooksBackWithin, LookingBack, FeatureIds

(* By a time, a feature is the same whenever it is looked at later. *)
TimedSources == \A x \in Sources : Timed(raw[x])

LEMMA SourcesByATime ==
    ASSUME TimedSources, NEW x \in Sources, NEW t \in Int, NEW k \in Int, t <= k
    PROVE  Timed(SourceBy(x, k)) /\ Agree(SourceBy(x, k), SourceBy(x, t), Reach(x, t)) /\ Agree(raw[x], SourceBy(x, t), Reach(x, t))
<1>1. Timed(raw[x])
  BY DEF TimedSources
<1>2. \A n : /\ DOMAIN UpTo(raw[x], n) = {u \in DOMAIN raw[x] : u <= n}
            /\ \A u \in DOMAIN UpTo(raw[x], n) : UpTo(raw[x], n)[u] = raw[x][u]
  BY DEF UpTo
<1>3. x \in {"ticks", "other"} <=> x # "events"
  BY DEF Sources
<1>4. DOMAIN raw[x] \in SUBSET Int /\ IsFiniteSet(DOMAIN raw[x])
  BY <1>1 DEF Timed
<1> DEFINE c == SourceBy(x, k)
           d == SourceBy(x, t)
<1>5. DOMAIN c = {u \in DOMAIN raw[x] : u <= Reach(x, k)} /\ \A u \in DOMAIN c : c[u] = raw[x][u]
  BY <1>2, <1>3 DEF SourceBy, Reach
<1>6. DOMAIN d = {u \in DOMAIN raw[x] : u <= Reach(x, t)} /\ \A u \in DOMAIN d : d[u] = raw[x][u]
  BY <1>2, <1>3 DEF SourceBy, Reach
<1>7. Reach(x, t) \in Int /\ Reach(x, k) \in Int /\ Reach(x, t) <= Reach(x, k)
  BY DEF Reach
<1> HIDE DEF c, d
<1>8. Timed(c)
  <2>1. DOMAIN c \subseteq DOMAIN raw[x]
    BY <1>5
  <2> QED BY <1>4, <2>1, FS_Subset DEF Timed
<1>9. Agree(c, d, Reach(x, t))
  BY <1>4, <1>5, <1>6, <1>7 DEF Agree, SameTo
<1>10. Agree(raw[x], d, Reach(x, t))
  BY <1>4, <1>6, <1>7 DEF Agree, SameTo
<1> QED BY <1>8, <1>9, <1>10 DEF c, d

LEMMA ScratchLooksBack ==
    ASSUME registry \in Registered, TimedSources, NEW f \in LookingBack, NEW t \in Int, NEW k \in Int, t <= k
    PROVE  /\ Timed(FromScratch(f, k)) /\ Timed(FromScratch(f, t))
           /\ Agree(FromScratch(f, k), FromScratch(f, t), t)
<1> DEFINE src == [s \in Sources |-> SourceBy(s, k)]
           srd == [s \in Sources |-> SourceBy(s, t)]
<1>1. Solves(registry, FramesBy(k), src) /\ Solves(registry, FramesBy(t), srd)
  BY FramesSolve
<1>2. \A x \in Sources : Timed(src[x]) /\ Timed(srd[x]) /\ Agree(src[x], srd[x], Reach(x, t))
  BY SourcesByATime
<1>3. LooksBackWithin(registry, LookingBack)
  BY LookingBackIsClosed
<1> HIDE DEF src, srd
<1> QED BY <1>1, <1>2, <1>3, CausalFrames DEF FromScratch

(* A feature from the frames that are there, as far as those are known. *)
LEMMA ComputedIsScratch ==
    ASSUME registry \in Registered, TimedSources, DOMAIN raw = Sources, NEW f \in FeatureIds, LooksBackOnly(registry[f]),
           NEW t \in Int,
           \A i \in InputsOf(f) \cap FeatureIds :
               Timed(store[i]) /\ Timed(FromScratch(i, t)) /\ Agree(store[i], FromScratch(i, t), t)
    PROVE  Timed(InMemory(f)) /\ Agree(InMemory(f), FromScratch(f, t), t)
<1> DEFINE h == [name \in Sources \cup FeatureIds |-> Read(name)]
           g == FramesBy(t)
<1>1. Solves(registry, g, [s \in Sources |-> SourceBy(s, t)])
  BY FramesSolve
<1>2. FeatureIds \cap Sources = {} /\ InputsOf(f) \subseteq Sources \cup FeatureIds
  BY RegisteredInputs DEF FeatureIds, InputsOf
<1>3. \A x \in Sources : h[x] = raw[x] /\ g[x] = SourceBy(x, t)
  BY <1>1 DEF Solves, Row, Read
<1>4. \A i \in FeatureIds : h[i] = store[i]
  BY <1>2 DEF Read
<1>5. g[f] = Transformed(registry[f], Inputs(registry, g, f))
  BY <1>1, <1>2 DEF Solves, Row, FeatureIds
<1>6. Resolved(f) = Inputs(registry, h, f)
  <2>1. \A i \in DOMAIN registry[f].inputs : registry[f].inputs[i] \in Sources \cup FeatureIds
    BY RegisteredInputs DEF FeatureIds
  <2> QED BY <2>1 DEF Resolved, Inputs
<1> HIDE DEF h, g
<1>7. ASSUME NEW j \in ToSet(registry[f].inputs)
      PROVE  Timed(h[j]) /\ Timed(g[j]) /\ Agree(h[j], g[j], Reach(j, t))
  <2>1. CASE j \in Sources
    <3>1. Timed(raw[j]) /\ Timed(SourceBy(j, t)) /\ Agree(raw[j], SourceBy(j, t), Reach(j, t))
      BY <2>1, SourcesByATime DEF TimedSources
    <3> QED BY <1>3, <2>1, <3>1
  <2>2. CASE j \notin Sources
    <3>1. j \in InputsOf(f) \cap FeatureIds /\ Reach(j, t) = t
      BY <1>2, <1>7, <2>2 DEF Reach, Sources, InputsOf
    <3>2. h[j] = store[j] /\ g[j] = FromScratch(j, t)
      BY <1>4, <3>1 DEF FromScratch, g
    <3> QED BY <3>1, <3>2
  <2> QED BY <2>1, <2>2
<1>8. /\ Timed(Transformed(registry[f], Inputs(registry, h, f)))
      /\ Agree(Transformed(registry[f], Inputs(registry, h, f)), Transformed(registry[f], Inputs(registry, g, f)), t)
  BY <1>7, FeatureLooksBack DEF FeatureIds
<1>9. InMemory(f) = Transformed(registry[f], Inputs(registry, h, f))
  BY <1>6 DEF InMemory
<1> QED BY <1>5, <1>8, <1>9 DEF FromScratch, g

(* The same features in the next state, when the sources agree so far. *)
LEMMA FramesSolveNext ==
    (registry \in Registered => \A t : Solves(registry, FramesBy(t), [s \in Sources |-> SourceBy(s, t)]))'
BY FramesSolve, PTL

LEMMA ScratchIsKept ==
    ASSUME registry \in Registered, registry' = registry, TimedSources, TimedSources', NEW t \in Int,
           \A x \in Sources : Agree(raw[x], raw'[x], Reach(x, t)), NEW f \in LookingBack
    PROVE  /\ Timed(FromScratch(f, t)) /\ Timed(FromScratch(f, t)')
           /\ Agree(FromScratch(f, t), FromScratch(f, t)', t)
<1> DEFINE src == [s \in Sources |-> SourceBy(s, t)]
           srd == [s \in Sources |-> SourceBy(s, t)']
<1>1. Solves(registry, FramesBy(t), src)
  BY FramesSolve
<1>2. Solves(registry, FramesBy(t)', srd)
  BY FramesSolveNext
<1>3. ASSUME NEW x \in Sources
      PROVE  Timed(src[x]) /\ Timed(srd[x]) /\ Agree(src[x], srd[x], Reach(x, t))
  <2> DEFINE a == raw[x]
             b == raw'[x]
             c == SourceBy(x, t)
             d == SourceBy(x, t)'
  <2>1. Timed(a) /\ Timed(b) /\ Agree(a, b, Reach(x, t)) /\ Reach(x, t) \in Int
    BY DEF TimedSources, Reach
  <2>2. x \in {"ticks", "other"} <=> x # "events"
    BY DEF Sources
  <2>3. /\ DOMAIN c = {u \in DOMAIN a : u <= Reach(x, t)} /\ \A u \in DOMAIN c : c[u] = a[u]
        /\ DOMAIN d = {u \in DOMAIN b : u <= Reach(x, t)} /\ \A u \in DOMAIN d : d[u] = b[u]
    BY <2>2 DEF SourceBy, Reach, UpTo
  <2>4. src[x] = c /\ srd[x] = d
    OBVIOUS
  <2> HIDE DEF a, b, c, d
  <2>5. \A u \in Int : u <= Reach(x, t) => (u \in DOMAIN c <=> u \in DOMAIN d) /\ (u \in DOMAIN c => c[u] = d[u])
    BY <2>1, <2>3 DEF Agree, SameTo
  <2>6. Timed(c) /\ Timed(d) /\ Agree(c, d, Reach(x, t))
    BY <2>1, <2>3, <2>5, PartsAgree
  <2> QED BY <2>4, <2>6
<1>4. LooksBackWithin(registry, LookingBack)
  BY LookingBackIsClosed
<1> HIDE DEF src, srd
<1> QED BY <1>1, <1>2, <1>3, <1>4, CausalFrames DEF FromScratch

-----------------------------------------------------------------------------
(* The stored rows of a feature that sees nothing to come, unless one of   *)
(* its computations was cut short, are those that the sources give by what *)
(* was known when it was computed.                                         *)
FeatureInv ==
    /\ registry \in Registered /\ now \in Nat
    /\ DOMAIN raw = Sources /\ TimedSources
    /\ DOMAIN store = FeatureIds /\ DOMAIN known = FeatureIds
    /\ \A f \in FeatureIds : /\ known[f] \in Nat /\ known[f] <= now
                             /\ \A i \in InputsOf(f) \cap FeatureIds : known[f] <= known[i]
    /\ \A f \in LookingBack \ torn : Timed(store[f]) /\ Agree(store[f], FromScratch(f, known[f]), known[f])

LEMMA AgreeRules ==
    ASSUME NEW a, Timed(a), NEW b, Timed(b), NEW k \in Int, Agree(a, b, k)
    PROVE  /\ Agree(b, a, k)
           /\ \A c : \A n \in Int : n <= k /\ Agree(b, c, n) => Agree(a, c, n)
           /\ \A n \in Int : n <= k => UpTo(a, n) = UpTo(b, n)
<1>0. /\ \A t \in Int : t <= k => (t \in DOMAIN a <=> t \in DOMAIN b)
      /\ \A t \in DOMAIN a : t <= k => a[t] = b[t]
      /\ DOMAIN a \subseteq Int /\ DOMAIN b \subseteq Int
  BY DEF Agree, SameTo, Timed
<1>1. Agree(b, a, k)
  BY <1>0 DEF Agree, SameTo
<1>2. ASSUME NEW c, NEW n \in Int, n <= k, Agree(b, c, n) PROVE Agree(a, c, n)
  <2>1. \A t \in Int : t <= n => t <= k
    BY <1>2
  <2>2. SameTo(DOMAIN a, DOMAIN c, n)
    BY <1>0, <1>2, <2>1 DEF Agree, SameTo
  <2>3. ASSUME NEW t \in DOMAIN a, t <= n PROVE a[t] = c[t]
    <3>1. t \in Int /\ t <= k
      BY <1>0, <2>1, <2>3
    <3>2. a[t] = b[t] /\ t \in DOMAIN b
      BY <1>0, <3>1
    <3>3. b[t] = c[t]
      BY <1>2, <2>3, <3>2 DEF Agree
    <3> QED BY <3>2, <3>3
  <2> QED BY <2>2, <2>3 DEF Agree
<1>3. ASSUME NEW n \in Int, n <= k PROVE UpTo(a, n) = UpTo(b, n)
  <2>1. {u \in DOMAIN a : u <= n} = {u \in DOMAIN b : u <= n}
    BY <1>0, <1>3
  <2>2. \A u \in {u \in DOMAIN a : u <= n} : a[u] = b[u]
    BY <1>0, <1>3
  <2> QED BY <2>1, <2>2 DEF UpTo
<1> QED BY <1>1, <1>2, <1>3

(* The frames of the start are empty. *)
LEMMA FeatureInvAtStart == FeatureInit => FeatureInv
<1> SUFFICES ASSUME FeatureInit PROVE FeatureInv
  OBVIOUS
<1>1. /\ registry \in Registered /\ now = 0 /\ DOMAIN raw = Sources
      /\ DOMAIN store = FeatureIds /\ DOMAIN known = FeatureIds
      /\ \A x \in Sources : raw[x] = EmptyFrame
      /\ \A f \in FeatureIds : store[f] = EmptyFrame /\ known[f] = 0
  BY DEF FeatureInit, Registered
<1>2. DOMAIN EmptyFrame = {} /\ Timed(EmptyFrame)
  BY FS_EmptySet DEF EmptyFrame, Timed
<1>3. TimedSources
  BY <1>1, <1>2 DEF TimedSources
<1>4. \A f \in FeatureIds : /\ known[f] \in Nat /\ known[f] <= now
                            /\ \A i \in InputsOf(f) \cap FeatureIds : known[f] <= known[i]
  BY <1>1
<1>5. \A f \in LookingBack : DOMAIN FromScratch(f, 0) = {}
  <2> DEFINE src == [s \in Sources |-> SourceBy(s, 0)]
  <2>1. \A x \in Sources : DOMAIN src[x] = {}
    BY <1>1, <1>2 DEF SourceBy, UpTo
  <2>2. Solves(registry, FramesBy(0), src)
    BY <1>1, FramesSolve
  <2>3. LooksBackWithin(registry, LookingBack)
    BY <1>1, LookingBackIsClosed
  <2> HIDE DEF src
  <2> QED BY <1>1, <2>1, <2>2, <2>3, NoFramesFromNothing DEF FromScratch
<1>6. \A f \in LookingBack : Timed(store[f]) /\ Agree(store[f], FromScratch(f, known[f]), known[f])
  BY <1>1, <1>2, <1>5 DEF Agree, SameTo, LookingBack
<1> QED BY <1>1, <1>3, <1>4, <1>6 DEF FeatureInv

(* A row that comes later changes nothing before. *)
LEMMA RowComesLater ==
    ASSUME NEW a, Timed(a), NEW t \in Int, NEW row
    PROVE  Timed(WithRow(a, t, row)) /\ \A k \in Int : k < t => Agree(a, WithRow(a, t, row), k)
<1> DEFINE b == WithRow(a, t, row)
<1>1. /\ DOMAIN b = DOMAIN a \cup {t} /\ \A u \in DOMAIN a : u # t => b[u] = a[u]
      /\ DOMAIN a \in SUBSET Int /\ IsFiniteSet(DOMAIN a)
  BY DEF WithRow, Timed
<1> HIDE DEF b
<1>2. Timed(b)
  BY <1>1, FS_AddElement DEF Timed
<1>3. \A k \in Int : k < t => Agree(a, b, k)
  BY <1>1 DEF Agree, SameTo
<1> QED BY <1>2, <1>3 DEF b

LEMMA SourcesGrow ==
    ASSUME FeatureInv, UNCHANGED <<registry, store, known, torn>>, now' \in Nat, now <= now',
           DOMAIN raw' = Sources, TimedSources',
           \A x \in Sources : \A t \in Int : t <= now => Agree(raw[x], raw'[x], Reach(x, t))
    PROVE  FeatureInv'
<1>1. /\ registry \in Registered /\ now \in Nat /\ TimedSources
      /\ \A f \in FeatureIds : /\ known[f] \in Nat /\ known[f] <= now
                               /\ \A i \in InputsOf(f) \cap FeatureIds : known[f] <= known[i]
      /\ \A f \in LookingBack \ torn : Timed(store[f]) /\ Agree(store[f], FromScratch(f, known[f]), known[f])
  BY DEF FeatureInv
<1>2. /\ FeatureIds' = FeatureIds /\ LookingBack' = LookingBack /\ \A f \in FeatureIds : InputsOf(f)' = InputsOf(f)
  BY DEF FeatureIds, LookingBack, SeesAhead, Below, LooksAhead, InputsOf
<1>3. ASSUME NEW f \in LookingBack \ torn
      PROVE  Timed(store[f]) /\ Agree(store[f], FromScratch(f, known[f])', known[f])
  <2> DEFINE k == known[f]
  <2>1. k \in Int /\ k <= now
    BY <1>1 DEF LookingBack
  <2>2. \A x \in Sources : Agree(raw[x], raw'[x], Reach(x, k))
    BY <2>1
  <2>3. Timed(store[f]) /\ Agree(store[f], FromScratch(f, k), k)
    BY <1>1
  <2>4. \A t \in Int : t = k => Timed(FromScratch(f, t)) /\ Agree(FromScratch(f, t), FromScratch(f, t)', t)
    <3> SUFFICES ASSUME NEW t \in Int, t = k
                 PROVE  Timed(FromScratch(f, t)) /\ Agree(FromScratch(f, t), FromScratch(f, t)', t)
      OBVIOUS
    <3>1. \A x \in Sources : Agree(raw[x], raw'[x], Reach(x, t))
      BY <2>2
    <3> HIDE DEF k
    <3> QED BY <1>1, <3>1, ScratchIsKept
  <2>5. \A t \in Int : t = k => Agree(store[f], FromScratch(f, t)', t)
    <3> SUFFICES ASSUME NEW t \in Int, t = k PROVE Agree(store[f], FromScratch(f, t)', t)
      OBVIOUS
    <3>1. /\ Timed(store[f]) /\ Agree(store[f], FromScratch(f, t), t) /\ Timed(FromScratch(f, t))
          /\ Agree(FromScratch(f, t), FromScratch(f, t)', t)
      BY <2>3, <2>4
    <3> HIDE DEF k
    <3> QED BY <3>1, AgreeRules
  <2>6. FromScratch(f, known[f])' = FramesBy(k)'[f]
    BY DEF FromScratch
  <2>7. \A t \in Int : FromScratch(f, t)' = FramesBy(t)'[f]
    BY DEF FromScratch
  <2> QED BY <2>1, <2>3, <2>5, <2>6, <2>7
<1>4. FeatureIds = DOMAIN store /\ FeatureIds = DOMAIN known
  BY DEF FeatureInv
<1> QED BY <1>1, <1>2, <1>3, <1>4 DEF FeatureInv

(* A computation never knows less than the one before it. *)
LEMMA KnownGrows ==
    ASSUME FeatureInv, NEW f \in FeatureIds, NEW days, Materialize(f, days)
    PROVE  /\ known'[f] \in Nat /\ known[f] <= known'[f] /\ known'[f] <= now
           /\ \A i \in InputsOf(f) \cap FeatureIds : known'[f] <= known[i] /\ i # f
           /\ \A g \in FeatureIds : g # f => known'[g] = known[g]
           /\ DOMAIN known' = FeatureIds
<1> DEFINE below == InputsOf(f) \cap FeatureIds
           K == {known[i] : i \in below}
           g == [i \in below |-> known[i]]
<1>1. /\ DOMAIN known = FeatureIds /\ now \in Nat /\ registry \in Registered
      /\ known[f] \in Nat /\ known[f] <= now /\ \A i \in below : known[i] \in Nat /\ known[f] <= known[i]
  BY DEF FeatureInv
<1>2. known' = [known EXCEPT ![f] = Min({now} \cup K)]
  BY DEF Materialize
<1>3. IsFiniteSet(K)
  <2>1. IsFiniteSet(below)
    <3>1. IsFiniteSet(InputsOf(f))
      BY <1>1, RegisteredInputs DEF InputsOf, FeatureIds
    <3> QED BY <3>1, FS_Subset
  <2>2. DOMAIN g = below /\ K = Range(g)
    BY DEF Range
  <2> HIDE DEF g, K, below
  <2> QED BY <2>1, <2>2, ValuesAreFinite
<1>4. f \notin below
  <2>1. PICK rank : \A h \in DOMAIN registry : /\ rank[h] \in Nat
                                               /\ \A i \in ToSet(registry[h].inputs) \cap DOMAIN registry : rank[i] < rank[h]
    BY <1>1, RegisteredInputs
  <2>2. f \in below => rank[f] < rank[f] /\ rank[f] \in Nat
    BY <2>1 DEF InputsOf, FeatureIds
  <2> QED BY <2>2
<1>5. K \in SUBSET Nat
  BY <1>1
<1> DEFINE U == {now} \cup K
<1> HIDE DEF K
<1>6. U \in SUBSET Int /\ IsFiniteSet(U) /\ U # {}
  BY <1>1, <1>3, <1>5, FS_AddElement
<1> HIDE DEF U
<1>7. Min(U) \in U /\ \A x \in U : Min(U) <= x
  BY <1>6, Extremes
<1>8. known'[f] = Min(U) /\ DOMAIN known' = FeatureIds /\ \A h \in FeatureIds : h # f => known'[h] = known[h]
  BY <1>1, <1>2 DEF U
<1>9. Min(U) \in Nat /\ Min(U) <= now /\ known[f] <= Min(U) /\ \A i \in below : Min(U) <= known[i]
  BY <1>1, <1>5, <1>7 DEF U, K
<1> QED BY <1>4, <1>8, <1>9

LEMMA MaterializedIsScratch ==
    ASSUME FeatureInv, NEW f \in FeatureIds, NEW days, Materialize(f, days), f \in LookingBack, f \notin torn'
    PROVE  Timed(store'[f]) /\ Agree(store'[f], FromScratch(f, known'[f]), known'[f])
<1> DEFINE t == known'[f]
           out == InMemory(f)
           written == {u \in DOMAIN out : u \div Days < days}
           cut == IF written = DOMAIN out THEN 0 ELSE 1
<1>1. /\ registry \in Registered /\ TimedSources /\ DOMAIN raw = Sources /\ DOMAIN store = FeatureIds
      /\ \A g \in FeatureIds : known[g] \in Nat
      /\ \A g \in LookingBack \ torn : Timed(store[g]) /\ Agree(store[g], FromScratch(g, known[g]), known[g])
  BY DEF FeatureInv
<1>2. t \in Int /\ \A i \in InputsOf(f) \cap FeatureIds : t <= known[i]
  BY KnownGrows
<1>3. /\ store' = [store EXCEPT ![f] = [u \in written |-> out[u]]]
      /\ torn' = IF cut = 1 \/ InputsOf(f) \cap torn # {} THEN torn \cup {f} ELSE torn \ {f}
  BY DEF Materialize
<1>4. written = DOMAIN out /\ InputsOf(f) \cap torn = {}
  BY <1>3
<1>5. LooksBackOnly(registry[f]) /\ InputsOf(f) \cap FeatureIds \subseteq LookingBack
  BY <1>1, LookingBackIsClosed DEF LooksBackWithin, InputsOf, FeatureIds
<1>6. ASSUME NEW i \in InputsOf(f) \cap FeatureIds
      PROVE  Timed(store[i]) /\ Timed(FromScratch(i, t)) /\ Agree(store[i], FromScratch(i, t), t)
  <2> DEFINE k == known[i]
  <2>1. i \in LookingBack /\ i \notin torn /\ k \in Int /\ t <= k
    BY <1>1, <1>2, <1>4, <1>5
  <2>2. Timed(store[i]) /\ Agree(store[i], FromScratch(i, k), k)
    BY <1>1, <2>1
  <2> HIDE DEF k, t
  <2>3. Timed(FromScratch(i, k)) /\ Timed(FromScratch(i, t)) /\ Agree(FromScratch(i, k), FromScratch(i, t), t)
    BY <1>1, <1>2, <2>1, ScratchLooksBack
  <2> QED BY <1>2, <2>1, <2>2, <2>3, AgreeRules
<1> HIDE DEF t
<1>7. Timed(InMemory(f)) /\ Agree(InMemory(f), FromScratch(f, t), t)
  BY <1>1, <1>2, <1>5, <1>6, ComputedIsScratch
<1>8. DOMAIN store'[f] = DOMAIN out /\ \A u \in DOMAIN out : store'[f][u] = out[u]
  <2> HIDE DEF out
  <2> QED BY <1>1, <1>3, <1>4
<1> HIDE DEF out
<1>9. Timed(store'[f]) /\ Agree(store'[f], FromScratch(f, t), t)
  BY <1>7, <1>8 DEF Timed, Agree, SameTo, out
<1> QED BY <1>9 DEF t

LEMMA FeatureInvIsKept == FeatureInv /\ [FeatureNext]_featureVars => FeatureInv'
<1> SUFFICES ASSUME FeatureInv, [FeatureNext]_featureVars PROVE FeatureInv'
  OBVIOUS
<1>0. now \in Nat /\ DOMAIN raw = Sources /\ TimedSources
  BY DEF FeatureInv
<1>1. CASE UNCHANGED featureVars
  <2>1. UNCHANGED <<registry, store, known, torn>> /\ now' = now /\ raw' = raw
    BY <1>1 DEF featureVars
  <2>2. DOMAIN raw' = Sources /\ TimedSources' /\ now' \in Nat /\ now <= now'
    BY <1>0, <2>1 DEF TimedSources
  <2>3. \A x \in Sources : \A t \in Int : t <= now => Agree(raw[x], raw'[x], Reach(x, t))
    BY <2>1 DEF Agree, SameTo
  <2> QED BY <2>1, <2>2, <2>3, SourcesGrow
<1>2. CASE Ingest
  <2>1. now' = now + 1 /\ UNCHANGED <<registry, store, known, torn>>
    BY <1>2 DEF Ingest
  <2>2. \A x \in Sources : raw'[x] = raw[x] \/ \E row : raw'[x] = WithRow(raw[x], now, row)
    BY <1>0, <1>2 DEF Ingest, Sources
  <2>3. DOMAIN raw' = Sources
    BY <1>0, <1>2 DEF Ingest
  <2>4. ASSUME NEW x \in Sources
        PROVE  Timed(raw'[x]) /\ \A t \in Int : t <= now => Agree(raw[x], raw'[x], Reach(x, t))
    <3>1. Timed(raw[x])
      BY <1>0 DEF TimedSources
    <3>2. CASE raw'[x] = raw[x]
      BY <3>1, <3>2 DEF Agree, SameTo
    <3>3. CASE raw'[x] # raw[x]
      <4>1. PICK row : raw'[x] = WithRow(raw[x], now, row)
        BY <2>2, <3>3
      <4>2. x \in {"ticks", "other"}
        BY <1>0, <1>2, <3>3 DEF Ingest, Sources
      <4>3. \A t \in Int : t <= now => Reach(x, t) \in Int /\ Reach(x, t) < now
        BY <1>0, <4>2 DEF Reach
      <4> QED BY <1>0, <3>1, <4>1, <4>3, RowComesLater
    <3> QED BY <3>2, <3>3
  <2>5. TimedSources'
    BY <2>4 DEF TimedSources
  <2> QED BY <1>0, <2>1, <2>3, <2>4, <2>5, SourcesGrow
<1>3. ASSUME NEW event \in Calendar, Announce(event) PROVE FeatureInv'
  <2>1. UNCHANGED <<registry, store, known, torn, now>> /\ event.at \in Nat /\ event.at > now
    BY <1>3, CalendarAssumption DEF Announce
  <2>2. /\ DOMAIN raw' = Sources /\ \A x \in Sources : x # "events" => raw'[x] = raw[x]
        /\ raw'["events"] = WithRow(raw["events"], event.at, event)
    BY <1>0, <1>3 DEF Announce, Sources
  <2>3. ASSUME NEW x \in Sources
        PROVE  Timed(raw'[x]) /\ \A t \in Int : t <= now => Agree(raw[x], raw'[x], Reach(x, t))
    <3>1. Timed(raw[x])
      BY <1>0 DEF TimedSources
    <3>2. CASE x # "events"
      BY <2>2, <3>1, <3>2 DEF Agree, SameTo
    <3>3. CASE x = "events"
      <4>1. \A t \in Int : t <= now => Reach(x, t) \in Int /\ Reach(x, t) < event.at
        BY <1>0, <2>1, <3>3 DEF Reach
      <4> QED BY <2>1, <2>2, <3>1, <3>3, <4>1, RowComesLater
    <3> QED BY <3>2, <3>3
  <2>4. TimedSources'
    BY <2>3 DEF TimedSources
  <2>5. now' \in Nat /\ now <= now'
    BY <1>0, <2>1
  <2> QED BY <2>1, <2>2, <2>3, <2>4, <2>5, SourcesGrow
<1>4. ASSUME NEW f \in FeatureIds, NEW days, Materialize(f, days) PROVE FeatureInv'
  <2>1. /\ registry' = registry /\ raw' = raw /\ now' = now
        /\ DOMAIN store' = FeatureIds /\ \A g \in FeatureIds : g # f => store'[g] = store[g]
        /\ \A g \in FeatureIds : g # f => (g \in torn' <=> g \in torn)
    BY <1>4 DEF Materialize, FeatureInv
  <2>2. /\ FeatureIds' = FeatureIds /\ LookingBack' = LookingBack /\ \A g \in FeatureIds : InputsOf(g)' = InputsOf(g)
        /\ TimedSources'
    BY <1>0, <2>1 DEF FeatureIds, LookingBack, SeesAhead, Below, LooksAhead, InputsOf, TimedSources
  <2>3. ASSUME NEW g \in FeatureIds
        PROVE  /\ known'[g] \in Nat /\ known'[g] <= now
               /\ \A i \in InputsOf(g) \cap FeatureIds : known'[g] <= known'[i]
    <3>1. /\ known[g] \in Nat /\ known[g] <= now /\ known[f] \in Nat
          /\ \A i \in InputsOf(g) \cap FeatureIds : known[i] \in Nat /\ known[g] <= known[i]
      BY DEF FeatureInv
    <3>2. /\ known'[f] \in Nat /\ known[f] <= known'[f] /\ known'[f] <= now
          /\ \A i \in InputsOf(f) \cap FeatureIds : known'[f] <= known[i] /\ i # f
          /\ \A h \in FeatureIds : h # f => known'[h] = known[h]
      BY <1>4, KnownGrows
    <3>3. CASE g = f
      BY <3>2, <3>3
    <3>4. CASE g # f
      BY <1>0, <3>1, <3>2, <3>4
    <3> QED BY <3>3, <3>4
  <2>4. ASSUME NEW g \in LookingBack, g \notin torn'
        PROVE  Timed(store'[g]) /\ Agree(store'[g], FromScratch(g, known'[g]), known'[g])
    <3>1. CASE g = f
      BY <1>4, <2>4, <3>1, MaterializedIsScratch
    <3>2. CASE g # f
      <4>1. g \in FeatureIds
        BY DEF LookingBack
      <4>2. store'[g] = store[g] /\ known'[g] = known[g] /\ g \notin torn
        BY <1>4, <2>1, <2>4, <3>2, <4>1, KnownGrows
      <4> QED BY <2>4, <4>2 DEF FeatureInv
    <3> QED BY <3>1, <3>2
  <2>5. ASSUME NEW g \in LookingBack, NEW t
        PROVE  FramesBy(t)' = FramesBy(t)
    BY <2>1, <2>2 DEF FramesBy, SourceBy
  <2>6. ASSUME NEW g \in LookingBack, g \notin torn'
        PROVE  Agree(store[g]', FromScratch(g, known[g])', known[g]')
    BY <2>4, <2>5, <2>6 DEF FromScratch
  <2>7. registry' \in Registered /\ now' \in Nat /\ DOMAIN raw' = Sources /\ DOMAIN known' = FeatureIds
    BY <1>0, <1>4, <2>1, KnownGrows DEF FeatureInv
  <2> QED BY <2>1, <2>2, <2>3, <2>4, <2>6, <2>7 DEF FeatureInv
<1> QED BY <1>1, <1>2, <1>3, <1>4 DEF FeatureNext

-----------------------------------------------------------------------------
(* FeatureServing.RowsAreFinal for every registry, calendar and path: once  *)
(* the sources behind a row were complete, it stays as it is.               *)
THEOREM RowsNeverChange == FeatureSpec => RowsAreFinal
<1>1. ASSUME FeatureInv, [FeatureNext]_featureVars, NEW f \in FeatureIds, ~SeesAhead(f), f \notin torn \cup torn'
      PROVE  UpTo(store'[f], known[f]) = UpTo(store[f], known[f])
  <2>1. CASE store'[f] = store[f]
    BY <2>1
  <2>2. CASE store'[f] # store[f]
    <3>1. PICK g \in FeatureIds, days \in 0..(Horizon \div Days + 2) : Materialize(g, days)
      BY <1>1, <2>2 DEF FeatureNext, Ingest, Announce, featureVars
    <3>2. g = f
      BY <1>1, <2>2, <3>1 DEF Materialize, FeatureInv
    <3> DEFINE k == known[f]
               m == known'[f]
    <3>3. f \in LookingBack /\ k \in Int /\ m \in Int /\ k <= m
      BY <1>1, <3>1, <3>2, KnownGrows DEF LookingBack, FeatureInv
    <3>4. /\ registry \in Registered /\ TimedSources
          /\ Timed(store[f]) /\ Agree(store[f], FromScratch(f, k), k)
      BY <1>1, <3>3 DEF FeatureInv
    <3>5. Timed(store'[f]) /\ Agree(store'[f], FromScratch(f, m), m)
      BY <1>1, <3>1, <3>2, <3>3, MaterializedIsScratch
    <3> HIDE DEF k, m
    <3>6. Timed(FromScratch(f, m)) /\ Timed(FromScratch(f, k)) /\ Agree(FromScratch(f, m), FromScratch(f, k), k)
      BY <3>3, <3>4, ScratchLooksBack
    <3>7. Agree(store'[f], FromScratch(f, k), k)
      BY <3>3, <3>5, <3>6, AgreeRules
    <3>8. Agree(FromScratch(f, k), store[f], k)
      BY <3>3, <3>4, <3>6, AgreeRules
    <3>9. Agree(store'[f], store[f], k)
      BY <3>3, <3>5, <3>6, <3>7, <3>8, AgreeRules
    <3>10. UpTo(store'[f], k) = UpTo(store[f], k)
      BY <3>3, <3>4, <3>5, <3>9, AgreeRules
    <3> QED BY <3>10 DEF k
  <2> QED BY <2>1, <2>2
<1>2. FeatureInv /\ [FeatureNext]_featureVars =>
         [\A f \in FeatureIds : \/ SeesAhead(f) \/ f \in torn \cup torn'
                                \/ UpTo(store'[f], known[f]) = UpTo(store[f], known[f])]_featureVars
  BY <1>1
<1> QED BY <1>2, FeatureInvAtStart, FeatureInvIsKept, PTL DEF FeatureSpec, RowsAreFinal

(* FeatureServing.PanelIsLive: the panel of a backtest is the live query,   *)
(* and both are what the sources gave one latency earlier.                  *)
THEOREM PanelIsServed == FeatureSpec => []PanelIsLive
<1>1. ASSUME FeatureInv PROVE PanelIsLive
  <2> SUFFICES ASSUME NEW f \in FeatureIds \ torn, NEW bar \in 0..Horizon,
                      bar - registry[f].latency <= known[f], ~SeesAhead(f)
               PROVE  LET true == FromScratch(f, bar - registry[f].latency)
                      IN  /\ PanelValue(f, bar) = {true[t] : t \in LastAt(DOMAIN true, bar - registry[f].latency)}
                          /\ ValueAt(f, bar) = PanelValue(f, bar)
    BY Zenon DEF PanelIsLive
  <2> DEFINE late == registry[f].latency
             then == bar - late
             true == FromScratch(f, then)
             S == DOMAIN store[f]
             inTime == {u \in S : ServedAt(f, u) <= bar}
  <2>1. /\ registry \in Registered /\ TimedSources /\ f \in LookingBack /\ known[f] \in Int
        /\ Timed(store[f]) /\ Agree(store[f], FromScratch(f, known[f]), known[f])
    BY <1>1 DEF FeatureInv, LookingBack
  <2>2. late \in Nat /\ bar \in Int /\ then \in Int /\ then <= bar
    <3>1. late \in Nat
      BY <2>1, RegisteredInputs DEF FeatureOk, FeatureIds
    <3>2. bar \in Int
      BY CalendarAssumption
    <3> HIDE DEF late
    <3> QED BY <3>1, <3>2
  <2>3. then <= known[f] /\ S \in SUBSET Int
    BY <2>1 DEF Timed
  <2>4. \A u \in Int : ServedAt(f, u) <= bar <=> u <= then
    <3>1. \A u : ServedAt(f, u) = u + late
      BY DEF ServedAt
    <3> HIDE DEF late
    <3> QED BY <2>2, <3>1
  <2>5. inTime = {u \in S : u <= then}
    BY <2>3, <2>4
  <2> HIDE DEF late, then, S, inTime
  <2>0. \A u : u \in inTime <=> u \in S /\ u \in Int /\ u <= then /\ u <= bar
    <3>1. \A u \in Int : u <= then => u <= bar
      BY <2>2
    <3> QED BY <2>3, <2>5, <3>1
  <2>6. LastAt(inTime, bar) = LastAt(S, then)
    <3>1. \A s : s \in LastAt(inTime, bar) <=> s \in inTime /\ \A u \in inTime : u <= s
      BY <2>0 DEF LastAt
    <3>2. \A s : s \in LastAt(S, then) <=> s \in inTime /\ \A u \in inTime : u <= s
      BY <2>3, <2>5 DEF LastAt
    <3> QED BY <3>1, <3>2
  <2>7. Timed(true) /\ Agree(store[f], true, then)
    <3>1. Timed(FromScratch(f, known[f])) /\ Timed(true) /\ Agree(FromScratch(f, known[f]), true, then)
      BY <2>1, <2>2, <2>3, ScratchLooksBack
    <3> QED BY <2>1, <2>2, <2>3, <3>1, AgreeRules
  <2>8. LastAt(S, then) = LastAt(DOMAIN true, then)
    BY <2>1, <2>2, <2>7, LooksBack DEF Timed, Agree, S
  <2>9. \A t \in LastAt(S, then) : store[f][t] = true[t]
    <3> HIDE DEF true
    <3> QED BY <2>7 DEF Agree, S, LastAt
  <2>10. PanelValue(f, bar) = {true[t] : t \in LastAt(DOMAIN true, then)}
    <3>1. PanelValue(f, bar) = {store[f][t] : t \in LastAt(inTime, bar)}
      BY DEF PanelValue, inTime, S
    <3> HIDE DEF true
    <3> QED BY <2>6, <2>8, <2>9, <3>1
  <2>11. ValueAt(f, bar) = PanelValue(f, bar)
    <3>1. /\ ValueAt(f, bar) = {store[f][t] : t \in LastAt({u \in inTime : u <= bar}, bar)}
          /\ PanelValue(f, bar) = {store[f][t] : t \in LastAt(inTime, bar)}
      BY DEF ValueAt, PanelValue, KnownAt, inTime, S
    <3>2. {u \in inTime : u <= bar} = inTime
      BY <2>0
    <3> QED BY <3>1, <3>2
  <2> QED BY <2>10, <2>11 DEF then, late
<1> QED BY <1>1, FeatureInvAtStart, FeatureInvIsKept, PTL DEF FeatureSpec

(* What both checks tell of a feature whose inputs are whole. *)
LEMMA InputIsScratch ==
    ASSUME FeatureInv, NEW i \in LookingBack, i \notin torn, NEW t \in Int, t <= known[i]
    PROVE  Timed(store[i]) /\ Timed(FromScratch(i, t)) /\ Agree(store[i], FromScratch(i, t), t)
<1> DEFINE k == known[i]
<1>1. /\ registry \in Registered /\ TimedSources /\ k \in Int /\ t <= k
      /\ Timed(store[i]) /\ Agree(store[i], FromScratch(i, k), k)
  BY DEF FeatureInv, LookingBack
<1> HIDE DEF k
<1>2. Timed(FromScratch(i, k)) /\ Timed(FromScratch(i, t)) /\ Agree(FromScratch(i, k), FromScratch(i, t), t)
  BY <1>1, ScratchLooksBack
<1> QED BY <1>1, <1>2, AgreeRules

(* FeatureServing.ValidatedIsTrue for every registry, calendar and path, and *)
(* every number and choice of audited rows.                                 *)
THEOREM ValidatedIsScratch == FeatureSpec => []ValidatedIsTrue
<1>1. ASSUME FeatureInv, NEW f \in FeatureIds, NEW sample \in AuditSamples(f), Validated(f, sample),
             \A i \in InputsOf(f) \cap FeatureIds : i \notin torn /\ ~SeesAhead(i), NEW t \in 0..known[f]
      PROVE  /\ t \in DOMAIN FromScratch(f, t) => t \in DOMAIN store[f]
             /\ t \in (IF LooksAhead(f) THEN sample ELSE DOMAIN store[f])
                    => t \in DOMAIN FromScratch(f, t) /\ store[f][t] = FromScratch(f, t)[t]
  <2> DEFINE r == registry[f]
  <2>1. /\ registry \in Registered /\ TimedSources /\ DOMAIN raw = Sources /\ known[f] \in Int
        /\ \A i \in InputsOf(f) \cap FeatureIds : known[f] <= known[i] /\ known[i] \in Int
    BY <1>1 DEF FeatureInv
  <2>2. t \in Int /\ \A i \in InputsOf(f) \cap FeatureIds : t <= known[i]
    BY <2>1
  <2>3. /\ sample \subseteq DOMAIN store[f] /\ store[f] = InMemory(f)
        /\ \A u \in sample : AuditMatches(f, u)
    BY <1>1 DEF Validated, Reproducible, AuditPasses, AuditSamples, kSubset
  <2>4. \A i \in InputsOf(f) \cap FeatureIds :
           Timed(store[i]) /\ Timed(FromScratch(i, t)) /\ Agree(store[i], FromScratch(i, t), t)
    BY <1>1, <2>2, InputIsScratch DEF LookingBack
  <2>5. CASE LooksBackOnly(r)
    <3>1. Timed(InMemory(f)) /\ Agree(InMemory(f), FromScratch(f, t), t)
      BY <2>1, <2>2, <2>4, <2>5, ComputedIsScratch
    <3>2. /\ t \in DOMAIN FromScratch(f, t) <=> t \in DOMAIN store[f]
          /\ t \in DOMAIN FromScratch(f, t) => store[f][t] = FromScratch(f, t)[t]
      BY <2>2, <2>3, <3>1 DEF Agree, SameTo
    <3> QED BY <2>3, <3>2
  <2>6. CASE ~LooksBackOnly(r)
    <3> DEFINE in == Resolved(f)
               jn == [i \in DOMAIN in |-> UpTo(in[i], t)]
               gn == Inputs(registry, FramesBy(t), f)
               j == r.inputs[2]
    <3>1. /\ DOMAIN r.inputs = 1..2 /\ r.inputs[1] = "events" /\ j \in InputsOf(f)
          /\ j \in FeatureIds \/ j = "events"
          /\ InputsOf(f) \subseteq Sources \cup FeatureIds
      <4>1. r.transform \in {"event_window_flag", "time_to_next_event"}
        BY <2>6 DEF LooksBackOnly
      <4>2. /\ FeatureOk(r) /\ DOMAIN r.inputs = 1..Arity(r.transform)
            /\ \A i \in DOMAIN r.inputs : r.inputs[i] \in Sources \cup FeatureIds /\ r.inputs[i] \in ToSet(r.inputs)
            /\ ToSet(r.inputs) \subseteq Sources \cup FeatureIds
        BY <2>1, RegisteredInputs DEF FeatureIds
      <4>3. Arity(r.transform) = 2
        BY <4>1 DEF Arity
      <4>4. r.inputs[1] = "events" /\ {"ticks", "other"} \cap ToSet(r.inputs) = {}
        BY <4>1, <4>2 DEF FeatureOk
      <4>5. j \in ToSet(r.inputs) /\ j \in Sources \cup FeatureIds
        BY <4>2, <4>3
      <4> QED BY <4>2, <4>3, <4>4, <4>5 DEF InputsOf, Sources
    <3>2. "events" \in Sources /\ FeatureIds \cap Sources = {}
      BY <2>1, RegisteredInputs DEF Sources, FeatureIds
    <3>3. Solves(registry, FramesBy(t), [s \in Sources |-> SourceBy(s, t)])
      BY <2>1, FramesSolve
    <3>4. in[1] = raw["events"] /\ in[2] = Read(j) /\ DOMAIN in = 1..2
      BY <2>1, <3>1, <3>2 DEF Resolved, Read
    <3>5. jn[1] = UpTo(raw["events"], t) /\ jn[2] = UpTo(Read(j), t)
      BY <3>4
    <3>6. gn[1] = UpTo(raw["events"], t) /\ gn[2] = FramesBy(t)[j]
      <4>1. FramesBy(t)["events"] = UpTo(raw["events"], t)
        BY <3>2, <3>3 DEF Solves, Row, SourceBy
      <4>2. gn[1] = FramesBy(t)["events"] /\ gn[2] = FramesBy(t)[j]
        BY <3>1 DEF Inputs
      <4> HIDE DEF gn
      <4> QED BY <4>1, <4>2
    <3>7. FromScratch(f, t) = Transformed(r, gn)
      BY <3>2, <3>3 DEF FromScratch, Solves, Row, FeatureIds
    <3>8. InMemory(f) = Transformed(r, in) /\ Truncated(f, t) = Transformed(r, jn)
      BY DEF InMemory, Truncated
    <3> HIDE DEF in, jn, gn, r
    <3>9. (t \in DOMAIN in[2] <=> t \in DOMAIN jn[2]) /\ (t \in DOMAIN jn[2] <=> t \in DOMAIN gn[2])
      <4>1. t \in DOMAIN in[2] <=> t \in DOMAIN jn[2]
        BY <2>2, <3>4, <3>5 DEF UpTo
      <4>2. CASE j \in FeatureIds
        <5>1. Agree(store[j], FromScratch(j, t), t)
          BY <2>4, <3>1, <4>2
        <5>2. in[2] = store[j] /\ gn[2] = FromScratch(j, t)
          BY <2>1, <3>2, <3>4, <3>6, <4>2 DEF Read, FromScratch
        <5>3. t \in DOMAIN in[2] <=> t \in DOMAIN gn[2]
          BY <2>2, <5>1, <5>2 DEF Agree, SameTo
        <5> QED BY <4>1, <5>3
      <4>3. CASE j = "events"
        <5>1. in[2] = raw["events"] /\ gn[2] = UpTo(raw["events"], t)
          BY <2>1, <3>2, <3>3, <3>4, <3>6, <4>3 DEF Read, Solves, Row, SourceBy
        <5>2. t \in DOMAIN in[2] <=> t \in DOMAIN gn[2]
          BY <2>2, <5>1 DEF UpTo
        <5> QED BY <4>1, <5>2
      <4> QED BY <3>1, <4>2, <4>3
    <3>10. /\ t \in DOMAIN Transformed(r, jn) <=> t \in DOMAIN Transformed(r, gn)
           /\ t \in DOMAIN Transformed(r, jn) => Transformed(r, jn)[t] = Transformed(r, gn)[t]
      BY <2>6, <3>5, <3>6, <3>9, EventsToComeAgree
    <3>11. t \in DOMAIN Transformed(r, jn) => t \in DOMAIN Transformed(r, in)
      <4>1. Timed(in[1]) /\ jn[1] = UpTo(in[1], t)
        BY <2>1, <3>2, <3>4, <3>5 DEF TimedSources
      <4> QED BY <2>2, <2>6, <3>9, <4>1, EventsToComeAdd
    <3>12. t \in sample => t \in DOMAIN Transformed(r, jn) /\ Transformed(r, jn)[t] = store[f][t]
      BY <2>3, <3>8 DEF AuditMatches
    <3>13. LooksAhead(f)
      BY <2>6 DEF LooksAhead, LooksBackOnly, r
    <3> QED BY <2>3, <3>7, <3>8, <3>10, <3>11, <3>12, <3>13
  <2> QED BY <2>5, <2>6
<1>2. FeatureInv => ValidatedIsTrue
  BY <1>1 DEF ValidatedIsTrue
<1> QED BY <1>2, FeatureInvAtStart, FeatureInvIsKept, PTL DEF FeatureSpec

-----------------------------------------------------------------------------
(* Every feature has finitely many rows, at moments. *)
LEMMA EveryFrameIsTimed ==
    ASSUME NEW reg \in Registered, NEW src, NEW h, Solves(reg, h, src), \A x \in Sources : Timed(src[x])
    PROVE  \A f \in DOMAIN reg : Timed(h[f])
<1>1. PICK rank : \A f \in DOMAIN reg : /\ rank[f] \in Nat
                                        /\ \A i \in ToSet(reg[f].inputs) \cap DOMAIN reg : rank[i] < rank[f]
  BY RegisteredInputs
<1> DEFINE P == {n \in Nat : \A f \in DOMAIN reg : rank[f] < n => Timed(h[f])}
<1>2. \A x \in Sources : h[x] = src[x]
  BY DEF Solves, Row
<1>3. DOMAIN reg \cap Sources = {}
  BY RegisteredInputs
<1>4. 0 \in P
  BY <1>1
<1>5. ASSUME NEW n \in Nat, n \in P PROVE n + 1 \in P
  <2>1. ASSUME NEW f \in DOMAIN reg, rank[f] < n + 1 PROVE Timed(h[f])
    <3> DEFINE r == reg[f]
               in == Inputs(reg, h, f)
    <3>1. h[f] = Transformed(r, in)
      BY <1>3 DEF Solves, Row
    <3>2. FeatureOk(r) /\ DOMAIN r.inputs = 1..Arity(r.transform)
      BY RegisteredInputs
    <3>3. ASSUME NEW i \in 1..Arity(r.transform) PROVE Timed(in[i])
      <4> DEFINE j == r.inputs[i]
      <4>1. i \in DOMAIN r.inputs /\ j \in Sources \cup DOMAIN reg /\ j \in ToSet(r.inputs)
        BY <3>3, RegisteredInputs
      <4>2. in[i] = h[j]
        BY <4>1 DEF Inputs
      <4> HIDE DEF j, in, r
      <4>3. CASE j \in Sources
        BY <1>2, <4>2, <4>3
      <4>4. CASE j \notin Sources
        <5>1. j \in DOMAIN reg /\ rank[j] < rank[f] /\ rank[j] \in Nat /\ rank[f] \in Nat
          BY <1>1, <4>1, <4>4 DEF r
        <5>2. rank[j] < n
          BY <2>1, <5>1
        <5> QED BY <1>5, <4>2, <5>1, <5>2
      <4> QED BY <4>3, <4>4
    <3> HIDE DEF in, r
    <3>4. CASE LooksBackOnly(r)
      <4>1. \A i \in 1..Arity(r.transform) : Timed(in[i]) /\ Agree(in[i], in[i], 0)
        BY <3>3 DEF Agree, SameTo
      <4> QED BY <3>1, <3>2, <3>4, <4>1, TransformsLookBack
    <3>5. CASE ~LooksBackOnly(r)
      <4>1. Arity(r.transform) = 2 /\ r.transform \in {"event_window_flag", "time_to_next_event"}
        BY <3>5 DEF LooksBackOnly, Arity
      <4>2. DOMAIN Transformed(r, in) \subseteq DOMAIN in[2]
        BY <4>1 DEF Transformed, EventWindowFlag, TimeToNextEvent, Series
      <4>3. Timed(in[2])
        BY <3>3, <4>1
      <4> QED BY <3>1, <4>2, <4>3, FS_Subset DEF Timed
    <3> QED BY <3>4, <3>5
  <2> QED BY <2>1
<1>6. Nat \subseteq P
  <2> HIDE DEF P
  <2> QED BY <1>4, <1>5, NumberInduction
<1>7. ASSUME NEW f \in DOMAIN reg PROVE Timed(h[f])
  <2>1. rank[f] \in Nat /\ rank[f] + 1 \in P
    <3>1. rank[f] \in Nat
      BY <1>1
    <3> HIDE DEF P
    <3> QED BY <1>6, <3>1
  <2> QED BY <2>1
<1> QED BY <1>7

(* The states of the loop of a pair backtest exist. *)
LEMMA PairStates ==
    ASSUME NEW f, Rows(f) \in SUBSET Int, IsFiniteSet(Rows(f))
    PROVE  \A t \in Rows(f) : AfterRow(f)[t] = OnRow(f, IF RowsBefore(f, t) = {} THEN PairStart
                                                        ELSE AfterRow(f)[Max(RowsBefore(f, t))], t)
<1> DEFINE R == Rows(f)
           step(h, t) == OnRow(f, IF RowsBefore(f, t) = {} THEN PairStart ELSE h[Max(RowsBefore(f, t))], t)
<1>1. \A t \in R : /\ RowsBefore(f, t) \subseteq R /\ \A u \in RowsBefore(f, t) : u < t
                   /\ RowsBefore(f, t) # {} => Max(RowsBefore(f, t)) \in RowsBefore(f, t)
  <2> SUFFICES ASSUME NEW t \in R
               PROVE  /\ RowsBefore(f, t) \subseteq R /\ \A u \in RowsBefore(f, t) : u < t
                      /\ RowsBefore(f, t) # {} => Max(RowsBefore(f, t)) \in RowsBefore(f, t)
    OBVIOUS
  <2> DEFINE B == RowsBefore(f, t)
  <2>1. B \subseteq R /\ \A u \in B : u < t
    BY DEF RowsBefore
  <2> HIDE DEF B
  <2>2. IsFiniteSet(B) /\ B \in SUBSET Int
    BY <2>1, FS_Subset
  <2>3. B # {} => Max(B) \in B
    BY <2>2, Extremes
  <2> QED BY <2>1, <2>3 DEF B
<1> DEFINE Early(n) == {t \in R : t < Min(R) + n}
           P == {n \in Nat : \E h : h = [t \in Early(n) |-> step(h, t)]}
<1> SUFFICES ASSUME R # {}
             PROVE  \A t \in R : AfterRow(f)[t] = step(AfterRow(f), t)
  OBVIOUS
<1>2. Min(R) \in Int /\ Max(R) \in R /\ \A t \in R : Min(R) <= t /\ t <= Max(R)
  <2> HIDE DEF R
  <2> QED BY Extremes DEF R
<1>3. 0 \in P
  <2>1. Early(0) = {}
    BY <1>2
  <2> DEFINE h == [t \in {} |-> 0]
  <2>2. h = [t \in {} |-> step(h, t)]
    <3> HIDE DEF step
    <3> QED OBVIOUS
  <2> HIDE DEF Early, step, h
  <2> QED BY <2>1, <2>2
<1>4. ASSUME NEW n \in Nat, n \in P PROVE n + 1 \in P
  <2>1. PICK h : h = [t \in Early(n) |-> step(h, t)]
    BY <1>4
  <2> DEFINE g == [t \in Early(n + 1) |-> step(h, t)]
  <2>2. Early(n) \subseteq Early(n + 1)
    BY <1>2
  <2>3. \A t \in Early(n) : g[t] = h[t]
    <3> HIDE DEF Early, step
    <3>1. \A t \in Early(n) : h[t] = step(h, t)
      BY <2>1
    <3>2. \A t \in Early(n) : g[t] = step(h, t)
      BY <2>2
    <3> QED BY <3>1, <3>2
  <2>4. ASSUME NEW t \in Early(n + 1) PROVE step(h, t) = step(g, t)
    <3>1. CASE RowsBefore(f, t) = {}
      BY <3>1
    <3>2. CASE RowsBefore(f, t) # {}
      <4> DEFINE m == Max(RowsBefore(f, t))
      <4>1. m \in R /\ m < t /\ t \in Int /\ t < Min(R) + n + 1
        BY <1>1, <1>2, <3>2
      <4> HIDE DEF m
      <4>2. m \in Early(n)
        BY <1>2, <4>1
      <4> HIDE DEF Early, g
      <4>3. g[m] = h[m]
        BY <2>3, <4>2
      <4> QED BY <3>2, <4>3 DEF m
    <3> QED BY <3>1, <3>2
  <2>5. g = [t \in Early(n + 1) |-> step(g, t)]
    <3>1. \A t \in Early(n + 1) : g[t] = step(h, t)
      <4> HIDE DEF Early, step
      <4> QED OBVIOUS
    <3>2. g = [t \in Early(n + 1) |-> g[t]]
      <4> HIDE DEF Early, step
      <4> QED OBVIOUS
    <3> HIDE DEF g, Early, step
    <3> QED BY <2>4, <3>1, <3>2
  <2> HIDE DEF g, Early, step
  <2>6. \E x : x = [t \in Early(n + 1) |-> step(x, t)]
    BY <2>5, Zenon
  <2> QED BY <2>6
<1>5. Nat \subseteq P
  <2> HIDE DEF P
  <2> QED BY <1>3, <1>4, NumberInduction
<1>6. PICK h : h = [t \in R |-> step(h, t)]
  <2> DEFINE n == Max(R) - Min(R) + 1
  <2>1. n \in Nat
    BY <1>2
  <2>2. Early(n) = R
    BY <1>2
  <2>3. n \in P
    <3> HIDE DEF n, P
    <3> QED BY <1>5, <2>1
  <2>4. \E x : x = [t \in Early(n) |-> step(x, t)]
    <3> HIDE DEF n, Early, step
    <3> QED BY <2>3
  <2> HIDE DEF n, Early, step, R
  <2> QED BY <2>2, <2>4
<1>7. AfterRow(f) = CHOOSE g : g = [t \in R |-> step(g, t)]
  BY Zenon DEF AfterRow
<1> HIDE DEF step, R
<1>8. AfterRow(f) = [t \in R |-> step(AfterRow(f), t)]
  BY <1>6, <1>7, Zenon
<1>9. \A t \in R : AfterRow(f)[t] = step(AfterRow(f), t)
  BY <1>8, Zenon
<1> QED BY <1>9

-----------------------------------------------------------------------------
(* The loop of the pair backtest.  Before a row, and after it, the book of  *)
(* trades and the position keep the rules; a pending entry was decided on   *)
(* the row before, a position that is not leaving has rows to go.           *)
PairFields == {"pending", "exit", "entry", "held", "attempts", "date", "trades"}

(* A trade was decided on the row before its entry. *)
DecidedBefore(f, e) ==
    LET prior == Max(RowsBefore(f, e))
    IN  FarOut(f.z[prior].value) /\ RthLow <= f.position[prior].value /\ f.position[prior].value <= RthHigh

EntriesOn(trades, d) == {i \in DOMAIN trades : DateOf(trades[i].entry) = d}
OpenOn(s, d) == IF \E e \in s.entry : DateOf(e) = d THEN 1 ELSE 0
Taken(s, d) == Cardinality(EntriesOn(s.trades, d)) + OpenOn(s, d)

IsSeq(q) == \E S : q \in Seq(S)

(* Trades before a moment. *)
TradesOk(f, trades, end) ==
    /\ IsSeq(trades)
    /\ \A i \in DOMAIN trades :
           /\ trades[i].entry \in Int /\ trades[i].exit \in Int /\ trades[i].entry < end /\ trades[i].exit < end
           /\ trades[i].held <= MaxHolding /\ DecidedBefore(f, trades[i].entry)
           /\ i > 1 => trades[i - 1].exit < trades[i].entry

BookOk(f, s, end) ==
    /\ DOMAIN s = PairFields /\ s.attempts \in Nat /\ s.held \in Nat /\ s.held <= MaxHolding
    /\ TradesOk(f, s.trades, end)
    /\ \A e \in s.entry : /\ e \in Int /\ e < end /\ s.entry = {e} /\ DecidedBefore(f, e)
                          /\ \A i \in DOMAIN s.trades : s.trades[i].exit < e
    /\ \A d : Taken(s, d) <= MaxAttempts
    /\ Taken(s, s.date) <= s.attempts
    /\ s.exit \in BOOLEAN /\ s.pending \in BOOLEAN
    /\ s.exit => s.entry # {}
    /\ s.entry # {} => ~s.pending
    /\ s.entry # {} /\ ~s.exit => s.held < MaxHolding

(* A pending entry, before the row on which it is filled. *)
PendingOk(f, s, t) == s.pending => s.attempts < MaxAttempts /\ DecidedBefore(f, t)

LEMMA OneTradeMore ==
    ASSUME NEW q, IsSeq(q), NEW x
    PROVE  /\ IsSeq(Append(q, x))
           /\ Len(q) \in Nat /\ DOMAIN q = 1..Len(q) /\ DOMAIN Append(q, x) = 1..(Len(q) + 1)
           /\ Append(q, x)[Len(q) + 1] = x /\ \A i \in DOMAIN q : Append(q, x)[i] = q[i]
<1>1. PICK S : q \in Seq(S)
  BY DEF IsSeq
<1> DEFINE T == S \cup {x}
<1>2. q \in Seq(T)
  <2>1. Len(q) \in Nat /\ DOMAIN q = 1..Len(q) /\ \A i \in 1..Len(q) : q[i] \in T
    BY <1>1
  <2> HIDE DEF T
  <2>2. q = [i \in 1..Len(q) |-> q[i]]
    BY <1>1
  <2> QED BY <2>1, <2>2, IsASeq
<1>3. x \in T
  OBVIOUS
<1> HIDE DEF T
<1>4. Append(q, x) \in Seq(T) /\ Len(Append(q, x)) = Len(q) + 1 /\ Len(q) \in Nat
  BY <1>2, <1>3
<1>5. Append(q, x)[Len(q) + 1] = x /\ \A i \in 1..Len(q) : Append(q, x)[i] = q[i]
  BY <1>2, <1>3
<1> QED BY <1>2, <1>4, <1>5 DEF IsSeq

LEMMA EntriesAreFinite ==
    ASSUME NEW q, IsSeq(q), NEW d
    PROVE  IsFiniteSet(EntriesOn(q, d)) /\ Cardinality(EntriesOn(q, d)) \in Nat
<1>1. DOMAIN q = 1..Len(q) /\ Len(q) \in Nat
  BY OneTradeMore
<1>2. IsFiniteSet(1..Len(q))
  BY <1>1, FS_Interval
<1>3. EntriesOn(q, d) \subseteq 1..Len(q)
  BY <1>1 DEF EntriesOn
<1> QED BY <1>2, <1>3, FS_Subset, FS_CardinalityType

(* A day has no entries before its first row. *)
LEMMA LaterDay ==
    ASSUME NEW t \in Int, NEW u \in Int, t <= u
    PROVE  DateOf(t) \in Int /\ DateOf(t) <= DateOf(u)
<1> DEFINE n == Days
           a == t \div n
           b == u \div n
<1>1. n \in Nat \ {0}
  BY CalendarAssumption
<1> HIDE DEF n
<1>2. a \in Int /\ b \in Int /\ t = n * a + (t % n) /\ u = n * b + (u % n) /\ (t % n) \in 0..(n - 1) /\ (u % n) \in 0..(n - 1)
  BY <1>1
<1> HIDE DEF a, b
<1>3. ASSUME b < a PROVE FALSE
  <2>1. b + 1 <= a
    BY <1>2, <1>3
  <2>2. n * (b + 1) <= n * a
    BY <1>1, <1>2, <2>1
  <2>3. n * (b + 1) = (n * b) + n
    BY <1>1, <1>2
  <2> QED BY <1>1, <1>2, <2>2, <2>3
<1> QED BY <1>2, <1>3 DEF DateOf, a, b, n

LEMMA NewDateKeeps ==
    ASSUME NEW f, NEW t \in Int, NEW s, BookOk(f, s, t), PendingOk(f, s, t),
           s.date = DateOf(t) \/ Taken(s, DateOf(t)) = 0
    PROVE  BookOk(f, NewDate(s, t), t) /\ PendingOk(f, NewDate(s, t), t) /\ NewDate(s, t).date = DateOf(t)
<1> DEFINE n == NewDate(s, t)
<1>1. CASE s.date = DateOf(t)
  BY <1>1 DEF NewDate
<1>2. CASE s.date # DateOf(t)
  <2>1. DOMAIN s = PairFields
    BY DEF BookOk
  <2>2. n = [s EXCEPT !.attempts = 0, !.date = DateOf(t)]
    BY <1>2 DEF NewDate
  <2>3. /\ DOMAIN n = PairFields /\ n.attempts = 0 /\ n.date = DateOf(t)
        /\ n.pending = s.pending /\ n.exit = s.exit /\ n.entry = s.entry /\ n.held = s.held /\ n.trades = s.trades
    BY <2>1, <2>2 DEF PairFields
  <2> HIDE DEF n
  <2>4. \A d : Taken(n, d) = Taken(s, d)
    BY <2>3 DEF Taken, OpenOn
  <2>5. Taken(n, n.date) = 0
    BY <1>2, <2>3, <2>4
  <2>6. BookOk(f, n, t)
    <3>1. DOMAIN n = PairFields /\ n.attempts \in Nat /\ n.held \in Nat /\ n.held <= MaxHolding /\ TradesOk(f, n.trades, t)
      BY <2>3 DEF BookOk
    <3>2. \A e \in n.entry : /\ e \in Int /\ e < t /\ n.entry = {e} /\ DecidedBefore(f, e)
                             /\ \A i \in DOMAIN n.trades : n.trades[i].exit < e
      BY <2>3 DEF BookOk
    <3>3. (\A d : Taken(n, d) <= MaxAttempts) /\ Taken(n, n.date) <= n.attempts
      BY <2>3, <2>4, <2>5 DEF BookOk
    <3>4. /\ n.exit \in BOOLEAN /\ n.pending \in BOOLEAN
          /\ n.exit => n.entry # {}
          /\ n.entry # {} => ~n.pending
          /\ n.entry # {} /\ ~n.exit => n.held < MaxHolding
      BY <2>3 DEF BookOk
    <3> QED BY <3>1, <3>2, <3>3, <3>4 DEF BookOk
  <2>7. PendingOk(f, n, t)
    <3>1. s.attempts \in Nat /\ MaxAttempts \in Nat
      BY PairAssumption DEF BookOk
    <3>2. s.attempts < MaxAttempts => 0 < MaxAttempts
      BY <3>1
    <3> QED BY <2>3, <3>2 DEF PendingOk
  <2> QED BY <2>3, <2>6, <2>7 DEF n
<1> QED BY <1>1, <1>2

LEMMA LaterEnd ==
    ASSUME NEW f, NEW s, NEW t \in Int, NEW u \in Int, t <= u, BookOk(f, s, t)
    PROVE  BookOk(f, s, u)
<1>1. TradesOk(f, s.trades, u)
  <2>1. TradesOk(f, s.trades, t)
    BY DEF BookOk
  <2> QED BY <2>1 DEF TradesOk
<1>2. \A e \in s.entry : /\ e \in Int /\ e < u /\ s.entry = {e} /\ DecidedBefore(f, e)
                         /\ \A i \in DOMAIN s.trades : s.trades[i].exit < e
  BY DEF BookOk
<1> QED BY <1>1, <1>2 DEF BookOk

LEMMA FillEntryKeeps ==
    ASSUME NEW f, NEW t \in Int, NEW s, BookOk(f, s, t), PendingOk(f, s, t), s.date = DateOf(t)
    PROVE  BookOk(f, FillEntry(s, t), t + 1) /\ FillEntry(s, t).date = DateOf(t) /\ ~FillEntry(s, t).pending
<1> DEFINE n == FillEntry(s, t)
<1>1. CASE ~s.pending
  BY <1>1, LaterEnd DEF FillEntry
<1>2. CASE s.pending
  <2>1. DOMAIN s = PairFields /\ s.attempts \in Nat /\ s.pending \in BOOLEAN /\ s.exit \in BOOLEAN
        /\ s.entry = {} /\ s.exit = FALSE /\ s.attempts < MaxAttempts /\ DecidedBefore(f, t)
    BY <1>2 DEF BookOk, PendingOk
  <2>2. n = [s EXCEPT !.entry = {t}, !.held = 0, !.pending = FALSE, !.attempts = @ + 1]
    BY <1>2 DEF FillEntry
  <2>3. /\ DOMAIN n = PairFields /\ n.attempts = s.attempts + 1 /\ n.date = s.date
        /\ n.pending = FALSE /\ n.exit = FALSE /\ n.entry = {t} /\ n.held = 0 /\ n.trades = s.trades
    BY <2>1, <2>2 DEF PairFields
  <2> HIDE DEF n
  <2>4. TradesOk(f, s.trades, t) /\ TradesOk(f, s.trades, t + 1)
    <3>1. BookOk(f, s, t + 1)
      BY LaterEnd
    <3> QED BY <3>1 DEF BookOk
  <2>5. \A i \in DOMAIN s.trades : s.trades[i].exit < t
    BY <2>4 DEF TradesOk
  <2>6. \A d : Cardinality(EntriesOn(s.trades, d)) \in Nat
    BY <2>4, EntriesAreFinite DEF TradesOk
  <2>7. \A d : Taken(s, d) = Cardinality(EntriesOn(s.trades, d)) /\ Taken(s, d) \in Nat
    BY <2>1, <2>6 DEF Taken, OpenOn
  <2>8. \A d : Taken(n, d) = IF d = DateOf(t) THEN Taken(s, d) + 1 ELSE Taken(s, d)
    <3>1. \A d : OpenOn(n, d) = IF d = DateOf(t) THEN 1 ELSE 0
      BY <2>3 DEF OpenOn
    <3>2. \A d : Taken(n, d) = Cardinality(EntriesOn(s.trades, d)) + OpenOn(n, d)
      BY <2>3 DEF Taken
    <3> QED BY <2>6, <2>7, <3>1, <3>2
  <2>9. (\A d : Taken(n, d) <= MaxAttempts) /\ Taken(n, n.date) <= n.attempts
    <3>1. (\A d : Taken(s, d) <= MaxAttempts) /\ Taken(s, s.date) <= s.attempts
      BY DEF BookOk
    <3>2. MaxAttempts \in Nat
      BY PairAssumption
    <3> QED BY <2>1, <2>3, <2>7, <2>8, <3>1, <3>2
  <2>10. MaxHolding \in Nat \ {0}
    BY PairAssumption
  <2>11. BookOk(f, n, t + 1)
    <3>1. \A e \in n.entry : /\ e \in Int /\ e < t + 1 /\ n.entry = {e} /\ DecidedBefore(f, e)
                             /\ \A i \in DOMAIN n.trades : n.trades[i].exit < e
      BY <2>1, <2>3, <2>5
    <3>2. DOMAIN n = PairFields /\ n.attempts \in Nat /\ n.held \in Nat /\ n.held <= MaxHolding /\ n.held < MaxHolding
      BY <2>1, <2>3, <2>10
    <3>3. TradesOk(f, n.trades, t + 1)
      BY <2>3, <2>4
    <3>4. n.exit = FALSE /\ n.pending = FALSE
      BY <2>3
    <3> QED BY <2>9, <3>1, <3>2, <3>3, <3>4 DEF BookOk
  <2> QED BY <2>3, <2>11 DEF n
<1> QED BY <1>1, <1>2

(* A position that is closed becomes the last trade. *)
ClosedOk(f, s, n, t) ==
    /\ TradesOk(f, n.trades, t + 1) /\ \A d : Taken(n, d) = Taken(s, d)
    /\ DOMAIN n = PairFields /\ n.entry = {} /\ n.exit = FALSE /\ n.held = 0
    /\ n.pending = s.pending /\ n.attempts = s.attempts /\ n.date = s.date

LEMMA CloseAtKeeps ==
    ASSUME NEW f, NEW t \in Int, NEW s, BookOk(f, s, t + 1), s.entry # {}, NEW column, NEW why
    PROVE  ClosedOk(f, s, CloseAt(f, s, t, column, why), t)
<1> DEFINE n == CloseAt(f, s, t, column, why)
           q == s.trades
           from == Max(s.entry)
           x == [entry |-> from, exit |-> t, held |-> s.held, why |-> why,
                 pnl |-> Result(f, from, f.a[t][column], f.b[t][column])]
<1>1. /\ DOMAIN s = PairFields /\ TradesOk(f, q, t + 1) /\ s.held <= MaxHolding
      /\ \A e \in s.entry : /\ e \in Int /\ e < t + 1 /\ s.entry = {e} /\ DecidedBefore(f, e)
                            /\ \A i \in DOMAIN q : q[i].exit < e
  BY DEF BookOk
<1>2. PICK e \in s.entry : TRUE
  OBVIOUS
<1>3. e \in Int /\ e < t + 1 /\ s.entry = {e} /\ DecidedBefore(f, e) /\ \A i \in DOMAIN q : q[i].exit < e
  BY <1>1, <1>2
<1>4. from = e
  <2>1. IsFiniteSet({e}) /\ {e} \in SUBSET Int /\ {e} # {}
    BY <1>3, FS_Singleton
  <2>2. Max({e}) \in {e}
    BY <2>1, Extremes
  <2> QED BY <1>3, <2>2
<1>5. n = [s EXCEPT !.trades = Append(q, x), !.entry = {}, !.exit = FALSE, !.held = 0]
  BY DEF CloseAt
<1>6. x.entry = from /\ x.exit = t /\ x.held = s.held
  OBVIOUS
<1> HIDE DEF x, from, n
<1>7. /\ DOMAIN n = PairFields /\ n.trades = Append(q, x) /\ n.entry = {} /\ n.exit = FALSE /\ n.held = 0
      /\ n.pending = s.pending /\ n.attempts = s.attempts /\ n.date = s.date
  BY <1>1, <1>5 DEF PairFields
<1> HIDE DEF q
<1>8. /\ IsSeq(q)
      /\ \A i \in DOMAIN q :
             /\ q[i].entry \in Int /\ q[i].exit \in Int /\ q[i].entry < t + 1 /\ q[i].exit < t + 1
             /\ q[i].held <= MaxHolding /\ DecidedBefore(f, q[i].entry)
             /\ i > 1 => q[i - 1].exit < q[i].entry
  BY <1>1 DEF TradesOk
<1> DEFINE p == Append(q, x)
           l == Len(q)
<1>9. /\ IsSeq(p)
      /\ l \in Nat /\ DOMAIN q = 1..l /\ DOMAIN p = 1..(l + 1) /\ p[l + 1] = x /\ \A i \in DOMAIN q : p[i] = q[i]
  <2>1. /\ IsSeq(Append(q, x))
        /\ Len(q) \in Nat /\ DOMAIN q = 1..Len(q) /\ DOMAIN Append(q, x) = 1..(Len(q) + 1)
        /\ Append(q, x)[Len(q) + 1] = x /\ \A i \in DOMAIN q : Append(q, x)[i] = q[i]
    <3> HIDE DEF p, l
    <3>1. IsSeq(q)
      BY <1>8
    <3> QED BY <3>1, OneTradeMore, SMT
  <2> QED BY <2>1, Zenon
<1> HIDE DEF p, l
<1>10. TradesOk(f, p, t + 1)
  <2>1. ASSUME NEW i \in DOMAIN p
        PROVE  /\ p[i].entry \in Int /\ p[i].exit \in Int /\ p[i].entry < t + 1 /\ p[i].exit < t + 1
               /\ p[i].held <= MaxHolding /\ DecidedBefore(f, p[i].entry)
               /\ i > 1 => p[i - 1].exit < p[i].entry
    <3>1. CASE i \in DOMAIN q
      <4>1. i > 1 => i - 1 \in DOMAIN q
        BY <1>9, <3>1
      <4> QED BY <1>8, <1>9, <3>1, <4>1
    <3>2. CASE i = l + 1
      <4>1. i > 1 => i - 1 \in DOMAIN q
        BY <1>9, <3>2
      <4>2. p[i] = x
        BY <1>9, <3>2
      <4>3. i > 1 => p[i - 1].exit < e
        BY <1>3, <1>9, <4>1 DEF q
      <4>4. x.entry = e /\ x.exit = t /\ x.held <= MaxHolding
        BY <1>1, <1>4, <1>6
      <4>5. t < t + 1
        OBVIOUS
      <4> QED BY <1>3, <4>2, <4>3, <4>4, <4>5
    <3> QED BY <1>9, <2>1, <3>1, <3>2
  <2> QED BY <1>9, <2>1 DEF TradesOk
<1>11. ASSUME NEW d PROVE Taken(n, d) = Taken(s, d)
  <2> DEFINE A == EntriesOn(q, d)
             B == EntriesOn(p, d)
  <2>1. IsFiniteSet(A) /\ Cardinality(A) \in Nat
    BY <1>8, EntriesAreFinite
  <2>2. OpenOn(n, d) = 0 /\ OpenOn(s, d) = IF DateOf(e) = d THEN 1 ELSE 0
    BY <1>3, <1>7 DEF OpenOn
  <2>3. Taken(n, d) = Cardinality(B) + OpenOn(n, d) /\ Taken(s, d) = Cardinality(A) + OpenOn(s, d)
    BY <1>7 DEF Taken, p, q
  <2>4. CASE DateOf(e) = d
    <3>1. B = A \cup {l + 1} /\ l + 1 \notin A
      BY <1>4, <1>6, <1>9, <2>4 DEF EntriesOn
    <3> HIDE DEF A, B
    <3>2. Cardinality(B) = Cardinality(A) + 1
      BY <2>1, <3>1, FS_AddElement
    <3> QED BY <2>1, <2>2, <2>3, <2>4, <3>2
  <2>5. CASE DateOf(e) # d
    <3>1. B = A
      BY <1>4, <1>6, <1>9, <2>5 DEF EntriesOn
    <3> HIDE DEF A, B
    <3> QED BY <2>1, <2>2, <2>3, <2>5, <3>1
  <2> QED BY <2>4, <2>5
<1>12. ClosedOk(f, s, n, t)
  BY <1>7, <1>10, <1>11 DEF ClosedOk, p
<1> QED BY <1>12 DEF n

LEMMA FillExitKeeps ==
    ASSUME NEW f, NEW t \in Int, NEW s, BookOk(f, s, t + 1), ~s.pending
    PROVE  LET n == FillExit(f, s, t) IN BookOk(f, n, t + 1) /\ ~n.pending /\ ~n.exit /\ n.date = s.date
<1> DEFINE n == FillExit(f, s, t)
<1>1. CASE s.exit /\ s.entry # {}
  <2>1. n = CloseAt(f, s, t, "open", "signal")
    BY <1>1 DEF FillExit
  <2>2. ClosedOk(f, s, n, t)
    <3>1. \A column, why : ClosedOk(f, s, CloseAt(f, s, t, column, why), t)
      <4>1. s.entry # {}
        BY <1>1
      <4> QED BY <4>1, CloseAtKeeps
    <3> QED BY <2>1, <3>1, Zenon
  <2> HIDE DEF n
  <2>3. s.attempts \in Nat /\ s.pending \in BOOLEAN /\ (\A d : Taken(s, d) <= MaxAttempts) /\ Taken(s, s.date) <= s.attempts
    BY DEF BookOk
  <2>4. 0 \in Nat /\ 0 <= MaxHolding
    BY PairAssumption
  <2>5. BookOk(f, n, t + 1)
    BY <2>2, <2>3, <2>4 DEF BookOk, ClosedOk
  <2>6. ~n.pending /\ ~n.exit /\ n.date = s.date
    BY <2>2 DEF ClosedOk
  <2> QED BY <2>5, <2>6 DEF n
<1>2. CASE ~(s.exit /\ s.entry # {})
  <2>1. n = s /\ ~s.exit
    BY <1>2 DEF FillExit, BookOk
  <2> QED BY <2>1
<1> QED BY <1>1, <1>2

(* The decision on a row counts a row held, or makes an entry pending. *)
LEMMA DecidePairKeeps ==
    ASSUME NEW f, NEW t \in Int, NEW s, BookOk(f, s, t + 1), ~s.pending, ~s.exit
    PROVE  LET n == DecidePair(f, s, t)
           IN  /\ BookOk(f, n, t + 1) /\ n.date = s.date
               /\ n.pending => /\ n.attempts < MaxAttempts /\ FarOut(f.z[t].value)
                               /\ RthLow <= f.position[t].value /\ f.position[t].value <= RthHigh
<1> DEFINE n == DecidePair(f, s, t)
           leave == s.held + 1 >= MaxHolding \/ Reverted(f.z[t].value)
           enter == MayEnter(f, s, t) /\ FarOut(f.z[t].value)
<1>1. /\ DOMAIN s = PairFields /\ s.attempts \in Nat /\ s.held \in Nat /\ s.held <= MaxHolding
      /\ TradesOk(f, s.trades, t + 1)
      /\ \A e \in s.entry : /\ e \in Int /\ e < t + 1 /\ s.entry = {e} /\ DecidedBefore(f, e)
                            /\ \A i \in DOMAIN s.trades : s.trades[i].exit < e
      /\ \A d : Taken(s, d) <= MaxAttempts
      /\ Taken(s, s.date) <= s.attempts
      /\ s.exit = FALSE /\ s.pending = FALSE
      /\ s.entry # {} => s.held < MaxHolding
  BY DEF BookOk
<1>2. MaxHolding \in Nat
  BY PairAssumption
<1>3. CASE s.entry # {}
  <2>1. n = [s EXCEPT !.held = @ + 1, !.exit = leave]
    BY <1>3 DEF DecidePair
  <2>2. leave \in BOOLEAN
    OBVIOUS
  <2>3. ~leave => s.held + 1 < MaxHolding
    BY <1>1, <1>2
  <2> HIDE DEF leave, n
  <2>4. /\ DOMAIN n = PairFields /\ n.trades = s.trades /\ n.entry = s.entry /\ n.exit = leave /\ n.held = s.held + 1
        /\ n.pending = s.pending /\ n.attempts = s.attempts /\ n.date = s.date
    BY <1>1, <2>1 DEF PairFields
  <2>5. \A d : Taken(n, d) = Taken(s, d)
    BY <2>4 DEF Taken, OpenOn
  <2>6. n.held \in Nat /\ n.held <= MaxHolding
    BY <1>1, <1>2, <1>3, <2>4
  <2>7. n.pending = FALSE
    BY <1>1, <2>4
  <2>8. \A e \in n.entry : /\ e \in Int /\ e < t + 1 /\ n.entry = {e} /\ DecidedBefore(f, e)
                           /\ \A i \in DOMAIN n.trades : n.trades[i].exit < e
    BY <1>1, <2>4
  <2>9. BookOk(f, n, t + 1)
    BY <1>1, <1>3, <2>2, <2>3, <2>4, <2>5, <2>6, <2>7, <2>8 DEF BookOk
  <2> QED BY <2>4, <2>7, <2>9 DEF n
<1>4. CASE s.entry = {}
  <2>1. n = [s EXCEPT !.pending = enter]
    BY <1>4 DEF DecidePair
  <2>2. enter \in BOOLEAN
    BY DEF MayEnter, FarOut
  <2>3. enter => /\ s.attempts < MaxAttempts /\ FarOut(f.z[t].value)
                 /\ RthLow <= f.position[t].value /\ f.position[t].value <= RthHigh
    BY DEF MayEnter
  <2> HIDE DEF enter, n
  <2>4. /\ DOMAIN n = PairFields /\ n.trades = s.trades /\ n.entry = s.entry /\ n.exit = s.exit /\ n.held = s.held
        /\ n.pending = enter /\ n.attempts = s.attempts /\ n.date = s.date
    BY <1>1, <2>1 DEF PairFields
  <2>5. \A d : Taken(n, d) = Taken(s, d)
    BY <2>4 DEF Taken, OpenOn
  <2>6. BookOk(f, n, t + 1)
    BY <1>1, <1>4, <2>2, <2>4, <2>5 DEF BookOk
  <2> QED BY <2>3, <2>4, <2>6 DEF n
<1> QED BY <1>3, <1>4

(* After a row; the entry that it leaves pending was decided on it. *)
AfterOk(f, n, t) ==
    /\ BookOk(f, n, t + 1) /\ n.date = DateOf(t)
    /\ n.pending => /\ n.attempts < MaxAttempts /\ FarOut(f.z[t].value)
                    /\ RthLow <= f.position[t].value /\ f.position[t].value <= RthHigh

LEMMA RowKeeps ==
    ASSUME NEW f, NEW t \in Int, NEW s, BookOk(f, s, t), PendingOk(f, s, t),
           s.date = DateOf(t) \/ Taken(s, DateOf(t)) = 0
    PROVE  AfterOk(f, OnRow(f, s, t), t)
<1> DEFINE a == NewDate(s, t)
           b == FillEntry(a, t)
           c == FillExit(f, b, t)
           n == DecidePair(f, c, t)
<1>1. n = OnRow(f, s, t)
  BY DEF OnRow
<1>2. BookOk(f, a, t) /\ PendingOk(f, a, t) /\ a.date = DateOf(t)
  BY NewDateKeeps
<1> HIDE DEF a
<1>3. BookOk(f, b, t + 1) /\ b.date = DateOf(t) /\ ~b.pending
  BY <1>2, FillEntryKeeps
<1> HIDE DEF b
<1>4. BookOk(f, c, t + 1) /\ ~c.pending /\ ~c.exit /\ c.date = b.date
  BY <1>3, FillExitKeeps
<1> HIDE DEF c
<1>5. /\ BookOk(f, n, t + 1) /\ n.date = c.date
      /\ n.pending => /\ n.attempts < MaxAttempts /\ FarOut(f.z[t].value)
                      /\ RthLow <= f.position[t].value /\ f.position[t].value <= RthHigh
  BY <1>4, DecidePairKeeps
<1> HIDE DEF n
<1>6. AfterOk(f, n, t)
  BY <1>3, <1>4, <1>5 DEF AfterOk
<1> QED BY <1>1, <1>6

LEMMA StartIsOk ==
    ASSUME NEW f, NEW t
    PROVE  BookOk(f, PairStart, t) /\ PendingOk(f, PairStart, t) /\ \A d : Taken(PairStart, d) = 0
<1> DEFINE n == PairStart
<1>1. /\ DOMAIN n = PairFields /\ n.pending = FALSE /\ n.exit = FALSE /\ n.entry = {} /\ n.held = 0
      /\ n.attempts = 0 /\ n.trades = << >>
  BY DEF PairStart, PairFields
<1> HIDE DEF n
<1>2. IsSeq(<< >>) /\ DOMAIN << >> = {}
  <2>1. << >> \in Seq({})
    OBVIOUS
  <2> QED BY <2>1 DEF IsSeq
<1>3. \A d : Taken(n, d) = 0
  <2> SUFFICES ASSUME NEW d PROVE Taken(n, d) = 0
    OBVIOUS
  <2>1. EntriesOn(n.trades, d) = {} /\ OpenOn(n, d) = 0
    BY <1>1, <1>2 DEF EntriesOn, OpenOn
  <2> QED BY <2>1, FS_EmptySet DEF Taken
<1>4. TradesOk(f, n.trades, t)
  BY <1>1, <1>2 DEF TradesOk
<1>5. MaxHolding \in Nat \ {0} /\ MaxAttempts \in Nat
  BY PairAssumption
<1>6. BookOk(f, n, t)
  <2>1. n.attempts \in Nat /\ n.held \in Nat /\ n.held <= MaxHolding
    BY <1>1, <1>5
  <2>2. (\A d : Taken(n, d) <= MaxAttempts) /\ Taken(n, n.date) <= n.attempts
    BY <1>1, <1>3, <1>5
  <2> QED BY <1>1, <1>4, <2>1, <2>2 DEF BookOk
<1>7. PendingOk(f, n, t)
  BY <1>1 DEF PendingOk
<1> QED BY <1>3, <1>6, <1>7 DEF n

(* Nothing is taken on a day that comes after. *)
LEMMA NothingTakenYet ==
    ASSUME NEW f, NEW u \in Int, NEW t \in Int, u < t, NEW s, BookOk(f, s, u + 1), DateOf(t) # DateOf(u)
    PROVE  Taken(s, DateOf(t)) = 0
<1>1. DateOf(u) \in Int /\ DateOf(t) \in Int /\ DateOf(u) < DateOf(t)
  BY LaterDay
<1>2. ASSUME NEW e \in Int, e < u + 1 PROVE DateOf(e) # DateOf(t)
  <2>1. DateOf(e) \in Int /\ DateOf(e) <= DateOf(u)
    BY <1>2, LaterDay
  <2> QED BY <1>1, <2>1
<1>3. EntriesOn(s.trades, DateOf(t)) = {}
  BY <1>2 DEF EntriesOn, BookOk, TradesOk
<1>4. OpenOn(s, DateOf(t)) = 0
  BY <1>2 DEF OpenOn, BookOk
<1> QED BY <1>3, <1>4, FS_EmptySet DEF Taken

LEMMA NextRowIsReady ==
    ASSUME NEW f, NEW u \in Int, NEW t \in Int, u < t, NEW s, AfterOk(f, s, u), u = Max(RowsBefore(f, t))
    PROVE  BookOk(f, s, t) /\ PendingOk(f, s, t) /\ (s.date = DateOf(t) \/ Taken(s, DateOf(t)) = 0)
<1>1. BookOk(f, s, u + 1) /\ s.date = DateOf(u)
  BY DEF AfterOk
<1>2. BookOk(f, s, t)
  <2>1. u + 1 \in Int /\ u + 1 <= t
    OBVIOUS
  <2> QED BY <1>1, <2>1, LaterEnd
<1>3. PendingOk(f, s, t)
  BY DEF AfterOk, PendingOk, DecidedBefore
<1>4. s.date = DateOf(t) \/ Taken(s, DateOf(t)) = 0
  BY <1>1, NothingTakenYet
<1> QED BY <1>2, <1>3, <1>4

(* The loop, by the first row after which it would not hold. *)
LEMMA LoopKeeps ==
    ASSUME NEW f, Rows(f) \in SUBSET Int, IsFiniteSet(Rows(f))
    PROVE  \A t \in Rows(f) : AfterOk(f, AfterRow(f)[t], t)
<1> DEFINE R == Rows(f)
           Bad == {t \in R : ~AfterOk(f, AfterRow(f)[t], t)}
<1> SUFFICES ASSUME Bad # {} PROVE FALSE
  OBVIOUS
<1>1. Bad \in SUBSET Int /\ IsFiniteSet(Bad)
  BY FS_Subset
<1>2. Min(Bad) \in Bad /\ \A u \in Bad : Min(Bad) <= u
  <2> HIDE DEF Bad
  <2> QED BY <1>1, Extremes
<1>3. PICK t \in R : ~AfterOk(f, AfterRow(f)[t], t) /\ \A u \in R : u < t => AfterOk(f, AfterRow(f)[u], u)
  <2>1. Min(Bad) \in Int /\ \A u \in R : u \in Int
    BY <1>1, <1>2
  <2>2. \A u \in R : u < Min(Bad) => u \notin Bad
    <3> HIDE DEF Bad, R
    <3> QED BY <1>2, <2>1
  <2> QED BY <1>2, <2>2
<1> DEFINE B == RowsBefore(f, t)
           s == IF B = {} THEN PairStart ELSE AfterRow(f)[Max(B)]
<1>4. t \in Int /\ B \subseteq R /\ \A u \in B : u < t
  BY DEF RowsBefore
<1>5. AfterRow(f)[t] = OnRow(f, s, t)
  BY <1>3, PairStates
<1>6. BookOk(f, s, t) /\ PendingOk(f, s, t) /\ (s.date = DateOf(t) \/ Taken(s, DateOf(t)) = 0)
  <2>1. CASE B = {}
    BY <2>1, StartIsOk
  <2>2. CASE B # {}
    <3>1. B \in SUBSET Int /\ IsFiniteSet(B)
      BY <1>4, FS_Subset
    <3>2. Max(B) \in B
      <4> HIDE DEF B
      <4> QED BY <2>2, <3>1, Extremes
    <3>3. PICK u \in B : u = Max(B)
      BY <3>2
    <3>4. u \in Int /\ u < t /\ AfterOk(f, AfterRow(f)[u], u)
      BY <1>3, <1>4
    <3>5. s = AfterRow(f)[u]
      BY <2>2, <3>3
    <3> HIDE DEF s, R
    <3> QED BY <1>4, <3>3, <3>4, <3>5, NextRowIsReady
  <2> QED BY <2>1, <2>2
<1> HIDE DEF s
<1>7. AfterOk(f, OnRow(f, s, t), t)
  BY <1>4, <1>6, RowKeeps
<1> QED BY <1>3, <1>5, <1>7

(* The trades of a run: those of the loop, and the one that the end closes. *)
LEMMA RunKeeps ==
    ASSUME NEW f, Rows(f) \in SUBSET Int, IsFiniteSet(Rows(f))
    PROVE  LET trades == RunPairs(f)
           IN  /\ \A d : Cardinality(EntriesOn(trades, d)) <= MaxAttempts
               /\ \A i \in DOMAIN trades : /\ trades[i].held <= MaxHolding /\ DecidedBefore(f, trades[i].entry)
                                           /\ i > 1 => trades[i - 1].exit < trades[i].entry
<1> DEFINE R == Rows(f)
           trades == RunPairs(f)
           last == Max(R)
           end == IF R = {} THEN PairStart ELSE AfterRow(f)[last]
           shut == CloseAt(f, end, last, "close", "end")
<1>1. trades = IF end.entry = {} THEN end.trades ELSE shut.trades
  BY DEF RunPairs
<1>2. PICK t \in Int : BookOk(f, end, t + 1) /\ (R # {} => t = last)
  <2>1. CASE R = {}
    <3>1. BookOk(f, PairStart, 0 + 1) /\ 0 \in Int
      BY StartIsOk
    <3> QED BY <2>1, <3>1
  <2>2. CASE R # {}
    <3>1. last \in R
      <4> HIDE DEF R
      <4> QED BY <2>2, Extremes DEF R
    <3>2. last \in Int /\ AfterOk(f, AfterRow(f)[last], last)
      BY <3>1, LoopKeeps
    <3> QED BY <2>2, <3>2 DEF AfterOk
  <2> QED BY <2>1, <2>2
<1>3. R = {} => end.entry = {}
  BY DEF PairStart
<1> HIDE DEF end, R, last
<1>4. TradesOk(f, trades, t + 1) /\ \A d : Cardinality(EntriesOn(trades, d)) <= MaxAttempts
  <2>1. \A d : Taken(end, d) <= MaxAttempts
    BY <1>2 DEF BookOk
  <2>2. CASE end.entry = {}
    <3>1. trades = end.trades /\ TradesOk(f, end.trades, t + 1)
      BY <1>1, <1>2, <2>2 DEF BookOk
    <3>2. \A d : Taken(end, d) = Cardinality(EntriesOn(trades, d)) + 0
      BY <2>2, <3>1 DEF Taken, OpenOn
    <3>3. \A d : Cardinality(EntriesOn(trades, d)) \in Nat
      BY <3>1, EntriesAreFinite DEF TradesOk
    <3> HIDE DEF trades
    <3>4. \A d : Cardinality(EntriesOn(trades, d)) = Taken(end, d)
      BY <3>2, <3>3
    <3> QED BY <2>1, <3>1, <3>4
  <2>3. CASE end.entry # {}
    <3>1. \A column, why : ClosedOk(f, end, CloseAt(f, end, t, column, why), t)
      BY <1>2, <2>3, CloseAtKeeps
    <3>2. t = last
      BY <1>2, <1>3, <2>3
    <3>3. ClosedOk(f, end, shut, t)
      BY <3>1, <3>2, Zenon
    <3> HIDE DEF shut
    <3>4. trades = shut.trades /\ shut.entry = {} /\ TradesOk(f, shut.trades, t + 1) /\ \A d : Taken(shut, d) = Taken(end, d)
      BY <1>1, <2>3, <3>3 DEF ClosedOk
    <3>5. \A d : Taken(shut, d) = Cardinality(EntriesOn(trades, d)) + 0
      BY <3>4 DEF Taken, OpenOn
    <3>6. \A d : Cardinality(EntriesOn(trades, d)) \in Nat
      BY <3>4, EntriesAreFinite DEF TradesOk
    <3> HIDE DEF trades
    <3>7. \A d : Cardinality(EntriesOn(trades, d)) = Taken(end, d)
      BY <3>4, <3>5, <3>6
    <3> QED BY <2>1, <3>4, <3>7
  <2> QED BY <2>2, <2>3
<1> HIDE DEF trades
<1>5. \A i \in DOMAIN trades : /\ trades[i].held <= MaxHolding /\ DecidedBefore(f, trades[i].entry)
                               /\ i > 1 => trades[i - 1].exit < trades[i].entry
  BY <1>4 DEF TradesOk
<1> QED BY <1>4, <1>5 DEF trades

LEMMA FramesAreTimed ==
    ASSUME registry \in Registered, TimedSources, NEW t \in Int, NEW f \in FeatureIds
    PROVE  Timed(FromScratch(f, t))
<1> DEFINE src == [s \in Sources |-> SourceBy(s, t)]
<1>1. Solves(registry, FramesBy(t), src)
  BY FramesSolve
<1>2. \A x \in Sources : Timed(src[x])
  BY SourcesByATime
<1> HIDE DEF src
<1>3. \A g \in DOMAIN registry : Timed(FramesBy(t)[g])
  BY <1>1, <1>2, EveryFrameIsTimed
<1> QED BY <1>3 DEF FromScratch, FeatureIds

(* Pairs.PairRulesHold for every path of prices, thresholds, hours and      *)
(* numbers of attempts and of rows a position is held.                      *)
THEOREM PairsKeepTheRules == FeatureSpec => []PairRulesHold
<1>1. FeatureInv => PairRulesHold
  <2> SUFFICES ASSUME FeatureInv, HasPair PROVE PairRulesHold
    BY DEF PairRulesHold
  <2> DEFINE f == PairFrames(now)
             trades == RunPairs(f)
  <2>1. trades = RunPairs(f)
    OBVIOUS
  <2>2. registry \in Registered /\ TimedSources /\ now \in Int
    BY DEF FeatureInv
  <2>3. Timed(FromScratch("bars", now))
    BY <2>2, FramesAreTimed DEF HasPair
  <2>4. Rows(f) \subseteq DOMAIN FromScratch("bars", now)
    BY DEF Rows, PairFrames
  <2>5. Rows(f) \in SUBSET Int /\ IsFiniteSet(Rows(f))
    <3> HIDE DEF f
    <3> QED BY <2>3, <2>4, FS_Subset DEF Timed
  <2> HIDE DEF f, trades
  <2>6. /\ \A d : Cardinality(EntriesOn(trades, d)) <= MaxAttempts
        /\ \A i \in DOMAIN trades : /\ trades[i].held <= MaxHolding /\ DecidedBefore(f, trades[i].entry)
                                    /\ i > 1 => trades[i - 1].exit < trades[i].entry
    BY <2>1, <2>5, RunKeeps
  <2>7. \A date : Cardinality({i \in DOMAIN trades : DateOf(trades[i].entry) = date}) <= MaxAttempts
    BY <2>6 DEF EntriesOn
  <2>8. \A i \in DOMAIN trades :
           LET x == trades[i]  prior == Max(RowsBefore(f, x.entry))
           IN  /\ x.held <= MaxHolding
               /\ i > 1 => trades[i - 1].exit < x.entry
               /\ FarOut(f.z[prior].value)
               /\ RthLow <= f.position[prior].value /\ f.position[prior].value <= RthHigh
    BY <2>6 DEF DecidedBefore
  <2>9. f = PairFrames(now) /\ trades = RunPairs(f)
    BY <2>1 DEF f
  <2> QED BY <2>7, <2>8, <2>9, Zenon DEF PairRulesHold
<1> QED BY <1>1, FeatureInvAtStart, FeatureInvIsKept, PTL DEF FeatureSpec
=============================================================================
