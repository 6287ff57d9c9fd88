----------------------------- MODULE OptionGates -----------------------------
(***************************************************************************)
(* The wrappers that let a strategy trade only in some volatility:         *)
(* options/strategies/*_gated.py with options/chain_features.py.  The gate *)
(* is "none" for a bare strategy, else its kind, with the bounds of what   *)
(* it lets through; source is the underlying the strategy trades.  Ranks   *)
(* and percentiles are in percent.                                         *)
(***************************************************************************)
EXTENDS OptionStrategies, SequencesExt

CONSTANTS
    Iv,             \* [price -> [days to expiry -> [moneyness -> implied volatility]]]
    Vix,            \* [price -> what the VIX is at it]
    NearDte, FarDte, \* target_dte of the IV and skew gates, and the far tenor
    RankWindow,     \* window_days
    MinHistory      \* min_history_days

ASSUME GateAssumption == {NearDte, FarDte, RankWindow, MinHistory} \subseteq Nat

Sources == <<"A", "B">>
Strategies == [id : STRING, base : BaseIds, source : ToSet(Sources), low : Int, high : Int,
               gate : {"none", "iv", "skew", "slope", "vix", "vix_open"}]

(* The implied volatility of a leg, and the legs that have one and a quote. *)
LegIv(snap, l) ==
    LET tenors == Iv[Nearest(snap.price, DOMAIN Iv)]
        smile == tenors[Nearest(l.expiry - snap.day, DOMAIN tenors)]
    IN  smile[Nearest(Moneyness(l, snap.price), DOMAIN smile)]

LegsAt(snap, e, side) == {l \in ForExpiry(snap, e, side) : Bid(snap, l) > 0 \/ Ask(snap, l) > 0}

(* A measure is the set of its value: empty for NaN. *)
AtmIv(snap, target) ==
    LET at(e, side) == ClosestStrike(LegsAt(snap, e, side), snap.price)
    IN  UNION {{(LegIv(snap, c) + LegIv(snap, p)) \div 2 : c \in at(e, "call"), p \in at(e, "put")} :
               e \in PickExpiry(snap, target)}

TermStructureSlope(snap) == {near - far : near \in AtmIv(snap, NearDte), far \in AtmIv(snap, FarDte)}

PutCallSkew(snap) ==
    LET nearest(legs, target) == FirstNearest(legs, LAMBDA l : Distance(Delta(snap, l), target))
    IN  UNION {{LegIv(snap, p) - LegIv(snap, c) : c \in nearest(LegsAt(snap, e, "call"), 25),
                                                  p \in nearest(LegsAt(snap, e, "put"), -25)} :
               e \in ExpiryFor(snap, NearDte)}

-----------------------------------------------------------------------------
LastOf(s, n) == SubSeq(s, AtLeast(1, Len(s) - n + 1), Len(s))

(* Where a value lies between the least and the greatest of its window. *)
Rank(value, window) ==
    LET values == {m.value : m \in ToSet(window)}  low == Min(values)  high == Max(values)
    IN  IF high <= low THEN {} ELSE {(100 * (value - low)) \div (high - low)}

InBounds(strat, x) == strat.low <= x /\ x <= strat.high

(* What a gate remembers of a snapshot, before it decides anything; the day *)
(* goes with it only for the properties.                                    *)
Measure(strat, snap) == CASE strat.gate = "iv"   -> AtmIv(snap, NearDte)
                          [] strat.gate = "skew" -> PutCallSkew(snap)
                          [] OTHER               -> {}

Remember(strat, snap, seen) ==
    seen \o SetToSeq({[day |-> snap.day, value |-> x] : x \in Measure(strat, snap)})

(* The rank gates: nothing before MinHistory measures, nor in a flat window.*)
RankPasses(strat, snap, seen) ==
    LET now == Remember(strat, snap, seen)
    IN  /\ Measure(strat, snap) # {}
        /\ Len(now) >= MinHistory
        /\ \E r \in Rank(Last(now).value, LastOf(now, RankWindow)) : InBounds(strat, r)

SlopePasses(strat, snap) == \E x \in TermStructureSlope(snap) : InBounds(strat, x)

(* The VIX of the day before, and its percentile among the year up to it.   *)
(* market is the sequence of the prices of the days, the last one today's.  *)
PriorClose(market) == IF Len(market) < 2 THEN {} ELSE {Vix[market[Len(market) - 1]]}

PercentileRank(value, values) ==
    (100 * Len(SelectSeq(values, LAMBDA v : v <= value))) \div Len(values)

VixPasses(strat, market) ==
    \E v \in PriorClose(market) :
        InBounds(strat, PercentileRank(v, [i \in 1..(Len(market) - 1) |-> Vix[market[i]]]))

(* The other source of the gate: the open of the day, here the VIX of the   *)
(* price before, ranked among the closes up to the day's own.               *)
TodayOpenPasses(strat, market) ==
    \E v \in PriorClose(market) :
        InBounds(strat, PercentileRank(v, [i \in 1..Len(market) |-> Vix[market[i]]]))

-----------------------------------------------------------------------------
(* The gates that put their own id on the order of the strategy they wrap.  *)
Retags(strat) == strat.gate \in {"iv", "vix", "vix_open"}
TagOf(strat) == IF strat.gate = "none" \/ Retags(strat) THEN strat.id ELSE strat.base

(* _my_open of the wrapped strategy looks for its own id. *)
HasOpen(base, open) == \E i \in DOMAIN open : open[i].tag = base

GatePasses(strat, snap, seen, market) ==
    CASE strat.gate = "none"           -> TRUE
      [] strat.gate \in {"iv", "skew"} -> RankPasses(strat, snap, seen)
      [] strat.gate = "slope"          -> SlopePasses(strat, snap)
      [] strat.gate = "vix"            -> VixPasses(strat, market)
      [] strat.gate = "vix_open"       -> TodayOpenPasses(strat, market)

(* A version whose strategies do not look at what is open. *)
OnChainStacks(strat, snap, open, seen, market) ==
    {legs \in OrdersOf(strat.base, snap) : GatePasses(strat, snap, seen, market)}

(* on_chain: the orders a strategy may return on a snapshot. *)
OnChain(strat, snap, open, seen, market) ==
    {legs \in OrdersOf(strat.base, snap) :
        GatePasses(strat, snap, seen, market) /\ ~HasOpen(strat.base, open)}
=============================================================================
