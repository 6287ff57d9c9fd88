----------------------------- MODULE OptionRisk -----------------------------
(***************************************************************************)
(* The checks an order passes before it is opened: options/risk.py with    *)
(* the realized volatility of chain_features.py.  A log return is measured *)
(* by the difference of two prices, a standard deviation by the variance   *)
(* times the square of the window: only their order matters.               *)
(***************************************************************************)
EXTENDS OptionGates

CONSTANTS
    CapitalCap,     \* max_capital_at_risk_dollars
    ExpiryCap,      \* max_per_expiration_dollars
    SuspendPct,     \* suspend_above_rv_pct, in percent
    RvWindow,       \* rv_window_days
    RvHistory,      \* rv_history_days
    RvMinHistory    \* min_history_for_rv_halt

ASSUME RiskAssumption == /\ {CapitalCap, ExpiryCap, SuspendPct, RvMinHistory} \subseteq Nat
                         /\ {RvWindow, RvHistory} \subseteq Nat \ {0}

Losses(open) == [i \in DOMAIN open |-> open[i].maxLoss]
Reserve(open) == SumFunction(Losses(open))

(* Each expiry of a position is charged with all that it may lose. *)
ReserveOf(open, e) ==
    SumFunctionOnSet(Losses(open), {i \in DOMAIN open : e \in ExpiriesOf(open[i].legs)})
MostOnOneExpiry(pos, open) == Max({ReserveOf(open, e) + pos.maxLoss : e \in ExpiriesOf(pos.legs)})

(* The volatility of each day that has a full window of returns before it.  *)
Spread(rets) == LET sum == FoldSeq(LAMBDA r, t : r + t, 0, rets)
                IN  Len(rets) * FoldSeq(LAMBDA r, t : r * r + t, 0, rets) - sum * sum

RealizedVol(prices) ==
    [i \in 1..AtLeast(0, Len(prices) - RvWindow) |->
        Spread([j \in 1..RvWindow |-> prices[i + j] - prices[i + j - 1]])]

(* Whether today's volatility ranks at the halt among the last ones. *)
TailEvent(prices) ==
    LET window == LastOf(RealizedVol(prices), RvHistory)
        less == SelectSeq(window, LAMBDA v : v < Last(window))
    IN  /\ Len(prices) >= RvMinHistory
        /\ window # <<>>
        /\ 100 * Len(less) >= SuspendPct * Len(window)

(* A version that measures what is open already without the order. *)
EvaluateOpenOnly(pos, open, prices) ==
    IF Reserve(open) > CapitalCap THEN "capital_cap"
    ELSE IF \E e \in ExpiriesOf(pos.legs) : ReserveOf(open, e) > ExpiryCap THEN "per_expiration_cap"
    ELSE IF TailEvent(prices) THEN "tail_event_halt" ELSE "approved"

EvaluateOrder(pos, open, prices) ==
    IF Reserve(open) + pos.maxLoss > CapitalCap THEN "capital_cap"
    ELSE IF MostOnOneExpiry(pos, open) > ExpiryCap THEN "per_expiration_cap"
    ELSE IF TailEvent(prices) THEN "tail_event_halt" ELSE "approved"
=============================================================================
