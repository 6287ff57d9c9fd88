---------------------------- MODULE OptionChain ----------------------------
(***************************************************************************)
(* A day's option chain and the arithmetic of a multi-leg position on it:  *)
(* options/chain.py, chain_io.py, cost_model.py, positions.py, the         *)
(* greeks the strategies read and the management rules of strategy.py.     *)
(* Prices are integers.  A chain is not a variable: it follows from the    *)
(* snapshot, through two tables that any monotone pricing model satisfies. *)
(* One contract a position; commissions and multipliers, which only scale  *)
(* a result, are left out.                                                 *)
(***************************************************************************)
EXTENDS Integers, FiniteSets, FiniteSetsExt, Functions

CONSTANTS
    Strikes,        \* the strikes a chain lists
    Step,           \* the distance of two strikes
    Expiries,       \* the expiry days it lists
    CallDelta,      \* [moneyness in steps -> delta of a call, in percent]
    TimeValue,      \* [distance in steps -> [days -> what time adds to a price]]
    HalfSpread,     \* half of ask - bid
    OffsetPct,      \* spread_offset_fraction, in percent
    ProfitTakePct,  \* ManagementRules.profit_take_pct
    LossStopPct,    \* ManagementRules.loss_stop_pct
    DteClose        \* ManagementRules.dte_close

ASSUME ChainAssumption ==
    /\ Strikes \subseteq Nat \ {0}
    /\ Expiries \subseteq Nat
    /\ {HalfSpread, OffsetPct, DteClose} \subseteq Nat /\ OffsetPct <= 100
    /\ {Step, ProfitTakePct, LossStopPct} \subseteq Nat \ {0}
    /\ DOMAIN TimeValue # {} /\ DOMAIN TimeValue \subseteq Nat
    /\ \A m \in DOMAIN TimeValue :
          DOMAIN TimeValue[m] # {} /\ DOMAIN TimeValue[m] \subseteq Nat /\ Range(TimeValue[m]) \subseteq Nat

ASSUME DeltaAssumption == /\ DOMAIN CallDelta # {} /\ DOMAIN CallDelta \subseteq Int
                          /\ Range(CallDelta) \subseteq Int

Sides == {"call", "put"}

AtLeast(floor, n) == IF n < floor THEN floor ELSE n
Distance(a, b) == IF a < b THEN b - a ELSE a - b

Leg(expiry, strike, side) == [expiry |-> expiry, strike |-> strike, side |-> side]

IntrinsicAt(l, price) == AtLeast(0, IF l.side = "call" THEN price - l.strike ELSE l.strike - price)

(* The two tables at the nearest moneyness and tenor they list. *)
Nearest(n, S) == CHOOSE m \in S : \A x \in S : Distance(n, m) <= Distance(n, x)
Moneyness(l, price) == (l.strike - price) \div Step

Theo(l, day, price) ==
    LET row == TimeValue[Nearest(Distance(0, Moneyness(l, price)), DOMAIN TimeValue)]
    IN  IntrinsicAt(l, price) + row[Nearest(l.expiry - day, DOMAIN row)]

(* The delta of a leg in percent, as its sign and size enter a strategy. *)
DeltaOf(l, day, price) ==
    LET call == CallDelta[Nearest(Moneyness(l, price), DOMAIN CallDelta)]
    IN  IF l.expiry <= day THEN 0 ELSE IF l.side = "call" THEN call ELSE call - 100

(* A snapshot has a quote of every leg that has not expired: gone are       *)
(* strikes the chain does not list that day, dead are strikes it lists      *)
(* without a bid or an ask.                                                 *)
Quote(l, day, price, dead) ==
    [bid |-> IF dead THEN 0 ELSE AtLeast(0, Theo(l, day, price) - HalfSpread),
     ask |-> IF dead THEN 0 ELSE Theo(l, day, price) + HalfSpread,
     delta |-> DeltaOf(l, day, price)]

Snapshot(underlying, day, price, gone, dead) ==
    [underlying |-> underlying, day |-> day, price |-> price,
     quotes |-> [l \in {Leg(e, k, s) : e \in {x \in Expiries : x >= day},
                                       k \in Strikes \ gone, s \in Sides} |->
                    Quote(l, day, price, l.strike \in dead)]]

Legs(snap) == DOMAIN snap.quotes
ForExpiry(snap, expiry, side) == {l \in Legs(snap) : l.expiry = expiry /\ l.side = side}

Contract(l) == Leg(l.expiry, l.strike, l.side)
Bid(snap, l) == snap.quotes[Contract(l)].bid
Ask(snap, l) == snap.quotes[Contract(l)].ask
Delta(snap, l) == snap.quotes[Contract(l)].delta

Mid(snap, l) == LET b == Bid(snap, l)  a == Ask(snap, l)
                IN  IF b <= 0 THEN a ELSE IF a <= 0 THEN b ELSE (a + b) \div 2

(* The price of a fill: the middle moved towards the side that is paid. *)
FillPrice(snap, l, quantity) ==
    LET b == Bid(snap, l)  a == Ask(snap, l)
        offset == ((a - b) * OffsetPct) \div 200
    IN  IF b <= 0 \/ a <= 0 THEN Mid(snap, l)
        ELSE IF quantity > 0 THEN Mid(snap, l) + offset ELSE Mid(snap, l) - offset

-----------------------------------------------------------------------------
(* Orders are sets of legs with their quantities; a position's legs have    *)
(* the prices they were filled at too.                                      *)
OrderLeg(expiry, strike, side, quantity) ==
    [expiry |-> expiry, strike |-> strike, side |-> side, quantity |-> quantity]

(* What the legs pay at expiry if the underlying ends at that price. *)
PayoffAt(legs, price) == SumFunction([l \in legs |-> l.quantity * IntrinsicAt(l, price)])

(* compute_max_loss_per_contract samples the payoff at 0, at each strike, a *)
(* step on either side of it (a cent there) and at twice the highest one.   *)
SamplePrices(legs) == LET K == {l.strike : l \in legs}
                      IN  {0, 2 * Max(K)} \cup K \cup {k - 1 : k \in K} \cup {k + 1 : k \in K}

MaxLoss(legs, credit) ==
    AtLeast(0, - credit - Min({0} \cup {PayoffAt(legs, p) : p \in SamplePrices(legs)}))

ExpiriesOf(legs) == {l.expiry : l \in legs}
DaysToExpiry(legs, day) == Min(ExpiriesOf(legs)) - day

(* The mark of a leg: its middle, or what it would pay if it has no quote. *)
Mark(snap, l) == IF Contract(l) \in Legs(snap) /\ Mid(snap, l) > 0
                 THEN Mid(snap, l) ELSE IntrinsicAt(l, snap.price)

MarkToMarket(snap, legs) == SumFunction([l \in legs |-> l.quantity * (Mark(snap, l) - l.price)])

-----------------------------------------------------------------------------
(* Why a position is to be closed on a snapshot, or "none".  The debit      *)
(* triggers are off unless a caller sets them; they are left out.           *)
DteExit(pos, snap) == DaysToExpiry(pos.legs, snap.day) <= DteClose
ProfitExit(pos, snap) == /\ pos.credit > 0
                         /\ 100 * MarkToMarket(snap, pos.legs) >= ProfitTakePct * pos.credit
LossExit(pos, snap) == /\ pos.credit > 0
                       /\ 100 * MarkToMarket(snap, pos.legs) <= - LossStopPct * pos.credit

ShouldClose(pos, snap) == IF DteExit(pos, snap) THEN "dte_close"
                          ELSE IF ProfitExit(pos, snap) THEN "profit_take"
                          ELSE IF LossExit(pos, snap) THEN "loss_stop" ELSE "none"

(* Fills of an order on a snapshot: none if a leg is not listed or has no   *)
(* price, or if the position could not lose anything.                       *)
Filled(snap, legs) == {[expiry |-> l.expiry, strike |-> l.strike, side |-> l.side,
                        quantity |-> l.quantity,
                        price |-> FillPrice(snap, Contract(l), l.quantity)] : l \in legs}
Credit(legs) == - SumFunction([l \in legs |-> l.quantity * l.price])

Fillable(snap, legs) ==
    /\ \A l \in legs : Contract(l) \in Legs(snap)
    /\ \A l \in Filled(snap, legs) : l.price > 0
    /\ MaxLoss(Filled(snap, legs), Credit(Filled(snap, legs))) > 0

(* The price a leg is closed at: what it would pay if it is not listed. *)
ClosePrice(snap, l) == IF Contract(l) \in Legs(snap) THEN FillPrice(snap, Contract(l), - l.quantity)
                       ELSE IntrinsicAt(l, snap.price)

(* A version that takes what closing pays for the result. *)
ClosedPnlOfClose(snap, pos) == SumFunction([l \in pos.legs |-> l.quantity * ClosePrice(snap, l)])

ClosedPnl(snap, pos) == pos.credit + SumFunction([l \in pos.legs |-> l.quantity * ClosePrice(snap, l)])
=============================================================================
