------------------------------ MODULE ZeroDte ------------------------------
(***************************************************************************)
(* One session of the 0DTE backtest (options/zero_dte_runner.py) on the    *)
(* bars that databento_chain_io.py reads: minutes in which some contracts  *)
(* traded and the future had a bar or not.  The order is taken at the      *)
(* entry time from the last bar of each contract, looked at every so many  *)
(* minutes, and settled against the future.  Sessions do not know of each  *)
(* other.  The source of the futures holds one contract at a time; before  *)
(* rollAt it is "old", which the options of the day may still be on.       *)
(***************************************************************************)
EXTENDS OptionStrategies, Sequences, SequencesExt

CONSTANTS
    EntryAt, SettleAt,  \* entry_time_utc, settlement_time_utc, in minutes or longer units
    CheckEvery,         \* intraday_check_interval_minutes
    WalkBack,           \* how many bars the lookup walks back
    Basis,              \* price of the new contract above that of the old one
    TapePrices,         \* what the old future may trade at
    Quiet,              \* sets of contracts that may not trade in a minute
    MaxOdd,             \* bound: minutes in which contracts or the future do not trade
    Sessions            \* [strategy, profit, loss, own, listed, active, rollAt]: see below

(* A session has options expiring on it, which are on the future own; its   *)
(* options are on the futures listed, the one of its first leg first; those *)
(* on active trade most; from the minute rollAt on, the source of futures   *)
(* holds the new contract.  profit and loss are sets of the percentage that *)
(* triggers a close, empty for None.                                        *)
ASSUME ZeroDteAssumption ==
    /\ EntryAt \in Nat \ {0} /\ SettleAt \in Nat /\ SettleAt > EntryAt /\ CheckEvery \in Nat \ {0}
    /\ {WalkBack, MaxOdd} \subseteq Nat /\ Basis \in Int /\ TapePrices \subseteq Int
    /\ \A s \in Sessions : /\ s.strategy \in {"pcs", "condor"} /\ s.listed \in Seq({"old", "new"})
                          /\ {s.own, s.active} \subseteq ToSet(s.listed)

(* The closes of a minute leave no arbitrage: a higher strike makes a call  *)
(* cheaper by no more than its distance, and less so the higher it is.  The *)
(* put of a strike has the time value of its call.                          *)
OwnPrices == TapePrices \cup {p + Basis : p \in TapePrices}
ASSUME ArbitrageAssumption ==
    \A price \in OwnPrices, m \in 1..SettleAt, j, k, i, h \in Strikes :
        LET call(strike) == Theo(Leg(SettleAt, strike, "call"), m, price)
        IN  /\ j < k => call(j) - call(k) \in 0..(k - j)
            /\ j < k /\ k <= i /\ i < h => (h - i) * (call(j) - call(k)) >= (k - j) * (call(i) - call(h))

VARIABLES
    session,
    bars,       \* the minutes of the session: [price, quiet, bar]
    stage,      \* "read", "manage", "traded", "skipped" or "unlisted"
    order, credit, checkAt,
    trade       \* the TradeRecord of the session: a set, empty without one

zvars == <<session, bars, stage, order, credit, checkAt, trade>>

Contracts == {Leg(SettleAt, k, s) : k \in Strikes, s \in Sides}

-----------------------------------------------------------------------------
(* The futures: the contract the source holds in a minute, and its price.   *)
SymbolAt(m) == IF m < session.rollAt THEN "old" ELSE "new"
FuturePrice(m) == bars[m].price + IF SymbolAt(m) = "old" THEN 0 ELSE Basis
BarsTo(m) == {i \in 1..m : bars[i].bar}

(* A version that takes the last bar, whichever contract it is of. *)
LookupAny(m, symbol) == IF BarsTo(m) = {} THEN {} ELSE {Max(BarsTo(m))}

(* make_mes_futures_price_lookup: the minute whose bar answers a lookup, or *)
(* none (0.0 in the code).  It walks back over WalkBack bars.               *)
Lookup(m, symbol) ==
    LET near == {i \in BarsTo(m) : /\ Cardinality({j \in BarsTo(m) : j > i}) <= WalkBack
                                   /\ SymbolAt(i) = symbol}
    IN  IF near = {} THEN {} ELSE {Max(near)}
PriceOf(minutes) == IF minutes = {} THEN 0 ELSE Max({FuturePrice(m) : m \in minutes})

-----------------------------------------------------------------------------
(* The last bar of a contract, and its close.                               *)
Traded(m) == Contracts \ bars[m].quiet
LastBar(l, m) == Max({i \in 1..m : Contract(l) \in Traded(i)})
OwnPrice(m) == bars[m].price + IF session.own = "old" THEN 0 ELSE Basis
CloseOf(l, m) == Theo(Contract(l), LastBar(l, m), OwnPrice(LastBar(l, m)))

(* The contracts that expire on the day in the snapshot at the entry, those *)
(* with a price.                                                            *)
SnapshotAtEntry == {l \in UNION {Traded(m) : m \in 1..EntryAt} : CloseOf(l, EntryAt) > 0}

UnderlyingAtEntry == PriceOf(Lookup(EntryAt, session.active))

OnEntry == IF UnderlyingAtEntry <= 0 THEN {}
           ELSE IF session.strategy = "pcs" THEN Mes0dtePcs(SnapshotAtEntry, UnderlyingAtEntry)
           ELSE Mes0dteIronCondor(SnapshotAtEntry, UnderlyingAtEntry)

(* The settlement future is that of the first leg of the snapshot. *)
TargetUnderlying == Head(session.listed)
Settlement == Lookup(SettleAt, TargetUnderlying)

(* A version that takes the bought legs at what they pay. *)
CloseCostBought(legs, m) ==
    - SumFunction([l \in legs |-> IF l.quantity > 0 THEN IntrinsicAt(l, OwnPrice(m)) ELSE l.quantity * CloseOf(l, m)])

(* What the legs cost at their last closes, and at the end. *)
CloseCost(legs, m) == - SumFunction([l \in legs |-> l.quantity * CloseOf(l, m)])
SettleCost(legs) == - PayoffAt(legs, PriceOf(Settlement))

-----------------------------------------------------------------------------
ZeroDteInit ==
    /\ session \in Sessions
    /\ bars = <<>> /\ stage = "read"
    /\ order = {} /\ credit = 0 /\ checkAt = EntryAt /\ trade = {}

Odd(minute) == minute.quiet # {} \/ ~minute.bar

Minute(price, quiet, bar) ==
    /\ stage = "read" /\ Len(bars) < SettleAt
    /\ bars' = Append(bars, [price |-> price, quiet |-> quiet, bar |-> bar])
    /\ Len(SelectSeq(bars', Odd)) <= MaxOdd
    /\ UNCHANGED <<session, stage, order, credit, checkAt, trade>>

DayOver == stage = "read" /\ Len(bars) = SettleAt

(* Without an order or a price at the settlement the session is skipped; a  *)
(* day on which no option of that day traded is not one.                    *)
SkipSession ==
    /\ DayOver
    /\ OnEntry = {} \/ PriceOf(Settlement) <= 0
    /\ stage' = IF \A m \in 1..SettleAt : Traded(m) = {} THEN "unlisted" ELSE "skipped"
    /\ UNCHANGED <<session, bars, order, credit, checkAt, trade>>

Enter ==
    /\ DayOver /\ PriceOf(Settlement) > 0
    /\ order' \in OnEntry
    /\ credit' = CloseCost(order', EntryAt)
    /\ checkAt' = EntryAt + CheckEvery
    /\ stage' = "manage"
    /\ UNCHANGED <<session, bars, trade>>

Checking == /\ stage = "manage" /\ checkAt < SettleAt
            /\ credit > 0 /\ session.profit \cup session.loss # {}

Gain == credit - CloseCost(order, checkAt)
ProfitTaken == \E p \in session.profit : 100 * Gain >= p * credit
LossStopped == \E p \in session.loss : 100 * Gain <= - p * credit

Record(reason, at, cost) ==
    /\ trade' = {[reason |-> reason, at |-> at, legs |-> order, credit |-> credit, cost |-> cost]}
    /\ stage' = "traded"
    /\ UNCHANGED <<session, bars, order, credit, checkAt>>

CheckNothing ==
    /\ Checking /\ ~ProfitTaken /\ ~LossStopped
    /\ checkAt' = checkAt + CheckEvery
    /\ UNCHANGED <<session, bars, stage, order, credit, trade>>

CloseEarly ==
    /\ Checking /\ (ProfitTaken \/ LossStopped)
    /\ Record(IF ProfitTaken THEN "profit_take" ELSE "loss_stop", checkAt, CloseCost(order, checkAt))

Settle ==
    /\ stage = "manage" /\ ~Checking
    /\ Record("settlement", SettleAt, SettleCost(order))

ZeroDteNext ==
    \/ \E price \in TapePrices, quiet \in Quiet \cup {{}}, bar \in BOOLEAN : Minute(price, quiet, bar)
    \/ SkipSession \/ Enter \/ CheckNothing \/ CloseEarly \/ Settle

ZeroDteSpec == ZeroDteInit /\ [][ZeroDteNext]_zvars

-----------------------------------------------------------------------------
(* The legs of an order had their last bars in the same minute. *)
BarsTogether(legs, m) == \A a, b \in legs : LastBar(a, m) = LastBar(b, m)
Width(legs) == - Min({PayoffAt(legs, p) : p \in SamplePrices(legs)})

(* A spread is sold and bought back for nothing less than zero and nothing  *)
(* more than its wings are apart, unless its legs were taken at the closes  *)
(* of different minutes (_snapshot_at_time, _close_cost_per_share_at_ts).   *)
PaidWithinTheWings ==
    \A t \in trade :
        /\ BarsTogether(t.legs, EntryAt) => t.credit \in 0..Width(t.legs)
        /\ (t.reason = "settlement" \/ BarsTogether(t.legs, t.at)) => t.cost \in 0..Width(t.legs)

(* The strikes are chosen by the price of the future that the legs are      *)
(* settled against, and it is their own, unless the snapshot lists options  *)
(* on another one: the first leg's and the most active one's are taken, not *)
(* the order's (target_underlying, most_active_underlying).                 *)
OneFuture ==
    trade # {} =>
        LET used == {SymbolAt(m) : m \in Lookup(EntryAt, session.active) \cup Settlement}
        IN  used = {session.own} \/ Len(session.listed) > 1
=============================================================================
