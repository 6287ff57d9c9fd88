--------------------------- MODULE OptionsBacktest ---------------------------
(***************************************************************************)
(* The daily options backtests: options/runner.py, portfolio_runner.py and *)
(* multi_source_runner.py, which run the same turn on one strategy, on     *)
(* several, and on several underlyings.  A turn closes what the management *)
(* rules say, fills the orders of the day before, then asks the strategies *)
(* for new ones; every position, order and strategy is a step.  The        *)
(* market is any path of prices; a snapshot may list less than the whole   *)
(* chain, and of two sources one may have no snapshot that day.            *)
(***************************************************************************)
EXTENDS OptionRisk

CONSTANTS
    Prices,     \* what the first underlying may trade at
    Other,      \* [price of the first -> price of the second underlying]
    Quirks,     \* what may be wrong with a day: [gone, dead, absent]
    MaxQuirks,  \* bound: days on which something is wrong
    Setups,     \* the runs: [runner, book, risk]
    Outlook,    \* [price -> [days -> [price then -> weight]]]: what prices expect; no step reads it
    Days        \* bound: days of a run

Sound == [gone |-> {}, dead |-> {}, absent |-> {}]

ASSUME BacktestAssumption ==
    /\ {Days, MaxQuirks} \subseteq Nat
    /\ Prices \subseteq Nat \ {0} /\ Other \in [Prices -> Nat \ {0}]
    /\ \A s \in Setups :
        /\ s.runner \in {"single", "portfolio", "multi"} /\ s.risk \in BOOLEAN
        /\ s.book \in Seq(Strategies)
        /\ \A i \in DOMAIN s.book : s.book[i].gate = "none" => s.book[i].id = s.book[i].base
        /\ \A i, j \in DOMAIN s.book : s.book[i].id = s.book[j].id => i = j

(* The prices of a day leave no arbitrage: those of the chain are the means *)
(* of what its legs will pay, all under one outlook.                        *)
Mean(law, l) == SumFunction([s \in DOMAIN law |-> law[s] * IntrinsicAt(l, s)])

ASSUME OutlookAssumption ==
    \A price \in Prices \cup Range(Other), e \in Expiries : \A now \in 0..e :
        LET law == Outlook[price][e - now]
        IN  /\ IsFiniteSet(DOMAIN law) /\ DOMAIN law \subseteq Nat
            /\ Range(law) \subseteq Nat /\ SumFunction(law) > 0
            /\ \A k \in Strikes, side \in Sides :
                  SumFunction(law) * Theo(Leg(e, k, side), now, price) = Mean(law, Leg(e, k, side))

VARIABLES
    setup,      \* the run: which runner, its strategies, whether risk is checked
    day,
    today,      \* [sources with a snapshot of the day -> it]
    phase,      \* what the turn is at: "manage", "fill", "decide" or "done"
    at,         \* the position or the strategy it is at
    open,       \* open_positions
    pending,    \* pending_orders
    seen,       \* [strategy -> the history its gate keeps]
    market,     \* prices of the first underlying
    anchors,    \* snapshot_history: the price of each day's anchor
    trades,     \* closed_trades
    refused,    \* rejected_orders
    perStrategy, \* [strategy id -> its closed and rejected counts]
    perSource,  \* [source -> closed trades on its account]
    crashed,    \* the run ended with a KeyError
    quirks      \* days on which something was wrong

account == <<open, pending, trades, refused, perStrategy, perSource, crashed>>
data == <<setup, day, today, market, anchors, quirks>>
vars == <<data, phase, at, account, seen>>

Ids == {setup.book[i].id : i \in DOMAIN setup.book}

(* The first source with a snapshot, in the order of the sources. *)
AnchorOf(snaps) == snaps[IF "A" \in DOMAIN snaps THEN "A" ELSE "B"]

(* The snapshot a position is marked on: of its underlying, or the anchor. *)
MarkSnapshot(pos) == IF pos.source \in DOMAIN today THEN today[pos.source] ELSE AnchorOf(today)

-----------------------------------------------------------------------------
Init ==
    /\ setup \in Setups
    /\ day = 0 /\ phase = "done" /\ at = 1
    /\ today = <<>> /\ market = <<>> /\ anchors = <<>>
    /\ open = <<>> /\ pending = <<>> /\ trades = <<>> /\ refused = <<>>
    /\ seen = [i \in DOMAIN setup.book |-> <<>>]
    /\ perStrategy = [i \in Ids |-> [closed |-> 0, rejected |-> 0]]
    /\ perSource = [s \in ToSet(Sources) |-> 0]
    /\ crashed = FALSE /\ quirks = 0

SourcesOf(quirk) == IF setup.runner = "multi" THEN ToSet(Sources) \ quirk.absent ELSE {"A"}

NextSnapshot(price, quirk) ==
    /\ phase = "done" /\ ~crashed
    /\ day < Days
    /\ quirk # Sound => quirks < MaxQuirks
    /\ quirk.absent # {} => setup.runner = "multi" /\ SourcesOf(quirk) # {}
    /\ LET snaps == [s \in SourcesOf(quirk) |->
                        Snapshot(s, day + 1, IF s = "A" THEN price ELSE Other[price],
                                 quirk.gone, quirk.dead)]
       IN  /\ today' = snaps
           /\ anchors' = Append(anchors, AnchorOf(snaps).price)
    /\ day' = day + 1
    /\ market' = Append(market, price)
    /\ quirks' = IF quirk = Sound THEN quirks ELSE quirks + 1
    /\ phase' = "manage" /\ at' = 1
    /\ UNCHANGED <<setup, account, seen>>

-----------------------------------------------------------------------------
Keep ==
    /\ phase = "manage" /\ ~crashed /\ at <= Len(open)
    /\ ShouldClose(open[at], MarkSnapshot(open[at])) = "none"
    /\ at' = at + 1
    /\ UNCHANGED <<data, phase, account, seen>>

Trade(pos, snap, reason) ==
    [tag |-> pos.tag, source |-> pos.source, legs |-> pos.legs, credit |-> pos.credit,
     reserve |-> pos.maxLoss, pnl |-> ClosedPnl(snap, pos), reason |-> reason,
     quoted |-> \A l \in pos.legs : Contract(l) \in Legs(snap) /\ Mid(snap, l) > 0,
     present |-> pos.source \in DOMAIN today]

(* A version that books the trade of a source without a snapshot on the     *)
(* source it was marked on.                                                 *)
BookOnAnchor(pos) == [perSource EXCEPT ![MarkSnapshot(pos).underlying] = @ + 1]

(* The trade goes to its source's account if that source has a snapshot.    *)
BookOnSource(pos) == IF pos.source \in DOMAIN today THEN [perSource EXCEPT ![pos.source] = @ + 1]
                     ELSE perSource

(* Closing: the portfolio runners then look the tag up among the ids.       *)
Close ==
    /\ phase = "manage" /\ ~crashed /\ at <= Len(open)
    /\ LET pos == open[at]
           reason == ShouldClose(pos, MarkSnapshot(pos))
           lost == setup.runner # "single" /\ pos.tag \notin Ids
       IN  /\ reason # "none"
           /\ open' = RemoveAt(open, at)
           /\ trades' = Append(trades, Trade(pos, MarkSnapshot(pos), reason))
           /\ crashed' = lost
           /\ IF lost \/ setup.runner = "single" THEN UNCHANGED <<perStrategy, perSource>>
              ELSE /\ perStrategy' = [perStrategy EXCEPT ![pos.tag].closed = @ + 1]
                   /\ perSource' = IF setup.runner = "multi" THEN BookOnSource(pos) ELSE perSource
    /\ UNCHANGED <<data, phase, at, pending, refused, seen>>

ManageDone ==
    /\ phase = "manage" /\ ~crashed /\ at > Len(open)
    /\ phase' = "fill"
    /\ UNCHANGED <<data, at, account, seen>>

-----------------------------------------------------------------------------
Position(order, snap) ==
    LET legs == Filled(snap, order.legs)
    IN  [tag |-> order.tag, source |-> order.source, legs |-> legs, credit |-> Credit(legs),
         maxLoss |-> MaxLoss(legs, Credit(legs))]

(* What becomes of an order: opened, or why it is refused. *)
Verdict(order) ==
    IF order.source \notin DOMAIN today THEN "no_snapshot"
    ELSE IF ~Fillable(today[order.source], order.legs) THEN "unfillable_at_next_snap"
    ELSE IF ~setup.risk THEN "approved"
    ELSE EvaluateOrder(Position(order, today[order.source]), open, anchors)

Fill ==
    /\ phase = "fill" /\ pending # <<>>
    /\ Verdict(Head(pending)) = "approved"
    /\ open' = Append(open, Position(Head(pending), today[Head(pending).source]))
    /\ pending' = Tail(pending)
    /\ UNCHANGED <<data, phase, at, trades, refused, perStrategy, perSource, crashed, seen>>

(* A refusal for want of a snapshot is on no strategy's account. *)
Reject ==
    /\ phase = "fill" /\ pending # <<>>
    /\ LET order == Head(pending)
           why == Verdict(order)
       IN  /\ why # "approved"
           /\ refused' = Append(refused, [strat |-> order.strat, reason |-> why])
           /\ perStrategy' = IF setup.runner = "single" \/ why = "no_snapshot" THEN perStrategy
                             ELSE [perStrategy EXCEPT ![order.strat].rejected = @ + 1]
    /\ pending' = Tail(pending)
    /\ UNCHANGED <<data, phase, at, open, trades, perSource, crashed, seen>>

FillDone ==
    /\ phase = "fill" /\ pending = <<>>
    /\ phase' = "decide" /\ at' = 1
    /\ UNCHANGED <<data, account, seen>>

-----------------------------------------------------------------------------
(* A strategy's turn, on the snapshot of its source; the gate remembers it. *)
Decide ==
    /\ phase = "decide" /\ at <= Len(setup.book)
    /\ setup.book[at].source \in DOMAIN today
    /\ LET strat == setup.book[at]
           snap == today[strat.source]
           orders == OnChain(strat, snap, open, seen[at], market)
       IN  /\ seen' = [seen EXCEPT ![at] = Remember(strat, snap, @)]
           /\ \/ /\ orders = {}
                 /\ UNCHANGED pending
              \/ \E legs \in orders :
                    /\ pending' = Append(pending, [strat |-> strat.id, tag |-> TagOf(strat),
                                                   source |-> strat.source, legs |-> legs])
    /\ at' = at + 1
    /\ UNCHANGED <<data, phase, open, trades, refused, perStrategy, perSource, crashed>>

Skip ==
    /\ phase = "decide" /\ at <= Len(setup.book)
    /\ setup.book[at].source \notin DOMAIN today
    /\ at' = at + 1
    /\ UNCHANGED <<data, phase, account, seen>>

DayDone ==
    /\ phase = "decide" /\ at > Len(setup.book)
    /\ phase' = "done"
    /\ UNCHANGED <<data, at, account, seen>>

Next ==
    \/ \E price \in Prices, quirk \in Quirks \cup {Sound} : NextSnapshot(price, quirk)
    \/ Keep \/ Close \/ ManageDone
    \/ Fill \/ Reject \/ FillDone
    \/ Decide \/ Skip \/ DayDone

Spec == Init /\ [][Next]_vars

-----------------------------------------------------------------------------
(* The most crossing the spread can cost, leg by leg. *)
Crossing(legs) == SumFunction([l \in legs |-> AtLeast(- l.quantity, l.quantity) * HalfSpread])
BestPayoff(legs) == Max({PayoffAt(legs, p) : p \in SamplePrices(legs)})

(* A trade loses no more than was reserved for it and earns no more than    *)
(* its legs can ever pay, the crossing of the spread apart, unless one of   *)
(* its legs had no quote, its legs expire on different days, or its own     *)
(* underlying had no snapshot (_close_position, compute_max_loss).          *)
ClosesAtAPossiblePrice ==
    \A i \in DOMAIN trades :
        LET t == trades[i]
        IN  (t.quoted /\ t.present /\ Cardinality(ExpiriesOf(t.legs)) = 1)
            => /\ - t.pnl <= t.reserve + Crossing(t.legs)
               /\ t.pnl <= t.credit + BestPayoff(t.legs) + Crossing(t.legs)

(* A strategy has one position at a time: more are open under a tag than    *)
(* strategies use it only if a gate put its own id on the orders, so that   *)
(* the strategy behind it does not find them (_my_open, replace(tag=)).     *)
OnlyReTaggedStack ==
    \A i \in DOMAIN open :
        LET users == {j \in DOMAIN setup.book : TagOf(setup.book[j]) = open[i].tag}
        IN  \/ Cardinality({k \in DOMAIN open : open[k].tag = open[i].tag}) <= Cardinality(users)
            \/ \E j \in users : Retags(setup.book[j])

(* What is open never puts more at risk than the caps, in all and on any    *)
(* one expiry, however many orders are filled on the same snapshot          *)
(* (RiskManager.evaluate_order in the fill loop).                           *)
CapsHold ==
    setup.risk => /\ Reserve(open) <= CapitalCap
                  /\ \A e \in Expiries : ReserveOf(open, e) <= ExpiryCap

(* Each trade is on one strategy's account and on its underlying's, if that *)
(* had a snapshot; a run ends early only by a trade whose tag a wrapper     *)
(* left to a strategy that is not in the run (per_strategy, per_source).    *)
BooksAgree ==
    LET closed == [i \in Ids |-> perStrategy[i].closed]
        mine(s) == {i \in DOMAIN trades : trades[i].source = s /\ trades[i].present}
    IN  IF crashed THEN \E j \in DOMAIN setup.book : setup.book[j].gate \in {"skew", "slope"}
        ELSE /\ setup.runner # "single" => SumFunction(closed) = Len(trades)
             /\ setup.runner = "multi" => \A s \in ToSet(Sources) : perSource[s] = Cardinality(mine(s))
=============================================================================
