-------------------------- MODULE MCOptionsBacktest --------------------------
(* Runs of a few days on chains of seven strikes, one unit of time standing *)
(* for fifteen days: every strategy on its own, portfolios with and without *)
(* gates under caps that bind, and two underlyings that move against each   *)
(* other.  On one day the lowest strikes may be gone, or the ones beside    *)
(* the middle without a quote, or one underlying without a snapshot.        *)
(* Sessions of the 0DTE backtest last five units of time, with the futures  *)
(* rolled before, at or after the entry; in one unit all options, the puts  *)
(* or the calls, or the future may not trade.                               *)
EXTENDS OptionsResearch

MCStrikes == {700, 800, 900, 1000, 1100, 1200, 1300}
MCExpiries == {4, 6, 8}

MCCallDelta == (-4 :> 98) @@ (-3 :> 95) @@ (-2 :> 88) @@ (-1 :> 72) @@ (0 :> 50)
               @@ (1 :> 27) @@ (2 :> 13) @@ (3 :> 5) @@ (4 :> 2)

MCTimeValue == 0 :> (0 :> 0 @@ 1 :> 60 @@ 2 :> 90 @@ 3 :> 110 @@ 5 :> 140)
            @@ 1 :> (0 :> 0 @@ 1 :> 30 @@ 2 :> 60 @@ 3 :> 78 @@ 5 :> 105)
            @@ 2 :> (0 :> 0 @@ 1 :> 14 @@ 2 :> 36 @@ 3 :> 50 @@ 5 :> 76)
            @@ 3 :> (0 :> 0 @@ 1 :> 4  @@ 2 :> 20 @@ 3 :> 30 @@ 5 :> 52)
            @@ 4 :> (0 :> 0 @@ 1 :> 0  @@ 2 :> 8  @@ 3 :> 16 @@ 5 :> 34)
            @@ 5 :> (0 :> 0 @@ 1 :> 0  @@ 2 :> 0  @@ 3 :> 4  @@ 5 :> 18)

(* In percent, how likely a price ends at least so many steps from here, on *)
(* either side, in so many days: a market of which these prices are fair.   *)
Tails == 0 :> <<>>
         @@ 1 :> <<30, 16, 10, 4>>
         @@ 2 :> <<30, 24, 16, 12, 8>>
         @@ 3 :> <<32, 28, 20, 14, 12, 4>>
         @@ 5 :> <<35, 29, 24, 18, 16, 12, 6>>
Ends(tail, price) ==
    LET n == Len(tail)
        beyond(i) == IF i > n THEN 0 ELSE tail[i]
        weight(i) == IF i = 0 THEN 100 - 2 * beyond(1) ELSE beyond(i) - beyond(i + 1)
    IN  [s \in {price + 100 * i : i \in -n..n} |-> weight(Distance(s, price) \div 100)]
MCOutlook == [price \in {800, 900, 1000, 1100} |->
                 [days \in 0..8 |-> Ends(Tails[Nearest(days, DOMAIN Tails)], price)]]

(* Volatility rises as the price falls, and more for the low strikes. *)
MCIv == 800  :> (1 :> (-1 :> 46 @@ 0 :> 40 @@ 1 :> 36) @@ 4 :> (-1 :> 36 @@ 0 :> 33 @@ 1 :> 31))
     @@ 1000 :> (1 :> (-1 :> 22 @@ 0 :> 20 @@ 1 :> 18) @@ 4 :> (-1 :> 24 @@ 0 :> 22 @@ 1 :> 21))
MCVix == 800 :> 35 @@ 1000 :> 18

MCPrices == {800, 1000}
MCOther == 800 :> 1100 @@ 1000 :> 900
MCQuirks == {[Sound EXCEPT !.gone = {700, 800}], [Sound EXCEPT !.dead = {900, 1100}],
             [Sound EXCEPT !.absent = {"A"}], [Sound EXCEPT !.absent = {"B"}]}

Bare(id, source) == [id |-> id, base |-> id, gate |-> "none", low |-> 0, high |-> 0, source |-> source]
Gated(gate, base, low, high, source) ==
    [id |-> gate \o "_" \o base, base |-> base, gate |-> gate, low |-> low, high |-> high,
     source |-> source]

Run(runner, book, risk) == [runner |-> runner, book |-> book, risk |-> risk]

Onces ==
    {Run("single", <<Bare(id, "A")>>, FALSE) : id \in BaseIds}
    \cup {Run("single", <<Gated("iv", "pcs", 0, 100, "A")>>, TRUE),
          Run("single", <<Gated("vix", "lizard", 0, 80, "A")>>, FALSE),
          Run("single", <<Gated("vix_open", "ccs", 0, 80, "A")>>, FALSE),
          Run("portfolio", <<Bare("pcs", "A"), Bare("ccs", "A"), Bare("calendar", "A")>>, TRUE),
          Run("portfolio", <<Gated("iv", "strangle", 50, 100, "A"), Bare("strangle", "A")>>, TRUE),
          Run("portfolio", <<Gated("skew", "pcs", 0, 100, "A"), Bare("ccs", "A")>>, FALSE),
          Run("portfolio", <<Gated("slope", "lizard", -10, 10, "A"), Bare("lizard", "A")>>, FALSE),
          Run("multi", <<Bare("pcs", "A"), Bare("ccs", "B")>>, TRUE),
          Run("multi", <<Gated("iv", "butterfly", 0, 100, "A"), Bare("put_diagonal", "B")>>, FALSE)}

Once(s) == [setup |-> s, kind |-> "once", days |-> 5, quirks |-> 1]
WalkForward(runner, book, days, train, test, roll) ==
    [setup |-> Run(runner, book, FALSE), kind |-> "walk_forward", days |-> days, quirks |-> 0,
     train |-> train, test |-> test, roll |-> roll]
Cpcv(book, days, folds, k) ==
    [setup |-> Run("portfolio", book, FALSE), kind |-> "cpcv", days |-> days, quirks |-> 0,
     folds |-> folds, k |-> k]

MCStudies ==
    {Once(s) : s \in Onces}
    \cup {WalkForward("portfolio", <<Gated("iv", "pcs", 0, 100, "A"), Bare("ccs", "A")>>, 7, 3, 3, 1),
          WalkForward("portfolio", <<Gated("skew", "ccs", 0, 100, "A")>>, 5, 1, 3, 1),
          WalkForward("multi", <<Bare("pcs", "A"), Gated("iv", "ccs", 0, 100, "B")>>, 5, 1, 3, 1),
          Cpcv(<<Gated("iv", "ccs", 0, 100, "A")>>, 6, 3, 2),
          Cpcv(<<Bare("pcs", "A"), Bare("calendar", "A")>>, 6, 2, 1)}

ASession(strategy, profit, loss, own, listed, active, rollAt) ==
    [strategy |-> strategy, profit |-> profit, loss |-> loss, own |-> own, listed |-> listed,
     active |-> active, rollAt |-> rollAt]
MCSessions ==
    {ASession(s, {50}, {50}, "new", <<"new">>, "new", r) : s \in {"pcs", "condor"}, r \in {1, 2}}
    \cup {ASession("pcs", {}, {}, "new", <<"new">>, "new", 1)}
    \cup {ASession("condor", {50}, {}, "old", <<"old">>, "old", r) : r \in {2, 3, 6}}
    \cup {ASession("pcs", {}, {50}, "old", <<"new", "old">>, a, 3) : a \in {"old", "new"}}
MCQuiet == {Contracts, {l \in Contracts : l.side = "put"}, {l \in Contracts : l.strike < 900}}
MCTapePrices == {800, 1000}
MCSetups == {s.setup : s \in MCStudies}
=============================================================================
