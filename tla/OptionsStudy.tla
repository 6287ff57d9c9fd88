---------------------------- MODULE OptionsStudy ----------------------------
(***************************************************************************)
(* What the commands make of the daily backtests: one run over the whole   *)
(* coverage, a walk-forward (options/walk_forward.py and the one of        *)
(* multi_source_runner.py) or a cross-validation (options/cpcv.py).  The   *)
(* runs of a study go through the same prices again and again; each starts *)
(* with an empty book, but with the strategies the run before it used, and *)
(* so with what their gates remember.                                      *)
(***************************************************************************)
EXTENDS OptionsBacktest, Windows

CONSTANTS
    Studies,    \* what is run: [setup, kind, days, quirks, and the kind's parameters]
    MaxSharpe   \* bound: Sharpe ratios are at most this, in tenths

ASSUME StudyAssumption ==
    \A s \in Studies :
        /\ s.setup \in Setups /\ s.days \in 1..Days /\ s.quirks \in 0..MaxQuirks
        /\ s.kind \in {"once", "walk_forward", "cpcv"}
        /\ s.kind = "walk_forward" => {s.train, s.test, s.roll} \subseteq Nat \ {0}
                                      /\ s.roll <= s.train + s.test
        /\ s.kind = "cpcv" => s.folds \in Nat /\ s.k \in 1..(s.folds - 1)
ASSUME SharpeAssumption == MaxSharpe \in Nat

VARIABLES
    study,
    plan,       \* its runs, in their order
    runNo,      \* the run of its plan that is on
    tape,       \* the days as they were first read
    results,    \* for each run that has ended, the results of its trades
    verdict     \* "open", "passed" or "failed"

studyVars == <<study, plan, runNo, tape, results, verdict>>
allVars == <<vars, studyVars>>

-----------------------------------------------------------------------------
(* Dates are midnights, two units of time apart, and a snapshot lies        *)
(* between two of them: day d is at time 2 * d, coverage is 1 .. 2*days+1.  *)
(* iter_chain_snapshots takes the snapshots from one time to another, both  *)
(* included; times are multiplied by n where folds end between two dates.   *)
DaysIn(interval, n, days) == {d \in 1..days : interval[1] <= 2 * d * n /\ 2 * d * n <= interval[2]}

ARun(part, interval, n, days) == [part |-> part, on |-> DaysIn(interval, n, days)]

(* Each window is run on its training days, then on its test days. *)
WalkForwardRuns(s) ==
    LET windows == SplitWindows(1, 2 * s.days + 1, 2 * s.train, 2 * s.test, 2 * s.roll)
        train(w) == ARun("train", <<w.train, w.test>>, 1, s.days)
        test(w) == ARun("test", <<w.test, w.end>>, 1, s.days)
    IN  [i \in 1..(2 * Len(windows)) |->
            IF i % 2 = 1 THEN train(windows[(i + 1) \div 2]) ELSE test(windows[i \div 2])]

(* A version without the cache: a fold is run again for each path it is on. *)
CpcvRunsUncached(s) ==
    LET folds == SplitFolds(1, 2 * s.days + 1, s.folds)
        used == FlattenSeq(Paths(s.folds, s.k))
    IN  [i \in DOMAIN used |-> ARun("fold", folds[used[i]], s.folds, s.days)]

(* Folds are run when the first path needs them, and never again. *)
CpcvRuns(s) ==
    LET folds == SplitFolds(1, 2 * s.days + 1, s.folds)
        paths == Paths(s.folds, s.k)
        needed(f) == Min({p \in DOMAIN paths : f \in ToSet(paths[p])})
        sooner(f, g) == needed(f) < needed(g) \/ (needed(f) = needed(g) /\ f < g)
        first == InOrder(1..s.folds, sooner)
    IN  [i \in DOMAIN first |-> ARun("fold", folds[first[i]], s.folds, s.days)]

Plan(s) == CASE s.kind = "once"         -> <<[part |-> "once", on |-> 1..s.days]>>
             [] s.kind = "walk_forward" -> WalkForwardRuns(s)
             [] s.kind = "cpcv"         -> CpcvRuns(s)

-----------------------------------------------------------------------------
(* The Sharpe ratio of the trades of a run, none of two alike trades. *)
TradeDollarSharpe(pnls) ==
    LET n == Len(pnls)
        sum == SumOf(pnls)
        spread == n * SumOf([i \in DOMAIN pnls |-> pnls[i] * pnls[i]]) - sum * sum
        square == (100 * sum * sum * (n - 1) + n * spread - 1) \div (n * spread)
        size == Min({r \in 1..MaxSharpe : r * r >= square} \cup {MaxSharpe})
    IN  IF n < 2 \/ spread = 0 \/ sum = 0 THEN 0 ELSE IF sum > 0 THEN size ELSE - size

(* Those of the runs on the training or on the test days. *)
SharpesOf(part, done) == [i \in {j \in DOMAIN plan : plan[j].part = part} |-> TradeDollarSharpe(done[i])]

(* A path's trades are those of its folds, one after the other. *)
PathTrades(done) ==
    LET paths == Paths(study.folds, study.k)
    IN  [p \in DOMAIN paths |-> FlattenSeq([j \in DOMAIN paths[p] |-> done[paths[p][j]]])]

PathsTraded(done) == {p \in DOMAIN PathTrades(done) : PathTrades(done)[p] # <<>>}
CpcvSharpes(done) == [p \in PathsTraded(done) |-> TradeDollarSharpe(PathTrades(done)[p])]

StudyVerdict(done) ==
    CASE study.kind = "once" -> "open"
      [] study.kind = "walk_forward" ->
            IF WalkForwardPasses(SharpesOf("train", done), SharpesOf("test", done)) THEN "passed" ELSE "failed"
      [] study.kind = "cpcv" -> IF CpcvPasses(CpcvSharpes(done)) THEN "passed" ELSE "failed"

-----------------------------------------------------------------------------
StudyInit ==
    /\ Init
    /\ study \in {s \in Studies : s.setup = setup}
    /\ plan = Plan(study)
    /\ runNo = 1 /\ tape = <<>> /\ results = <<>> /\ verdict = "open"

OnPlan == runNo \in DOMAIN plan

(* The next day of the run: as it was read before, or for the first time.   *)
ReadDay ==
    /\ OnPlan /\ day + 1 \in plan[runNo].on
    /\ \/ /\ day < Len(tape)
          /\ NextSnapshot(tape[day + 1].price, tape[day + 1].quirk)
          /\ UNCHANGED tape
       \/ /\ day = Len(tape)
          /\ \E price \in Prices, quirk \in Quirks \cup {Sound} :
                /\ quirk # Sound => Cardinality({d \in DOMAIN tape : tape[d].quirk # Sound}) < study.quirks
                /\ NextSnapshot(price, quirk)
                /\ tape' = Append(tape, [price |-> price, quirk |-> quirk])
    /\ UNCHANGED <<study, plan, runNo, results, verdict>>

WithinTheRun ==
    /\ Keep \/ Close \/ ManageDone \/ Fill \/ Reject \/ FillDone \/ Decide \/ Skip \/ DayDone
    /\ UNCHANGED studyVars

(* A run starts on an empty book the day before its first one. *)
StartRun(run) ==
    LET from == IF run.on = {} THEN day ELSE Min(run.on) - 1
    IN  /\ day' = from
        /\ market' = [d \in 1..from |-> tape[d].price]
        /\ anchors' = <<>> /\ today' = <<>>
        /\ open' = <<>> /\ pending' = <<>> /\ trades' = <<>> /\ refused' = <<>>
        /\ perStrategy' = [i \in Ids |-> [closed |-> 0, rejected |-> 0]]
        /\ perSource' = [s \in ToSet(Sources) |-> 0]
        /\ quirks' = 0

(* A run has read its last day: its trades are kept, what is open is        *)
(* dropped, and the strategies go on to the next run as they are.           *)
EndRun ==
    /\ OnPlan /\ phase = "done" /\ ~crashed
    /\ day + 1 \notin plan[runNo].on
    /\ results' = Append(results, [i \in DOMAIN trades |-> trades[i].pnl])
    /\ runNo' = runNo + 1
    /\ IF runNo + 1 \in DOMAIN plan THEN StartRun(plan[runNo + 1]) /\ UNCHANGED verdict
       ELSE /\ verdict' = StudyVerdict(results')
            /\ UNCHANGED <<day, market, anchors, today, open, pending, trades, refused,
                           perStrategy, perSource, quirks>>
    /\ UNCHANGED <<setup, phase, at, crashed, seen, study, plan, tape>>

StudyNext == ReadDay \/ WithinTheRun \/ EndRun

StudySpec == StudyInit /\ [][StudyNext]_allVars

-----------------------------------------------------------------------------
(* The days of a run up to now on which a strategy's gate measured anything.*)
Measured(i, run) ==
    LET strat == setup.book[i]
        snap(d) == Snapshot(strat.source, d, IF strat.source = "A" THEN tape[d].price ELSE Other[tape[d].price],
                            tape[d].quirk.gone, tape[d].quirk.dead)
    IN  {d \in run.on \cap 1..day : strat.source \in SourcesOf(tape[d].quirk) /\ Measure(strat, snap(d)) # {}}

(* What a gate has ranked a day of a fold or of a test among lies before it,*)
(* although the strategies go through the windows one after the other and   *)
(* remember the later ones when the next starts: its training days have     *)
(* pushed those out, if it measured RankWindow of them; folds come in their *)
(* order (strategies shared by all runs, fold_trades_cache).                *)
RanksOnThePast ==
    phase = "decide" /\ OnPlan =>
        \A i \in {j \in DOMAIN setup.book : j < at} :
            LET train == IF plan[runNo].part = "test" THEN Cardinality(Measured(i, plan[runNo - 1])) ELSE 0
                enough == train + Cardinality(Measured(i, plan[runNo])) >= RankWindow
            IN  plan[runNo].part = "fold" \/ (plan[runNo].part = "test" /\ enough)
                => \A m \in ToSet(LastOf(seen[i], RankWindow)) : m.day <= day

(* A study that passes made money on days it was not fitted to: in some     *)
(* test window, or in half of the paths that traded at all (_evaluate_gate  *)
(* with the averages and the median it is given).                           *)
PassedMadeMoney ==
    verdict = "passed" =>
        CASE study.kind = "walk_forward" ->
                \E i \in DOMAIN plan : plan[i].part = "test" /\ SumOf(results[i]) > 0
          [] study.kind = "cpcv" ->
                2 * Cardinality({p \in PathsTraded(results) : SumOf(PathTrades(results)[p]) > 0})
                    >= Cardinality(PathsTraded(results))
=============================================================================
