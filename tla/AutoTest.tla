------------------------------ MODULE AutoTest ------------------------------
(***************************************************************************)
(* The auto-test of a hypothesis (auto_generation/orchestrator.py) as the  *)
(* auto-test command runs it, or another caller of the orchestrator: the   *)
(* specs of a run, whatever is on disk by then, are validated (which the   *)
(* command has done already when it loaded them) and taken through sanity  *)
(* backtest, walk-forward and holdout, and each leaves one record in the   *)
(* hypothesis's log, which outlives the process and is what the next run   *)
(* counts against the budget.  A backtest is a function of the spec and    *)
(* the years it reads, of which more are ingested between runs; it may     *)
(* also raise.                                                             *)
(***************************************************************************)
EXTENDS Windows

CONSTANTS
    SpecIds, Content,   \* metadata.id of a spec, and what else it can say
    Budget,         \* variant_budget
    MaxSpecs,       \* bound: specs handed to a run
    Qualities,      \* what a spec may be: [valid, trades, gains]
    FirstYears,     \* years of data at first
    MaxYears,       \* bound: years of data
    TrainYears, TestYears, RollYears,   \* the WalkForwardConfig of the orchestrator
    HoldoutLengths, \* what --holdout-months may say, in years
    HoldoutPct,     \* holdout_sharpe_ratio_to_walk_forward, in percent
    MinTrades,      \* sanity_min_trades
    MinSharpe,      \* walk_forward_min_in_sample_sharpe, in sixtieths
    TwoLog,         \* 2 ln n of a number of variants, times 3600
    MaxRun          \* bound: runs of the command

ASSUME AutoTestAssumption ==
    /\ {Budget, TrainYears, TestYears, RollYears} \subseteq Nat \ {0}
    /\ {MaxSpecs, MaxYears, HoldoutPct, MinTrades, MinSharpe, MaxRun} \subseteq Nat
    /\ HoldoutLengths \subseteq Nat
    /\ FirstYears \in 1..MaxYears
    /\ TwoLog \in [1..Budget -> Nat] /\ \A n, m \in 1..Budget : n <= m => TwoLog[n] <= TwoLog[m]
    /\ \A q \in Qualities : q.gains \in [1..MaxYears -> Int] /\ q.trades \in [1..MaxYears -> Nat]

VARIABLES
    quality,    \* what the validator and the backtests say of each content
    years,      \* years of data
    log,        \* variants.jsonl
    pc,         \* "idle", or what the running process does next
    options,    \* what the run was asked for: a walk-forward, and years to reserve
    failed,     \* specs that failed validation, not yet logged
    todo,       \* specs to be run, the current one first
    nTested,    \* n_pool
    pool,       \* candidate_pool_ids
    runs,       \* runs started
    start, generated,   \* history: records at the start, variants generated
    read        \* history: [stage -> years it read for the current variant]

process == <<options, failed, todo, nTested, pool>>
history == <<start, generated, read>>
autoTestVars == <<quality, years, log, pc, process, runs, history>>

Specs == [id : SpecIds, content : Content]
Options == [walk : BOOLEAN, holdout : HoldoutLengths]
NoOptions == [walk |-> FALSE, holdout |-> 0]
Unread == [stage \in {"walk_forward", "holdout"} |-> {}]

-----------------------------------------------------------------------------
Remaining == Budget - Len(log)

(* generate: the first specs, `Remaining` at most. *)
Generated(specs) == SubSeq(specs, 1, Min({Remaining, Len(specs)}))

(* _spec_content_hash is of the whole spec, its id included. *)
FirstOfItsContent(specs, i) == \A j \in 1..(i - 1) : specs[j] # specs[i]
Validates(spec) == quality[spec.content].valid
Survives(specs, i) == Validates(specs[i]) /\ FirstOfItsContent(specs, i)

(* What _validate_and_dedup lets through; it turns down the others, invalid *)
(* specs and duplicates.                                                    *)
Survivors(specs) == {i \in DOMAIN specs : Survives(specs, i)}

(* Positions in their order, and what a list has there. *)
InTheirOrder(T) == {s \in [1..Cardinality(T) -> T] : \A i, j \in DOMAIN s : i < j => s[i] < s[j]}
At(specs, positions) == [k \in DOMAIN positions |-> specs[positions[k]]]

(* The next thing to do; a process with nothing left is done. *)
NextStep(f, t) == IF f # <<>> THEN "failures" ELSE IF t # <<>> THEN "sanity" ELSE "idle"

(* The command is run and the orchestrator accepts the hypothesis.  It is   *)
(* handed the specs that are on disk by then and match --spec-glob.         *)
Start(given) ==
    LET specs == Generated(given)
        kept == Survivors(specs)
    IN  /\ pc = "idle" /\ runs < MaxRun
        /\ Len(log) < Budget /\ given # <<>>
        /\ options' \in Options
        /\ \E t \in InTheirOrder(kept), f \in InTheirOrder(DOMAIN specs \ kept) :
               todo' = At(specs, t) /\ failed' = At(specs, f)
        /\ nTested' = Len(todo') /\ pool' = {}
        /\ pc' = NextStep(failed', todo')
        /\ runs' = runs + 1
        /\ start' = Len(log) /\ generated' = Len(specs) /\ read' = Unread
        /\ UNCHANGED <<quality, years, log>>

Persist(spec, outcome, siblings, seen) ==
    log' = Append(log, [id |-> spec.id, content |-> spec.content, outcome |-> outcome,
                        options |-> options, years |-> years, siblings |-> siblings, read |-> seen])

(* _log_failure *)
LogFailure ==
    /\ pc = "failures"
    /\ Persist(Head(failed), "validation_failed", 0, Unread)
    /\ failed' = Tail(failed)
    /\ pc' = NextStep(failed', todo)
    /\ UNCHANGED <<quality, years, options, todo, nTested, pool, runs, history>>

(* The gates of the current variant end in an outcome, and the next is due. *)
Conclude(outcome, seen) ==
    /\ Persist(Head(todo), outcome, nTested, seen)
    /\ pool' = IF outcome = "passed" THEN pool \cup {Head(todo).id} ELSE pool
    /\ todo' = Tail(todo)
    /\ pc' = NextStep(<<>>, todo')
    /\ read' = Unread
    /\ UNCHANGED <<options, failed, nTested>>

GoOn(stage, seen) == pc' = stage /\ read' = seen /\ UNCHANGED <<log, process>>

-----------------------------------------------------------------------------
(* The trades of a backtest over all the data there is, and the Sharpe      *)
(* ratio from one time to another: what is gained a year there, in          *)
(* sixtieths.                                                               *)
Quality == quality[Head(todo).content]
TradesOf(content, y) == SumOf([n \in 1..y |-> quality[content].trades[n]])
SharpeOn(from, to) == (60 * SumOf([y \in 1..(to - from) |-> Quality.gains[from + y]])) \div (to - from)
YearsOf(from, to) == (from + 1)..to

(* The first backtest reads all there is. *)
Sanity ==
    /\ pc = "sanity"
    /\ LET sane == TradesOf(Head(todo).content, years) >= MinTrades /\ SharpeOn(0, years) > 0
       IN  \/ Conclude("error", read)
           \/ ~sane /\ Conclude("discarded_at_sanity", read)
           \/ sane /\ ~options.walk /\ Conclude("passed", read)
           \/ sane /\ options.walk /\ GoOn("walk_forward", read)
    /\ UNCHANGED <<quality, years, runs, start, generated>>

(* What lies above the threshold, as a sum over some windows, makes up for  *)
(* the root of 2 ln n by the number of trades that _corrected_sharpe_lift   *)
(* adds to it: nothing for one variant or without a trade.                  *)
MakesUpFor(n, trades, surplus, windows) ==
    /\ surplus >= 0
    /\ n <= 1 \/ trades <= 0 \/ surplus * surplus * trades >= TwoLog[n] * windows * windows

(* A version that reserves nothing. *)
WalkForwardEndOfData == years

(* The years that are kept for the holdout are not walked through. *)
WalkForwardEnd == IF options.holdout > 0 THEN years - options.holdout ELSE years

WalkWindows == SplitWindows(0, WalkForwardEnd, TrainYears, TestYears, RollYears)
InSample == [i \in DOMAIN WalkWindows |-> SharpeOn(WalkWindows[i].train, WalkWindows[i].test)]
OutOfSample == [i \in DOMAIN WalkWindows |-> SharpeOn(WalkWindows[i].test, WalkWindows[i].end)]
ReadWalking == [read EXCEPT !["walk_forward"] =
                   UNION {YearsOf(w.train, w.end) : w \in Range(WalkWindows)}]

Corrected(n) == MakesUpFor(n, TradesOf(Head(todo).content, years),
                          SumOf(InSample) - MinSharpe * Len(InSample), Len(InSample))

(* A version that corrects for the budget that is left. *)
CorrectedForTheBudget == Corrected(Remaining)

(* The corrected threshold is that of the variants of this run. *)
ClearsThreshold == Corrected(nTested)

WalkForwardOk == WalkForwardPasses(InSample, OutOfSample) /\ ClearsThreshold

(* A version that lets a variant into the pool before its holdout. *)
WalkForwardPools ==
    /\ pc = "walk_forward"
    /\ \/ Conclude("error", read)
       \/ WalkWindows # <<>> /\ ~WalkForwardOk /\ Conclude("discarded_at_walk_forward", ReadWalking)
       \/ /\ WalkWindows # <<>> /\ WalkForwardOk
          /\ IF options.holdout > 0
             THEN /\ pc' = "holdout" /\ pool' = pool \cup {Head(todo).id} /\ read' = ReadWalking
                  /\ UNCHANGED <<log, options, failed, todo, nTested>>
             ELSE Conclude("passed", ReadWalking)
    /\ UNCHANGED <<quality, years, runs, start, generated>>

(* Data too short for one window is an error of the walk-forward. *)
WalkForward ==
    /\ pc = "walk_forward"
    /\ \/ Conclude("error", read)
       \/ WalkWindows # <<>> /\ ~WalkForwardOk /\ Conclude("discarded_at_walk_forward", ReadWalking)
       \/ WalkWindows # <<>> /\ WalkForwardOk /\ options.holdout = 0 /\ Conclude("passed", ReadWalking)
       \/ WalkWindows # <<>> /\ WalkForwardOk /\ options.holdout > 0 /\ GoOn("holdout", ReadWalking)
    /\ UNCHANGED <<quality, years, runs, start, generated>>

HoldoutStart == years - options.holdout

(* The holdout's Sharpe ratio against that of the test years. *)
HoldsUp == /\ SumOf(OutOfSample) > 0
           /\ 100 * SharpeOn(HoldoutStart, years) * Len(OutOfSample) >= HoldoutPct * SumOf(OutOfSample)

Holdout ==
    /\ pc = "holdout"
    /\ LET seen == [read EXCEPT !["holdout"] = YearsOf(HoldoutStart, years)]
       IN  \/ Conclude("error", seen)
           \/ ~HoldsUp /\ Conclude("discarded_at_holdout", seen)
           \/ HoldsUp /\ Conclude("passed", seen)
    /\ UNCHANGED <<quality, years, runs, start, generated>>

(* The process dies; the log stays. *)
Crash ==
    /\ pc # "idle"
    /\ pc' = "idle"
    /\ options' = NoOptions /\ failed' = <<>> /\ todo' = <<>> /\ nTested' = 0 /\ pool' = {}
    /\ start' = Len(log) /\ generated' = 0 /\ read' = Unread
    /\ UNCHANGED <<quality, years, log, runs>>

(* Another year of data is ingested (external to the auto-test). *)
Ingest ==
    /\ pc = "idle" /\ years < MaxYears
    /\ years' = years + 1
    /\ UNCHANGED <<quality, log, pc, process, runs, history>>

-----------------------------------------------------------------------------
AutoTestInit ==
    /\ quality \in [Content -> Qualities]
    /\ years = FirstYears
    /\ log = <<>> /\ pc = "idle" /\ runs = 0
    /\ options = NoOptions /\ failed = <<>> /\ todo = <<>> /\ nTested = 0 /\ pool = {}
    /\ start = 0 /\ generated = 0 /\ read = Unread

AutoTestNext ==
    \/ LogFailure \/ Sanity \/ WalkForward \/ Holdout \/ Crash \/ Ingest
    \/ \E given \in SeqOf(Specs, MaxSpecs) : Start(given)

AutoTestSpec == AutoTestInit /\ [][AutoTestNext]_autoTestVars

-----------------------------------------------------------------------------
(* Every variant a run was given ends in one record or is still to come,    *)
(* none is lost between validation, gates and errors; and the candidate     *)
(* pool holds the variants whose record of this run says that they passed.  *)
(* The pre-registered budget bounds the records of all runs together: those *)
(* of a run that died count, and so do failures and duplicates.             *)
EveryVariantAccounted ==
    /\ Len(log) <= Budget
    /\ start + generated = Len(log) + Len(failed) + Len(todo)
    /\ pool = {log[i].id : i \in {j \in (start + 1)..Len(log) : log[j].outcome = "passed"}}

(* A variant turned down at walk-forward gets in by being tested again on   *)
(* the same years only if that run tests fewer variants, as the correction  *)
(* counts the variants of one run and not those of the hypothesis, or if    *)
(* the first backtest trades more on data the walk-forward does not see.    *)
OverturnedOnlyByFewer ==
    \A i, j \in DOMAIN log :
        (/\ i < j /\ log[i].content = log[j].content
         /\ log[i].read["walk_forward"] = log[j].read["walk_forward"]
         /\ log[i].outcome = "discarded_at_walk_forward"
         /\ log[j].outcome = "passed" /\ log[j].options.walk)
            => \/ log[j].siblings < log[i].siblings
               \/ TradesOf(log[j].content, log[j].years) > TradesOf(log[i].content, log[i].years)

(* The years a holdout judges a spec on were in no window of a walk-forward *)
(* of that spec, of this run or an earlier one, however the data has grown  *)
(* since, if that run reserved all of them that there were (wf_end).  The   *)
(* first backtest of every run has read them all.                           *)
HoldoutFresh ==
    \A i, j \in DOMAIN log :
        (/\ i <= j /\ log[i].content = log[j].content
         /\ log[j].options.holdout <= log[i].options.holdout + (log[j].years - log[i].years))
            => log[i].read["walk_forward"] \cap log[j].read["holdout"] = {}
=============================================================================
