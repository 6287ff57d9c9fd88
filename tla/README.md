# Verification of tradegy

tradegy researches intraday futures and options strategies and trades them on paper through
Interactive Brokers (IBKR).  This directory holds TLA+ models of the parts of it that keep state
and can get that state wrong, from the features and the backtests that select a strategy to the
orders it sends, the TLC runs that check them on small instances, and TLAPS proofs of most of
their properties: of the order state machine, the two routers that implement it, the gate in front
of them and the loop behind them, the two live sessions, the bar loop of the backtest, the options
backtests and the auto-test.  Paths below are relative to the repository root; the Python
package is `src/tradegy`.

## 1. Inventory

### Execution layer (`src/tradegy/execution`)

| Part | State it keeps | Operations | What makes it correct |
|---|---|---|---|
| Order lifecycle (`lifecycle.py`) | `ManagedOrder`: state, cumulative fill, transition records | `new_managed_order`, `apply_transition` | only legal edges; a terminal order is final; never over-filled; the log is the history |
| Futures router (`ibkr_router.py`, `ibkr_status.py`, protocol in `router.py`) | `_orders`, `_trades` by client order id | `place`, `cancel`, `disconnect`, status-event callback | the book follows the lifecycle whatever the order of events; what it calls over is over; it learns every outcome |
| Combo router (`ibkr_options_router.py`) | the same for multi-leg orders | `place_combo` (waits for the contracts of its legs), `cancel_combo`, `disconnect`, status-event callback | the same, though two calls may overlap under one id |
| Kill switch (`kill_switch.py`) | state and trip history | `trip`, `clear`, `mark_reconciled` | trading resumes only by the full procedure |
| Risk caps (`risk_caps.py`) | `RiskState` counters | `pre_flight_check`, `update_on_fill`, resets | no order past a loss cap; how far position caps can be overrun |
| Idempotency (`idempotency.py`) | `_seen`: id -> time | `register`, expiry | an id is sent once per window |
| Reconciliation (`reconciliation.py`, `divergence.py`) | last run per check | `tick`, `run_forever`, `_dispatch`, detectors | a lasting difference is escalated; no escalation without one; cadences are kept |
| Session flatten, transition log (`session_flatten.py`, `log.py`) | a JSONL file | pure plan; append and replay | not wired to anything yet |

The routers run in one asyncio process; broker updates arrive as callbacks, in whatever order the
connection delivers them, between any two awaits of the caller.  Reconciliation awaits the broker
and compares with a local view that has moved on meanwhile.

### Live sessions (`src/tradegy/live`, `scripts/live_mes_0dte.py`)

| Part | State it keeps | Operations | What makes it correct |
|---|---|---|---|
| Options session (`options_routing.py`, `options_close_loop.py`, `options_position_registry.py`, `options_backfill.py`) | `positions.jsonl`; orders at the broker | reconcile, route closes, route entries, await fill, cancel, persist, backfill | no position is turned over, whoever else trades; the registry is true; a difference has a cause |
| MES 0DTE daemon | one record file a day, a kill-switch file; orders at the broker | entry job, management sweep (systemd timers in `deploy/gcp`) | one order each; the day ends closed; the record tells the position |

Both are short-lived processes.  The broker goes on without them, they may die between an order and
the record of it, and a wait that times out is followed by a cancel nobody waits for.  The operator
closes positions in TWS, legs are assigned, combos fill in part, and the session date that ids are
made of is that of the latest snapshot ingested, not the trading day.

### Research (`src/tradegy/features`, `harness`, `strategies`, `options`, `auto_generation`)

| Part | State it keeps | Operations | What makes it correct |
|---|---|---|---|
| Feature engine (`features/engine.py`, `features/transforms/`, `ingest/_common.py`) | Parquet partitions by date | nineteen transforms, `compute_feature`, ingestion | a row is final once its sources are complete, whatever is computed again and when |
| Validation and serving (`validate/`, `registry/api.py`, `harness/data.py`) | none | no-lookahead audit, reproducibility check, `get_feature`, `value_at`, the panel | what passes is what the sources give, though the audit takes a sample; a backtest sees what a live query would |
| Backtest harness (`harness/runner.py`, `harness/execution.py`, `strategies/`) | position, queued order, queued exit, session, the memory of the strategy class | one turn per bar | every entry becomes one trade; nothing crosses a session; stops belong to their trade; what is acted on is recent |
| Pair backtest (`harness/pairs.py`) | position, pending entry and exit, attempts of the day | one turn per row | attempts, holding time and hours are kept on every path |
| Options backtests (`options/runner.py`, `portfolio_runner.py`, `multi_source_runner.py`) | open positions, pending orders, accounts, gate histories | one turn per snapshot: manage, fill, decide | caps hold; one position at a time; accounts agree; trades close at possible prices |
| Walk-forward, cross-validation (`harness/walk_forward.py`, `cpcv.py`, `options/walk_forward.py`, `options/cpcv.py`) | strategies shared by the runs, cached folds | split, run each, verdict | a day is ranked on its past; what passes made money on days it was not fitted to |
| 0DTE backtest (`options/zero_dte_runner.py`, `databento_chain_io.py`) | the trade of a session | snapshot, entry, checks, settlement | one future throughout; prices within the wings |
| Auto-test (`auto_generation/orchestrator.py`, `records.py`) | `variants.jsonl` | validation, three gates, logging | the budget holds over runs; every variant is recorded; verdicts are not overturned; the holdout is fresh |

The research side is single-threaded.  What is hard there is state that outlives a step: a gate's
history carried from one window to the next, a best price carried from one trade to the next,
feature partitions that are older than their sources, orders decided on one snapshot and filled on
another, prices that are missing on the day they are needed.

`PROJECT.json` lists every component with its status and reason, and every hazard with the line at
which it bites.

## 2. Modules

| Module | Models | Composition |
|---|---|---|
| `OrderLifecycle` | `lifecycle.py` | the abstract specification of both routers |
| `OrderLifecycle_proofs` | its theorems | extends `OrderLifecycle` |
| `IbkrBroker` | the broker and ib_async, from how the routers use them (external) | extended by both routers |
| `IbkrStatus` | the status table `map_ibkr_status` | extended by both routers |
| `RouterBook` | what the two routers share: the book, sending an order, a disconnect | extends `IbkrBroker`, `IbkrStatus`; instantiates `OrderLifecycle` |
| `IbkrRouter` | `ibkr_router.py` | extends `RouterBook`, refines `OrderLifecycle` |
| `OptionsRouter` | `ibkr_options_router.py` | extends `RouterBook`, refines `OrderLifecycle` by the broker's order number |
| `Routers_proofs` | theorems of both routers | extends `IbkrRouter`, `OptionsRouter` |
| `OptionsSession` | the daily options command | |
| `OptionsSession_proofs` | its theorems | extends `OptionsSession` |
| `Mes0dte` | `scripts/live_mes_0dte.py` over one session date | |
| `Mes0dte_proofs` | its theorems | extends `Mes0dte` |
| `RiskGate` | kill switch, risk caps and idempotency under one caller | |
| `Divergence` | the pure detectors of `divergence.py` | extended by `Reconciliation` |
| `Reconciliation` | `reconciliation.py` | |
| `Safeguards_proofs` | theorems of the gate and of the loop | extends `RiskGate`, `Reconciliation`, `Sums_proofs` |
| `Transforms` | the nineteen feature transforms, as operators on frames | |
| `FeatureStore` | ingestion and the feature engine over a store of partitions | extends `Transforms` |
| `FeatureServing` | the two validations, the retrieval calls, the panel | extends `FeatureStore` |
| `Pairs` | the pair backtest on a panel | extends `FeatureServing` |
| `StrategyClasses` | `on_bar` of the nine strategy classes, conditions, stops | |
| `Backtest` | `run_backtest` | extends `StrategyClasses` |
| `Harness_proofs` | theorems of the bar loop, the features and the pair backtest | extends `Backtest`, `Pairs`, `Sums_proofs` |
| `OptionChain` | contracts, quotes, fills, maximum loss, marks, management rules | |
| `OptionStrategies` | the leg choice of the thirteen options strategies | extends `OptionChain` |
| `OptionGates` | the IV, VIX, skew and term-structure gates around them | extends `OptionStrategies` |
| `OptionRisk` | `RiskManager` | extends `OptionGates` |
| `OptionsBacktest` | the daily loop of the three runners | extends `OptionRisk` |
| `Windows` | walk-forward windows, folds, paths, verdicts, as operators | used by the next two |
| `OptionsStudy` | single runs, walk-forwards and cross-validations of options portfolios | extends `OptionsBacktest`, `Windows` |
| `ZeroDte` | a session of the 0DTE backtest | extends `OptionStrategies` |
| `OptionsResearch` | the commands that run one or the other | composes `OptionsStudy` and `ZeroDte` |
| `AutoTest` | the orchestrator under the auto-test command | extends `Windows` |
| `Research_proofs` | theorems of the auto-test and of the options backtests | extends `AutoTest`, `OptionsResearch`, `Sums_proofs` |
| `Sums_proofs` | laws of finite sums, greatest and least elements, sequences | |

Each `MCx` module instantiates module `x` for TLC (`MCOptionsBacktest` instantiates
`OptionsResearch`, `MCFeatureServing` instantiates `Pairs`).  Definitions named "A version that
..." are deliberate deviations: each is the body of a mutant, used to show that the property it
breaks says something about the code.  They are not part of any specification.

### State and actions

- **OrderLifecycle.** `orders` maps a client order id to its `ManagedOrder`; `log` holds its
  transition records (from, to).  `Create` is `new_managed_order`, `Transition` is
  `apply_transition` when it does not raise (`CanApply`), `Submit` is both in one step as the
  routers do it, which may let go of the object it takes the place of, `Discard` is the holder
  dropping the object.  Timestamps, sources and reasons are
  left out.
- **IbkrBroker.** `brk` is the broker's own record per order, `seen` is `trade.orderStatus`,
  `pending` the orders with an update under way.  An update that arrives shows the latest state,
  so older ones can be overtaken; `statusEvent` fires only if something changed.
- **RouterBook, IbkrRouter, OptionsRouter.** `managed` and `trades` are `_orders` and `_trades`;
  `StatusEvent` of the futures router and `ComboEvent` of the combo router are the delivery of an
  update with the whole callback. Both specifications are over these variables (`Spec` and
  `ComboSpec`), so that one account of the broker serves the proofs about both; the combo router
  adds `calls`, who is in `place_combo` with which order. `PlaceCombo` is the call up to the await
  of its legs' contracts, with the only check of the id; `SendCombo` is the rest, which sends and
  stores without asking again, and `PlaceComboRaises` an await that fails. Between them anything may
  happen, other calls under the same id included. The futures router's `Place` has no await between
  its check and its order. The callback closes over the client order id only, so after `Disconnect`
  and a second `Place`, or two combos sent under one id, the Trade of the first order fires into the
  entry of the second: this is modelled. The futures router proposes the mapped state with its fill,
  escalates to UNKNOWN when that is refused, and raises when that is refused too. The combo router
  proposes no fill count, does not escalate and has no terminal check.
- **OptionsSession.** A position is one combo of one lot, one of the session's own (named by session
  date and candidate) or one of `Foreign`.  `NewSnapshot` moves the session date and nothing else: two
  dates may be run on one trading day, and one date on several; an order lapses when the broker says
  so.  `Start` is the decision plus `reconcile`, on top of `Begin`; `PlaceClose`/`CloseDone` and
  `PlaceEntry`/`EntryDone` are the two halves of routing an order, around `await_terminal_state`;
  `Learn` is the book learning the outcome in time; `CancelWorking` is the cancel after a timeout.
  `Crash` may strike anywhere.  `Outcome` ends an order filled, filled in part or dead; one filled in
  part leaves odd legs (`stray`), which the reconciliation sees, until the operator closes them out
  (`TidyLegs`).  `OpenElsewhere` and `CloseElsewhere` are the operator in TWS and the clearing house,
  at any moment; `Backfill` and `WriteOff` are the operator's repairs of the registry.  History: `left`
  of an order, the session let go of it before it knew how it ended; `from` and `until` of a close,
  the last run begun when it came and when it ended.
- **Mes0dte.** `EntryStart`, `EntryPlace`, `EntryRecord` and `SweepStart`, `SweepPlace`,
  `SweepMark` are the steps between which either process can die; a death while the record is
  written may leave it `torn`.  `since`, `fault` and `lost` are history.
- **RiskGate.** `Submit` is the external caller that runs `pre_flight_check` and `register` and
  sends; fills, marks and closes call `update_on_fill`; resets are the two reset functions, at any
  time.  `positions`, `closed`, `start` and `claims` are what the caller knows, against which the
  counters are judged.
- **Reconciliation.** `pc` is the check whose answer is awaited; `Answer` takes the broker's state,
  `Compare` reads the local one later, runs the detector and dispatches.  `age` is the time since
  `_last_run`, `inTick` the time since the `now` the tick was given.
- **FeatureStore.** A frame is a function from moments to rows.  `raw` is what ingestion has
  written, `store` the rows of each feature, `known` the last moment it was computed to, `torn` the
  features whose partitions a dead computation left short.  `Ingest` adds a moment, `Announce`
  changes the calendar, `Materialize` is `compute_feature` with its partitions replaced one by
  one, in any order of features and whatever is stored below them.
- **FeatureServing, Pairs.** No state of their own: the audit takes `Samples` of the stored rows,
  any of them, and recomputes each in memory from truncated sources (`Truncated`), `PanelValue` is
  the join of the backtest, `ValueAt` the live query, and `RunPairs` folds the loop of the pair
  backtest over the rows of a panel.
- **Backtest.** One step is one turn of the loop, composed from functions on a record of the run
  (bar and features in, next run out); `Flush` is the end of the window.  `strategy` is one of the
  nine classes with its parameters; its `lag` is the latency of features in bars.  Features take any
  of their values on any bar, none included: the levels of a break may be missing and move.  `signal`
  is history: for each thing that may be faded (a spike of a side, a break of a level on a side) how
  many bars ago it was and whether bars were hidden since, counted up to `Far`.
- **OptionsBacktest.** `phase` goes through manage, fill, decide for each day; `Keep` and `Close`
  handle one position, `Fill` and `Reject` one order, `Decide` and `Skip` one strategy.  `seen` is
  what each gate remembers and survives a run.  A day may lack strikes, quotes, or the snapshot
  of one of two sources.  The same actions serve the three runners; the run's `setup` says which.
- **OptionsStudy.** `plan` is the list of runs of a study, `tape` the days as first read, so that
  each run sees the same ones; `EndRun` books a run, drops what is open and starts the next on an
  empty book with the strategies as they are.
- **ZeroDte.** `bars` are the minutes of a session, in each of which a set of contracts or the
  future does not trade; prices are asked of the last bar, as the readers do.  The source of
  futures holds one contract at a time and rolls at `rollAt`.
- **AutoTest.** `pc` goes through failures, sanity, walk-forward and holdout for each variant;
  `log` survives `Crash`, `years` may grow between runs.  `options` are those of the run: whether it
  walks forward and how many years it keeps for the holdout.  What a backtest says, and how many trades
  it makes, is a function of the content of a spec and of the years it is run on, except that it may
  also raise.  The threshold of the walk-forward is raised by the root of 2 ln n / T, for n variants
  and T trades of the first backtest (`MakesUpFor`, which compares squares so that it stays in whole
  numbers; `TwoLog` holds 2 ln n).  A spec is its id and its content, and the hash that finds
  duplicates is of both.  `read`, the years each stage read for a variant, is history.

## 3. Runs

Section 4 says which of the properties are proved for all values of the constants; for these the
bounds below limit nothing but the run. Bounds are chosen as the smallest at which each interesting
case occurs; every action and every disjunct of the next-state relations is taken in some passing
run.

| Run | Question | Bounds, and why they are enough |
|---|---|---|
| `lifecycle` | What does the state machine guarantee if callers may propose anything? | two orders (so that one can disturb the other), quantities 1 and 2, fills 0 to 3 (one too many), logs of five records (birth, two working states, an UNKNOWN detour, an end); the theorems lift the bounds |
| `router` | Does the futures book follow the lifecycle, agree with the broker when it is over, and learn every outcome? | one id used twice, before and after a disconnect; quantity 2, so that there is a partial fill |
| `combo` | The same for the combo book, as far as it holds, with calls that overlap | one id, two callers and two orders of two lots: both callers can pass the check before either sends |
| `combo_filled` (violation) | Does a filled combo reach FILLED? | one lot |
| `session` | Can crashes, late and partial fills, repeated runs, changed dates or the trading of others turn a position over or make the registry lie? | two session dates with one candidate each, three runs over both, four orders, one foreign position and one close by others: a position entered on one date, closed under the next while its first close is still working, or by the operator, and a third run that reconciles what is left |
| `mes_0dte` | What can the two jobs and the operator do to each other's files? | four ticks, the last two at or after the force-close time; up to three starts of the entry job |
| `risk_gate` | Do the gate's parts hold with orders in flight? | two strategies with two ids each, a cap of two, two orders in flight, four orders, a window of one hour out of three, four switch events (trip, clear, trip again, ...); switch, clock and profits are exercised one at a time (`OneAtATime`), as their checks share nothing but the order that must pass all |
| `reconciliation` | Does the loop escalate what lasts and only what was there, on time? | one order, one instrument, queries that take zero or one unit of time, cadences of one and two units |
| `backtest` | Are entries, exits, sessions and stops kept apart, and is what a class acts on recent? | a strategy of each class, three prices, two sessions, bars held up to three; windows of any length, since the state is finite; one class with late features; the fade of breaks with both sides, a look-back of two, an upper level that is missing or at either of two prices on any bar, and ages told apart up to two |
| `feature_serving` | Are rows final, do the validations mean what they say, does a backtest see what a live query would? | seven moments in two sessions, nine registries that between them use every transform on three price paths, four computations of which one may be cut short, two announcements; audits of two rows, so that features have rows outside the sample; the pair backtest on all 4096 paths of six prices |
| `options_backtest` | Do the rules of the options backtests hold with missing prices, and what do their studies' verdicts mean? | prices 800 and 1000 over seven strikes and three expiries, one time unit for fifteen days, five days and one bad day in a single run; walk-forwards of one to five windows over five to seven days; two cross-validations; 0DTE sessions of five minutes with one odd minute |
| `auto_test` | Do budget, records, verdicts and the holdout hold over runs and crashes? | up to three specs of a run with two ids and one content (so that there are duplicates and equal specs under two ids), a budget of three, two runs each with or without a walk-forward and with a holdout of none, one or two years, four to six years of data; trades at the threshold of the first backtest, and too few at first |

Deadlock is not checked where the system really may stop (every order ended, the day over, the
budget spent).  The reconciliation loop never stops and is checked for deadlock.
Symmetry is used for ids and contents that are only ever compared (lifecycle, risk gate, auto-test),
in runs without liveness.

What the runs show, beyond the table:

- *Routers.* Both implement `OrderLifecycle` (checked as `LC!Spec` and `OrderLC!Spec` under
  INSTANCE): no sequence of broker events moves an order along an edge that `lifecycle.py` does not
  have, nor do two calls of `place_combo` that both passed the check of one id.  Claims about fills
  need `Alone`: when an id is used twice, after a disconnect or by two such calls, the first Trade's
  events reach the second order's entry.
- *Session.* Every way the registry and the broker can differ goes back to an order of that very
  position that filled in part, that filled after the session had let go of it, or that others gave.
  What keeps a position from being turned over is the reconciliation at the start of a run (the mutant
  of `NeverInverted` leaves it out), not the ids: the session date and the number in a close's id may
  change from run to run.  What it cannot keep apart is two closes that crossed each other (`Crossed`):
  the first was still working when the run of the second reconciled, or came from others since.
- *MES daemon.* The properties name causes.  A record can say closed with a condor held, and a
  condor can be turned over, but only through a close or an entry that did not fill, or a job that
  died before it could record.
- *Risk gate.* The position cap is checked against open positions: with k orders in flight it is
  overrun by up to k - 1.  The daily reset zeroes the open profit or loss as well, so a position
  held over it brings in only its change since then: the weekly check misses the loss it had until
  a reset that follows its close.
- *Features.* Rows are final even if the engine is called in the wrong order, because it recomputes
  from what is stored and only adds to it; the exceptions are the transforms that look at events to
  come and partitions cut short.  A cut is invisible to both validations, and a
  look-ahead to an audit that did not draw its rows.
- *Options backtests.* Which daily trades can close at a price their legs cannot have is known:
  those with a leg that was not quoted, with two expiries, or whose underlying had no snapshot.
  A gate that puts its own id on an order is the only way to more than one position of a strategy.
- *Studies.* A test day of a walk-forward may be ranked among later days, those of the window
  before, unless the training days have pushed them out of the gate's memory.  Cross-validation is
  free of it because folds are cached in the order of their days; without the cache it is not.
- *0DTE.* The option's own future, the one its strikes are chosen by and the one it is settled
  against are the same only if the snapshot lists options on one future.
- *Auto-test.* The correction counts the variants of one run and shrinks with the trades of the first
  backtest, which reads all the data.  So a second run can pass what the first turned down on the very
  same walk-forward years, if it tests fewer variants or the data before or after these years hold more
  trades of the spec.  `OverturnedOnlyByFewer` says that there is no other way.  A holdout is fresh
  as long as no earlier run walked into it, that is, if it starts no earlier than the walk-forward of
  each run before it ended (`HoldoutFresh`): a run that keeps more than an earlier one did is judged on
  years its spec was fitted to.

### Fairness

- Routers: weak fairness on the delivery of an update already sent, per order.  TCP keeps the
  messages of a live connection and ib_async fires for each; nothing is assumed of the broker
  (it need never fill), of the caller, or of the connection (a disconnect ends the promise).
- Reconciliation: weak fairness on waking, comparing and time, as `run_forever` is a loop around
  `asyncio.sleep`; strong fairness on the answer of each check's query, i.e. queries may fail
  again and again but not for ever.  Under it a query that fails for ever would starve the checks
  after it in the tick, which is a property of the code (section 6).
- The other modules state safety only and assume no fairness.

## 4. Proofs

All proofs are checked by tlapm with Z3, Zenon and LS4.  They hold for every value of the
constants that meets the modules' assumptions.

**`OrderLifecycle_proofs`** (assumptions: quantities are positive naturals, fills naturals, the
"no fill reported" value not a natural, a bound on logs or none).  The inductive invariant is
`TypeOK /\ FillsAreAccounted /\ LogIsLegalPath`: neither of the last two is inductive without the
types, and the log is a path only because its last record names the order's present state.
One lemma says what `apply_transition` returns (`ApplyTransitionSound`), one the shape of the
graph (`GraphShape`), and one lemma per action preserves the invariant.

| Theorem | States |
|---|---|
| `TypeCorrect` | `Spec => []TypeOK` |
| `FillsCorrect` | no order over-filled, FILLED means filled whole |
| `LogCorrect` | the log is a walk of the graph from birth to the present state |
| `SubmittedOnce` | SUBMITTED only ever follows birth, so no order is sent twice (a consequence of the path alone) |
| `TerminalFinal` | a terminal order never changes |

**`Routers_proofs`** (assumptions: those above, and that the broker reports partial fills under
`Submitted` or `Filled`).  The refinement needs one invariant, `RouterOK`: the broker's records are
of known ids and quantities and never over-filled (`BrokerOK`, preserved by each of the broker's
steps and by placing and cancelling), and the book's two halves hold the same orders, all of known
ids (`BookOK`).  From it every step of a router is `Submit`, `Transition` or `Discard` of
`OrderLifecycle`, or changes nothing it sees.  For the combos an id does not name an order: two calls
may both pass the check, and the second order then takes the place of the first.  Their refinement
(`OrderLC`) names each ManagedOrder by the number of the broker's order it was made for (`ByOrder`),
so that a step of the machine is always of one order; sending under an id in use drops the one and
submits the other (`SendIsSubmit`), and an event of either is a step of the one the book holds
(`StoreIsTransitionOf`).  That a transition reports a fill count the state
machine knows follows from the broker not over-filling; that it proposes a state at all, from the
status table (`MapIbkrStatusState`).  For the futures router there are three cases for an event:
accepted, escalated to UNKNOWN, and raised.

That what a book calls over is over at the broker needs a second invariant, `BookAgrees` for the
futures router and `CombosAgree` for the combos.  Besides the property it says that the book's
entries stand for orders the broker has (`Follows`) and that an order filled whole says `Filled`,
even if it was being cancelled (`FilledSaysSo`).  It stays so because the broker leaves alone what
it is finished with, an order alone under its id hears of its own updates only, and the status table
ends an order only on a status that does.

| Theorem | States |
|---|---|
| `RouterInvariance` | `Spec => []RouterOK` of the futures router |
| `RouterImplementsLifecycle` | the futures router implements `OrderLifecycle` |
| `CombosImplement` | `CombosImplementLifecycle`: the combo router implements `OrderLifecycle` for the orders its book holds, with any number of callers in `place_combo` at once |
| `OverAtTheBroker` | `TerminalAgrees`: while its id is used once, an order the futures book calls over has ended at the broker, in the same way, with every fill counted |
| `NothingLiveIsForgotten` | `OverIsOver`: while its id is used once, a combo the book calls over has ended at the broker |

With them the theorems about `OrderLifecycle` carry over to both books, for any ids, quantities,
numbers of orders, callers, disconnects and orders of events.  The bound on logs plays no part: the
refinement mapping leaves it out.

**`Safeguards_proofs`, the gate** (assumption `RiskGateAssumption`: bounds and caps are naturals,
loss caps and orders in flight positive).  Four strengthenings are inductive, each with `TypeOK`:

| Theorem | States | Strengthening |
|---|---|---|
| `GateTypeCorrect` | types, and counts that never go negative | none |
| `ResumptionCorrect` | orders pass again only after a clear and a reconciliation that follow the last trip | `Resumption`: an inactive switch has an empty history or one that ends in clear, reconciled; one that awaits reconciliation has a history that ends in clear |
| `WindowCorrect` | no id twice within the window | `Remembered`: what was sent within the window is still among the ids seen, with a time no older |
| `CapsCorrect` | the overrun of the position caps is less than the orders in flight | `Counted`: the counters equal the cardinalities of what they count, in flight and open are disjoint, and there are at most `MaxInFlight` in flight |
| `LossCapsHold` | `NoOrderPastLossCap`, an action property: no order is sent past a loss cap | `Balanced`: the counters equal the sums they stand for, the realized ones what the closed trades brought, the open one the change of the open positions since the daily reset |

`CapsCorrect` rests on how the cardinality of a strategy's positions changes when one id is added
or removed (`OfStrategyAdd`, `OfStrategyRemove`, `OfStrategyLess`), `LossCapsHold` on how the open
profit changes when one position does (`OpenPnlOfOther`).  The latter also uses `Counted`: that an
entry fills adds nothing to the open profit only because its id is not open already.

**`Safeguards_proofs`, the loop** (assumptions: cadences and the sleep are positive and below
`MaxAge`, the times and quantities naturals).  `LoopInv` bounds the age of a check by where the loop
stands (`OnTime`), `Grounded` holds the answer that has come against the local view it will be
compared with.

| Theorem | States |
|---|---|
| `ChecksRunOnTime` | `RunsOnTime`: a check runs again within its cadence, one sleep and the queries of two ticks, however slow the queries |
| `NoFalseAlarm` | `EscalationIsGrounded`, an action property: what is escalated was different at some moment since the query |

**`Mes0dte_proofs`** (assumptions: naturals, and a force-close tick among the ticks). `DayInv` adds
to the types what keeps the two jobs apart although they share no lock (`Exclusive`: the entry job
is at work only while there is no record, the sweep only while it says open), which orders the
record tells of (`OrdersRecorded`, `CloseFollowsEntry`), and that a force-close tick that left the
record open was a fault (`ForceCloses`).

| Theorem | States |
|---|---|
| `OneOrderPerDay` | `OneOrderEach`: an entry and a close, but for one more per job that died before its record |
| `MisstatedIsExplained` | `MisstatedHasACause`: record and position differ only by an unfilled leg or a dead job |
| `DayEndsClosedOrFaulty` | `DayEndsClosed`: a day ends closed unless every sweep of the force-close period failed |

**`OptionsSession_proofs`** (assumptions: finitely many foreign positions, a strategy for each, and,
stated in each theorem, `BrokerDedups`, the broker refuses a client order id it has seen;
`OptionsSession` models the other case too, in which a second run of a date enters again).
`SessionInv` says, besides the types: the order awaited is the one placed for the item at the head of
its list (`AwaitsCurrent`); an id is filled once (`IdsOnce`); what is neither dead, nor filled in part,
nor let go of, nor awaited has filled and is on the registry (`SeenOrLeft`); odd legs come of an order
filled in part (`StrayHasOrder`); rows have their orders (`RowsHaveOrders`); what is due to be closed
has no live close but those that were working when this run began or came since (`DueAlone`); hence of
two live closes of a position the earlier was still to come when the run of the later began
(`Crossing`).

| Theorem | States |
|---|---|
| `NeverTurnedOver` | `NeverInverted`: no position is entered twice, or closed twice but by two closes that crossed |
| `RegistryClaimsTrue` | `RegistryIsTrue`: every open row tells of an entry that filled, and no position with a close row is held |
| `DivergenceIsExplained` | `DivergenceHasACause`: between runs, registry and broker differ only on a position with an order that filled in part, that filled after the session had let go of it, or that others gave |

**`Harness_proofs`, the bar loop** (assumptions `BacktestAssumption`, `StrategiesAssumption`:
prices, the classes and what is in their parameters; the ages told apart reach as far as any
look-back). A turn of the loop is a composition of functions of a record of the run, and there is
one lemma per function, which says what holds after it of what holds before. `LoopInv` is about the
position, the queued order and exit, the session they were decided in and the prices seen since the
entry; `TaleInv` adds what the strategy class remembers (`Remembers`).

| Theorem | States |
|---|---|
| `Loops` | `Spec => []LoopInv` |
| `EveryEntryIsBooked` | `OneTradePerEntry`: an entry becomes one trade, at whichever of the four places it is closed |
| `NothingCrossesSessions` | `DecidedThisSession`: what is held or queued was decided in the running session |
| `StopIsOfThisTrade` | `StopFromOwnPrices`: a stop is the initial one or trails a price of this trade |
| `FadesAreRecent` | `SignalIsRecent`: a fade is of a signal of its side within the look-back, unless bars were hidden |

The last holds whatever the levels do.  A break is one of a level, as it is served on the bar that
decides; so the history keeps an age for each level a price may be, and `Remembers` ties the ring that
the class keeps to all of them.  Bars shown while a level was missing count by their prices, as they do
in the code.

**`Harness_proofs`, the features** (assumptions `SamplesAssumption`: an audit asks for some number
of rows; `RegistryAssumption`: features of known transforms with as many inputs as those take,
ranked so that none is below itself, trades read by the resampling only, the events to come read
from the calendar; `CalendarAssumption`, and `SessionAssumption`: sessions do not overlap).  The
argument is causality.  Two frames *agree* up to a time if they have the same rows up to it.  Each
transform that looks back only gives frames that agree from frames that agree, a lemma for each of
the seventeen, put together in `TransformsLookBack`; the two that look at events to come do if the
calendar is the same. `FramesBy`, what every feature is by what the sources are at a time, is a
recursive function over the registry; that one exists (`SolutionExists`), and that it agrees up to a
time with the one of any later moment (`CausalFrames`), is shown by the rank of the features.  The
inductive invariant is `FeatureInv`: besides the types and that no feature is known further than its
inputs, the stored rows of a feature, if it looks back only and no computation in or below it was
cut short, agree with those computed from scratch, up to the time it is known to.

| Theorem | States |
|---|---|
| `RowsNeverChange` | `RowsAreFinal`, an action property: both the old rows and the new ones are those from scratch |
| `PanelIsServed` | `PanelIsLive`: the panel, the live query and the sources one latency earlier have the same row |
| `ValidatedIsScratch` | `ValidatedIsTrue`: what both checks pass, whichever rows the audit drew, is what the sources up to each row give; of a feature that looks ahead, this is so of the rows drawn |

The last is about the features that look ahead too, and needs what the checks cannot see as its
premise: that no input was cut short or itself looks ahead.  Of such a feature the audit can vouch for
the rows it drew only.  It passes on them if
no event to come reaches back to these rows, and the lemmas `EventsToComeAgree` and `EventsToComeAdd` say
that the rows are then those of the calendar as it was.

**`Harness_proofs`, the pairs** (assumption `PairAssumption`: a position is held for one row at
least).  `AfterRow` gives the state after each row as a recursive function; it exists because a row
depends on the one before (`PairStates`).  Before a row `BookOk` and `PendingOk` hold: the trades and
the position so far keep the rules, a pending entry was decided on the row before, entries of the
day are counted by the attempts, and a position that is not leaving has rows to go.  Each part of a
turn has its lemma; `LoopKeeps` takes the first row after which it would not hold.  That a new day
starts at no entries (`NothingTakenYet`) rests on the days of rows not going back.

| Theorem | States |
|---|---|
| `PairsKeepTheRules` | `PairRulesHold`, for any frames that a registry can give |

**`Research_proofs`, the auto-test** (assumption `AutoTestAssumption`: positive budget and window
lengths, gains integers, trades and holdouts naturals, 2 ln n natural and rising with n).
`AutoTestInv` consists of the types with what each phase has read and tested (`AutoTestSound`), the
accounts of the run with the budget for what is to come (`Accounted`), and what every record of the
log says of the backtests it stands for (`LogSound`).

| Theorem | States |
|---|---|
| `EveryVariantIsAccounted` | each variant of a run ends in one record or is still to come, the pool is what passed, and all runs together, dead ones too, keep the budget |
| `HoldoutIsFresh` | the years a holdout judges a spec on were in no window of a walk-forward of that spec, in this run or any before, that ended no later than the holdout starts; whatever each run keeps |
| `OverturnsTestFewer` | a variant turned down passes on the same walk-forward years only in a run that tests fewer, or with more trades in its first backtest |

The last one argues that the years read tell the windows (`YearsTo`), hence the sums the verdict is
taken on, and that the bar rises with the number of variants and falls with the trades.

**`Research_proofs`, the options backtests** (assumptions of `OptionsResearch`: price tables of
naturals, a fill offset of at most the half spread, positive percentages, books of known
strategies).  `StudyInv` is about the daily loop under any study: the types (`BookTypes`), that
nothing is open or ordered under an unknown tag (`TagsKnown`), that an order is asked for only under
a tag with nothing open (`OnePositionEach`), and the two properties `CapsHold` and `BooksAgree`.
`FuturesKnown` is about a 0DTE session: it is entered and settled on bars of the contract asked for.

| Theorem | States |
|---|---|
| `CapsAlwaysHold` | the caps on capital and positions hold at every step of every study: an order fills only if there is room for it then, and a close frees no less than was charged |
| `OnlyReTaggedPositionsStack` | a tag holds more than its strategies only if one of them puts its own id on orders |
| `BooksAlwaysAgree` | trades and rejections are those of the accounts, and what ends a run early is a wrapper that leaves the wrapped id |
| `SessionsUseOneFuture` | a 0DTE session is decided and settled on one future if its options are on one |
| `PassingMadeMoney` | a study that passes made money on days it was not fitted to |
| `SpreadsPayWithinTheWings` | a 0DTE spread is sold, bought back and settled within the width of its wings |
| `GatesRankOnThePast` | a rank gate ranks a day of a fold or test among days before it |
| `ClosesArePossible` | a trade loses no more than was set aside and earns no more than its legs can pay, the spread apart |

A study that passes made money on days it was not fitted to, if the thresholds are positive
(`PassingMadeMoney`): a median above zero needs a fold above zero, of whatever order the sort gives,
and a fold is a sum over its trades.  A 0DTE spread is sold, bought back and settled between nothing
and what its wings are apart (`SpreadsPayWithinTheWings`) if the closes of a minute leave no
arbitrage (`ArbitrageAssumption`, which TLC evaluates on the prices of the run): the strategies pick
each wing beyond its short, so a spread is one difference of calls or of puts, or one of each.

What a rank gate remembers (`GatesRankOnThePast`) is kept by `GatesInv`, which says where each
measure came from: today's is what the tape says of today (`ReadsTheTape`); any other was taken in
an earlier fold, or earlier in this one (`FoldsInOrder`); and the last ones, as many as the training
days of the test and the turns since (`Fresh`), are at the end of the history (`WindowsInOrder`), so
that a rank over no more days than the training has sees no other window.  The strategies of a
cross-validation live through all its folds, so their order matters: `CpcvRuns` states it by the
first path that needs a fold, and `FoldsComeInOrder` shows from the lexicographic order of the paths
that it is the order of the days; for a walk-forward it is `WalkForwardRunsFollow`.  A day is
measured once by each gate (`MeasuredOnce`; the deltas of a chain are never missing,
`DeltaAssumption`).  The property is about the strategies of the book whose turn of the day is over.

A trade whose legs end on one day, and had quotes when it was closed, is closed at a price they can
have (`ClosesArePossible`).  `HedgedBook` is its invariant: orders and positions sell a call only
against one they buy (`Hedged`, shown for every strategy in `OrdersAreHedged`), and what is set
aside is the maximal loss.  The code takes that loss from a few sampled prices; what hedged legs pay
is on a line between two strikes and flat above the highest, so it lies between what they pay at two
sampled prices (`SamplesAreEnough`).  Prices are fair if they are the mean of what the legs will pay
under some outlook, one for all legs of a snapshot (`Outlook`, `OutlookAssumption`, which TLC
evaluates on the prices of the run: `MCOutlook` gives laws under which they are fair); Black-Scholes
prices of one volatility and no interest are.  Totals of fair prices are fair (`MeanOfTotals`), so
legs are worth no less than the worst sampled price pays and no more than the best
(`WorthWithinPayoffs`), and a fill is within half the spread of what a leg is worth
(`FillsNearTheo`).

**`Sums_proofs`.**  The models add up with the folds of the community modules, which take the
elements of a set in an order that CHOOSE gives.  The library's induction theorems take an operator
and cannot be used; `NumberInduction` and `SubsetInduction` state the same with a set in its place,
and follow from `<` being well-founded.  With them a fold exists as a function (`FoldExists`) and
does not depend on the order (`FoldTakesAny`), so that one element can be taken out of a total
(`TotalRules`).  Totals are linear and monotone, and a total of weighted means is the mean of the
totals (`FairTable`, `MeanOfTotals`).

**Only model-checked.** Liveness, which needs fairness and ENABLED: `OutcomeIsLearned` and
`DifferenceIsEscalated`.  Every safety invariant and every action property of a passing run is a theorem.

## 5. Finding

**A filled combo never becomes FILLED** (`combo_filled`).  `_handle_status_event` of the combo
router calls `apply_transition` without a fill count; the state machine refuses FILLED unless the
fills equal the quantity, and the exception ends in ib_async's event dispatch.  The module's
docstring promises PENDING, SUBMITTED, FILLED.  As a consequence the options session times out on
every filled order, cancels it in vain, and writes no registry row.

## 6. Observations

Met while modelling; where a property depends on one, the property names it as a cause.

*Execution.*
- `execution/log.py` says that state can be rebuilt from the log; its records carry no fill count,
  so `filled_quantity` cannot.
- `Inactive` on a WORKING or PARTIAL order leads to UNKNOWN rather than REJECTED, as the graph has
  no such edge (`ibkr_status.py:22`); a partial fill reported under `Submitted` leaves the order
  WORKING (doc 11 expects PARTIAL).
- A query that raises ends the reconciliation tick; if one fails for ever, the checks after it in
  the tick never run.  An order that is PENDING and not yet at the broker is flagged as missing.
- The divergence detector proposes to reopen a FILLED order; the graph has no edge out of FILLED.
- `update_on_fill` clamps counts at zero, so a close reported twice passes unnoticed.
- The session-end flatten may use the close of a bar that lies outside any session.

- `place_combo` says that re-attempting an id raises (`ibkr_options_router.py:274-277`); the check comes
  before the await of the contracts, so of two calls that overlap neither does.  No caller in the
  repository overlaps them.

*Live sessions.*
- The sequence number in a close's client order id is an index among the positions that trigger in
  this run (`options_close_loop.py:310`), and the date in it is that of the latest snapshot
  (`cli.py:1975`), so another run can send the same close under another id, which the docstring (lines
  24-27) says the broker would refuse.  In `NeverInverted` this is one way to the cause `Crossed`; the
  other is a close in TWS or an assignment between the reconciliation and the close of the session.
- `live-options` returns before the close loop on a day without entries.
- `load_open_positions` ignores the order of rows, so an id closed once can never be open again.
- The MES record is marked closed when the closing combo is placed, not when it fills.

*Bar backtest and strategy classes.*
- A stop fills at its own price when the bar gaps through it (`harness/runner.py:355`), in the
  strategy's favour; `05_backtest_harness.md:155` says there are no magic fills.
- Features have a latency of one second, so a class that reads its bar feature at the bar's close
  sees the bar before: `compression_breakout` arms the range of the wrong bar, `volume_spike_fade`
  compares two bars.  Its docstring's "very next bar" (lines 6-12) is not kept either: a
  class is not asked on bars its gates turn down (`harness/runner.py:414-420`).
- `range_break_fade` keeps the bars it was shown before its levels were known, or while they were
  others, and compares them with the levels of the bar that decides (`range_break_fade.py:143`).
- The branches of the classes for a position that is not flat are dead: the runner does not ask a
  class while it holds one.
- The session-end close pays slippage although its comment says not.  A stop that cannot be
  computed (`AtrMultiple` without an ATR) raises and abandons the run.

*Options backtests and studies.*
- A dead quote closes a leg at zero (`options/runner.py:394`), while marks fall back on intrinsic
  value (`positions.py:352`).
- The refusal of undefined risk in fact refuses positions without risk.
- The skew and term-structure gates leave the base strategy's id on an order, and the accounts of
  the portfolio runner are kept by the gate's: booking such a trade raises a `KeyError`
  (`portfolio_runner.py:172`).
- A gate that puts its own id on an order bypasses the rule of its base strategy that looks for a
  position of its own (`strategy.py:159-166`).
- On a day without a snapshot of its underlying the multi-source runner marks a position against
  the other source's (lines 226-230), and it books a rejection for want of a snapshot on no
  strategy's account (lines 252-263).  Realized
  volatility history mixes underlyings (line 215).
- A single run drops what is open at its end, as do the windows of a study.
- The percentile of the VIX gate on today's open is ranked with the day's own close (lines
  223-228).
- The purge and embargo of the cross-validations are accepted and not used (`harness/cpcv.py:215`,
  and its options twin).  Strategies are shared by the windows of a walk-forward
  (`walk_forward.py:217-231`), so days may be ranked among later ones.
- Intervals include both ends (`chain_io.py:96-98`, `harness/data.py:52-54`): the bar on a boundary
  belongs to both sides of it, in the auto-test to walk-forward and holdout.
- The sanity backtest of the auto-test reads the whole coverage, the holdout included
  (`orchestrator.py:262`).  Several variants may be tried on one holdout, in one run and over several,
  which `07_auto_generation.md:174` and 247 forbid.  The correction counts the variants of one run, and
  falls with the trades of data the walk-forward does not see.
- Duplicates are found by a hash of the whole spec, its id and name included (`orchestrator.py:102-104`),
  so the same strategy under two ids is tested twice.

*0DTE backtest.*
- The comment at 450-455 speaks of the future the strategy entered against; the code takes the
  future of the first leg in the snapshot.
- A session whose condor was closed early is still dropped if it has no settlement price (461
  before 475).  The branch for a missing closing cost (481) cannot be taken.
- The lookup of a future's price takes a bar of any age if it is of the symbol asked for, and walks
  back 59 bars at most if it is not; after a roll, sessions with options on the old contract are
  skipped.

*Features and pairs.*
- The pair backtest joins on `ts_utc` (`harness/pairs.py:161-207`), not on the time at which a row
  may be served, contrary to `registry/api.py:7-11`.
- The no-lookahead audit takes upstream features from the store, where its docstring says that "Bugs
  in the no-lookahead invariant cannot hide here" (`no_lookahead.py:8-9`), and compares 200 rows
  unless asked for more (lines 67-68): a feature that looks at events to come is caught only if it
  is audited itself and a row it shows on is drawn, and one computed from it may pass.
- `_persist` deletes the partitions it is about to write (`engine.py:227-252`).
- The last bar of a resampling is partial until it is computed again; changes of the event calendar
  change rows of the past.
- A pair entry that is pending at the end of the day fills on the next; its time stop counts rows
  that have a z-score only.

## 7. Not modelled

- Prices, Greeks, slippage, commissions and P&L as floating-point numbers.  Prices are small
  integers and costs are left out; Black-Scholes is a table of deltas by distance from the money.
- Statistics (Sharpe ratios, their deflation, bootstrap intervals).  Verdicts are taken on signs
  and counts of profitable folds.  The cross-validation of the bar harness shares the operators
  of `Windows` and has no run of its own beyond them.
- The netting of legs in `reconcile` when two positions share a leg: positions in
  `OptionsSession` share none.
- The three query snapshots of the futures router (they change nothing), the pnl check of the
  reconciliation loop (it compares nothing yet).
- The session-end flatten plan and the transition log: nothing calls them.
- Timestamps of transitions, reasons, and the text of alerts.
- Language-model calls, parsing of vendor files, regime labels, evidence packets, dashboards, and
  the parts of the command line that only print.
- The clock of the risk gate is in hours and the reconciliation's in units of its shortest
  cadence; clock changes are not modelled.
- Whether `live-options` reaches the close loop on every day with something to close: a run without
  entries never begins (`Begin`), but no run keeps track of the triggers that were due.
- Data ingested while an auto-test runs (they grow between runs), and a last line of its log torn by a
  crash.  That the command refuses an invalid spec when it loads it: the orchestrator is modelled for
  any caller.
- The switches of the pair backtest: `rth_only` and `use_zscore_exit` keep their default, on.

## 8. Plan

1. `OptionsReconcile`: `reconcile` leg by leg, as operators over bags of legs, checked against
   a reference definition, for positions that share legs.
2. `ReconciledRouter`: `IbkrRouter` with `Reconciliation` on top of one broker, in place of the
   freely moving sides, to ask whether an UNKNOWN order is ever resolved.
3. `SessionFlatten` over `OrderLifecycle`: what the plan leaves behind (orders that are SUBMITTED
   or UNKNOWN are not cancelled).
