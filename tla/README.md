# Formal models of the quant research lab

TLA+ modules that model this repository where the order of steps, a crash,
a rounding or a look at a later price decides whether money, a one-shot
experiment or a verdict is lost; the TLC runs that check them; and theorems
proved with TLAPS.

Contents: [the system](#the-system) · [modules](#modules) · [two kinds of
model](#two-kinds-of-model) · [the rebalancer](#the-rebalancer) · [the
planner](#the-planner) · [overlay, holdout and
reveal](#overlay-holdout-and-reveal) · [the international
test](#the-international-test) · [search and
validation](#search-and-validation) · [studies of
strategies](#studies-of-strategies) · [decision helpers](#decision-helpers) ·
[runs](#runs) · [fairness](#fairness) · [what is proved](#what-is-proved) ·
[findings](#findings) · [what is not modelled](#what-is-not-modelled) ·
[plan](#plan) · [reproducing](#reproducing)

## The system

The lab searches for trading strategies on past prices, validates them once,
keeps the newest data sealed, tracks candidates on paper, and trades a core
portfolio on an Interactive Brokers (IB) paper account. Around the core
portfolio it answers questions of its owner: what it would have lost, what one
can live on, what if. It is a set of Python scripts, started by cron or by the
owner, that share one SQLite ledger, YAML configs, a parquet cache and a folder
of broker journals. There are no threads: concurrency is between processes,
between a process and the broker, and between a process and being killed.

| Component | State it keeps | Operations | Hard behaviour | Correct when |
| --- | --- | --- | --- | --- |
| Broker rebalancer (`broker_run`, `broker_gate`, `broker_journal`, `broker_session`, `scripts/rebalance.py`) | journal folder, `events.jsonl` | evening run, `--flatten`, `--accept-positions` | the account moves between and during reads; orders die, are lost or half sent; kills at any point | trades only on an account its newest journal describes; no share sold twice; a session is traded once; every run leaves a trace; reconciliation neither misses nor cries wolf |
| IB adapter (`broker_ib`) | the connection | connect, holdings, open orders, submit, flatten | a call raises after it took effect; `cancel_all` succeeds in part | what it reports is what IB did |
| Planner (`rebalance`, `risk`) | none | `plan` | floors, deadband, buy cap on a changing equity | long-only, keeps the cash buffer, never passes a target, complete exits, settles |
| Broker configuration (`broker_config`) | none | parse `config/broker.yaml` | — | refuses what it does not know |
| Ledger (`ledger`) | runs, tests, notes, validations, holdout, reveal, overlay and international events, meta tests, pins | one committed transaction per call | check and insert are separate transactions | what is recorded stays; unique rows stay unique |
| Holdout gateway (`holdout`, `periods`, `unseal_holdout.py`) | `holdout_events` | `unseal` | two callers; crash between record and look; forced repeats | a look is recorded before it happens; only the first is unforced |
| Macro overlay protocol (`scripts/overlay.py`) | `overlay_events` | research, validate, holdout | crashes, retries, an edited config | each step has one result, in order, for the config research passed with |
| Macro overlay numerics (`overlay`, `overlay_eval`, `overlay_null`, `macro`) | none | states, weights, shuffled nulls, verdicts | months end on rows only the next row confirms; prices of living are published late | only de-risks; causal; the null is as often on as the real signals |
| International test (`international`) | `international_events`, pin, frozen snapshot | check-data, run, resume | crash between snapshot, pin, event and score | a set is used once, in order, only on its frozen data |
| Core reveal (`core_reveal`) | `reveal_events` | reveal, `--force` | as the holdout | one look is recorded before it happens |
| Search (`search`, `combined`, `factor_run`, `criteria`) | runs, tests, notes | seed, batch, fixed, note | resumed batches, changed hashes, duplicate candidates | a candidate is tested once per run, by one rulebook; every test is counted |
| Validation (`validation`, `rebuild_validation.py`) | `validation_events` | validate, rebuild | stops half-way, stale survivors, counts that grow while they are used | a look is earned and judged against every attempt |
| Walk-forward (`walkforward`) | `meta_tests` | tune, run | look-ahead at period boundaries | a period is chosen from earlier data only |
| Engine and portfolio (`engine`, `checks`, `portfolio`, `tradability`, `live_weights`) | none | backtest, combine | signal on one close, execution at the next open | no return depends on a later price; returns are those of an account |
| Strategies (`strategies/`) | none | weights of each day | warm-ups, exits, free slots over many tickers | names leave by their rule only; never above the capital |
| Daily health (`health`) | none | checks | stale or missing bars, a member that raises | an unhealthy day never trades |
| Caches (`data`, `macro`, `fundamentals`, `factor_data`, `pit_universe`) | parquet files, start sidecars | load, refresh, panels | partial downloads, stale sidecars, late filings, splits | a frame is what it claims to be |
| Paper track (`paper`) | pin | track, pin | kill rules recomputed over the whole track | a dropped candidate stays dropped |
| Decision helpers (`decision*`, `longrun`, `whatif`, `shock`, `stress`, `core_compare`, `history*`, `fragility`, `true_cash`) | none | reports over histories | five loops that pay withdrawals, NaN weights, spliced prices, restated filings | reports of the same plan agree; money adds up; nothing said of a finished period changes |
| Reports and site | files written | render | — | — |

How they interact: the evening run asks health for the live weights of the
combined portfolio, calls the planner and the adapter, and leaves a journal for
the next run. Search grades candidates with the engine, next to the core, and
records them; validation takes its survivors from the ledger, and rebuilding a
validation takes everything from it; a walk-forward selects among survivors.
The overlay and `unseal_holdout.py` share the holdout gateway. Overlay,
international test, reveal, search and validation meet only in the ledger. The
decision helpers share the strategies, the engine's frames and, two by two,
loops and configuration; they write nothing that another component reads.

`PROJECT.json` lists these components with their sources and status, the
hazards at their lines, and the source lines behind every definition.

## Modules

| Module | Models |
| --- | --- |
| `Rebalancer` | `broker_journal.py`: journal entries, the baseline, expected positions, reconcile; the three runs against IB |
| `PositionBook` | abstract: an account, the record of it, and when the record may be false (never) |
| `RebalancerProperties` | the rebalancer's properties and its refinement mapping to `PositionBook` |
| `RebalancerProofs`, `PlannerProofs`, `OverlayProofs`, `InternationalProofs`, `ResearchProofs`, `StudiesProofs` | theorems about the component they are named after |
| `FrameProofs` | lemmas about the operators of `Frames`, and inductions over sets |
| `BookProofs` | theorems about the books the studies invest; EXTENDS `StudiesProofs` |
| `Planner` | `rebalance.py` and an account it plans for day after day, with its properties |
| `Overlay` | the overlay's steps, the holdout gateway and the reveal over the ledger's three tables, with their properties |
| `SealedHoldout` | abstract: looks are recorded before they happen, later ones as forced |
| `International`, `InternationalProperties` | the sealed runs of `scripts/international.py` over pins, events, snapshots and reports |
| `OneShotSets` | abstract: sets used once, in order, under a fixed plan, with the one verdict of their terms |
| `SearchRules` | proposals, pruning, mutation, neighbours: what a run decides from what it has tested |
| `Research` | the commands seed, batch, fixed, note, validate and tune over the ledger; EXTENDS `SearchRules` |
| `RebuildValidation` | `rebuild_validation.py` as a function of `Research`'s tables |
| `ResearchProperties` | the properties of both |
| `Tape` | the growing history that every study and report below is computed from |
| `Frames` | fractions, NaN, columns of prices, rows of weights |
| `Strategies` | every family of `strategies/` |
| `Engine` | `engine.py`, `tradability.py` |
| `Portfolio` | `portfolio.py`, `live_weights.py`, the caps of `risk.py`, `health.py`, `paper.py` |
| `WalkForward` | `walkforward.py` |
| `Fundamentals` | `fundamentals.py`, `pit_universe.py`, `factor_data.py`; `data.py`, one ticker's files |
| `MacroOverlay` | `overlay.py`, `overlay_eval.py`, `overlay_null.py`, `macro.py` |
| `Studies`, `StudiesProperties` | composes the modules from `Frames` to here over one tape, adds the grade of a candidate (`search.py`, `combined.py`, `criteria.py`, `metrics.py`) |
| `Withdrawals` | amounts, spending rules, tranches, resampled paths |
| `Outlook` | `decision.py`, `decision_config.py`, `true_cash.py`, `stress.py` |
| `CoreCompare` | `core_compare.py`, what `core_reveal.py` reveals |
| `Retirement` | `longrun.py`, the reports of `decision_rules.py` and `decision_staged.py` |
| `WhatIf` | `whatif.py`, `shock.py` |
| `Fragility` | `fragility.py` |
| `History` | `history_data.py` and the joins of `international.py`; `history.py` |
| `DecisionsProperties` | composes the modules from `Withdrawals` to here over one tape |
| `MCRebalancer`, `MCPlanner`, `MCOverlay`, `MCInternational`, `MCResearch`, `MCStudies`, `MCDecisions` | small values for the constants |

Next to a definition a module may contain a variant of it with a bug
(`PlaceSigned`, `GateOrdersUnchecked`, `OutTooLate`, `EverFiled`, ...). No
specification uses them. They are what the properties are tried against: with
one in place of the original, the property named in `PROJECT.json` fails.

## Two kinds of model

**Protocols.** `Rebalancer`, `Planner`, `Overlay`, `International` and
`Research` have an action per broker call, query, committed write or file
operation, and environments that interfere between them. A behaviour of
`Rebalancer`, `Overlay` or `Research` has a `scenario` that never changes:
which faults may happen, which processes overlap, what is run. One run then
checks all scenarios, and each property says in its own text which scenarios
it is about (`Acked`, `Clean`, `Sequential`, `AloneAtATime`, `kills = 0`, `~refuses`)
instead of leaving that to a configuration file.

**Functions of a history.** Everything below `Tape` is a pure function: prices,
filings or loads in, weights, returns or verdicts out. A behaviour of `Tape`
chooses a `subject`, a kind of study with its parameters, and appends one day
after the other; what is computed from the tape is computed from all of it
again, as the scripts do. When the history is over, the subject is given
another one (`StartOver`). Some promises relate a result to an independent
account of it, others compare what was said yesterday with what is said today.
Most of both kinds are action properties: the former are stated of the tape
before a step, and since every tape has a next step they are checked of all of
them, the complete ones included. (As invariants they would mean the same, but
TLC's coverage statistics unfold the whole definition of an invariant.) Fractions are exact (`Frames`): a float's last digit is outside
the model. A Sharpe ratio, a volatility and a correlation are parameters,
because nothing here depends on more than that they are functions of the days
they are given (of the closes up to a day, for a volatility). Random draws are chosen from small sets;
a draw of the overlay's null permutes the spells of every signal, each by itself.

## The rebalancer

**State.** `pos`, `buying`, `selling` are the account at IB: shares, and the
open quantity of buy and sell orders. `journals`, `events` and `stray` are the
folder: `*.json` files, lines of `events.jsonl`, and dated files whose `.tmp`
was left by a kill. `pc` is where the active run is, or `idle`, or `killed`;
`stamp` is its `recorded_at`, `day` its session, `held` the positions it has
read, `todo` and `sent` the orders still to send and those IB accepted,
`some` and `failed` the emptiness of `_submit_each`'s record list and its
error. Positions, orders and deltas are functions from symbols to integers:
what a dict of the code leaves out is 0.

**Actions.** Each broker call and each file write is a step of its own,
because that is where the account can move or the process die.

| Code | Actions |
| --- | --- |
| `gate()` reads holdings, then open orders | `ReadHoldings`, `GateOrders` |
| `_session_checks`, `_reconcile` | `Checks` |
| `_trade` up to the first order | `Size` |
| `_submit_each`, `IbBroker.submit` | `SubmitAccepted`, `SubmitDead`, `SubmitFails`, `SubmitLost` |
| `_halt` under `_guarded`; `_append_error`, `append_event` | `Halt`, `EndWithEvent`, with `Record` in each |
| `_settle`, `write_journal` | `WriteDated`, `WriteDatedFails`, `NothingSubmitted`, `ReportPartial` |
| `_flatten`, `IbBroker.flatten` | `FlHoldings`, `FlCancel`, `FlPositions`, `FlSell...`, `FlFails`, `FlWrite`, `FlWriteFails` |
| `_accept` | `AcHoldings`, `AcOrders`, `AcWrite`, `AcWriteFails` |
| any halt that does not depend on the state above | `Refuse` |
| the market, the owner, the calendar | `Fill`, `Expire`, `ManualTrade`, `NewDay` |
| `kill -9`, power loss | `Crash`, `CrashInWrite` |

**Abstractions.**

- `Refuse` may end a run at any point before its first effect. It stands for
  all halts whose cause is not modelled here (connection, account type,
  disabled config, health, weights, closes, cash); an event with status
  `refused` stands for all of their statuses. What health lets through is in
  `Portfolio`.
- `Size` chooses any plan the planner could return: whole shares, no short
  target, nothing outside the universe. `Planner` models which one.
- One run at a time: every run connects with the one `client_id` of
  `config/broker.yaml`, and IB refuses a second connection with it.
- Stamps are the runs' `recorded_at`; a run's is later than those before it
  unless `clock_back` is among the faults. Two runs in the same second, whose
  flatten or accept files would have the same name, are the `journal_fails`
  case: `write_journal` refuses to overwrite.
- The scenario's `faults` say which failures may happen. Without `midrun` the
  account only moves while no run is active. That is the evening run's
  situation: cron starts it at 18:30 New York time after the close, and its
  market-on-open orders execute at the next open. It is *not* true of a flatten
  during the session, whose DAY orders may execute at once; the scenario `Busy`
  and the run `gate_stale_read` are about runs during which the account moves.

**Properties.**

- `SizedOnReconciledAccount`: while an evening run submits, account and book
  are what it read plus what it has sent, and the newest journal had said the
  same. It fails if the gate, the reconcile or the order between them does.
- `NoOversell`: open sells never exceed the shares held, so no sequence of
  evening runs and flattens leaves the long-only account short.
- `NoSecondTrade`: no order goes out for a session that has a dated journal.
- `LeavesTrace`: a run that is not killed leaves a journal or an event with
  its stamp; for an evening run it says which orders IB accepted. There is one
  way to leave neither, and the property says which: the line of
  `events.jsonl` cannot be written (`_append_error` then prints the orders to
  stderr, `_halt`'s failure goes through `_guarded`'s second attempt), and the
  journal the run had to write, if any, could not be written either. One
  failing write alone never loses a run.
- `KeepsPromise`: the runs implement `PositionBook` under the mapping of
  `RebalancerProperties` (owed positions, newest journal, phase of the run):
  trading starts only on an account its record describes, and a record is what
  the account will hold once its open orders are executed.
- `NoFalseAlarm`, `Converges`: without outside interference no run ends in
  a mismatch, and account and journal agree again and again.

## The planner

`Planner` is `plan()` in exact arithmetic: weights, buffer, deadband and gross
cap are multiples of `1/Unit`, money is in its smallest unit, so floors and
comparisons are those of the formulas. A close of 0 stands for a missing, NaN,
infinite or non-positive one, a negative weight for a negative or NaN one: the
code treats each group alike. Around the plan, `Evening` queues it, `Open`
executes it, at the closes it was sized on or at others, and `Market` changes
closes and weights. Accounts may start in debt, where floors of negative
numbers bite.

- `BuyingKeepsBuffer`: a plan that buys anything leaves the cash buffer, also
  when the deadband swallowed the sells that were to pay and when scaled buys
  are rounded. It is about the closes a plan was sized on: at other opening
  prices the cash may go below the buffer, and even below 0, as the code's
  documentation accepts.
- `TowardsTargets`: a plan never passes a target, never shorts, and sells a
  position whose target is 0 to the last share.
- `Settles`: trading stops once the market stands still.

## Overlay, holdout and reveal

A process of `Overlay` is one run of `scripts/overlay.py`,
`scripts/unseal_holdout.py` or `scripts/core_reveal.py`; every query and every
committed insert or update of the ledger is a step. `_refusal` reads the step's
own events (`CheckPrior`), then the research event (`CheckResearch`) and the
unsealings (`Refused`); `Load` may fail and spends nothing; `Record` inserts
the `started` event; `Compute` runs the study; `unseal()` is `UnsealCheck`,
`UnsealRecord`, `Slice`; `FinishVerdict` and `ComputeRaises` write a result,
`ComputeCrashes` an error. Only what raises inside the `try` of `main`
(`InCompute`) becomes a result or an error; the holdout's window is part of
that, the write of a verdict is not. `LedgerRefuses` is a write of the ledger
that raises, because the database is locked or the disk is full: nothing
catches it where a verdict or an error is written. The reveal is `Preflight`,
`RevealCheck`, `RevealRecord`, `Reveal`, `RevealFinish`. `EditConfig` changes
`config/overlay.yaml` at any time, and `Kill` ends a process between any two
steps.

- `OneResult`: one run after the other, a step has one result, ever; whatever
  overlaps, there is one holdout event of the overlay, and no look, neither at
  the holdout nor at the shortlist's windows, before it is recorded.
- `PreRegistered`: validation and holdout only after research passed, on the
  config it passed with.
- `KeepsSeal`: the gateway and the reveal implement `SealedHoldout`.
- `EventsEnd`: a process that is not killed, on a ledger that takes its writes,
  leaves no `started` event, whatever its computation raises.

## The international test

A process of `International` is one confirmed `run` of
`scripts/international.py`; check-data writes nothing the runs read. The file
`config/international.yaml` is a record of what decides a run: the order of
its sets, the rules its translation covers, the designated core. It stands for
its own sha256, as a rule and a panel of prices do for theirs. Scoring is
deterministic, so a result is the rule, configuration and data it was computed
from, and its label.

| Code | Actions |
| --- | --- |
| `main`, `run` up to the ledger | `Start` |
| `_rule_refusal`, `_designated_refusal` | `CheckPin`, `CheckSubject` |
| `list_international_events`, `_order_refusal`, the head of `_resume` | `ReadEvents` |
| `_start` | `Download`, `WriteSnapshot`, `ReadPin`, `InsertPin`, `Record` |
| `_resume` from the snapshot on | `Resume` |
| `_score_and_record` | `Score`, `WriteReport`, `Complete` |
| the owner; `scripts/validate.py` | `EditConfig`, `Validate` |
| `kill -9`, power loss | `Kill`, which may leave a file `Torn` |

A download may give other data than the one before. `Overlap` would let runs
overlap; the runs here let one process run at a time, with kills.

- `CanBeFinished`: a set that counts as used still has the data its event
  names, and its configuration is the pinned one. The order of snapshot, pin
  and event, each killed at will, is what makes it true.
- `ScoredOnRecord`: whatever a report or a result says was computed from what
  the ledger had recorded before, and a completed event has a whole report.
- `LabelsAreEarned`: an unlabelled result is of a validated rule, a labelled
  one of a rule with a failed attempt.
- `KeepsOrder`: refinement of `OneShotSets`, with the pin as the plan, an
  event's rule, configuration and data as its terms, and a completed result as
  the verdict.

## Search and validation

`Research` is the ledger as `scripts/search.py`, `validate.py` and
`walkforward.py tune` use it: `runs`, `tests`, `notes`, `validation_events`,
`meta_tests`, a clock `now` that orders rows, and the files a run is bound to
by hash (`files`: criteria, combined configuration, data source). A job is one
command line; `scenario.jobs` says which are typed in which order, whether they
may overlap, how many may be killed, how often the owner edits a file, and what
a backtest would say of every candidate (`world`): on the same data, graded by
the same rules, it says the same again.

| Code | Actions |
| --- | --- |
| the criteria file, read first of all; `seed` with its checks of families and fixed candidates | `Start`, `Seed` |
| `note` | `Note` |
| `checked_run`, `combined_config_for_run`, `check_data_source`, mixing of families | `Check` |
| minutes of downloads, after which a batch reads the run's history, once | `Load` |
| `propose_batch`: new values, grid, mutations, recombinations, pruning | `Propose`, with `SearchRules!Proposals` |
| one candidate graded and recorded; the budget | `TestOne`, `GiveUp` |
| survivors picked, already validated ones skipped | `Pick`, `NextSurvivor` |
| `neighbourhood_check`, each neighbour recorded as a test | `TestNeighbour` |
| the validation event, then its verdict from the trials of that moment, then the correlation with accepted ones | `Validate`, `Judge` |
| `tune` | `Tune` |
| kill, edited files | `Kill`, `Edit` |

A candidate is a family and the index of each parameter's value. Sharpe ratios
enter as `skill` (how many trials a candidate survives), correlations as
`alike`. `RebuildValidation` is the script that reconstructs an invocation from
timestamps and rows, with its guess where it started.

- `OneRulebook`: all tests and validations of a run followed the rulebook and
  data source it was seeded with.
- `TriedOnce`: one command at a time, a batch proposes nothing any command of
  the run has tested, however often batches were killed, and a fixed attempt is
  made once.
- `GivesUpDeadRegions`: one command at a time, what batches spend on a value
  that no test of the run has passed, a validation's neighbour included, is
  below the threshold plus the size of one of the batches.
- `NeighbourhoodHeld`: every look at the validation period is of a candidate
  that passed and whose neighbours, all on the record by then, mostly passed.
- `JudgedAgainstAll`: a candidate is accepted only against every attempt of
  its run so far, including what overlapping commands recorded meanwhile.
- `LooksAreJudged`: unless killed, a look gets its verdict.
- `Replayed`: the rebuilt validation is the one that was printed.

## Studies of strategies

A day of the tape gives each ticker a bar or no price, and what else the
subject needs: what a strategy wants (`market`, `paper`), what candidates hold
and earn (`walk`), filings, splits and month-ends (`facts`, `factor`), loads
of the cache (`cache`), members of the pool, months and consumer prices
(`overlay`).

| Subject | What is computed | Code |
| --- | --- | --- |
| `strategy` | weights of a family | `strategies/*.py`, `_cross_section.build_weights`, `controls.py` |
| `market` | exits before a delisting, a backtest with gap, cost and session legs | `tradability.py`, `engine.run_backtest` |
| `walk` | tracks, trailing ratios, eviction, selection at each period, the stitched sleeve | `walkforward.py` |
| `health` | the portfolio of core and sleeves, caps, the report, the weights a rebalance gets | `portfolio.py`, `risk.py`, `health.py`, `live_weights.py` |
| `facts`, `factor` | trailing years, share counts, market caps, membership, scores, factor weights | `fundamentals.py`, `pit_universe.py`, `factor_data.py`, `factors.py` |
| `cache` | parquet, sidecar and legacy CSV after a sequence of loads, some killed | `data.py` |
| `overlay` | signals, monthly states, moves, capped weights, shuffled spells, the two verdicts | `overlay.py`, `overlay_eval.py`, `overlay_null.py`, `macro.py` |
| `candidate` | a grade alone, next to the core, or against a null sleeve, in two periods | `search.evaluate_candidate`, `combined.py`, `criteria.py`, `metrics.py` |
| `paper` | forward returns, both kill rules, review, promotion | `paper.py` |

- `NoHindsight`: what was computed for a day is never revised by later days:
  weights, selections, returns, panels, verdicts. It is an action property of
  the tape, so it is `checks.py`'s test of causality on every cut of every
  history instead of on random ones, and for every study. Two exceptions are
  the code's own: `exit_before_delisting` knows a day ahead that prices stop,
  and a backtest that a missing price makes refuse is gone as a whole.
- `NeverOverInvested`: no row is short or above its capital, and the overlay
  takes no risk its base has not.
- `KeptUntilExit`: a name leaves a sleeve by its exit or its age, never for
  a better one, and none is held while the regime is off.
- `Tradable`: after the exits, every sale happens while there is a price, for
  tickers that are listed once and delisted once.
- `MatchesAccount`: the engine's three legs multiply to what an account makes
  that buys and sells whole positions at the open after each decision.
- `HealthyMeansWhole`: weights that a rebalance gets are those of the whole
  portfolio, complete and fresh.
- `TrueData`: a trailing year is the sum of four quarters in a row that were
  public; a market cap is what the company was worth in the market that day,
  although prices and share counts are both adjusted afterwards; a served frame
  reaches back to what was asked for; a shuffled null is on and switches as
  often as the signals; a candidate that does what its null does improves
  nothing.
- `DropsAreFinal`: the paper track recomputes itself every day and a dropped
  candidate stays dropped, as long as every day has all its prices.

## Decision helpers

| Subject | What is computed | Code |
| --- | --- | --- |
| `income` | monthly amounts, the five January rules, tranches, blocks of resampled months | `decision_withdraw.py`, `decision_rules.py`, `decision_staged.py`, `longrun.py` |
| `outlook` | the decision report, the comparison and the reveal of the cores, long run, rules, staged entry, what-if, shock; each refuses as the code does, by being NaN | `decision.py`, `decision_config.py`, `true_cash.py`, `stress.py`, `core_compare.py`, `core_reveal.py`, `whatif.py`, `shock.py`, `metrics.py` |
| `fragility` | the view of the filings of a day, six measures, breaches, the class | `fragility.py` |
| `history` | stand-ins checked against their funds by day and by month, spliced to them, filled gaps, episodes, what portfolios did in them | `history_data.py`, `international.py`, `history.py` |

- `RunnersAgree`: five loops pay withdrawals and six reports put them
  together; where two are asked the same question they answer the same. This is
  the refinement idea for code without an abstract version of itself: each is
  the other's specification. The exception is the documented one: where
  a withdrawal leaves a value in (0, `DEPLETED`], the helpers stop and
  `run_paths` applies one more return to it
  (`docs/methodology/staged-entry.md:186-190`), and that one only
  (`AgreeUpToDust`). Likewise cash in (0, `DEPLETED`] counts as none, so an
  entry in tranches may lose that much against one all at once.
- `MoneyAddsUp`: what is left is what the start would have become less what the
  payments would have become, under every rule, until the path is empty; raises
  that are skipped are those of years that lost money.
- `FullyFunded`: a day's return of a portfolio is that of one of the mixes the
  report lists for it, and a replayed window starts early enough for the rule
  to be in it what it is over the whole history.
- `MoneyNeverHurts`: more cash or cash flow never makes a company's class
  worse, through signs, zeros, measures that become available, or the breach
  that two measures share.
- `FallsAreMeasured`: every fall of the index of the given size is an episode,
  once; a portfolio in the fund that follows the index, and in its stand-in
  before, lost what the index lost and was back when it was.
- `SaysTheSame`: a report on a finished period and a screen as of a date say
  the same for ever.

## Runs

| Run | Checks | Shows |
| --- | --- | --- |
| `rebalancer` | `TypeOK`, `SizedOnReconciledAccount`, `NoOversell`, `NoFalseAlarm`, `LeavesTrace`, `NoSecondTrade`, `KeepsPromise`, `Converges` | six scenarios: nothing outside interferes; every fault between runs; the same with every order acknowledged and a symbol outside the universe; the account moving under the runs; the clock set back; a folder that takes no events, no journals, or neither |
| `planner` | `BuyingKeepsBuffer`, `TowardsTargets`, `Settles` | two symbols and a dropped one, all accounts, prices and weights of `MCPlanner` |
| `overlay` | `OneResult`, `PreRegistered`, `KeepsSeal`, `EventsEnd` | five runs one after the other with kills, edits and a ledger that fails; four that overlap; three that overlap on a ledger that fails; the same for reveals |
| `international` | `CanBeFinished`, `ScoredOnRecord`, `LabelsAreEarned`, `KeepsOrder` | four runs one after the other on two sets, three versions of the file, two downloads, kills |
| `research` | `OneRulebook`, `TriedOnce`, `GivesUpDeadRegions`, `NeighbourhoodHeld`, `JudgedAgainstAll`, `Replayed`, `LooksAreJudged` | twenty-one stories of up to five commands: searched and validated twice in twelve worlds, interrupted, overlapping, with edited files, with dead ends |
| `studies` | `NeverOverInvested`, `KeptUntilExit`, `Tradable`, `MatchesAccount`, `HealthyMeansWhole`, `TrueData`, `NoHindsight`, `DropsAreFinal` | every subject of the table above on all tapes of `MCStudies` |
| `decisions` | `RunnersAgree`, `MoneyAddsUp`, `FullyFunded`, `MoneyNeverHurts`, `FallsAreMeasured`, `SaysTheSame` | every subject of the table above on all tapes of `MCDecisions` |
| `flatten_twice`, `gate_stale_read`, `international_label`, `double_validation`, `eviction_baseline` | one claim each | the [findings](#findings) |

**Bounds.**

- `rebalancer`: `MaxShares = 1`: the properties tell apart no shares, some
  shares, and the same share sold twice; partial fills need two shares only to
  be partial, and a fill of one symbol but not of the other gives the same
  mixed states. `MaxRuns = 3`: the longest story is a run that goes wrong, one
  that reacts to it, and one that trades on the result. `MaxDay = 2`: a rerun
  of a session and a new one. `MaxManual = 1`. Two symbols are enough for
  a partial submit.
- `planner`: prices 3, 5 and 7 and fractions of tenths leave remainders in
  every floor; cash of -20 makes equity negative.
- `overlay`: five runs are each step once plus two failed attempts; four
  overlapping ones are two rounds of two.
- `international`: four runs are a set that crashes and is finished, before and
  after the other set's turn.
- `research`: three families, at most six candidates in a family, a pruning
  threshold of two. A seed, two batches and two validations are the shortest
  story in which a validation sees another one's neighbours.
- `decisions`: `Depleted` is 1/100, and one income subject draws 21/64 a month,
  so that halving and doubling leave 1/128 after a withdrawal and 1/64 after the
  return that follows: the dust of both exceptions occurs.
- `studies`, `decisions`: tapes of two to eight days, prices of two to four
  values and no price, years of one or two months. The windows of the subjects
  (moving averages, look-backs, staleness, ages) are one to three days, so that
  a tape has a warm-up, a day that depends on it, and days after it has slid
  out. Days bring only what the other side of the code could read: a filing
  never precedes its period, a month's price of living is one number.

**Deadlock** is checked only for the functions of a history, whose tapes always
go on. The bounded scenario systems stop when their runs or days are used up,
and the real one stops when nobody starts a script.

## Fairness

- `Rebalancer!FairSpec`: weak fairness of `RunStep`, for a process that is
  started runs to its end unless it is killed (no call of a run waits for
  another run), and of each `Fill`, for IB executes a queued market order at
  the next auction. Starting a run is not fair: `Converges` does not depend on
  the owner or on cron.
- `Planner!Spec`: weak fairness of `Evening` (cron) and `Open` (the auction).
- `Overlay!FairSpec`: weak fairness of `Go(p)`, a started process; no step of
  a script waits for another process. `EventsEnd` is about scenarios without
  kills and with a ledger that takes every write.
- `Research!FairSpec`: weak fairness of each job's steps, for the same reason.
  `LooksAreJudged` is about scenarios without kills, and a write of the ledger
  that raises ends a command like a kill.

## What is proved

Each theorem is about the module's `Spec`, for every value of the constants
that the named assumptions allow: any number of symbols, processes, candidates
or runs, every set of faults. A property of the runs is proved under its own
name; `...Holds` is the theorem of the property it is named after.

**`RebalancerProofs`.** The faults never change (`Rigid`), so a proof about
some of them fixes them.

| Theorem | Needs | Because |
| --- | --- | --- |
| `TypeCorrect` | itself | no open quantity is negative: a fill or a cancel takes what there is |
| `SizedSafe` | `SizedInv` | what was read is still so from the first read to the first order; the book is empty when the orders start; an order still to be sent has no earlier one of its symbol; the baseline was compared |
| `SellsSafe` | `SizedInv`, `SellInv` | every sell still to be sent is covered by held shares that are not being sold: for an evening run because its book was empty, for a flatten because it cancelled everything before it read the positions again |
| `NoSecondTradeHolds`, `LeavesTraceHolds` | `TraceInv` | past the checks there is no dated file of the session until the run writes it; nothing counts as sent before something is; a run that reports a partial submit has its orders on file |
| `KeepsPromiseHolds` | `SizedInv`, `StampInv`, `KnownInv` | a step of a run is a step of `PositionBook` or a stutter: stamps identify journals, so what a run writes is the newest (or, with the clock set back, is not looked at); what it expects is what the account will hold (`KnownInv`) |
| `NoFalseAlarmHolds` | the above, `CleanInv` | between runs the newest journal is what the account will hold, and within one what was read |

**`PlannerProofs`.** `PlanIsCurrent`: a queued plan is the plan of the account
as it still is, which makes the two properties questions of arithmetic.
`TowardsTargetsHolds` follows per symbol: a scaled buy is a share of the delta.
`BuyingKeepsBufferHolds` needs sums over any finite set of symbols. `SumLinear`
proves, by induction over the number of symbols, that a linear inequality that
holds of the terms holds of the sums; with it, scaled and rounded buys cost at
most the budget (`ScaledCost`), and what a plan is worth is its buys less its
sells (`NetWorth`).

**`OverlayProofs`.** One inductive invariant, `Inv`. A process between its
event and its verdict owns that event; while it is between the check and the
event, the research event it has seen is still the one it needs
(`Checked`, `Registered`); the holdout's event is unique because unique in the
table; one run at a time, a step that got past its check has no result yet.
`OneResultHolds` and `PreRegisteredHolds` are conjunctions of it; `KeepsSealHolds`
is the refinement of `SealedHoldout`, for the gateway and for the reveal.

**`InternationalProofs`.** `LabelsAreEarnedHolds` also holds of runs that
overlap. `CanBeFinishedHolds`, `ScoredOnRecordHolds` and the refinement of
`OneShotSets`, `KeepsOrderHolds`, assume `~Overlap`, because they are false
without it (see [findings](#findings)); the invariant adds that what the one
active run has read of the tables and files is still there (`StillSees`).

**`ResearchProofs`.** The tables only grow (`Grows`), so that what a command
has seen stays seen. On this rest `OneRulebookHolds`, `NeighbourhoodHeldHolds`
and `JudgedAgainstAllHolds`, for overlapping commands too: a command knows the
rulebook it has loaded to be the run's (`Session`), a survivor that may be
looked up has all its neighbours on the record, and a verdict counts at least
the trials there were when the look was recorded. `TriedOnceHolds` is about
one command at a time: it needs that those before the active one have ended
and that what it knows of the run is all there is (`AloneInv`).
`GivesUpDeadRegionsHolds` adds an accountant's argument (`SpendInv`): when a
batch proposes, it proposes a value only if the tests with it are fewer than
the threshold, so tests and queue together are below the threshold plus its
size (`Room`); a test moves one candidate from the queue to the tests, and
other runs and commands add to neither. A value that a neighbour's test passes
is alive again, so the bound is about values that never passed.

**`StudiesProofs`.** `TradableHolds` is about any book and any history. A
ticker that may still be held after the exits (`StaysIn`) has a later last
price (`LastDay`: a set of days has a last one), and without gaps it is priced
until then: on the day its shares are bought or sold, and on both ends of
a night they are held.

`HealthyMeansWholeHolds`: the frame of every strategy of the registry has a row
for every day and columns of its own tickers (`FrameOf`), so its last row is the
tape's; a report without errors left nobody out, and what it combined is term by
term what the members owe (`SleevesOwe`: two sums over the same members of the
same parts are the same function's value, whatever that is).

`NeverRevised` is about a tape and one that is a day longer (`Longer`). What is
rolled over the days up to one is the same on both (`SameWindows`), so are the
signals, and by induction over the days the books they make (`SameBook`) and the
sleeves a walk-forward selects (`SameSleeves`): the recursive function of a tape
exists (`BooksExist`, `SleevesExist`), whose steps are then known, and a set of
days that has the first and every next one has all of them (`SetInduction`). A
first signal, a first held row or a month's first day is not moved by later
ones (`SameFirst`). It covers strategies and the null, backtests, the
paper track, walk-forward, trailing-year panels and the overlay with its trials; the
last under `CalendarKept`, which is the caveat of `month_end_mask`'s docstring:
no month ends in holidays.

What companies file is finitely many facts of earlier days (`PublicFits`), one of
which is the latest (`LatestIs`), so share counts, trailing years, market caps and scores are
numbers and fractions (`SharesFactFits`, `TrailingFits`, `CapFits`, `ScoreFits`).
A split on a later day multiplies the shares of every earlier day and divides its closes by the
same number (`SplitGrows`), and the fraction in lowest terms that is their
product stays what it was (`CapKeeps`, `SameCap`): so do ranks, members and a factor's
weights (`SameFactor`).

Four theorems say that data are what they claim to be, each under what is true of
its source:

| Theorem | Needs | Because |
| --- | --- | --- |
| `TrueEarningsHold` | `[]EarningsTrue`: a company files what it earned, for periods that are over | a fourth quarter that only the year tells is the year less its other three (`FourthIsTrue`), so every known quarter is a true one; the last of them, if nothing is missing among the last four, or the last year is a trailing year (`TrailingIsTrue`), and what is public was filed earlier (`PublicIsFiled`) |
| `TrueCapsHold` | `[]CountsTrue`: a filing counts the shares there are on its day | the shares of any day times the splits after it are today's shares (`SharesGrow`), and a close is divided by the splits after it: the factors of the day of the filing and of the day of the close leave the shares of the day times its price |
| `TruePricesHold` | `[]LoadsFit`: days are numbers | what a cache would serve next reaches back to its start, unless the last fetch was killed after the frame and before its start was recorded: every load keeps that, whether it serves, fetches, fails or migrates (`LoadKeeps`) |
| `NullIsMatchedHolds` | `[]DrawsFit`: a draw permutes any number of spells of a kind | spells of the two kinds take turns (`KindsAlternate`), so lengths that are permuted within their kinds make as many spells again (`FlattenIsSpelled`), and a bijection between the days keeps how many are on (`SpellsMatch`); what is before the governing month end stays, and the two parts are joined by counting (`SplitMatches`, `StatesMatch`) |

**`FrameProofs`** and **`BookProofs`.** `FrameProofs` has what the operators of
`Frames` compute: that fractions are over their greatest common divisor
(`DivisorDivides`, `DivisorCombines`), so that `Higher` is an order, and that the `n` first of a
ranking are the `n` first or all there are (`BestFits`); that sums and products
of fractions in lowest terms are unique and can be made in any order (`CombineLaws`,
`FoldOfOneMore`); that a row that is scaled or
floored, shared out over a pool, or summed up by ticker is bounded by what it
is made from. On this rest the five theorems of `BookProofs`:

| Theorem | Needs | Because |
| --- | --- | --- |
| `KeptUntilExitHolds` | `[]PricesTyped` | a sleeve holds the ranked names its slots have room for, and what it carried over: by induction over the days nothing of that leaves but by its exit or its age, and the age counts from the day it was taken |
| `NeverOverInvestedHolds` | `[]DaysFit` | one argument per family: equal shares of at most as many names as slots, a mix or a switch of the parameters, the share of a core and of a sleeve, candidates' sleeves over the members of a month, moves out of what the base has |
| `DropsAreFinalHolds` | `[]WantsFit` | a book that is not above its capital loses no cash, so a growth is known until its book refuses; the day of a kill is the first of its kind and stays the first on a longer tape |
| `MatchesAccountHolds` | `[]OpensFit` | by induction over the days from the first signal: whatever is held through a night or a session, and whether or not something changes hands between them, the day's three factors take what the account is worth at one close to what it is worth at the next (`AccountDay`) |
| `NoHindsightHolds` | `[]CalendarKept`, `[]DaysFit` | `NeverRevised` and `SameFactor`, and for candidates: on a day on which no price stops or comes back, `exit_before_delisting` makes the same exits on the longer tape (`SameOut`); a core and a sleeve either combine on both tapes or on neither, because what rules want is in range (`RowsWant`, `SameCombined`); a period that is over is the same slice of both (`SamePeriod`), so its metrics, trades, benchmark and baseline are (`SameGrade`) |

The five hypotheses are about what days bring, which `Days` leaves open:
prices and volumes are numbers (`PricesTyped`), given scores are fractions and
members finitely many, a split multiplies shares by a whole number and a company files finitely
many facts of numbers (`DaysFit`), what a paper track wants is not above its
capital (`WantsFit`), opens and closes are positive (`OpensFit`), and
`CalendarKept`. The days of
`MCStudies` are such; TLC finds these five, `EarningsTrue`, `CountsTrue`, `LoadsFit` and `DrawsFit` invariant
on all states of the run `studies`.

Assumptions, all stated in the modules and evaluated by TLC: the types of the
constants; `NaN` is no number and no fraction (`FramesAssumption`) and the tickers are no frame's
`NaN` or core (`TickersAssumption`); finite sets of symbols (`Planner`) and of processes (`Overlay`);
`None` is none of the values it stands beside (`JournalAssumption`, both
`NoneAssumption`s); a configuration of the international test names at least
one set. The rules of `Studies` are of the registry or the null
(`RuleAssumption`, `ReportAssumption`), with parameters as in the registry's
parameter spaces: a market's cost is a fraction in lowest terms (`CostAssumption`), a sleeve has at least a slot and takes nothing before its
averages are known, a mix is not short and not above the capital (which
`core_mix.py` checks), the shares of a candidate and its core are not negative
(`profile.py` checks it), and research is over before validation is, as in
`config/criteria.yaml`; a factor scores by one of the three families. A cache
begins with nothing or with what an older version fetched from the legacy start
on (`CacheAssumption`). Its calendars start on a day, a paper track is reviewed
and promoted after a number of days, the periods of an overlay follow on each
other (`CalendarAssumption`), and an overlay's base is fully invested and has
what the signals move (`OverlayAssumption`): its loader checks the base, the
assets and the worst case of all moves; that moves and cap are not negative is
so in `config/overlay.yaml`. The theorems are about safety: fairness plays no part in them.

Only model-checked:

- Liveness: `Converges`, `Settles`, `EventsEnd`, `LooksAreJudged`.
- `Replayed`: where an invocation started is not in the ledger, and the replay
  takes the latest start that explains what is there, or explains most of it
  (`ChosenPlan`). With another start there may be other survivors, so the choice
  is right by what the clocks, the batch size and the candidates of a run happen to be
  and not by an invariant; the run shows it for those of `MCResearch`.
- Of `TrueData`, the null of a candidate (`NullGainsNothing`): that it is graded
  at all needs that its core can be traded, and that `NaN` is no book of any
  kind, which no assumption says that TLC could evaluate. And the decision helpers:
  what they compute is compared with a
  reference definition over given inputs. The library's induction theorems take a
  predicate, which these provers cannot instantiate; where a set can stand for the
  predicate it works (`SetInduction`, from `NatLessThanWellFounded` and `WFMin`),
  and that is how the folds of sums, of products and of divisors are proved.

## Findings

| Run | The documentation says | The model shows |
| --- | --- | --- |
| `flatten_twice` | a second `--flatten` is idempotent because it cancels first | `flatten()` goes on when `cancel_all` failed, and sells the same shares again |
| `gate_stale_read` | after a flatten that raised, the next gate or reconcile catches what went out | the gate reads in the same order: a sell that executes in between is missed by the gate, and by the reconcile, which compares the same stale holdings with the journal of before the flatten and passes; it is sold again |
| `international_label` | the label stays with the result of the designated core | a run resumed through a validated test of the same rule completes without it, under an event that says designated |
| `double_validation` | a candidate may be honestly validated only once | the neighbours that one validation records are survivors of the next under new test ids, and a validated one is validated again |
| `eviction_baseline` | an incumbent's baseline starts at the first date it holds any position | the NaN weights of the warm-up count as held, so flat days enter the baseline |

Seen while modelling, without a run of their own:

- `broker_run`'s docstring has every outcome but a submitting run append a line
  to `events.jsonl`; where that file cannot be written, and the journal cannot
  either, a run that sent orders ends with a message on stderr and nothing in
  the folder. `LeavesTrace` says that this takes both failures.
- An order that executes between the two reads of `_accept` makes it write a
  baseline the account no longer has; between the two reads of a flatten it
  makes the journal expect shares that are gone.
- Two overlapping unsealings, or reveals, both see an empty table and are both
  recorded as ordinary first ones.
- A research step of the overlay that is killed, or interrupted with Ctrl-C,
  or whose verdict the ledger does not take (`overlay.py:202` lies outside the
  `try`), leaves `started`, which refuses the step for good; two overlapping
  ones both get a result. A validation that is killed between its event and its verdict
  leaves the verdict empty for good.
- A first international run takes a pin that appeared during its downloads as
  it is, so with an edited file two overlapping runs record an event under
  a hash that is not the pinned one; and two overlapping first runs of a set
  share one snapshot file, so the refused one can leave the other unable to
  resume.
- The guard of `core_reveal.py` takes the tickers that have to be priced from
  a portfolio's sleeve universe, which is empty for a core: what is left of the
  check is that something is held.
- A fetch that is killed between the parquet file and its sidecar leaves the
  new, shorter prices under the old, earlier start (`TrueData` excepts it).
- A hole inside a ticker's prices, unlike its end, makes a backtest refuse
  (`Tradable` is about tickers without holes), and a paper track with such
  a day may report a candidate as tracked that it had dropped.

## What is not modelled

- `checks.py` cuts histories at random to test the causality of strategies;
  `NoHindsight` states what it tests. `scripts/null_sleeve.py` and
  `factor_smoke.py` record nothing.
- Deflated Sharpe ratios, correlations, volatilities and CAGR: numbers without
  state, here parameters, predicates of the trials, or the growth they are
  a function of.
- Of the international test: translation of rules, windows, market checks,
  `check-data`.
- Of the data: downloads, the screening of today's listings into the
  point-in-time pool, the repair of mis-scaled share counts, `data_check.py`'s
  list of gaps. A month whose last business days are holidays is left out of
  the overlay's tapes: whether the last row is a month's end is then a matter
  of the exchange calendar the code does not have.
- Of the ledger: SQLite itself (a committed statement is atomic and durable),
  migrations of old schemas, the export to JSON.
- Of IB: margin, corporate actions, anything but the calls used.
- Parsing of YAML and vendor data, `broker_config.py` (no state; its refusal
  is part of `Refuse`), profiles, reports, charts and the site.

Overlapping commands are modelled for the overlay, the holdout, the reveal,
search and validation; the properties that need one command at a time say so.

## Plan

The model covers the system's parts that decide something; the safety of the
protocols is proved but for `Replayed`, and of the studies everything but
what `TrueData` says of a candidate's null and the decision helpers, which are
what is left.

## Reproducing

    tlc -workers 2 -config Rebalancer.cfg MCRebalancer
    tlapm RebalancerProofs.tla

Each `.cfg` belongs to the MC module whose name it starts with. The runs take
from a few seconds to about four minutes each; each module of proofs takes
minutes from scratch.
