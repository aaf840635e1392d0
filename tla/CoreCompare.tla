----------------------------- MODULE CoreCompare -----------------------------
(***************************************************************************)
(* The comparison of the pre-registered cores (qrl/core_compare.py,        *)
(* metrics.py, the cells of stress.py) and the one look at the windows of  *)
(* the validation period (qrl/core_reveal.py).                             *)
(*                                                                         *)
(* A candidate is a rule; p has the candidates, the capital split, the cap *)
(* on a drawdown, where the validation and the holdout period start, the   *)
(* stress windows and the assumed years, and the shortlist of a reveal.    *)
(***************************************************************************)
EXTENDS Outlook

AllModes == {"replay", "frozen", "hypothetical"}

Upto(tape, n) == SubSeq(tape, 1, Min({n, Len(tape)}))

-----------------------------------------------------------------------------
(* compute_metrics                                                         *)

\* None for fewer than two days.
Metrics(days, growth, turnover, exposed) ==
  IF Cardinality(days) < 2 THEN NaN
  ELSE [growth   |-> Product(days, LAMBDA t : growth[t]),
        fall     |-> Drawdown(Restrict(growth, days)),
        trades   |-> Cardinality({t \in days : turnover[t] > 0}),
        turnover |-> SumOver(days, LAMBDA t : turnover[t]),
        exposure |-> Ratio(Cardinality({t \in days : exposed[t]}), Cardinality(days))]

\* research_metrics: a candidate without weights at the start of the research
\* period, or on a day of it, fails.
ResearchMetrics(tape, rule, split, p) ==
  LET cut   == Cut(tape, p)
      rows  == Weights(cut, rule)
      held  == HeldTickers(WholePart(rule))
      core  == CoreOnly(cut, rows, split)
      run   == RunBacktest(cut, core, held, p.cost)
      valid == {t \in DOMAIN cut : rows[t] # NaN}
      days  == ResearchDays(cut, p)
  IN  IF valid = {} \/ ~ days \subseteq valid \/ run = NaN THEN NaN
      ELSE Metrics(days \cap DOMAIN run, run,
                   [t \in DOMAIN cut |-> Turnover(core, t, held)],
                   [t \in DOMAIN cut |-> \E x \in held : Executed(core, t, x) > 0])

-----------------------------------------------------------------------------
(* stress_portfolios: a candidate that switches is replayed, its mixes are *)
(* frozen; the capital outside the core is cash.                           *)

Switches(rule) == Cardinality(Options(rule)) > 1

StressPortfolios(rules) ==
  {[rule |-> rule, mix |-> NaN, modes |-> IF Switches(rule) THEN {"replay"} ELSE AllModes] : rule \in rules}
  \cup UNION {{[rule |-> rule, mix |-> mix, modes |-> {"frozen", "hypothetical"}] : mix \in Options(rule)} :
                rule \in {r \in rules : Switches(r)}}

\* _static_build and _rule_build
Build(tape, def, split) ==
  CoreOnly(tape, IF def.mix = NaN THEN Weights(tape, def.rule) ELSE [t \in DOMAIN tape |-> def.mix], split)

\* _latest_weights: all that may be held has a price on the last day.
LatestWeights(tape, def, split) ==
  LET names == IF def.mix = NaN THEN Universe(def.rule) ELSE DOMAIN def.mix
  IN  IF \E x \in names : ~Priced(tape, Len(tape), x) THEN NaN ELSE Last(Build(tape, def, split))

\* _cell: a loss that is not available is no breach, and counted.
StressCell(loss, p) == [loss |-> loss, breach |-> loss # NaN /\ Higher(loss, p.cap)]

\* run_stress, in the modes that a definition has
Cells(tape, def, windows, years, split, p) ==
  LET latest == LatestWeights(tape, def, split)
      static(loss) == StressCell(IF latest = NaN THEN NaN ELSE loss, p)
  IN  [replay |-> IF "replay" \notin def.modes THEN <<>>
                  ELSE [w \in {w \in windows : w.replay} |->
                          StressCell(ReplayLoss(tape, WholePart(def.rule), split, w, p), p)],
       frozen |-> IF "frozen" \notin def.modes THEN <<>>
                  ELSE [w \in windows |-> static(FrozenLoss(tape, latest, w, p))],
       hypothetical |-> IF "hypothetical" \notin def.modes THEN <<>>
                        ELSE [y \in years |-> static(HypotheticalLoss(latest, y, p))]]

AllCells(tape, rule, windows, years, split, p) ==
  [def \in StressPortfolios({rule}) |-> Cells(tape, def, windows, years, split, p)]

\* How many of a candidate's cells have something.
CountCells(cells, Has(_)) ==
  SumOver(DOMAIN cells, LAMBDA def :
    Cardinality({w \in DOMAIN cells[def].replay : Has(cells[def].replay[w])})
    + Cardinality({w \in DOMAIN cells[def].frozen : Has(cells[def].frozen[w])})
    + Cardinality({y \in DOMAIN cells[def].hypothetical : Has(cells[def].hypothetical[y])}))

BreachCount(cells) == CountCells(cells, LAMBDA cell : cell.breach)
Unavailable(cells) == CountCells(cells, LAMBDA cell : cell.loss = NaN)

-----------------------------------------------------------------------------
(* run_core_compare                                                        *)

\* split_windows: a window that reaches into the validation period is left out.
KeptWindows(p) == {w \in p.windows : w.last < p.validation}

\* A benchmark is a candidate of one ticker.
BuyAndKeep(x) ==
  [family |-> "core_mix", on |-> Whole(x), off |-> <<>>, signal |-> NaN, lookback |-> 1]

\* _research_breach, for one that did not fail
ResearchBreach(research, p) == research # NaN /\ Higher(research.fall, p.cap)

\* _candidate_result
CandidateResult(tape, rule, p) ==
  LET research == ResearchMetrics(tape, rule, p.split, p)
      cells    == AllCells(Cut(tape, p), rule, KeptWindows(p), p.years, p.split, p)
  IN  [research |-> research, cells |-> cells, unavailable |-> Unavailable(cells),
       breaches |-> IF research = NaN THEN NaN
                    ELSE BreachCount(cells) + (IF ResearchBreach(research, p) THEN 1 ELSE 0)]

\* benchmark_metrics: at the core's share of the capital, and at all of it
BenchmarkMetrics(tape, p) ==
  [split \in {p.split, Full100} |->
     LET research == ResearchMetrics(tape, BuyAndKeep(p.market), split, p)
     IN  [research |-> research, breach |-> ResearchBreach(research, p)]]

RunCoreCompare(tape, p) ==
  [candidates |-> [rule \in p.candidates |-> CandidateResult(tape, rule, p)],
   benchmark  |-> BenchmarkMetrics(tape, p)]

-----------------------------------------------------------------------------
(* The reveal of a shortlist of candidates.                                *)

\* load_core_shortlist: windows that reach the validation period, and none
\* that reaches the holdout.
Revealable(windows, p) ==
  windows # {} /\ \A w \in windows : w.last >= p.validation /\ w.last < p.holdout

\* guard: what is frozen is held in the same way from its first day on.
IsConstant(tape, def, split) ==
  LET rows  == Build(tape, def, split)
      valid == {t \in DOMAIN rows : rows[t] # NaN /\ Invested(rows[t]) > 0}
  IN  valid # {} /\ \A t \in Min(valid)..Len(rows) : rows[t] = rows[Min(valid)]

\* preflight and run_core_reveal, on data up to the last window's end
RunCoreReveal(tape, p) ==
  LET windows == {w \in p.windows : w.last >= p.validation}
      cut     == Upto(tape, Max({w.last : w \in windows}))
      frozen  == {def \in StressPortfolios(p.shortlist) : "frozen" \in def.modes}
  IN  IF ~Revealable(windows, p) \/ \E def \in frozen : ~IsConstant(cut, def, p.split) THEN NaN
      ELSE [rule \in p.shortlist |->
              LET cells == AllCells(cut, rule, windows, {}, p.split, p)
              IN  [cells |-> cells, breaches |-> BreachCount(cells), unavailable |-> Unavailable(cells)]]

=============================================================================
