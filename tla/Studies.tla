------------------------------ MODULE Studies ------------------------------
(***************************************************************************)
(* The studies of strategies over one tape: weights, walk-forward          *)
(* selections, point-in-time panels, the price cache, the health report,   *)
(* the macro overlay, the paper track, and, below, the grade of a          *)
(* candidate (qrl/search.py, qrl/criteria.py, qrl/combined.py).            *)
(*                                                                         *)
(* A candidate p has its rule, its core with its share of the capital, its *)
(* periods as first and last days, the thresholds of its run, and the null *)
(* it is compared with, NaN for the core alone.                            *)
(***************************************************************************)
EXTENDS Tape, Portfolio, WalkForward, Fundamentals, MacroOverlay

CONSTANT TrueQuarter(_)  \* what a company earned in a quarter

\* A report is made some days after the last row, of members from the registry.
ASSUME ReportAssumption ==
  \A s \in Subjects :
    s.kind = "health" =>
      /\ s.lag \in Int /\ s.staleness \in Int
      /\ \A m \in DOMAIN s.rules : s.rules[m].family \in Registry

\* A calendar starts on one of its days, a track has a least length and days on
\* which it is judged, and the periods of an overlay follow on each other.
ASSUME CalendarAssumption ==
  /\ MonthsAYear \in Nat \ {0}
  /\ \A s \in Subjects :
       /\ s.kind \in {"walk", "paper"} => s.start \in Nat \ {0}
       /\ s.kind = "walk" => s.minTrack \in Int
       /\ s.kind = "paper" => s.review \in Nat /\ s.promote \in Nat
       /\ s.kind = "overlay" => /\ {s.begin, s.medianDays, s.inflationLookback} \subseteq Nat \ {0}
                               /\ {s.researchEnd, s.days} \subseteq Int
                               /\ s.begin =< s.researchEnd /\ s.researchEnd < s.days

\* What a cache of prices begins with, an older version fetched from the legacy
\* start on.
ASSUME CacheAssumption ==
  /\ NaN \notin [from : Int, bars : BOOLEAN]
  /\ \A s \in Subjects :
       s.kind = "cache" =>
         \A frame \in {s.parquet, s.csv} \ {NaN} :
           frame \in [from : Int, bars : BOOLEAN] /\ frame.from =< LegacyStart

\* What a market charges is a fraction in lowest terms.
ASSUME CostAssumption ==
  \A s \in Subjects :
    s.kind = "market" => /\ s.cost.n \in Int /\ s.cost.d \in Nat \ {0}
                         /\ s.cost = Ratio(s.cost.n, s.cost.d)

\* A sleeve has a slot and room for what fills them, averages over at least a
\* day, and takes nothing up before it has its averages.
SleeveRule(p) ==
  /\ p.family \in SleeveFamilies /\ p.slots \in 1..Unit /\ p.exitDays \in Int
  /\ p.family \in {"trend_pullback", "regime_pullback"} =>
       /\ {p.trend, p.short, p.days} \subseteq Nat \ {0}
       /\ p.short =< p.trend \/ p.short =< p.days + 1
  /\ p.family = "quiet_pullback" => p.window \in Nat \ {0}

\* A mix is not short and not above the capital.
MixFits(mix) ==
  IsFiniteSet(DOMAIN mix) /\ (\A x \in DOMAIN mix : mix[x] \in Nat) /\ SumFunction(mix) =< Unit

\* Strategies are those of the registry, or null, with what their functions ask
\* of their parameters.  A candidate and its core have shares of the capital, and
\* research is over before validation is.
RuleFits(p) ==
  /\ p.family \in Registry \cup {"null"}
  /\ p.family = "core_mix" => MixFits(p.on) /\ MixFits(p.off)
  /\ p.family = "factor" => p.hold \in Nat \ {0}
  /\ p.family \in SleeveFamilies => SleeveRule(p)

ASSUME RuleAssumption ==
  \A s \in Subjects :
    /\ s.kind \in {"strategy", "candidate"} => RuleFits(s.rule)
    /\ s.kind = "candidate" =>
         /\ RuleFits(s.core) /\ s.core.family \in Registry /\ s.rule.family \notin CoreFamilies
         /\ s.split.core \in Nat /\ s.split.sleeve \in Nat
         /\ {s.research[1], s.validation[1]} \subseteq Nat \ {0}
         /\ {s.research[2], s.validation[2]} \subseteq Int
         /\ s.research[1] =< s.research[2] /\ s.research[2] =< s.validation[2]
    /\ s.kind = "factor" => /\ s.hold \in Nat \ {0} /\ s.limit \in Nat
                            /\ s.score \in {"value_ey", "profitability", "low_investment"}
    /\ s.kind = "walk" => IsFiniteSet(s.candidates) /\ s.share \in Nat

\* The base of an overlay is fully invested; what all signals together move out
\* of an asset, it has, and nothing is moved out of the safe one.
ASSUME OverlayAssumption ==
  \A s \in Subjects :
    s.kind = "overlay" =>
      /\ MixFits(s.base) /\ SumFunction(s.base) = Unit
      /\ s.safe \in DOMAIN s.base /\ s.cap \in Nat /\ IsFiniteSet(s.trendAssets)
      /\ \A r \in SignalsOf(s) : r[2] \in DOMAIN s.base \ {s.safe} /\ s.move[r[1]] \in Nat
      /\ \A x \in DOMAIN s.base : Uncapped(SignalsOf(s), x, s) =< s.base[x]

-----------------------------------------------------------------------------
\* slice_period, then run_backtest: a period begins with no position.
RunPeriod(days, w, tickers, period, p) ==
  RunBacktest(SubSeq(days, period[1], period[2]), SubSeq(w, period[1], period[2]), tickers, p.cost)

\* compute_metrics, of two days or more; CAGR is told by the growth.
Metrics(run) ==
  IF run = NaN \/ Cardinality(DOMAIN run) < 2 THEN NaN
  ELSE [sharpe |-> Sharpe(run), growth |-> Compounded(run),
        fall |-> Drawdown(run)]

\* The days with turnover among those with results.
Trades(w, tickers, period, run) ==
  LET sliced == SubSeq(w, period[1], period[2])
  IN  Cardinality({t \in DOMAIN run : Turnover(sliced, t, tickers) > 0})

\* The candidate's weights as they are traded.
Exited(days, rule) == ExitBeforeDelisting(days, Weights(days, rule), Tickers)

\* compute_benchmark_metrics: holding one ticker over the research period
BenchmarkMetrics(days, p) ==
  LET hold == [family |-> "buy_and_hold", ticker |-> p.benchmark]
  IN  Metrics(RunPeriod(days, Weights(days, hold), {p.benchmark}, p.research, p))

\* criteria.evaluate: the rules a candidate breaks on its own
Evaluate(own, trades, benchmark, p) ==
  (IF trades >= p.minTrades THEN {} ELSE {"min_trades"})
  \cup (IF Higher(p.minSharpe, own.sharpe) THEN {"min_sharpe"} ELSE {})
  \cup (IF Higher(own.fall, p.maxFall) THEN {"max_drawdown"} ELSE {})
  \cup (IF Higher(own.sharpe, benchmark.sharpe) THEN {} ELSE {"beat_benchmark"})

\* combined_checks: the rules it breaks next to the core
CombinedChecks(combined, base, trades, p) ==
  (IF trades >= p.minTrades THEN {} ELSE {"sleeve_min_trades"})
  \cup (IF Higher(Plus(base.sharpe, p.minGain), combined.sharpe) THEN {"combined_sharpe_improvement"} ELSE {})
  \cup (IF Higher(combined.fall, p.maxFall) THEN {"combined_max_drawdown"} ELSE {})
  \cup (IF p.noWorse /\ Higher(combined.fall, base.fall) THEN {"combined_drawdown_vs_baseline"} ELSE {})
  \cup (IF Higher(Minus(base.growth, p.maxShortfall), combined.growth) THEN {"combined_cagr_shortfall"} ELSE {})

\* combine_portfolio of the core and one sleeve, <<>> if it raises
Combined(days, sleeve, p) ==
  LET frames == [m \in {Core, "sleeve"} |-> IF m = Core THEN Weights(days, p.core) ELSE sleeve]
      row(t)   == CombinedRow(frames, p.split, t)
      all      == Universe(p.core) \cup Tickers
  IN  IF Combines(frames, p.split)
        THEN [t \in DOMAIN days |-> [x \in all |-> IF x \in DOMAIN row(t) THEN row(t)[x] ELSE 0]]
        ELSE <<>>

\* The null gets the exits that a candidate gets.
NullUnexited(days, p) == NullWeights(days, p.null)
NullBaselineSleeve(days, p) == ExitBeforeDelisting(days, NullWeights(days, p.null), Tickers)

\* The portfolio that the candidate has to improve.
BaselineWeights(days, p) ==
  IF p.null = NaN THEN Weights(days, p.core) ELSE Combined(days, NullBaselineSleeve(days, p), p)

\* combined_evaluation: both on their common days, NaN if anything raises
CombinedEvaluation(days, sleeve, trades, period, p) ==
  LET all    == Universe(p.core) \cup Tickers
      with   == Combined(days, sleeve, p)
      base   == BaselineWeights(days, p)
      run    == IF with = <<>> THEN NaN ELSE RunPeriod(days, with, all, period, p)
      ground == IF base = <<>> THEN NaN
                ELSE RunPeriod(days, base, IF p.null = NaN THEN Universe(p.core) ELSE all, period, p)
      common == DOMAIN run \cap DOMAIN ground
      on(r)  == [t \in common |-> r[t]]
  IN  IF run = NaN \/ ground = NaN THEN NaN
      ELSE LET c == Metrics(on(run))
               b == Metrics(on(ground))
           IN  IF c = NaN THEN NaN
               ELSE [failed |-> CombinedChecks(c, b, trades, p),
                     improvement |-> [t \in common |-> Minus(run[t], ground[t])]]

\* evaluate_candidate: what raises is a failure like others
EvaluateCandidate(days, period, p) ==
  LET w   == Exited(days, p.rule)
      run == RunPeriod(days, w, Tickers, period, p)
      own == Metrics(run)
      trades == IF own = NaN THEN 0 ELSE Trades(w, Tickers, period, run)
      benchmark == BenchmarkMetrics(days, p)
  IN  IF run = NaN THEN NaN
      ELSE IF p.combined THEN CombinedEvaluation(days, w, trades, period, p)
      ELSE IF own = NaN \/ benchmark = NaN THEN NaN
      ELSE [failed |-> Evaluate(own, trades, benchmark, p)]

=============================================================================
