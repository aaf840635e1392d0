----------------------------- MODULE Retirement -----------------------------
(***************************************************************************)
(* The retirement reports: resampled months (qrl/longrun.py), spending     *)
(* rules (decision_rules.py) and entry in tranches (decision_staged.py).   *)
(*                                                                         *)
(* p has, besides what a decision report takes, the pool of portfolios by  *)
(* name, one of them "cash", the rates, the years and months that are      *)
(* measured, the low quantile, and, for the seeded generator, the blocks   *)
(* drawn for every path.  A report that raises is NaN.                     *)
(***************************************************************************)
EXTENDS Outlook

\* np.quantile: between the two closest of the sorted values
Quantile(values, q) ==
  LET sorted == SortSeq(values, LAMBDA a, b : Higher(b, a))
      place  == Times(q, Ratio(Len(values) - 1, 1))
      below  == place.n \div place.d + 1
      rest   == Ratio(place.n % place.d, place.d)
  IN  IF rest = Zero THEN sorted[below]
      ELSE Plus(Times(Minus(One, rest), sorted[below]), Times(rest, sorted[below + 1]))
Median(values) == Quantile(values, Ratio(1, 2))

\* The share of the paths of which something holds.
Share(paths, Holds(_)) == Ratio(Cardinality({i \in DOMAIN paths : Holds(i)}), Len(paths))

LowestOf(values) == values[FirstLowest(values, DOMAIN values)]

\* The step at which a path is empty, NaN if never.
EmptyAt(path) == LET empty == {t \in DOMAIN path : path[t] = Zero} IN IF empty = {} THEN NaN ELSE Min(empty)
EmptyWithin(path, months) == EmptyAt(path) # NaN /\ EmptyAt(path) =< months

-----------------------------------------------------------------------------
(* What all of them draw from: the months of the research period.          *)

\* path_indices: blocks of months that make up exactly the horizon
PathIndices(p, n) == [i \in DOMAIN p.draws |-> MonthIndices(p.draws[i], p.block, n)]
WholeHorizon(p) ==
  \A i \in DOMAIN p.draws : Len(p.draws[i]) * p.block = p.horizonYears * MonthsAYear

\* The months of the research period and the growth of a portfolio over each.
ResearchMonths(cut, p) == cut[p.begin].month..Last(cut).month
MonthlyOf(cut, run, p) ==
  LET first == cut[p.begin].month
  IN  [k \in 1..Cardinality(ResearchMonths(cut, p)) |->
         Product({t \in DOMAIN run : cut[t].month = first + k - 1}, LAMBDA t : run[t])]

InflationOf(cut, p) ==
  [k \in 1..Cardinality(ResearchMonths(cut, p)) |-> MonthlyInflation(cut, p, cut[p.begin].month + k - 1)]

\* cash_assumption_returns
AssumedCash(inflation, p) == [k \in DOMAIN inflation |-> Times(inflation[k], p.realMonth)]

Draw(values, indices) == [k \in DOMAIN indices |-> values[indices[k]]]
Levels(pi) == [k \in DOMAIN pi |-> Product(1..k, LAMBDA i : pi[i])]

\* The portfolios' months as drawn, and the prices; NaN when one of them has
\* no weights or no price, or a month has no consumer prices.
Basis(cut, p) ==
  LET runs == [name \in DOMAIN p.pool |-> PortfolioReturns(cut, p.pool[name], p.begin, p.cost)]
      pi   == InflationOf(cut, p)
  IN  IF ~WholeHorizon(p) \/ (\E name \in DOMAIN runs : runs[name] = NaN) \/ \E k \in DOMAIN pi : pi[k] = NaN
      THEN NaN
      ELSE [monthly |-> [name \in DOMAIN runs |-> MonthlyOf(cut, runs[name], p)],
            pi |-> pi, runs |-> runs, indices |-> PathIndices(p, Len(pi))]

-----------------------------------------------------------------------------
(* run_longrun                                                             *)

\* summarize: the share that is empty after so many years, the lower median of
\* the years in which they are, and what is left at the end.
SummarizePaths(paths, pis, p) ==
  LET real == [i \in DOMAIN paths |-> [k \in DOMAIN pis[i] |-> Over(paths[i][k], Levels(pis[i])[k])]]
      ends == [i \in DOMAIN paths |-> Last(real[i])]
      gone == SelectSeq(paths, LAMBDA path : EmptyAt(path) # NaN)
      year == [i \in DOMAIN gone |-> (EmptyAt(gone[i]) + MonthsAYear - 1) \div MonthsAYear]
  IN  [depletedBy |-> [y \in p.checkpoints |-> Share(paths, LAMBDA i : EmptyWithin(paths[i], y * MonthsAYear))],
       medianYear |-> IF gone = <<>> THEN NaN
                      ELSE SortSeq(year, LAMBDA a, b : a < b)[(Len(gone) + 1) \div 2],
       belowFloor |-> Share(paths, LAMBDA i : \E k \in DOMAIN real[i] : Higher(p.realFloor, real[i][k])),
       median |-> Median(ends), tail |-> Quantile(ends, p.tail)]

\* nominal_loss_stats: how many months lose, and the first deepest fall with
\* the months it takes; a month as high as the peak is the new one.
NominalLoss(growth) ==
  LET value(k) == Product(1..k, LAMBDA i : growth[i])
      peak(k)  == LET highs == {j \in 0..k : \A i \in 0..k : ~Higher(value(i), value(j))} IN Max(highs)
      fall     == [k \in DOMAIN growth |-> Minus(One, Over(value(k), value(peak(k))))]
      deepest  == {k \in DOMAIN growth : \A j \in DOMAIN growth : ~Higher(fall[j], fall[k])}
      last     == Min(deepest)
  IN  [losing |-> Cardinality({k \in DOMAIN growth : Higher(One, growth[k])}),
       worst  |-> fall[last],
       span   |-> IF fall[last] = Zero THEN NaN ELSE <<peak(last) + 1, last>>]

RunLongrun(tape, p) ==
  LET cut   == Cut(tape, p)
      basis == Basis(cut, p)
      cash  == CashLeg(cut, ResearchDays(cut, p), p)
      mixed == MixReturns(basis.runs["core"], cash, p.cashShare)
      named == [name \in DOMAIN p.pool \cup {"assumed", "mixed"} |->
                  CASE name = "assumed" -> AssumedCash(basis.pi, p)
                    [] name = "mixed"   -> MonthlyOf(cut, mixed, p)
                    [] OTHER            -> basis.monthly[name]]
      pis   == [i \in DOMAIN basis.indices |-> Draw(basis.pi, basis.indices[i])]
      paths(name, rate) ==
        [i \in DOMAIN basis.indices |->
           RunPaths(Draw(named[name], basis.indices[i]), pis[i], [p EXCEPT !.rate = rate])]
  IN  IF basis = NaN \/ cash = NaN THEN NaN
      ELSE [cashLoss |-> NominalLoss(AssumedCash(basis.pi, p)),
            rows |-> [rate \in p.rates |-> [name \in DOMAIN named |-> SummarizePaths(paths(name, rate), pis, p)]]]

-----------------------------------------------------------------------------
(* run_withdrawal_rules                                                    *)

YearOf(month) == month \div MonthsAYear

\* historical_measures: every calendar year's income in money of the start; a
\* year in which the path is empty is below every line.
HistoricalMeasures(cut, run, from, p) ==
  LET month(t) == cut[from + t - 1].month
      steps   == 1..Len(cut) - from + 1
      years   == {YearOf(month(t)) : t \in steps}
      metrics == PathMetrics([t \in DOMAIN run |-> run[t].value], [t \in steps |-> month(t)],
                             Change(UsableCpi(cut, p, Last(cut).month, Last(cut).late),
                                    UsableCpi(cut, p, month(1), FALSE)))
      change(y) == Change(UsableCpi(cut, p, y * MonthsAYear, FALSE), UsableCpi(cut, p, month(1), FALSE))
      income == [y \in years |-> YearsIncome(run, {t \in steps : YearOf(month(t)) = y}, change(y), p)]
      gone(y) == metrics.depleted # NaN /\ y >= YearOf(metrics.depleted)
  IN  [metrics |-> metrics,
       low     |-> income[FirstLowest(income, years)],
       total   |-> Total(years, LAMBDA y : income[y]),
       below   |-> [line \in p.lines |-> {y \in years : Higher(line, income[y]) \/ gone(y)}],
       years   |-> years]

\* historical_run, from the first day of a start month
HistoricalRun(cut, run, from, p) ==
  RunRule([i \in 1..Len(cut) - from + 1 |-> run[from + i - 1]],
          MonthStarts(SubSeq(cut, from, Len(cut))), HistoricalCpi(cut, p, cut[from].month), p)

\* _historical_row: the first start and the worst, all years of all starts
\* pooled.
HistoricalRuleRow(measures) ==
  LET starts == DOMAIN measures
      pooled == SumOver(starts, LAMBDA m : Cardinality(measures[m].years))
      lines  == DOMAIN measures[Min(starts)].below
  IN  [first |-> Min(starts),
       worst |-> FirstLowest([m \in starts |-> measures[m].metrics.real], starts),
       below |-> [line \in lines |->
                    Ratio(SumOver(starts, LAMBDA m : Cardinality(measures[m].below[line])), pooled)]]

\* longrun_measures
RuleMeasures(runs, pis, p) ==
  LET years  == 1..Len(pis[1]) \div MonthsAYear
      steps(y) == (y - 1) * MonthsAYear + 1..y * MonthsAYear
      level(i, y) == IF y = 1 THEN One ELSE Levels(pis[i])[(y - 1) * MonthsAYear]
      income == [i \in DOMAIN runs |-> [y \in years |-> YearsIncome(runs[i], steps(y), level(i, y), p)]]
      path   == [i \in DOMAIN runs |-> [t \in DOMAIN pis[i] |-> runs[i][t].value]]
      ends   == [i \in DOMAIN runs |-> Over(Last(path[i]), Last(Levels(pis[i])))]
      lows   == [i \in DOMAIN runs |-> LowestOf(path[i])]
      poorest == [i \in DOMAIN runs |-> LowestOf(income[i])]
      totals == [i \in DOMAIN runs |-> Total(years, LAMBDA y : income[i][y])]
      Both(values) == <<Median(values), Quantile(values, p.tail)>>
  IN  [depleted |-> Share(runs, LAMBDA i : EmptyWithin(path[i], p.horizonYears * MonthsAYear)),
       endReal |-> Both(ends), lowest |-> Both(lows), incomeLow |-> Both(poorest), incomeTotal |-> Both(totals),
       everBelow |-> [line \in p.lines |->
                        Share(runs, LAMBDA i : EmptyAt(path[i]) # NaN \/ \E y \in years : Higher(line, income[i][y]))]]

RunWithdrawalRules(tape, p) ==
  LET cut   == Cut(tape, p)
      basis == Basis(cut, p)
      from(m) == StartOf(cut, m)
      starts == [m \in p.starts |-> PortfolioReturns(cut, p.pool["core"], from(m), p.cost)]
      with(rule, rate) == [p EXCEPT !.rule = rule, !.rate = rate]
      historical(q) ==
        [m \in p.starts |-> HistoricalMeasures(cut, HistoricalRun(cut, starts[m], from(m), q), from(m), q)]
      pis   == [i \in DOMAIN basis.indices |-> Draw(basis.pi, basis.indices[i])]
      longrun(q) ==
        RuleMeasures([i \in DOMAIN pis |-> RunRule(Draw(basis.monthly["core"], basis.indices[i]),
                                                   DOMAIN pis[i], LongrunCpi(pis[i]), q)], pis, q)
  IN  IF basis = NaN \/ \E m \in p.starts : starts[m] = NaN THEN NaN
      ELSE [rule \in p.rules |->
              [rate \in p.rates |->
                 LET measures == historical(with(rule, rate))
                 IN  [measures |-> measures, row |-> HistoricalRuleRow(measures),
                      longrun |-> longrun(with(rule, rate))]]]

-----------------------------------------------------------------------------
(* run_staged_entry                                                        *)

\* tranche_returns: a tranche earns what the portfolio earns that starts then.
TrancheReturns(cut, parts, first, p) ==
  LET run == PortfolioReturns(cut, parts, first, p.cost)
  IN  IF run = NaN THEN NaN ELSE [t \in DOMAIN cut |-> IF t < first THEN Zero ELSE run[t]]

\* daily_cash
DailyCash(variant, cut, p) ==
  LET run == IF variant = "shy" THEN PortfolioReturns(cut, p.pool["cash"], p.begin, p.cost)
             ELSE CashLeg(cut, ResearchDays(cut, p), p)
  IN  IF run = NaN THEN NaN ELSE [t \in DOMAIN cut |-> IF t < p.begin THEN Zero ELSE run[t]]

Tranches(period) == Max({period, 1})

\* horizon_positions: the last day before the horizon's month
HorizonEnds(cut, month, p) == month + p.horizonMonths =< Last(cut).month
HorizonDay(cut, month, p) == FirstOf(cut, month + p.horizonMonths) - 1

\* path_measures: what is left after the horizon and at the end of the data,
\* and the deepest fall up to the horizon, all from the start.
EntryMeasures(cut, path, month, p) ==
  LET begin == FirstOf(cut, month)
      until == HorizonDay(cut, month, p)
      price(t) == UsableCpi(cut, p, cut[t].month, cut[t].late)
      real(t) == Over(path[t], Change(price(t), price(begin)))
      peak(t) == CHOOSE v \in {One} \cup {path[u] : u \in begin..t} : \A u \in begin..t : ~Higher(path[u], v) /\ ~Higher(One, v)
      falls == {Minus(One, Over(path[t], peak(t))) : t \in begin..until}
  IN  [real4 |-> real(until), realEnd |-> real(Len(cut)),
       fall |-> CHOOSE f \in falls : \A g \in falls : ~Higher(g, f)]

Gaps(a, b) == [s \in DOMAIN a |-> Minus(a[s], b[s])]
Highest(values) == Minus(Zero, LowestOf([s \in DOMAIN values |-> Minus(Zero, values[s])]))

\* compare: in tranches, against all at once
Compare(staged, lump) ==
  LET field(m, f) == [s \in DOMAIN m |-> m[s][f]]
      gap  == Gaps(field(staged, "real4"), field(lump, "real4"))
      ends == Gaps(field(staged, "realEnd"), field(lump, "realEnd"))
  IN  [above |-> Share(gap, LAMBDA s : Higher(gap[s], Zero)),
       gap |-> <<Median(gap), Highest(gap), LowestOf(gap)>>,
       endGap |-> <<Median(ends), Highest(ends), LowestOf(ends)>>,
       fall |-> Highest(field(staged, "fall")),
       fallDiff |-> Highest(Gaps(field(staged, "fall"), field(lump, "fall"))),
       worst |-> FirstLowest(field(staged, "real4"), DOMAIN staged)]

\* longrun_run: the tranches enter in the first months of a path.
LongrunEntry(growth, cash, pi, period, p) ==
  LET n == Tranches(period)
  IN  RunStaged(LongrunWithdrawals(pi, p), [k \in DOMAIN growth |-> IF k =< n THEN k ELSE 0],
                [i \in 1..n |-> growth], cash, n, 1)

\* longrun_measures of the entry
EntryLongrun(paths, pis, p) ==
  LET real(t) == [i \in DOMAIN paths |-> Over(paths[i][t], Levels(pis[i])[t])]
  IN  [depleted |-> Share(paths, LAMBDA i : EmptyWithin(paths[i], p.horizonYears * MonthsAYear)),
       endMedian |-> Median(real(p.horizonYears * MonthsAYear)), yearFive |-> Median(real(p.yearFive))]

\* One start, rate, variant of the cash and period.
EntryPath(cut, tranche, month, cash, period, p) ==
  LET begin == FirstOf(cut, month)
      n     == Tranches(period)
  IN  RunStaged(HistoricalWithdrawals(cut, p, begin), BuyPlan(cut, begin, n),
                [k \in 1..n |-> tranche[month + k - 1]], cash, n, begin)

RunStagedEntry(tape, p) ==
  LET cut    == Cut(tape, p)
      basis  == Basis(cut, p)
      cash   == [v \in {"shy", "real_plus_1"} |-> DailyCash(v, cut, p)]
      last   == Max(Range(p.entryStarts)) + Tranches(Max(p.periods)) - 1
      tranche == [m \in p.entryStarts[1]..last |-> TrancheReturns(cut, p.pool["core"], FirstOf(cut, m), p)]
      drawn  == [shy |-> basis.monthly["cash"], real_plus_1 |-> AssumedCash(basis.pi, p)]
      pis    == [i \in DOMAIN basis.indices |-> Draw(basis.pi, basis.indices[i])]
      measures(period, q, v) ==
        [s \in DOMAIN p.entryStarts |->
           EntryMeasures(cut, EntryPath(cut, tranche, p.entryStarts[s], cash[v], period, q), p.entryStarts[s], q)]
      longrun(period, q, v) ==
        EntryLongrun([i \in DOMAIN pis |-> LongrunEntry(Draw(basis.monthly["core"], basis.indices[i]),
                                                        Draw(drawn[v], basis.indices[i]), pis[i], period, q)], pis, q)
  IN  IF \/ basis = NaN \/ (\E v \in DOMAIN cash : cash[v] = NaN) \/ (\E m \in DOMAIN tranche : tranche[m] = NaN)
         \/ \E s \in DOMAIN p.entryStarts : ~HorizonEnds(cut, p.entryStarts[s], p)
      THEN NaN
      ELSE [rate \in p.rates |->
              [v \in DOMAIN cash |->
                 LET q == [p EXCEPT !.rate = rate]
                     lump == measures(0, q, v)
                 IN  [lump |-> lump,
                      periods |-> [n \in p.periods |->
                         [longrun |-> longrun(n, q, v),
                          cell |-> IF n = 0 THEN NaN ELSE Compare(measures(n, q, v), lump)]]]]]

=============================================================================
