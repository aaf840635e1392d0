------------------------ MODULE DecisionsProperties ------------------------
(***************************************************************************)
(* What the decision helpers promise of the same history, as in            *)
(* StudiesProperties stated of the tape before each step.                  *)
(***************************************************************************)
EXTENDS Tape, History, CoreCompare, Retirement, WhatIf, Fragility

-----------------------------------------------------------------------------
(* Causality.                                                              *)

\* What a helper says of each day of a tape, or of its end, <<>> if nothing.
Said(s, days) ==
  CASE s.kind = "outlook"   ->
         IF Len(days) < s.end THEN <<>>
         ELSE <<Decision(days, s), RunCoreCompare(days, s), RunLongrun(days, s), RunWithdrawalRules(days, s),
                RunStagedEntry(days, s), RunWhatIf(days, s), RunShock(days, s)>>
              \o (IF Len(days) + 1 < s.holdout THEN <<>> ELSE <<RunCoreReveal(days, s)>>)
    [] s.kind = "fragility" -> [t \in 1..Len(days) + 1 |-> FragilityReport(days, t, s)]
    [] s.kind = "history"   -> LET recovered == SelectSeq(FindEpisodes(days, s), LAMBDA e : e.recovery # NaN)
                               IN  [t \in {recovered[i].peak : i \in DOMAIN recovered} |->
                                      CHOOSE e \in Range(recovered) : e.peak = t]
    [] OTHER                -> <<>>

\* No helper ever revises what it said: a decision report says the same for
\* ever once the research period has ended (data_end), a screen as of a date
\* knows what was filed and who was a member strictly before it.
SaysTheSame ==
  [][tape # <<>> =>
       \A before \in {Said(subject, Front(tape))}, after \in {Said(subject, tape)} :
         \A t \in DOMAIN before : after[t] = before[t]]_vars

-----------------------------------------------------------------------------
(* Living off a portfolio.                                                 *)

GrowthOf(field) == [t \in DOMAIN tape |-> tape[t][field]]
PastJanuaries == {m \in Months(tape) : January(m) /\ m > tape[1].month}
Anniversaries == {m \in Months(tape) : m > tape[1].month /\ January(m - tape[1].month)}
PricesKnown(months) == \A m \in months : YearlyChange(tape, subject, m) # NaN
RaisesKnown == PricesKnown(PastJanuaries)

RuleRun(rule) ==
  RunRule(GrowthOf("growth"), MonthStarts(tape), HistoricalCpi(tape, subject, tape[1].month),
          [subject EXCEPT !.rule = rule])

Entry(n, cash) ==
  RunStaged(HistoricalWithdrawals(tape, subject, 1), BuyPlan(tape, 1, n),
            [k \in 1..n |-> GrowthOf("growth")], cash, n, 1)

\* The decision report, the fixed rule and the entry all at once.
HistoricalAgree ==
  LET path == WithdrawalPath(GrowthOf("growth"), MonthStarts(tape),
                             [t \in DOMAIN tape |-> MonthlyWithdrawals(tape, subject, tape[1].month, tape[t].month)])
      rule == RuleRun("fixed")
      lump == Entry(1, GrowthOf("cash"))
  IN  \A t \in DOMAIN tape :
        path[t] = rule[t].value /\ (January(tape[1].month) => path[t] = lump[t])

\* A whole calendar year of the fixed rule that does not run dry pays the rate
\* in money of the start, as the measures deflate it.
IncomeIsReal ==
  LET first == tape[1].month
      rule == RuleRun("fixed")
      year(m) == {t \in DOMAIN tape : tape[t].month \in m..m + MonthsAYear - 1}
      change(m) == Change(UsableCpi(tape, subject, m, FALSE), UsableCpi(tape, subject, first, FALSE))
  IN  \A m \in PastJanuaries :
        January(first) /\ m + MonthsAYear - 1 \in Months(tape) /\ rule[Len(tape)].value # Zero =>
          YearsIncome(rule, year(m), change(m), subject) = One

Dust(value) == Higher(value, Zero) /\ ~Higher(value, Depleted)

\* The steps of a path whose withdrawal leaves dust.
LeaveDust(path, due) == {i \in DOMAIN due : Dust(Minus(path[i - 1], due[i]))}

\* One path of the long run, the fixed rule and the entry all at once.  After a
\* withdrawal that leaves dust the last two stop, and the first applies one more
\* return to it ("there the helper stops and the long run applies one more
\* return", docs/methodology/staged-entry.md:186-190), and no other.
AgreeUpToDust(path, rule, lump, due, growth) ==
  \A i \in DOMAIN growth :
    /\ rule[i].value = lump[i]
    /\ i \notin LeaveDust(path, due) => path[i] = lump[i]
    /\ i \in LeaveDust(path, due) =>
         lump[i] = Zero /\ path[i] = Left(Times(Minus(path[i - 1], due[i]), growth[i]))

\* Paths drawn in blocks that start with the first month or wrap around the last.
LongrunAgree ==
  LET first == tape[1].month
      n     == Cardinality(Months(tape))
      growth == [k \in 1..n |-> MonthlyGrowth(tape, first + k - 1, "growth")]
      pi     == [k \in 1..n |-> MonthlyInflation(tape, subject, first + k - 1)]
  IN  (\A k \in 1..n : pi[k] # NaN) =>
        \A starts \in [1..subject.blocks -> {1, n}] :
          LET drawn == MonthIndices(starts, MonthsAYear, n)
              g     == [i \in DOMAIN drawn |-> growth[drawn[i]]]
              q     == [i \in DOMAIN drawn |-> pi[drawn[i]]]
              rule  == RunRule(g, DOMAIN g, LongrunCpi(q), [subject EXCEPT !.rule = "fixed"])
              path  == RunPaths(g, q, subject)
              lump  == RunStaged(LongrunWithdrawals(q, subject), [i \in DOMAIN g |-> IF i = 1 THEN 1 ELSE 0],
                                 <<g>>, g, 1, 1)
          IN  AgreeUpToDust(path, rule, lump, LongrunWithdrawals(q, subject), g)

\* The cash of an entry in n tranches that earns what they earn: after the
\* withdrawal, the tranche and the return of each step.
CashSteps(n) ==
  LET due == HistoricalWithdrawals(tape, subject, 1)
      buy == BuyPlan(tape, 1, n)
      steps[t \in 0..Len(tape)] ==
        IF t = 0 THEN <<One, One, One>>
        ELSE LET paid == Minus(steps[t - 1][3], due[t])
                 rest == IF buy[t] = 0 THEN paid ELSE IF buy[t] = n THEN Zero ELSE Minus(paid, Ratio(1, n))
             IN  <<paid, rest, Times(rest, tape[t].growth)>>
  IN  steps

\* In tranches it is the same when the cash earns the same, until dust is left in
\* the cash, which counts as none; and what the cash earns does not matter from
\* the last tranche on.
StagedAgree ==
  \A n \in 2..3 :
    LET last == {t \in MonthStarts(tape) : Cardinality(MonthStarts(tape) \cap 1..t) = n}
        once == Entry(1, GrowthOf("growth"))
        same == Entry(n, GrowthOf("growth"))
        less == Entry(n, [t \in DOMAIN tape |-> IF \E u \in last : t >= u THEN Zero ELSE tape[t].cash])
        full == Entry(n, GrowthOf("cash"))
        lost(t) == \E u \in 1..t : \E v \in Range(CashSteps(n)[u]) : Dust(v)
    IN  \A t \in DOMAIN tape :
          /\ once[t] = same[t] \/ (lost(t) /\ Higher(once[t], same[t]))
          /\ less[t] = full[t]

-----------------------------------------------------------------------------
(* The reports on a portfolio.                                             *)

OutlookCut == Cut(tape, subject)
StartReturns(parts) ==
  [m \in subject.starts |-> PortfolioReturns(OutlookCut, parts, StartOf(OutlookCut, m), subject.cost)]

\* The comparison of the cores and the decision report, from the second day on:
\* one lives through the research period, the other starts with it.
ResearchIsReturns ==
  \A rule \in subject.candidates :
    LET later == subject.begin + 1
        run   == PortfolioReturns(OutlookCut, WholePart(rule), subject.begin, subject.cost)
        found == ResearchMetrics(tape, rule, Full100, [subject EXCEPT !.begin = later])
    IN  run # NaN /\ found # NaN =>
          /\ found.growth = Product(later..Len(OutlookCut), LAMBDA t : run[t])
          /\ found.fall = Drawdown(Restrict(run, later..Len(OutlookCut)))

\* A fund that is replayed from the day after is a fund that is frozen.
ReplayIsFrozen ==
  \A window \in subject.windows, x \in DOMAIN subject.groups :
    LET later  == [window EXCEPT !.first = @ + 1]
        replay == ReplayLoss(OutlookCut, WholePart(BuyAndKeep(x)), Full100, later, subject)
        frozen == FrozenLoss(OutlookCut, Whole(x), window, subject)
    IN  replay # NaN /\ frozen # NaN => replay = frozen

\* The three retirement reports: the fixed rule on the data and on drawn
\* months, as long as no withdrawal of theirs leaves dust, and an entry all at
\* once in a January.
DrawnDust(rate) ==
  LET basis == Basis(OutlookCut, subject)
      p     == [subject EXCEPT !.rate = rate]
  IN  \E i \in DOMAIN basis.indices :
        LET pi == Draw(basis.pi, basis.indices[i])
        IN  LeaveDust(RunPaths(Draw(basis.monthly["core"], basis.indices[i]), pi, p), LongrunWithdrawals(pi, p)) # {}

RetirementAgrees ==
  LET rules   == RunWithdrawalRules(tape, subject)
      longrun == RunLongrun(tape, subject)
      staged  == RunStagedEntry(tape, subject)
      long(rate) == WithdrawalRow(tape, [subject EXCEPT !.parts = subject.pool["core"], !.rate = rate])[1].long
      core(rate) == longrun.rows[rate]["core"]
  IN  \A rate \in subject.rates :
        /\ rules # NaN => \A m \in subject.starts : rules["fixed"][rate].measures[m].metrics = long(rate)[m]
        /\ rules # NaN /\ longrun # NaN /\ ~DrawnDust(rate) =>
             LET fixed == rules["fixed"][rate].longrun
             IN  /\ fixed.endReal = <<core(rate).median, core(rate).tail>>
                 /\ subject.horizonYears \in subject.checkpoints =>
                      fixed.depleted = core(rate).depletedBy[subject.horizonYears]
        /\ rules # NaN /\ staged # NaN =>
             \A s \in DOMAIN subject.entryStarts, v \in DOMAIN staged[rate] :
               LET m == subject.entryStarts[s]
               IN  m \in subject.starts /\ January(m) => staged[rate][v].lump[s].realEnd = long(rate)[m].real

\* A mix of known portfolios is what its parts are together, and the pair of a
\* row with assumed cash is that row with a fund as the cash.
MixIsItsParts ==
  LET run(parts) == PortfolioReturns(OutlookCut, parts, subject.begin, subject.cost)
      core == subject.pool["core"]
  IN  /\ run(MixPortfolio(subject.given, subject)) = run(FlatMix(subject.given, subject))
      /\ \A pair \in subject.pairs :
           PairMatches(pair, core, subject) =>
             run(pair) = MixReturns(run(core), run(subject.pool["cash"]), subject.cashShare)

\* Bad years that are what came before a start, in growth and in prices, make
\* that start the earlier one.
ShockIsHistory ==
  LET cut   == OutlookCut
      cash  == subject.pool["cash"]
      runs  == StartReturns(cash)
      years == Len(subject.shockYears)
      stretch == StretchGrowth(CHOOSE mix \in PortfolioStates(cash) : TRUE, subject)
      from(m) == StartOf(cut, m)
      LikeBefore(k, m) ==
        /\ \A j \in Stretch(years) : runs[k][from(k + j - 1)] = stretch[j]
        /\ runs[k][from(m)] = runs[m][from(m)]
        /\ \A j \in 1..m - k + 1 : Ratio(cut[from(k + j - 1)].cpi, cut[from(k)].cpi)
                                     = Over(StretchPrice(subject, j), StretchPrice(subject, 1))
  IN  \A m \in subject.starts :
        LET k == m - years * MonthsAYear
            shocked == ShockedTape(cut, m, subject)
        IN  k \in subject.starts /\ runs[k] # NaN /\ runs[m] # NaN /\ shocked # NaN /\ LikeBefore(k, m) =>
              PathOver(shocked, Joined(stretch, runs[m]), subject, YearsOf(shocked, k))
                = PathOver(cut, runs[k], subject, YearsOf(cut, k))

\* Five loops compute what is left month after month, over days or resampled
\* months, with their own raises, depletion and bookkeeping, and six reports
\* put them together: where two of them are asked the same question they give
\* the same answer, but for the return that the long run applies to dust
\* (withdrawal_path, run_rule, run_staged, run_paths; decision,
\* core_compare, longrun, decision_rules, decision_staged, whatif, shock).
RunnersAgree ==
  [][/\ Kind("income") /\ tape # <<>> =>
          /\ LongrunAgree
          /\ RaisesKnown => HistoricalAgree /\ IncomeIsReal
          /\ PricesKnown(Anniversaries) => StagedAgree
     /\ Kind("outlook") /\ Len(tape) = subject.end =>
          ResearchIsReturns /\ ReplayIsFrozen /\ RetirementAgrees /\ MixIsItsParts /\ ShockIsHistory]_vars

-----------------------------------------------------------------------------
(* Spending.                                                               *)

\* The growth of money from day t to day u.
Compound(t, u) == Product(t..u, LAMBDA v : tape[v].growth)

\* The value is what the start would have become less what the payments would
\* have become; below the dust that counts as empty it is nothing.
ValueIsOwed(run) ==
  LET owed(t) == Minus(Compound(1, t), Total(1..t, LAMBDA u : Times(run[u].paid, Compound(u, t))))
  IN  \A t \in DOMAIN tape :
        IF run[t - 1].value = Zero THEN run[t].paid = Zero /\ run[t].value = Zero
        ELSE IF run[t].value = Zero THEN ~Higher(owed(t), Depleted) /\ ~Higher(Zero, owed(t))
        ELSE run[t].value = owed(t)

\* The raises that skip_raise_after_loss skips are those after a calendar year,
\* or what there is of it, that lost money before withdrawals.
RaisesAreEarned ==
  LET run == RuleRun("skip_raise")
      year(m) == {t \in DOMAIN tape : tape[t].month \in m - MonthsAYear..m - 1}
      earned(m) == ~Higher(One, Product(year(m), LAMBDA t : tape[t].growth))
      kept(m) == {j \in PastJanuaries : j =< m /\ earned(j)}
  IN  \A t \in MonthStarts(tape) :
        LET amount == Times(MonthlyRate(subject),
                            Product(kept(tape[t].month), LAMBDA j : YearlyChange(tape, subject, j)))
        IN  run[t - 1].value # Zero => run[t].amount = amount

\* Under every rule nothing is paid twice, from money that is not there or after
\* the path is empty, and nothing is lost but the dust; and a year's result
\* counts once, in the January that ends it, however often the rule is asked
\* (run_rule).
MoneyAddsUp ==
  [][Kind("income") /\ tape # <<>> /\ RaisesKnown =>
       (\A rule \in subject.rules : ValueIsOwed(RuleRun(rule))) /\ RaisesAreEarned]_vars

-----------------------------------------------------------------------------
(* The decision report.                                                    *)

\* A day's return, from close to close, is that of one of the mixes the report
\* lists as the portfolio's states; bars open where the last one closed.
ReturnsAreAState(run) ==
  \A t \in DOMAIN run \ {Min(DOMAIN run)} :
    \E mix \in PortfolioStates(subject.parts) :
      run[t] = Total(DOMAIN mix, LAMBDA x : Times(Ratio(mix[x], Unit),
                                                  Ratio(tape[t].bars[x].close, tape[t - 1].bars[x].close)))

\* No portfolio is ever in cash it does not announce: a rule that has no
\* weights yet, or no longer, makes a report refuse instead of being taken for
\* nothing held, and the replay of a window starts early enough for the rule to
\* be in the window what it is over the whole history (portfolio_returns,
\* replay_loss, combine_portfolio's zero-fill).
FullyFunded ==
  [][Kind("outlook") =>
       /\ \A from \in DOMAIN tape :
            LET run == PortfolioReturns(tape, subject.parts, from, subject.cost)
            IN  run # NaN => ReturnsAreAState(run)
       /\ \A window \in subject.windows :
            LET replay == ReplayLoss(tape, subject.parts, Full100, window, subject)
                so_far == SubSeq(tape, 1, Min({window.last, Len(tape)}))
                run    == PortfolioReturns(so_far, subject.parts, window.first - 1, subject.cost)
            IN  Len(tape) >= window.first /\ replay # NaN =>
                  run # NaN /\ replay = WindowDrawdown(Restrict(run, Inside(tape, window)))]_vars

-----------------------------------------------------------------------------
(* The fragility screen.                                                   *)

\* The tape with more of some tags in every filing of a company.
Raised(days, x, tags, by) ==
  [t \in DOMAIN days |->
     [days[t] EXCEPT !.filings[x] = {[f EXCEPT !.val = IF f.tag \in tags THEN @ + by ELSE @] : f \in @}]]

Severity(class) ==
  CASE class = "FRAGILE" -> 2 [] class = "WATCH" -> 1 [] OTHER -> 0

\* More cash or more operating cash flow, all else equal, never makes a company
\* look worse: not through a sign or a zero in one of the ratios, a measure that
\* becomes available, or the breach that two measures share (classify).
MoneyNeverHurts ==
  [][Kind("fragility") =>
       \A x \in MembersAsOf(tape, Len(tape) + 1), by \in {1, 3} :
         \A tags \in {ToSet(CashTags), ToSet(Ocf)} :
           LET class(days) == FragilityAsOf(days, Len(tape) + 1, x, subject)
           IN  /\ Severity(class(Raised(tape, x, tags, by))) =< Severity(class(tape))
               /\ class(tape) = "SOUND" => class(Raised(tape, x, tags, by)) = "SOUND"]_vars

-----------------------------------------------------------------------------
(* The falls of the index.                                                 *)

IndexClose == RawCloses(tape, subject.index)
After(t) == t + 1..Len(tape)
\* A day that no earlier one reaches, and the way back to it.
IsHigh(t) == \A u \in 1..t - 1 : Higher(IndexClose[t], IndexClose[u])
Recovery(t) ==
  LET back == {u \in After(t) : ~Higher(IndexClose[t], IndexClose[u])} IN IF back = {} THEN NaN ELSE Min(back)
Under(t) == {u \in After(t) : Recovery(t) = NaN \/ u < Recovery(t)}
DeepEnough(t) == \E u \in Under(t) : ~Higher(subject.threshold, Fall(IndexClose, t, u))

\* Every fall of the size looked for is an episode, once, from its high to the
\* first day that is as high again (find_episodes).
EpisodesAreFalls ==
  LET found == FindEpisodes(tape, subject)
  IN  /\ \A i, j \in DOMAIN found : i < j => found[i].peak < found[j].peak
      /\ {found[i].peak : i \in DOMAIN found}
           = {t \in DOMAIN tape : t >= subject.episodeStart /\ IsHigh(t) /\ DeepEnough(t)}
      /\ \A i \in DOMAIN found :
           LET e == found[i]
           IN  e.recovery = Recovery(e.peak) /\ e.trough = FirstLowest(IndexClose, Under(e.peak))

\* What the cells say of a portfolio that moves with the index.
LosesWhatTheIndexLoses(e, cells) ==
  LET window == {t \in After(e.peak) : Within(tape, t, e.peak, subject.horizonYears * MonthsAYear)}
      low    == FirstLowest(IndexClose, window)
      back   == {t \in After(low) : ~Higher(IndexClose[e.peak], IndexClose[t])}
  IN  /\ cells.loss = Fall(IndexClose, e.peak, low)
      /\ cells.recover = IF back = {} THEN Never ELSE Ratio(tape[Min(back)].month - tape[e.peak].month, 1)
      /\ e.trough = low => cells.loss = e.depth /\ (e.months # NaN => cells.recover = Ratio(e.months, 1))

\* A portfolio in the fund that moves with the index, under its own name and
\* before, lost in every episode what the index lost and was back when the
\* index was: no jump where the fund takes over from its stand-in, no day too
\* many or too few from the peak on, and no fall a filled gap makes up, except
\* on the filled day itself (splice, fill_proxy_gaps, portfolio_returns,
\* episode_measures).
FallsAreMeasured ==
  [][Kind("history") =>
       LET report == RunHistory(tape, subject)
           filled == {t \in DOMAIN tape : ~Priced(tape, t, "IXIC")}
       IN  /\ EpisodesAreFalls
           /\ report # NaN =>
                \A i \in DOMAIN report.episodes :
                  LET e     == report.episodes[i]
                      cells == report.cells[1][i].cells
                  IN  /\ cells.loss \notin {NoSignal, DataEnds}
                      /\ filled \cap {e.peak, e.trough, e.recovery} = {}
                      => LosesWhatTheIndexLoses(e, cells)]_vars

=============================================================================
