---------------------------- MODULE MCDecisions ----------------------------
(***************************************************************************)
(* Small tapes for every kind of decision helper.  Years have two months   *)
(* and months one day or two.                                              *)
(***************************************************************************)
EXTENDS DecisionsProperties

MCDepleted == Ratio(1, 100)
\* No sleeve is part of a decision.
MCVolatility(closes, n) == NaN

Bar(open, close) == [open |-> open, high |-> Max({open, close}), low |-> Min({open, close}),
                     close |-> close, volume |-> close]
At(close) == IF close = NaN THEN NaN ELSE Bar(close, close)

-----------------------------------------------------------------------------
\* The prices of living have holes.  At the odd rate a year that halves the
\* portfolio and doubles it again leaves dust after its second withdrawal, which
\* the second return makes more than dust.
OddRate == Ratio(21, 32)
IncomeSubject(from, rate) ==
  [kind |-> "income", from |-> from, level |-> 2, rate |-> rate, rule |-> "fixed", blocks |-> 2,
   rules |-> {"fixed", "skip_raise", "guardrails", "pct_of_balance", "floor_ceiling"},
   upper |-> Ratio(3, 2), lower |-> Ratio(1, 2), cut |-> Ratio(1, 2), raise |-> One,
   maxCut |-> Ratio(1, 2), maxRaise |-> Ratio(1, 2), days |-> 5]
IncomeDays(s, days) ==
  LET month == IF days = <<>> THEN s.from ELSE Last(days).month + 1
      Day(m, late, growth, cpi) ==
        [month |-> m, late |-> late, growth |-> growth, cash |-> Ratio(3, 2), cpi |-> cpi]
  IN  {Day(month, FALSE, g[1], g[2]) :
         g \in {<<Ratio(2, 1), 4>>, <<Ratio(1, 2), 2>>, <<One, NaN>>}}
      \cup (IF days = <<>> THEN {} ELSE {Day(month - 1, TRUE, Ratio(1, 2), NaN)})

-----------------------------------------------------------------------------
\* A switching part and a fixed one; the research period ends before the tape.
SwitchMix == [family |-> "core_mix", on |-> Whole(8), off |-> Whole(9), signal |-> 8, lookback |-> 2]
FixedMix ==
  [family |-> "core_mix", on |-> [x \in {8, 9} |-> 8], off |-> <<>>, signal |-> NaN, lookback |-> 1]
TrendMix == [family |-> "core_trend", risk_on |-> 8, risk_off |-> 9, lookback |-> 2]
Years(stocks, bonds, prices) ==
  [growth |-> [stocks |-> stocks, short_bonds |-> bonds, long_bonds |-> bonds, gold |-> One], prices |-> prices]
OutlookSubject ==
  [kind |-> "outlook", parts |-> <<[rule |-> SwitchMix, share |-> 8], [rule |-> FixedMix, share |-> 8]>>,
   begin |-> 3, end |-> 6, starts |-> {2, 4}, rate |-> Ratio(1, 4), level |-> 1, realMonth |-> One,
   warmup |-> 3,
   windows |-> {[first |-> 4, last |-> 6, replay |-> TRUE], [first |-> 5, last |-> 7, replay |-> TRUE],
                [first |-> 2, last |-> 5, replay |-> FALSE]},
   cost |-> Zero, cashShare |-> Ratio(1, 2), equities |-> {8}, market |-> 8,
   shock |-> [equity |-> Ratio(-1, 2), other |-> Ratio(-1, 4)],
   \* the comparison of the cores
   candidates |-> {TrendMix, FixedMix}, split |-> [core |-> 8, sleeve |-> 8], cap |-> Ratio(1, 4),
   validation |-> 7, holdout |-> 8, years |-> {[equity |-> Ratio(-1, 2), other |-> Zero]},
   shortlist |-> {TrendMix},
   \* retirement
   pool |-> [core |-> WholePart(SwitchMix),
             cash |-> WholePart([FixedMix EXCEPT !.on = Whole(9)])],
   pair |-> NaN,
   pairs |-> LET half(rule) == [rule |-> rule, share |-> 8]
                 quarter(rule) == [rule |-> rule, share |-> 4]
                 bonds == [FixedMix EXCEPT !.on = Whole(9)]
             IN  {<<quarter(SwitchMix), half(bonds), quarter(SwitchMix)>>, <<half(SwitchMix), half(FixedMix)>>},
   draws |-> << <<1, 3>>, <<4, 2>> >>, block |-> 2, horizonYears |-> 2, rates |-> {Ratio(1, 4)},
   checkpoints |-> {1, 2}, realFloor |-> Ratio(1, 2), tail |-> Ratio(1, 4), lines |-> {One},
   rules |-> {"fixed", "guardrails"}, rule |-> "fixed", upper |-> Ratio(3, 2), lower |-> Ratio(1, 2),
   cut |-> Ratio(1, 2), raise |-> One,
   entryStarts |-> <<2, 3>>, periods |-> {0, 2}, horizonMonths |-> 2, yearFive |-> 3,
   \* one's own mix and a bad year
   names |-> <<"core", "fixed", "cash">>,
   known |-> [core |-> <<[rule |-> SwitchMix, share |-> 8], [rule |-> FixedMix, share |-> 8]>>,
              fixed |-> WholePart(FixedMix), cash |-> WholePart([FixedMix EXCEPT !.on = Whole(9)])],
   given |-> [n \in {"core", "fixed", "TCASH"} |-> IF n = "TCASH" THEN 8 ELSE 4], askedRate |-> NaN,
   shockYears |-> <<Years(Ratio(1, 4), One, Ratio(4, 1))>>, maxYears |-> 2, maxGrowth |-> Ratio(4, 1),
   minPrices |-> One, maxPrices |-> Ratio(4, 1), basePrice |-> 2,
   groups |-> [x \in {8, 9} |-> IF x = 8 THEN {"stocks"} ELSE {"long_bonds", "short_bonds"}], days |-> 7]
OutlookDays(days) ==
  LET t == Len(days) + 1
      Day(c) == [bars |-> [x \in {8, 9} |-> At(c[x - 7])], month |-> t - 1, late |-> FALSE,
                 cpi |-> <<1, 1, 1, 2, 4, 4, 2>>[t]]
  IN  {Day(c) : c \in {<<2, 4>>} \cup (IF t \in {1, 6, 7} THEN {} ELSE {<<4, 2>>})
                     \cup (IF t \in {2, 4} THEN {<<4, NaN>>} ELSE {})}

-----------------------------------------------------------------------------
\* A company whose debt, cash and flow decide; a financial one; one that never
\* files; one of unknown industry that joins late.
FragilitySubject ==
  [kind |-> "fragility", year |-> 3, tolerance |-> 1, staleness |-> 4,
   sic |-> [x \in 1..3 |-> IF x = 3 THEN NaN ELSE x], financialSic |-> {2}, financialTickers |-> {},
   coverageMin |-> Ratio(2, 1), netDebtMax |-> Ratio(3, 1), maturitiesMax |-> One,
   altmanMin |-> Ratio(13, 2), piotroskiMax |-> 2, rateRiseMax |-> Ratio(1, 8), littleDebt |-> Ratio(1, 8),
   breachesToFragile |-> 2, minAvailable |-> 4, days |-> 4]
FiledFact(tag, end, val, annual) ==
  [tag |-> tag, span |-> SpanOf(tag), end |-> end, val |-> val, annual |-> annual]
Statement(end, b, annual) ==
  LET values ==
        [OperatingCashFlow |-> b.flow, PaymentsToAcquireAssets |-> 1, NetIncomeLoss |-> b.flow - 1,
         InterestExpense |-> b.interest, OperatingIncomeLoss |-> 3, Assets |-> 8, Liabilities |-> 4,
         StockholdersEquity |-> 4, AssetsCurrent |-> 2 + b.cash, LiabilitiesCurrent |-> 2,
         RetainedEarnings |-> 0, CashAndCashEquivalents |-> b.cash, WeightedShares |-> 1,
         GrossProfit |-> 2, Revenues |-> 4, DueNextTwelveMonths |-> 1, DueYearTwo |-> 1, DueYearThree |-> 0]
      debts == CASE b.tags = "total" -> [LongTermDebt |-> b.debt]
                 [] b.tags = "parts" -> [LongTermDebtNoncurrent |-> b.debt, DebtCurrent |-> 1]
                 [] b.tags = "convertible" -> [ConvertibleDebtNoncurrent |-> b.debt, ShortTermBorrowings |-> 1]
                 [] OTHER -> <<>>
  IN  {FiledFact(tag, end, values[tag], annual) : tag \in DOMAIN values \ b.gaps}
        \cup {FiledFact(tag, end, debts[tag], annual) : tag \in DOMAIN debts}
Books(flow, cash, debt, interest, tags) ==
  [flow |-> flow, cash |-> cash, debt |-> debt, interest |-> interest, tags |-> tags, gaps |-> {}]
Usual == Books(4, 1, 5, 1, "total")
FragilityDays(days) ==
  LET t == Len(days) + 1
      Day(f) == [filings |-> [x \in 1..3 |-> IF x = 1 THEN f ELSE {}], last |-> t \in {1, 3},
                 members |-> IF t = 1 THEN {1, 2} ELSE {1, 2, 3}]
      past == UNION {Statement(-3 * k - (k % 2), Usual, TRUE) : k \in 1..4}
  IN  IF t = 1
        THEN {Day(past \cup Statement(0, b, TRUE)) :
                b \in {Usual, Books(1, 0, 3, 2, "parts"), Books(0, 4, 2, 1, "convertible"),
                       Books(-1, 0, 5, 3, "total"), Books(-1, 0, 0, 0, "none"),
                       [Books(0, 1, 4, 1, "total") EXCEPT !.gaps = {"DueYearTwo", "LiabilitiesCurrent"}]}}
        ELSE {Day({}), Day({FiledFact("CashAndCashEquivalents", 0, 0, FALSE)}),
              Day({FiledFact("OperatingCashFlow", 0, 1, TRUE)})}
             \cup IF t < 3 THEN {}
                  ELSE {Day(Statement(t - 1, Books(2, 1, 5, 2, "total"), TRUE))}

-----------------------------------------------------------------------------
\* Every fund follows the index, first by its stand-in; the stand-in of one of
\* them may miss a day.  Two days a month.
CloseTogether(a, b) ==
  \A t \in InBoth(a, b) : ~(Higher(One, a[t]) /\ Higher(b[t], One))
OnlyIn(fund) ==
  [family |-> "core_mix", on |-> [x \in {fund} |-> Unit], off |-> <<>>, signal |-> NaN, lookback |-> 1]
TrendIn(fund, other) ==
  [family |-> "core_mix", on |-> [x \in {fund} |-> Unit], off |-> [x \in {other} |-> Unit],
   signal |-> fund, lookback |-> 2]
HistorySubject ==
  [kind |-> "history", index |-> "GSPC", threshold |-> Ratio(1, 2), episodeStart |-> 2, horizonYears |-> 1,
   rate |-> NaN, rates |-> {Ratio(1, 2)}, incomeYears |-> {1, 2}, cost |-> Zero, level |-> 1,
   portfolios |-> <<WholePart(OnlyIn("QQQ")), WholePart(TrendIn("SPY", "IEF")),
                    <<[rule |-> OnlyIn("GLD"), share |-> 8], [rule |-> OnlyIn("RSP"), share |-> 8]>> >>,
   dividends |-> [m \in -1..3 |-> IF m = 0 THEN One ELSE Zero],
   gold |-> [m \in 0..3 |-> IF m = 0 THEN One ELSE IF m = 3 THEN NaN ELSE Ratio(4, 1)],
   legs |-> <<[fred |-> "DGS1", duration |-> Ratio(1, 2)],
              [fred |-> "DGS2", duration |-> Ratio(1, 2), first |-> 4, last |-> 5]>>,
   lag |-> 0, minDays |-> 1, minMonths |-> 1, panelStart |-> 3, maxGap |-> 1,
   latestStart |-> [x \in {"GSPC", "IXIC", "SPY", "QQQ", "RSP", "IEF", "GLD"} |-> 6],
   latestRate |-> [f \in {"DGS1", "DGS2"} |-> 2], latestDividends |-> -1, latestGold |-> 0, latestCpi |-> 2,
   end |-> 7, days |-> 7]
HistoryDays(days) ==
  LET t == Len(days) + 1
      gold == IF t > 5 THEN 2 ELSE 4
      From(first, bar) == IF t < first THEN NaN ELSE bar
      Day(c, gap) ==
        [month |-> (t - 1) \div 2, late |-> t % 2 = 0, cpi |-> IF t > 4 THEN 2 ELSE 1,
         rates |-> [DGS1 |-> IF t > 5 THEN One ELSE Zero, DGS2 |-> Zero],
         bars |-> [GSPC |-> At(c), SPYTR |-> From(4, At(2 * c)), SPY |-> From(5, Bar(8, 4 * c)),
                   IXIC |-> IF gap THEN NaN ELSE At(c), QQQ |-> From(5, Bar(4, 2 * c)),
                   GC |-> From(4, At(gold)), GLD |-> From(5, At(gold)), RSP |-> From(6, At(4 * c)),
                   IEF |-> From(5, At(4))]]
  IN  {Day(c, FALSE) : c \in IF t = 1 THEN {4} ELSE IF t = 2 THEN {2, 8} ELSE {2, 4, 8}}
        \cup (IF t = 4 THEN {Day(2, TRUE)} ELSE {})

-----------------------------------------------------------------------------
MCSubjects == {IncomeSubject(0, Ratio(1, 2)), IncomeSubject(1, Ratio(1, 2)), IncomeSubject(0, OddRate),
               OutlookSubject, FragilitySubject, HistorySubject}

MCDays(s, days) ==
  CASE s.kind = "outlook"   -> OutlookDays(days)
    [] s.kind = "income"    -> IncomeDays(s, days)
    [] s.kind = "fragility" -> FragilityDays(days)
    [] s.kind = "history"   -> HistoryDays(days)

=============================================================================
