----------------------------- MODULE Fragility -----------------------------
(***************************************************************************)
(* The balance-sheet fragility screen (qrl/fragility.py).                  *)
(*                                                                         *)
(* A day's filings give a company facts: a tag, the period it spans (an    *)
(* instant, a quarter or a year), the date the period ended, the value,    *)
(* and whether the form was an annual one.  Time is counted in trading     *)
(* days of the tape; s.year is the length of a fiscal year.  Each list of  *)
(* alternative tags is cut to those that differ in what is done with them. *)
(***************************************************************************)
EXTENDS Frames

DebtTotal == <<"LongTermDebt">>
DebtInclCurrent == <<"LongTermDebtAndCapitalLeaseObligationsIncludingCurrentMaturities">>
DebtNoncurrentAlt == <<"LongTermDebtAndCapitalLeaseObligations">>
DebtCurrentAlt == <<"LongTermDebtCurrent", "DebtCurrent">>
DebtCombined == <<"DebtLongtermAndShorttermCombinedAmount">>
ConvertibleNoncurrent == <<"ConvertibleDebtNoncurrent">>
ConvertibleCurrent == <<"ConvertibleDebtCurrent">>
CashTags == <<"CashAndCashEquivalents", "CashFairValueDisclosure">>
ShortInvestments == <<"ShortTermInvestments">>
Interest == <<"InterestExpense", "InterestExpenseDebt">>
Pretax == <<"PretaxIncome">>
Capex == <<"PaymentsToAcquireAssets">>
Ocf == <<"OperatingCashFlow", "OperatingCashFlowContinuing">>
Revenue == <<"Revenues">>
Cost == <<"CostOfRevenue">>
Maturities == <<"DueNextTwelveMonths", "DueYearTwo", "DueYearThree">>

DebtFamily ==
  ToSet(DebtTotal \o DebtInclCurrent \o DebtNoncurrentAlt \o DebtCurrentAlt \o DebtCombined
        \o ConvertibleNoncurrent \o ConvertibleCurrent \o <<"LongTermDebtNoncurrent", "ShortTermBorrowings">>)

InstantTags ==
  DebtFamily \cup ToSet(CashTags \o ShortInvestments \o Maturities)
    \cup {"AssetsCurrent", "LiabilitiesCurrent", "Assets", "Liabilities", "RetainedEarnings",
          "StockholdersEquity"}

YearTags ==
  ToSet(Interest \o Pretax \o Capex \o Ocf \o Revenue \o Cost)
    \cup {"OperatingIncomeLoss", "NetIncomeLoss", "GrossProfit", "WeightedShares"}

\* Their ends are the fiscal years.
Anchors == {"OperatingCashFlow", "NetIncomeLoss", "OperatingIncomeLoss"}

-----------------------------------------------------------------------------
(* What is public strictly before a day.                                   *)

\* The latest word on a period, whenever it was filed.
EverFiled(tape, date, x) ==
  UNION {{[tag |-> f.tag, span |-> f.span, end |-> f.end, val |-> f.val, annual |-> f.annual, filed |-> u] :
            f \in tape[u].filings[x]} : u \in DOMAIN tape}

PublicFacts(tape, date, x) ==
  UNION {{[tag |-> f.tag, span |-> f.span, end |-> f.end, val |-> f.val, annual |-> f.annual, filed |-> u] :
            f \in tape[u].filings[x]} : u \in {v \in DOMAIN tape : v < date}}

\* Sorted by kind of form, then filing day: the last one counts.
LastWord(facts) ==
  CHOOSE f \in facts :
    \A g \in facts : IF f.annual = g.annual THEN f.filed >= g.filed ELSE f.annual

SpanOf(tag) == IF tag \in InstantTags THEN "instant" ELSE "year"

\* _View: the values by tag and end, and the ends of the fiscal years.
View(facts) ==
  LET of(tag) == {f \in facts : f.tag = tag /\ f.span = SpanOf(tag)}
  IN  [ends |-> {f.end : f \in {g \in facts : g.tag \in Anchors /\ g.annual /\ g.span = "year"}},
       by   |-> [tag \in InstantTags \cup YearTags |->
                   [e \in {f.end : f \in of(tag)} |-> LastWord({f \in of(tag) : f.end = e}).val]]]

Has(v, tag, e) == e # NaN /\ e \in DOMAIN v.by[tag]

\* The value of the first tag that has one.
Get(v, tags, e) ==
  LET given == {k \in DOMAIN tags : Has(v, tags[k], e)}
  IN  IF given = {} THEN NaN ELSE v.by[tags[Min(given)]][e]
GetOne(v, tag, e) == Get(v, <<tag>>, e)
OrNone(value) == IF value = NaN THEN 0 ELSE value

\* The end nearest to a year before, of two as near the earlier one.
PriorEnd(ends, e, s) ==
  LET off(d) == Abs(d - (e - s.year))
      near == {d \in ends : e # NaN /\ d < e /\ off(d) =< s.tolerance}
  IN  IF near = {} THEN NaN
      ELSE CHOOSE d \in near : \A o \in near : off(d) < off(o) \/ (off(d) = off(o) /\ d =< o)

\* The latest fiscal year and the four before it; <<>> when it is too old.
FiscalChain(v, date, s) ==
  IF v.ends = {} \/ date - Max(v.ends) > s.staleness THEN <<>>
  ELSE LET e0 == Max(v.ends)
           e1 == PriorEnd(v.ends, e0, s)
           e2 == PriorEnd(v.ends, e1, s)
           e3 == PriorEnd(v.ends, e2, s)
       IN  <<e0, e1, e2, e3, PriorEnd(v.ends, e3, s)>>

-----------------------------------------------------------------------------
(* Debt, cash, earnings.                                                   *)

Sum(a, b) == IF a = NaN \/ b = NaN THEN NaN ELSE a + b
Difference(a, b) == IF a = NaN \/ b = NaN THEN NaN ELSE a - b

ShortDebt(v, e) == OrNone(GetOne(v, "ShortTermBorrowings", e))

DebtPrimary(v, e) ==
  LET noncurrent == GetOne(v, "LongTermDebtNoncurrent", e)
      current    == GetOne(v, "LongTermDebtCurrent", e)
  IN  IF Get(v, DebtTotal, e) # NaN THEN Get(v, DebtTotal, e) + ShortDebt(v, e)
      ELSE IF current # NaN THEN Sum(Sum(noncurrent, current), ShortDebt(v, e))
      ELSE Sum(noncurrent, GetOne(v, "DebtCurrent", e))

DebtConvertible(v, e) ==
  Sum(Get(v, ConvertibleNoncurrent, e), OrNone(Get(v, ConvertibleCurrent, e)) + ShortDebt(v, e))

\* DebtCurrent already has the short-term borrowings.
DebtFallback(v, e) ==
  LET noncurrent == Get(v, DebtNoncurrentAlt, e)
      given == {k \in DOMAIN DebtCurrentAlt : Has(v, DebtCurrentAlt[k], e)}
      tag   == DebtCurrentAlt[Min(given)]
  IN  CASE Get(v, DebtInclCurrent, e) # NaN -> Get(v, DebtInclCurrent, e) + ShortDebt(v, e)
        [] Get(v, DebtInclCurrent, e) = NaN /\ noncurrent # NaN /\ given # {} ->
             noncurrent + v.by[tag][e] + (IF tag = "DebtCurrent" THEN 0 ELSE ShortDebt(v, e))
        [] OTHER -> IF Get(v, DebtCombined, e) # NaN THEN Get(v, DebtCombined, e)
                    ELSE DebtConvertible(v, e)

\* A balance sheet without any debt tag, and no interest paid.
UntaggedNoDebt(v, e) ==
  /\ ~\E tag \in DebtFamily : Has(v, tag, e)
  /\ Has(v, "Assets", e) /\ Has(v, "Liabilities", e)
  /\ ~\E k \in DOMAIN Interest : Has(v, Interest[k], e) /\ v.by[Interest[k]][e] > 0

Debt(v, e) ==
  CASE DebtPrimary(v, e) # NaN -> DebtPrimary(v, e)
    [] DebtPrimary(v, e) = NaN /\ DebtFallback(v, e) # NaN -> DebtFallback(v, e)
    [] OTHER -> IF UntaggedNoDebt(v, e) THEN 0 ELSE NaN

CashHeld(v, e) == Sum(Get(v, CashTags, e), OrNone(Get(v, ShortInvestments, e)))

Ebit(v, e) ==
  IF GetOne(v, "OperatingIncomeLoss", e) # NaN THEN GetOne(v, "OperatingIncomeLoss", e)
  ELSE Sum(Get(v, Pretax, e), Get(v, Interest, e))

Fcf(v, e) == Difference(Get(v, Ocf, e), Get(v, Capex, e))

-----------------------------------------------------------------------------
(* The six measures: "ok", "breach" or "n/a".                              *)

Verdict(breach) == IF breach THEN "breach" ELSE "ok"

MeasureCoverage(v, ends, s) ==
  LET ebit == Ebit(v, ends[1]) interest == Get(v, Interest, ends[1])
  IN  CASE Debt(v, ends[1]) = 0 -> "ok"
        [] Debt(v, ends[1]) # 0 /\ (NaN \in {ebit, interest} \/ OrNone(interest) =< 0) -> "n/a"
        [] OTHER -> Verdict(Higher(s.coverageMin, Ratio(ebit, interest)))

MeasureNetDebt(v, ends, s) ==
  LET debt == Debt(v, ends[1]) net == Difference(debt, CashHeld(v, ends[1])) fcf == Fcf(v, ends[1])
  IN  CASE debt = 0 -> "ok"
        [] debt # 0 /\ NaN \in {net, fcf} -> "n/a"
        [] OTHER -> Verdict(net > 0 /\ (fcf =< 0 \/ Higher(Ratio(net, fcf), s.netDebtMax)))

\* The ratio without a look at the sign of what it divides by.
MaturitiesUnguarded(v, ends, s) ==
  LET due   == [k \in DOMAIN Maturities |-> GetOne(v, Maturities[k], ends[1])]
      money == Sum(CashHeld(v, ends[1]), Fcf(v, ends[1]))
      total == SumOver(DOMAIN due, LAMBDA k : due[k])
  IN  IF money = NaN \/ NaN \in Range(due) THEN "n/a"
      ELSE Verdict(money # 0 /\ Higher(Fraction(total, money), s.maturitiesMax))

MeasureMaturities(v, ends, s) ==
  LET due   == [k \in DOMAIN Maturities |-> GetOne(v, Maturities[k], ends[1])]
      money == Sum(CashHeld(v, ends[1]), Fcf(v, ends[1]))
      total == SumOver(DOMAIN due, LAMBDA k : due[k])
  IN  IF money = NaN \/ NaN \in Range(due) THEN "n/a"
      ELSE Verdict(total > 0 /\ (money =< 0 \/ Higher(Ratio(total, money), s.maturitiesMax)))

\* Swings of the rate on a tiny debt are noise.
LittleNetDebt(v, e, s) ==
  LET net == Difference(Debt(v, e), CashHeld(v, e)) assets == GetOne(v, "Assets", e)
  IN  NaN \notin {net, assets} /\ assets > 0 /\ ~Higher(Fraction(net, assets), s.littleDebt)

MeasureRateTrend(v, ends, s) ==
  LET debt == [k \in {1, 2, 4, 5} |-> Debt(v, ends[k])]
      paid == [k \in {1, 4} |-> Get(v, Interest, ends[k])]
      known == NaN \notin {ends[k] : k \in {1, 2, 4, 5}} \cup Range(debt) \cup Range(paid)
      usable == known /\ paid[1] > 0 /\ paid[4] > 0 /\ debt[1] + debt[2] > 0 /\ debt[4] + debt[5] > 0
      rise == Minus(Ratio(2 * paid[1], debt[1] + debt[2]), Ratio(2 * paid[4], debt[4] + debt[5]))
  IN  IF debt[1] = 0 \/ LittleNetDebt(v, ends[1], s) THEN "ok"
      ELSE IF usable THEN Verdict(Higher(rise, s.rateRiseMax)) ELSE "n/a"

\* Altman's Z'' with the coefficients rounded to whole numbers.
MeasureAltman(v, ends, s) ==
  LET e == ends[1]
      assets == GetOne(v, "Assets", e) equity == GetOne(v, "StockholdersEquity", e)
      liabilities == IF Has(v, "Liabilities", e) THEN GetOne(v, "Liabilities", e)
                     ELSE Difference(assets, equity)
      working == Difference(GetOne(v, "AssetsCurrent", e), GetOne(v, "LiabilitiesCurrent", e))
      retained == GetOne(v, "RetainedEarnings", e)
      z == Plus(Ratio(7 * working + 3 * retained + 7 * Ebit(v, e), assets),
                Plus(Ratio(equity, liabilities), Ratio(3, 1)))
  IN  IF NaN \in {assets, equity, liabilities, working, retained, Ebit(v, e)} THEN "n/a"
      ELSE IF assets =< 0 \/ liabilities =< 0 THEN "n/a" ELSE Verdict(Higher(s.altmanMin, z))

PioYear(v, e) ==
  [income |-> GetOne(v, "NetIncomeLoss", e), assets |-> GetOne(v, "Assets", e), flow |-> Get(v, Ocf, e),
   debt |-> Debt(v, e), current |-> GetOne(v, "AssetsCurrent", e),
   dues |-> GetOne(v, "LiabilitiesCurrent", e), shares |-> GetOne(v, "WeightedShares", e),
   gross |-> IF Has(v, "GrossProfit", e) THEN GetOne(v, "GrossProfit", e)
             ELSE Difference(Get(v, Revenue, e), Get(v, Cost, e)),
   revenue |-> Get(v, Revenue, e)]

\* How many of the nine signals a year shows over the one before.
PioScore(cur, prev, before) ==
  LET signals ==
        <<cur.income > 0,
          cur.flow > 0,
          Higher(Fraction(cur.income, cur.assets), Fraction(prev.income, prev.assets)),
          cur.flow > cur.income,
          Higher(Fraction(prev.debt, prev.assets + before), Fraction(cur.debt, cur.assets + prev.assets)),
          Higher(Fraction(cur.current, cur.dues), Fraction(prev.current, prev.dues)),
          cur.shares =< prev.shares,
          Higher(Fraction(cur.gross, cur.revenue), Fraction(prev.gross, prev.revenue)),
          Higher(Fraction(cur.revenue, cur.assets), Fraction(prev.revenue, prev.assets))>>
  IN  Cardinality({k \in DOMAIN signals : signals[k]})

MeasurePiotroski(v, ends, s) ==
  LET cur == PioYear(v, ends[1]) prev == PioYear(v, ends[2]) before == GetOne(v, "Assets", ends[3])
      bases == {cur.assets, prev.assets, cur.dues, prev.dues, cur.revenue, prev.revenue}
  IN  IF NaN \in {ends[2], ends[3], before} \cup Range(cur) \cup Range(prev) THEN "n/a"
      ELSE IF 0 \in bases \cup {cur.assets + prev.assets, prev.assets + before} THEN "n/a"
      ELSE Verdict(PioScore(cur, prev, before) =< s.piotroskiMax)

-----------------------------------------------------------------------------
(* Classes.                                                                *)

\* Net debt / FCF and maturities both lean on FCF: one breach.
Breaches(m) ==
  Cardinality({k \in DOMAIN m : m[k] = "breach"})
    - (IF m.net_debt = "breach" /\ m.maturities = "breach" THEN 1 ELSE 0)

Classify(m, s) ==
  CASE Breaches(m) >= s.breachesToFragile -> "FRAGILE"
    [] Breaches(m) < s.breachesToFragile /\ Breaches(m) >= 1 -> "WATCH"
    [] OTHER -> IF Cardinality({k \in DOMAIN m : m[k] # "n/a"}) >= s.minAvailable
                THEN "SOUND" ELSE "INSUFFICIENT DATA"

Measures(v, ends, s) ==
  [coverage   |-> MeasureCoverage(v, ends, s),   net_debt   |-> MeasureNetDebt(v, ends, s),
   maturities |-> MeasureMaturities(v, ends, s), rate_trend |-> MeasureRateTrend(v, ends, s),
   altman_z   |-> MeasureAltman(v, ends, s),     piotroski  |-> MeasurePiotroski(v, ends, s)]

IsFinancial(x, s) == x \in s.financialTickers \/ (s.sic[x] # NaN /\ s.sic[x] \in s.financialSic)

\* fragility_as_of, with the measures of a company that is known.
FragilityAsOf(tape, date, x, s) ==
  LET v    == View(PublicFacts(tape, date, x))
      ends == FiscalChain(v, date, s)
      m    == IF ends = <<>> THEN <<>> ELSE Measures(v, ends, s)
  IN  CASE IsFinancial(x, s) -> "NOT APPLICABLE"
        [] ~IsFinancial(x, s) /\ (ends = <<>> \/ s.sic[x] = NaN) -> "INSUFFICIENT DATA"
        [] OTHER -> Classify(m, s)

\* The members of the latest month end strictly before a day.
MembersAsOf(tape, date) ==
  LET ends == {u \in DOMAIN tape : u < date /\ tape[u].last}
  IN  IF ends = {} THEN {} ELSE tape[Max(ends)].members

\* screen, excluded_tickers
Screen(tape, date, s) == [x \in MembersAsOf(tape, date) |-> FragilityAsOf(tape, date, x, s)]
Excluded(tape, date, s) ==
  LET classes == Screen(tape, date, s) IN {x \in DOMAIN classes : classes[x] = "FRAGILE"}

\* The newest filing date a report has seen, and its companies by class.
FragilityReport(tape, date, s) ==
  LET classes == Screen(tape, date, s)
      seen == {u \in DOMAIN tape : u < date /\ \E x \in DOMAIN classes : tape[u].filings[x] # {}}
  IN  [classes |-> classes, newest |-> IF seen = {} THEN NaN ELSE Max(seen),
       excluded |-> Excluded(tape, date, s)]

=============================================================================
