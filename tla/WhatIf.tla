------------------------------- MODULE WhatIf -------------------------------
(***************************************************************************)
(* The decision report asked about one's own mix (qrl/whatif.py, the       *)
(* portfolios of decision_config.py), and about bad years before the       *)
(* start (shock.py).                                                       *)
(*                                                                         *)
(* p has the known portfolios by name, the mix as shares of names, one of  *)
(* which may be "TCASH", the rate asked for or NaN, the years of a shock,  *)
(* each with the growth of every group of funds and of prices, and the     *)
(* groups that a fund belongs to.                                          *)
(***************************************************************************)
EXTENDS Outlook

-----------------------------------------------------------------------------
(* Mixes.                                                                  *)

\* _blend: the parts of the parts
BlendParts(names, shares, known) ==
  FlattenSeq([i \in DOMAIN names |->
    [k \in DOMAIN known[names[i]] |->
       [known[names[i]][k] EXCEPT !.share = Scaled(@, shares[names[i]], 1)]]])

\* parse_mix
MixIsValid(given, known) ==
  DOMAIN given \subseteq DOMAIN known \cup {"TCASH"} /\ Invested(given) = Unit

\* split_shares: true cash aside, the others make up the whole.
TrueCash(given) == IF "TCASH" \in DOMAIN given THEN given["TCASH"] ELSE 0
NoCash(given) ==
  LET names == {name \in DOMAIN given : name # "TCASH" /\ given[name] > 0}
  IN  [name \in names |-> (given[name] * Unit) \div SumOver(names, LAMBDA n : given[n])]

\* mix_portfolio, merged or as it is
FlatMix(given, p) == BlendParts(SelectSeq(p.names, LAMBDA n : n \in DOMAIN NoCash(given)), NoCash(given), p.known)
MixPortfolio(given, p) == MergeParts(FlatMix(given, p))

\* merge_rate
MergeRate(rates, rate) == IF rate = NaN THEN rates ELSE rates \cup {rate}

\* mix_config: the report's parameters for the mix, all of whose cash is
\* assumed cash; a mix of true cash only is the cash portfolio and all cash.
MixConfig(p) ==
  [p EXCEPT !.parts = IF DOMAIN NoCash(p.given) = {} THEN p.known["cash"] ELSE MixPortfolio(p.given, p),
            !.cashShare = Ratio(TrueCash(p.given), Unit),
            !.rates = MergeRate(@, p.askedRate)]

RunWhatIf(tape, p) ==
  LET q == MixConfig(p)
  IN  IF ~MixIsValid(p.given, p.known) \/ ~HoldsAll(q.parts) THEN NaN
      ELSE [returns     |-> ReturnRows(tape, q),
            withdrawals |-> [rate \in q.rates |-> WithdrawalRow(tape, [q EXCEPT !.rate = rate])]]

-----------------------------------------------------------------------------
(* The years of a shock.                                                   *)

\* _year and load_shock
ShockIsValid(p) ==
  /\ Len(p.shockYears) \in 1..p.maxYears
  /\ \A k \in DOMAIN p.shockYears :
       LET year == p.shockYears[k]
       IN  /\ \A group \in DOMAIN year.growth :
                Higher(year.growth[group], Zero) /\ ~Higher(year.growth[group], p.maxGrowth)
           /\ ~Higher(p.minPrices, year.prices) /\ ~Higher(year.prices, p.maxPrices)

\* check_fund_map
FundsMapped(parts, p) == HeldTickers(parts) \subseteq DOMAIN p.groups

\* fund_return: the mean of the fund's groups
FundGrowth(x, year, p) ==
  Over(Total(p.groups[x], LAMBDA g : year.growth[g]), Ratio(Cardinality(p.groups[x]), 1))

\* stretch_days: the calendar years before a start, a day for every month; the
\* year of each.
Stretch(n) == 1..n * MonthsAYear
YearAt(p, j) == p.shockYears[((j - 1) \div MonthsAYear) + 1]

\* _spread: the same growth on every day of a year
Spread(growth) == Root(growth, MonthsAYear)

\* stretch_returns and cash_returns
StretchGrowth(mix, p) ==
  [j \in Stretch(Len(p.shockYears)) |->
     Plus(One, Total(DOMAIN mix, LAMBDA x :
       Times(Ratio(mix[x], Unit), Minus(Spread(FundGrowth(x, YearAt(p, j), p)), One))))]
CashGrowth(p) ==
  [j \in Stretch(Len(p.shockYears)) |-> Spread(YearAt(p, j).growth["short_bonds"])]

\* stretch_cpi: the prices known when the j-th month starts
StretchPrice(p, j) ==
  Times(Ratio(p.basePrice, 1), Product(1..j - 1, LAMBDA i : Root(YearAt(p, i).prices, MonthsAYear)))

\* An index is kept in whole points.
Points(price) == price.n \div price.d

\* The index of the data goes on where the shock's ends.
Rescaled(price, scale) == IF price = NaN THEN NaN ELSE Points(Times(Ratio(price, 1), scale))

\* shocked_path: the tape of a start with the shock before it; without prices
\* for the month of the join there is none.
ShockedTape(cut, month, p) ==
  LET n     == Len(p.shockYears)
      from  == StartOf(cut, month)
      join  == cut[from].cpi
      scale == Over(StretchPrice(p, n * MonthsAYear + 1), Ratio(join, 1))
  IN  IF join = NaN THEN NaN
      ELSE [j \in Stretch(n) |-> [month |-> month - n * MonthsAYear + j - 1, late |-> FALSE,
                                  cpi |-> Points(StretchPrice(p, j))]]
           \o [i \in 1..Len(cut) - from + 1 |->
                 LET day == cut[from + i - 1]
                 IN  [month |-> day.month, late |-> day.late, cpi |-> Rescaled(day.cpi, scale)]]

\* join_returns
Joined(stretch, run) ==
  stretch \o [i \in 1..Cardinality(DOMAIN run) |-> run[Min(DOMAIN run) + i - 1]]

\* _state_paths: the shock is lived through in one mix, then the rule goes on.
StatePaths(mix, runs, share, p) ==
  LET key(m) == m - Len(p.shockYears) * MonthsAYear
      stretch == IF share = NaN THEN StretchGrowth(mix, p)
                 ELSE MixReturns(StretchGrowth(mix, p), CashGrowth(p), share)
  IN  [k \in {key(m) : m \in DOMAIN runs} |-> Joined(stretch, runs[k + Len(p.shockYears) * MonthsAYear])]

ShockTapes(cut, p) ==
  LET n == Len(p.shockYears) * MonthsAYear
  IN  [k \in {m - n : m \in p.starts} |-> ShockedTape(cut, k + n, p)]

\* withdrawal_step, per state of a portfolio or of an assumed-cash row
ShockStep(tapes, parts, runs, share, p) ==
  [mix \in PortfolioStates(parts) |-> LET paths == StatePaths(mix, runs, share, p) IN RowsFor(tapes, paths, p)]

\* worse_state: the one whose worst start ends lowest
WorseStates(steps) ==
  LET worst == [mix \in DOMAIN steps |-> steps[mix].long[steps[mix].worst].real]
  IN  {mix \in DOMAIN steps : \A other \in DOMAIN steps : ~Higher(worst[mix], worst[other])}

\* headline_rows
Headline(steps, base) ==
  [states |-> steps, worse |-> WorseStates(steps), noShock |-> base]

RunShock(tape, p) ==
  LET cut   == Cut(tape, p)
      tapes == ShockTapes(cut, p)
      rows  == WithdrawalRow(tape, p)
      runs  == [m \in p.starts |-> PortfolioReturns(cut, p.parts, StartOf(cut, m), p.cost)]
      mixed == [m \in p.starts |-> MixReturns(runs[m], CashLeg(cut, DOMAIN runs[m], p), p.cashShare)]
  IN  IF \/ ~ShockIsValid(p) \/ ~FundsMapped(p.parts, p)
         \/ (\E m \in p.starts : runs[m] = NaN) \/ (\E m \in p.starts : mixed[m] = NaN)
         \/ \E k \in DOMAIN tapes : tapes[k] = NaN
      THEN NaN
      ELSE LET rule == ShockStep(tapes, p.parts, runs, NaN, p)
               cash == ShockStep(tapes, p.parts, mixed, p.cashShare, p)
           IN  <<Headline(rule, rows[1]), Headline(cash, rows[2])>>

=============================================================================
