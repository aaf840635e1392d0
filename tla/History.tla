------------------------------ MODULE History ------------------------------
(***************************************************************************)
(* Prices of funds before there were funds (qrl/history_data.py and the    *)
(* joins of qrl/international.py), and portfolios of funds and stand-ins   *)
(* in the falls of the stock index (qrl/history.py).                       *)
(*                                                                         *)
(* A column gives every day of the tape a fraction or NaN.  raw is a tape  *)
(* whose days have their month, the bars of indices and funds, the yields  *)
(* of treasuries, and the month's figures of gold, of the dividend yield   *)
(* and of the prices of living, NaN when there is none.  p is the          *)
(* configuration: its index, threshold, episodeStart, horizonYears, rates, *)
(* incomeYears and portfolios, each of them a sequence of parts.  A cell   *)
(* is a fraction or one of the notes; Never is the time of a recovery that *)
(* does not come.                                                          *)
(***************************************************************************)
EXTENDS Outlook

CONSTANTS
  YieldDays,            \* the days a yearly yield is spread over
  CloselyMoves(_, _),   \* two columns of returns, where both have one: the correlation bar
  NoSignal, DataEnds

Valid(col) == {t \in DOMAIN col : col[t] # NaN}
GrowthIn(col, t) ==
  IF t - 1 \notin Valid(col) \/ t \notin Valid(col) THEN NaN ELSE Over(col[t], col[t - 1])
RawCloses(raw, x) ==
  [t \in DOMAIN raw |-> IF Priced(raw, t, x) THEN Ratio(raw[t].bars[x].close, 1) ELSE NaN]
RawOpens(raw, x) ==
  [t \in DOMAIN raw |-> IF Priced(raw, t, x) THEN Ratio(raw[t].bars[x].open, 1) ELSE NaN]

-----------------------------------------------------------------------------
(* Monthly figures and dividends.                                          *)

MonthOf(raw, t) == raw[t].month
LastOf(raw, m) == Max({t \in DOMAIN raw : raw[t].month = m})

\* The constant growth that n times over is the given one.
EvenGrowth(growth, n) ==
  CHOOSE r \in {Ratio(a, b) : a, b \in 1..8} : Product(1..n, LAMBDA i : r) = growth

\* interpolate_monthly: each figure on its month's last day, geometric between.
InterpolateMonthly(raw, figures) ==
  LET months  == {raw[t].month : t \in DOMAIN raw}
      anchors == {LastOf(raw, m) : m \in {k \in months : k \in DOMAIN figures /\ figures[k] # NaN}}
      figure(t) == figures[raw[t].month]
  IN  [t \in DOMAIN raw |->
         LET before == {u \in anchors : u =< t} after == {u \in anchors : u >= t}
             a == Max(before) b == Min(after)
         IN  IF before = {} \/ after = {} THEN NaN
             ELSE IF a = b THEN figure(a)
             ELSE Times(figure(a), Product(a + 1..t, LAMBDA u : EvenGrowth(Over(figure(b), figure(a)), b - a)))]

\* sp_with_dividends: the yield known is that of the month before.
SpWithDividends(raw, price, yields) ==
  LET daily(t) == yields[raw[t].month - 1]
      growth(t) == Plus(GrowthIn(price, t), Times(daily(t), Ratio(1, YieldDays)))
  IN  IF \E t \in DOMAIN raw : price[t] = NaN \/ raw[t].month - 1 \notin DOMAIN yields THEN NaN
      ELSE [t \in DOMAIN raw |-> Product(2..t, growth)]

-----------------------------------------------------------------------------
(* Treasuries.                                                             *)

\* lagged_close: the latest yield at least the lag old.
LaggedClose(yields, lag) ==
  [t \in DOMAIN yields |->
     LET known == {u \in Valid(yields) : u =< t - lag} IN IF known = {} THEN NaN ELSE yields[Max(known)]]

\* yield_proxy_close: a day's yield less what the change of the yield costs.
YieldProxyClose(yields, duration, lag) ==
  LET y == LaggedClose(yields, lag)
      growth(t) == Plus(One, Minus(Times(y[t - 1], Ratio(1, YieldDays)),
                                   Times(duration, Minus(y[t], y[t - 1]))))
      priced == {t \in Valid(y) : t - 1 \in Valid(y)}
  IN  [t \in DOMAIN y |-> IF t \in priced THEN Product({u \in priced : u =< t}, growth) ELSE NaN]

\* A leg's returns end a day after the last yield of its window is known.
LegDays(leg, lag, days) ==
  LET after == Cardinality({t \in days : t =< leg.last}) IN {t \in days : t >= leg.first /\ t =< after + lag + 1}

\* treasury_proxy: the base leg, replaced where a later leg is in use.
TreasuryProxy(legs, rates, lag) ==
  LET close == [i \in DOMAIN legs |-> YieldProxyClose(rates[legs[i].fred], legs[i].duration, lag)]
      days  == DOMAIN close[1]
      using(t) == {i \in DOMAIN legs \ {1} : t \in LegDays(legs[i], lag, days) /\ GrowthIn(close[i], t) # NaN}
      growth(t) == LET g == GrowthIn(close[IF using(t) = {} THEN 1 ELSE Max(using(t))], t)
                   IN  IF g = NaN THEN One ELSE g
  IN  IF Len(legs) = 1 THEN close[1]
      ELSE [t \in days |-> IF close[1][t] = NaN THEN NaN ELSE Product(1..t, growth)]

-----------------------------------------------------------------------------
(* Joins.                                                                  *)

\* The stand-in as it is, met by the fund's prices as they are.
Butt(proxy, fund) ==
  [t \in DOMAIN fund |-> IF Valid(fund) # {} /\ t >= Min(Valid(fund)) THEN fund[t] ELSE proxy[t]]

\* splice: the stand-in scaled to meet the fund's first close.
Splice(proxy, fund) ==
  LET first == Min(Valid(fund))
  IN  IF Valid(fund) = {} THEN proxy
      ELSE IF proxy[first] = NaN THEN fund
      ELSE [t \in DOMAIN fund |->
              IF t >= first THEN fund[t]
              ELSE IF proxy[t] = NaN THEN NaN ELSE Times(proxy[t], Over(fund[first], proxy[first]))]

InteriorGaps(col, end) ==
  {t \in DOMAIN col : col[t] = NaN /\ t < end /\ \E u \in Valid(col) : u < t}

LongestRun(S) == Max({0} \cup {t - u + 1 : <<u, t>> \in {w \in S \X S : w[1] =< w[2] /\ w[1]..w[2] \subseteq S}})

\* fill_proxy_gaps: yesterday's close, at which the day and the next one open.
FilledClose(close, end) ==
  [t \in DOMAIN close |-> IF t \in InteriorGaps(close, end)
                            THEN close[Max({u \in Valid(close) : u < t})] ELSE close[t]]
FilledOpen(open, close, end) ==
  LET gaps == InteriorGaps(close, end)
  IN  [t \in DOMAIN open |->
         IF open[t] = NaN /\ t < end /\ (t \in gaps \/ t - 1 \in gaps) THEN FilledClose(close, end)[t - 1]
         ELSE open[t]]

\* Days of a stand-in open where the day before closed.
Opens(close, own, first) ==
  [t \in DOMAIN close |-> IF t < first THEN (IF t = 1 THEN NaN ELSE close[t - 1]) ELSE own[t]]

-----------------------------------------------------------------------------
(* The panel: SPY, QQQ, IEF, GLD and RSP, of which QQQ's stand-in is a     *)
(* price index and RSP's is SPY.                                           *)

Funds == {"SPY", "QQQ", "IEF", "GLD", "RSP"}

StandInOf(raw, fund, p) ==
  LET close(x) == RawCloses(raw, x)
      spDiv == SpWithDividends(raw, close(p.index), p.dividends)
      gold  == InterpolateMonthly(raw, [m \in {raw[t].month : t \in DOMAIN raw} |-> p.gold[m]])
      rates == [f \in {p.legs[i].fred : i \in DOMAIN p.legs} |-> [t \in DOMAIN raw |-> raw[t].rates[f]]]
  IN  CASE fund = "SPY" -> Splice(spDiv, close("SPYTR"))
        [] fund = "QQQ" -> close("IXIC")
        [] fund = "IEF" -> TreasuryProxy(p.legs, rates, p.lag)
        [] fund = "GLD" -> Splice(gold, close("GC"))
        [] fund = "RSP" -> Splice(Splice(spDiv, close("SPYTR")), close("SPY"))

DailyReturns(col) == [t \in DOMAIN col |-> GrowthIn(col, t)]

\* _monthly: the last price of every month that has one, or their mean.
MonthsWith(raw, col) == {raw[t].month : t \in Valid(col)}
DaysIn(raw, col, m) == {t \in Valid(col) : raw[t].month = m}
MonthEnds(raw, col) == [m \in MonthsWith(raw, col) |-> col[Max(DaysIn(raw, col, m))]]
MonthMeans(raw, col) ==
  [m \in MonthsWith(raw, col) |->
     LET days == DaysIn(raw, col, m)
     IN  Times(Ratio(1, Cardinality(days)), Total(days, LAMBDA t : col[t]))]

\* The figures of gold of the months the tape has reached.
GoldFigures(raw, p) ==
  [m \in {k \in DOMAIN p.gold : p.gold[k] # NaN /\ k =< Last(raw).month} |-> p.gold[m]]

\* From one month that has a value to the next one that has.
MonthlyReturns(values) ==
  [m \in DOMAIN values |->
     LET earlier == {k \in DOMAIN values : k < m}
     IN  IF earlier = {} THEN NaN ELSE Over(values[m], values[Max(earlier)])]

\* The returns of a stand-in and of what it stands in for, and how many days or
\* months have both.
Daily(standIn, fund, p) ==
  [standIn |-> DailyReturns(standIn), fund |-> DailyReturns(fund), least |-> p.minDays]
Monthly(standIn, fund, p) ==
  [standIn |-> MonthlyReturns(standIn), fund |-> MonthlyReturns(fund), least |-> p.minMonths]
Links(raw, p) ==
  LET close(x) == RawCloses(raw, x)
      ends(col) == MonthEnds(raw, col)
  IN  {Daily(close("SPYTR"), close("SPY"), p), Daily(close("IXIC"), close("QQQ"), p),
       Daily(SpWithDividends(raw, close(p.index), p.dividends), close("SPYTR"), p),
       Monthly(GoldFigures(raw, p), MonthMeans(raw, close("GC")), p),
       Monthly(ends(close("GC")), ends(close("GLD")), p),
       Monthly(ends(StandInOf(raw, "IEF", p)), ends(close("IEF")), p)}

\* run_checks
InBoth(a, b) == {t \in DOMAIN a \cap DOMAIN b : a[t] # NaN /\ b[t] # NaN}
ChecksPass(raw, p) ==
  \A link \in Links(raw, p) :
    Cardinality(InBoth(link.standIn, link.fund)) >= link.least /\ CloselyMoves(link.standIn, link.fund)

\* validate_raw, and run_history of the prices of living: every series starts in
\* time, and nothing is past the end.
StartsInTime(known, latest) == known # {} /\ Min(known) =< latest
ValidRaw(raw, p) ==
  /\ Len(raw) =< p.end
  /\ \A x \in DOMAIN p.latestStart : StartsInTime(Valid(RawCloses(raw, x)), p.latestStart[x])
  /\ \A f \in DOMAIN p.latestRate :
       StartsInTime({t \in DOMAIN raw : raw[t].rates[f] # NaN}, p.latestRate[f])
  /\ StartsInTime(DOMAIN p.dividends, p.latestDividends)
  /\ StartsInTime(DOMAIN GoldFigures(raw, p), p.latestGold)
  /\ StartsInTime({t \in DOMAIN raw : raw[t].cpi # NaN}, p.latestCpi)

\* A fund's column of the panel, cut at its start; NaN when it is refused.
PanelColumn(raw, fund, p) ==
  LET own   == RawCloses(raw, fund)
      first == Min(Valid(own))
      close == Splice(StandInOf(raw, fund, p), own)
      open  == Opens(close, RawOpens(raw, fund), first)
      cut(col) == SubSeq(col, p.panelStart, Len(raw))
      end == first - p.panelStart + 1
      c == FilledClose(cut(close), end)
      o == FilledOpen(cut(open), cut(close), end)
  IN  IF Valid(own) = {} THEN NaN
      ELSE IF LongestRun(InteriorGaps(cut(close), end)) > p.maxGap \/ NaN \in Range(c) \cup Range(o)
        THEN NaN
      ELSE [open |-> o, close |-> c, own |-> end]

\* assemble_panel
AssemblePanel(raw, p) ==
  LET column == [fund \in Funds |-> PanelColumn(raw, fund, p)]
  IN  IF NaN \in Range(column) THEN NaN ELSE column

-----------------------------------------------------------------------------
(* What the falls do to portfolios.                                        *)

Never == [n |-> 1, d |-> 0]

-----------------------------------------------------------------------------
(* find_episodes                                                           *)

Fall(close, peak, t) == Minus(One, Over(close[t], close[peak]))

EpisodeOf(raw, close, s, recovery) ==
  [peak |-> s.peak, trough |-> s.trough, recovery |-> recovery, depth |-> Fall(close, s.peak, s.trough),
   months |-> IF recovery = NaN THEN NaN ELSE raw[recovery].month - raw[s.peak].month]

\* A day that only meets the high starts nothing until a strictly higher one.
Rearms(close, peak, t) == Higher(close[t], close[peak])

AfterClose(raw, close, s, t, p) ==
  LET trough == IF Higher(close[s.trough], close[t]) THEN t ELSE s.trough
      peak   == IF Higher(close[t], close[s.peak]) THEN t ELSE s.peak
  IN  IF close[t] = NaN THEN s
      ELSE IF s.peak = 0 THEN [s EXCEPT !.peak = t, !.trough = t]
      ELSE IF Higher(close[s.peak], close[t])
        THEN [s EXCEPT !.trough = trough,
                       !.flagged = @ \/ (s.armed /\ ~Higher(p.threshold, Fall(close, s.peak, trough)))]
      ELSE [peak |-> peak, trough |-> peak, flagged |-> FALSE, armed |-> Rearms(close, s.peak, t),
            found |-> IF s.flagged THEN Append(s.found, EpisodeOf(raw, close, s, t)) ELSE s.found]

FindEpisodes(raw, p) ==
  LET close == RawCloses(raw, p.index)
      run[t \in 0..Len(raw)] ==
        IF t = 0 THEN [peak |-> 0, trough |-> 0, flagged |-> FALSE, armed |-> TRUE, found |-> <<>>]
        ELSE LET s == run[t - 1] IN AfterClose(raw, close, s, t, p)
      end == run[Len(raw)]
      all == IF end.flagged THEN Append(end.found, EpisodeOf(raw, close, end, NaN)) ELSE end.found
  IN  SelectSeq(all, LAMBDA e : e.peak >= p.episodeStart)

-----------------------------------------------------------------------------
(* The cells of an episode.                                                *)

\* No later than so many months after a day.
Within(raw, t, day, months) ==
  LET due == raw[day].month + months
  IN  raw[t].month < due \/ (raw[t].month = due /\ (raw[t].late => raw[day].late))

FirstDayAfter(raw, p, day) ==
  LET days == {t \in p.panelStart..Len(raw) : t > day} IN IF days = {} THEN NaN ELSE Min(days)

ValuesFromPeak(raw, run, p, peak) ==
  LET first == FirstDayAfter(raw, p, peak)
  IN  IF first = NaN THEN NaN
      ELSE IF Min(DOMAIN run) > first THEN NaN
      ELSE [t \in {u \in DOMAIN run : u >= first} |-> Product(first..t, LAMBDA u : run[u])]

\* The months from the peak until what was lost in the window is back.
RecoveryCell(raw, peak, values, window) ==
  LET low  == FirstLowest(values, window)
      back == {t \in DOMAIN values : t >= low /\ ~Higher(One, values[t])}
  IN  IF ~Higher(One, values[low]) THEN Zero
      ELSE IF back = {} THEN Never ELSE Ratio(raw[Min(back)].month - raw[peak].month, 1)

BalanceCell(raw, path, first, day, p) ==
  LET change == Change(UsableCpi(raw, p, raw[day].month, raw[day].late),
                       UsableCpi(raw, p, raw[first].month, raw[first].late))
  IN  PathMetrics([i \in 0..day - first + 1 |-> path[i]],
                  [i \in 1..day - first + 1 |-> raw[first + i - 1].month], change).real

\* What is left of a fixed real income after some years, by rate and years.
IncomeCells(raw, run, values, peak, rate, p) ==
  LET days  == DOMAIN values
      first == Min(days)
      due(y) == {t \in days : Within(raw, t, peak, y * MonthsAYear)}
      \* The day itself, or one after it, is in the data.
      reached(y) == LET last == Max(days)
                    IN  ~Within(raw, last, peak, y * MonthsAYear)
                        \/ (raw[last].month = raw[peak].month + y * MonthsAYear /\ raw[last].late = raw[peak].late)
      stop  == Max(UNION {due(y) : y \in {z \in p.incomeYears : reached(z)}})
      path  == WithdrawalPath([i \in 1..stop - first + 1 |-> run[first + i - 1]],
                              MonthStarts(SubSeq(raw, first, stop)),
                              [i \in 1..stop - first + 1 |->
                                 MonthlyWithdrawals(raw, [p EXCEPT !.rate = rate], raw[first].month,
                                                    raw[first + i - 1].month)])
  IN  [y \in p.incomeYears |-> IF reached(y) THEN BalanceCell(raw, path, first, Max(due(y)), p) ELSE DataEnds]

CellsOf(loss, recover, income) == [loss |-> loss, recover |-> recover, income |-> income]

EpisodeMeasures(raw, episode, run, p) ==
  LET values == ValuesFromPeak(raw, run, p, episode.peak)
      window == {t \in DOMAIN values : Within(raw, t, episode.peak, p.horizonYears * MonthsAYear)}
      all(note) == CellsOf(note, note, [rate \in p.rates |-> [y \in p.incomeYears |-> note]])
  IN  IF values = NaN THEN all(NoSignal)
      ELSE IF window = {} THEN all(DataEnds)
      ELSE CellsOf(LET low == values[FirstLowest(values, window)] IN Minus(One, Least(One, low)),
                   RecoveryCell(raw, episode.peak, values, window),
                   [rate \in p.rates |-> IncomeCells(raw, run, values, episode.peak, rate, p)])

\* Of a portfolio that starts before its funds do, and before gold was traded.
CellMarks(first, held, ownStart, goldStart) ==
  (IF \E x \in held : first < ownStart[x] THEN {"standin"} ELSE {})
    \cup (IF "GLD" \in held /\ first < goldStart THEN {"monthly gold"} ELSE {})

\* The worst and the median of the cells that have a value.
Summarize(cells, higherIsWorse) ==
  LET usable == {i \in DOMAIN cells : cells[i] \notin {NoSignal, DataEnds}}
      worse(i, j) == IF higherIsWorse THEN Higher(cells[i], cells[j]) ELSE Higher(cells[j], cells[i])
      order == SetToSortSeq(usable, LAMBDA i, j : Higher(cells[j], cells[i]) \/ (cells[i] = cells[j] /\ i < j))
      n     == Len(order)
      low   == cells[order[(n + 1) \div 2]]
      high  == cells[order[(n \div 2) + 1]]
  IN  IF usable = {} THEN [worst |-> NaN, median |-> NaN, count |-> 0]
      ELSE [worst  |-> CHOOSE i \in usable : \A j \in usable : ~worse(j, i) /\ (cells[i] = cells[j] => i =< j),
            median |-> IF low = high THEN low ELSE Times(Ratio(1, 2), Plus(low, high)), count |-> n]

-----------------------------------------------------------------------------
(* The portfolios on the panel.                                            *)

\* The panel as a tape of bars; only the ratios within a column matter.
ScaleOf(column) == FoldSet(LAMBDA q, acc : (acc * q.d) \div Divisor(acc, q.d), 1,
                           Range(column.open) \cup Range(column.close))
PanelTape(panel) ==
  LET scale == [fund \in Funds |-> ScaleOf(panel[fund])]
      whole(q, fund) == (q.n * scale[fund]) \div q.d
  IN  [t \in DOMAIN panel["SPY"].close |->
         [bars |-> [fund \in Funds |-> [open  |-> whole(panel[fund].open[t], fund),
                                        close |-> whole(panel[fund].close[t], fund)]]]]

\* The day after the first with weights, none if it is past the panel.
PortfolioStart(tape, parts) ==
  LET rows == PortfolioWeights(tape, parts)
      defined == {t \in DOMAIN rows : rows[t] # NaN /\ t < Len(tape)}
  IN  IF defined = {} THEN NaN ELSE Min(defined) + 1

\* Returns are counted in days of the raw tape.
PanelReturns(tape, parts, p) ==
  LET start == PortfolioStart(tape, parts)
  IN  IF start = NaN \/ ~(PortfolioTickers(parts) \subseteq Funds) THEN NaN
      ELSE Shifted(PortfolioReturns(tape, parts, start, p.cost), p.panelStart - 1)

PortfolioCells(raw, panel, tape, parts, episodes, p) ==
  LET run  == PanelReturns(tape, parts, p)
      own  == [fund \in Funds |-> panel[fund].own + p.panelStart - 1]
      gold == Min(Valid(RawCloses(raw, "GC")))
      marks(e) == LET first == FirstDayAfter(raw, p, e.peak)
                  IN  IF first = NaN THEN {} ELSE CellMarks(first, HeldTickers(parts), own, gold)
  IN  IF run = NaN THEN NaN
      ELSE [i \in DOMAIN episodes |-> [cells |-> EpisodeMeasures(raw, episodes[i], run, p),
                                       marks |-> marks(episodes[i])]]

\* run_history, NaN when it is refused
RunHistory(raw, p) ==
  LET panel    == AssemblePanel(raw, p)
      episodes == FindEpisodes(raw, p)
      cells    == [i \in DOMAIN p.portfolios |->
                     PortfolioCells(raw, panel, PanelTape(panel), p.portfolios[i], episodes, p)]
  IN  IF ~ValidRaw(raw, p) THEN NaN
      ELSE IF panel = NaN \/ Valid(RawCloses(raw, "GC")) = {} THEN NaN
      ELSE IF ~ChecksPass(raw, p) \/ episodes = <<>> \/ NaN \in Range(cells) THEN NaN
      ELSE [episodes |-> episodes, cells |-> cells,
            summary  |-> [i \in DOMAIN cells |->
                            <<Summarize([e \in DOMAIN episodes |-> cells[i][e].cells.loss], TRUE),
                              Summarize([e \in DOMAIN episodes |-> cells[i][e].cells.recover], TRUE)>>]]

=============================================================================
