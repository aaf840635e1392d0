---------------------------- MODULE MacroOverlay ----------------------------
(***************************************************************************)
(* The macro overlay's signals, weights and trials (qrl/overlay.py,        *)
(* qrl/overlay_eval.py, qrl/overlay_null.py) on prices and on consumer     *)
(* prices as they are published (qrl/macro.py).  A day knows its month, the *)
(* month's consumer price level or NaN, and from the calendar whether it   *)
(* is the month's last day and whether the next business day is in a new   *)
(* month.                                                                  *)
(***************************************************************************)
EXTENDS Strategies, Engine

CONSTANTS
  MonthsAYear,   \* 12; fewer in small instances
  Sharpe(_)      \* of a function from days to growths: a fraction

-----------------------------------------------------------------------------
(* Signals.                                                                *)

\* trend_states
Trending(tape, t, x, p) ==
  LET col == Closes(tape, x)
  IN  Full(col, t, p.sma) /\ p.sma * col[t] < WindowSum(col, t, p.sma)

\* Twice the median of some numbers.
TwiceMedian(cells) ==
  LET sorted == SortSeq(cells, <)
      n == Len(cells)
  IN  sorted[(n + 1) \div 2] + sorted[(n + 2) \div 2]

\* vol_state
Volatile(tape, t, p) ==
  LET closes == Closes(tape, p.volAsset)
      vol == [u \in DOMAIN tape |-> Volatility(UpTo(closes, u), p.volDays)]
      median == TwiceMedian(SubSeq(vol, t - p.medianDays + 1, t))
  IN  Full(vol, t, p.medianDays) /\ 200 * vol[t] > p.volRatio * median

\* lag_to_availability: the print of a month is known from a month's end on.
Available(tape, t, m, p) ==
  LET known == m + p.cpiLag - 1
  IN  known < tape[t].month \/ (known = tape[t].month /\ tape[t].calendarEnd)

Printed(tape, m) ==
  LET days == {t \in DOMAIN tape : tape[t].month = m}
  IN  IF days = {} THEN NaN ELSE tape[Min(days)].cpi

Yearly(tape, m) ==
  LET now == Printed(tape, m)
      then == Printed(tape, m - MonthsAYear)
  IN  IF now = NaN \/ then = NaN THEN NaN ELSE Ratio(now - then, then)

\* inflation_state: what the last print says, off as long as there is none and
\* when it is missing
Inflating(tape, t, p) ==
  LET known == {m \in {tape[u].month : u \in 1..t} : Available(tape, t, m, p)}
      last  == Max(known)
      now   == Yearly(tape, last)
      then  == Yearly(tape, last - p.inflationLookback)
  IN  known # {} /\ now # NaN /\ then # NaN /\ Higher(now, p.inflationAbove) /\ Higher(now, then)

\* month_end_mask
EndsMonth(tape, t) ==
  IF t < Len(tape) THEN tape[t + 1].month # tape[t].month ELSE tape[t].nextInNewMonth

\* daily_states
DailyStates(tape, t, p) ==
  {<<"trend", x>> : x \in {y \in p.trendAssets : Trending(tape, t, y, p)}}
  \cup (IF Volatile(tape, t, p) THEN {<<"vol", p.volAsset>>} ELSE {})
  \cup (IF Inflating(tape, t, p) THEN {<<"inflation", p.inflationAsset>>} ELSE {})

\* monthly_states: the signals that are on at each month's last close
MonthlyStates(tape, p) ==
  LET ends == {t \in DOMAIN tape : EndsMonth(tape, t)}
  IN  [t \in ends |-> DailyStates(tape, t, p)]

-----------------------------------------------------------------------------
(* Weights.                                                                *)

\* What signals move out of an asset, not capped.
Uncapped(on, x, p) == SumFunction([s \in {r \in on : r[2] = x} |-> p.move[s[1]]])

\* Moves above the cap are scaled to it; instances have moves that stay whole.
Moved(on, x, p) ==
  LET all == SumFunction([s \in on |-> p.move[s[1]]])
  IN  IF all > p.cap THEN (Uncapped(on, x, p) * p.cap) \div all ELSE Uncapped(on, x, p)

MixFor(on, p) ==
  [x \in DOMAIN p.base |->
     IF x = p.safe THEN p.base[x] + SumFunction([y \in DOMAIN p.base \ {x} |-> Moved(on, y, p)])
                   ELSE p.base[x] - Moved(on, x, p)]

\* overlay_weights: the mix of the last month's end, the base before the first
OverlayWeights(monthly, tape, p) ==
  [t \in DOMAIN tape |->
     LET ends == {u \in DOMAIN monthly : u =< t}
     IN  IF \E x \in DOMAIN p.base : ~Priced(tape, t, x) THEN NaN
         ELSE IF ends = {} THEN p.base ELSE MixFor(monthly[Max(ends)], p)]

BuildOverlay(tape, p) == OverlayWeights(MonthlyStates(tape, p), tape, p)

-----------------------------------------------------------------------------
(* The null.                                                               *)

\* The lengths of the spells of a sequence of states, those that are on or off.
SpellLengths(states, kind) ==
  LET starts == {k \in DOMAIN states : k = 1 \/ states[k] # states[k - 1]}
      next(k) == Min({l \in starts : l > k} \cup {Len(states) + 1})
      mine == InOrder({k \in starts : states[k] = kind})
  IN  [i \in DOMAIN mine |-> next(mine[i]) - mine[i]]

\* shuffle_spells: spells that are on change places among themselves, and so do
\* those that are off; a draw permutes any number of spells of a kind.
ShuffleSpells(states, draw) ==
  LET lengths == [kind \in BOOLEAN |-> SpellLengths(states, kind)]
      order == [kind \in BOOLEAN |->
                  [i \in DOMAIN lengths[kind] |-> lengths[kind][draw[kind][Len(lengths[kind])][i]]]]
      kind(i) == (i % 2 = 1) = states[1]
      spells == [i \in 1..Len(order[TRUE]) + Len(order[FALSE]) |->
                   [k \in 1..order[kind(i)][(i + 1) \div 2] |-> kind(i)]]
  IN  FlattenSeq(spells)

\* _governing_start: the month's end whose weights are held as a period begins
GoverningStart(monthly, begin) ==
  LET before == {t \in DOMAIN monthly : t < begin}
  IN  IF before = {} THEN Min(DOMAIN monthly) ELSE Max(before)

\* shuffle_states: every signal for itself, with a draw of its own
ShuffleStates(monthly, signals, begin, draw) ==
  LET start == GoverningStart(monthly, begin)
      days  == InOrder({t \in DOMAIN monthly : t >= start})
      null  == [s \in signals |-> ShuffleSpells([k \in DOMAIN days |-> s \in monthly[days[k]]], draw[s])]
      place(t) == CHOOSE k \in DOMAIN days : days[k] = t
  IN  [t \in DOMAIN monthly |-> IF t < start THEN monthly[t] ELSE {s \in signals : null[s][place(t)]}]

-----------------------------------------------------------------------------
(* Trials.                                                                 *)

SignalsOf(p) ==
  {<<"trend", x>> : x \in p.trendAssets} \cup {<<"vol", p.volAsset>>, <<"inflation", p.inflationAsset>>}

BaseWeights(tape, p) ==
  [t \in DOMAIN tape |-> IF \E x \in DOMAIN p.base : ~Priced(tape, t, x) THEN NaN ELSE p.base]

\* step_returns and slice_period: the returns in a period of what is common
WindowOf(run, other, period) == [t \in (DOMAIN run \cap DOMAIN other) \cap period |-> run[t]]

Run(tape, w, p) == RunBacktest(tape, w, DOMAIN p.base, p.cost)

\* null_improvements: what shuffled signals gain
NullGains(tape, monthly, period, g, p) ==
  [draw \in p.draws |->
     LET run == Run(tape, OverlayWeights(ShuffleStates(monthly, SignalsOf(p), Min(period), draw), tape, p), p)
     IN  IF run = NaN THEN NaN ELSE Minus(Sharpe([t \in DOMAIN run \cap period |-> run[t]]), g)]

\* evaluate_pass: the rules that an overlay passes
Passes(overlay, base, p) ==
  LET growth(run) == Compounded(run)
      fall(run) == Drawdown(run)
  IN  (IF Higher(Plus(Sharpe(base), p.minGain), Sharpe(overlay)) THEN {} ELSE {"Sharpe"})
      \cup (IF Higher(fall(overlay), fall(base)) THEN {} ELSE {"drawdown"})
      \cup (IF Higher(Minus(growth(base), p.maxShortfall), growth(overlay)) THEN {} ELSE {"CAGR"})

\* The null's percentile: not reached by more draws than p.luckier.
BeatsNull(gain, null, p) ==
  Cardinality({draw \in DOMAIN null : ~Higher(gain, null[draw])}) =< p.luckier

\* research_result and validation_result, on data cut at the period's end
TrialResult(tape, period, withNull, p) ==
  LET cut == SubSeq(tape, 1, Max(period))
      base == Run(cut, BaseWeights(cut, p), p)
      result(monthly) ==
        LET run     == Run(cut, OverlayWeights(monthly, cut, p), p)
            overlay == WindowOf(run, base, period)
            g       == WindowOf(base, run, period)
            null    == IF withNull THEN NullGains(cut, monthly, period, Sharpe(g), p) ELSE <<>>
        IN  IF DOMAIN monthly = {} \/ run = NaN \/ base = NaN \/ Cardinality(DOMAIN overlay) < 2
               \/ \E draw \in DOMAIN null : null[draw] = NaN THEN NaN
            ELSE [passed |-> Passes(overlay, g, p),
                  beats  |-> BeatsNull(Minus(Sharpe(overlay), Sharpe(g)), null, p)]
  IN  CHOOSE r \in {result(monthly) : monthly \in {MonthlyStates(cut, p)}} : TRUE

=============================================================================
