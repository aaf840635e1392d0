------------------------------- MODULE Outlook -------------------------------
(***************************************************************************)
(* The decision report (qrl/decision.py, true_cash.py, core_compare.py,    *)
(* stress.py): what core portfolios would have lost, returned and paid, on *)
(* data up to the end of the research period.                              *)
(*                                                                         *)
(* A portfolio is a sequence of parts, each a core_mix rule with a share   *)
(* of the capital.  p has the portfolio's parts, where the research period *)
(* starts and ends, the stress windows, the warm-up of a replay and the    *)
(* days from which a retiree starts.                                       *)
(***************************************************************************)
EXTENDS Portfolio, Withdrawals

\* Research data is cut before anything is computed from it.
Cut(tape, p) == SubSeq(tape, 1, Min({p.end, Len(tape)}))
ResearchDays(tape, p) == {t \in DOMAIN tape : t >= p.begin}

-----------------------------------------------------------------------------
(* Portfolios and their weights.                                           *)

\* A rule on its own.
WholePart(rule) == <<[rule |-> rule, share |-> Unit]>>

\* branch_mixes: the mixes a rule switches between.
Options(rule) ==
  CASE rule.family = "core_trend" -> {Whole(rule.risk_on), Whole(rule.risk_off)}
    [] rule.family = "core_mix"   -> IF rule.signal = NaN THEN {rule.on} ELSE {rule.on, rule.off}

PartOf(mix, x) == IF x \in DOMAIN mix THEN mix[x] ELSE 0

Blend(mixes, parts) ==
  [x \in UNION {DOMAIN mixes[i] : i \in DOMAIN parts} |->
     SumOver(DOMAIN parts, LAMBDA i : Scaled(PartOf(mixes[i], x), parts[i].share, 1))]

\* portfolio_states: every combination of the parts' mixes.
PortfolioStates(parts) ==
  {Blend(mixes, parts) :
     mixes \in {m \in [DOMAIN parts -> UNION {Options(parts[i].rule) : i \in DOMAIN parts}] :
                  \A i \in DOMAIN parts : m[i] \in Options(parts[i].rule)}}

HeldTickers(parts) == UNION {DOMAIN mix : mix \in PortfolioStates(parts)}
PortfolioTickers(parts) == UNION {Universe(parts[i].rule) : i \in DOMAIN parts}

\* A day on which a part has no weights has none.
PortfolioWeights(tape, parts) ==
  LET rows == [i \in DOMAIN parts |-> Weights(tape, parts[i].rule)]
  IN  [t \in DOMAIN tape |->
         IF \E i \in DOMAIN parts : rows[i][t] = NaN THEN NaN
         ELSE Blend([i \in DOMAIN parts |-> rows[i][t]], parts)]

\* merge_parts: a rule that comes in several parts is one part.
MergeParts(parts) ==
  LET first == SelectSeq([i \in DOMAIN parts |-> i],
                         LAMBDA i : \A k \in 1..i - 1 : parts[k].rule # parts[i].rule)
  IN  [i \in DOMAIN first |->
         [rule  |-> parts[first[i]].rule,
          share |-> SumOver({k \in DOMAIN parts : parts[k].rule = parts[first[i]].rule},
                            LAMBDA k : parts[k].share)]]

\* _check_full: whatever the rules say, all of the capital is held.
HoldsAll(parts) == \A mix \in PortfolioStates(parts) : Invested(mix) = Unit

\* _check_pair: the pair of an assumed-cash row, which is of one rule, holds a
\* fund in place of the cash.
PairMatches(pair, parts, p) ==
  LET share == (Unit * p.cashShare.n) \div p.cashShare.d
  IN  /\ Len(parts) = 1
      /\ ToSet(MergeParts(pair)) = {[rule |-> parts[1].rule, share |-> Unit - share],
                                    [rule |-> p.pool["cash"][1].rule, share |-> share]}

\* load_decision_config: the checks of the portfolios, the assumed cash (_cash_row),
\* the rates and the starts.
Proper(share) == Higher(share, Zero) /\ Higher(One, share)
CashRowIsValid(p) == Proper(p.cashShare) /\ (p.pair = NaN \/ PairMatches(p.pair, p.parts, p))
RatesAreValid(p) == p.rates # {} /\ \A rate \in p.rates : Proper(rate)
StartsAreValid(tape, p) == p.starts # {} /\ \A m \in p.starts : m =< tape[p.end].month
ConfigIsValid(tape, p) == HoldsAll(p.parts) /\ CashRowIsValid(p) /\ RatesAreValid(p) /\ StartsAreValid(tape, p)

\* combine_portfolio with an empty sleeve: what is missing is cash.
Full100 == [core |-> Unit, sleeve |-> 0]
CoreOnly(tape, rows, split) ==
  [t \in DOMAIN tape |->
     LET row == CombinedRow([m \in {Core} |-> rows], split, t)
     IN  [x \in UNION {DOMAIN rows[u] : u \in {u \in DOMAIN tape : rows[u] # NaN}} |->
            IF x \in DOMAIN row THEN row[x] ELSE 0]]

Shifted(run, by) == IF run = NaN THEN NaN ELSE [t \in {u + by : u \in DOMAIN run} |-> run[t - by]]

-----------------------------------------------------------------------------
(* Returns.                                                                *)

\* portfolio_returns: from day `from` on, at the weights of the day before.
Unpriced(tape, parts, from) == {x \in HeldTickers(parts) : ~Priced(tape, from, x)}

\* As if a missing row were cash.
NeverWarming(rows) == FALSE
StillWarming(rows) == \E t \in DOMAIN rows : rows[t] = NaN

PortfolioReturns(tape, parts, from, cost) ==
  IF Unpriced(tape, parts, from) # {} \/ from = 1 THEN NaN
  ELSE LET window == SubSeq(tape, from - 1, Len(tape))
           rows   == SubSeq(PortfolioWeights(tape, parts), from - 1, Len(tape))
       IN  IF StillWarming(rows) THEN NaN
           ELSE Shifted(RunBacktest(window, CoreOnly(window, rows, Full100), HeldTickers(parts), cost), from - 2)

\* strict_monthly_inflation and cash_leg_returns: a month's growth spread over
\* all its trading days.
Root(growth, n) ==
  CHOOSE r \in {Ratio(a, b) : a, b \in 1..8} : Product(1..n, LAMBDA i : r) = growth

CashLeg(tape, days, p) ==
  LET inflation(m) == MonthlyInflation(tape, p, m)
      monthly(m) == Times(inflation(m), p.realMonth)
      count(m) == Cardinality({u \in DOMAIN tape : tape[u].month = m})
  IN  IF \E t \in days : inflation(tape[t].month) = NaN THEN NaN
      ELSE [t \in days |-> Root(monthly(tape[t].month), count(tape[t].month))]

\* mix_returns
MixReturns(base, cash, share) ==
  IF base = NaN \/ cash = NaN THEN NaN
  ELSE [t \in DOMAIN base |-> Plus(Times(Minus(One, share), base[t]), Times(share, cash[t]))]

\* window_drawdown: the capital before the first day counts.
WindowDrawdown(growth) ==
  LET days  == DOMAIN growth
      start == Min(days) - 1
  IN  IF days = {} THEN Zero
      ELSE Drawdown([t \in {start} \cup days |-> IF t = start THEN One ELSE growth[t]])

Summary(run) ==
  IF run = NaN THEN NaN
  ELSE <<Product(DOMAIN run, LAMBDA t : run[t]), WindowDrawdown(run)>>

\* return_rows: the portfolio, and with a share of it in assumed cash.
ReturnRows(tape, p) ==
  LET cut  == Cut(tape, p)
      run  == PortfolioReturns(cut, p.parts, p.begin, p.cost)
      cash == CashLeg(cut, ResearchDays(cut, p), p)
  IN  <<Summary(run), Summary(MixReturns(run, cash, p.cashShare))>>

-----------------------------------------------------------------------------
(* Withdrawals from each start.                                            *)

StartOf(tape, month) == FirstOf(tape, month)

\* What is left of a run, as far as it is compared, and how it got there.
PathOver(tape, run, p, years) ==
  LET from  == Min(DOMAIN run)
      first == tape[from].month
      until == Max({t \in from..Len(tape) : tape[t].month < first + years * MonthsAYear})
      path  == WithdrawalPath([i \in 1..until - from + 1 |-> run[from + i - 1]],
                              MonthStarts(SubSeq(tape, from, until)),
                              [i \in 1..until - from + 1 |->
                                 MonthlyWithdrawals(tape, p, first, tape[from + i - 1].month)])
  IN  PathMetrics(path, [i \in 1..until - from + 1 |-> tape[from + i - 1].month],
                  Change(UsableCpi(tape, p, tape[until].month, tape[until].late), UsableCpi(tape, p, first, FALSE)))

YearsOf(tape, month) == (Last(tape).month - month) \div MonthsAYear + 1

\* _withdrawal_rows_for: every start as long as it lasts and as long as the
\* latest one does, and the worst of each; a start has its tape.
RowsFor(tapes, run, p) ==
  LET starts  == DOMAIN run
      horizon == YearsOf(tapes[Max(starts)], Max(starts))
      long    == [m \in starts |-> PathOver(tapes[m], run[m], p, YearsOf(tapes[m], m))]
      ends    == [m \in starts |-> PathOver(tapes[m], run[m], p, horizon).real]
  IN  IF \E m \in starts : run[m] = NaN THEN NaN
      ELSE [long |-> long, worst |-> FirstLowest([m \in starts |-> long[m].real], starts),
            horizon |-> horizon, worstThen |-> FirstLowest(ends, starts)]

\* withdrawal_rows: the portfolio, and with a share of it in assumed cash.
WithdrawalRow(tape, p) ==
  LET cut    == Cut(tape, p)
      run    == [m \in p.starts |-> PortfolioReturns(cut, p.parts, StartOf(cut, m), p.cost)]
      mixed  == [m \in p.starts |->
                   MixReturns(run[m], IF run[m] = NaN THEN NaN ELSE CashLeg(cut, DOMAIN run[m], p), p.cashShare)]
      tapes  == [m \in p.starts |-> cut]
  IN  <<RowsFor(tapes, run, p), RowsFor(tapes, mixed, p)>>

-----------------------------------------------------------------------------
(* Stress windows.                                                         *)

\* replay_loss: the rule lives through the window, after its warm-up.
Inside(tape, window) == {t \in DOMAIN tape : t \in window.first..window.last}

ReplayLoss(tape, parts, split, window, p) ==
  LET from  == window.first - p.warmup
      frame == SubSeq(tape, from, Min({window.last, Len(tape)}))
      rows  == CoreOnly(frame, PortfolioWeights(frame, parts), split)
      run   == Shifted(RunBacktest(frame, rows, HeldTickers(parts), p.cost), from - 1)
  IN  IF \/ from < 1 \/ Inside(tape, window) = {}
         \/ \E t \in DOMAIN frame, x \in PortfolioTickers(parts) : ~Priced(frame, t, x)
      THEN NaN
      ELSE IF run = NaN THEN NaN ELSE WindowDrawdown(Restrict(run, Inside(tape, window)))

\* frozen_loss: what is held now is held through the window without trading;
\* an unpriced stock is the market, an unpriced bond or metal is cash.
FrozenLoss(tape, mix, window, p) ==
  LET first == window.first
      stand(x) == IF Priced(tape, first, x) THEN x ELSE IF x \in p.equities THEN p.market ELSE NaN
      filled(x, t) == Max({u \in first..t : Priced(tape, u, x)})
      worth(x, t) ==
        IF stand(x) = NaN THEN Ratio(mix[x], Unit)
        ELSE Times(Ratio(mix[x], Unit),
                   Ratio(tape[filled(stand(x), t)].bars[stand(x)].close, tape[first].bars[stand(x)].close))
      value(t) == Plus(Ratio(Unit - Invested(mix), Unit), Total(DOMAIN mix, LAMBDA x : worth(x, t)))
      grown(t) == Ratio(value(t).n * value(t - 1).d, value(t).d * value(t - 1).n)
  IN  IF \/ Inside(tape, window) = {}
         \/ \E x \in DOMAIN mix : stand(x) # NaN /\ ~Priced(tape, first, stand(x))
      THEN NaN
      ELSE WindowDrawdown([t \in Inside(tape, window) \ {first} |-> grown(t)])

\* _latest_weights: the mix is only frozen when all of it has a price now.
Frozen(tape, mix, window, p) ==
  IF \E x \in DOMAIN mix : ~Priced(tape, Len(tape), x) THEN NaN ELSE FrozenLoss(tape, mix, window, p)

\* hypothetical_loss, per asset class
HypotheticalLoss(mix, shock, p) ==
  LET class(x) == IF x \in p.equities THEN "equity" ELSE "other"
  IN  Minus(Zero, Total(DOMAIN mix, LAMBDA x : Times(Ratio(mix[x], Unit), shock[class(x)])))

\* stress_rows: a rule is replayed, each of its mixes frozen, in the windows
\* that end with the research period (_windows).
StressRow(tape, p) ==
  LET cut == Cut(tape, p)
      states == PortfolioStates(p.parts)
  IN  [window \in {w \in p.windows : w.last =< p.end} |->
         [replay |-> ReplayLoss(cut, p.parts, Full100, window, p),
          frozen |-> [mix \in states |-> Frozen(cut, mix, window, p)]]]

\* scenario_rows: the worst of a portfolio's mixes in an assumed year.
WorstState(parts, shock, p) ==
  LET states == PortfolioStates(parts)
      loss(mix) == HypotheticalLoss(mix, shock, p)
  IN  loss(CHOOSE mix \in states : \A other \in states : ~Higher(loss(other), loss(mix)))

\* year_one_value
YearOne(parts, shock, p) == Minus(Minus(One, WorstState(parts, shock, p)), p.rate)

\* run_decision
Decision(tape, p) ==
  IF ~ConfigIsValid(tape, p) THEN NaN
  ELSE [windows |-> StressRow(tape, p), yearOne |-> YearOne(p.parts, p.shock, p),
        withdrawals |-> WithdrawalRow(tape, p), returns |-> ReturnRows(tape, p)]

=============================================================================
