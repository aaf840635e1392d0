----------------------------- MODULE Withdrawals -----------------------------
(***************************************************************************)
(* Living off a portfolio: the monthly amounts and the value that is left  *)
(* (qrl/decision_withdraw.py), the January rules (decision_rules.py), the  *)
(* entry in tranches (decision_staged.py) and the resampled paths          *)
(* (longrun.py).  A day of the tape has its month, whether it is late in   *)
(* it, the growth of the portfolio and of the cash, and, on the first day  *)
(* of a month, that month's consumer prices or NaN.  Months are counted    *)
(* from a January, 0; prices before the tape are at p.level.  A path       *)
(* starts with a value of one.                                             *)
(***************************************************************************)
EXTENDS Frames

CONSTANTS
  MonthsAYear,
  Depleted       \* a value at or below is none

ASSUME WithdrawalsAssumption == MonthsAYear \in Nat \ {0}

January(m) == m % MonthsAYear = 0

Left(value) == IF Higher(value, Depleted) THEN value ELSE Zero

-----------------------------------------------------------------------------
(* Months and consumer prices.                                             *)

MonthStarts(tape) == {t \in DOMAIN tape : t = 1 \/ tape[t].month # tape[t - 1].month}
Months(tape) == {tape[t].month : t \in DOMAIN tape}
FirstOf(tape, m) == Min({t \in DOMAIN tape : tape[t].month = m})

Published(tape, p, m) ==
  IF m < tape[1].month THEN p.level
  ELSE IF m \in Months(tape) THEN tape[FirstOf(tape, m)].cpi ELSE NaN

\* usable_cpi: early in a month the one before may serve, late it is too old.
UsableCpi(tape, p, m, late) ==
  LET now == Published(tape, p, m) IN IF now # NaN \/ late THEN now ELSE Published(tape, p, m - 1)

Change(new, old) == IF new = NaN \/ old = NaN THEN NaN ELSE Ratio(new, old)

YearlyChange(tape, p, m) ==
  Change(UsableCpi(tape, p, m, FALSE), UsableCpi(tape, p, m - MonthsAYear, FALSE))
MonthlyInflation(tape, p, m) == Change(UsableCpi(tape, p, m, TRUE), UsableCpi(tape, p, m - 1, TRUE))

\* monthly_returns
MonthlyGrowth(tape, m, field) ==
  Product({t \in DOMAIN tape : tape[t].month = m}, LAMBDA t : tape[t][field])

MonthlyRate(p) == Times(p.rate, Ratio(1, MonthsAYear))

-----------------------------------------------------------------------------
(* withdrawal_path: a fixed real amount.                                   *)

\* monthly_withdrawals: the amount in a month of a path that starts in month
\* `first`.
MonthlyWithdrawals(tape, p, first, m) ==
  Times(MonthlyRate(p), Product({j \in first + 1..m : January(j)}, LAMBDA j : YearlyChange(tape, p, j)))

\* The value after every step; due[t] leaves at the starts.
WithdrawalPath(growth, starts, due) ==
  LET path[t \in 0..Len(growth)] ==
        IF t = 0 THEN One
        ELSE LET value == path[t - 1]
                 after == IF t \in starts THEN Minus(value, due[t]) ELSE value
             IN  IF value = Zero \/ ~Higher(after, Depleted) THEN Zero
                 ELSE Left(Times(after, growth[t]))
  IN  [t \in 0..Len(growth) |-> path[t]]

\* longest_below_peak: the longest time from one high to the next, the start
\* counting as one, and whether there is a next.
LongestBelowPeak(path, month) ==
  LET days  == DOMAIN path
      highs == {t \in days : \A u \in days : u < t => ~Higher(path[u], path[t])}
      at(t) == month[Max({t, 1})]
      spells == {<<u, t>> \in highs \X highs : u + 1 < t /\ highs \cap (u + 1..t - 1) = {}}
      last  == Max(days)
      best  == Max({0} \cup {at(e[2]) - at(e[1]) : e \in spells})
      open  == at(last) - at(Max(highs))
  IN  IF last \notin highs /\ open >= best THEN [months |-> open, recovered |-> FALSE]
      ELSE [months |-> best, recovered |-> TRUE]

\* path_metrics, with the change of prices over the path
PathMetrics(path, month, change) ==
  LET last == Max(DOMAIN path)
      empty == {t \in DOMAIN path : path[t] = Zero}
      falls == {Minus(One, Over(path[t], path[u])) :
                  <<u, t>> \in {e \in (DOMAIN path) \X (DOMAIN path) : e[1] =< e[2] /\ path[e[1]] # Zero}}
  IN  [end      |-> path[last],
       real     |-> Times(path[last], Ratio(change.d, change.n)),
       lowest   |-> CHOOSE v \in {path[t] : t \in 1..last} : \A t \in 1..last : ~Higher(v, path[t]),
       fall     |-> CHOOSE f \in falls : \A g \in falls : ~Higher(g, f),
       below    |-> LongestBelowPeak(path, month),
       underNow |-> \E t \in DOMAIN path : Higher(path[t], path[last]),
       depleted |-> IF empty = {} THEN NaN ELSE month[Min(empty)]]

-----------------------------------------------------------------------------
(* run_rule: the amount changes in January.                                *)

Fixed(old, cpi) == Times(old.amount, cpi)

SkipRaiseAfterLoss(old, cpi) == IF Higher(One, old.since) THEN old.amount ELSE Fixed(old, cpi)

Guardrails(old, cpi, p) ==
  LET amount == Fixed(old, cpi)
      yearly == Times(Ratio(MonthsAYear, 1), amount)
      rail(side) == Times(Times(side, p.rate), old.value)
  IN  Times(amount, IF Higher(yearly, rail(p.upper)) THEN Minus(One, p.cut)
                    ELSE IF Higher(rail(p.lower), yearly) THEN Plus(One, p.raise) ELSE One)

PctOfBalance(old, p) == Times(MonthlyRate(p), old.value)

Least(a, b) == IF Higher(a, b) THEN b ELSE a
Greatest(a, b) == IF Higher(a, b) THEN a ELSE b

FloorCeiling(old, cpi, p) ==
  LET base == Fixed(old, cpi)
  IN  Least(Greatest(PctOfBalance(old, p), Times(base, Minus(One, p.maxCut))),
            Times(base, Plus(One, p.maxRaise)))

JanuaryRule(old, cpi, p) ==
  CASE p.rule = "fixed"          -> Fixed(old, cpi)
    [] p.rule = "skip_raise"     -> SkipRaiseAfterLoss(old, cpi)
    [] p.rule = "guardrails"     -> Guardrails(old, cpi, p)
    [] p.rule = "pct_of_balance" -> PctOfBalance(old, p)
    [] p.rule = "floor_ceiling"  -> FloorCeiling(old, cpi, p)

\* The full amount, also out of a path that it empties.
FullPayment(old, amount, after) == IF old.value = Zero THEN Zero ELSE amount

\* What is paid when after would be left of old: no more than there is.
Payment(old, amount, after) ==
  IF old.value = Zero THEN Zero ELSE IF Higher(after, Depleted) THEN amount ELSE old.value

\* since: the growth since the last January the rule looked at.
Since(january, old) == IF january THEN One ELSE old.since

\* cpiAt gives the change of prices for the months, counted from 1, in which
\* the amount is looked at.
RunRule(growth, starts, cpiAt, p) ==
  LET run[t \in 0..Len(growth)] ==
        IF t = 0 THEN [value |-> One, amount |-> MonthlyRate(p), since |-> One, month |-> 0, paid |-> Zero]
        ELSE LET old     == run[t - 1]
                 month   == old.month + (IF t \in starts THEN 1 ELSE 0)
                 january == t \in starts /\ month \in DOMAIN cpiAt /\ old.value # Zero
                 amount  == IF january THEN JanuaryRule(old, cpiAt[month], p) ELSE old.amount
                 after   == IF t \in starts THEN Minus(old.value, amount) ELSE old.value
             IN  [value  |-> IF old.value = Zero \/ ~Higher(after, Depleted) THEN Zero
                             ELSE Left(Times(after, growth[t])),
                  amount |-> amount,
                  since  |-> Times(Since(january, old), growth[t]),
                  month  |-> month,
                  paid   |-> IF t \in starts THEN Payment(old, amount, after) ELSE Zero]
  IN  [t \in 0..Len(growth) |-> run[t]]

\* historical_cpi and longrun_cpi
HistoricalCpi(tape, p, first) ==
  [k \in {m - first + 1 : m \in {m \in Months(tape) : m > first /\ January(m)}} |->
     YearlyChange(tape, p, first + k - 1)]

YearStarts(n) == {k \in 2..n : (k - 1) % MonthsAYear = 0}

\* The year closed only after its next January.
LongrunCpiLate(pi) ==
  [k \in YearStarts(Len(pi)) |-> Product(k - MonthsAYear + 1..k, LAMBDA i : pi[i])]

LongrunCpi(pi) ==
  [k \in YearStarts(Len(pi)) |-> Product(k - MonthsAYear..k - 1, LAMBDA i : pi[i])]

\* historical_measures: what the steps of a year paid, as a share of the rate,
\* after prices changed since the start.
YearsIncome(run, steps, change, p) ==
  LET paid == Total(steps, LAMBDA t : run[t].paid)
      due  == Times(p.rate, change)
  IN  Times(paid, Ratio(due.d, due.n))

-----------------------------------------------------------------------------
(* run_staged: 1 / n of the start on each tranche date, the rest in cash.  *)

\* Amounts come out of the cash first, then of the tranches in proportion; the
\* last tranche takes all the cash.  ret[k][t] is the growth of tranche k at
\* step t, buy[t] the tranche bought or 0, begin the step at which it starts.
RunStaged(withdraw, buy, ret, cash, n, begin) ==
  LET Whole(s) == Plus(s.bal, Total(1..n, LAMBDA k : s.held[k]))
      empty    == [bal |-> Zero, held |-> [k \in 1..n |-> Zero]]
      kept(s)  == IF Higher(Whole(s), Depleted) THEN s ELSE empty
      paid(s, w) ==
        LET take     == Least(s.bal, w)
            rest     == Minus(w, take)
            invested == Total(1..n, LAMBDA k : s.held[k])
            trim     == IF rest = Zero \/ invested = Zero THEN One
                        ELSE Times(Minus(invested, rest), Ratio(invested.d, invested.n))
        IN  [bal |-> Left(Minus(s.bal, take)), held |-> [k \in 1..n |-> Times(s.held[k], trim)]]
      bought(s, k) ==
        LET move == IF k = n THEN s.bal ELSE Least(Ratio(1, n), s.bal)
        IN  IF k = 0 THEN s ELSE [bal |-> Left(Minus(s.bal, move)), held |-> [s.held EXCEPT ![k] = Plus(@, move)]]
      grown(s, t) ==
        [bal |-> Times(s.bal, cash[t]), held |-> [k \in 1..n |-> Times(s.held[k], ret[k][t])]]
      run[t \in 0..Len(withdraw)] ==
        IF t = 0 THEN [empty EXCEPT !.bal = One]
        ELSE LET old == run[t - 1]
             IN  IF t < begin \/ old = empty THEN old
                 ELSE kept(grown(kept(bought(paid(old, withdraw[t]), buy[t])), t))
  IN  [t \in 0..Len(withdraw) |-> IF t < begin THEN One ELSE Whole(run[t])]

\* historical_withdrawals: from day begin on, raised on the anniversaries.
HistoricalWithdrawals(tape, p, begin) ==
  LET from == tape[begin].month
      raises(m) == {j \in from + 1..m : (j - from) % MonthsAYear = 0}
  IN  [t \in DOMAIN tape |->
         IF t < begin \/ t \notin MonthStarts(tape) THEN Zero
         ELSE Times(MonthlyRate(p), Product(raises(tape[t].month), LAMBDA j : YearlyChange(tape, p, j)))]

LongrunWithdrawals(pi, p) ==
  [k \in DOMAIN pi |->
     Times(MonthlyRate(p),
           Product(1..((k - 1) \div MonthsAYear) * MonthsAYear, LAMBDA i : pi[i]))]

\* n tranches on n month starts in a row, the first at `begin`.
BuyPlan(tape, begin, n) ==
  [t \in DOMAIN tape |->
     LET k == Cardinality(MonthStarts(tape) \cap begin..t)
     IN  IF t >= begin /\ t \in MonthStarts(tape) /\ k =< n THEN k ELSE 0]

-----------------------------------------------------------------------------
(* run_paths, over months that were drawn in blocks.                       *)

\* month_indices: blocks go on from the last month to the first.
MonthIndices(starts, block, n) ==
  [i \in 1..Len(starts) * block |->
     ((starts[((i - 1) \div block) + 1] - 1 + ((i - 1) % block)) % n) + 1]

RunPaths(growth, pi, p) ==
  LET due == LongrunWithdrawals(pi, p)
      path[t \in 0..Len(growth)] ==
        IF t = 0 THEN One
        ELSE LET value == path[t - 1]
             IN  IF value = Zero THEN Zero ELSE Left(Times(Minus(value, due[t]), growth[t]))
  IN  [t \in 0..Len(growth) |-> path[t]]

=============================================================================
