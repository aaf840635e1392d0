---------------------------- MODULE WalkForward ----------------------------
(***************************************************************************)
(* Walk-forward selection of the sleeve (qrl/walkforward.py).  A day says  *)
(* for every candidate which weight its rules want at the close (hold, NaN *)
(* while warming up) and what its standalone backtest earned that day      *)
(* (ret, in halves).                                                       *)
(*                                                                         *)
(* A process p has the candidates in their order, the first day of its     *)
(* calendar, the meta settings, and its share of the capital.              *)
(***************************************************************************)
EXTENDS Frames

\* The days a candidate's own backtest has results for, before a day.
Track(tape, c, b) ==
  {t \in 2..b - 1 : \E u \in 1..t - 1 : tape[u].hold[c] # NaN}

\* The last days of the track, strictly before the boundary.
Trailing(tape, c, b, n) == Track(tape, c, b) \cap b - n..b - 1

SumEarned(tape, c, days) == SumFunction([t \in days |-> tape[t].ret[c]])

Grown(tape, c, t) == Ratio(2 + tape[t].ret[c], 2)

\* The sample variance of the returns, times n (n - 1).
Spread(tape, c, days) ==
  Cardinality(days) * SumFunction([t \in days |-> tape[t].ret[c] * tape[t].ret[c]])
  - SumEarned(tape, c, days) * SumEarned(tape, c, days)

\* _trailing_sharpe orders like its square with its sign.
TrailingSharpe(tape, c, days) ==
  LET n == Cardinality(days)
      s == SumEarned(tape, c, days)
  IN  IF n < 2 THEN NaN
      ELSE IF Spread(tape, c, days) = 0 THEN Ratio(0, 1)
      ELSE Ratio(s * Abs(s) * (n - 1), n * Spread(tape, c, days))

-----------------------------------------------------------------------------
(* _causal_baseline: what an incumbent is measured against.                *)

\* The first row of weights that is not all zeros, as pandas compares them.
FirstHeld(tape, c) ==
  LET rows == {t \in DOMAIN tape : tape[t].hold[c] # 0} IN IF rows = {} THEN NaN ELSE Min(rows)

\* The days of the baseline, none if they are too few.
Baseline(tape, c, b, p) ==
  LET past == {t \in Track(tape, c, b) : t >= FirstHeld(tape, c)}
  IN  IF FirstHeld(tape, c) = NaN \/ Cardinality(past) < Max({p.minTrack, 2}) THEN {} ELSE past

\* _is_evicted: far outside of what its own record calls normal.
Evicted(tape, c, b, p) ==
  LET own  == Baseline(tape, c, b, p)
      now  == Trailing(tape, c, b, p.lookback)
      fall(days) == Drawdown([t \in days |-> Grown(tape, c, t)])
      n    == Cardinality(own)
      lost == SumEarned(tape, c, now)
  IN  /\ own # {}
      /\ \/ /\ fall(own).n > 0
            /\ Higher(fall(now), Times(Ratio(p.ddMultiple, 1), fall(own)))
         \/ /\ Spread(tape, c, own) > 0 /\ lost < 0
            /\ lost * lost * n * (n - 1)
                 > p.lossMultiple * p.lossMultiple * Spread(tape, c, own) * Cardinality(now)

-----------------------------------------------------------------------------
(* walk_forward                                                            *)

\* select_sleeve: only an incumbent is evicted.
SelectSleeve(tape, p, b, current) ==
  LET days(c)  == Trailing(tape, c, b, p.lookback)
      eligible == {c \in p.candidates : /\ Cardinality(days(c)) >= p.minTrack
                                        /\ ~(c \in current /\ Evicted(tape, c, b, p))}
  IN  Best(eligible, [c \in p.candidates |-> TrailingSharpe(tape, c, days(c))], p.count)

\* period_starts: the first day of the calendar, then of each period.
Period(month, p) == IF p.quarterly THEN (month - 1) \div 3 ELSE month
IsBoundary(tape, p, t) ==
  t = p.start \/ (t > p.start /\ Period(tape[t].month, p) # Period(tape[t - 1].month, p))

\* What a day makes of the sleeve.
NextSleeve(tape, p, t, current) ==
  IF t < p.start THEN {}
  ELSE IF IsBoundary(tape, p, t) THEN SelectSleeve(tape, p, t, current) ELSE current

\* The sleeve of every day.
Sleeves(tape, p) ==
  LET sleeve[t \in 0..Len(tape)] == IF t = 0 THEN {} ELSE NextSleeve(tape, p, t, sleeve[t - 1])
  IN  sleeve

\* Every candidate weighs what it would with all the share to itself.
Undivided(weight, p, n) == (weight * p.share) \div Unit

\* A member's part of the share.
Portion(weight, p, n) == (weight * p.share) \div (Unit * n)

\* The one book the engine runs: each day's members at equal parts.
Stitched(tape, p) ==
  LET sleeve == Sleeves(tape, p)
  IN  [t \in DOMAIN tape |->
         [c \in p.candidates |->
            IF c \in sleeve[t] /\ tape[t].hold[c] # NaN
            THEN Portion(tape[t].hold[c], p, Cardinality(sleeve[t])) ELSE 0]]

=============================================================================
