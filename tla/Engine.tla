------------------------------- MODULE Engine -------------------------------
(***************************************************************************)
(* The daily-bar engine (qrl/engine.py) and the exit before a ticker's     *)
(* prices end (qrl/tradability.py).  Row t of a frame of weights is        *)
(* executed at the open of day t + 1.  A day grows the capital by a        *)
(* fraction.                                                               *)
(***************************************************************************)
EXTENDS Frames

Cell(w, t, x) == IF w[t] = NaN THEN NaN ELSE w[t][x]

-----------------------------------------------------------------------------
(* exit_before_delisting                                                   *)

\* The exit a day later: held into the last priced close.
OutTooLate(tape, t, x) ==
  LET priced == {u \in DOMAIN tape : Priced(tape, u, x)}
  IN  priced = {} \/ (Max(priced) < Len(tape) /\ t >= Max(priced))

\* Sell a ticker whose prices end before the frame does on its last priced
\* day, and hold nothing into a day without a price.
MustBeOut(tape, t, x) ==
  LET priced == {u \in DOMAIN tape : Priced(tape, u, x)}
  IN  \/ priced = {}
      \/ Max(priced) < Len(tape) /\ t >= Max(priced) - 1
      \/ t < Len(tape) /\ ~Priced(tape, t + 1, x)

ExitBeforeDelisting(tape, w, tickers) ==
  [t \in DOMAIN tape |->
     [x \in tickers |-> IF MustBeOut(tape, t, x) THEN 0 ELSE Cell(w, t, x)]]

-----------------------------------------------------------------------------
(* run_backtest                                                            *)

\* The target of a row, and nothing before the first.
Target(w, t, x) == IF t < 1 \/ Cell(w, t, x) = NaN THEN 0 ELSE Cell(w, t, x)

Executed(w, t, x) == Target(w, t - 1, x)

\* The gap earned on what is only bought at this open.
OvernightExecuted(w, t, x) == Target(w, t - 1, x)

\* What is held from one close into the next open is what was executed before.
Overnight(w, t, x) == Target(w, t - 2, x)

Complete(w, t, tickers) == \A x \in tickers : Cell(w, t, x) # NaN

FirstSignal(w, tickers) ==
  LET rows == {t \in DOMAIN w : Complete(w, t, tickers)} IN IF rows = {} THEN 0 ELSE Min(rows)

\* A held position without a price is refused, not taken for a flat day.
MissingPrice(tape, w, t, x) ==
  \/ t > 1 /\ Overnight(w, t, x) > 0 /\ ~(Priced(tape, t - 1, x) /\ Priced(tape, t, x))
  \/ Executed(w, t, x) > 0 /\ ~Priced(tape, t, x)

Refuses(tape, w, tickers) ==
  LET first == FirstSignal(w, tickers)
  IN  \/ first = 0
      \/ first = Len(tape)
      \/ \E t \in DOMAIN w : \/ \E x \in tickers : Target(w, t, x) < 0
                             \/ SumFunction([x \in tickers |-> Target(w, t, x)]) > Unit
                             \/ \E x \in tickers : MissingPrice(tape, w, t, x)

\* The overnight gap and the session, as a change of so many parts of a base.
Gap(tape, t, x) ==
  IF t = 1 \/ ~Priced(tape, t, x) \/ ~Priced(tape, t - 1, x) THEN Ratio(0, 1)
  ELSE Ratio(tape[t].bars[x].open - tape[t - 1].bars[x].close, tape[t - 1].bars[x].close)

Session(tape, t, x) ==
  IF ~Priced(tape, t, x) THEN Ratio(0, 1)
  ELSE Ratio(tape[t].bars[x].close - tape[t].bars[x].open, tape[t].bars[x].open)

Earned(weight, change) ==
  Plus(Ratio(1, 1), Total(DOMAIN weight, LAMBDA x : Times(Ratio(weight[x], Unit), change[x])))

Turnover(w, t, tickers) ==
  SumFunction([x \in tickers |-> Abs(Executed(w, t, x) - Overnight(w, t, x))])

\* cost is the cost of turning the capital over once.
Growth(tape, w, t, tickers, cost) ==
  Times(Earned([x \in tickers |-> Overnight(w, t, x)], [x \in tickers |-> Gap(tape, t, x)]),
  Times(Minus(Ratio(1, 1), Times(Ratio(Turnover(w, t, tickers), Unit), cost)),
        Earned([x \in tickers |-> Executed(w, t, x)], [x \in tickers |-> Session(tape, t, x)])))

\* The days a run has results for, from the first execution on.
Traded(tape, w, tickers) == FirstSignal(w, tickers) + 1..Len(tape)

RunBacktest(tape, w, tickers, cost) ==
  IF Refuses(tape, w, tickers) THEN NaN
  ELSE [t \in Traded(tape, w, tickers) |-> Growth(tape, w, t, tickers, cost)]

=============================================================================
