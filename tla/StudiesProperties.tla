------------------------- MODULE StudiesProperties -------------------------
(***************************************************************************)
(* What the studies promise whatever the tape brings.  Most promises about *)
(* a history are action properties of the tape before a step: every tape   *)
(* has a next step, and TLC's coverage statistics, which unfold the whole  *)
(* definition of an invariant, do not unfold an action property.           *)
(***************************************************************************)
EXTENDS Studies

-----------------------------------------------------------------------------
(* Causality.                                                              *)

\* What a study says of each day of a tape, <<>> if it says nothing.
Returns(run) == IF run = NaN THEN <<>> ELSE run
Said(s, days) ==
  CASE s.kind = "strategy" -> Weights(days, s.rule)
    [] s.kind = "market"   -> Returns(RunBacktest(days, Wanted(days), Tickers, s.cost))
    [] s.kind = "walk"     -> Stitched(days, s)
    [] s.kind = "facts"    -> TtmPanel(days, 1, "earned")
    [] s.kind = "factor"   -> FactorFamily(days, s)
    [] s.kind = "paper"    -> Returns(Forward(days, Wanted(days), s))
    [] s.kind = "overlay"  ->
         CHOOSE said \in
           {[t \in DOMAIN days |-> <<w[t],
               IF t = s.researchEnd THEN TrialResult(days, s.begin..t, TRUE, s)
               ELSE IF t = s.days THEN TrialResult(days, s.researchEnd + 1..t, FALSE, s) ELSE NaN>>] :
            w \in {BuildOverlay(days, s)}} : TRUE
    [] s.kind = "candidate" ->
         [t \in DOMAIN days |->
            IF t = s.research[2] THEN EvaluateCandidate(days, s.research, s)
            ELSE IF t = s.validation[2] THEN EvaluateCandidate(days, s.validation, s) ELSE NaN]
    [] OTHER               -> <<>>

\* A ticker is listed, delisted, or skips a day.
PricesStopOrReturn ==
  tape # <<>> /\ \E x \in Tickers : Priced(tape, Len(tape), x) # Priced(tape', Len(tape'), x)

\* What has been said of a day is what is said of it a day later.
Unrevised ==
  \A before \in {Said(subject, tape)}, after \in {Said(subject, tape')} :
    \/ after = <<>> /\ (Kind("market") \/ Kind("paper"))
    \/ Kind("candidate") /\ PricesStopOrReturn
    \/ \A t \in DOMAIN before : after[t] = before[t]

\* No study ever revises a day: the weights, selections, returns, panels and
\* memberships of a day are those that were computed at its close, whatever
\* the following days bring (engine.py's timing contract, the warm-up rules,
\* walkforward.py's strictly-before boundaries, filed < date, month-ends
\* strictly before), and so is the grade of a candidate in a period.  A run that a
\* later missing price makes refuse is gone as a whole, and exit_before_delisting knows
\* a day ahead that a ticker's prices stop or come back, as its docstring says.
NoHindsight == [][tape' # <<>> => Unrevised]_vars

-----------------------------------------------------------------------------
(* Weights.                                                                *)

\* What each subject is given to invest.
Frame ==
  CASE Kind("strategy") -> Weights(tape, subject.rule)
    [] Kind("walk")     -> Stitched(tape, subject)
    [] Kind("health")   -> Market(tape, subject)
    [] Kind("factor")   -> FactorFamily(tape, subject)
    [] Kind("overlay")  -> BuildOverlay(tape, subject)
    [] Kind("candidate") -> Combined(tape, Exited(tape, subject.rule), subject)
    [] OTHER            -> <<>>

\* The overlay takes no risk that the base has not, and nothing off above its cap.
OnlyDeRisks(row) ==
  /\ Invested(row) = Unit
  /\ \A x \in DOMAIN row \ {subject.safe} : row[x] =< subject.base[x]
  /\ row[subject.safe] =< subject.base[subject.safe] + subject.cap

Allotted == IF Kind("walk") THEN subject.share ELSE Unit

\* No book is ever short or above its capital, through warm-ups, late
\* starters, members that change, sleeves that are stitched together and moves
\* that add up to more than the cap.
NeverOverInvested ==
  [][\A row \in Range(Frame) \ {NaN} :
       /\ Invested(row) =< Allotted
       /\ \A x \in DOMAIN row : row[x] >= 0
       /\ Kind("overlay") => OnlyDeRisks(row)]_vars

IsSleeve == Kind("strategy") /\ subject.rule.family \in SleeveFamilies

HeldOn(w, t) == IF t < 1 \/ w[t] = NaN THEN {} ELSE {x \in Tickers : w[t][x] > 0}

\* The latest day up to t on which x was taken.
TakenOn(w, t, x) == Max({u \in 1..t : x \in HeldOn(w, u) \ HeldOn(w, u - 1)})

\* A held name leaves a sleeve by its own exit (a regime that is off is one) or
\* by its age, and never for a stronger candidate, a missing price or a
\* neighbour's warm-up; no more names are held than there are slots, and none
\* while the regime is off, also of what was taken before
\* (_cross_section.build_weights, regime_pullback's forced exit).
RegimeOff(t) ==
  subject.rule.family = "regime_pullback" /\ ~RegimeOn(tape, t, subject.rule)

KeptUntilExit ==
  [][IsSleeve =>
       LET w == Weights(tape, subject.rule)
       IN  \A t \in DOMAIN tape :
             /\ Cardinality(HeldOn(w, t)) =< subject.rule.slots
             /\ RegimeOff(t) => HeldOn(w, t) = {}
             /\ \A x \in HeldOn(w, t - 1) \ HeldOn(w, t) :
                  \/ Signals(tape, t, x, subject.rule).exit
                  \/ t - TakenOn(w, t - 1, x) >= subject.rule.exitDays]_vars

-----------------------------------------------------------------------------
(* The engine.                                                             *)

\* Prices begin once and end once.
NoGaps ==
  \A x \in Tickers : \A t \in DOMAIN tape :
    Priced(tape, t, x) \/ ~(\E u \in 1..t : Priced(tape, u, x))
                       \/ ~(\E u \in t..Len(tape) : Priced(tape, u, x))

\* Whatever a strategy wants, its book after the exits can be executed at
\* prices there are, if tickers are only listed and delisted: every sale
\* happens while there still is an open (exit_before_delisting against
\* run_backtest's refusal).
Tradable ==
  Kind("market") /\ NoGaps =>
    LET book == ExitBeforeDelisting(tape, Wanted(tape), Tickers)
    IN  \A t \in DOMAIN tape, x \in Tickers : ~MissingPrice(tape, book, t, x)

\* An account that is always in one ticker or in cash, which it changes at
\* the open for the cost of each leg.
AllIn(t) ==
  LET in == {x \in Tickers : Executed(Wanted(tape), t, x) = Unit} IN
  IF in = {} THEN NaN ELSE CHOOSE x \in in : TRUE

Legs(a, b) == (IF a = NaN THEN 0 ELSE 1) + (IF b = NaN THEN 0 ELSE 1)

AccountNext(old, t) ==
  LET new   == AllIn(t)
      at(x) == Ratio(tape[t].bars[x].open, 1)
      cash  == IF old.in = NaN THEN old.owns ELSE Times(old.owns, at(old.in))
      paid  == Times(cash, Minus(One, Times(Ratio(Legs(old.in, new), 1), subject.cost)))
  IN  IF new = old.in THEN old
      ELSE [in |-> new, owns |-> IF new = NaN THEN paid ELSE Over(paid, at(new))]

\* What is owned after each day's open.
Accounts ==
  LET account[t \in 0..Len(tape)] ==
        IF t = 0 THEN [in |-> NaN, owns |-> One] ELSE AccountNext(account[t - 1], t)
  IN  account

\* What an account is worth at the close of a day.
AtClose(account, t) ==
  IF account.in = NaN THEN account.owns
  ELSE Times(account.owns, Ratio(tape[t].bars[account.in].close, 1))

OneAtATime ==
  \A t \in DOMAIN tape : tape[t].want = NaN \/
    \A x \in Tickers : tape[t].want[x] \in {0, Unit} /\
      \A y \in Tickers \ {x} : tape[t].want[x] = 0 \/ tape[t].want[y] = 0

\* The engine's gap, cost and session legs multiply to what an account makes
\* that buys and sells whole positions at the open of the day after each
\* decision: no return is earned twice, on the wrong weights or before the
\* decision could be executed.
MatchesAccount ==
  Kind("market") /\ OneAtATime =>
    LET run == RunBacktest(tape, Wanted(tape), Tickers, subject.cost)
    IN  run # NaN => Compounded(run) = AtClose(Accounts[Len(tape)], Len(tape))

-----------------------------------------------------------------------------
(* The daily health report.                                                *)

Members == DOMAIN subject.rules \ {Core}

\* What a member contributes on the last day when nothing goes wrong.
Owed(m, x) ==
  LET row == Weights(tape, subject.rules[m])[Len(tape)]
  IN  IF row = NaN \/ x \notin DOMAIN row THEN 0
      ELSE IF m = Core THEN Scaled(row[x], subject.split.core, 1)
      ELSE Scaled(row[x], subject.split.sleeve, Cardinality(Members))

OwedBySleeves(x) == SumFunction([m \in Members |-> Owed(m, x)])

\* What the given weights then are.
WholePortfolio ==
  LET last   == Len(tape)
      row    == Market(tape, subject)[last]
      sleeve == [x \in DOMAIN row |-> OwedBySleeves(x)]
  IN  /\ \A m \in DOMAIN subject.rules : Weights(tape, subject.rules[m])[last] # NaN
      /\ \A x \in DOMAIN row : row[x] = Owed(Core, x) + sleeve[x]
      /\ \A x \in DOMAIN row :
           \E t \in DOMAIN tape : Priced(tape, t, x) /\ last + subject.lag - t =< subject.staleness
      /\ Cardinality({x \in DOMAIN sleeve : sleeve[x] # 0}) =< subject.limits.positions

\* A rebalance that gets weights gets those of the whole portfolio: every
\* configured member has its share, none is warming up or was lost to an
\* error on the way, no price is older than allowed on the day of the report,
\* and the sleeves' caps hold (run_daily_health, build_market).
HealthyMeansWhole ==
  [][Kind("health") /\ Market(tape, subject) # <<>> => WholePortfolio]_vars

-----------------------------------------------------------------------------
(* Data.                                                                   *)

\* A trailing year is the truth about four quarters in a row, the last of
\* which had been filed on an earlier day, whatever was filed late, only as
\* a year, or not at all (_ttm_state, _map_to_dates).
TrueEarnings ==
  LET panel == TtmPanel(tape, 1, "earned")
  IN  \A t \in DOMAIN tape :
        panel[t] # NaN =>
          \E e \in Year..t - 1 :
            /\ Fresh(t, e)
            /\ \E u \in 1..t - 1 : \E f \in tape[u].filings[1] : f.end = e
            /\ panel[t] = SumOver(e - Year + 1..e, TrueQuarter)

\* The shares a company has after the splits up to a day; it starts with 2.
TrueShares(x, t) == FoldSet(LAMBDA u, acc : tape[u].split[x] * acc, 2, 1..t)

\* What a company is ranked by is what it was worth in the market that day:
\* the hindsight in split-adjusted closes and the hindsight in split-adjusted
\* share counts cancel, on ex-dates and filing dates, too, and companies with
\* several classes count with all of them.
TrueCaps ==
  \A t \in DOMAIN tape, x \in Tickers :
    LET cap == MarketCap(tape, t, x, subject.limit)
    IN  cap # NaN => \E u \in t - subject.limit..t :
                       u > 0 /\ Priced(tape, u, x)
                       /\ cap = Ratio(tape[u].bars[x].close * TrueShares(x, u), 1)

\* Prices that are handed out have the fields and reach back to the day asked
\* for, whoever fetched them with which start and whatever failed since, unless
\* the last fetch was killed between the two files it writes.
TruePrices ==
  LET cache == CacheAfter(tape, subject)
      fetches(t) == {u \in 1..t : ~Serves(cache[u - 1], tape[u]) /\ tape[u].end # "nothing"}
      broken(t) == fetches(t) # {} /\ tape[Max(fetches(t))].end = "killed"
  IN  \A t \in DOMAIN tape :
        cache[t].served # NaN =>
          HasColumns(cache[t].served, tape[t]) /\ (cache[t].served.from =< tape[t].start \/ broken(t))

\* The signals of the null are as long on as the real ones, and change as often,
\* from the month on that governs the period's first day, and before they are the
\* real ones (shuffle_spells, _governing_start).
NullIsMatched ==
  \A monthly \in {MonthlyStates(tape, subject)} :
    LET ends    == DOMAIN monthly
        next(t) == {u \in ends : u > t}
        on(states, s) == {t \in ends : s \in states[t]}
        switches(states, s) ==
          {t \in ends : next(t) # {} /\ (s \in states[t]) # (s \in states[Min(next(t))])}
    IN  ends # {} =>
          \A draw \in subject.draws, begin \in {subject.begin, subject.researchEnd + 1} :
            \A null \in {ShuffleStates(monthly, SignalsOf(subject), begin, draw)} :
              /\ \A t \in ends : next(t) # {} /\ Min(next(t)) < begin => null[t] = monthly[t]
              /\ \A s \in SignalsOf(subject) :
                   /\ Cardinality(on(null, s)) = Cardinality(on(monthly, s))
                   /\ Cardinality(switches(null, s)) = Cardinality(switches(monthly, s))

\* A candidate that does what the null does is graded, if tickers are only listed
\* and delisted, and is no improvement on it, on any day of any period: the
\* candidate's exits, costs and dates are the null's, although each is computed on
\* a path of its own (null_baseline_sleeve).
NullGainsNothing ==
  \A period \in {subject.research, subject.validation} :
    period[2] =< Len(tape) =>
      \A grade \in {EvaluateCandidate(tape, period, [subject EXCEPT !.rule = subject.null])} :
        IF grade = NaN THEN ~NoGaps
        ELSE \A t \in DOMAIN grade.improvement : grade.improvement[t] = Zero

\* Data from filings, from the cache and from random draws, and the baselines
\* that results are compared with, are what they claim to be.
TrueData ==
  [][/\ Kind("facts") => TrueEarnings
     /\ Kind("factor") => TrueCaps
     /\ Kind("cache") => TruePrices
     /\ Kind("overlay") => NullIsMatched
     /\ Kind("candidate") /\ subject.null # NaN => NullGainsNothing]_vars

-----------------------------------------------------------------------------
(* The paper track.                                                        *)

\* A candidate that was dropped stays dropped although each run recomputes
\* the whole track, as long as every day has all its prices (config/paper.yaml:
\* "dropped at any time").
DropsAreFinal ==
  [][Kind("paper") /\ tape' # <<>> /\ (\A t \in DOMAIN tape', x \in Tickers : Priced(tape', t, x))
       /\ Status(tape, subject) = "dropped" => Status(tape', subject) = "dropped"]_vars

-----------------------------------------------------------------------------
(* What the documentation says and the code does not do.                   *)

\* "starting at the first date it holds any position (leading warm-up bars
\* are excluded)": an incumbent's baseline has no day before its rules first
\* wanted a position.
BaselineStartsHeld ==
  Kind("walk") =>
    \A c \in subject.candidates, b \in DOMAIN tape :
      \A t \in Baseline(tape, c, b, subject) :
        \E u \in 1..t : tape[u].hold[c] \notin {NaN, 0}

=============================================================================
