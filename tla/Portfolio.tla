----------------------------- MODULE Portfolio -----------------------------
(***************************************************************************)
(* The portfolio of one core and some sleeves (qrl/portfolio.py), its caps *)
(* (qrl/risk.py), the daily health report that decides whether a rebalance *)
(* gets any weights (qrl/health.py, qrl/live_weights.py), and the paper    *)
(* tracks of the candidates that may join it (qrl/paper.py).               *)
(*                                                                         *)
(* A portfolio p says which members it has, their rules, the capital split *)
(* and the limits, the staleness allowed, and what goes wrong in a run:    *)
(* which members raise, whether loading does, how many days after the last *)
(* row the report is made, and whether anything warned.                    *)
(***************************************************************************)
EXTENDS Strategies, Engine

Core == "core"

\* What a rule trades.
Universe(rule) ==
  CASE rule.family = "core_trend" ->
         {rule.risk_on} \cup (IF rule.risk_off = NaN THEN {} ELSE {rule.risk_off})
    [] rule.family = "core_mix" ->
         DOMAIN rule.on \cup DOMAIN rule.off \cup ({rule.signal} \ {NaN})
    [] rule.family = "buy_and_hold" -> {rule.ticker}
    [] OTHER -> Tickers

-----------------------------------------------------------------------------
(* combine_portfolio                                                       *)

\* A part of the capital; MC modules choose numbers that divide evenly.
Scaled(weight, share, n) == (weight * share) \div (Unit * n)

CoreShare(frames, split, t, x) ==
  IF x \in DOMAIN frames[Core][t] THEN Scaled(Target(frames[Core], t, x), split.core, 1) ELSE 0

\* Each member gets an equal part of the sleeve's capital.
SleeveShare(frames, split, t, x) ==
  LET members == DOMAIN frames \ {Core}
      part(m) == IF frames[m][t] # NaN /\ x \in DOMAIN frames[m][t]
                 THEN Scaled(Target(frames[m], t, x), split.sleeve, Cardinality(members)) ELSE 0
  IN  SumFunction([m \in members |-> part(m)])

Held(frames, t) ==
  UNION {IF frames[m][t] = NaN THEN {} ELSE DOMAIN frames[m][t] : m \in DOMAIN frames}

SleeveRow(frames, split, t) == [x \in Held(frames, t) |-> SleeveShare(frames, split, t, x)]

CombinedRow(frames, split, t) ==
  [x \in Held(frames, t) |->
     (IF frames[Core][t] = NaN THEN 0 ELSE CoreShare(frames, split, t, x))
     + SleeveShare(frames, split, t, x)]

LongOnly(row) == Invested(row) =< Unit /\ \A x \in DOMAIN row : row[x] >= 0

\* A split above the capital, or a row that is short or above it, raises.
Combines(frames, split) ==
  /\ split.core + split.sleeve =< Unit
  /\ Core \in DOMAIN frames
  /\ \A t \in DOMAIN frames[Core] :
       LongOnly(SleeveRow(frames, split, t)) /\ LongOnly(CombinedRow(frames, split, t))

-----------------------------------------------------------------------------
(* check_portfolio: the gross cap is on everything, the other two are on   *)
(* the sleeves.                                                            *)

WithinLimits(combined, sleeve, limits) ==
  /\ Invested(combined) =< limits.gross
  /\ Cardinality({x \in DOMAIN sleeve : sleeve[x] # 0}) =< limits.positions
  /\ \A x \in DOMAIN sleeve : sleeve[x] =< limits.loss

-----------------------------------------------------------------------------
(* run_daily_health on the whole tape.                                     *)

\* Every ticker has a close that is not older than the staleness allowed.
DataArrived(tape, p) ==
  \A x \in UNION {Universe(p.rules[m]) : m \in DOMAIN p.rules} :
    \E t \in DOMAIN tape : Priced(tape, t, x) /\ t >= Len(tape) + p.lag - p.staleness

\* The frames of the members that did not raise.
Computed(tape, p) == [m \in DOMAIN p.rules \ p.broken |-> Weights(tape, p.rules[m])]

\* No value is missing, as one is while a strategy warms up.
Valued(row) == row # NaN /\ \A x \in DOMAIN row : row[x] # NaN

SignalsComputed(frames) ==
  /\ frames # <<>>
  /\ \A m \in DOMAIN frames :
       frames[m] # <<>> /\ Valued(frames[m][Len(frames[m])]) /\ LongOnly(frames[m][Len(frames[m])])

RiskChecked(frames, p) ==
  LET t == Len(frames[Core])
  IN  WithinLimits(CombinedRow(frames, p.split, t), SleeveRow(frames, p.split, t), p.limits)

\* A member that raised is left out, and no one is told.
WarningsOnly(p) == IF p.warned THEN {"warning"} ELSE {}

\* What went wrong without ending the run: members that raised, warnings.
Errors(p) == p.broken \cup (IF p.warned THEN {"warning"} ELSE {})

\* Each check needs the ones before it; a skipped check is not ok.
Healthy(tape, p) ==
  LET frames == Computed(tape, p)
  IN  /\ p.loads /\ tape # <<>>
      /\ DataArrived(tape, p)
      /\ SignalsComputed(frames)
      /\ Combines(frames, p.split) /\ RiskChecked(frames, p)
      /\ Errors(p) = {}

\* build_market: the weights a rebalance gets, none if the report is not ok.
Market(tape, p) ==
  IF Healthy(tape, p)
    THEN [t \in DOMAIN tape |-> CombinedRow(Computed(tape, p), p.split, t)]
    ELSE <<>>

-----------------------------------------------------------------------------
(* The forward paper track of a candidate (qrl/paper.py), recomputed from  *)
(* the whole price history whenever it is run.  A day's want is the row of *)
(* weights that the candidate's rules give at its close.  A track p has    *)
(* its first day, the fall its candidate had in research, and the rules of *)
(* config/paper.yaml, with dates as numbers of days.                       *)

Wanted(tape) == [t \in DOMAIN tape |-> tape[t].want]

\* forward_returns: only rows from the first day on are ever executed.
ForwardDays(tape, p) == SubSeq(tape, p.start, Len(tape))
ForwardRows(tape, w, p) == SubSeq(w, p.start, Len(tape))
Forward(tape, w, p) == RunBacktest(ForwardDays(tape, p), ForwardRows(tape, w, p), Tickers, p.cost)

\* The candidate's weights, and the same tickers at equal weights.
CandidateBook(tape) == ExitBeforeDelisting(tape, Wanted(tape), Tickers)
BaseBook(tape, p) == ExitBeforeDelisting(tape, NullWeights(tape, p.baseline), Tickers)

\* Days are counted from the first; results start a day later.
Until(returns, day) == {t \in DOMAIN returns : t =< day}
Cumulative(returns, day) == Compounded(Restrict(returns, Until(returns, day)))

\* How far a track has ever fallen below its peak.
Fallen(returns, day) == Drawdown(Restrict(returns, Until(returns, day)))

\* The rule looks at how far the track is under its peak today.
DrawdownNow(returns, p) ==
  LET last == Max(DOMAIN returns)
      deep == \E u \in DOMAIN returns :
                Higher(Minus(Ratio(1, 1), Product(u + 1..last, LAMBDA t : returns[t])),
                       Times(p.multiple, p.researchFall))
  IN  IF deep THEN last ELSE NaN

\* _drawdown_kill: the first day that is deeper under its peak than allowed.
DrawdownKill(returns, p) ==
  LET deep == {t \in DOMAIN returns : Higher(Fallen(returns, t), Times(p.multiple, p.researchFall))}
  IN  IF deep = {} THEN NaN ELSE Min(deep)

\* _underperformance_kill: judged once, on the returns up to the review.
UnderperformanceKill(returns, base, p) ==
  IF Max(DOMAIN returns) < 1 + p.review THEN NaN
  ELSE IF Higher(p.minExcess, Minus(Cumulative(returns, 1 + p.review), Cumulative(base, 1 + p.review)))
       THEN 1 + p.review ELSE NaN

\* find_kill: the earliest of the two.
FindKill(returns, base, p) ==
  LET hits == {DrawdownKill(returns, p), UnderperformanceKill(returns, base, p)} \ {NaN}
  IN  IF hits = {} THEN NaN ELSE Min(hits)

\* status_for
StatusFor(last, excess, kill, p) ==
  LET passed == {r \in p.reviews : 1 + r =< last}
  IN  CASE kill # NaN -> "dropped"
        [] kill = NaN /\ last >= 1 + p.promote ->
             IF Higher(excess, p.minPromote) THEN "eligible" ELSE "not eligible"
        [] kill = NaN /\ last < 1 + p.promote ->
             IF passed # {} /\ last - (1 + Max(passed)) =< p.due THEN "review due" ELSE "tracking"

\* track_candidate; an engine that refuses ends the whole run.
Status(tape, p) ==
  LET raises(w) == Refuses(ForwardDays(tape, p), ForwardRows(tape, w, p), Tickers)
      returns   == Forward(tape, CandidateBook(tape), p)
      base      == Forward(tape, BaseBook(tape, p), p)
      last      == Max(DOMAIN returns)
  IN  IF Len(tape) < p.start + 1 THEN "waiting"
      ELSE IF raises(CandidateBook(tape)) \/ raises(BaseBook(tape, p)) THEN "raised"
      ELSE StatusFor(last, Minus(Cumulative(returns, last), Cumulative(base, last)),
                     FindKill(returns, base, p), p)

=============================================================================
