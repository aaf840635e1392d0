----------------------------- MODULE Strategies -----------------------------
(***************************************************************************)
(* The strategies (qrl/strategies): target weights for every day of a      *)
(* tape.  A rule p carries its family and parameters; percentages are      *)
(* whole numbers.                                                          *)
(***************************************************************************)
EXTENDS Frames

CONSTANTS Tickers,             \* the sleeve's universe, numbered by name
          Volatility(_, _)     \* closes, window: the standard deviation of the last
                               \* daily returns, NaN until there are enough

ASSUME TickersAssumption ==
  Tickers \in SUBSET Int /\ IsFiniteSet(Tickers) /\ NaN \notin [Tickers -> Int]

Cash == "CASH"

-----------------------------------------------------------------------------
(* The core: hold one mix or the other.                                    *)

Mix(on, off, above) ==
  [x \in DOMAIN on \cup DOMAIN off |->
     (IF above /\ x \in DOMAIN on THEN on[x] ELSE 0)
     + (IF ~above /\ x \in DOMAIN off THEN off[x] ELSE 0)]

\* core_mix; without an off mix it never switches.
CoreMix(tape, p) ==
  [t \in DOMAIN tape |->
     LET static == p.signal = NaN
         held   == DOMAIN p.on \cup DOMAIN p.off
         col    == Closes(tape, p.signal)
     IN  IF (\E x \in held : ~Priced(tape, t, x)) \/ (~static /\ ~Full(col, t, p.lookback))
         THEN NaN
         ELSE Mix(p.on, p.off, static \/ AboveMean(col, t, p.lookback))]

\* A ticker at full weight.
Whole(x) == [y \in {x} |-> Unit]

CoreTrend(tape, p) ==
  CoreMix(tape, [on |-> Whole(p.risk_on), signal |-> p.risk_on, lookback |-> p.lookback,
                 off |-> IF p.risk_off = NaN THEN <<>> ELSE Whole(p.risk_off)])

BuyAndHold(tape, p) ==
  CoreMix(tape, [on |-> Whole(p.ticker), off |-> <<>>, signal |-> NaN, lookback |-> 1])

-----------------------------------------------------------------------------
(* What each sleeve family says of a ticker on a day.                      *)

Signal(entry, exit, score, warm) ==
  [entry |-> entry, exit |-> exit, score |-> score, warm |-> warm]

Pullback(tape, t, x, p) ==
  LET col  == Closes(tape, x)
      full == Full(col, t, p.short)
      mean == WindowSum(col, t, p.short)
      dip  == \/ DownStreak(col, t, p.days)
              \/ full /\ 100 * p.short * col[t] =< (100 - p.pct) * mean
  IN  Signal(AboveMean(col, t, p.trend) /\ dip,
             AboveMean(col, t, p.short),
             IF full THEN Fraction(mean - p.short * col[t], mean) ELSE NaN,
             ~Full(col, t, p.trend) \/ ~full)

\* The breadth of the universe: a ticker without an average counts as below.
RegimeOn(tape, t, p) ==
  100 * Cardinality({x \in Tickers : AboveMean(Closes(tape, x), t, p.breadth)})
    >= p.minBreadth * Cardinality(Tickers)

\* A bad regime takes nothing new and gives up what is held.
RegimePullback(tape, t, x, p) ==
  [Pullback(tape, t, x, p) EXCEPT !.entry = @ /\ RegimeOn(tape, t, p),
                                  !.exit  = @ \/ ~RegimeOn(tape, t, p)]

LowRangeClose(tape, t, x, p) ==
  LET col   == Closes(tape, x)
      bar   == tape[t].bars[x]
      flat  == bar = NaN \/ bar.high = bar.low
      place == IF flat THEN NaN ELSE Fraction(bar.low - bar.close, bar.high - bar.low)
  IN  Signal(/\ AboveMean(col, t, p.trend) /\ ~flat
             /\ 100 * (bar.close - bar.low) =< p.range * (bar.high - bar.low),
             /\ bar # NaN /\ t > 1 /\ Priced(tape, t - 1, x)
             /\ bar.close > tape[t - 1].bars[x].high,
             place,
             ~Full(col, t, p.trend) \/ flat)

QuietPullback(tape, t, x, p) ==
  LET col    == Closes(tape, x)
      level  == IF p.by = "volume" THEN Column(tape, "volume", x)
                ELSE [u \in DOMAIN tape |-> Volatility(UpTo(col, u), p.window)]
      known  == Full(level, t, p.window)
      usual  == WindowSum(level, t, p.window)
      full   == Full(col, t, p.short)
  IN  Signal(/\ AboveMean(col, t, p.trend) /\ full /\ known
             /\ p.short * col[t] =< WindowSum(col, t, p.short)
             /\ 100 * p.window * level[t] =< p.ratio * usual,
             AboveMean(col, t, p.short),
             IF known THEN Fraction(-p.window * level[t], usual) ELSE NaN,
             ~Full(col, t, p.trend) \/ ~full \/ ~known)

Signals(tape, t, x, p) ==
  CASE p.family = "trend_pullback"  -> Pullback(tape, t, x, p)
    [] p.family = "regime_pullback" -> RegimePullback(tape, t, x, p)
    [] p.family = "low_range_close" -> LowRangeClose(tape, t, x, p)
    [] p.family = "quiet_pullback"  -> QuietPullback(tape, t, x, p)

-----------------------------------------------------------------------------
(* build_weights: who is held, and since when.                             *)

\* The strongest candidates take the slots, whoever has them.
TakeSlots(kept, wanting, score, n) ==
  Best(kept \cup wanting, score, n)

\* Free slots go to the best candidates; a held name is never bumped.
FillSlots(kept, wanting, score, n) ==
  kept \cup Best(wanting, score, n - Cardinality(kept))

\* A day turns one book into the next.
NextBook(old, sig, t, p) ==
  LET kept    == {x \in DOMAIN old : ~sig[x].exit /\ t - old[x] < p.exitDays}
      wanting == {x \in Tickers \ kept : sig[x].entry}
      now     == FillSlots(kept, wanting, [x \in Tickers |-> sig[x].score], p.slots)
  IN  [x \in now |-> IF x \in kept THEN old[x] ELSE t]

Book(tape, p) ==
  LET sig == [t \in DOMAIN tape |-> [x \in Tickers |-> Signals(tape, t, x, p)]]
      book[t \in 0..Len(tape)] == IF t = 0 THEN <<>> ELSE NextBook(book[t - 1], sig[t], t, p)
  IN  book

\* Rows on which every ticker warms up are NaN at the start only.
SleeveWeights(tape, p) ==
  LET book   == Book(tape, p)
      warm(t) == \A x \in Tickers : Signals(tape, t, x, p).warm
  IN  [t \in DOMAIN tape |->
         IF InLeadingRun(warm, t) THEN NaN
         ELSE [x \in Tickers |-> EqualSplit(DOMAIN book[t], Unit, x)]]

-----------------------------------------------------------------------------
(* The factor families and the null sleeves, over the day's members.       *)

\* rebalance_flags: the first day of a month, or of a quarter.
Flag(tape, t, p) ==
  /\ t > 1 /\ tape[t].month # tape[t - 1].month
  /\ p.quarterly => tape[t].month % 3 = 1

Selected(tape, t, p) ==
  LET day      == tape[t]
      eligible == {x \in Tickers : x \in day.member /\ Priced(tape, t, x) /\ day.score[x] # NaN}
  IN  Best(eligible, day.score, p.hold)

\* The rows between two rebalances filled from the later one.
NextFlag(tape, t, p) ==
  LET flags == {u \in t..Len(tape) : Flag(tape, u, p)} IN IF flags = {} THEN 0 ELSE Min(flags)

\* The latest rebalance day up to t, 0 before the first.
LastFlag(tape, t, p) ==
  LET flags == {u \in 1..t : Flag(tape, u, p)} IN IF flags = {} THEN 0 ELSE Max(flags)

\* factor_weights; trend is the member index at or above its average.
FactorWeights(tape, p) ==
  [t \in DOMAIN tape |->
     LET last == LastFlag(tape, t, p)
     IN  IF last = 0 THEN NaN
         ELSE [x \in Tickers |->
                 IF x \in Selected(tape, last, p) /\ (p.filter => tape[t].trend)
                 THEN Unit \div p.hold ELSE 0]]

\* null_sleeve_weights
NullWeights(tape, p) ==
  [t \in DOMAIN tape |->
     LET held == {x \in tape[t].member :
                    IF p.trended THEN AboveMean(Closes(tape, x), t, p.lookback)
                    ELSE Priced(tape, t, x)}
     IN  [x \in Tickers |-> EqualSplit(held, Unit, x)]]

\* The registry.
CoreFamilies == {"buy_and_hold", "core_trend", "core_mix"}
SleeveFamilies == {"trend_pullback", "regime_pullback", "low_range_close", "quiet_pullback"}
Registry == CoreFamilies \cup SleeveFamilies \cup {"factor"}

Weights(tape, p) ==
  CASE p.family = "buy_and_hold" -> BuyAndHold(tape, p)
    [] p.family = "core_trend"   -> CoreTrend(tape, p)
    [] p.family = "core_mix"     -> CoreMix(tape, p)
    [] p.family = "factor"       -> FactorWeights(tape, p)
    [] p.family = "null"         -> NullWeights(tape, p)
    [] p.family \in SleeveFamilies -> SleeveWeights(tape, p)

=============================================================================
