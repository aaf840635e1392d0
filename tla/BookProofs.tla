----------------------------- MODULE BookProofs -----------------------------
(***************************************************************************)
(* What is proved of the books the studies invest, for every tape, every   *)
(* set of tickers and every rule: a sleeve keeps what it took until its    *)
(* exit (KeptUntilExitHolds), no book is short or above its capital        *)
(* (NeverOverInvestedHolds), a dropped candidate stays dropped             *)
(* (DropsAreFinalHolds), and a market grows as an account would that       *)
(* trades whole positions (MatchesAccountHolds).                           *)
(***************************************************************************)
EXTENDS StudiesProofs

-----------------------------------------------------------------------------
(* What a sleeve holds, and for how long.                                  *)

\* Prices and volumes are numbers, and a volatility is one when there is any.
Number(v) == v = NaN \/ v \in Int
Typed(days, p) ==
  \A t \in DOMAIN days, x \in Tickers :
    /\ Priced(days, t, x) => \A field \in {"close", "high", "low", "volume"} : days[t].bars[x][field] \in Int
    /\ p.family = "quiet_pullback" => Number(Volatility(UpTo(Closes(days, x), t), p.window))

PricesTyped == IsSleeve => Typed(tape, subject.rule)

\* A full window of numbers has a sum, and a last number.
LEMMA FullWindow ==
  ASSUME NEW t \in Nat, NEW n \in Nat \ {0}, NEW col, \A u \in 1..t : Number(col[u]), Full(col, t, n)
  PROVE  WindowSum(col, t, n) \in Int /\ col[t] \in Int
<1>1. Window(t, n) \in SUBSET (1..t) /\ t \in Window(t, n)
  BY DEF Window, Full
<1>2. \A u \in Window(t, n) : col[u] \in Int
  BY <1>1 DEF Full, Number
<1>. DEFINE f == [u \in Window(t, n) |-> col[u]]
<1>3. IsFiniteSet(Window(t, n))
  <2>1. 1 \in Int /\ t \in Int
    OBVIOUS
  <2>2. IsFiniteSet(1..t)
    BY <2>1, FS_Interval
  <2>. QED
    BY <1>1, <2>2, FS_Subset
<1>4. \A u \in Window(t, n) : f[u] \in Int
  BY <1>2
<1>5. SumFunctionOnSet(f, Window(t, n)) \in Int
  <2>. HIDE DEF f
  <2>. QED
    BY <1>3, <1>4, SumGrows
<1>6. SumFunction(f) = SumFunctionOnSet(f, Window(t, n))
  BY DEF SumFunction, SumFunctionOnSet, FoldFunction
<1>. QED
  BY <1>1, <1>2, <1>5, <1>6 DEF WindowSum

\* Fractions of numbers are scores.
LEMMA FractionScored ==
  ASSUME NEW n \in Int, NEW d \in Int
  PROVE  Scored(Fraction(n, d))
BY DEF Scored, Fraction

\* Columns of a typed tape are typed.
LEMMA ColumnsTyped ==
  ASSUME NEW days, Len(days) \in Nat, DOMAIN days = 1..Len(days), NEW p, Typed(days, p), NEW x \in Tickers
  PROVE  \A t \in 1..Len(days) :
           /\ Number(Closes(days, x)[t]) /\ Number(Column(days, "volume", x)[t])
           /\ \A u \in 1..t : u \in 1..Len(days)
<1>. SUFFICES ASSUME NEW t \in 1..Len(days)
              PROVE  Number(Closes(days, x)[t]) /\ Number(Column(days, "volume", x)[t])
  OBVIOUS
<1>1. days[t].bars[x] # NaN => days[t].bars[x]["close"] \in Int /\ days[t].bars[x]["volume"] \in Int
  BY DEF Typed, Priced
<1>2. /\ Column(days, "close", x)[t] = IF days[t].bars[x] = NaN THEN NaN ELSE days[t].bars[x]["close"]
      /\ Column(days, "volume", x)[t] = IF days[t].bars[x] = NaN THEN NaN ELSE days[t].bars[x]["volume"]
  BY DEF Column
<1>. QED
  BY <1>1, <1>2 DEF Closes, Number

\* What is taken up is scored, and warm: of a pullback,
LEMMA PullbackTyped ==
  ASSUME NEW days, Len(days) \in Nat, DOMAIN days = 1..Len(days), NEW p, Typed(days, p), NEW x \in Tickers,
         NEW t \in 1..Len(days), p.trend \in Nat \ {0}, p.short \in Nat \ {0}, p.days \in Nat \ {0},
         p.short =< p.trend \/ p.short =< p.days + 1
  PROVE  /\ Scored(Pullback(days, t, x, p).score)
         /\ Pullback(days, t, x, p).entry => ~Pullback(days, t, x, p).warm
<1>. DEFINE col == Closes(days, x)
            full == Full(col, t, p.short)
            mean == WindowSum(col, t, p.short)
            dip == \/ DownStreak(col, t, p.days)
                   \/ full /\ 100 * p.short * col[t] =< (100 - p.pct) * mean
            score == IF full THEN Fraction(mean - p.short * col[t], mean) ELSE NaN
            entry == AboveMean(col, t, p.trend) /\ dip
            exit == AboveMean(col, t, p.short)
            warm == ~Full(col, t, p.trend) \/ ~full
<1>1. Pullback(days, t, x, p) = Signal(entry, exit, score, warm)
  BY DEF Pullback
<1>2. \A u \in 1..t : Number(col[u])
  BY ColumnsTyped
<1>3. t \in Nat /\ t >= 1
  OBVIOUS
<1>. HIDE DEF col
<1>4. Scored(score)
  <2>1. CASE full
    <3>1. mean \in Int /\ col[t] \in Int
      BY <1>2, <1>3, <2>1, FullWindow
    <3>. HIDE DEF mean
    <3>2. mean - p.short * col[t] \in Int
      BY <3>1
    <3>. QED
      BY <2>1, <3>1, <3>2, FractionScored
  <2>2. CASE ~full
    BY <2>2 DEF Scored
  <2>. QED
    BY <2>1, <2>2
<1>5. ASSUME entry
      PROVE  ~warm
  <2>1. Full(col, t, p.trend)
    BY <1>5 DEF AboveMean
  <2>2. CASE p.short =< p.trend
    BY <1>3, <2>1, <2>2 DEF Full, Window
  <2>3. CASE p.short =< p.days + 1 /\ DownStreak(col, t, p.days)
    <3>1. \A u \in t - p.days + 1..t : u > 1 /\ col[u] # NaN /\ col[u - 1] # NaN
      BY <2>3 DEF DownStreak
    <3>2. t - p.days + 1 \in t - p.days + 1..t
      BY <1>3
    <3>3. t - p.days + 1 > 1
      BY <3>1, <3>2
    <3>4. ASSUME NEW u \in Window(t, p.short)
          PROVE  col[u] # NaN
      <4>1. u \in 1..t /\ u > t - p.short
        BY DEF Window
      <4>2. CASE u \in t - p.days + 1..t
        BY <3>1, <4>2
      <4>3. CASE u = t - p.days
        <5>1. u = (t - p.days + 1) - 1
          BY <1>3, <4>3
        <5>. QED
          BY <3>1, <3>2, <5>1
      <4>. QED
        BY <1>3, <2>3, <4>1, <4>2, <4>3, SMTT(20)
    <3>5. t >= p.short
      BY <1>3, <2>3, <3>3
    <3>6. full
      BY <3>4, <3>5 DEF Full
    <3>. QED
      BY <2>1, <3>6
  <2>. QED
    BY <1>5, <2>1, <2>2, <2>3
<1>. HIDE DEF entry, exit, score, warm
<1>6. Signal(entry, exit, score, warm).score = score
  BY DEF Signal
<1>7. Signal(entry, exit, score, warm).entry = entry /\ Signal(entry, exit, score, warm).warm = warm
  BY DEF Signal
<1>. QED
  BY <1>1, <1>4, <1>5, <1>6, <1>7

\* also under a regime,
LEMMA RegimeTyped ==
  ASSUME NEW days, NEW t, NEW x, NEW p
  PROVE  /\ RegimePullback(days, t, x, p).score = Pullback(days, t, x, p).score
         /\ RegimePullback(days, t, x, p).warm = Pullback(days, t, x, p).warm
         /\ RegimePullback(days, t, x, p).entry => Pullback(days, t, x, p).entry
         /\ ~RegimeOn(days, t, p) => RegimePullback(days, t, x, p).exit /\ ~RegimePullback(days, t, x, p).entry
<1>1. PICK entry, exit, score, warm :
        Pullback(days, t, x, p) = [entry |-> entry, exit |-> exit, score |-> score, warm |-> warm]
  BY DEF Pullback, Signal
<1>. DEFINE r == RegimePullback(days, t, x, p)
            on == RegimeOn(days, t, p)
<1>2. r.score = score /\ r.warm = warm
  BY <1>1 DEF RegimePullback
<1>3. r.entry = (entry /\ on)
  BY <1>1 DEF RegimePullback
<1>4. r.exit = (exit \/ ~on)
  BY <1>1 DEF RegimePullback
<1>5. /\ Pullback(days, t, x, p).score = score /\ Pullback(days, t, x, p).warm = warm
      /\ Pullback(days, t, x, p).entry = entry
  BY <1>1
<1>. HIDE DEF r, on
<1>. QED
  BY <1>2, <1>3, <1>4, <1>5 DEF r, on

\* of a close low in its range,
LEMMA RangeTyped ==
  ASSUME NEW days, Len(days) \in Nat, DOMAIN days = 1..Len(days), NEW p, Typed(days, p), NEW x \in Tickers,
         NEW t \in 1..Len(days)
  PROVE  /\ Scored(LowRangeClose(days, t, x, p).score)
         /\ LowRangeClose(days, t, x, p).entry => ~LowRangeClose(days, t, x, p).warm
<1>. DEFINE col == Closes(days, x)
            bar == days[t].bars[x]
            flat == bar = NaN \/ bar.high = bar.low
            place == IF flat THEN NaN ELSE Fraction(bar.low - bar.close, bar.high - bar.low)
            entry == /\ AboveMean(col, t, p.trend) /\ ~flat
                     /\ 100 * (bar.close - bar.low) =< p.range * (bar.high - bar.low)
            exit == /\ bar # NaN /\ t > 1 /\ Priced(days, t - 1, x)
                    /\ bar.close > days[t - 1].bars[x].high
            warm == ~Full(col, t, p.trend) \/ flat
<1>1. LowRangeClose(days, t, x, p) = Signal(entry, exit, place, warm)
  BY DEF LowRangeClose
<1>2. bar # NaN => bar.high \in Int /\ bar.low \in Int /\ bar.close \in Int
  BY DEF Typed, Priced
<1>3. Scored(place)
  <2>1. CASE flat
    BY <2>1 DEF Scored
  <2>2. CASE ~flat
    <3>1. bar.low - bar.close \in Int /\ bar.high - bar.low \in Int
      BY <1>2, <2>2
    <3>. QED
      BY <2>2, <3>1, FractionScored
  <2>. QED
    BY <2>1, <2>2
<1>4. entry => ~warm
  BY DEF AboveMean
<1>. HIDE DEF entry, exit, place, warm
<1>5. /\ Signal(entry, exit, place, warm).score = place
      /\ Signal(entry, exit, place, warm).entry = entry /\ Signal(entry, exit, place, warm).warm = warm
  BY DEF Signal
<1>. QED
  BY <1>1, <1>3, <1>4, <1>5

\* of a pullback on a quiet day,
LEMMA QuietTyped ==
  ASSUME NEW days, Len(days) \in Nat, DOMAIN days = 1..Len(days), NEW p, Typed(days, p), NEW x \in Tickers,
         NEW t \in 1..Len(days), p.family = "quiet_pullback", p.window \in Nat \ {0}
  PROVE  /\ Scored(QuietPullback(days, t, x, p).score)
         /\ QuietPullback(days, t, x, p).entry => ~QuietPullback(days, t, x, p).warm
<1>. DEFINE col == Closes(days, x)
            level == IF p.by = "volume" THEN Column(days, "volume", x)
                     ELSE [u \in DOMAIN days |-> Volatility(UpTo(col, u), p.window)]
            known == Full(level, t, p.window)
            usual == WindowSum(level, t, p.window)
            full == Full(col, t, p.short)
            entry == /\ AboveMean(col, t, p.trend) /\ full /\ known
                     /\ p.short * col[t] =< WindowSum(col, t, p.short)
                     /\ 100 * p.window * level[t] =< p.ratio * usual
            exit == AboveMean(col, t, p.short)
            score == IF known THEN Fraction(-p.window * level[t], usual) ELSE NaN
            warm == ~Full(col, t, p.trend) \/ ~full \/ ~known
<1>1. QuietPullback(days, t, x, p) = Signal(entry, exit, score, warm)
  BY DEF QuietPullback
<1>2. \A u \in 1..t : Number(level[u])
  <2>. SUFFICES ASSUME NEW u \in 1..t
                PROVE  Number(level[u])
    OBVIOUS
  <2>1. CASE p.by = "volume"
    <3>1. Number(Column(days, "volume", x)[u])
      BY ColumnsTyped
    <3>. QED
      BY <2>1, <3>1
  <2>2. CASE p.by # "volume"
    <3>1. u \in DOMAIN days
      BY ColumnsTyped
    <3>2. Number(Volatility(UpTo(col, u), p.window))
      BY <3>1 DEF Typed
    <3>3. level[u] = Volatility(UpTo(col, u), p.window)
      BY <2>2, <3>1
    <3>. QED
      BY <3>2, <3>3
  <2>. QED
    BY <2>1, <2>2
<1>3. t \in Nat
  OBVIOUS
<1>. HIDE DEF level
<1>4. Scored(score)
  <2>1. CASE known
    <3>1. usual \in Int /\ level[t] \in Int
      BY <1>2, <1>3, <2>1, FullWindow
    <3>. HIDE DEF usual
    <3>2. -p.window * level[t] \in Int
      BY <3>1
    <3>. QED
      BY <2>1, <3>1, <3>2, FractionScored
  <2>2. CASE ~known
    BY <2>2 DEF Scored
  <2>. QED
    BY <2>1, <2>2
<1>5. entry => ~warm
  BY DEF AboveMean
<1>. HIDE DEF entry, exit, score, warm
<1>6. /\ Signal(entry, exit, score, warm).score = score
      /\ Signal(entry, exit, score, warm).entry = entry /\ Signal(entry, exit, score, warm).warm = warm
  BY DEF Signal
<1>. QED
  BY <1>1, <1>4, <1>5, <1>6

\* and by every family of sleeves.
LEMMA SignalsTyped ==
  ASSUME NEW days, Len(days) \in Nat, DOMAIN days = 1..Len(days), NEW p, SleeveRule(p), Typed(days, p)
  PROVE  \A t \in 1..Len(days), x \in Tickers :
           /\ Scored(Signals(days, t, x, p).score)
           /\ Signals(days, t, x, p).entry => ~Signals(days, t, x, p).warm
<1>. SUFFICES ASSUME NEW t \in 1..Len(days), NEW x \in Tickers
              PROVE  /\ Scored(Signals(days, t, x, p).score)
                     /\ Signals(days, t, x, p).entry => ~Signals(days, t, x, p).warm
  OBVIOUS
<1>0. p.family \in {"trend_pullback", "regime_pullback"} =>
        /\ p.trend \in Nat \ {0} /\ p.short \in Nat \ {0} /\ p.days \in Nat \ {0}
        /\ p.short =< p.trend \/ p.short =< p.days + 1
  BY DEF SleeveRule
<1>1. CASE p.family \in {"trend_pullback", "regime_pullback"}
  <2>1. /\ Scored(Pullback(days, t, x, p).score)
        /\ Pullback(days, t, x, p).entry => ~Pullback(days, t, x, p).warm
    BY <1>0, <1>1, PullbackTyped
  <2>2. CASE p.family = "trend_pullback"
    <3>1. Signals(days, t, x, p) = Pullback(days, t, x, p)
      BY <2>2 DEF Signals
    <3>. QED
      BY <2>1, <3>1
  <2>3. CASE p.family = "regime_pullback"
    <3>1. Signals(days, t, x, p) = RegimePullback(days, t, x, p)
      BY <2>3 DEF Signals
    <3>. QED
      BY <2>1, <3>1, RegimeTyped
  <2>. QED
    BY <1>1, <2>2, <2>3
<1>2. CASE p.family = "low_range_close"
  <2>1. Signals(days, t, x, p) = LowRangeClose(days, t, x, p)
    BY <1>2 DEF Signals
  <2>. QED
    BY <2>1, RangeTyped
<1>3. CASE p.family = "quiet_pullback"
  <2>1. Signals(days, t, x, p) = QuietPullback(days, t, x, p)
    BY <1>3 DEF Signals
  <2>2. p.window \in Nat \ {0}
    BY <1>3 DEF SleeveRule
  <2>. QED
    BY <1>3, <2>1, <2>2, QuietTyped
<1>. QED
  BY <1>1, <1>2, <1>3 DEF SleeveRule, SleeveFamilies

\* A book of a day: no more tickers than slots, each since a day that was not
\* before its signal was warm.
InSlots(book, days, t, p) ==
  /\ DOMAIN book \subseteq Tickers /\ Cardinality(DOMAIN book) =< p.slots
  /\ \A x \in DOMAIN book : book[x] \in 1..t /\ ~Signals(days, book[x], x, p).warm

\* What was kept of a book the day before.
KeptFrom(old, days, t, p) ==
  {x \in DOMAIN old : ~Signals(days, t, x, p).exit /\ t - old[x] < p.exitDays}

\* A day's book keeps all of that, and adds what is new.
LEMMA BookGrows ==
  ASSUME NEW days, Len(days) \in Nat, DOMAIN days = 1..Len(days), NEW p, SleeveRule(p), Typed(days, p),
         NEW t \in 1..Len(days), NEW old, InSlots(old, days, t - 1, p)
  PROVE  LET new == NextBook(old, SignalsOn(days, t, p), t, p)
         IN  /\ InSlots(new, days, t, p)
             /\ KeptFrom(old, days, t, p) \subseteq DOMAIN new
             /\ \A x \in DOMAIN new :
                  \/ x \in KeptFrom(old, days, t, p) /\ new[x] = old[x]
                  \/ Signals(days, t, x, p).entry /\ new[x] = t
<1>. DEFINE sig == SignalsOn(days, t, p)
            kept == KeptFrom(old, days, t, p)
            wanting == {x \in Tickers \ kept : sig[x].entry}
            score == [x \in Tickers |-> sig[x].score]
            free == p.slots - Cardinality(kept)
            fresh == Best(wanting, score, free)
            new == NextBook(old, sig, t, p)
<1>1. \A x \in Tickers : sig[x] = Signals(days, t, x, p)
  BY DEF SignalsOn
<1>2. DOMAIN old \subseteq Tickers /\ Cardinality(DOMAIN old) =< p.slots
  BY DEF InSlots
<1>3. {x \in DOMAIN old : ~sig[x].exit /\ t - old[x] < p.exitDays} = kept
  BY <1>1, <1>2 DEF KeptFrom
<1>4. new = [x \in kept \cup fresh |-> IF x \in kept THEN old[x] ELSE t]
  <2>1. new = [x \in FillSlots(kept, wanting, score, p.slots) |-> IF x \in kept THEN old[x] ELSE t]
    BY <1>3 DEF NextBook
  <2>. QED
    BY <2>1 DEF FillSlots
<1>. HIDE DEF new, sig
<1>5. /\ IsFiniteSet(DOMAIN old) /\ kept \subseteq DOMAIN old
      /\ IsFiniteSet(kept) /\ Cardinality(kept) \in Nat /\ Cardinality(kept) =< Cardinality(DOMAIN old)
      /\ Cardinality(DOMAIN old) \in Nat
  <2>1. IsFiniteSet(DOMAIN old)
    BY <1>2, FS_Subset, TickersAssumption
  <2>2. kept \subseteq DOMAIN old
    BY DEF KeptFrom
  <2>. QED
    BY <2>1, <2>2, FS_Subset, FS_CardinalityType
<1>6. p.slots \in Nat
  BY FramesAssumption DEF SleeveRule
<1>7. free \in Nat
  BY <1>2, <1>5, <1>6
<1>8. wanting \in SUBSET Tickers /\ wanting \in SUBSET Int /\ IsFiniteSet(wanting)
  <2>1. wanting \in SUBSET Tickers
    OBVIOUS
  <2>. HIDE DEF wanting
  <2>. QED
    BY <2>1, FS_Subset, TickersAssumption
<1>9. \A x \in wanting : Scored(score[x])
  BY <1>1, SignalsTyped
<1>. HIDE DEF free, wanting, score, kept
<1>10. fresh \subseteq wanting /\ IsFiniteSet(fresh) /\ Cardinality(fresh) \in 0..free
  BY <1>7, <1>8, <1>9, BestFits
<1>. HIDE DEF fresh
<1>11. Cardinality(kept \cup fresh) =< p.slots
  <2>1. Cardinality(kept \cup fresh) = Cardinality(kept) + Cardinality(fresh) - Cardinality(kept \cap fresh)
    BY <1>5, <1>10, FS_Union
  <2>2. Cardinality(kept \cap fresh) \in Nat
    BY <1>5, FS_Subset, FS_CardinalityType
  <2>. QED
    BY <1>5, <1>6, <1>7, <1>10, <2>1, <2>2 DEF free
<1>12. DOMAIN new = kept \cup fresh /\ \A x \in kept \cup fresh : new[x] = IF x \in kept THEN old[x] ELSE t
  BY <1>4
<1>13. ASSUME NEW x \in kept \cup fresh
       PROVE  /\ x \in Tickers /\ new[x] \in 1..t /\ ~Signals(days, new[x], x, p).warm
              /\ \/ x \in KeptFrom(old, days, t, p) /\ new[x] = old[x]
                 \/ Signals(days, t, x, p).entry /\ new[x] = t
  <2>1. CASE x \in kept
    <3>1. new[x] = old[x] /\ x \in DOMAIN old
      BY <1>5, <1>12, <2>1
    <3>2. old[x] \in 1..t - 1 /\ ~Signals(days, old[x], x, p).warm
      BY <3>1 DEF InSlots
    <3>. QED
      BY <1>2, <2>1, <3>1, <3>2 DEF kept
  <2>2. CASE x \notin kept
    <3>1. x \in wanting /\ new[x] = t
      BY <1>10, <1>12, <2>2
    <3>2. x \in Tickers /\ Signals(days, t, x, p).entry
      BY <1>1, <3>1 DEF wanting
    <3>3. ~Signals(days, t, x, p).warm
      BY <3>2, SignalsTyped
    <3>4. t \in 1..t
      OBVIOUS
    <3>. QED
      BY <3>1, <3>2, <3>3, <3>4
  <2>. QED
    BY <2>1, <2>2
<1>14. InSlots(new, days, t, p)
  BY <1>11, <1>12, <1>13 DEF InSlots
<1>15. KeptFrom(old, days, t, p) \subseteq DOMAIN new
  BY <1>12 DEF kept
<1>. QED
  BY <1>12, <1>13, <1>14, <1>15 DEF new, sig

\* So every book of a sleeve fits its slots, and holds each name from the day
\* since which it has it.
LEMMA BooksInSlots ==
  ASSUME NEW days, Len(days) \in Nat, DOMAIN days = 1..Len(days), NEW p, SleeveRule(p), Typed(days, p)
  PROVE  \A t \in 0..Len(days) :
           /\ InSlots(Book(days, p)[t], days, t, p)
           /\ \A x \in DOMAIN Book(days, p)[t] : \A u \in Book(days, p)[t][x]..t : x \in DOMAIN Book(days, p)[u]
<1>. DEFINE book == Book(days, p)
            good(t) == /\ InSlots(book[t], days, t, p)
                       /\ \A x \in DOMAIN book[t] : \A u \in book[t][x]..t : x \in DOMAIN book[u]
            T == {n \in Nat : n =< Len(days) => good(n)}
<1>1. BooksUpTo(book, Len(days), days, p)
  BY BookSteps
<1>. HIDE DEF book
<1>2. 0 \in T
  <2>1. book[0] = <<>>
    BY <1>1 DEF BooksUpTo
  <2>2. DOMAIN book[0] = {}
    BY <2>1
  <2>3. Cardinality({}) = 0 /\ p.slots \in Nat
    BY FS_EmptySet, FramesAssumption DEF SleeveRule
  <2>4. InSlots(book[0], days, 0, p)
    BY <2>2, <2>3 DEF InSlots
  <2>. QED
    BY <2>2, <2>4
<1>3. ASSUME NEW n \in T
      PROVE  n + 1 \in T
  <2>. SUFFICES ASSUME n + 1 =< Len(days)
                PROVE  good(n + 1)
    OBVIOUS
  <2>1. n \in Nat /\ n + 1 \in 1..Len(days) /\ (n + 1) - 1 = n /\ good(n)
    OBVIOUS
  <2>2. book[n + 1] = NextBook(book[n], SignalsOn(days, n + 1, p), n + 1, p)
    <3>1. \A t \in 1..Len(days) : book[t] = NextBook(book[t - 1], SignalsOn(days, t, p), t, p)
      BY <1>1 DEF BooksUpTo
    <3>2. book[n + 1] = NextBook(book[(n + 1) - 1], SignalsOn(days, n + 1, p), n + 1, p)
      BY <2>1, <3>1
    <3>. QED
      BY <2>1, <3>2
  <2>. DEFINE s == n + 1
  <2>3. s \in 1..Len(days) /\ InSlots(book[n], days, s - 1, p)
    BY <2>1
  <2>4. \A t \in 1..Len(days) : \A old : InSlots(old, days, t - 1, p) =>
          LET new == NextBook(old, SignalsOn(days, t, p), t, p)
          IN  /\ InSlots(new, days, t, p)
              /\ \A x \in DOMAIN new :
                   \/ x \in KeptFrom(old, days, t, p) /\ new[x] = old[x]
                   \/ Signals(days, t, x, p).entry /\ new[x] = t
    BY BookGrows
  <2>5. /\ InSlots(book[s], days, s, p)
        /\ \A x \in DOMAIN book[s] :
             \/ x \in KeptFrom(book[n], days, s, p) /\ book[s][x] = book[n][x]
             \/ Signals(days, s, x, p).entry /\ book[s][x] = s
    BY <2>2, <2>3, <2>4
  <2>6. ASSUME NEW x \in DOMAIN book[s], NEW u \in book[s][x]..s
        PROVE  x \in DOMAIN book[u]
    <3>1. CASE u = s
      BY <3>1
    <3>2. CASE u # s
      <4>1. book[s][x] \in 1..s
        BY <2>5 DEF InSlots
      <4>2. book[s][x] # s
        BY <2>1, <3>2, <4>1
      <4>3. x \in KeptFrom(book[n], days, s, p) /\ book[s][x] = book[n][x]
        BY <2>5, <4>2
      <4>4. x \in DOMAIN book[n]
        BY <4>3 DEF KeptFrom
      <4>5. u \in book[n][x]..n
        BY <2>1, <3>2, <4>1, <4>3
      <4>. QED
        BY <2>1, <4>4, <4>5
    <3>. QED
      BY <3>1, <3>2
  <2>. QED
    BY <2>5, <2>6
<1>. HIDE DEF T
<1>4. \A n \in Nat : n \in T
  <2>1. T \in SUBSET Nat
    BY DEF T
  <2>. QED
    BY <1>2, <1>3, <2>1, SetInduction
<1>. QED
  BY <1>4 DEF T, book

\* The weights of a sleeve are the book's, once its first signal is warm.
Leading(days, t, p) == \A u \in 1..t, x \in Tickers : Signals(days, u, x, p).warm

\* There the weights are those of the book, or the day is in the warm-up.
LEMMA HeldIsBook ==
  ASSUME NEW days, Len(days) \in Nat, DOMAIN days = 1..Len(days), NEW p, SleeveRule(p), Typed(days, p)
  PROVE  \A t \in 1..Len(days) :
           HeldOn(SleeveWeights(days, p), t) =
             IF Leading(days, t, p) THEN {} ELSE DOMAIN Book(days, p)[t]
<1>. SUFFICES ASSUME NEW t \in 1..Len(days)
              PROVE  HeldOn(SleeveWeights(days, p), t) =
                       IF Leading(days, t, p) THEN {} ELSE DOMAIN Book(days, p)[t]
  OBVIOUS
<1>. DEFINE w == SleeveWeights(days, p)
            book == Book(days, p)
            D == DOMAIN book[t]
            row == [x \in Tickers |-> EqualSplit(D, Unit, x)]
<1>1. w[t] = IF Leading(days, t, p) THEN NaN ELSE row
  BY DEF SleeveWeights, InLeadingRun, Leading
<1>2. InSlots(book[t], days, t, p)
  BY BooksInSlots
<1>3. D \subseteq Tickers /\ Cardinality(D) =< p.slots
  BY <1>2 DEF InSlots
<1>4. p.slots \in 1..Unit /\ Unit \in Nat \ {0}
  BY FramesAssumption DEF SleeveRule
<1>. HIDE DEF w, D
<1>5. D # {} => Unit \div Cardinality(D) \in Nat \ {0}
  <2>. SUFFICES ASSUME D # {}
                PROVE  Unit \div Cardinality(D) \in Nat \ {0}
    OBVIOUS
  <2>1. IsFiniteSet(D)
    BY <1>3, FS_Subset, TickersAssumption
  <2>2. Cardinality(D) \in Nat /\ Cardinality(D) # 0
    BY <2>1, FS_CardinalityType, FS_EmptySet
  <2>. DEFINE c == Cardinality(D)
  <2>3. c \in 1..Unit
    BY <1>3, <1>4, <2>2
  <2>. HIDE DEF c
  <2>4. Unit \div c \in Nat
    BY <1>4, <2>3
  <2>5. Unit \div c # 0
    BY <1>4, <2>3
  <2>. QED
    BY <2>4, <2>5 DEF c
<1>6. \A x \in Tickers : row[x] \in Int /\ (row[x] > 0 <=> x \in D)
  BY <1>5 DEF EqualSplit
<1>7. row \in [Tickers -> Int]
  BY <1>6
<1>8. row # NaN
  <2>. HIDE DEF row
  <2>. QED
    BY <1>7, TickersAssumption
<1>. HIDE DEF row
<1>9. CASE Leading(days, t, p)
  BY <1>1, <1>9 DEF HeldOn, w
<1>10. CASE ~Leading(days, t, p)
  <2>1. w[t] = row /\ w[t] # NaN /\ ~(t < 1)
    BY <1>1, <1>8, <1>10
  <2>2. HeldOn(w, t) = {x \in Tickers : row[x] > 0}
    BY <2>1 DEF HeldOn
  <2>3. {x \in Tickers : row[x] > 0} = D
    BY <1>3, <1>6
  <2>. QED
    BY <1>10, <2>2, <2>3 DEF w, D
<1>. QED
  BY <1>9, <1>10

\* Once a name is held, the sleeve is no longer warming up.
LEMMA WarmSince ==
  ASSUME NEW days, Len(days) \in Nat, DOMAIN days = 1..Len(days), NEW p, SleeveRule(p), Typed(days, p),
         NEW t \in 1..Len(days), NEW x \in DOMAIN Book(days, p)[t]
  PROVE  LET e == Book(days, p)[t][x]
         IN  e \in 1..t /\ \A u \in e..t : x \in HeldOn(SleeveWeights(days, p), u)
<1>. DEFINE book == Book(days, p)
            e == book[t][x]
<1>1. /\ InSlots(book[t], days, t, p)
      /\ \A u \in e..t : x \in DOMAIN book[u]
  BY BooksInSlots
<1>2. e \in 1..t /\ ~Signals(days, e, x, p).warm /\ x \in Tickers
  BY <1>1 DEF InSlots
<1>. HIDE DEF e, book
<1>3. ASSUME NEW u \in e..t
      PROVE  x \in HeldOn(SleeveWeights(days, p), u)
  <2>1. u \in 1..Len(days) /\ e \in 1..u
    BY <1>2
  <2>2. ~Leading(days, u, p)
    BY <1>2, <2>1 DEF Leading
  <2>3. HeldOn(SleeveWeights(days, p), u) = DOMAIN Book(days, p)[u]
    BY <2>1, <2>2, HeldIsBook
  <2>. QED
    BY <1>1, <2>3 DEF book
<1>. QED
  BY <1>2, <1>3 DEF e, book

\* The latest day on which a name seems to be taken is not after the one since
\* which the book has it.
LEMMA TakenBefore ==
  ASSUME NEW w, NEW t \in Nat, NEW x \in HeldOn(w, t), NEW e \in 1..t, \A u \in e..t : x \in HeldOn(w, u)
  PROVE  TakenOn(w, t, x) \in 1..e
<1>. DEFINE days == {u \in 1..t : x \in HeldOn(w, u)}
            taken == {u \in 1..t : x \in HeldOn(w, u) \ HeldOn(w, u - 1)}
<1>1. days \in SUBSET Nat /\ t \in days
  BY DEF HeldOn
<1>2. Min(days) \in days /\ \A u \in days : Min(days) =< u
  <2>. HIDE DEF days
  <2>. QED
    BY <1>1, FirstDay
<1>. DEFINE m == Min(days)
<1>3. m \in 1..t /\ x \in HeldOn(w, m)
  BY <1>2
<1>4. x \notin HeldOn(w, m - 1)
  <2>1. CASE m = 1
    BY <2>1 DEF HeldOn
  <2>2. CASE m # 1
    <3>1. m - 1 \in 1..t /\ ~(m =< m - 1)
      BY <1>3, <2>2
    <3>. HIDE DEF m
    <3>2. m - 1 \notin days
      BY <1>2, <3>1 DEF m
    <3>. QED
      BY <3>1, <3>2
  <2>. QED
    BY <2>1, <2>2
<1>5. taken # {}
  <2>. HIDE DEF m
  <2>. QED
    BY <1>3, <1>4
<1>6. taken \in SUBSET (1..t)
  OBVIOUS
<1>7. ASSUME NEW u \in taken
      PROVE  u =< e
  <2>. SUFFICES ASSUME ~(u =< e)
                PROVE  FALSE
    OBVIOUS
  <2>1. u - 1 \in e..t
    OBVIOUS
  <2>. QED
    BY <2>1
<1>8. Max(taken) \in taken
  <2>. HIDE DEF taken
  <2>. QED
    BY <1>5, <1>6, LastDay
<1>9. TakenOn(w, t, x) = Max(taken)
  BY DEF TakenOn
<1>. QED
  BY <1>6, <1>7, <1>8, <1>9

\* A sleeve on a typed tape keeps what it holds until there is a reason.
LEMMA SleeveKeeps ==
  ASSUME NEW days, Len(days) \in Nat, DOMAIN days = 1..Len(days), NEW p, SleeveRule(p), Typed(days, p)
  PROVE  \A t \in 1..Len(days) :
           LET w == SleeveWeights(days, p)
           IN  /\ Cardinality(HeldOn(w, t)) =< p.slots
               /\ p.family = "regime_pullback" /\ ~RegimeOn(days, t, p) => HeldOn(w, t) = {}
               /\ \A x \in HeldOn(w, t - 1) \ HeldOn(w, t) :
                    \/ Signals(days, t, x, p).exit
                    \/ t - TakenOn(w, t - 1, x) >= p.exitDays
<1>. SUFFICES ASSUME NEW t \in 1..Len(days)
              PROVE  LET w == SleeveWeights(days, p)
                     IN  /\ Cardinality(HeldOn(w, t)) =< p.slots
                         /\ p.family = "regime_pullback" /\ ~RegimeOn(days, t, p) => HeldOn(w, t) = {}
                         /\ \A x \in HeldOn(w, t - 1) \ HeldOn(w, t) :
                              \/ Signals(days, t, x, p).exit
                              \/ t - TakenOn(w, t - 1, x) >= p.exitDays
  OBVIOUS
<1>. DEFINE w == SleeveWeights(days, p)
            book == Book(days, p)
<1>1. \A u \in 1..Len(days) : HeldOn(w, u) = IF Leading(days, u, p) THEN {} ELSE DOMAIN book[u]
  BY HeldIsBook
<1>2. \A u \in 0..Len(days) : InSlots(book[u], days, u, p)
  BY BooksInSlots
<1>3. book[t] = NextBook(book[t - 1], SignalsOn(days, t, p), t, p)
  BY BookSteps DEF BooksUpTo
<1>4. /\ KeptFrom(book[t - 1], days, t, p) \subseteq DOMAIN book[t]
      /\ \A x \in DOMAIN book[t] :
           x \in KeptFrom(book[t - 1], days, t, p) \/ Signals(days, t, x, p).entry
  <2>1. InSlots(book[t - 1], days, t - 1, p)
    <3>1. t - 1 \in 0..Len(days)
      OBVIOUS
    <3>. QED
      BY <1>2, <3>1
  <2>. HIDE DEF book
  <2>2. LET new == NextBook(book[t - 1], SignalsOn(days, t, p), t, p)
        IN  /\ KeptFrom(book[t - 1], days, t, p) \subseteq DOMAIN new
            /\ \A x \in DOMAIN new :
                 x \in KeptFrom(book[t - 1], days, t, p) \/ Signals(days, t, x, p).entry
    BY <2>1, BookGrows
  <2>. QED
    BY <1>3, <2>2
<1>5. \A x \in DOMAIN book[t - 1] : book[t - 1][x] \in 1..t - 1 /\ x \in Tickers
  <2>1. t - 1 \in 0..Len(days)
    OBVIOUS
  <2>. QED
    BY <1>2, <2>1 DEF InSlots
<1>6. p.slots \in Nat /\ p.exitDays \in Int
  BY FramesAssumption DEF SleeveRule
<1>7. Cardinality(HeldOn(w, t)) =< p.slots
  <2>1. Cardinality(DOMAIN book[t]) =< p.slots
    BY <1>2 DEF InSlots
  <2>2. Cardinality({}) = 0
    BY FS_EmptySet
  <2>3. HeldOn(w, t) = {} \/ HeldOn(w, t) = DOMAIN book[t]
    BY <1>1
  <2>4. CASE HeldOn(w, t) = {}
    <3>1. Cardinality(HeldOn(w, t)) = 0
      BY <2>2, <2>4, Zenon
    <3>. QED
      BY <1>6, <3>1
  <2>5. CASE HeldOn(w, t) = DOMAIN book[t]
    BY <2>1, <2>5, Zenon
  <2>. QED
    BY <2>3, <2>4, <2>5
<1>8. ASSUME p.family = "regime_pullback", ~RegimeOn(days, t, p)
      PROVE  HeldOn(w, t) = {}
  <2>1. \A x : Signals(days, t, x, p) = RegimePullback(days, t, x, p)
    BY <1>8 DEF Signals
  <2>2. \A x : Signals(days, t, x, p).exit /\ ~Signals(days, t, x, p).entry
    BY <1>8, <2>1, RegimeTyped
  <2>3. DOMAIN book[t] = {}
    BY <1>4, <2>2 DEF KeptFrom
  <2>. HIDE DEF w, book
  <2>. QED
    BY <1>1, <2>3
<1>9. ASSUME NEW x \in HeldOn(w, t - 1) \ HeldOn(w, t)
      PROVE  \/ Signals(days, t, x, p).exit
             \/ t - TakenOn(w, t - 1, x) >= p.exitDays
  <2>1. t - 1 \in 1..Len(days)
    <3>1. t - 1 # 0
      BY <1>9 DEF HeldOn
    <3>. QED
      BY <3>1
  <2>. DEFINE v == t - 1
  <2>2. x \in HeldOn(w, v) /\ v \in 1..Len(days) /\ t = v + 1
    BY <2>1
  <2>. HIDE DEF w, book
  <2>3. x \in DOMAIN book[v] /\ ~Leading(days, v, p)
    BY <1>1, <2>2
  <2>4. ~Leading(days, t, p)
    BY <2>2, <2>3 DEF Leading
  <2>5. x \notin DOMAIN book[t]
    BY <1>1, <2>4
  <2>. DEFINE e == book[v][x]
  <2>6. e \in 1..v /\ \A u \in e..v : x \in HeldOn(w, u)
    BY <2>2, <2>3, WarmSince DEF w, book
  <2>. HIDE DEF e
  <2>7. TakenOn(w, v, x) \in 1..e
    <3>1. v \in Nat
      BY <2>2
    <3>. HIDE DEF v
    <3>. QED
      BY <2>2, <2>6, <3>1, TakenBefore
  <2>8. Signals(days, t, x, p).exit \/ ~(t - e < p.exitDays)
    BY <1>4, <2>3, <2>5 DEF KeptFrom, e
  <2>9. ~(t - e < p.exitDays) => t - TakenOn(w, v, x) >= p.exitDays
    BY <1>6, <2>2, <2>6, <2>7
  <2>. QED
    BY <2>8, <2>9
<1>. QED
  BY <1>7, <1>8, <1>9

\* Whatever the days bring, however many tickers there are and whatever their
\* ranks are: a held name leaves a sleeve by its own exit, by a regime that is
\* off or by its age, and never for a stronger candidate, a missing price or a
\* neighbour's warm-up, and there are never more names than slots
\* (_cross_section.build_weights).
THEOREM KeptUntilExitHolds == Spec /\ []PricesTyped => KeptUntilExit
<1>1. IsTape /\ subject \in Subjects /\ PricesTyped
        => [IsSleeve =>
              LET w == Weights(tape, subject.rule)
              IN  \A t \in DOMAIN tape :
                    /\ Cardinality(HeldOn(w, t)) =< subject.rule.slots
                    /\ RegimeOff(t) => HeldOn(w, t) = {}
                    /\ \A x \in HeldOn(w, t - 1) \ HeldOn(w, t) :
                         \/ Signals(tape, t, x, subject.rule).exit
                         \/ t - TakenOn(w, t - 1, x) >= subject.rule.exitDays]_vars
  <2>. SUFFICES ASSUME IsTape, subject \in Subjects, PricesTyped, IsSleeve
                PROVE  LET w == Weights(tape, subject.rule)
                       IN  \A t \in DOMAIN tape :
                             /\ Cardinality(HeldOn(w, t)) =< subject.rule.slots
                             /\ RegimeOff(t) => HeldOn(w, t) = {}
                             /\ \A x \in HeldOn(w, t - 1) \ HeldOn(w, t) :
                                  \/ Signals(tape, t, x, subject.rule).exit
                                  \/ t - TakenOn(w, t - 1, x) >= subject.rule.exitDays
    OBVIOUS
  <2>. DEFINE p == subject.rule
  <2>1. SleeveRule(p) /\ p.family \in SleeveFamilies
    BY RuleAssumption DEF RuleFits, IsSleeve, Kind
  <2>2. Typed(tape, p)
    BY DEF PricesTyped
  <2>3. Len(tape) \in Nat /\ DOMAIN tape = 1..Len(tape)
    BY TapeDays
  <2>4. Weights(tape, p) = SleeveWeights(tape, p)
    BY <2>1 DEF Weights, SleeveFamilies
  <2>5. \A t : RegimeOff(t) => p.family = "regime_pullback" /\ ~RegimeOn(tape, t, p)
    BY DEF RegimeOff
  <2>. HIDE DEF p
  <2>6. \A t \in 1..Len(tape) :
          LET w == SleeveWeights(tape, p)
          IN  /\ Cardinality(HeldOn(w, t)) =< p.slots
              /\ p.family = "regime_pullback" /\ ~RegimeOn(tape, t, p) => HeldOn(w, t) = {}
              /\ \A x \in HeldOn(w, t - 1) \ HeldOn(w, t) :
                   \/ Signals(tape, t, x, p).exit
                   \/ t - TakenOn(w, t - 1, x) >= p.exitDays
    BY <2>1, <2>2, <2>3, SleeveKeeps
  <2>. QED
    BY <2>3, <2>4, <2>5, <2>6 DEF p
<1>. QED
  BY <1>1, TapeStays, SubjectStays, PTL DEF KeptUntilExit

-----------------------------------------------------------------------------
(* Books that are neither short nor above their capital.                   *)

\* What rules read of days that is not a price: members are finitely many,
\* and scores are fractions.
RuleReads(days, p) ==
  /\ p.family = "null" => \A t \in DOMAIN days : IsFiniteSet(days[t].member)
  /\ p.family = "factor" => \A t \in DOMAIN days, x \in Tickers : Scored(days[t].score[x])

\* What a grade reads of a tape, if it can be held.
GradeReads(days, p) ==
  /\ RuleReads(days, p.rule) /\ RuleReads(days, p.core)
  /\ p.null # NaN => \A t \in DOMAIN days : IsFiniteSet(days[t].member)

\* A day brings such things for each kind of study, and candidates of a walk
\* that want a part of their capital.
DaysFit ==
  /\ Kind("strategy") => RuleReads(tape, subject.rule)
  /\ Kind("candidate") => GradeReads(tape, subject)
  /\ Kind("factor") => CompaniesFit(tape)
  /\ Kind("walk") => \A t \in DOMAIN tape, c \in subject.candidates : tape[t].hold[c] \in 0..Unit \cup {NaN}

\* A row that invests at most an amount.
RowFits(row, amount) ==
  IsFiniteSet(DOMAIN row) /\ (\A x \in DOMAIN row : row[x] \in Nat) /\ SumFunction(row) =< amount

\* All of the capital in one ticker, or nothing, is a mix.
LEMMA WholeFits == MixFits(<<>>) /\ \A x : MixFits(Whole(x))
<1>1. MixFits(<<>>)
  <2>1. DOMAIN <<>> = {} /\ IsFiniteSet({})
    BY FS_EmptySet
  <2>2. SumFunction(<<>>) = SumFunctionOnSet(<<>>, DOMAIN <<>>)
    BY SumOfFunction
  <2>3. SumFunctionOnSet(<<>>, {}) = 0
    BY SumOfNone
  <2>. QED
    BY <2>1, <2>2, <2>3, FramesAssumption DEF MixFits
<1>2. ASSUME NEW x
      PROVE  MixFits(Whole(x))
  <2>. DEFINE row == Whole(x)
  <2>1. DOMAIN row = {x} /\ row[x] = Unit
    BY DEF Whole
  <2>2. IsFiniteSet({x}) /\ IsFiniteSet({}) /\ {x} \ {x} = {}
    BY FS_EmptySet, FS_Singleton
  <2>. HIDE DEF row
  <2>3. SumFunctionOnSet(row, {x}) = row[x] + SumFunctionOnSet(row, {x} \ {x})
    BY <2>1, <2>2, SumOfOneMore, FramesAssumption
  <2>4. SumFunctionOnSet(row, {x} \ {x}) = 0
    BY <2>2, SumOfNone
  <2>5. SumFunction(row) = SumFunctionOnSet(row, {x})
    <3>1. SumFunction(row) = SumFunctionOnSet(row, DOMAIN row) /\ DOMAIN row = {x}
      BY <2>1, SumOfFunction
    <3>. QED
      BY <3>1, Zenon
  <2>6. SumFunction(row) =< Unit
    BY <2>1, <2>3, <2>4, <2>5, FramesAssumption
  <2>7. IsFiniteSet(DOMAIN row)
    BY <2>1, <2>2, Zenon
  <2>8. \A y \in DOMAIN row : row[y] \in Nat
    BY <2>1, FramesAssumption
  <2>9. MixFits(row)
    BY <2>6, <2>7, <2>8 DEF MixFits
  <2>. QED
    BY <2>9 DEF row
<1>. QED
  BY <1>1, <1>2

\* What holds one mix or the other holds a mix.
LEMMA MixRow ==
  ASSUME NEW on, NEW off, MixFits(on), MixFits(off), NEW above
  PROVE  MixFits(Mix(on, off, above))
<1>. DEFINE row == Mix(on, off, above)
            D == DOMAIN on \cup DOMAIN off
            S == IF above THEN DOMAIN on ELSE DOMAIN off
            mix == IF above THEN on ELSE off
<1>1. DOMAIN row = D /\ IsFiniteSet(D) /\ IsFiniteSet(S) /\ S \in SUBSET D
  BY FS_Union DEF Mix, MixFits
<1>2. \A x \in D : row[x] = IF x \in S THEN mix[x] ELSE 0
  BY DEF Mix, MixFits
<1>3. MixFits(mix) /\ DOMAIN mix = S
  OBVIOUS
<1>. HIDE DEF row, D, S, mix
<1>4. \A x \in D : row[x] \in Nat
  BY <1>2, <1>3 DEF MixFits
<1>5. SumFunctionOnSet(row, D) = SumFunctionOnSet(row, S)
  BY <1>1, <1>2, <1>4, SumWithoutZeros
<1>6. SumFunctionOnSet(row, S) = SumFunctionOnSet(mix, S)
  BY <1>1, <1>2, SameSum
<1>7. SumFunction(mix) = SumFunctionOnSet(mix, S) /\ SumFunction(row) = SumFunctionOnSet(row, D)
  BY <1>1, <1>3, SumOfFunction
<1>8. MixFits(row)
  BY <1>1, <1>3, <1>4, <1>5, <1>6, <1>7 DEF MixFits
<1>. QED
  BY <1>8 DEF row

\* So does a core on every day.
LEMMA CoreFits ==
  ASSUME NEW days, NEW p, MixFits(p.on), MixFits(p.off)
  PROVE  \A t \in DOMAIN days : CoreMix(days, p)[t] # NaN => RowFits(CoreMix(days, p)[t], Unit)
<1>. SUFFICES ASSUME NEW t \in DOMAIN days, CoreMix(days, p)[t] # NaN
              PROVE  MixFits(CoreMix(days, p)[t])
  BY DEF MixFits, RowFits
<1>1. \E above : CoreMix(days, p)[t] = Mix(p.on, p.off, above)
  <2>. HIDE DEF Mix, Full, AboveMean, Closes
  <2>. QED
    BY DEF CoreMix
<1>. QED
  BY <1>1, MixRow

\* An equal split among whatever is held.
LEMMA SplitRow ==
  ASSUME NEW U, IsFiniteSet(U), NEW S, IsFiniteSet(S), NEW amount \in Nat
  PROVE  RowFits([x \in U |-> EqualSplit(S, amount, x)], amount)
BY SplitFits DEF RowFits

\* Factor weights: a part for each of as many as are held at most.
LEMMA FactorFits ==
  ASSUME NEW days, Len(days) \in Nat, DOMAIN days = 1..Len(days), NEW p, p.hold \in Nat \ {0},
         \A t \in DOMAIN days, x \in Tickers : Scored(days[t].score[x])
  PROVE  \A t \in DOMAIN days : FactorWeights(days, p)[t] # NaN => RowFits(FactorWeights(days, p)[t], Unit)
<1>. SUFFICES ASSUME NEW t \in DOMAIN days, FactorWeights(days, p)[t] # NaN
              PROVE  RowFits(FactorWeights(days, p)[t], Unit)
  OBVIOUS
<1>. DEFINE last == LastFlag(days, t, p)
            S == IF p.filter => days[t].trend THEN Selected(days, last, p) ELSE {}
            c == Unit \div p.hold
            row == [x \in Tickers |-> IF x \in S THEN c ELSE 0]
<1>1. last # 0 /\ FactorWeights(days, p)[t] = row
  BY DEF FactorWeights
<1>2. last \in DOMAIN days
  <2>. DEFINE flags == {u \in 1..t : Flag(days, u, p)}
  <2>1. last = IF flags = {} THEN 0 ELSE Max(flags)
    BY DEF LastFlag
  <2>2. t \in Nat /\ flags \in SUBSET (1..t) /\ flags # {}
    BY <1>1, <2>1
  <2>. HIDE DEF flags, last
  <2>3. Max(flags) \in flags
    BY <2>2, LastDay
  <2>4. last \in 1..t
    BY <2>1, <2>2, <2>3
  <2>. QED
    BY <2>4
<1>. HIDE DEF last
<1>3. IsFiniteSet(S) /\ S \in SUBSET Tickers /\ Cardinality(S) \in 0..p.hold
  <2>. DEFINE day == days[last]
              eligible == {x \in Tickers : x \in day.member /\ Priced(days, last, x) /\ day.score[x] # NaN}
              best == Best(eligible, day.score, p.hold)
  <2>1. Selected(days, last, p) = best
    BY DEF Selected
  <2>2. eligible \in SUBSET Int /\ eligible \in SUBSET Tickers /\ \A x \in eligible : Scored(day.score[x])
    BY <1>2, TickersAssumption
  <2>3. IsFiniteSet(eligible)
    BY <2>2, TickersAssumption, FS_Subset
  <2>. HIDE DEF eligible, day
  <2>4. best \subseteq eligible /\ IsFiniteSet(best) /\ Cardinality(best) \in 0..p.hold
    BY <2>2, <2>3, BestFits
  <2>5. IsFiniteSet({}) /\ Cardinality({}) = 0 /\ 0 \in 0..p.hold
    BY FS_EmptySet
  <2>. HIDE DEF best
  <2>. QED
    BY <2>1, <2>2, <2>4, <2>5
<1>. HIDE DEF S
<1>4. c \in Nat /\ p.hold * c =< Unit
  BY Quotient, FramesAssumption
<1>5. DOMAIN row = Tickers /\ (\A x \in Tickers : row[x] = IF x \in S THEN c ELSE 0)
  OBVIOUS
<1>. HIDE DEF c, row
<1>6. IsFiniteSet(Tickers) /\ \A x \in Tickers : row[x] \in Nat
  BY <1>4, <1>5, TickersAssumption
<1>7. SumFunction(row) = SumFunctionOnSet(row, Tickers)
  BY <1>5, SumOfFunction
<1>8. SumFunctionOnSet(row, Tickers) = SumFunctionOnSet(row, S)
  BY <1>3, <1>5, <1>6, SumWithoutZeros
<1>9. SumFunctionOnSet(row, S) = Cardinality(S) * c
  <2>1. \A x \in S : row[x] = c
    BY <1>3, <1>5
  <2>. QED
    BY <1>3, <1>4, <2>1, SumOfSame, SMTT(20)
<1>10. Cardinality(S) * c =< p.hold * c /\ Cardinality(S) * c \in Nat /\ p.hold * c \in Nat
  <2>. DEFINE k == Cardinality(S)
  <2>1. k \in Nat /\ k =< p.hold /\ p.hold \in Nat
    BY <1>3
  <2>. HIDE DEF k
  <2>2. k * c =< p.hold * c /\ k * c \in Nat /\ p.hold * c \in Nat
    BY <1>4, <2>1
  <2>. QED
    BY <2>2 DEF k
<1>11. RowFits(row, Unit)
  <2>1. SumFunction(row) =< Unit
    BY <1>4, <1>7, <1>8, <1>9, <1>10, FramesAssumption
  <2>. QED
    BY <1>5, <1>6, <2>1 DEF RowFits
<1>. QED
  BY <1>1, <1>11

\* A sleeve's book has only tickers of its universe.
LEMMA BookOfTickers ==
  ASSUME NEW days, Len(days) \in Nat, DOMAIN days = 1..Len(days), NEW p
  PROVE  \A t \in 0..Len(days) : DOMAIN Book(days, p)[t] \subseteq Tickers
<1>. DEFINE book == Book(days, p)
            T == {n \in Nat : n =< Len(days) => DOMAIN book[n] \subseteq Tickers}
<1>1. BooksUpTo(book, Len(days), days, p)
  BY BookSteps
<1>. HIDE DEF book
<1>2. 0 \in T
  BY <1>1 DEF BooksUpTo
<1>3. ASSUME NEW n \in T
      PROVE  n + 1 \in T
  <2>. SUFFICES ASSUME n + 1 =< Len(days)
                PROVE  DOMAIN book[n + 1] \subseteq Tickers
    OBVIOUS
  <2>1. n + 1 \in 1..Len(days) /\ (n + 1) - 1 = n /\ DOMAIN book[n] \subseteq Tickers
    OBVIOUS
  <2>2. book[n + 1] = NextBook(book[n], SignalsOn(days, n + 1, p), n + 1, p)
    BY <1>1, <2>1 DEF BooksUpTo
  <2>3. \A old, sig, s : DOMAIN old \subseteq Tickers => DOMAIN NextBook(old, sig, s, p) \subseteq Tickers
    BY DEF NextBook, FillSlots, Best
  <2>. QED
    BY <2>1, <2>2, <2>3
<1>. HIDE DEF T
<1>4. \A n \in Nat : n \in T
  <2>1. T \in SUBSET Nat
    BY DEF T
  <2>. QED
    BY <1>2, <1>3, <2>1, SetInduction
<1>. QED
  BY <1>4 DEF T, book

\* No strategy of the registry, nor null, is short or above its capital.
LEMMA WeightsFit ==
  ASSUME NEW days, Len(days) \in Nat, DOMAIN days = 1..Len(days), NEW p, RuleFits(p), RuleReads(days, p)
  PROVE  \A t \in DOMAIN days : Weights(days, p)[t] # NaN => RowFits(Weights(days, p)[t], Unit)
<1>1. CASE p.family = "buy_and_hold"
  <2>. DEFINE q == [on |-> Whole(p.ticker), off |-> <<>>, signal |-> NaN, lookback |-> 1]
  <2>1. Weights(days, p) = CoreMix(days, q)
    BY <1>1 DEF SleeveFamilies, Weights, BuyAndHold
  <2>2. MixFits(q.on) /\ MixFits(q.off)
    BY WholeFits
  <2>. HIDE DEF q
  <2>. QED
    BY <2>1, <2>2, CoreFits
<1>2. CASE p.family = "core_trend"
  <2>. DEFINE q == [on |-> Whole(p.risk_on), signal |-> p.risk_on, lookback |-> p.lookback,
                    off |-> IF p.risk_off = NaN THEN <<>> ELSE Whole(p.risk_off)]
  <2>1. Weights(days, p) = CoreMix(days, q)
    BY <1>2 DEF SleeveFamilies, Weights, CoreTrend
  <2>2. MixFits(q.on) /\ MixFits(q.off)
    BY WholeFits
  <2>. HIDE DEF q
  <2>. QED
    BY <2>1, <2>2, CoreFits
<1>3. CASE p.family = "core_mix"
  <2>1. Weights(days, p) = CoreMix(days, p)
    BY <1>3 DEF SleeveFamilies, Weights
  <2>2. MixFits(p.on) /\ MixFits(p.off)
    BY <1>3 DEF RuleFits
  <2>. QED
    BY <2>1, <2>2, CoreFits
<1>4. CASE p.family = "factor"
  <2>1. Weights(days, p) = FactorWeights(days, p)
    BY <1>4 DEF SleeveFamilies, Weights
  <2>2. p.hold \in Nat \ {0} /\ \A t \in DOMAIN days, x \in Tickers : Scored(days[t].score[x])
    BY <1>4 DEF RuleFits, RuleReads
  <2>. QED
    BY <2>1, <2>2, FactorFits
<1>5. CASE p.family = "null"
  <2>1. Weights(days, p) = NullWeights(days, p)
    BY <1>5 DEF SleeveFamilies, Weights
  <2>2. ASSUME NEW t \in DOMAIN days
        PROVE  RowFits(NullWeights(days, p)[t], Unit)
    <3>. DEFINE held == {x \in days[t].member : IF p.trended THEN AboveMean(Closes(days, x), t, p.lookback)
                                                ELSE Priced(days, t, x)}
    <3>1. NullWeights(days, p)[t] = [x \in Tickers |-> EqualSplit(held, Unit, x)]
      BY DEF NullWeights
    <3>2. held \subseteq days[t].member /\ IsFiniteSet(days[t].member)
      BY <1>5 DEF RuleReads
    <3>. HIDE DEF held
    <3>3. IsFiniteSet(held)
      BY <3>2, FS_Subset
    <3>4. IsFiniteSet(Tickers) /\ Unit \in Nat
      BY TickersAssumption, FramesAssumption
    <3>5. RowFits([x \in Tickers |-> EqualSplit(held, Unit, x)], Unit)
      BY <3>3, <3>4, SplitRow
    <3>. QED
      BY <3>1, <3>5
  <2>. QED
    BY <2>1, <2>2
<1>6. CASE p.family \in SleeveFamilies
  <2>1. Weights(days, p) = SleeveWeights(days, p)
    BY <1>6 DEF SleeveFamilies, Weights
  <2>2. ASSUME NEW t \in DOMAIN days, SleeveWeights(days, p)[t] # NaN
        PROVE  RowFits(SleeveWeights(days, p)[t], Unit)
    <3>. DEFINE held == DOMAIN Book(days, p)[t]
    <3>1. SleeveWeights(days, p)[t] = [x \in Tickers |-> EqualSplit(held, Unit, x)]
      <4>. HIDE DEF InLeadingRun
      <4>. QED
        BY <2>2 DEF SleeveWeights
    <3>2. held \subseteq Tickers
      BY BookOfTickers
    <3>. HIDE DEF held
    <3>3. IsFiniteSet(held) /\ IsFiniteSet(Tickers) /\ Unit \in Nat
      BY <3>2, TickersAssumption, FramesAssumption, FS_Subset
    <3>4. RowFits([x \in Tickers |-> EqualSplit(held, Unit, x)], Unit)
      BY <3>3, SplitRow
    <3>. QED
      BY <3>1, <3>4
  <2>. QED
    BY <2>1, <2>2
<1>. QED
  BY <1>1, <1>2, <1>3, <1>4, <1>5, <1>6 DEF RuleFits, Registry, CoreFamilies

-----------------------------------------------------------------------------
(* The walk.                                                               *)

\* A sleeve has only candidates.
LEMMA SleeveOfCandidates ==
  ASSUME NEW days, Len(days) \in Nat, NEW p
  PROVE  \A t \in 0..Len(days) : Sleeves(days, p)[t] \subseteq p.candidates
<1>. DEFINE sleeve == Sleeves(days, p)
            T == {n \in Nat : n =< Len(days) => sleeve[n] \subseteq p.candidates}
<1>1. SleevesUpTo(sleeve, Len(days), days, p)
  BY SleeveSteps
<1>. HIDE DEF sleeve
<1>2. 0 \in T
  BY <1>1 DEF SleevesUpTo
<1>3. ASSUME NEW n \in T
      PROVE  n + 1 \in T
  <2>. SUFFICES ASSUME n + 1 =< Len(days)
                PROVE  sleeve[n + 1] \subseteq p.candidates
    OBVIOUS
  <2>1. n + 1 \in 1..Len(days) /\ (n + 1) - 1 = n /\ sleeve[n] \subseteq p.candidates
    OBVIOUS
  <2>2. sleeve[n + 1] = NextSleeve(days, p, n + 1, sleeve[n])
    BY <1>1, <2>1 DEF SleevesUpTo
  <2>3. \A current, s : current \subseteq p.candidates => NextSleeve(days, p, s, current) \subseteq p.candidates
    BY DEF NextSleeve, SelectSleeve, Best
  <2>. QED
    BY <2>1, <2>2, <2>3
<1>. HIDE DEF T
<1>4. \A n \in Nat : n \in T
  <2>1. T \in SUBSET Nat
    BY DEF T
  <2>. QED
    BY <1>2, <1>3, <2>1, SetInduction
<1>. QED
  BY <1>4 DEF T, sleeve

\* The part of a member that wants at most all of its capital is at most an
\* equal part of the share.
LEMMA PortionFits ==
  ASSUME NEW weight \in 0..Unit, NEW share \in Nat, NEW n \in Nat \ {0}
  PROVE  /\ (weight * share) \div (Unit * n) \in Nat
         /\ (weight * share) \div (Unit * n) =< share \div n
<1>. DEFINE u == Unit
            q == (weight * share) \div (u * n)
<1>1. u \in Nat \ {0} /\ weight \in Nat /\ weight =< u
  BY FramesAssumption
<1>. HIDE DEF u
<1>2. weight * share \in Nat /\ u * n \in Nat \ {0} /\ weight * share =< u * share
  BY <1>1
<1>3. q \in Nat /\ (u * n) * q =< weight * share
  BY <1>2, Quotient
<1>. HIDE DEF q
<1>4. u * (n * q) =< u * share
  BY <1>1, <1>2, <1>3
<1>5. n * q =< share
  BY <1>1, <1>3, <1>4
<1>6. q =< share \div n
  BY <1>3, <1>5
<1>. QED
  BY <1>3, <1>6 DEF q, u

\* So the members together invest at most the share.
LEMMA StitchedFits ==
  ASSUME NEW days, Len(days) \in Nat, DOMAIN days = 1..Len(days), NEW p, IsFiniteSet(p.candidates), p.share \in Nat,
         \A t \in DOMAIN days, c \in p.candidates : days[t].hold[c] \in 0..Unit \cup {NaN}
  PROVE  \A t \in DOMAIN days : RowFits(Stitched(days, p)[t], p.share)
<1>. SUFFICES ASSUME NEW t \in DOMAIN days
              PROVE  RowFits(Stitched(days, p)[t], p.share)
  OBVIOUS
<1>. DEFINE U == p.candidates
            S == Sleeves(days, p)[t]
            n == Cardinality(S)
            row == [c \in U |-> IF c \in S /\ days[t].hold[c] # NaN THEN Portion(days[t].hold[c], p, n) ELSE 0]
            equal == [c \in U |-> EqualSplit(S, p.share, c)]
<1>1. Stitched(days, p)[t] = row
  BY DEF Stitched
<1>2. S \subseteq U
  BY SleeveOfCandidates
<1>. HIDE DEF S
<1>3. IsFiniteSet(S) /\ IsFiniteSet(U)
  BY <1>2, FS_Subset
<1>4. ASSUME NEW c \in U
      PROVE  row[c] \in Nat /\ row[c] =< equal[c] /\ equal[c] \in Nat
  <2>1. CASE c \in S
    <3>. DEFINE w == days[t].hold[c]
    <3>1. n \in Nat \ {0}
      BY <1>3, <2>1, FS_CardinalityType, FS_EmptySet
    <3>. HIDE DEF n
    <3>2. p.share \div n \in Nat
      BY <3>1, Quotient
    <3>3. row[c] = (IF w # NaN THEN (w * p.share) \div (Unit * n) ELSE 0) /\ equal[c] = p.share \div n
      BY <2>1 DEF Portion, EqualSplit, n
    <3>4. CASE w = NaN
      BY <3>2, <3>3, <3>4
    <3>5. CASE w # NaN
      <4>1. w \in 0..Unit
        BY <3>5
      <4>. HIDE DEF w
      <4>2. (w * p.share) \div (Unit * n) \in Nat /\ (w * p.share) \div (Unit * n) =< p.share \div n
        BY <3>1, <4>1, PortionFits
      <4>. QED
        BY <3>2, <3>3, <3>5, <4>2
    <3>. QED
      BY <3>4, <3>5
  <2>2. CASE c \notin S
    BY <2>2 DEF EqualSplit
  <2>. QED
    BY <2>1, <2>2
<1>5. SumFunction(equal) =< p.share
  BY <1>3, SplitFits
<1>6. DOMAIN row = U /\ DOMAIN equal = U
  OBVIOUS
<1>. HIDE DEF row, equal
<1>7. SumFunction(row) = SumFunctionOnSet(row, U) /\ SumFunction(equal) = SumFunctionOnSet(equal, U)
  BY <1>6, SumOfFunction
<1>8. SumFunctionOnSet(row, U) =< SumFunctionOnSet(equal, U)
  BY <1>3, <1>4, SumRises
<1>9. SumFunctionOnSet(row, U) \in Int /\ SumFunctionOnSet(equal, U) \in Int
  BY <1>3, <1>4, SumOfPart
<1>10. SumFunction(row) =< p.share
  BY <1>5, <1>7, <1>8, <1>9
<1>. QED
  BY <1>1, <1>3, <1>4, <1>6, <1>10 DEF RowFits

-----------------------------------------------------------------------------
(* The overlay.                                                            *)

\* What some signals move out of assets: not less than nothing, at most what
\* all signals move out of each, and together at most the cap.
LEMMA MovesFit ==
  ASSUME NEW p \in Subjects, p.kind = "overlay", NEW on \in SUBSET SignalsOf(p)
  PROVE  /\ \A x \in DOMAIN p.base : Moved(on, x, p) \in Nat /\ Moved(on, x, p) =< p.base[x]
         /\ SumFunctionOnSet([x \in DOMAIN p.base \ {p.safe} |-> Moved(on, x, p)], DOMAIN p.base \ {p.safe}) =< p.cap
<1>. DEFINE all == SignalsOf(p)
            D == DOMAIN p.base
            K == D \ {p.safe}
            move == [s \in all |-> p.move[s[1]]]
            key == [s \in all |-> s[2]]
            of(S, x) == {s \in S : s[2] = x}
            sum == SumFunctionOnSet(move, on)
            out == [x \in D |-> SumFunctionOnSet(move, of(on, x))]
            moved == [x \in D |-> Moved(on, x, p)]
<1>1. /\ IsFiniteSet(D) /\ p.cap \in Nat /\ IsFiniteSet(p.trendAssets)
      /\ \A x \in D : p.base[x] \in Nat
      /\ \A r \in all : r[2] \in K /\ p.move[r[1]] \in Nat
      /\ \A x \in D : Uncapped(all, x, p) =< p.base[x]
  BY OverlayAssumption DEF MixFits
<1>2. IsFiniteSet(all)
  <2>. DEFINE name == [x \in p.trendAssets |-> <<"trend", x>>]
              trends == {<<"trend", x>> : x \in p.trendAssets}
              pair == {<<"vol", p.volAsset>>, <<"inflation", p.inflationAsset>>}
  <2>1. name \in Surjection(p.trendAssets, trends)
    BY DEF Surjection
  <2>2. IsFiniteSet(trends)
    BY <1>1, <2>1, FS_Surjection
  <2>3. IsFiniteSet(pair)
    <3>. DEFINE v == <<"vol", p.volAsset>>
                i == <<"inflation", p.inflationAsset>>
    <3>1. pair = {v} \cup {i}
      OBVIOUS
    <3>. HIDE DEF v, i, pair
    <3>2. IsFiniteSet({v}) /\ IsFiniteSet({i})
      BY FS_Singleton
    <3>. QED
      BY <3>1, <3>2, FS_Union
  <2>4. all = trends \cup pair
    BY DEF SignalsOf
  <2>. HIDE DEF trends, pair
  <2>. QED
    BY <2>2, <2>3, <2>4, FS_Union
<1>. HIDE DEF all
<1>3. IsFiniteSet(on) /\ on \subseteq all /\ (\A s \in all : move[s] \in Nat) /\ IsFiniteSet(K)
  <2>1. on \subseteq all
    BY DEF all
  <2>2. IsFiniteSet(on) /\ IsFiniteSet(K)
    BY <1>1, <1>2, <2>1, FS_Subset
  <2>3. \A s \in all : move[s] \in Nat
    BY <1>1
  <2>. QED
    BY <2>1, <2>2, <2>3
<1>4. ASSUME NEW S \in SUBSET all, NEW x
      PROVE  Uncapped(S, x, p) = SumFunctionOnSet(move, of(S, x))
  <2>. DEFINE part == [s \in of(S, x) |-> p.move[s[1]]]
  <2>1. Uncapped(S, x, p) = SumFunction(part) /\ DOMAIN part = of(S, x)
    BY DEF Uncapped
  <2>2. IsFiniteSet(of(S, x)) /\ of(S, x) \subseteq all
    BY <1>2, FS_Subset
  <2>3. \A s \in of(S, x) : part[s] = move[s]
    BY <2>2
  <2>. HIDE DEF part, of, move
  <2>4. SumFunction(part) = SumFunctionOnSet(part, of(S, x))
    BY <2>1, SumOfFunction
  <2>. QED
    BY <2>1, <2>2, <2>3, <2>4, SameSum
<1>5. SumFunction([s \in on |-> p.move[s[1]]]) = sum
  <2>. DEFINE part == [s \in on |-> p.move[s[1]]]
  <2>1. DOMAIN part = on /\ \A s \in on : part[s] = move[s]
    BY <1>3
  <2>. HIDE DEF part, move
  <2>2. SumFunction(part) = SumFunctionOnSet(part, on)
    BY <2>1, SumOfFunction
  <2>3. SumFunctionOnSet(part, on) = SumFunctionOnSet(move, on)
    BY <1>3, <2>1, SameSum
  <2>. QED
    BY <2>2, <2>3 DEF part
<1>6. sum \in Nat
  BY <1>2, <1>3, SumOfPart
<1>7. \A x \in D : out[x] \in Nat /\ out[x] =< p.base[x] /\ out[x] =< sum
  <2>. SUFFICES ASSUME NEW x \in D
                PROVE  out[x] \in Nat /\ out[x] =< p.base[x] /\ out[x] =< sum
    OBVIOUS
  <2>. DEFINE mine == of(on, x)
              theirs == of(all, x)
  <2>1. mine \in SUBSET on /\ mine \in SUBSET theirs /\ theirs \in SUBSET all /\ out[x] = SumFunctionOnSet(move, mine)
    BY <1>3
  <2>2. Uncapped(all, x, p) = SumFunctionOnSet(move, theirs)
    BY <1>4
  <2>3. SumFunctionOnSet(move, theirs) =< p.base[x] /\ p.base[x] \in Nat
    BY <1>1, <2>2
  <2>. HIDE DEF mine, theirs, out, move
  <2>4. IsFiniteSet(theirs) /\ \A s \in theirs : move[s] \in Nat
    BY <1>2, <1>3, <2>1, FS_Subset
  <2>5. \A s \in on : move[s] \in Nat
    BY <1>3
  <2>6. /\ SumFunctionOnSet(move, mine) \in Nat /\ SumFunctionOnSet(move, theirs) \in Nat
        /\ SumFunctionOnSet(move, mine) =< SumFunctionOnSet(move, theirs)
    BY <2>1, <2>4, SumOfPart
  <2>7. SumFunctionOnSet(move, mine) =< sum
    BY <1>3, <2>1, <2>5, SumOfPart
  <2>. HIDE DEF sum
  <2>. QED
    BY <1>6, <2>1, <2>3, <2>6, <2>7
<1>8. \A x \in D : moved[x] = IF sum > p.cap THEN (out[x] * p.cap) \div sum ELSE out[x]
  <2>. SUFFICES ASSUME NEW x \in D
                PROVE  moved[x] = IF sum > p.cap THEN (out[x] * p.cap) \div sum ELSE out[x]
    OBVIOUS
  <2>1. Uncapped(on, x, p) = out[x]
    BY <1>3, <1>4
  <2>2. moved[x] = Moved(on, x, p)
    OBVIOUS
  <2>. HIDE DEF sum, out, moved
  <2>. QED
    BY <1>5, <2>1, <2>2 DEF Moved
<1>9. SumFunctionOnSet(out, K) =< sum
  <2>. DEFINE part == [x \in K |-> of(on, x)]
  <2>1. \A x \in K : /\ part[x] \in SUBSET on /\ \A s \in on : s \in part[x] <=> key[s] = x
                    /\ out[x] = SumFunctionOnSet(move, part[x])
    BY <1>3
  <2>2. \A s \in on : move[s] \in Nat
    BY <1>3
  <2>. HIDE DEF out, move, key, K, part
  <2>. QED
    BY <1>3, <2>1, <2>2, SumByKey
<1>10. SumFunctionOnSet(out, K) \in Nat
  <2>1. \A x \in K : out[x] \in Nat
    BY <1>7
  <2>. HIDE DEF out, K
  <2>. QED
    BY <1>3, <2>1, SumOfPart
<1>. HIDE DEF sum, out, moved
<1>11. \A x \in D : moved[x] \in Nat /\ moved[x] =< out[x] /\ (sum > p.cap => sum * moved[x] =< p.cap * out[x])
  <2>. SUFFICES ASSUME NEW x \in D
                PROVE  moved[x] \in Nat /\ moved[x] =< out[x] /\ (sum > p.cap => sum * moved[x] =< p.cap * out[x])
    OBVIOUS
  <2>. DEFINE o == out[x]
              m == moved[x]
              c == p.cap
  <2>1. o \in Nat /\ c \in Nat /\ m = IF sum > c THEN (o * c) \div sum ELSE o
    BY <1>1, <1>7, <1>8
  <2>. HIDE DEF o, m, c
  <2>2. CASE sum > c
    <3>1. o * c \in Nat /\ sum \in Nat \ {0} /\ m = (o * c) \div sum
      BY <1>6, <2>1, <2>2
    <3>2. m \in Nat /\ sum * m =< o * c
      BY <3>1, Quotient
    <3>3. o * c =< sum * o /\ o * c = c * o
      BY <1>6, <2>1, <2>2
    <3>4. sum * m =< sum * o
      BY <1>6, <2>1, <3>1, <3>2, <3>3
    <3>5. m =< o
      BY <1>6, <2>1, <3>1, <3>2, <3>4
    <3>. QED
      BY <3>2, <3>3, <3>5 DEF o, m, c
  <2>3. CASE ~(sum > c)
    BY <2>1, <2>3 DEF o, m, c
  <2>. QED
    BY <2>2, <2>3
<1>12. SumFunctionOnSet(moved, K) =< p.cap /\ SumFunctionOnSet(moved, K) \in Nat
  <2>0. K \subseteq D
    OBVIOUS
  <2>. HIDE DEF K
  <2>1. \A x \in K : moved[x] \in Nat /\ out[x] \in Nat /\ moved[x] =< out[x]
    BY <1>7, <1>11, <2>0
  <2>2. SumFunctionOnSet(moved, K) \in Nat
    BY <1>3, <2>1, SumOfPart
  <2>. DEFINE m == SumFunctionOnSet(moved, K)
              o == SumFunctionOnSet(out, K)
              c == p.cap
  <2>3. CASE sum > p.cap
    <3>. DEFINE left == [x \in K |-> sum * moved[x]]
                right == [x \in K |-> p.cap * out[x]]
    <3>1. /\ \A x \in K : moved[x] \in Int /\ left[x] = sum * moved[x]
          /\ \A x \in K : out[x] \in Int /\ right[x] = p.cap * out[x]
      BY <2>1
    <3>2. \A x \in K : left[x] \in Int /\ right[x] \in Int /\ left[x] =< right[x]
      <4>1. ASSUME NEW x \in K
            PROVE  left[x] \in Int /\ right[x] \in Int /\ left[x] =< right[x]
        <5>1. moved[x] \in Int /\ out[x] \in Int /\ sum \in Int /\ p.cap \in Int
          BY <1>1, <1>6, <2>1
        <5>2. sum * moved[x] =< p.cap * out[x]
          BY <1>11, <2>0, <2>3
        <5>3. sum * moved[x] \in Int /\ p.cap * out[x] \in Int
          BY <5>1
        <5>. QED
          BY <5>2, <5>3
      <4>. HIDE DEF left, right
      <4>. QED
        BY <4>1
    <3>. HIDE DEF left, right
    <3>3. SumFunctionOnSet(left, K) = sum * m
      BY <1>3, <1>6, <3>1, SumScaled
    <3>4. SumFunctionOnSet(right, K) = p.cap * o
      BY <1>1, <1>3, <3>1, SumScaled
    <3>5. SumFunctionOnSet(left, K) =< SumFunctionOnSet(right, K)
      BY <1>3, <3>2, SumRises
    <3>6. m \in Nat /\ o \in Nat /\ o =< sum /\ c \in Nat /\ c < sum
      BY <1>1, <1>6, <1>9, <1>10, <2>2, <2>3
    <3>7. sum * m =< c * o
      BY <3>3, <3>4, <3>5
    <3>. HIDE DEF m, o, c
    <3>8. c * o =< c * sum
      BY <1>6, <3>6
    <3>9. m =< c
      BY <1>6, <3>6, <3>7, <3>8
    <3>. QED
      BY <2>2, <3>9 DEF m, c
  <2>4. CASE ~(sum > p.cap)
    <3>1. m =< o
      BY <1>3, <2>1, SumRises
    <3>2. m \in Nat /\ o \in Nat /\ o =< sum /\ sum =< c /\ sum \in Nat /\ c \in Nat
      BY <1>1, <1>6, <1>9, <1>10, <2>2, <2>4
    <3>. HIDE DEF m, o, c
    <3>3. m =< c
      BY <3>1, <3>2
    <3>. QED
      BY <2>2, <3>3 DEF m, c
  <2>. QED
    BY <2>3, <2>4
<1>13. SumFunctionOnSet([x \in K |-> Moved(on, x, p)], K) = SumFunctionOnSet(moved, K)
  <2>. DEFINE part == [x \in K |-> Moved(on, x, p)]
  <2>1. \A x \in K : part[x] = moved[x]
    BY DEF moved
  <2>. HIDE DEF part, K
  <2>2. SumFunctionOnSet(part, K) = SumFunctionOnSet(moved, K)
    BY <1>3, <2>1, SameSum
  <2>. QED
    BY <2>2 DEF part
<1>14. \A x \in D : moved[x] = Moved(on, x, p)
  BY DEF moved
<1>15. ASSUME NEW x \in D
       PROVE  Moved(on, x, p) \in Nat /\ Moved(on, x, p) =< p.base[x]
  BY <1>1, <1>7, <1>11, <1>14
<1>. QED
  BY <1>12, <1>13, <1>15

\* What the overlay makes of its base.
Overlaid(row, p) ==
  /\ RowFits(row, Unit) /\ SumFunction(row) = Unit /\ DOMAIN row = DOMAIN p.base
  /\ \A x \in DOMAIN row \ {p.safe} : row[x] =< p.base[x]
  /\ row[p.safe] =< p.base[p.safe] + p.cap

\* What is moved out of the others is what the safe asset gets.
LEMMA MixForFits ==
  ASSUME NEW p \in Subjects, p.kind = "overlay", NEW on \in SUBSET SignalsOf(p)
  PROVE  Overlaid(MixFor(on, p), p)
<1>. DEFINE D == DOMAIN p.base
            K == D \ {p.safe}
            moved == [x \in K |-> Moved(on, x, p)]
            row == MixFor(on, p)
            sum == SumFunctionOnSet(moved, K)
            rest == SumFunctionOnSet(row, K)
            base == SumFunctionOnSet(p.base, K)
<1>1. /\ IsFiniteSet(D) /\ p.cap \in Nat /\ p.safe \in D /\ SumFunction(p.base) = Unit
      /\ \A x \in D : p.base[x] \in Nat
  BY OverlayAssumption DEF MixFits
<1>2. \A x \in K : moved[x] \in Nat /\ moved[x] =< p.base[x]
  BY MovesFit
<1>3. sum =< p.cap
  BY MovesFit
<1>4. IsFiniteSet(K)
  BY <1>1, FS_Subset
<1>5. DOMAIN row = D /\ row[p.safe] = p.base[p.safe] + SumFunction(moved)
  BY <1>1 DEF MixFor
<1>6. \A x \in K : row[x] = p.base[x] - moved[x]
  BY DEF MixFor
<1>7. SumFunction(moved) = sum
  <2>1. DOMAIN moved = K
    OBVIOUS
  <2>. HIDE DEF moved
  <2>. QED
    BY <2>1, SumOfFunction
<1>8. K \subseteq D /\ \A x \in D : x \in K \/ x = p.safe
  OBVIOUS
<1>. HIDE DEF row, moved
<1>9. sum \in Nat
  <2>. HIDE DEF K
  <2>. QED
    BY <1>2, <1>4, SumOfPart
<1>10. base = rest + sum /\ rest \in Int /\ base \in Int
  <2>1. \A x \in K : row[x] \in Int /\ moved[x] \in Int /\ p.base[x] \in Int /\ p.base[x] = row[x] + moved[x]
    BY <1>1, <1>2, <1>6
  <2>. HIDE DEF K
  <2>2. base = rest + sum
    BY <1>4, <2>1, SumOfSums
  <2>3. rest \in Int /\ base \in Int
    BY <1>4, <2>1, SumGrows
  <2>. QED
    BY <2>2, <2>3
<1>11. \A x \in D : row[x] \in Nat
  BY <1>1, <1>2, <1>5, <1>6, <1>7, <1>8, <1>9
<1>12. SumFunctionOnSet(row, D) = row[p.safe] + rest
  <2>1. \A x \in D : row[x] \in Int
    BY <1>11
  <2>. QED
    BY <1>1, <2>1, SumOfOneMore
<1>13. SumFunctionOnSet(p.base, D) = p.base[p.safe] + base
  BY <1>1, SumOfOneMore
<1>14. SumFunction(p.base) = SumFunctionOnSet(p.base, D) /\ SumFunction(row) = SumFunctionOnSet(row, D)
  BY <1>5, SumOfFunction
<1>15. SumFunction(row) = Unit
  <2>1. p.base[p.safe] \in Int /\ Unit \in Int
    BY <1>1, FramesAssumption
  <2>. HIDE DEF sum, rest, base
  <2>. QED
    BY <1>1, <1>5, <1>7, <1>9, <1>10, <1>12, <1>13, <1>14, <2>1
<1>16. row[p.safe] =< p.base[p.safe] + p.cap
  BY <1>1, <1>3, <1>5, <1>7, <1>9
<1>17. \A x \in K : row[x] =< p.base[x]
  BY <1>1, <1>2, <1>6
<1>18. RowFits(row, Unit)
  BY <1>1, <1>5, <1>11, <1>15, FramesAssumption DEF RowFits
<1>19. Overlaid(row, p)
  BY <1>5, <1>15, <1>16, <1>17, <1>18 DEF Overlaid
<1>. QED
  BY <1>19 DEF row

\* On every day.
LEMMA OverlayFits ==
  ASSUME NEW days, Len(days) \in Nat, DOMAIN days = 1..Len(days), NEW p \in Subjects, p.kind = "overlay"
  PROVE  \A t \in DOMAIN days : BuildOverlay(days, p)[t] # NaN => Overlaid(BuildOverlay(days, p)[t], p)
<1>. SUFFICES ASSUME NEW t \in DOMAIN days, BuildOverlay(days, p)[t] # NaN
              PROVE  Overlaid(BuildOverlay(days, p)[t], p)
  OBVIOUS
<1>. DEFINE monthly == MonthlyStates(days, p)
            ends == {u \in DOMAIN monthly : u =< t}
            row == BuildOverlay(days, p)[t]
<1>1. row = IF ends = {} THEN p.base ELSE MixFor(monthly[Max(ends)], p)
  BY DEF BuildOverlay, OverlayWeights
<1>2. CASE ends = {}
  <2>1. MixFits(p.base) /\ SumFunction(p.base) = Unit /\ p.cap \in Nat /\ p.safe \in DOMAIN p.base
    BY OverlayAssumption
  <2>2. \A x \in DOMAIN p.base : p.base[x] \in Nat
    BY <2>1 DEF MixFits
  <2>3. (\A x \in DOMAIN p.base : p.base[x] =< p.base[x]) /\ p.base[p.safe] =< p.base[p.safe] + p.cap
    BY <2>1, <2>2
  <2>4. Overlaid(p.base, p)
    BY <2>1, <2>3 DEF Overlaid, RowFits, MixFits
  <2>. QED
    BY <1>1, <1>2, <2>4
<1>3. CASE ends # {}
  <2>1. DOMAIN monthly \subseteq DOMAIN days /\ \A u \in DOMAIN monthly : monthly[u] = DailyStates(days, u, p)
    BY DEF MonthlyStates
  <2>2. t \in Nat /\ ends \in SUBSET (1..t)
    BY <2>1
  <2>3. Max(ends) \in DOMAIN monthly
    <3>. HIDE DEF monthly
    <3>1. Max(ends) \in ends
      <4>. HIDE DEF ends
      <4>. QED
        BY <1>3, <2>2, LastDay
    <3>. QED
      BY <3>1
  <2>4. \A u : DailyStates(days, u, p) \in SUBSET SignalsOf(p)
    BY DEF DailyStates, SignalsOf
  <2>5. monthly[Max(ends)] \in SUBSET SignalsOf(p)
    BY <2>1, <2>3, <2>4
  <2>6. Overlaid(MixFor(monthly[Max(ends)], p), p)
    <3>. HIDE DEF monthly, ends
    <3>. QED
      BY <2>5, MixForFits
  <2>. QED
    BY <1>1, <1>3, <2>6
<1>. QED
  BY <1>2, <1>3

-----------------------------------------------------------------------------
(* A candidate next to its core.                                           *)

\* What a rule trades are finitely many tickers.
LEMMA UniverseFinite ==
  ASSUME NEW p, RuleFits(p)
  PROVE  IsFiniteSet(Universe(p))
<1>1. \A x : IsFiniteSet({x})
  BY FS_Singleton
<1>2. IsFiniteSet({})
  BY FS_EmptySet
<1>3. CASE p.family = "core_trend"
  <2>. DEFINE off == IF p.risk_off = NaN THEN {} ELSE {p.risk_off}
  <2>1. IsFiniteSet(off)
    BY <1>1, <1>2
  <2>2. Universe(p) = {p.risk_on} \cup off
    BY <1>3 DEF Universe
  <2>. HIDE DEF off
  <2>. QED
    BY <1>1, <2>1, <2>2, FS_Union
<1>4. CASE p.family = "core_mix"
  <2>1. IsFiniteSet(DOMAIN p.on) /\ IsFiniteSet(DOMAIN p.off)
    BY <1>4 DEF RuleFits, MixFits
  <2>. DEFINE signal == {p.signal} \ {NaN}
  <2>2. IsFiniteSet(signal)
    <3>1. IsFiniteSet({p.signal}) /\ signal \subseteq {p.signal}
      BY <1>1
    <3>. HIDE DEF signal
    <3>. QED
      BY <3>1, FS_Subset
  <2>3. Universe(p) = (DOMAIN p.on \cup DOMAIN p.off) \cup signal
    BY <1>4 DEF Universe
  <2>4. IsFiniteSet(DOMAIN p.on \cup DOMAIN p.off)
    BY <2>1, FS_Union
  <2>. HIDE DEF signal
  <2>. QED
    BY <2>2, <2>3, <2>4, FS_Union
<1>5. CASE p.family = "buy_and_hold"
  BY <1>1, <1>5 DEF Universe
<1>6. CASE ~(p.family \in CoreFamilies)
  BY <1>6, TickersAssumption DEF Universe, CoreFamilies
<1>. QED
  BY <1>3, <1>4, <1>5, <1>6 DEF CoreFamilies

\* Rules that are no core's weigh all tickers of the sleeves.
LEMMA SleeveRows ==
  ASSUME NEW days, NEW p, RuleFits(p), p.family \notin CoreFamilies
  PROVE  \A t \in DOMAIN days : Weights(days, p)[t] # NaN => DOMAIN Weights(days, p)[t] = Tickers
<1>1. CASE p.family = "factor"
  <2>1. Weights(days, p) = FactorWeights(days, p)
    BY <1>1 DEF SleeveFamilies, Weights
  <2>. QED
    BY <2>1 DEF FactorWeights
<1>2. CASE p.family = "null"
  <2>1. Weights(days, p) = NullWeights(days, p)
    BY <1>2 DEF SleeveFamilies, Weights
  <2>. QED
    BY <2>1 DEF NullWeights
<1>3. CASE p.family \in SleeveFamilies
  <2>1. Weights(days, p) = SleeveWeights(days, p)
    BY <1>3 DEF SleeveFamilies, Weights
  <2>. QED
    BY <2>1 DEF SleeveWeights
<1>. QED
  BY <1>1, <1>2, <1>3 DEF RuleFits, Registry

\* A whole part of a whole weight is whole.
LEMMA ScaledWhole ==
  ASSUME NEW weight \in Int, NEW share \in Int, NEW n \in Nat \ {0}
  PROVE  Scaled(weight, share, n) \in Int
<1>. DEFINE a == weight * share
            b == Unit * n
<1>1. a \in Int /\ b \in Nat \ {0}
  BY FramesAssumption
<1>2. Scaled(weight, share, n) = a \div b
  BY DEF Scaled
<1>. HIDE DEF a, b
<1>. QED
  BY <1>1, <1>2

\* What a portfolio makes of whole weights is whole.
LEMMA RowsWhole ==
  ASSUME NEW frames, DOMAIN frames = {Core, "sleeve"}, NEW split, split.core \in Int, split.sleeve \in Int,
         NEW t \in Nat \ {0},
         \A m \in {Core, "sleeve"} : frames[m][t] # NaN =>
            \A x \in DOMAIN frames[m][t] : frames[m][t][x] \in Int \cup {NaN}
  PROVE  \A x \in Held(frames, t) : CombinedRow(frames, split, t)[x] \in Int
<1>. SUFFICES ASSUME NEW x \in Held(frames, t)
              PROVE  CombinedRow(frames, split, t)[x] \in Int
  OBVIOUS
<1>. DEFINE members == DOMAIN frames \ {Core}
            n == Cardinality(members)
            part(m) == IF frames[m][t] # NaN /\ x \in DOMAIN frames[m][t]
                       THEN Scaled(Target(frames[m], t, x), split.sleeve, n) ELSE 0
            parts == [m \in members |-> part(m)]
<1>1. ASSUME NEW m \in {Core, "sleeve"}, frames[m][t] # NaN, x \in DOMAIN frames[m][t]
      PROVE  Target(frames[m], t, x) \in Int
  BY <1>1 DEF Target, Cell
<1>2. members = {"sleeve"}
  BY DEF Core
<1>3. IsFiniteSet(members) /\ n = 1
  <2>1. IsFiniteSet({"sleeve"}) /\ Cardinality({"sleeve"}) = 1
    BY FS_Singleton
  <2>. HIDE DEF members
  <2>. QED
    BY <1>2, <2>1
<1>. HIDE DEF n
<1>b. \A weight, share \in Int, k \in Nat \ {0} : Scaled(weight, share, k) \in Int
  BY ScaledWhole
<1>4. ASSUME NEW m \in members
      PROVE  parts[m] \in Int
  <2>1. parts[m] = part(m) /\ m \in {Core, "sleeve"}
    BY <1>2
  <2>2. CASE frames[m][t] # NaN /\ x \in DOMAIN frames[m][t]
    <3>1. Target(frames[m], t, x) \in Int /\ n \in Nat \ {0}
      BY <1>1, <1>3, <2>1, <2>2
    <3>2. Scaled(Target(frames[m], t, x), split.sleeve, n) \in Int
      BY <1>b, <3>1
    <3>. QED
      BY <2>1, <2>2, <3>2
  <2>3. CASE ~(frames[m][t] # NaN /\ x \in DOMAIN frames[m][t])
    BY <2>1, <2>3
  <2>. QED
    BY <2>2, <2>3
<1>5. SleeveShare(frames, split, t, x) = SumFunction(parts) /\ DOMAIN parts = members
  BY DEF SleeveShare, n
<1>. HIDE DEF parts, members
<1>6. SumFunction(parts) \in Int
  <2>1. SumFunction(parts) = SumFunctionOnSet(parts, members)
    BY <1>5, SumOfFunction
  <2>2. SumFunctionOnSet(parts, members) \in Int
    BY <1>3, <1>4, SumGrows
  <2>. QED
    BY <2>1, <2>2
<1>7. (IF frames[Core][t] = NaN THEN 0 ELSE CoreShare(frames, split, t, x)) \in Int
  <2>1. CASE frames[Core][t] # NaN /\ x \in DOMAIN frames[Core][t]
    <3>1. Target(frames[Core], t, x) \in Int /\ 1 \in Nat \ {0}
      BY <1>1, <2>1
    <3>2. Scaled(Target(frames[Core], t, x), split.core, 1) \in Int
      BY <1>b, <3>1
    <3>. QED
      BY <2>1, <3>2 DEF CoreShare
  <2>2. CASE ~(frames[Core][t] # NaN /\ x \in DOMAIN frames[Core][t])
    BY <2>2 DEF CoreShare
  <2>. QED
    BY <2>1, <2>2
<1>. QED
  BY <1>5, <1>6, <1>7 DEF CombinedRow

\* The book of a candidate next to its core is not above the capital, on all
\* tickers that the two have.
LEMMA CombinedFits ==
  ASSUME NEW days, Len(days) \in Nat, DOMAIN days = 1..Len(days), NEW p \in Subjects, p.kind = "candidate",
         RuleReads(days, p.rule), RuleReads(days, p.core),
         NEW book, book = Combined(days, Exited(days, p.rule), p), book # <<>>
  PROVE  DOMAIN book = DOMAIN days /\ \A t \in DOMAIN days : LongOnly(book[t])
<1>. DEFINE sleeve == Exited(days, p.rule)
            frames == [m \in {Core, "sleeve"} |-> IF m = Core THEN Weights(days, p.core) ELSE sleeve]
            all == Universe(p.core) \cup Tickers
            row(t) == CombinedRow(frames, p.split, t)
            wide(t) == [x \in all |-> IF x \in DOMAIN row(t) THEN row(t)[x] ELSE 0]
<1>1. Combines(frames, p.split) /\ book = [t \in DOMAIN days |-> wide(t)]
  <2>1. book = IF Combines(frames, p.split) THEN [t \in DOMAIN days |-> wide(t)] ELSE <<>>
    BY DEF Combined
  <2>. HIDE DEF frames, wide
  <2>. QED
    BY <2>1
<1>2. /\ RuleFits(p.rule) /\ RuleFits(p.core) /\ p.core.family \in Registry /\ p.rule.family \notin CoreFamilies
      /\ p.split.core \in Int /\ p.split.sleeve \in Int
  BY RuleAssumption
<1>3. DOMAIN frames = {Core, "sleeve"} /\ frames[Core] = Weights(days, p.core) /\ frames["sleeve"] = sleeve
  BY DEF Core
<1>4. IsFrame(Weights(days, p.core), days, Universe(p.core))
  BY <1>2, FrameOf
<1>5. DOMAIN frames[Core] = DOMAIN days
  BY <1>3, <1>4 DEF IsFrame
<1>6. IsFiniteSet(all)
  BY <1>2, UniverseFinite, TickersAssumption, FS_Union
<1>7. ASSUME NEW t \in DOMAIN days
      PROVE  LongOnly(wide(t))
  <2>1. t \in Nat \ {0}
    OBVIOUS
  <2>2. DOMAIN sleeve[t] = Tickers /\ \A x \in Tickers : sleeve[t][x] \in Int \cup {NaN}
    <3>. DEFINE w == Weights(days, p.rule)
    <3>1. sleeve[t] = [x \in Tickers |-> IF MustBeOut(days, t, x) THEN 0 ELSE Cell(w, t, x)]
      BY DEF Exited, ExitBeforeDelisting
    <3>2. w[t] # NaN => DOMAIN w[t] = Tickers
      BY <1>2, SleeveRows
    <3>3. w[t] # NaN => RowFits(w[t], Unit)
      BY <1>2, WeightsFit
    <3>. HIDE DEF w, sleeve
    <3>4. \A x \in Tickers : Cell(w, t, x) \in Int \cup {NaN}
      BY <3>2, <3>3 DEF Cell, RowFits
    <3>. QED
      BY <3>1, <3>4
  <2>3. frames[Core][t] # NaN => /\ DOMAIN frames[Core][t] \subseteq Universe(p.core)
                                 /\ \A x \in DOMAIN frames[Core][t] : frames[Core][t][x] \in Int
    <3>1. Weights(days, p.core)[t] # NaN => RowFits(Weights(days, p.core)[t], Unit)
      BY <1>2, WeightsFit
    <3>. HIDE DEF frames
    <3>. QED
      BY <1>3, <1>4, <3>1 DEF IsFrame, RowFits
  <2>. HIDE DEF frames, sleeve
  <2>4. Held(frames, t) \in SUBSET all
    BY <1>3, <2>2, <2>3 DEF Held
  <2>5. \A x \in Held(frames, t) : row(t)[x] \in Int
    <3>1. \A m \in {Core, "sleeve"} : frames[m][t] # NaN =>
            \A x \in DOMAIN frames[m][t] : frames[m][t][x] \in Int \cup {NaN}
      BY <1>3, <2>2, <2>3
    <3>. QED
      BY <1>2, <1>3, <2>1, <3>1, RowsWhole
  <2>. DEFINE r == row(t)
              H == Held(frames, t)
              v == wide(t)
  <2>6. LongOnly(r) /\ DOMAIN r = H
    BY <1>1, <1>5 DEF Combines, CombinedRow
  <2>7. DOMAIN v = all /\ \A x \in all : v[x] = IF x \in H THEN r[x] ELSE 0
    BY <2>6
  <2>8. H \in SUBSET all /\ \A x \in H : r[x] \in Int
    BY <2>4, <2>5
  <2>. HIDE DEF r, H, v, all
  <2>9. \A x \in all : v[x] \in Int
    BY <2>7, <2>8
  <2>10. SumFunctionOnSet(v, all) = SumFunctionOnSet(v, H)
    BY <1>6, <2>7, <2>8, <2>9, SumWithoutZeros
  <2>11. SumFunctionOnSet(v, H) = SumFunctionOnSet(r, H)
    <3>1. IsFiniteSet(H) /\ \A x \in H : v[x] = r[x]
      BY <1>6, <2>7, <2>8, FS_Subset
    <3>. QED
      BY <3>1, SameSum
  <2>12. SumFunction(v) = SumFunctionOnSet(v, all) /\ SumFunction(r) = SumFunctionOnSet(r, H)
    BY <2>6, <2>7, SumOfFunction
  <2>13. SumFunction(r) =< Unit /\ \A x \in H : r[x] >= 0
    BY <2>6 DEF LongOnly, Invested
  <2>14. LongOnly(v)
    BY <2>7, <2>8, <2>10, <2>11, <2>12, <2>13 DEF LongOnly, Invested
  <2>. QED
    BY <2>14 DEF v
<1>. HIDE DEF wide
<1>. QED
  BY <1>1, <1>7

-----------------------------------------------------------------------------
(* What is invested of every study.                                        *)

\* Whatever a subject is given to invest: a row of weights is never short or
\* above the capital allotted.
LEMMA FramesFit ==
  ASSUME IsTape, subject \in Subjects, DaysFit, NEW t \in DOMAIN Frame, Frame[t] # NaN
  PROVE  /\ Invested(Frame[t]) =< Allotted
         /\ \A x \in DOMAIN Frame[t] : Frame[t][x] >= 0
         /\ Kind("overlay") => OnlyDeRisks(Frame[t])
<1>. DEFINE row == Frame[t]
            p == subject
<1>0. Len(tape) \in Nat /\ DOMAIN tape = 1..Len(tape)
  BY TapeDays
<1>a. ASSUME NEW r, NEW amount, RowFits(r, amount)
      PROVE  Invested(r) =< amount /\ \A x \in DOMAIN r : r[x] >= 0
  BY <1>a DEF RowFits, Invested
<1>1. CASE Kind("strategy")
  <2>1. Frame = Weights(tape, p.rule) /\ Allotted = Unit
    BY <1>1 DEF Frame, Kind, Allotted
  <2>2. RuleFits(p.rule) /\ RuleReads(tape, p.rule)
    BY <1>1, RuleAssumption DEF Kind, DaysFit
  <2>3. DOMAIN Weights(tape, p.rule) = DOMAIN tape
    <3>1. CASE p.rule.family \in Registry
      BY <3>1, FrameOf DEF IsFrame
    <3>2. CASE p.rule.family = "null"
      <4>1. Weights(tape, p.rule) = NullWeights(tape, p.rule)
        BY <3>2 DEF Weights, SleeveFamilies
      <4>. QED
        BY <4>1 DEF NullWeights
    <3>. QED
      BY <2>2, <3>1, <3>2 DEF RuleFits
  <2>4. RowFits(row, Unit)
    BY <1>0, <2>1, <2>2, <2>3, WeightsFit
  <2>5. ~Kind("overlay")
    BY <1>1 DEF Kind
  <2>. HIDE DEF row
  <2>6. Invested(row) =< Unit /\ \A x \in DOMAIN row : row[x] >= 0
    BY <1>a, <2>4
  <2>. QED
    BY <2>1, <2>5, <2>6 DEF row
<1>2. CASE Kind("walk")
  <2>1. Frame = Stitched(tape, p) /\ Allotted = p.share
    BY <1>2 DEF Frame, Kind, Allotted
  <2>2. /\ IsFiniteSet(p.candidates) /\ p.share \in Nat
        /\ \A u \in DOMAIN tape, c \in p.candidates : tape[u].hold[c] \in 0..Unit \cup {NaN}
    BY <1>2, RuleAssumption DEF Kind, DaysFit
  <2>3. DOMAIN Frame = DOMAIN tape
    BY <2>1 DEF Stitched
  <2>4. RowFits(row, p.share)
    BY <1>0, <2>1, <2>2, <2>3, StitchedFits
  <2>5. ~Kind("overlay")
    BY <1>2 DEF Kind
  <2>. HIDE DEF row
  <2>6. Invested(row) =< p.share /\ \A x \in DOMAIN row : row[x] >= 0
    BY <1>a, <2>4
  <2>. QED
    BY <2>1, <2>5, <2>6 DEF row
<1>3. CASE Kind("health")
  <2>1. Frame = Market(tape, p) /\ Allotted = Unit /\ ~Kind("overlay")
    BY <1>3 DEF Frame, Kind, Allotted
  <2>. DEFINE frames == Computed(tape, p)
  <2>2. Healthy(tape, p)
    BY <2>1 DEF Market
  <2>3. Combines(frames, p.split)
    BY <2>2 DEF Healthy
  <2>4. Frame = [u \in DOMAIN tape |-> CombinedRow(frames, p.split, u)]
    BY <2>1, <2>2 DEF Market
  <2>5. Core \in DOMAIN p.rules /\ frames[Core] = Weights(tape, p.rules[Core])
    BY <2>3 DEF Combines, Computed
  <2>6. p.rules[Core].family \in Registry
    BY <1>3, <2>5, ReportAssumption DEF Kind
  <2>7. DOMAIN frames[Core] = DOMAIN tape
    <3>1. IsFrame(Weights(tape, p.rules[Core]), tape, Universe(p.rules[Core]))
      BY <2>6, FrameOf
    <3>. HIDE DEF frames
    <3>. QED
      BY <2>5, <3>1 DEF IsFrame
  <2>. HIDE DEF frames
  <2>8. row = CombinedRow(frames, p.split, t) /\ t \in DOMAIN tape
    BY <2>4
  <2>9. LongOnly(row)
    BY <2>3, <2>7, <2>8 DEF Combines
  <2>. QED
    BY <2>1, <2>9 DEF LongOnly
<1>4. CASE Kind("factor")
  <2>1. Frame = FactorWeights(Panelled(tape, p), p) /\ Allotted = Unit /\ ~Kind("overlay")
    BY <1>4 DEF Frame, Kind, Allotted, FactorFamily
  <2>. DEFINE panel == Panelled(tape, p)
  <2>2. DOMAIN panel = 1..Len(tape)
    BY <1>0 DEF Panelled
  <2>3. panel \in Seq({panel[u] : u \in 1..Len(tape)})
    BY <1>0, <2>2 DEF Panelled
  <2>4. \A u \in DOMAIN tape, x \in Tickers : Scored(panel[u].score[x])
    <3>1. CompaniesFit(tape)
      BY <1>4 DEF DaysFit
    <3>2. ScoresCompanies(p)
      BY <1>4, RuleAssumption DEF Kind, ScoresCompanies
    <3>. QED
      BY <1>0, <3>1, <3>2, PanelledFits
  <2>. HIDE DEF panel
  <2>5. Len(panel) \in Nat /\ DOMAIN panel = 1..Len(panel) /\ DOMAIN panel = DOMAIN tape
    BY <1>0, <2>2, <2>3
  <2>6. p.hold \in Nat \ {0}
    BY <1>4, RuleAssumption DEF Kind
  <2>7. DOMAIN Frame = DOMAIN panel
    BY <2>1 DEF FactorWeights, panel
  <2>8. RowFits(row, Unit)
    BY <2>1, <2>4, <2>5, <2>6, <2>7, FactorFits DEF panel
  <2>. HIDE DEF row
  <2>9. Invested(row) =< Unit /\ \A x \in DOMAIN row : row[x] >= 0
    BY <1>a, <2>8
  <2>. QED
    BY <2>1, <2>9 DEF row
<1>5. CASE Kind("overlay")
  <2>1. Frame = BuildOverlay(tape, p) /\ Allotted = Unit
    BY <1>5 DEF Frame, Kind, Allotted
  <2>2. DOMAIN Frame = DOMAIN tape
    BY <2>1 DEF BuildOverlay, OverlayWeights
  <2>3. Overlaid(row, p)
    BY <1>0, <1>5, <2>1, <2>2, OverlayFits DEF Kind
  <2>. HIDE DEF row
  <2>4. Invested(row) =< Unit /\ \A x \in DOMAIN row : row[x] >= 0
    BY <1>a, <2>3 DEF Overlaid
  <2>5. OnlyDeRisks(row)
    BY <2>3 DEF OnlyDeRisks, Overlaid, Invested
  <2>. QED
    BY <2>1, <2>4, <2>5 DEF row
<1>6. CASE Kind("candidate")
  <2>. DEFINE book == Combined(tape, Exited(tape, p.rule), p)
  <2>1. Frame = book /\ Allotted = Unit /\ ~Kind("overlay")
    BY <1>6 DEF Frame, Kind, Allotted
  <2>. HIDE DEF book
  <2>2. book # <<>> /\ Frame = book
    BY <2>1
  <2>3. DOMAIN book = DOMAIN tape /\ \A u \in DOMAIN tape : LongOnly(book[u])
    BY <1>0, <1>6, <2>2, CombinedFits DEF Kind, DaysFit, GradeReads, book
  <2>. QED
    BY <2>1, <2>2, <2>3 DEF LongOnly
<1>7. CASE ~(\E k \in {"strategy", "walk", "health", "factor", "overlay", "candidate"} : Kind(k))
  BY <1>7 DEF Frame
<1>. QED
  BY <1>1, <1>2, <1>3, <1>4, <1>5, <1>6, <1>7

\* Whatever days bring: no book is short or above its capital, and the overlay
\* takes no risk that its base has not.
THEOREM NeverOverInvestedHolds == Spec /\ []DaysFit => NeverOverInvested
<1>1. ASSUME IsTape, subject \in Subjects, DaysFit
      PROVE  \A row \in Range(Frame) \ {NaN} :
               /\ Invested(row) =< Allotted
               /\ \A x \in DOMAIN row : row[x] >= 0
               /\ Kind("overlay") => OnlyDeRisks(row)
  <2>. SUFFICES ASSUME NEW t \in DOMAIN Frame, Frame[t] # NaN
                PROVE  /\ Invested(Frame[t]) =< Allotted
                       /\ \A x \in DOMAIN Frame[t] : Frame[t][x] >= 0
                       /\ Kind("overlay") => OnlyDeRisks(Frame[t])
    BY DEF Range
  <2>. QED
    BY <1>1, FramesFit
<1>. QED
  BY <1>1, TapeStays, SubjectStays, PTL DEF NeverOverInvested

-----------------------------------------------------------------------------
(* Books on days that have all their prices.                               *)

AllPriced(days) == \A t \in DOMAIN days, x \in Tickers : Priced(days, t, x)

\* A day's row of a book that can be held: no ticker is short, and all of them
\* are at most the capital.
DayFits(w, t) ==
  /\ \A x \in Tickers : Target(w, t, x) \in Nat
  /\ SumFunction([x \in Tickers |-> Target(w, t, x)]) =< Unit

BookFits(w) == \A t \in DOMAIN w : DayFits(w, t)

\* A row is not more than another one that has no less of any ticker.
LEMMA LessFits ==
  ASSUME NEW v, NEW w, NEW s, NEW t, DayFits(v, s),
         \A x \in Tickers : Target(w, t, x) \in Nat /\ Target(w, t, x) =< Target(v, s, x)
  PROVE  DayFits(w, t)
<1>. DEFINE f == [x \in Tickers |-> Target(w, t, x)]
            g == [x \in Tickers |-> Target(v, s, x)]
<1>1. \A x \in Tickers : f[x] \in Int /\ g[x] \in Int /\ f[x] =< g[x]
  BY DEF DayFits
<1>2. SumFunction(f) = SumFunctionOnSet(f, Tickers) /\ SumFunction(g) = SumFunctionOnSet(g, Tickers)
  BY DEF SumFunction, SumFunctionOnSet, FoldFunction
<1>3. SumFunctionOnSet(f, Tickers) \in Int /\ SumFunctionOnSet(g, Tickers) \in Int
  BY <1>1, SumGrows, TickersAssumption
<1>4. SumFunctionOnSet(f, Tickers) =< SumFunctionOnSet(g, Tickers)
  <2>. HIDE DEF f, g
  <2>. QED
    BY <1>1, SumRises, TickersAssumption
<1>5. SumFunction(g) =< Unit
  BY DEF DayFits
<1>6. SumFunction(f) =< Unit
  <2>. HIDE DEF f, g
  <2>. QED
    BY <1>2, <1>3, <1>4, <1>5, FramesAssumption
<1>. QED
  BY <1>6 DEF DayFits

\* If every day has its prices, the exits take nothing off.
LEMMA NoExits ==
  ASSUME NEW days, IsSeq(days), AllPriced(days), NEW t \in DOMAIN days, NEW x \in Tickers
  PROVE  ~MustBeOut(days, t, x)
<1>. DEFINE priced == {u \in DOMAIN days : Priced(days, u, x)}
<1>1. Len(days) \in Nat /\ DOMAIN days = 1..Len(days)
  BY DEF IsSeq
<1>2. priced = 1..Len(days) /\ priced # {}
  BY <1>1 DEF AllPriced
<1>3. Max(priced) \in priced /\ \A u \in priced : u =< Max(priced)
  BY <1>1, <1>2, LastDay
<1>4. Max(priced) = Len(days)
  <2>1. Len(days) \in priced
    BY <1>1, <1>2
  <2>. HIDE DEF priced
  <2>. QED
    BY <1>1, <1>2, <1>3, <2>1
<1>5. t < Len(days) => Priced(days, t + 1, x)
  BY <1>1 DEF AllPriced
<1>. QED
  BY <1>2, <1>4, <1>5 DEF MustBeOut

\* And the book is one that fits when what was wanted does.
LEMMA ExitsFit ==
  ASSUME NEW days, IsSeq(days), AllPriced(days), NEW w, DOMAIN w = DOMAIN days, BookFits(w)
  PROVE  BookFits(ExitBeforeDelisting(days, w, Tickers))
<1>. DEFINE book == ExitBeforeDelisting(days, w, Tickers)
<1>. SUFFICES ASSUME NEW t \in DOMAIN days
              PROVE  DayFits(book, t)
  BY DEF BookFits, ExitBeforeDelisting
<1>1. t \in Nat /\ ~(t < 1)
  BY DEF IsSeq
<1>2. ASSUME NEW x \in Tickers
      PROVE  Target(book, t, x) \in Nat /\ Target(book, t, x) =< Target(w, t, x)
  <2>1. Target(w, t, x) \in Nat
    BY DEF BookFits, DayFits
  <2>2. book[t][x] = Cell(w, t, x)
    BY NoExits DEF ExitBeforeDelisting
  <2>3. Cell(book, t, x) \in {NaN, Cell(w, t, x)}
    BY <2>2 DEF Cell
  <2>4. Target(book, t, x) \in {0, Target(w, t, x)}
    BY <1>1, <2>3 DEF Target
  <2>. QED
    BY <2>1, <2>4
<1>. QED
  BY <1>2, LessFits DEF BookFits

\* The exits of a longer book make a longer book.
LEMMA ExitsLonger ==
  ASSUME NEW a, NEW b, Longer(a, b), AllPriced(b), NEW v, NEW w, Longer(v, w), Len(v) = Len(a), Len(w) = Len(b)
  PROVE  /\ Longer(ExitBeforeDelisting(a, v, Tickers), ExitBeforeDelisting(b, w, Tickers))
         /\ Len(ExitBeforeDelisting(a, v, Tickers)) = Len(a)
         /\ Len(ExitBeforeDelisting(b, w, Tickers)) = Len(b)
<1>. DEFINE ea == ExitBeforeDelisting(a, v, Tickers)
            eb == ExitBeforeDelisting(b, w, Tickers)
<1>1. IsSeq(a) /\ IsSeq(b) /\ AllPriced(a)
  BY LongerDays DEF Longer, AllPriced, Priced
<1>2. ASSUME NEW days, IsSeq(days), NEW u
      PROVE  /\ IsSeq(ExitBeforeDelisting(days, u, Tickers))
             /\ Len(ExitBeforeDelisting(days, u, Tickers)) = Len(days)
  <2>. DEFINE e == ExitBeforeDelisting(days, u, Tickers)
  <2>1. Len(days) \in Nat /\ DOMAIN days = 1..Len(days)
    BY <1>2 DEF IsSeq
  <2>2. e \in Seq({e[t] : t \in DOMAIN days}) /\ Len(e) = Len(days)
    BY <2>1 DEF ExitBeforeDelisting
  <2>. QED
    BY <2>2 DEF IsSeq
<1>3. IsSeq(ea) /\ IsSeq(eb) /\ Len(ea) = Len(a) /\ Len(eb) = Len(b)
  BY <1>1, <1>2
<1>4. ASSUME NEW t \in 1..Len(a)
      PROVE  eb[t] = ea[t]
  <2>1. t \in DOMAIN a /\ t \in DOMAIN b /\ w[t] = v[t]
    BY LongerDays
  <2>2. \A x \in Tickers : ~MustBeOut(a, t, x) /\ ~MustBeOut(b, t, x)
    BY <1>1, <2>1, NoExits
  <2>. QED
    BY <2>1, <2>2 DEF ExitBeforeDelisting, Cell
<1>5. Len(ea) =< Len(eb)
  BY <1>3, LongerDays
<1>. QED
  BY <1>3, <1>4, <1>5 DEF Longer

-----------------------------------------------------------------------------
(* Runs that get longer.                                                   *)

\* The first signal stays the first.
LEMMA SameSignal ==
  ASSUME NEW v, NEW w, Longer(v, w), NEW tickers, FirstSignal(v, tickers) # 0
  PROVE  FirstSignal(w, tickers) = FirstSignal(v, tickers) /\ FirstSignal(v, tickers) \in 1..Len(v)
<1>. DEFINE rv == {u \in DOMAIN v : Complete(v, u, tickers)}
            rw == {u \in DOMAIN w : Complete(w, u, tickers)}
<1>1. /\ FirstSignal(v, tickers) = (IF rv = {} THEN 0 ELSE Min(rv))
      /\ FirstSignal(w, tickers) = (IF rw = {} THEN 0 ELSE Min(rw))
  BY DEF FirstSignal
<1>2. rv # {}
  BY <1>1
<1>3. \A u \in DOMAIN v : Complete(w, u, tickers) = Complete(v, u, tickers)
  BY LongerDays DEF Complete, Cell
<1>4. /\ Len(v) \in Nat /\ rv \in SUBSET Nat /\ rw \in SUBSET Nat /\ rv \in SUBSET (1..Len(v))
      /\ rv = rw \cap (1..Len(v)) /\ ~(0 \in rw)
  BY <1>3, LongerDays
<1>. HIDE DEF rv, rw
<1>5. Min(rw) = Min(rv) /\ rw # {} /\ Min(rv) \in rv
  BY <1>2, <1>4, SameFirst, FirstDay
<1>. QED
  BY <1>1, <1>2, <1>4, <1>5

\* A run on days with all their prices goes on if its book fits.
LEMMA StillRuns ==
  ASSUME NEW a, NEW b, Longer(a, b), NEW v, NEW w, Longer(v, w), Len(v) = Len(a), Len(w) = Len(b),
         AllPriced(b), BookFits(w), ~Refuses(a, v, Tickers)
  PROVE  ~Refuses(b, w, Tickers)
<1>. DEFINE first == FirstSignal(v, Tickers)
<1>1. first # 0 /\ first # Len(a)
  BY DEF Refuses
<1>2. FirstSignal(w, Tickers) = first /\ first \in 1..Len(v)
  BY <1>1, SameSignal
<1>3. /\ Len(a) \in Nat /\ Len(b) \in Nat /\ Len(a) =< Len(b)
      /\ DOMAIN b = 1..Len(b) /\ DOMAIN w = 1..Len(b)
  BY LongerDays
<1>4. FirstSignal(w, Tickers) # 0 /\ FirstSignal(w, Tickers) # Len(b)
  <2>1. first \in 1..Len(a)
    BY <1>2
  <2>. HIDE DEF first
  <2>2. first \in Int /\ 1 =< first /\ first < Len(b)
    BY <1>1, <1>3, <2>1
  <2>. QED
    BY <1>2, <2>2
<1>5. ASSUME NEW t \in DOMAIN w, NEW x \in Tickers
      PROVE  ~MissingPrice(b, w, t, x) /\ ~(Target(w, t, x) < 0)
  <2>1. t \in DOMAIN b /\ (t > 1 => t - 1 \in DOMAIN b)
    BY <1>3
  <2>2. ~MissingPrice(b, w, t, x)
    BY <2>1 DEF MissingPrice, AllPriced
  <2>3. Target(w, t, x) \in Nat
    BY DEF BookFits, DayFits
  <2>. QED
    BY <2>2, <2>3
<1>6. ASSUME NEW t \in DOMAIN w
      PROVE  ~(SumFunction([x \in Tickers |-> Target(w, t, x)]) > Unit)
  <2>. DEFINE f == [x \in Tickers |-> Target(w, t, x)]
  <2>1. SumFunction(f) =< Unit /\ \A x \in Tickers : f[x] \in Int
    BY DEF BookFits, DayFits
  <2>2. SumFunction(f) = SumFunctionOnSet(f, Tickers)
    BY DEF SumFunction, SumFunctionOnSet, FoldFunction
  <2>. HIDE DEF f
  <2>3. SumFunctionOnSet(f, Tickers) \in Int
    BY <2>1, SumGrows, TickersAssumption
  <2>4. ~(SumFunction(f) > Unit)
    BY <2>1, <2>2, <2>3, FramesAssumption
  <2>. QED
    BY <2>4 DEF f
<1>. QED
  BY <1>4, <1>5, <1>6 DEF Refuses

\* A run that has results up to day n, and one that agrees with it and has more.
GoesOn(ra, rb, n, m) ==
  \E first \in Nat \ {0} :
    /\ first < n
    /\ DOMAIN ra = first + 1..n /\ DOMAIN rb = first + 1..m
    /\ \A t \in first + 1..n : rb[t] = ra[t]

\* What is left of a sequence from one of its places on.
LEMMA RestOf ==
  ASSUME NEW s, IsSeq(s), NEW m \in Nat \ {0}, NEW t \in DOMAIN SubSeq(s, m, Len(s))
  PROVE  t + m - 1 \in DOMAIN s /\ SubSeq(s, m, Len(s))[t] = s[t + m - 1]
<1>1. PICK S : s \in Seq(S)
  BY DEF IsSeq
<1>2. Len(s) \in Nat /\ DOMAIN s = 1..Len(s)
  BY <1>1
<1>3. DOMAIN SubSeq(s, m, Len(s)) = 1..Len(s) - m + 1
  BY <1>1, <1>2
<1>. QED
  BY <1>1, <1>2, <1>3

\* The forward track of a book that fits.
LEMMA TrackGoesOn ==
  ASSUME NEW a, NEW b, Longer(a, b), AllPriced(b), NEW p, p.start \in Nat \ {0},
         NEW v, NEW w, Longer(v, w), Len(v) = Len(a), Len(w) = Len(b), BookFits(w),
         ~Refuses(ForwardDays(a, p), ForwardRows(a, v, p), Tickers)
  PROVE  /\ ~Refuses(ForwardDays(b, p), ForwardRows(b, w, p), Tickers)
         /\ GoesOn(Forward(a, v, p), Forward(b, w, p), Len(ForwardDays(a, p)), Len(ForwardDays(b, p)))
         /\ Len(ForwardDays(a, p)) \in Nat /\ Len(ForwardDays(b, p)) \in Nat
         /\ Len(ForwardDays(a, p)) =< Len(ForwardDays(b, p))
<1>. DEFINE da == ForwardDays(a, p)
            db == ForwardDays(b, p)
            wa == ForwardRows(a, v, p)
            wb == ForwardRows(b, w, p)
            first == FirstSignal(wa, Tickers)
<1>1. Longer(da, db) /\ Longer(wa, wb)
  BY SlicesLonger DEF ForwardDays, ForwardRows
<1>2. Len(wa) = Len(da) /\ Len(wb) = Len(db)
  <2>1. IsSeq(a) /\ IsSeq(v) /\ IsSeq(b) /\ IsSeq(w)
    BY DEF Longer
  <2>. QED
    BY <2>1 DEF IsSeq, ForwardDays, ForwardRows
<1>3. \A t \in DOMAIN db : t + p.start - 1 \in DOMAIN b /\ db[t] = b[t + p.start - 1] /\ wb[t] = w[t + p.start - 1]
  <2>. SUFFICES ASSUME NEW t \in DOMAIN db
                PROVE  t + p.start - 1 \in DOMAIN b /\ db[t] = b[t + p.start - 1] /\ wb[t] = w[t + p.start - 1]
    OBVIOUS
  <2>1. IsSeq(b) /\ IsSeq(w)
    BY DEF Longer
  <2>2. t + p.start - 1 \in DOMAIN b /\ db[t] = b[t + p.start - 1]
    BY <2>1, RestOf DEF ForwardDays
  <2>3. t \in DOMAIN wb /\ wb = SubSeq(w, p.start, Len(w))
    BY <1>1, <1>2, LongerDays DEF ForwardRows
  <2>. HIDE DEF wb
  <2>4. wb[t] = w[t + p.start - 1]
    BY <2>1, <2>3, RestOf
  <2>. QED
    BY <2>2, <2>4
<1>4. AllPriced(db)
  BY <1>3 DEF AllPriced, Priced
<1>5. BookFits(wb)
  <2>. SUFFICES ASSUME NEW t \in DOMAIN wb
                PROVE  DayFits(wb, t)
    BY DEF BookFits
  <2>1. t \in DOMAIN db /\ t >= 1 /\ t \in Int
    BY <1>1, <1>2, LongerDays
  <2>2. t + p.start - 1 \in DOMAIN w /\ t + p.start - 1 >= 1
    BY <1>3, <2>1, LongerDays
  <2>3. \A x \in Tickers : Target(wb, t, x) = Target(w, t + p.start - 1, x)
    BY <1>3, <2>1, <2>2 DEF Target, Cell
  <2>. QED
    BY <2>2, <2>3 DEF BookFits, DayFits
<1>6. ~Refuses(db, wb, Tickers)
  BY <1>1, <1>2, <1>4, <1>5, StillRuns
<1>7. first # 0 /\ first # Len(da)
  BY DEF Refuses
<1>8. FirstSignal(wb, Tickers) = first /\ first \in 1..Len(da)
  BY <1>1, <1>2, <1>7, SameSignal
<1>9. Len(da) \in Nat /\ Len(db) \in Nat /\ Len(da) =< Len(db)
  BY <1>1, LongerDays
<1>10. /\ Forward(a, v, p) = [t \in first + 1..Len(da) |-> Growth(da, wa, t, Tickers, p.cost)]
       /\ Forward(b, w, p) = [t \in first + 1..Len(db) |-> Growth(db, wb, t, Tickers, p.cost)]
  BY <1>6, <1>8 DEF Forward, RunBacktest, Traded
<1>11. \A t \in first + 1..Len(da) : Growth(db, wb, t, Tickers, p.cost) = Growth(da, wa, t, Tickers, p.cost)
  <2>. SUFFICES ASSUME NEW t \in first + 1..Len(da)
                PROVE  Growth(db, wb, t, Tickers, p.cost) = Growth(da, wa, t, Tickers, p.cost)
    OBVIOUS
  <2>1. t \in 1..Len(da)
    <3>. HIDE DEF first, da
    <3>. QED
      BY <1>8, <1>9
  <2>. QED
    BY <1>1, <1>2, <2>1, SameGrowth
<1>. HIDE DEF da, db, wa, wb, first
<1>12. GoesOn(Forward(a, v, p), Forward(b, w, p), Len(da), Len(db))
  <2>1. first \in Nat \ {0} /\ first < Len(da) /\ \A t \in first + 1..Len(da) : t \in first + 1..Len(db)
    BY <1>7, <1>8, <1>9
  <2>2. \A t \in first + 1..Len(da) : Forward(b, w, p)[t] = Forward(a, v, p)[t]
    BY <1>10, <1>11, <2>1
  <2>. QED
    BY <1>10, <2>1, <2>2 DEF GoesOn
<1>. QED
  BY <1>6, <1>9, <1>12 DEF da, db, wb

-----------------------------------------------------------------------------
(* The paper track.                                                        *)

\* What a track was up to a day is what it still is.
LEMMA SamePast ==
  ASSUME NEW ra, NEW rb, NEW n \in Nat, NEW m \in Nat, n =< m, GoesOn(ra, rb, n, m)
  PROVE  /\ \A day \in Int : day =< n => Restrict(rb, Until(rb, day)) = Restrict(ra, Until(ra, day))
         /\ Max(DOMAIN ra) = n /\ Max(DOMAIN rb) = m
         /\ DOMAIN ra \subseteq DOMAIN rb /\ DOMAIN ra \subseteq 1..n /\ DOMAIN rb \subseteq 1..m
<1>1. PICK first \in Nat \ {0} :
        /\ first < n
        /\ DOMAIN ra = first + 1..n /\ DOMAIN rb = first + 1..m
        /\ \A t \in first + 1..n : rb[t] = ra[t]
  BY DEF GoesOn
<1>2. ASSUME NEW day \in Int, day =< n
      PROVE  Restrict(rb, Until(rb, day)) = Restrict(ra, Until(ra, day))
  <2>1. Until(rb, day) = Until(ra, day) /\ \A t \in Until(ra, day) : rb[t] = ra[t]
    BY <1>1, <1>2 DEF Until
  <2>. QED
    BY <2>1 DEF Restrict
<1>3. ASSUME NEW k \in Nat, first < k
      PROVE  Max(first + 1..k) = k
  <2>. DEFINE S == first + 1..k
  <2>1. S \in SUBSET (1..k) /\ k \in S
    BY <1>1, <1>3
  <2>2. Max(S) \in S /\ \A u \in S : u =< Max(S)
    <3>. HIDE DEF S
    <3>. QED
      BY <2>1, LastDay
  <2>3. k =< Max(S) /\ Max(S) =< k /\ Max(S) \in Int
    BY <1>1, <2>1, <2>2
  <2>. QED
    BY <2>3
<1>4. Max(DOMAIN ra) = n /\ Max(DOMAIN rb) = m
  BY <1>1, <1>3
<1>. QED
  BY <1>1, <1>2, <1>4

\* A kill that was found is still found.
LEMMA KillStays ==
  ASSUME NEW p, p.review \in Nat, NEW n \in Nat, NEW m \in Nat, n =< m,
         NEW ra, NEW rb, GoesOn(ra, rb, n, m), NEW ca, NEW cb, GoesOn(ca, cb, n, m),
         FindKill(ra, ca, p) # NaN
  PROVE  FindKill(rb, cb, p) # NaN
<1>. DEFINE limit == Times(p.multiple, p.researchFall)
            deep(r) == {t \in DOMAIN r : Higher(Fallen(r, t), limit)}
            hits(r, c) == {DrawdownKill(r, p), UnderperformanceKill(r, c, p)} \ {NaN}
<1>1. /\ DOMAIN ra \subseteq DOMAIN rb /\ DOMAIN ra \subseteq 1..n /\ DOMAIN rb \subseteq 1..m
      /\ Max(DOMAIN ra) = n /\ Max(DOMAIN rb) = m
  BY SamePast
<1>2. ASSUME NEW day \in Int, day =< n
      PROVE  /\ Fallen(rb, day) = Fallen(ra, day)
             /\ Cumulative(rb, day) = Cumulative(ra, day) /\ Cumulative(cb, day) = Cumulative(ca, day)
  <2>1. /\ \A u \in Int : u =< n => Restrict(rb, Until(rb, u)) = Restrict(ra, Until(ra, u))
        /\ \A u \in Int : u =< n => Restrict(cb, Until(cb, u)) = Restrict(ca, Until(ca, u))
    BY SamePast
  <2>2. /\ Restrict(rb, Until(rb, day)) = Restrict(ra, Until(ra, day))
        /\ Restrict(cb, Until(cb, day)) = Restrict(ca, Until(ca, day))
    BY <1>2, <2>1
  <2>. QED
    BY <2>2 DEF Fallen, Cumulative
<1>3. deep(ra) \subseteq deep(rb) /\ deep(rb) \in SUBSET Nat
  <2>1. \A t \in DOMAIN ra : t \in Int /\ t =< n /\ t \in DOMAIN rb
    BY <1>1
  <2>. HIDE DEF limit
  <2>. QED
    BY <1>1, <1>2, <2>1
<1>4. DrawdownKill(ra, p) = (IF deep(ra) = {} THEN NaN ELSE Min(deep(ra)))
      /\ DrawdownKill(rb, p) = (IF deep(rb) = {} THEN NaN ELSE Min(deep(rb)))
  BY DEF DrawdownKill
<1>5. DrawdownKill(rb, p) \in Nat \cup {NaN}
  <2>. HIDE DEF deep
  <2>. QED
    BY <1>3, <1>4, FirstDay
<1>6. DrawdownKill(ra, p) # NaN => DrawdownKill(rb, p) # NaN
  <2>. HIDE DEF deep
  <2>1. deep(rb) # {} => Min(deep(rb)) \in Nat
    BY <1>3, FirstDay
  <2>. QED
    BY <1>3, <1>4, <2>1, FramesAssumption
<1>7. UnderperformanceKill(rb, cb, p) \in Nat \cup {NaN}
  BY DEF UnderperformanceKill
<1>8. UnderperformanceKill(ra, ca, p) # NaN => UnderperformanceKill(rb, cb, p) # NaN
  <2>. SUFFICES ASSUME UnderperformanceKill(ra, ca, p) # NaN
                PROVE  UnderperformanceKill(rb, cb, p) # NaN
    OBVIOUS
  <2>1. ~(n < 1 + p.review)
    BY <1>1 DEF UnderperformanceKill
  <2>2. 1 + p.review \in Int /\ 1 + p.review =< n /\ ~(m < 1 + p.review)
    BY <2>1
  <2>3. /\ Cumulative(rb, 1 + p.review) = Cumulative(ra, 1 + p.review)
        /\ Cumulative(cb, 1 + p.review) = Cumulative(ca, 1 + p.review)
    BY <1>2, <2>2
  <2>4. Higher(p.minExcess, Minus(Cumulative(ra, 1 + p.review), Cumulative(ca, 1 + p.review)))
    BY DEF UnderperformanceKill
  <2>5. UnderperformanceKill(rb, cb, p) = 1 + p.review
    BY <1>1, <2>2, <2>3, <2>4 DEF UnderperformanceKill
  <2>. QED
    BY <2>2, <2>5, FramesAssumption
<1>9. hits(ra, ca) # {}
  BY DEF FindKill
<1>10. hits(rb, cb) # {} /\ hits(rb, cb) \in SUBSET Nat
  BY <1>5, <1>6, <1>7, <1>8, <1>9
<1>11. FindKill(rb, cb, p) = Min(hits(rb, cb))
  BY <1>10 DEF FindKill
<1>. HIDE DEF hits
<1>12. Min(hits(rb, cb)) \in Nat
  BY <1>10, FirstDay
<1>. QED
  BY <1>11, <1>12, FramesAssumption

\* The wants of a track's days can be held, and its members are finitely many.
WantsFit ==
  Kind("paper") => BookFits(Wanted(tape)) /\ \A t \in DOMAIN tape : IsFiniteSet(tape[t].member)

\* The null's weights on a longer tape are a longer book.
LEMMA NullLonger ==
  ASSUME NEW a, NEW b, Longer(a, b), NEW p
  PROVE  /\ Longer(NullWeights(a, p), NullWeights(b, p))
         /\ Len(NullWeights(a, p)) = Len(a) /\ Len(NullWeights(b, p)) = Len(b)
<1>1. ASSUME NEW days, IsSeq(days)
      PROVE  IsSeq(NullWeights(days, p)) /\ Len(NullWeights(days, p)) = Len(days)
  <2>. DEFINE w == NullWeights(days, p)
  <2>1. Len(days) \in Nat /\ DOMAIN days = 1..Len(days)
    BY <1>1 DEF IsSeq
  <2>2. w = [t \in 1..Len(days) |-> w[t]]
    BY <2>1 DEF NullWeights
  <2>3. w \in Seq({w[t] : t \in 1..Len(days)}) /\ Len(w) = Len(days)
    <3>. HIDE DEF w
    <3>. QED
      BY <2>1, <2>2
  <2>. QED
    BY <2>3 DEF IsSeq
<1>2. IsSeq(a) /\ IsSeq(b) /\ Len(a) =< Len(b)
  BY DEF Longer
<1>3. \A t \in 1..Len(a) : NullWeights(b, p)[t] = NullWeights(a, p)[t]
  BY SameNullWeights
<1>4. /\ IsSeq(NullWeights(a, p)) /\ Len(NullWeights(a, p)) = Len(a)
      /\ IsSeq(NullWeights(b, p)) /\ Len(NullWeights(b, p)) = Len(b)
  BY <1>1, <1>2
<1>5. /\ Len(NullWeights(a, p)) =< Len(NullWeights(b, p))
      /\ \A t \in 1..Len(NullWeights(a, p)) : NullWeights(b, p)[t] = NullWeights(a, p)[t]
  BY <1>2, <1>3, <1>4
<1>. QED
  BY <1>4, <1>5 DEF Longer

\* An equal split of the capital can be held.
LEMMA NullFits ==
  ASSUME NEW days, \A t \in DOMAIN days : IsFiniteSet(days[t].member), NEW p
  PROVE  BookFits(NullWeights(days, p))
<1>. DEFINE w == NullWeights(days, p)
<1>. SUFFICES ASSUME NEW t \in DOMAIN days
              PROVE  DayFits(w, t)
  BY DEF BookFits, NullWeights
<1>. DEFINE held == {x \in days[t].member :
                       IF p.trended THEN AboveMean(Closes(days, x), t, p.lookback) ELSE Priced(days, t, x)}
            even == [u \in {1} |-> [x \in Tickers |-> EqualSplit(held, Unit, x)]]
            f == [x \in Tickers |-> EqualSplit(held, Unit, x)]
            g == [x \in Tickers |-> Target(w, t, x)]
<1>1. IsFiniteSet(held)
  BY FS_Subset
<1>2. (\A x \in Tickers : f[x] \in Nat) /\ SumFunction(f) =< Unit
  <2>. HIDE DEF held
  <2>. QED
    BY <1>1, SplitFits, TickersAssumption, FramesAssumption
<1>3. w[t] = f
  BY DEF NullWeights
<1>4. ASSUME NEW x \in Tickers
      PROVE  g[x] \in {0, f[x]}
  <2>. HIDE DEF w, f
  <2>. QED
    BY <1>3, <1>4 DEF Target, Cell
<1>. HIDE DEF f
<1>5. \A x \in Tickers : f[x] \in Int /\ g[x] \in Int /\ g[x] =< f[x] /\ g[x] \in Nat
  BY <1>2, <1>4
<1>6. SumFunctionOnSet(g, Tickers) =< SumFunctionOnSet(f, Tickers)
  <2>. HIDE DEF g
  <2>. QED
    BY <1>5, SumRises, TickersAssumption
<1>7. SumFunctionOnSet(f, Tickers) \in Int /\ SumFunctionOnSet(g, Tickers) \in Int
  <2>. HIDE DEF g
  <2>. QED
    BY <1>5, SumGrows, TickersAssumption
<1>8. SumFunction(f) = SumFunctionOnSet(f, Tickers) /\ SumFunction(g) = SumFunctionOnSet(g, Tickers)
  BY DEF SumFunction, SumFunctionOnSet, FoldFunction, f
<1>9. SumFunction(g) =< Unit
  <2>. HIDE DEF g
  <2>. QED
    BY <1>2, <1>6, <1>7, <1>8, FramesAssumption
<1>. HIDE DEF w
<1>. QED
  BY <1>5, <1>9 DEF DayFits

-----------------------------------------------------------------------------
(* Drops.                                                                  *)

\* Both tracks have results.
TracksRun(days, p) ==
  /\ ~(Len(days) < p.start + 1)
  /\ ~Refuses(ForwardDays(days, p), ForwardRows(days, CandidateBook(days), p), Tickers)
  /\ ~Refuses(ForwardDays(days, p), ForwardRows(days, BaseBook(days, p), p), Tickers)

\* A candidate is dropped where they have and there is a kill.
LEMMA DroppedFacts ==
  ASSUME NEW days, NEW p, p.promote \in Nat, Max(DOMAIN Forward(days, CandidateBook(days), p)) \in Nat
  PROVE  Status(days, p) = "dropped" <=>
           /\ TracksRun(days, p)
           /\ FindKill(Forward(days, CandidateBook(days), p), Forward(days, BaseBook(days, p), p), p) # NaN
<1>. DEFINE kill == FindKill(Forward(days, CandidateBook(days), p), Forward(days, BaseBook(days, p), p), p)
            last == Max(DOMAIN Forward(days, CandidateBook(days), p))
<1>1. ASSUME NEW excess
      PROVE  StatusFor(last, excess, kill, p) = "dropped" <=> kill # NaN
  <2>1. last >= 1 + p.promote \/ last < 1 + p.promote
    <3>1. last \in Nat
      OBVIOUS
    <3>. HIDE DEF last
    <3>. QED
      BY <3>1
  <2>. HIDE DEF last, kill
  <2>. QED
    BY <2>1 DEF StatusFor
<1>. QED
  BY <1>1 DEF Status, TracksRun

\* Whatever the days bring, however many tickers there are, and whatever the
\* limits and the days of judgement: a candidate that was dropped is dropped
\* in every later run, although each recomputes the track, as long as every
\* day has all its prices and what the candidate wants can be held
\* (track_candidate, find_kill).
THEOREM DropsAreFinalHolds == Spec /\ []WantsFit => DropsAreFinal
<1>1. IsTape /\ IsTape' /\ subject \in Subjects /\ WantsFit /\ WantsFit' /\ [Next]_vars
        => [Kind("paper") /\ tape' # <<>> /\ (\A t \in DOMAIN tape', x \in Tickers : Priced(tape', t, x))
              /\ Status(tape, subject) = "dropped" => Status(tape', subject) = "dropped"]_vars
  <2>. SUFFICES ASSUME IsTape, IsTape', subject \in Subjects, WantsFit', [Next]_vars,
                       Kind("paper"), tape' # <<>>, AllPriced(tape'), Status(tape, subject) = "dropped"
                PROVE  Status(tape', subject) = "dropped"
    BY DEF AllPriced
  <2>. DEFINE a == tape
              b == tape'
              p == subject
              ra == Forward(a, CandidateBook(a), p)
              rb == Forward(b, CandidateBook(b), p)
              ca == Forward(a, BaseBook(a, p), p)
              cb == Forward(b, BaseBook(b, p), p)
              n == Len(ForwardDays(a, p))
              m == Len(ForwardDays(b, p))
  <2>1. Longer(a, b) /\ subject' = subject
    BY StepIsLonger
  <2>2. p.start \in Nat \ {0} /\ p.review \in Nat /\ p.promote \in Nat
    BY CalendarAssumption DEF Kind
  <2>3. Longer(Wanted(a), Wanted(b)) /\ Len(Wanted(a)) = Len(a) /\ Len(Wanted(b)) = Len(b)
    BY <2>1, WantedLonger
  <2>4. /\ Longer(NullWeights(a, p.baseline), NullWeights(b, p.baseline))
        /\ Len(NullWeights(a, p.baseline)) = Len(a) /\ Len(NullWeights(b, p.baseline)) = Len(b)
    BY <2>1, NullLonger
  <2>5. BookFits(Wanted(b)) /\ BookFits(NullWeights(b, p.baseline))
    BY <2>1, NullFits DEF WantsFit, Kind
  <2>. HIDE DEF a, b, p
  <2>6. /\ Longer(CandidateBook(a), CandidateBook(b))
        /\ Len(CandidateBook(a)) = Len(a) /\ Len(CandidateBook(b)) = Len(b)
    BY <2>1, <2>3, ExitsLonger DEF CandidateBook, b
  <2>7. /\ Longer(BaseBook(a, p), BaseBook(b, p))
        /\ Len(BaseBook(a, p)) = Len(a) /\ Len(BaseBook(b, p)) = Len(b)
    BY <2>1, <2>4, ExitsLonger DEF BaseBook, b
  <2>8. BookFits(CandidateBook(b)) /\ BookFits(BaseBook(b, p))
    <3>1. IsSeq(b) /\ DOMAIN Wanted(b) = DOMAIN b /\ DOMAIN NullWeights(b, p.baseline) = DOMAIN b
      BY <2>1 DEF Longer, Wanted, NullWeights
    <3>. QED
      BY <2>5, <3>1, ExitsFit DEF CandidateBook, BaseBook, b
  <2>9. Status(a, p) = "dropped"
    BY DEF a, p
  <2>10. TracksRun(a, p)
    BY <2>9 DEF Status, TracksRun
  <2>11. /\ ~Refuses(ForwardDays(b, p), ForwardRows(b, CandidateBook(b), p), Tickers)
         /\ GoesOn(ra, rb, n, m) /\ n \in Nat /\ m \in Nat /\ n =< m
    BY <2>1, <2>2, <2>6, <2>8, <2>10, TrackGoesOn DEF b, TracksRun
  <2>12. /\ ~Refuses(ForwardDays(b, p), ForwardRows(b, BaseBook(b, p), p), Tickers)
         /\ GoesOn(ca, cb, n, m)
    BY <2>1, <2>2, <2>7, <2>8, <2>10, TrackGoesOn DEF b, TracksRun
  <2>13. FindKill(rb, cb, p) # NaN
    <3>1. Max(DOMAIN ra) \in Nat
      BY <2>11, SamePast
    <3>2. FindKill(ra, ca, p) # NaN
      BY <2>2, <2>9, <3>1, DroppedFacts
    <3>. QED
      BY <2>2, <2>11, <2>12, <3>2, KillStays
  <2>14. TracksRun(b, p)
    <3>1. ~(Len(b) < p.start + 1)
      BY <2>1, <2>2, <2>10, LongerDays DEF a, b, TracksRun
    <3>. QED
      BY <2>11, <2>12, <3>1 DEF TracksRun
  <2>15. Max(DOMAIN rb) \in Nat
    BY <2>11, SamePast
  <2>16. Status(b, p) = "dropped"
    BY <2>2, <2>13, <2>14, <2>15, DroppedFacts
  <2>. QED
    BY <2>1, <2>16 DEF b, p
<1>. QED
  BY <1>1, TapeStays, SubjectStays, PTL DEF Spec, DropsAreFinal

-----------------------------------------------------------------------------
(* What a run grows to.                                                    *)

\* The opens and closes of a market are positive.
OpensFit ==
  Kind("market") =>
    \A t \in DOMAIN tape, x \in Tickers :
      Priced(tape, t, x) => tape[t].bars[x].open \in Nat \ {0} /\ tape[t].bars[x].close \in Nat \ {0}

\* What is earned is one and a sum of fractions.
LEMMA EarnedIsFold ==
  ASSUME NEW weight, IsFiniteSet(DOMAIN weight), NEW change
  PROVE  Earned(weight, change) =
           Plus(One, Fold("plus", [x \in DOMAIN weight |-> Times(Ratio(weight[x], Unit), change[x])],
                          DOMAIN weight))
<1>. DEFINE D == DOMAIN weight
            f == [x \in D |-> Times(Ratio(weight[x], Unit), change[x])]
            F(j) == [s \in SUBSET D |-> IF s = {} THEN Ratio(0, 1)
                                        ELSE Plus(Times(Ratio(weight[First(s)], Unit), change[First(s)]),
                                                  j[s \ {First(s)}])]
            iter == CHOOSE j : j = F(j)
<1>1. Earned(weight, change) = Plus(One, iter[D])
  BY DEF Earned, Total, FoldSet, MapThenFoldSet, First, One
<1>2. PICK i : Folds("plus", i, f, D)
  BY FoldsExist
<1>0. \A s \in SUBSET D : s # {} =>
        /\ s \ {First(s)} \in SUBSET D
        /\ f[First(s)] = Times(Ratio(weight[First(s)], Unit), change[First(s)])
  <2>1. \A s : s # {} => First(s) \in s
    BY DEF First
  <2>. QED
    BY <2>1
<1>. DEFINE mine == [s \in SUBSET D |-> i[s]]
<1>3. mine = F(mine)
  <2>1. ASSUME NEW s \in SUBSET D
        PROVE  mine[s] = F(mine)[s]
    <3>1. s # {} => s \ {First(s)} \in SUBSET D /\ f[First(s)] = Times(Ratio(weight[First(s)], Unit), change[First(s)])
      BY <1>0
    <3>. HIDE DEF f
    <3>2. i[s] = IF s = {} THEN Ratio(0, 1) ELSE Plus(f[First(s)], i[s \ {First(s)}])
      BY <1>2 DEF Folds, Combine, Neutral
    <3>. QED
      BY <3>1, <3>2
  <2>. QED
    BY <2>1
<1>4. iter = F(iter)
  <2>. HIDE DEF F, mine
  <2>. QED
    BY <1>3
<1>5. Folds("plus", iter, f, D)
  <2>. HIDE DEF iter
  <2>. SUFFICES ASSUME NEW s \in SUBSET D
                PROVE  iter[s] = IF s = {} THEN Ratio(0, 1) ELSE Plus(f[First(s)], iter[s \ {First(s)}])
    BY DEF Folds, Combine, Neutral
  <2>1. s # {} => f[First(s)] = Times(Ratio(weight[First(s)], Unit), change[First(s)])
    BY <1>0
  <2>. HIDE DEF f
  <2>. QED
    BY <1>4, <2>1
<1>6. Fold("plus", f, D) = iter[D]
  <2>. HIDE DEF iter, f
  <2>. QED
    BY <1>5, FoldIsTabled
<1>. QED
  BY <1>1, <1>6

\* A book that is all in one ticker, or in none, earns what that changes.
LEMMA EarnedByOne ==
  ASSUME NEW weight, IsFiniteSet(DOMAIN weight), NEW change, NEW y,
         \A x \in DOMAIN weight : weight[x] = (IF x = y THEN Unit ELSE 0) /\ Lowest(change[x])
  PROVE  Earned(weight, change) = IF y \in DOMAIN weight THEN Plus(One, change[y]) ELSE One
<1>. DEFINE D == DOMAIN weight
            f == [x \in D |-> Times(Ratio(weight[x], Unit), change[x])]
            S == D \cap {y}
<1>1. ASSUME NEW x \in D
      PROVE  f[x] = IF x = y THEN change[x] ELSE Ratio(0, 1)
  <2>. DEFINE c == change[x]
  <2>1. Worth(c, c.n, c.d)
    BY LowestWorth
  <2>2. c.n \in Int /\ c.d \in Nat \ {0}
    BY <2>1 DEF Worth
  <2>3. CASE x = y
    <3>1. Worth(Ratio(Unit, Unit), Unit, Unit)
      BY RatioWorth, FramesAssumption
    <3>2. Worth(Times(Ratio(Unit, Unit), c), Unit * c.n, Unit * c.d)
      BY <2>1, <3>1, TimesWorth
    <3>3. (Unit * c.n) * c.d = c.n * (Unit * c.d)
      BY <2>2, FramesAssumption
    <3>4. Worth(Times(Ratio(Unit, Unit), c), c.n, c.d)
      BY <2>2, <3>2, <3>3, WorthSame
    <3>5. Times(Ratio(Unit, Unit), c) = c
      BY <2>1, <3>4, WorthIsUnique
    <3>. QED
      BY <2>3, <3>5
  <2>4. CASE x # y
    <3>1. Worth(Ratio(0, Unit), 0, Unit)
      BY RatioWorth, FramesAssumption
    <3>2. Worth(Times(Ratio(0, Unit), c), 0 * c.n, Unit * c.d)
      BY <2>1, <3>1, TimesWorth
    <3>3. (0 * c.n) * 1 = 0 * (Unit * c.d)
      BY <2>2, FramesAssumption
    <3>4. Worth(Times(Ratio(0, Unit), c), 0, 1)
      BY <2>2, <3>2, <3>3, WorthSame
    <3>5. Worth(Ratio(0, 1), 0, 1)
      BY RatioWorth
    <3>6. Times(Ratio(0, Unit), c) = Ratio(0, 1)
      BY <3>4, <3>5, WorthIsUnique
    <3>. QED
      BY <2>4, <3>6
  <2>. QED
    BY <2>3, <2>4
<1>2. Lowest(Ratio(0, 1)) /\ Lowest(Ratio(1, 1))
  BY RatioWorth DEF Worth
<1>3. \A x \in D : Lowest(f[x])
  BY <1>1, <1>2
<1>4. Earned(weight, change) = Plus(One, Fold("plus", f, D))
  BY EarnedIsFold
<1>5. S \in SUBSET D /\ IsFiniteSet(S) /\ (\A x \in D \ S : f[x] = Neutral("plus")) /\ (\A x \in S : Lowest(f[x]))
  BY <1>1, <1>3, FS_Subset DEF Neutral
<1>. HIDE DEF f
<1>6. Fold("plus", f, D) = Fold("plus", f, S)
  BY <1>3, <1>5, FoldWithoutNeutral
<1>7. Fold("plus", f, {}) = Neutral("plus")
  BY <1>3, FoldGrows
<1>8. Plus(One, Neutral("plus")) = One
  BY <1>2, CombineLaws DEF Combine, One, Neutral
<1>9. CASE y \in D
  <2>1. {} = S \ {y} /\ y \in S
    BY <1>9
  <2>2. Fold("plus", f, S) = Combine("plus", f[y], Fold("plus", f, {}))
    <3>. HIDE DEF S
    <3>. QED
      BY <1>5, <2>1, FoldOfOneMore, SMT
  <2>3. Fold("plus", f, S) = f[y]
    BY <1>3, <1>7, <1>9, <2>2, CombineLaws
  <2>. QED
    BY <1>1, <1>4, <1>6, <1>9, <2>3
<1>10. CASE y \notin D
  <2>1. S = {}
    BY <1>10
  <2>. QED
    BY <1>4, <1>6, <1>7, <1>8, <1>10, <2>1
<1>. QED
  BY <1>9, <1>10

-----------------------------------------------------------------------------
(* One day of an account.                                                  *)

\* A night that makes P of Q, a day that makes R of S, and a cost k between them.
ChangeOf(o, k, night, session, P, Q, R, S) ==
  /\ Lowest(o) /\ Lowest(k) /\ Worth(night, P, Q) /\ Worth(session, R, S)
  /\ P \in Nat \ {0} /\ Q \in Nat \ {0} /\ R \in Nat \ {0} /\ S \in Nat \ {0}

\* What is owned after such a day.
AfterChange(o, k, P, S) == Times(Times(Times(o, Ratio(P, 1)), k), Ratio(1, S))

\* It grows as the three do.
LEMMA DayOfChange ==
  ASSUME NEW o, NEW k, NEW night, NEW session, NEW P, NEW Q, NEW R, NEW S,
         ChangeOf(o, k, night, session, P, Q, R, S)
  PROVE  /\ Lowest(AfterChange(o, k, P, S))
         /\ Times(AfterChange(o, k, P, S), Ratio(R, 1)) = Times(Times(o, Ratio(Q, 1)), Times(night, Times(k, session)))
<1>. DEFINE owns == Times(Times(Times(o, Ratio(P, 1)), k), Ratio(1, S))
<1>. USE DEF AfterChange, ChangeOf
<1>. DEFINE on == o.n
            od == o.d
            kn == k.n
            kd == k.d
<1>1. Worth(o, on, od) /\ Worth(k, kn, kd)
  BY LowestWorth
<1>2. on \in Int /\ od \in Nat \ {0} /\ kn \in Int /\ kd \in Nat \ {0}
  BY <1>1 DEF Worth
<1>3. Worth(Ratio(P, 1), P, 1) /\ Worth(Ratio(Q, 1), Q, 1) /\ Worth(Ratio(R, 1), R, 1) /\ Worth(Ratio(1, S), 1, S)
  BY RatioWorth
<1>. HIDE DEF on, od, kn, kd
<1>4. Worth(Times(o, Ratio(P, 1)), on * P, od * 1) /\ Worth(Times(o, Ratio(Q, 1)), on * Q, od * 1)
  BY <1>1, <1>3, TimesWorth
<1>5. Worth(Times(Times(o, Ratio(P, 1)), k), (on * P) * kn, (od * 1) * kd)
  BY <1>1, <1>4, TimesWorth
<1>6. Worth(owns, ((on * P) * kn) * 1, ((od * 1) * kd) * S)
  BY <1>3, <1>5, TimesWorth
<1>7. Worth(Times(owns, Ratio(R, 1)), (((on * P) * kn) * 1) * R, (((od * 1) * kd) * S) * 1)
  BY <1>3, <1>6, TimesWorth
<1>8. Worth(Times(k, session), kn * R, kd * S)
  BY <1>1, TimesWorth
<1>9. Worth(Times(night, Times(k, session)), P * (kn * R), Q * (kd * S))
  BY <1>8, TimesWorth
<1>10. Worth(Times(Times(o, Ratio(Q, 1)), Times(night, Times(k, session))),
             (on * Q) * (P * (kn * R)), (od * 1) * (Q * (kd * S)))
  BY <1>4, <1>9, TimesWorth
<1>. DEFINE n == ((on * P) * kn) * R
            d == (od * kd) * S
<1>11. n \in Int /\ d \in Nat \ {0}
  <2>1. \A x, y \in Int : x * y \in Int
    OBVIOUS
  <2>2. \A x, y \in Nat \ {0} : x * y \in Nat \ {0}
    OBVIOUS
  <2>3. on * P \in Int /\ od * kd \in Nat \ {0}
    BY <1>2, <2>1, <2>2
  <2>4. (on * P) * kn \in Int
    BY <1>2, <2>1, <2>3
  <2>. QED
    BY <2>1, <2>2, <2>3, <2>4
<1>12. /\ (((on * P) * kn) * 1) * R = n
       /\ (((od * 1) * kd) * S) * 1 = d
       /\ (on * Q) * (P * (kn * R)) = Q * n
       /\ (od * 1) * (Q * (kd * S)) = Q * d
  BY <1>2
<1>13. Worth(Times(owns, Ratio(R, 1)), n, d)
  BY <1>7, <1>12
<1>14. Worth(Times(Times(o, Ratio(Q, 1)), Times(night, Times(k, session))), Q * n, Q * d)
  BY <1>10, <1>12
<1>. HIDE DEF n, d, owns
<1>15. (Q * n) * d = n * (Q * d)
  BY <1>11
<1>16. Worth(Times(Times(o, Ratio(Q, 1)), Times(night, Times(k, session))), n, d)
  BY <1>11, <1>14, <1>15, WorthSame
<1>17. Times(owns, Ratio(R, 1)) = Times(Times(o, Ratio(Q, 1)), Times(night, Times(k, session)))
  BY <1>13, <1>16, WorthIsUnique
<1>18. Lowest(owns)
  BY <1>6 DEF Worth
<1>. QED
  BY <1>17, <1>18 DEF owns

\* Nothing times one is anything else.
LEMMA TimesOne ==
  ASSUME NEW a, Lowest(a)
  PROVE  Times(a, One) = a /\ Times(One, a) = a /\ Lowest(One)
<1>1. Lowest(One)
  BY RatioWorth DEF Worth, One
<1>2. Combine("times", a, Neutral("times")) = a /\ Combine("times", a, One) = Combine("times", One, a)
  BY <1>1, CombineLaws
<1>. QED
  BY <1>1, <1>2 DEF Combine, Neutral, One

\* Products of fractions are fractions.
LEMMA TimesLowest ==
  ASSUME NEW a, Lowest(a), NEW b, Lowest(b)
  PROVE  Lowest(Times(a, b))
<1>1. Lowest(Combine("times", a, b))
  BY CombineLaws
<1>. QED
  BY <1>1 DEF Combine

\* A day on which nothing is traded.
LEMMA DayOfRest ==
  ASSUME NEW o, Lowest(o), NEW night, NEW session,
         NEW P \in Nat \ {0}, NEW Q \in Nat \ {0}, NEW R \in Nat \ {0},
         Worth(night, P, Q), Worth(session, R, P)
  PROVE  Times(o, Ratio(R, 1)) = Times(Times(o, Ratio(Q, 1)), Times(night, Times(One, session)))
<1>. DEFINE owns == Times(Times(Times(o, Ratio(P, 1)), One), Ratio(1, P))
<1>1. Times(owns, Ratio(R, 1)) = Times(Times(o, Ratio(Q, 1)), Times(night, Times(One, session)))
  <2>1. ChangeOf(o, One, night, session, P, Q, R, P)
    BY TimesOne DEF ChangeOf
  <2>. QED
    BY <2>1, DayOfChange DEF AfterChange
<1>2. owns = o
  <2>. DEFINE on == o.n
              od == o.d
  <2>1. Worth(o, on, od) /\ Worth(Ratio(P, 1), P, 1) /\ Worth(Ratio(1, P), 1, P)
    BY LowestWorth, RatioWorth
  <2>2. on \in Int /\ od \in Nat \ {0}
    BY <2>1 DEF Worth
  <2>. HIDE DEF on, od
  <2>3. Worth(Times(o, Ratio(P, 1)), on * P, od * 1)
    BY <2>1, TimesWorth
  <2>4. Times(Times(o, Ratio(P, 1)), One) = Times(o, Ratio(P, 1))
    BY <2>3, TimesOne DEF Worth
  <2>5. Worth(owns, (on * P) * 1, (od * 1) * P)
    BY <2>1, <2>3, <2>4, TimesWorth
  <2>6. ((on * P) * 1) * od = on * ((od * 1) * P)
    BY <2>2
  <2>7. Worth(owns, on, od)
    BY <2>2, <2>5, <2>6, WorthSame
  <2>. QED
    BY <2>1, <2>7, WorthIsUnique
<1>. QED
  BY <1>1, <1>2

-----------------------------------------------------------------------------
(* The account.                                                            *)

\* Accounts up to a day.
AccountsUpTo(account, n) ==
  /\ account[0] = [in |-> NaN, owns |-> One]
  /\ \A t \in 1..n : account[t] = AccountNext(account[t - 1], t)

\* There are such accounts.
LEMMA AccountsExist ==
  \A n \in Nat : \E account : AccountsUpTo(account, n)
<1>. DEFINE T == {n \in Nat : \E account : AccountsUpTo(account, n)}
<1>1. 0 \in T
  <2>. DEFINE account == [t \in {0} |-> [in |-> NaN, owns |-> One]]
  <2>1. AccountsUpTo(account, 0)
    BY DEF AccountsUpTo
  <2>. QED
    BY <2>1
<1>2. ASSUME NEW n \in T PROVE n + 1 \in T
  <2>1. PICK old : AccountsUpTo(old, n)
    OBVIOUS
  <2>. DEFINE new == [t \in 0..n + 1 |-> IF t =< n THEN old[t] ELSE AccountNext(old[n], t)]
  <2>2. new[0] = [in |-> NaN, owns |-> One]
    BY <2>1 DEF AccountsUpTo
  <2>3. ASSUME NEW t \in 1..n + 1
        PROVE  new[t] = AccountNext(new[t - 1], t)
    <3>1. t - 1 \in 0..n /\ new[t - 1] = old[t - 1]
      OBVIOUS
    <3>2. CASE t =< n
      BY <2>1, <3>1, <3>2 DEF AccountsUpTo
    <3>3. CASE t = n + 1
      BY <3>1, <3>3
    <3>. QED
      BY <3>2, <3>3
  <2>. HIDE DEF new
  <2>4. AccountsUpTo(new, n + 1)
    BY <2>2, <2>3 DEF AccountsUpTo
  <2>. QED
    BY <2>4
<1>. HIDE DEF T
<1>3. \A n \in Nat : n \in T
  <2>1. T \in SUBSET Nat
    BY DEF T
  <2>. QED
    BY <1>1, <1>2, <2>1, SetInduction
<1>. QED
  BY <1>3 DEF T

\* And they are those.
LEMMA AccountSteps ==
  ASSUME IsTape
  PROVE  AccountsUpTo(Accounts, Len(tape))
<1>0. Len(tape) \in Nat
  BY TapeDays
<1>1. PICK account : AccountsUpTo(account, Len(tape))
  BY <1>0, AccountsExist
<1>. DEFINE B(f) == [t \in 0..Len(tape) |-> IF t = 0 THEN [in |-> NaN, owns |-> One]
                                           ELSE AccountNext(f[t - 1], t)]
            h == [t \in 0..Len(tape) |-> account[t]]
<1>3. h = B(h)
  <2>1. ASSUME NEW t \in 0..Len(tape)
        PROVE  h[t] = IF t = 0 THEN [in |-> NaN, owns |-> One] ELSE AccountNext(h[t - 1], t)
    <3>1. CASE t = 0
      BY <1>1, <3>1 DEF AccountsUpTo
    <3>2. CASE t \in 1..Len(tape)
      <4>1. t - 1 \in 0..Len(tape)
        BY <1>0, <3>2
      <4>. QED
        BY <1>1, <3>2, <4>1 DEF AccountsUpTo
    <3>. QED
      BY <1>0, <3>1, <3>2
  <2>. QED
    BY <2>1
<1>4. Accounts = CHOOSE f : f = B(f)
  BY DEF Accounts
<1>5. Accounts = B(Accounts)
  <2>. HIDE DEF B, h
  <2>. QED
    BY <1>3, <1>4
<1>6. Accounts[0] = [in |-> NaN, owns |-> One]
  BY <1>0, <1>5
<1>7. \A t \in 1..Len(tape) : Accounts[t] = AccountNext(Accounts[t - 1], t)
  BY <1>0, <1>5
<1>. QED
  BY <1>6, <1>7 DEF AccountsUpTo

\* What is executed is all in one ticker or nothing.
LEMMA AllInIs ==
  ASSUME IsTape, OneAtATime, NEW t \in 0..Len(tape)
  PROVE  /\ AllIn(t) \in Tickers \cup {NaN}
         /\ \A x \in Tickers : Executed(Wanted(tape), t, x) = IF x = AllIn(t) THEN Unit ELSE 0
<1>. DEFINE w == Wanted(tape)
            in == {x \in Tickers : Executed(w, t, x) = Unit}
<1>0. Len(tape) \in Nat /\ DOMAIN tape = 1..Len(tape)
  BY TapeDays
<1>1. Unit # 0 /\ NaN # 0 /\ NaN # Unit /\ \A x \in Tickers : x # NaN
  BY FramesAssumption, TickersAssumption
<1>2. /\ \A x \in Tickers : Executed(w, t, x) \in {0, Unit}
      /\ \A x, y \in Tickers : x # y => Executed(w, t, x) = 0 \/ Executed(w, t, y) = 0
  <2>1. CASE t - 1 < 1
    BY <2>1 DEF Executed, Target
  <2>2. CASE ~(t - 1 < 1)
    <3>1. t - 1 \in DOMAIN tape
      BY <1>0, <2>2
    <3>2. w[t - 1] = tape[t - 1].want
      BY <3>1 DEF Wanted
    <3>3. tape[t - 1].want = NaN \/
            \A x \in Tickers : tape[t - 1].want[x] \in {0, Unit} /\
              \A y \in Tickers \ {x} : tape[t - 1].want[x] = 0 \/ tape[t - 1].want[y] = 0
      BY <3>1 DEF OneAtATime
    <3>4. \A x \in Tickers : Executed(w, t, x) = IF tape[t - 1].want = NaN THEN 0 ELSE tape[t - 1].want[x]
      BY <1>1, <2>2, <3>2, <3>3 DEF Executed, Target, Cell
    <3>. QED
      BY <3>3, <3>4
  <2>. QED
    BY <2>1, <2>2
<1>3. AllIn(t) = IF in = {} THEN NaN ELSE CHOOSE x \in in : TRUE
  BY DEF AllIn
<1>4. CASE in = {}
  <2>1. \A x \in Tickers : Executed(w, t, x) = 0
    BY <1>2, <1>4
  <2>. QED
    BY <1>1, <1>3, <1>4, <2>1
<1>5. CASE in # {}
  <2>1. AllIn(t) \in in
    BY <1>3, <1>5
  <2>. QED
    BY <1>1, <1>2, <2>1
<1>. QED
  BY <1>4, <1>5

\* That is what the account is in.
LEMMA AccountIsIn ==
  ASSUME IsTape, OneAtATime
  PROVE  \A t \in 0..Len(tape) : Accounts[t].in = AllIn(t)
<1>0. Len(tape) \in Nat
  BY TapeDays
<1>1. AccountsUpTo(Accounts, Len(tape))
  BY AccountSteps
<1>2. Accounts[0].in = AllIn(0)
  <2>1. \A x \in Tickers : Executed(Wanted(tape), 0, x) = 0
    BY DEF Executed, Target
  <2>2. {x \in Tickers : Executed(Wanted(tape), 0, x) = Unit} = {}
    BY <2>1, FramesAssumption
  <2>. QED
    BY <1>1, <2>2 DEF AccountsUpTo, AllIn
<1>3. ASSUME NEW t \in 1..Len(tape)
      PROVE  Accounts[t].in = AllIn(t)
  <2>1. Accounts[t] = AccountNext(Accounts[t - 1], t)
    BY <1>1 DEF AccountsUpTo
  <2>. QED
    BY <2>1 DEF AccountNext
<1>. QED
  BY <1>0, <1>2, <1>3

\* Nothing is bought before the first signal could be executed.
LEMMA NothingBefore ==
  ASSUME IsTape, OneAtATime, FirstSignal(Wanted(tape), Tickers) # 0
  PROVE  /\ FirstSignal(Wanted(tape), Tickers) \in 1..Len(tape)
         /\ \A t \in 0..FirstSignal(Wanted(tape), Tickers) : AllIn(t) = NaN
<1>. DEFINE w == Wanted(tape)
            first == FirstSignal(w, Tickers)
            rows == {t \in DOMAIN w : Complete(w, t, Tickers)}
<1>0. Len(tape) \in Nat /\ DOMAIN tape = 1..Len(tape)
  BY TapeDays
<1>1. Unit # 0 /\ NaN # 0 /\ NaN # Unit
  BY FramesAssumption
<1>2. first = (IF rows = {} THEN 0 ELSE Min(rows))
  BY DEF FirstSignal
<1>3. rows \in SUBSET (1..Len(tape)) /\ rows # {}
  BY <1>0, <1>2 DEF Wanted
<1>4. first \in rows /\ \A u \in rows : first =< u
  <2>1. rows \in SUBSET Nat
    BY <1>0, <1>3
  <2>. HIDE DEF rows, first
  <2>. QED
    BY <1>2, <1>3, <2>1, FirstDay
<1>5. first \in 1..Len(tape)
  BY <1>3, <1>4
<1>6. ASSUME NEW t \in 0..first
      PROVE  AllIn(t) = NaN
  <2>1. \A x \in Tickers : Executed(w, t, x) = 0
    <3>1. CASE t - 1 < 1
      BY <3>1 DEF Executed, Target
    <3>2. CASE ~(t - 1 < 1)
      <4>. HIDE DEF first
      <4>1. t - 1 \in DOMAIN tape /\ t - 1 < first
        BY <1>0, <1>5, <3>2
      <4>2. w[t - 1] = tape[t - 1].want /\ t - 1 \in DOMAIN w
        BY <4>1 DEF Wanted
      <4>3. ~Complete(w, t - 1, Tickers)
        BY <1>4, <1>5, <4>1, <4>2
      <4>4. tape[t - 1].want = NaN
        <5>1. tape[t - 1].want = NaN \/ \A x \in Tickers : tape[t - 1].want[x] \in {0, Unit}
          BY <4>1 DEF OneAtATime
        <5>. QED
          BY <1>1, <4>2, <4>3, <5>1 DEF Complete, Cell
      <4>. QED
        BY <4>2, <4>4 DEF Executed, Target, Cell
    <3>. QED
      BY <3>1, <3>2
  <2>2. {x \in Tickers : Executed(w, t, x) = Unit} = {}
    BY <1>1, <2>1
  <2>. QED
    BY <2>2 DEF AllIn
<1>. QED
  BY <1>5, <1>6

\* What was held overnight is what was executed the day before.
LEMMA HeldOvernight ==
  ASSUME NEW w, NEW t \in Nat, NEW x
  PROVE  Overnight(w, t, x) = Executed(w, t - 1, x)
<1>1. (t - 1) - 1 = t - 2
  OBVIOUS
<1>. QED
  BY <1>1 DEF Overnight, Executed

\* Changing from one ticker to another turns the capital over once a leg.
LEMMA TurnoverIs ==
  ASSUME IsTape, OneAtATime, NEW t \in 1..Len(tape)
  PROVE  /\ Legs(AllIn(t - 1), AllIn(t)) \in Nat
         /\ Turnover(Wanted(tape), t, Tickers) =
              IF AllIn(t - 1) = AllIn(t) THEN 0 ELSE Legs(AllIn(t - 1), AllIn(t)) * Unit
<1>. DEFINE w == Wanted(tape)
            a == AllIn(t - 1)
            b == AllIn(t)
            f == [x \in Tickers |-> Abs(Executed(w, t, x) - Overnight(w, t, x))]
            S == IF a = b THEN {} ELSE Tickers \cap {a, b}
<1>0. Len(tape) \in Nat /\ t \in Nat
  BY TapeDays
<1>1. /\ a \in Tickers \cup {NaN} /\ b \in Tickers \cup {NaN}
      /\ \A x \in Tickers : /\ Executed(w, t, x) = IF x = b THEN Unit ELSE 0
                           /\ Overnight(w, t, x) = IF x = a THEN Unit ELSE 0
  <2>1. t - 1 \in 0..Len(tape) /\ t \in 0..Len(tape)
    BY <1>0
  <2>2. /\ a \in Tickers \cup {NaN} /\ b \in Tickers \cup {NaN}
        /\ \A x \in Tickers : Executed(w, t, x) = IF x = b THEN Unit ELSE 0
        /\ \A x \in Tickers : Executed(w, t - 1, x) = IF x = a THEN Unit ELSE 0
    BY <2>1, AllInIs
  <2>3. \A x \in Tickers : Overnight(w, t, x) = Executed(w, t - 1, x)
    BY <1>0, HeldOvernight
  <2>. QED
    BY <2>2, <2>3
<1>2. IsFiniteSet(Tickers) /\ Unit \in Nat \ {0} /\ NaN \notin Tickers
  BY TickersAssumption, FramesAssumption
<1>. HIDE DEF a, b, w
<1>3. \A x \in Tickers : f[x] = IF x \in S THEN Unit ELSE 0
  BY <1>1, <1>2 DEF Abs
<1>4. S \in SUBSET Tickers /\ IsFiniteSet(S)
  BY <1>2, FS_Subset
<1>5. Turnover(w, t, Tickers) = SumFunctionOnSet(f, Tickers)
  BY SumOfFunction DEF Turnover
<1>6. SumFunctionOnSet(f, Tickers) = SumFunctionOnSet(f, S)
  <2>. HIDE DEF f, S
  <2>. QED
    BY <1>2, <1>3, <1>4, SumWithoutZeros
<1>7. SumFunctionOnSet(f, S) = Cardinality(S) * Unit
  <2>. HIDE DEF f, S
  <2>. QED
    BY <1>2, <1>3, <1>4, SumOfSame
<1>8. Cardinality(S) = IF a = b THEN 0 ELSE Legs(a, b)
  <2>1. CASE a = b
    BY <2>1, FS_EmptySet
  <2>2. CASE a # b
    <3>1. CASE a = NaN
      <4>1. S = {b} /\ b # NaN
        BY <1>1, <1>2, <2>2, <3>1
      <4>2. Cardinality(S) = 1
        BY <4>1, FS_Singleton
      <4>3. Legs(a, b) = 1
        BY <3>1, <4>1 DEF Legs
      <4>. QED
        BY <2>2, <4>2, <4>3
    <3>2. CASE b = NaN
      <4>1. S = {a} /\ a # NaN
        BY <1>1, <1>2, <2>2, <3>2
      <4>2. Cardinality(S) = 1
        BY <4>1, FS_Singleton
      <4>3. Legs(a, b) = 1
        BY <3>2, <4>1 DEF Legs
      <4>. QED
        BY <2>2, <4>2, <4>3
    <3>3. CASE a # NaN /\ b # NaN
      <4>1. S = {a} \cup {b} /\ b \notin {a}
        BY <1>1, <1>2, <2>2, <3>3
      <4>2. Cardinality({a} \cup {b}) = Cardinality({a}) + 1 /\ Cardinality({a}) = 1
        BY <4>1, FS_Singleton, FS_AddElement
      <4>3. Legs(a, b) = 2
        BY <3>3 DEF Legs
      <4>4. Cardinality(S) = 2
        <5>. HIDE DEF S
        <5>. QED
          BY <4>1, <4>2, SMT
      <4>. QED
        BY <2>2, <4>3, <4>4
    <3>. QED
      BY <3>1, <3>2, <3>3
  <2>. QED
    BY <2>1, <2>2
<1>9. Legs(a, b) \in Nat
  BY DEF Legs
<1>. QED
  BY <1>2, <1>5, <1>6, <1>7, <1>8, <1>9 DEF a, b, w

\* A fraction of one is the whole.
LEMMA PlusOne ==
  ASSUME NEW n \in Nat \ {0}, NEW d \in Nat \ {0}
  PROVE  Worth(Plus(One, Ratio(n - d, d)), n, d)
<1>1. Worth(Ratio(n - d, d), n - d, d) /\ Worth(One, 1, 1)
  BY RatioWorth DEF One
<1>2. Worth(Plus(One, Ratio(n - d, d)), 1 * d + (n - d) * 1, 1 * d)
  BY <1>1, PlusWorth
<1>3. 1 * d + (n - d) * 1 = n /\ 1 * d = d
  OBVIOUS
<1>. QED
  BY <1>2, <1>3

\* The night makes the open of the close before, for what is held through it.
LEMMA NightIs ==
  ASSUME IsTape, OneAtATime, OpensFit, Kind("market"), NEW t \in 2..Len(tape),
         \A x \in Tickers : ~MissingPrice(tape, Wanted(tape), t, x)
  PROVE  LET a == AllIn(t - 1)
             night == Earned([x \in Tickers |-> Overnight(Wanted(tape), t, x)], [x \in Tickers |-> Gap(tape, t, x)])
         IN  IF a = NaN THEN Worth(night, 1, 1)
             ELSE /\ tape[t].bars[a].open \in Nat \ {0} /\ tape[t - 1].bars[a].close \in Nat \ {0}
                  /\ Worth(night, tape[t].bars[a].open, tape[t - 1].bars[a].close)
<1>. DEFINE w == Wanted(tape)
            a == AllIn(t - 1)
            weight == [x \in Tickers |-> Overnight(w, t, x)]
            change == [x \in Tickers |-> Gap(tape, t, x)]
            night == Earned(weight, change)
<1>0. Len(tape) \in Nat /\ DOMAIN tape = 1..Len(tape) /\ t \in Nat /\ t - 1 \in DOMAIN tape /\ t \in DOMAIN tape /\ t > 1
  BY TapeDays
<1>1. a \in Tickers \cup {NaN} /\ \A x \in Tickers : weight[x] = IF x = a THEN Unit ELSE 0
  <2>1. t - 1 \in 0..Len(tape)
    BY <1>0
  <2>2. a \in Tickers \cup {NaN} /\ \A x \in Tickers : Executed(w, t - 1, x) = IF x = a THEN Unit ELSE 0
    BY <2>1, AllInIs
  <2>. QED
    BY <1>0, <2>2, HeldOvernight
<1>2. IsFiniteSet(Tickers) /\ Unit \in Nat \ {0} /\ NaN \notin Tickers
  BY TickersAssumption, FramesAssumption
<1>3. ASSUME NEW x \in Tickers
      PROVE  Lowest(change[x])
  <2>1. CASE ~Priced(tape, t, x) \/ ~Priced(tape, t - 1, x)
    BY <2>1, RatioWorth DEF Gap, Worth
  <2>2. CASE Priced(tape, t, x) /\ Priced(tape, t - 1, x)
    <3>1. tape[t].bars[x].open \in Int /\ tape[t - 1].bars[x].close \in Nat \ {0}
      BY <1>0, <2>2 DEF OpensFit
    <3>2. change[x] = Ratio(tape[t].bars[x].open - tape[t - 1].bars[x].close, tape[t - 1].bars[x].close)
      BY <1>0, <2>2 DEF Gap
    <3>3. tape[t].bars[x].open - tape[t - 1].bars[x].close \in Int
      BY <3>1
    <3>. QED
      BY <3>1, <3>2, <3>3, RatioWorth DEF Worth
  <2>. QED
    BY <2>1, <2>2
<1>4. night = IF a \in Tickers THEN Plus(One, change[a]) ELSE One
  <2>1. IsFiniteSet(DOMAIN weight) /\ \A x \in DOMAIN weight : weight[x] = (IF x = a THEN Unit ELSE 0) /\ Lowest(change[x])
    BY <1>1, <1>2, <1>3
  <2>2. DOMAIN weight = Tickers
    OBVIOUS
  <2>. HIDE DEF weight, change, a
  <2>3. night = IF a \in DOMAIN weight THEN Plus(One, change[a]) ELSE One
    BY <2>1, EarnedByOne
  <2>. QED
    BY <2>2, <2>3
<1>5. CASE a = NaN
  BY <1>2, <1>4, <1>5, RatioWorth DEF One
<1>6. CASE a # NaN
  <2>1. a \in Tickers
    BY <1>1, <1>6
  <2>2. Overnight(w, t, a) > 0
    BY <1>1, <1>2, <2>1
  <2>3. Priced(tape, t, a) /\ Priced(tape, t - 1, a)
    BY <1>0, <2>1, <2>2 DEF MissingPrice
  <2>4. tape[t].bars[a].open \in Nat \ {0} /\ tape[t - 1].bars[a].close \in Nat \ {0}
    BY <1>0, <2>1, <2>3 DEF OpensFit
  <2>5. change[a] = Ratio(tape[t].bars[a].open - tape[t - 1].bars[a].close, tape[t - 1].bars[a].close)
    BY <1>0, <2>1, <2>3 DEF Gap
  <2>. QED
    BY <1>4, <1>6, <2>1, <2>4, <2>5, PlusOne
<1>. QED
  BY <1>5, <1>6

\* The session makes the close of the open, for what is held then.
LEMMA SessionIs ==
  ASSUME IsTape, OneAtATime, OpensFit, Kind("market"), NEW t \in 1..Len(tape),
         \A x \in Tickers : ~MissingPrice(tape, Wanted(tape), t, x)
  PROVE  LET b == AllIn(t)
             session == Earned([x \in Tickers |-> Executed(Wanted(tape), t, x)], [x \in Tickers |-> Session(tape, t, x)])
         IN  IF b = NaN THEN Worth(session, 1, 1)
             ELSE /\ tape[t].bars[b].open \in Nat \ {0} /\ tape[t].bars[b].close \in Nat \ {0}
                  /\ Worth(session, tape[t].bars[b].close, tape[t].bars[b].open)
<1>. DEFINE w == Wanted(tape)
            b == AllIn(t)
            weight == [x \in Tickers |-> Executed(w, t, x)]
            change == [x \in Tickers |-> Session(tape, t, x)]
            session == Earned(weight, change)
<1>0. Len(tape) \in Nat /\ DOMAIN tape = 1..Len(tape) /\ t \in DOMAIN tape
  BY TapeDays
<1>1. b \in Tickers \cup {NaN} /\ \A x \in Tickers : weight[x] = IF x = b THEN Unit ELSE 0
  <2>1. t \in 0..Len(tape)
    BY <1>0
  <2>. QED
    BY <2>1, AllInIs
<1>2. IsFiniteSet(Tickers) /\ Unit \in Nat \ {0} /\ NaN \notin Tickers
  BY TickersAssumption, FramesAssumption
<1>3. ASSUME NEW x \in Tickers
      PROVE  Lowest(change[x])
  <2>1. CASE ~Priced(tape, t, x)
    <3>1. change[x] = Ratio(0, 1)
      BY <2>1 DEF Session
    <3>. QED
      BY <3>1, RatioWorth DEF Worth
  <2>2. CASE Priced(tape, t, x)
    <3>1. tape[t].bars[x].close \in Int /\ tape[t].bars[x].open \in Nat \ {0}
      BY <1>0, <2>2 DEF OpensFit
    <3>2. change[x] = Ratio(tape[t].bars[x].close - tape[t].bars[x].open, tape[t].bars[x].open)
      BY <2>2 DEF Session
    <3>3. tape[t].bars[x].close - tape[t].bars[x].open \in Int
      BY <3>1
    <3>. QED
      BY <3>1, <3>2, <3>3, RatioWorth DEF Worth
  <2>. QED
    BY <2>1, <2>2
<1>4. session = IF b \in Tickers THEN Plus(One, change[b]) ELSE One
  <2>1. IsFiniteSet(DOMAIN weight) /\ \A x \in DOMAIN weight : weight[x] = (IF x = b THEN Unit ELSE 0) /\ Lowest(change[x])
    BY <1>1, <1>2, <1>3
  <2>2. DOMAIN weight = Tickers
    OBVIOUS
  <2>. HIDE DEF weight, change, b
  <2>3. session = IF b \in DOMAIN weight THEN Plus(One, change[b]) ELSE One
    BY <2>1, EarnedByOne
  <2>. QED
    BY <2>2, <2>3
<1>5. CASE b = NaN
  BY <1>2, <1>4, <1>5, RatioWorth DEF One
<1>6. CASE b # NaN
  <2>1. b \in Tickers
    BY <1>1, <1>6
  <2>2. Executed(w, t, b) > 0
    BY <1>1, <1>2, <2>1
  <2>3. Priced(tape, t, b)
    BY <2>1, <2>2 DEF MissingPrice
  <2>4. tape[t].bars[b].open \in Nat \ {0} /\ tape[t].bars[b].close \in Nat \ {0}
    BY <1>0, <2>1, <2>3 DEF OpensFit
  <2>5. change[b] = Ratio(tape[t].bars[b].close - tape[t].bars[b].open, tape[t].bars[b].open)
    BY <2>1, <2>3 DEF Session
  <2>. QED
    BY <1>4, <1>6, <2>1, <2>4, <2>5, PlusOne
<1>. QED
  BY <1>5, <1>6

\* What a change costs.
LEMMA CostIs ==
  ASSUME NEW cost, Lowest(cost), NEW legs \in Nat
  PROVE  /\ Lowest(Minus(One, Times(Ratio(legs, 1), cost)))
         /\ Ratio(legs * Unit, Unit) = Ratio(legs, 1)
         /\ Minus(One, Times(Ratio(0, Unit), cost)) = One
<1>1. Unit \in Nat \ {0} /\ legs * Unit \in Int
  BY FramesAssumption
<1>2. Worth(cost, cost.n, cost.d) /\ cost.n \in Int /\ cost.d \in Nat \ {0} /\ Worth(One, 1, 1)
  BY LowestWorth, RatioWorth DEF One, Worth
<1>3. Lowest(Minus(One, Times(Ratio(legs, 1), cost)))
  <2>1. Worth(Ratio(legs, 1), legs, 1)
    BY RatioWorth
  <2>2. Worth(Times(Ratio(legs, 1), cost), legs * cost.n, 1 * cost.d)
    BY <1>2, <2>1, TimesWorth
  <2>3. Worth(Minus(One, Times(Ratio(legs, 1), cost)), 1 * (1 * cost.d) + (-(legs * cost.n)) * 1, 1 * (1 * cost.d))
    BY <1>2, <2>2, MinusWorth
  <2>. QED
    BY <2>3 DEF Worth
<1>4. Ratio(legs * Unit, Unit) = Ratio(legs, 1)
  <2>1. Worth(Ratio(legs * Unit, Unit), legs * Unit, Unit) /\ Worth(Ratio(legs, 1), legs, 1)
    BY <1>1, RatioWorth
  <2>2. (legs * Unit) * 1 = legs * Unit
    BY <1>1
  <2>3. Worth(Ratio(legs * Unit, Unit), legs, 1)
    BY <1>1, <2>1, <2>2, WorthSame
  <2>. QED
    BY <2>1, <2>3, WorthIsUnique
<1>5. Minus(One, Times(Ratio(0, Unit), cost)) = One
  <2>. DEFINE zero == Times(Ratio(0, Unit), cost)
  <2>1. Worth(Ratio(0, Unit), 0, Unit)
    BY <1>1, RatioWorth
  <2>2. Worth(zero, 0 * cost.n, Unit * cost.d)
    BY <1>2, <2>1, TimesWorth
  <2>3. (0 * cost.n) * 1 = 0 * (Unit * cost.d)
    BY <1>1, <1>2
  <2>4. Worth(zero, 0, 1)
    BY <2>2, <2>3, WorthSame
  <2>. HIDE DEF zero
  <2>5. Worth(Minus(One, zero), 1 * 1 + (-0) * 1, 1 * 1)
    BY <1>2, <2>4, MinusWorth
  <2>6. 1 * 1 + (-0) * 1 = 1 /\ 1 * 1 = 1
    OBVIOUS
  <2>7. Worth(Minus(One, zero), 1, 1)
    BY <2>5, <2>6
  <2>8. Minus(One, zero) = One
    BY <1>2, <2>7, WorthIsUnique
  <2>. QED
    BY <2>8 DEF zero
<1>. QED
  BY <1>3, <1>4, <1>5

\* A day of the account grows it as the engine says.
LEMMA AccountDay ==
  ASSUME IsTape, OneAtATime, OpensFit, Kind("market"), Lowest(subject.cost), NEW t \in 2..Len(tape),
         \A x \in Tickers : ~MissingPrice(tape, Wanted(tape), t, x), Lowest(Accounts[t - 1].owns)
  PROVE  /\ Lowest(Accounts[t].owns)
         /\ Lowest(Growth(tape, Wanted(tape), t, Tickers, subject.cost))
         /\ AtClose(Accounts[t], t) = Times(AtClose(Accounts[t - 1], t - 1),
                                            Growth(tape, Wanted(tape), t, Tickers, subject.cost))
<1>. DEFINE w == Wanted(tape)
            a == AllIn(t - 1)
            b == AllIn(t)
            o == Accounts[t - 1].owns
            night == Earned([x \in Tickers |-> Overnight(w, t, x)], [x \in Tickers |-> Gap(tape, t, x)])
            session == Earned([x \in Tickers |-> Executed(w, t, x)], [x \in Tickers |-> Session(tape, t, x)])
            k == Minus(One, Times(Ratio(Turnover(w, t, Tickers), Unit), subject.cost))
            P == IF a = NaN THEN 1 ELSE tape[t].bars[a].open
            Q == IF a = NaN THEN 1 ELSE tape[t - 1].bars[a].close
            R == IF b = NaN THEN 1 ELSE tape[t].bars[b].close
            S == IF b = NaN THEN 1 ELSE tape[t].bars[b].open
<1>0. Len(tape) \in Nat /\ t \in 1..Len(tape) /\ t - 1 \in 0..Len(tape) /\ t \in 0..Len(tape)
  BY TapeDays
<1>1. Accounts[t - 1].in = a /\ Accounts[t].in = b /\ Accounts[t] = AccountNext(Accounts[t - 1], t)
  BY <1>0, AccountIsIn, AccountSteps DEF AccountsUpTo
<1>2. P \in Nat \ {0} /\ Q \in Nat \ {0} /\ Worth(night, P, Q)
  BY NightIs
<1>3. R \in Nat \ {0} /\ S \in Nat \ {0} /\ Worth(session, R, S)
  BY <1>0, SessionIs
<1>4. Growth(tape, w, t, Tickers, subject.cost) = Times(night, Times(k, session))
  BY DEF Growth, One
<1>5. /\ Legs(a, b) \in Nat
      /\ Turnover(w, t, Tickers) = IF a = b THEN 0 ELSE Legs(a, b) * Unit
  BY <1>0, TurnoverIs
<1>10. Lowest(k)
  <2>1. CASE a = b
    BY <1>5, <2>1, CostIs, TimesOne
  <2>2. CASE a # b
    BY <1>5, <2>2, CostIs
  <2>. QED
    BY <2>1, <2>2
<1>. HIDE DEF night, session
<1>11. Lowest(Times(night, Times(k, session)))
  <2>. HIDE DEF k, P, Q, R, S
  <2>1. Lowest(night) /\ Lowest(session)
    BY <1>2, <1>3 DEF Worth
  <2>. QED
    BY <1>10, <2>1, TimesLowest
<1>6. Times(o, One) = o
  BY TimesOne
<1>7. AtClose(Accounts[t - 1], t - 1) = Times(o, Ratio(Q, 1))
  BY <1>1, <1>6 DEF AtClose, One
<1>8. CASE a = b
  <2>1. k = One
    BY <1>5, <1>8, CostIs
  <2>2. Accounts[t] = Accounts[t - 1]
    BY <1>1, <1>8 DEF AccountNext
  <2>3. AtClose(Accounts[t], t) = Times(o, Ratio(R, 1))
    BY <1>1, <1>6, <2>2 DEF AtClose, One
  <2>4. S = P
    BY <1>8
  <2>. HIDE DEF k, o, P, Q, R, S
  <2>5. Lowest(o)
    BY DEF o
  <2>6. Times(o, Ratio(R, 1)) = Times(Times(o, Ratio(Q, 1)), Times(night, Times(One, session)))
    BY <1>2, <1>3, <2>4, <2>5, DayOfRest
  <2>. QED
    BY <1>4, <1>7, <1>11, <2>1, <2>2, <2>3, <2>6
<1>9. CASE a # b
  <2>. DEFINE cash == Times(o, Ratio(P, 1))
              paid == Times(cash, k)
              owns == Times(paid, Ratio(1, S))
  <2>1. k = Minus(One, Times(Ratio(Legs(a, b), 1), subject.cost)) /\ Lowest(k)
    BY <1>5, <1>9, CostIs
  <2>2. Lowest(o) /\ Lowest(paid)
    <3>1. Worth(o, o.n, o.d) /\ Worth(k, k.n, k.d) /\ Worth(Ratio(P, 1), P, 1)
      BY <1>2, <2>1, LowestWorth, RatioWorth
    <3>. HIDE DEF o, k, P
    <3>2. Worth(cash, o.n * P, o.d * 1)
      BY <3>1, TimesWorth
    <3>3. Worth(paid, (o.n * P) * k.n, (o.d * 1) * k.d)
      BY <3>1, <3>2, TimesWorth
    <3>. QED
      BY <3>1, <3>3 DEF Worth
  <2>3. cash = IF a = NaN THEN o ELSE Times(o, Ratio(tape[t].bars[a].open, 1))
    BY <1>6 DEF One
  <2>4. Times(paid, One) = paid
    BY <2>2, TimesOne
  <2>5. owns = IF b = NaN THEN paid ELSE Over(paid, Ratio(tape[t].bars[b].open, 1))
    <3>1. CASE b = NaN
      BY <2>4, <3>1 DEF One
    <3>2. CASE b # NaN
      <4>1. Ratio(S, 1) = [n |-> S, d |-> 1]
        BY <1>3, RatioWhole
      <4>. HIDE DEF paid
      <4>2. Over(paid, Ratio(S, 1)) = Times(paid, Ratio(1, S))
        BY <4>1 DEF Over
      <4>. QED
        BY <3>2, <4>2
    <3>. QED
      BY <3>1, <3>2
  <2>6. Accounts[t].owns = owns
    <3>. HIDE DEF owns
    <3>1. AccountNext(Accounts[t - 1], t) =
            [in |-> b, owns |-> IF b = NaN THEN paid ELSE Over(paid, Ratio(tape[t].bars[b].open, 1))]
      <4>. HIDE DEF a, b, k
      <4>. QED
        BY <1>1, <1>9, <2>1, <2>3 DEF AccountNext, b
    <3>. QED
      BY <1>1, <2>5, <3>1
  <2>7. Lowest(owns) /\ Times(owns, Ratio(R, 1)) = Times(Times(o, Ratio(Q, 1)), Times(night, Times(k, session)))
    <3>. HIDE DEF o, k, P, Q, R, S
    <3>1. ChangeOf(o, k, night, session, P, Q, R, S)
      BY <1>2, <1>3, <2>1, <2>2 DEF ChangeOf
    <3>. QED
      BY <3>1, DayOfChange DEF AfterChange
  <2>8. AtClose(Accounts[t], t) = Times(owns, Ratio(R, 1))
    <3>1. Times(owns, One) = owns
      BY <2>7, TimesOne
    <3>. HIDE DEF owns
    <3>. QED
      BY <1>1, <2>6, <3>1 DEF AtClose, One
  <2>. QED
    BY <1>4, <1>7, <1>11, <2>6, <2>7, <2>8
<1>. QED
  BY <1>8, <1>9

\* Up to its first signal the account owns what it started with.
LEMMA AccountBefore ==
  ASSUME IsTape, OneAtATime, FirstSignal(Wanted(tape), Tickers) # 0
  PROVE  Accounts[FirstSignal(Wanted(tape), Tickers)] = [in |-> NaN, owns |-> One]
<1>. DEFINE first == FirstSignal(Wanted(tape), Tickers)
            T == {t \in Nat : t =< first => Accounts[t] = [in |-> NaN, owns |-> One]}
<1>0. /\ Len(tape) \in Nat /\ first \in 1..Len(tape)
      /\ \A t \in 0..first : AllIn(t) = NaN
  BY TapeDays, NothingBefore
<1>1. AccountsUpTo(Accounts, Len(tape))
  BY AccountSteps
<1>. HIDE DEF first
<1>2. 0 \in T
  BY <1>1 DEF AccountsUpTo
<1>3. ASSUME NEW t \in T PROVE t + 1 \in T
  <2>. SUFFICES ASSUME t + 1 =< first
                PROVE  Accounts[t + 1] = [in |-> NaN, owns |-> One]
    OBVIOUS
  <2>1. t + 1 \in 1..Len(tape) /\ t + 1 \in 0..first /\ t =< first /\ (t + 1) - 1 = t
    BY <1>0
  <2>2. Accounts[t + 1] = AccountNext(Accounts[t], t + 1)
    BY <1>1, <2>1 DEF AccountsUpTo
  <2>3. Accounts[t] = [in |-> NaN, owns |-> One] /\ AllIn(t + 1) = NaN
    BY <1>0, <2>1
  <2>. QED
    BY <2>2, <2>3 DEF AccountNext
<1>. HIDE DEF T
<1>4. \A t \in Nat : t \in T
  <2>1. T \in SUBSET Nat
    BY DEF T
  <2>. QED
    BY <1>2, <1>3, <2>1, SetInduction
<1>5. first \in T
  BY <1>0, <1>4
<1>. QED
  BY <1>0, <1>5 DEF T, first

\* The growths from the first signal on multiply to what the account is worth.
LEMMA AccountGrows ==
  ASSUME IsTape, OneAtATime, OpensFit, Kind("market"), Lowest(subject.cost),
         NEW run, run = RunBacktest(tape, Wanted(tape), Tickers, subject.cost), run # NaN
  PROVE  Compounded(run) = AtClose(Accounts[Len(tape)], Len(tape))
<1>. DEFINE w == Wanted(tape)
            first == FirstSignal(w, Tickers)
            value(t) == AtClose(Accounts[t], t)
            good(t) == /\ Lowest(Accounts[t].owns) /\ Lowest(value(t))
                       /\ \A u \in first + 1..t : Lowest(run[u])
                       /\ Fold("times", run, first + 1..t) = value(t)
            T == {n \in Nat : first + n =< Len(tape) => good(first + n)}
<1>1. ~Refuses(tape, w, Tickers)
  BY DEF RunBacktest
<1>2. first # 0
  BY <1>1 DEF Refuses
<1>3. Len(tape) \in Nat /\ DOMAIN tape = 1..Len(tape) /\ first \in 1..Len(tape)
  BY <1>2, TapeDays, NothingBefore
<1>4. run = [t \in first + 1..Len(tape) |-> Growth(tape, w, t, Tickers, subject.cost)]
  BY <1>1 DEF RunBacktest, Traded
<1>5. \A t \in 2..Len(tape), x \in Tickers : ~MissingPrice(tape, w, t, x)
  <2>1. DOMAIN w = 1..Len(tape)
    BY <1>3 DEF Wanted
  <2>2. 2..Len(tape) \subseteq 1..Len(tape)
    BY <1>3
  <2>. QED
    BY <1>1, <2>1, <2>2 DEF Refuses
<1>6. Accounts[first] = [in |-> NaN, owns |-> One]
  BY <1>2, AccountBefore
<1>7. ASSUME NEW t \in first + 1..Len(tape), Lowest(Accounts[t - 1].owns), Lowest(value(t - 1))
      PROVE  /\ Lowest(Accounts[t].owns) /\ Lowest(value(t)) /\ Lowest(run[t])
             /\ value(t) = Times(run[t], value(t - 1))
  <2>1. t \in 2..Len(tape)
    <3>. HIDE DEF first
    <3>. QED
      BY <1>3
  <2>2. /\ Lowest(Accounts[t].owns)
        /\ Lowest(Growth(tape, w, t, Tickers, subject.cost))
        /\ value(t) = Times(value(t - 1), Growth(tape, w, t, Tickers, subject.cost))
    BY <1>5, <1>7, <2>1, AccountDay
  <2>3. run[t] = Growth(tape, w, t, Tickers, subject.cost)
    BY <1>4
  <2>. HIDE DEF value, w, first
  <2>4. Combine("times", value(t - 1), run[t]) = Combine("times", run[t], value(t - 1))
    BY <1>7, <2>2, <2>3, CombineLaws
  <2>. QED
    BY <1>7, <2>2, <2>3, <2>4, TimesLowest DEF Combine
<1>. HIDE DEF w, first
<1>8. 0 \in T
  <2>1. first + 0 = first /\ first + 1..first = {}
    BY <1>3
  <2>2. value(first) = One /\ Accounts[first].owns = One
    BY <1>6 DEF AtClose
  <2>3. Fold("times", run, {}) = One
    <3>1. IsFiniteSet({}) /\ \A x \in {} : Lowest(run[x])
      BY FS_EmptySet
    <3>2. Fold("times", run, {}) = Neutral("times")
      BY <3>1, FoldGrows
    <3>. QED
      BY <3>2 DEF Neutral, One
  <2>4. Lowest(One)
    BY RatioWorth DEF Worth, One
  <2>5. good(first)
    <3>. HIDE DEF value
    <3>. QED
      BY <2>1, <2>2, <2>3, <2>4
  <2>. HIDE DEF good
  <2>. QED
    BY <2>1, <2>5
<1>9. ASSUME NEW n \in T PROVE n + 1 \in T
  <2>. DEFINE t == first + n
              u == first + (n + 1)
              D == first + 1..u
              E == first + 1..t
  <2>. SUFFICES ASSUME u =< Len(tape) PROVE good(u)
    OBVIOUS
  <2>1. /\ u \in first + 1..Len(tape) /\ u - 1 = t /\ t =< Len(tape)
        /\ u \in D /\ E = D \ {u} /\ first + 1 \in Int /\ u \in Int
    BY <1>3
  <2>2. good(t)
    BY <2>1
  <2>. HIDE DEF u, t
  <2>3. /\ Lowest(Accounts[u].owns) /\ Lowest(value(u)) /\ Lowest(run[u])
        /\ value(u) = Times(run[u], value(t))
    BY <1>7, <2>1, <2>2
  <2>4. IsFiniteSet(D)
    BY <2>1, FS_Interval
  <2>5. \A x \in D : Lowest(run[x])
    BY <2>1, <2>2, <2>3
  <2>. HIDE DEF D, E, value
  <2>9. u \in D /\ E = D \ {u}
    BY <2>1
  <2>6. Fold("times", run, D) = Combine("times", run[u], Fold("times", run, E))
    BY <2>4, <2>5, <2>9, FoldOfOneMore, SMT
  <2>7. Fold("times", run, E) = value(t)
    BY <2>2 DEF E
  <2>8. Fold("times", run, D) = value(u)
    BY <2>3, <2>6, <2>7 DEF Combine
  <2>. QED
    BY <2>3, <2>5, <2>8 DEF D
<1>. HIDE DEF T
<1>10. \A n \in Nat : n \in T
  <2>1. T \in SUBSET Nat
    BY DEF T
  <2>. QED
    BY <1>8, <1>9, <2>1, SetInduction
<1>11. good(Len(tape))
  <2>1. Len(tape) - first \in Nat /\ first + (Len(tape) - first) = Len(tape)
    BY <1>3
  <2>2. Len(tape) - first \in T
    BY <1>10, <2>1
  <2>. HIDE DEF good
  <2>. QED
    BY <1>3, <2>1, <2>2 DEF T
<1>12. DOMAIN run = first + 1..Len(tape) /\ IsFiniteSet(DOMAIN run)
  <2>1. first + 1 \in Int /\ Len(tape) \in Int
    BY <1>3
  <2>. QED
    BY <1>4, <2>1, FS_Interval
<1>13. Compounded(run) = Fold("times", run, DOMAIN run)
  BY <1>12, CompoundedIsFold
<1>. QED
  BY <1>11, <1>12, <1>13

\* MatchesAccount (run_backtest): the growth of a market that is always in one
\* ticker or in cash is that of an account that trades whole positions, for
\* every tape, every set of tickers and every cost.
THEOREM MatchesAccountHolds == Spec /\ []OpensFit => []MatchesAccount
<1>1. IsTape /\ subject \in Subjects /\ OpensFit => MatchesAccount
  <2>. SUFFICES ASSUME IsTape, subject \in Subjects, OpensFit, Kind("market"), OneAtATime,
                       RunBacktest(tape, Wanted(tape), Tickers, subject.cost) # NaN
                PROVE  Compounded(RunBacktest(tape, Wanted(tape), Tickers, subject.cost))
                         = AtClose(Accounts[Len(tape)], Len(tape))
    BY DEF MatchesAccount
  <2>1. Lowest(subject.cost)
    <3>1. /\ subject.cost.n \in Int /\ subject.cost.d \in Nat \ {0}
          /\ subject.cost = Ratio(subject.cost.n, subject.cost.d)
      BY CostAssumption DEF Kind
    <3>2. Lowest(Ratio(subject.cost.n, subject.cost.d))
      BY <3>1, RatioWorth DEF Worth
    <3>. QED
      BY <3>1, <3>2
  <2>. QED
    BY <2>1, AccountGrows
<1>. QED
  BY <1>1, TapeStays, SubjectStays, PTL

-----------------------------------------------------------------------------
(* No hindsight.                                                           *)

\* A function of the days is a sequence.
LEMMA RowsOfDays ==
  ASSUME NEW days, IsSeq(days), NEW w, w = [t \in DOMAIN days |-> w[t]]
  PROVE  IsSeq(w) /\ Len(w) = Len(days)
<1>1. Len(days) \in Nat /\ DOMAIN days = 1..Len(days)
  BY DEF IsSeq
<1>2. w = [t \in 1..Len(days) |-> w[t]]
  BY <1>1
<1>3. w \in Seq({w[t] : t \in 1..Len(days)}) /\ Len(w) = Len(days)
  BY <1>1, <1>2
<1>. QED
  BY <1>3 DEF IsSeq

\* A tape that is a day longer than another one, on which no ticker's prices
\* stop or come back.
SteadyNext(a, b) ==
  /\ Longer(a, b) /\ Len(b) = Len(a) + 1 /\ Len(a) # 0
  /\ \A x \in Tickers : Priced(b, Len(b), x) <=> Priced(a, Len(a), x)

\* The exits of the days before are the same.
LEMMA SameOut ==
  ASSUME NEW a, NEW b, SteadyNext(a, b), NEW t \in 1..Len(a), NEW x \in Tickers
  PROVE  MustBeOut(b, t, x) <=> MustBeOut(a, t, x)
<1>. DEFINE pa == {u \in DOMAIN a : Priced(a, u, x)}
            pb == {u \in DOMAIN b : Priced(b, u, x)}
            n == Len(a)
<1>1. /\ n \in Nat \ {0} /\ Len(b) = n + 1 /\ DOMAIN a = 1..n /\ DOMAIN b = 1..n + 1 /\ t \in 1..n
      /\ \A u \in 1..n : (Priced(b, u, x) <=> Priced(a, u, x))
      /\ (Priced(b, n + 1, x) <=> Priced(a, n, x))
  BY LongerDays DEF SteadyNext, Priced
<1>2. /\ MustBeOut(a, t, x) <=> (pa = {} \/ (Max(pa) < n /\ t >= Max(pa) - 1) \/ (t < n /\ ~Priced(a, t + 1, x)))
      /\ MustBeOut(b, t, x) <=> (pb = {} \/ (Max(pb) < n + 1 /\ t >= Max(pb) - 1) \/ (t < n + 1 /\ ~Priced(b, t + 1, x)))
  BY <1>1 DEF MustBeOut
<1>3. pa \in SUBSET (1..n) /\ pb \in SUBSET (1..n + 1)
  BY <1>1
<1>4. /\ pa # {} => Max(pa) \in pa /\ \A u \in pa : u =< Max(pa)
      /\ pb # {} => Max(pb) \in pb /\ \A u \in pb : u =< Max(pb)
  <2>. HIDE DEF pa, pb, n
  <2>1. n \in Nat /\ n + 1 \in Nat
    BY <1>1
  <2>. QED
    BY <1>3, <2>1, LastDay
<1>5. CASE Priced(a, n, x)
  <2>1. n \in pa /\ n + 1 \in pb
    BY <1>1, <1>5
  <2>. HIDE DEF pa, pb, n
  <2>2. Max(pa) = n /\ Max(pb) = n + 1
    <3>1. Max(pa) \in 1..n /\ n =< Max(pa)
      BY <1>3, <1>4, <2>1
    <3>2. Max(pb) \in 1..n + 1 /\ n + 1 =< Max(pb)
      BY <1>3, <1>4, <2>1
    <3>. QED
      BY <1>1, <3>1, <3>2
  <2>3. Priced(b, t + 1, x) <=> (t < n => Priced(a, t + 1, x))
    <3>1. CASE t < n
      BY <1>1, <3>1
    <3>2. CASE t = n
      BY <1>1, <1>5, <3>2
    <3>. QED
      BY <1>1, <3>1, <3>2
  <2>4. t < n + 1 /\ ~(n < n) /\ ~(n + 1 < n + 1)
    BY <1>1
  <2>. QED
    BY <1>2, <2>1, <2>2, <2>3, <2>4
<1>6. CASE ~Priced(a, n, x)
  <2>1. pb = pa
    BY <1>1, <1>6
  <2>2. n \notin pa
    BY <1>6
  <2>. HIDE DEF pa, pb, n
  <2>3. CASE pa = {}
    BY <1>2, <2>1, <2>3
  <2>4. CASE pa # {}
    <3>1. Max(pa) \in 1..n /\ Max(pa) < n /\ Max(pa) < n + 1
      <4>1. Max(pa) \in 1..n /\ Max(pa) # n
        BY <1>3, <1>4, <2>2, <2>4
      <4>. QED
        BY <1>1, <4>1
    <3>2. t = n => t >= Max(pa) - 1
      BY <1>1, <3>1
    <3>3. t < n + 1 /\ (t < n \/ t = n)
      BY <1>1
    <3>4. t < n => (Priced(b, t + 1, x) <=> Priced(a, t + 1, x))
      BY <1>1
    <3>. QED
      BY <1>2, <2>1, <2>4, <3>1, <3>2, <3>3, <3>4
  <2>. QED
    BY <2>3, <2>4
<1>. QED
  BY <1>5, <1>6

\* So are the books after the exits.
LEMMA SteadyExits ==
  ASSUME NEW a, NEW b, SteadyNext(a, b), NEW v, NEW w, \A t \in 1..Len(a) : w[t] = v[t]
  PROVE  /\ Longer(ExitBeforeDelisting(a, v, Tickers), ExitBeforeDelisting(b, w, Tickers))
         /\ Len(ExitBeforeDelisting(a, v, Tickers)) = Len(a)
         /\ Len(ExitBeforeDelisting(b, w, Tickers)) = Len(b)
<1>. DEFINE ea == ExitBeforeDelisting(a, v, Tickers)
            eb == ExitBeforeDelisting(b, w, Tickers)
<1>1. /\ IsSeq(a) /\ IsSeq(b) /\ Len(a) \in Nat /\ Len(b) = Len(a) + 1
      /\ DOMAIN a = 1..Len(a) /\ DOMAIN a \subseteq DOMAIN b
  BY LongerDays DEF SteadyNext, Longer
<1>2. IsSeq(ea) /\ IsSeq(eb) /\ Len(ea) = Len(a) /\ Len(eb) = Len(b)
  <2>1. ea = [t \in DOMAIN a |-> ea[t]] /\ eb = [t \in DOMAIN b |-> eb[t]]
    BY DEF ExitBeforeDelisting
  <2>. HIDE DEF ea, eb
  <2>. QED
    BY <1>1, <2>1, RowsOfDays
<1>3. ASSUME NEW t \in 1..Len(a)
      PROVE  eb[t] = ea[t]
  <2>1. \A x \in Tickers : MustBeOut(b, t, x) <=> MustBeOut(a, t, x)
    BY SameOut
  <2>2. w[t] = v[t]
    OBVIOUS
  <2>. QED
    BY <1>1, <2>1, <2>2 DEF ExitBeforeDelisting, Cell
<1>. HIDE DEF ea, eb
<1>. QED
  BY <1>1, <1>2, <1>3 DEF Longer, ea, eb

\* A period that is over has the same results on a longer tape.
LEMMA SamePeriod ==
  ASSUME NEW a, NEW b, Longer(a, b), NEW v, NEW w, Longer(v, w), Len(v) = Len(a),
         NEW period, period[1] \in Nat \ {0}, period[2] \in 1..Len(a), NEW tickers, NEW p
  PROVE  /\ RunPeriod(b, w, tickers, period, p) = RunPeriod(a, v, tickers, period, p)
         /\ \A run : Trades(w, tickers, period, run) = Trades(v, tickers, period, run)
<1>1. /\ SubSeq(b, period[1], period[2]) = SubSeq(a, period[1], period[2])
      /\ SubSeq(w, period[1], period[2]) = SubSeq(v, period[1], period[2])
  <2>1. ASSUME NEW c, NEW d, Longer(c, d), NEW s \in Nat \ {0}, NEW t \in 1..Len(c)
        PROVE  SubSeq(d, s, t) = SubSeq(c, s, t)
    BY <2>1, SameSlices DEF Longer, SameTo
  <2>. DEFINE first == period[1]
              last == period[2]
  <2>2. first \in Nat \ {0} /\ last \in 1..Len(a) /\ last \in 1..Len(v)
    OBVIOUS
  <2>. HIDE DEF first, last
  <2>3. SubSeq(b, first, last) = SubSeq(a, first, last)
    BY <2>1, <2>2
  <2>4. SubSeq(w, first, last) = SubSeq(v, first, last)
    BY <2>1, <2>2
  <2>. QED
    BY <2>3, <2>4 DEF first, last
<1>. QED
  BY <1>1 DEF RunPeriod, Trades

-----------------------------------------------------------------------------
(* Capital.                                                                *)

\* The parts that a share of the capital makes of a row of weights.
PartsOf(f, h, U, S, share) ==
  /\ IsFiniteSet(U) /\ S \in SUBSET U /\ share \in Nat
  /\ \A x \in S : f[x] \in Nat /\ h[x] = Scaled(f[x], share, 1)
  /\ \A x \in U \ S : h[x] = 0
  /\ SumFunctionOnSet(f, S) =< Unit

\* They are not more than the share.
LEMMA PartsFit ==
  ASSUME NEW f, NEW h, NEW U, NEW S, NEW share, PartsOf(f, h, U, S, share)
  PROVE  /\ \A x \in U : h[x] \in Nat
         /\ SumFunctionOnSet(h, U) \in Nat /\ SumFunctionOnSet(h, U) =< share
<1>0. /\ IsFiniteSet(U) /\ IsFiniteSet(S) /\ S \in SUBSET U /\ share \in Nat
      /\ \A x \in S : f[x] \in Nat /\ h[x] = Scaled(f[x], share, 1)
      /\ \A x \in U \ S : h[x] = 0
      /\ SumFunctionOnSet(f, S) =< Unit
  BY FS_Subset DEF PartsOf
<1>. DEFINE wanted == SumFunctionOnSet(f, S)
            given == SumFunctionOnSet(h, S)
            up == [x \in S |-> Unit * h[x]]
            most == [x \in S |-> share * f[x]]
            u == Unit
<1>1. u \in Nat \ {0}
  BY FramesAssumption
<1>2. ASSUME NEW x \in S
      PROVE  h[x] \in Nat /\ u * h[x] =< share * f[x] /\ share * f[x] \in Nat
  <2>. DEFINE k == f[x] * share
  <2>1. k \in Nat /\ k = share * f[x] /\ h[x] = k \div (u * 1) /\ u * 1 = u
    BY <1>0, <1>1 DEF Scaled
  <2>. HIDE DEF k, u
  <2>2. h[x] = k \div u
    BY <2>1
  <2>3. k \div u \in Nat /\ u * (k \div u) =< k
    BY <1>1, <2>1, Quotient
  <2>. QED
    BY <2>1, <2>2, <2>3
<1>3. \A x \in U : h[x] \in Nat
  BY <1>0, <1>2
<1>4. given \in Nat /\ SumFunctionOnSet(h, U) = given /\ wanted \in Nat
  <2>1. given \in Nat /\ wanted \in Nat
    BY <1>0, <1>2, SumOfPart
  <2>2. SumFunctionOnSet(h, U) = given
    <3>1. \A x \in U : h[x] \in Int
      BY <1>3
    <3>. QED
      BY <1>0, <3>1, SumWithoutZeros
  <2>. QED
    BY <2>1, <2>2
<1>5. SumFunctionOnSet(up, S) = u * given
  <2>1. \A x \in S : h[x] \in Int /\ up[x] = u * h[x]
    BY <1>2
  <2>2. u \in Int
    BY <1>1
  <2>. HIDE DEF up, u
  <2>. QED
    BY <1>0, <2>1, <2>2, SumScaled
<1>6. SumFunctionOnSet(most, S) = share * wanted
  <2>1. \A x \in S : f[x] \in Int /\ most[x] = share * f[x]
    BY <1>0
  <2>. HIDE DEF most
  <2>. QED
    BY <1>0, <2>1, SumScaled
<1>7. SumFunctionOnSet(up, S) =< SumFunctionOnSet(most, S)
  <2>1. \A x \in S : up[x] \in Int /\ most[x] \in Int /\ up[x] =< most[x]
    BY <1>1, <1>2
  <2>. HIDE DEF up, most
  <2>. QED
    BY <1>0, <2>1, SumRises
<1>8. u * given =< share * wanted /\ wanted =< u
  BY <1>0, <1>5, <1>6, <1>7
<1>. HIDE DEF u, given, wanted
<1>9. share * wanted =< share * u
  BY <1>0, <1>1, <1>4, <1>8
<1>10. u * given =< u * share
  BY <1>0, <1>1, <1>4, <1>8, <1>9
<1>11. given =< share
  BY <1>0, <1>1, <1>4, <1>10
<1>. QED
  BY <1>3, <1>4, <1>11

\* A sum of one term is that term.
LEMMA SumOfOne ==
  ASSUME NEW m, NEW f, DOMAIN f = {m}, f[m] \in Int
  PROVE  SumFunction(f) = f[m]
<1>1. IsFiniteSet({m}) /\ {} \in SUBSET {m} /\ m \in {m} \ {} /\ {} \cup {m} = {m}
  BY FS_Singleton
<1>2. \A x \in {m} : f[x] \in Int
  OBVIOUS
<1>3. SumFunctionOnSet(f, {} \cup {m}) = f[m] + SumFunctionOnSet(f, {})
  <2>1. \A D \in SUBSET {m} : \A x \in {m} \ D : SumFunctionOnSet(f, D \cup {x}) = f[x] + SumFunctionOnSet(f, D)
    <3>. DEFINE U == {m}
    <3>1. IsFiniteSet(U) /\ \A x \in U : f[x] \in Int
      BY <1>1, <1>2
    <3>. HIDE DEF U
    <3>2. \A D \in SUBSET U : /\ SumFunctionOnSet(f, D) \in Int
                                /\ \A x \in U \ D : SumFunctionOnSet(f, D \cup {x}) = f[x] + SumFunctionOnSet(f, D)
      BY <3>1, SumGrows
    <3>. QED
      BY <3>2 DEF U
  <2>. QED
    BY <1>1, <2>1, Zenon
<1>4. SumFunctionOnSet(f, {}) = 0
  BY SumOfNone
<1>5. SumFunctionOnSet(f, {m}) = f[m]
  BY <1>1, <1>3, <1>4
<1>. QED
  BY <1>5, SumOfFunction

\* A member's row of weights, if it has one: not short, and at most the capital.
RowWants(w, t) ==
  w[t] # NaN =>
    /\ IsFiniteSet(DOMAIN w[t])
    /\ \A x \in DOMAIN w[t] : Target(w, t, x) \in Nat
    /\ SumFunction([x \in DOMAIN w[t] |-> Target(w, t, x)]) =< Unit

\* What is made of it with a share of the capital.
LEMMA SharesOf ==
  ASSUME NEW w, NEW t, RowWants(w, t), NEW S, S = (IF w[t] = NaN THEN {} ELSE DOMAIN w[t]),
         NEW U, IsFiniteSet(U), S \in SUBSET U, NEW share \in Nat,
         NEW h, \A x \in U : h[x] = IF x \in S THEN Scaled(Target(w, t, x), share, 1) ELSE 0
  PROVE  PartsOf([x \in S |-> Target(w, t, x)], h, U, S, share)
<1>. DEFINE f == [x \in S |-> Target(w, t, x)]
<1>1. CASE w[t] = NaN
  <2>1. S = {}
    BY <1>1
  <2>2. SumFunctionOnSet(f, S) = 0 /\ 0 =< Unit
    <3>1. \A e : SumFunctionOnSet(e, {}) = 0
      BY SumOfNone
    <3>. HIDE DEF f
    <3>. QED
      BY <2>1, <3>1, FramesAssumption
  <2>3. \A x \in S : f[x] \in Nat /\ h[x] = Scaled(f[x], share, 1)
    BY <2>1
  <2>. HIDE DEF f
  <2>. QED
    BY <2>2, <2>3 DEF PartsOf, f
<1>2. CASE w[t] # NaN
  <2>1. S = DOMAIN w[t] /\ (\A x \in S : Target(w, t, x) \in Nat) /\ SumFunction(f) =< Unit
    BY <1>2 DEF RowWants
  <2>2. \A x \in S : f[x] \in Nat /\ h[x] = Scaled(f[x], share, 1)
    BY <2>1
  <2>3. DOMAIN f = S
    OBVIOUS
  <2>. HIDE DEF f
  <2>4. SumFunctionOnSet(f, S) =< Unit
    BY <2>1, <2>3, SumOfFunction
  <2>. QED
    BY <2>2, <2>4 DEF PartsOf, f
<1>. QED
  BY <1>1, <1>2

\* A portfolio of members like these is one, too.
LEMMA RowCombines ==
  ASSUME NEW frames, DOMAIN frames = {Core, "sleeve"}, NEW split, split.core \in Nat, split.sleeve \in Nat,
         split.core + split.sleeve =< Unit,
         NEW t, RowWants(frames[Core], t), RowWants(frames["sleeve"], t)
  PROVE  LongOnly(SleeveRow(frames, split, t)) /\ LongOnly(CombinedRow(frames, split, t))
<1>. DEFINE core == frames[Core]
            sleeve == frames["sleeve"]
            SC == IF core[t] = NaN THEN {} ELSE DOMAIN core[t]
            SS == IF sleeve[t] = NaN THEN {} ELSE DOMAIN sleeve[t]
            H == Held(frames, t)
            sv == SleeveRow(frames, split, t)
            row == CombinedRow(frames, split, t)
            cv == [x \in H |-> IF x \in SC THEN Scaled(Target(core, t, x), split.core, 1) ELSE 0]
            members == DOMAIN frames \ {Core}
<1>1. H = SC \cup SS
  BY DEF Held
<1>2. IsFiniteSet(SC) /\ IsFiniteSet(SS) /\ IsFiniteSet(H)
  <2>1. IsFiniteSet(SC) /\ IsFiniteSet(SS)
    BY FS_EmptySet DEF RowWants
  <2>. HIDE DEF SC, SS, H
  <2>. QED
    BY <1>1, <2>1, FS_Union
<1>3. members = {"sleeve"} /\ Cardinality(members) = 1
  <2>1. members = {"sleeve"}
    BY DEF Core
  <2>. HIDE DEF members
  <2>. QED
    BY <2>1, FS_Singleton
<1>4. ASSUME NEW x \in H
      PROVE  sv[x] = IF x \in SS THEN Scaled(Target(sleeve, t, x), split.sleeve, 1) ELSE 0
  <2>. DEFINE value == IF x \in SS THEN Scaled(Target(sleeve, t, x), split.sleeve, 1) ELSE 0
              parts == [m \in members |->
                          IF frames[m][t] # NaN /\ x \in DOMAIN frames[m][t]
                          THEN Scaled(Target(frames[m], t, x), split.sleeve, Cardinality(members)) ELSE 0]
  <2>1. sv[x] = SumFunction(parts)
    BY DEF SleeveRow, SleeveShare
  <2>2. DOMAIN parts = {"sleeve"}
    BY <1>3
  <2>3. parts["sleeve"] = value
    <3>1. "sleeve" \in members
      BY <1>3
    <3>. HIDE DEF members
    <3>. QED
      BY <1>3, <3>1
  <2>4. value \in Int
    <3>1. x \in SS => Target(sleeve, t, x) \in Int
      BY DEF RowWants
    <3>2. x \in SS => Scaled(Target(sleeve, t, x), split.sleeve, 1) \in Int
      <4>1. \A weight, share \in Int : Scaled(weight, share, 1) \in Int
        BY ScaledWhole
      <4>2. split.sleeve \in Int
        OBVIOUS
      <4>. HIDE DEF SS, sleeve
      <4>. QED
        BY <3>1, <4>1, <4>2
    <3>. QED
      BY <3>2
  <2>. HIDE DEF parts, value
  <2>5. SumFunction(parts) = parts["sleeve"]
    BY <2>2, <2>3, <2>4, SumOfOne
  <2>. QED
    BY <2>1, <2>3, <2>5 DEF value
<1>5. ASSUME NEW x \in H
      PROVE  row[x] = cv[x] + sv[x]
  <2>1. sv[x] = SleeveShare(frames, split, t, x)
    BY DEF SleeveRow
  <2>2. row[x] = (IF core[t] = NaN THEN 0 ELSE CoreShare(frames, split, t, x)) + SleeveShare(frames, split, t, x)
    BY DEF CombinedRow
  <2>3. cv[x] = (IF core[t] = NaN THEN 0 ELSE CoreShare(frames, split, t, x))
    BY DEF CoreShare
  <2>. HIDE DEF sv, row, cv
  <2>. QED
    BY <2>1, <2>2, <2>3
<1>6. DOMAIN row = H /\ DOMAIN sv = H
  BY DEF CombinedRow, SleeveRow
<1>7. /\ \A x \in H : sv[x] \in Nat
      /\ SumFunctionOnSet(sv, H) \in Nat /\ SumFunctionOnSet(sv, H) =< split.sleeve
  <2>. DEFINE f == [x \in SS |-> Target(sleeve, t, x)]
  <2>1. SS = (IF sleeve[t] = NaN THEN {} ELSE DOMAIN sleeve[t]) /\ SS \in SUBSET H
    BY <1>1
  <2>. HIDE DEF SS, SC, H, sleeve, sv
  <2>2. RowWants(sleeve, t)
    BY DEF sleeve
  <2>3. PartsOf(f, sv, H, SS, split.sleeve)
    BY <1>2, <1>4, <2>1, <2>2, SharesOf
  <2>. HIDE DEF f
  <2>. QED
    BY <2>3, PartsFit
<1>8. /\ \A x \in H : cv[x] \in Nat
      /\ SumFunctionOnSet(cv, H) \in Nat /\ SumFunctionOnSet(cv, H) =< split.core
  <2>. DEFINE f == [x \in SC |-> Target(core, t, x)]
  <2>1. SC = (IF core[t] = NaN THEN {} ELSE DOMAIN core[t]) /\ SC \in SUBSET H
    BY <1>1
  <2>2. \A x \in H : cv[x] = IF x \in SC THEN Scaled(Target(core, t, x), split.core, 1) ELSE 0
    OBVIOUS
  <2>. HIDE DEF SS, SC, H, core, cv
  <2>3. RowWants(core, t)
    BY DEF core
  <2>4. PartsOf(f, cv, H, SC, split.core)
    BY <1>2, <2>1, <2>2, <2>3, SharesOf
  <2>. HIDE DEF f
  <2>. QED
    BY <2>4, PartsFit
<1>. HIDE DEF sv, cv, row, H
<1>9. SumFunctionOnSet(row, H) = SumFunctionOnSet(cv, H) + SumFunctionOnSet(sv, H)
  <2>1. \A x \in H : cv[x] \in Int /\ sv[x] \in Int /\ row[x] = cv[x] + sv[x]
    BY <1>5, <1>7, <1>8
  <2>. QED
    BY <1>2, <2>1, SumOfSums
<1>10. SumFunction(row) = SumFunctionOnSet(row, H) /\ SumFunction(sv) = SumFunctionOnSet(sv, H)
  BY <1>6, SumOfFunction
<1>11. Unit \in Nat
  BY FramesAssumption
<1>12. SumFunction(row) =< Unit /\ SumFunction(sv) =< Unit
  BY <1>7, <1>8, <1>9, <1>10, <1>11
<1>13. \A x \in H : row[x] >= 0 /\ sv[x] >= 0
  BY <1>5, <1>7, <1>8
<1>. QED
  BY <1>6, <1>12, <1>13 DEF LongOnly, Invested, row, sv

\* Whole weights that are at most the capital are such a row,
LEMMA RowsWant ==
  ASSUME NEW w, NEW t \in Nat \ {0}, w[t] # NaN => RowFits(w[t], Unit)
  PROVE  RowWants(w, t)
<1>. SUFFICES ASSUME w[t] # NaN
              PROVE  /\ IsFiniteSet(DOMAIN w[t])
                     /\ \A x \in DOMAIN w[t] : Target(w, t, x) \in Nat
                     /\ SumFunction([x \in DOMAIN w[t] |-> Target(w, t, x)]) =< Unit
  BY DEF RowWants
<1>. DEFINE row == w[t]
            D == DOMAIN row
            f == [x \in D |-> Target(w, t, x)]
<1>1. IsFiniteSet(D) /\ (\A x \in D : row[x] \in Nat) /\ SumFunction(row) =< Unit
  BY DEF RowFits
<1>2. ASSUME NEW x \in D
      PROVE  Target(w, t, x) = row[x]
  <2>1. row[x] # NaN
    BY <1>1, FramesAssumption
  <2>. QED
    BY <2>1 DEF Target, Cell
<1>3. DOMAIN f = D /\ \A x \in D : f[x] = row[x]
  BY <1>2
<1>4. \A x \in D : Target(w, t, x) \in Nat
  BY <1>1, <1>2
<1>. HIDE DEF f, row
<1>5. SumFunction(f) = SumFunctionOnSet(f, D) /\ SumFunction(row) = SumFunctionOnSet(row, D)
  BY <1>3, SumOfFunction
<1>6. SumFunctionOnSet(f, D) = SumFunctionOnSet(row, D)
  BY <1>1, <1>3, SameSum
<1>7. SumFunction(f) =< Unit
  BY <1>1, <1>5, <1>6
<1>. QED
  BY <1>1, <1>4, <1>7 DEF f, row

\* and so is what the exits leave of a day that can be held.
LEMMA ExitsWant ==
  ASSUME NEW days, NEW w, NEW t \in DOMAIN days, t \in Nat \ {0}, DayFits(w, t)
  PROVE  RowWants(ExitBeforeDelisting(days, w, Tickers), t)
<1>. DEFINE e == ExitBeforeDelisting(days, w, Tickers)
<1>1. DOMAIN e[t] = Tickers /\ IsFiniteSet(Tickers)
  BY TickersAssumption DEF ExitBeforeDelisting
<1>2. ASSUME NEW x \in Tickers
      PROVE  Target(e, t, x) \in Nat /\ Target(e, t, x) =< Target(w, t, x)
  <2>1. Target(w, t, x) \in Nat
    BY DEF DayFits
  <2>2. e[t][x] \in {0, Cell(w, t, x)}
    BY DEF ExitBeforeDelisting
  <2>3. Cell(e, t, x) \in {NaN, 0, Cell(w, t, x)}
    BY <2>2 DEF Cell
  <2>. HIDE DEF e
  <2>4. Target(e, t, x) \in {0, Target(w, t, x)}
    BY <2>3 DEF Target
  <2>. QED
    BY <2>1, <2>4
<1>. HIDE DEF e
<1>3. DayFits(e, t)
  BY <1>2, LessFits
<1>4. RowWants(e, t)
  BY <1>1, <1>3 DEF RowWants, DayFits
<1>. QED
  BY <1>4 DEF e

\* The days of a sleeve's rule can be held.
LEMMA RuleDaysFit ==
  ASSUME NEW days, Len(days) \in Nat, DOMAIN days = 1..Len(days), NEW p, RuleFits(p), RuleReads(days, p),
         p.family \notin CoreFamilies, NEW t \in DOMAIN days
  PROVE  DayFits(Weights(days, p), t)
<1>. DEFINE w == Weights(days, p)
            f == [x \in Tickers |-> Target(w, t, x)]
<1>1. t \in Nat \ {0} /\ IsFiniteSet(Tickers)
  BY TickersAssumption
<1>2. w[t] # NaN => DOMAIN w[t] = Tickers /\ RowFits(w[t], Unit)
  BY SleeveRows, WeightsFit
<1>. HIDE DEF w
<1>3. CASE w[t] = NaN
  <2>1. \A x \in Tickers : Target(w, t, x) = 0
    BY <1>3 DEF Target, Cell
  <2>2. (\A x \in Tickers : f[x] \in Int) /\ (\A x \in Tickers \ {} : f[x] = 0) /\ DOMAIN f = Tickers
    BY <2>1
  <2>3. \A e : SumFunctionOnSet(e, {}) = 0
    BY SumOfNone
  <2>. HIDE DEF f
  <2>4. SumFunctionOnSet(f, Tickers) = SumFunctionOnSet(f, {})
    BY <1>1, <2>2, SumWithoutZeros
  <2>5. SumFunction(f) = 0
    BY <2>2, <2>3, <2>4, SumOfFunction
  <2>6. SumFunction(f) =< Unit
    BY <2>5, FramesAssumption
  <2>. QED
    BY <2>1, <2>6 DEF DayFits, f, w
<1>4. CASE w[t] # NaN
  <2>1. RowWants(w, t)
    BY <1>1, <1>2, RowsWant
  <2>2. DayFits(w, t)
    BY <1>2, <1>4, <2>1 DEF RowWants, DayFits
  <2>. QED
    BY <2>2 DEF w
<1>. QED
  BY <1>3, <1>4

-----------------------------------------------------------------------------
(* Grades.                                                                 *)

\* Two books of the same days, one of them longer.
LongerBooks(a, b, v, w) == Longer(v, w) /\ Len(v) = Len(a) /\ Len(w) = Len(b)

\* The book of a core and a sleeve on a longer tape.
LEMMA SameCombined ==
  ASSUME NEW a, NEW b, Longer(a, b), NEW p \in Subjects, p.kind = "candidate",
         RuleReads(a, p.core), RuleReads(b, p.core),
         NEW sa, NEW sb, LongerBooks(a, b, sa, sb),
         \A t \in DOMAIN a : RowWants(sa, t), \A t \in DOMAIN b : RowWants(sb, t)
  PROVE  \/ Combined(a, sa, p) = <<>> /\ Combined(b, sb, p) = <<>>
         \/ LongerBooks(a, b, Combined(a, sa, p), Combined(b, sb, p))
<1>. DEFINE frames(days, s) == [m \in {Core, "sleeve"} |-> IF m = Core THEN Weights(days, p.core) ELSE s]
            fa == frames(a, sa)
            fb == frames(b, sb)
            all == Universe(p.core) \cup Tickers
            wide(row) == [x \in all |-> IF x \in DOMAIN row THEN row[x] ELSE 0]
            ca == [t \in DOMAIN a |-> wide(CombinedRow(fa, p.split, t))]
            cb == [t \in DOMAIN b |-> wide(CombinedRow(fb, p.split, t))]
<1>1. /\ RuleFits(p.core) /\ p.core.family \in Registry
      /\ p.split.core \in Nat /\ p.split.sleeve \in Nat
  BY RuleAssumption
<1>2. /\ IsSeq(a) /\ IsSeq(b) /\ Len(a) \in Nat /\ Len(b) \in Nat /\ Len(a) =< Len(b)
      /\ DOMAIN a = 1..Len(a) /\ DOMAIN b = 1..Len(b)
  BY LongerDays DEF Longer
<1>3. /\ Combined(a, sa, p) = (IF Combines(fa, p.split) THEN ca ELSE <<>>)
      /\ Combined(b, sb, p) = (IF Combines(fb, p.split) THEN cb ELSE <<>>)
  BY DEF Combined
<1>4. CASE ~(p.split.core + p.split.sleeve =< Unit)
  <2>1. ~Combines(fa, p.split) /\ ~Combines(fb, p.split)
    BY <1>4 DEF Combines
  <2>. HIDE DEF fa, fb, ca, cb
  <2>. QED
    BY <1>3, <2>1
<1>5. CASE p.split.core + p.split.sleeve =< Unit
  <2>1. ASSUME NEW days, NEW s, IsSeq(days), RuleReads(days, p.core), \A t \in DOMAIN days : RowWants(s, t)
        PROVE  Combines(frames(days, s), p.split)
    <3>. DEFINE f == frames(days, s)
    <3>1. Len(days) \in Nat /\ DOMAIN days = 1..Len(days)
      BY <2>1 DEF IsSeq
    <3>2. DOMAIN f = {Core, "sleeve"} /\ f[Core] = Weights(days, p.core) /\ f["sleeve"] = s
      BY DEF Core
    <3>3. DOMAIN f[Core] = DOMAIN days
      BY <1>1, <3>2, FrameOf DEF IsFrame
    <3>4. ASSUME NEW t \in DOMAIN days
          PROVE  RowWants(f[Core], t) /\ RowWants(f["sleeve"], t)
      <4>1. t \in Nat \ {0}
        BY <3>1
      <4>2. Weights(days, p.core)[t] # NaN => RowFits(Weights(days, p.core)[t], Unit)
        BY <1>1, <2>1, <3>1, WeightsFit
      <4>3. RowWants(Weights(days, p.core), t)
        BY <4>1, <4>2, RowsWant
      <4>. HIDE DEF f
      <4>. QED
        BY <2>1, <3>2, <4>3
    <3>. HIDE DEF f
    <3>5. \A t \in DOMAIN days : LongOnly(SleeveRow(f, p.split, t)) /\ LongOnly(CombinedRow(f, p.split, t))
      BY <1>1, <1>5, <3>2, <3>4, RowCombines
    <3>6. Combines(f, p.split)
      BY <1>5, <3>2, <3>3, <3>5 DEF Combines
    <3>. QED
      BY <3>6 DEF f
  <2>2. Combines(fa, p.split) /\ Combines(fb, p.split)
    BY <1>2, <2>1
  <2>3. ASSUME NEW t \in 1..Len(a)
        PROVE  CombinedRow(fb, p.split, t) = CombinedRow(fa, p.split, t)
    <3>1. Weights(b, p.core)[t] = Weights(a, p.core)[t]
      BY <1>1, SameWeights
    <3>2. sb[t] = sa[t]
      BY DEF LongerBooks, Longer
    <3>3. /\ DOMAIN fa = {Core, "sleeve"} /\ DOMAIN fb = {Core, "sleeve"}
          /\ \A m \in {Core, "sleeve"} : fb[m][t] = fa[m][t]
      BY <3>1, <3>2
    <3>. HIDE DEF fa, fb
    <3>4. Core \in {Core, "sleeve"}
      OBVIOUS
    <3>5. Held(fb, t) = Held(fa, t)
      BY <3>3 DEF Held
    <3>6. ASSUME NEW x
          PROVE  /\ CoreShare(fb, p.split, t, x) = CoreShare(fa, p.split, t, x)
                 /\ SleeveShare(fb, p.split, t, x) = SleeveShare(fa, p.split, t, x)
      <4>1. \A m \in {Core, "sleeve"} : Target(fb[m], t, x) = Target(fa[m], t, x)
        BY <3>3 DEF Target, Cell
      <4>2. CoreShare(fb, p.split, t, x) = CoreShare(fa, p.split, t, x)
        BY <3>3, <3>4, <4>1 DEF CoreShare
      <4>3. SleeveShare(fb, p.split, t, x) = SleeveShare(fa, p.split, t, x)
        <5>. DEFINE members == {Core, "sleeve"} \ {Core}
                    part(f, m) == IF f[m][t] # NaN /\ x \in DOMAIN f[m][t]
                                  THEN Scaled(Target(f[m], t, x), p.split.sleeve, Cardinality(members)) ELSE 0
        <5>1. \A m \in members : part(fb, m) = part(fa, m)
          BY <3>3, <4>1
        <5>2. /\ SleeveShare(fa, p.split, t, x) = SumFunction([m \in members |-> part(fa, m)])
              /\ SleeveShare(fb, p.split, t, x) = SumFunction([m \in members |-> part(fb, m)])
          BY <3>3 DEF SleeveShare
        <5>3. [m \in members |-> part(fb, m)] = [m \in members |-> part(fa, m)]
          <6>. HIDE DEF members, part
          <6>. QED
            BY <5>1
        <5>. QED
          BY <5>2, <5>3
      <4>. QED
        BY <4>2, <4>3
    <3>. QED
      BY <3>3, <3>4, <3>5, <3>6 DEF CombinedRow
  <2>4. ca = [t \in DOMAIN a |-> ca[t]] /\ cb = [t \in DOMAIN b |-> cb[t]]
    OBVIOUS
  <2>5. \A t \in 1..Len(a) : cb[t] = ca[t]
    <3>1. \A t \in 1..Len(a) : t \in DOMAIN a /\ t \in DOMAIN b
      BY <1>2
    <3>. HIDE DEF fa, fb, wide
    <3>. QED
      BY <2>3, <3>1
  <2>. HIDE DEF fa, fb, ca, cb
  <2>6. IsSeq(ca) /\ IsSeq(cb) /\ Len(ca) = Len(a) /\ Len(cb) = Len(b)
    BY <1>2, <2>4, RowsOfDays
  <2>7. LongerBooks(a, b, ca, cb)
    BY <1>2, <2>5, <2>6 DEF LongerBooks, Longer
  <2>. QED
    BY <1>3, <2>2, <2>7
<1>. QED
  BY <1>4, <1>5

\* A rule's weights on a longer tape are a longer book.
LEMMA WeightsLonger ==
  ASSUME NEW a, NEW b, Longer(a, b), NEW p, p.family \in Registry
  PROVE  LongerBooks(a, b, Weights(a, p), Weights(b, p))
<1>1. IsSeq(a) /\ IsSeq(b) /\ Len(a) =< Len(b)
  BY DEF Longer
<1>2. ASSUME NEW days, IsSeq(days)
      PROVE  IsSeq(Weights(days, p)) /\ Len(Weights(days, p)) = Len(days)
  <2>1. Weights(days, p) = [t \in DOMAIN days |-> Weights(days, p)[t]]
    BY FrameOf DEF IsFrame
  <2>. QED
    BY <1>2, <2>1, RowsOfDays
<1>3. \A t \in 1..Len(a) : Weights(b, p)[t] = Weights(a, p)[t]
  BY SameWeights
<1>. QED
  BY <1>1, <1>2, <1>3 DEF LongerBooks, Longer

\* The sleeve of a candidate, and of the null, is one that can be combined.
LEMMA SleevesLonger ==
  ASSUME NEW a, NEW b, SteadyNext(a, b), NEW p \in Subjects, p.kind = "candidate",
         GradeReads(a, p), GradeReads(b, p)
  PROVE  /\ LongerBooks(a, b, Exited(a, p.rule), Exited(b, p.rule))
         /\ \A t \in DOMAIN a : RowWants(Exited(a, p.rule), t)
         /\ \A t \in DOMAIN b : RowWants(Exited(b, p.rule), t)
         /\ p.null # NaN =>
              /\ LongerBooks(a, b, NullBaselineSleeve(a, p), NullBaselineSleeve(b, p))
              /\ \A t \in DOMAIN a : RowWants(NullBaselineSleeve(a, p), t)
              /\ \A t \in DOMAIN b : RowWants(NullBaselineSleeve(b, p), t)
<1>1. RuleFits(p.rule) /\ p.rule.family \in Registry \cup {"null"} /\ p.rule.family \notin CoreFamilies
  BY RuleAssumption DEF RuleFits
<1>2. /\ Longer(a, b) /\ Len(a) \in Nat /\ DOMAIN a = 1..Len(a) /\ Len(b) \in Nat /\ DOMAIN b = 1..Len(b)
  BY LongerDays DEF SteadyNext
<1>3. \A t \in 1..Len(a) : Weights(b, p.rule)[t] = Weights(a, p.rule)[t]
  BY <1>1, <1>2, SameWeights
<1>4. \A t \in 1..Len(a) : NullWeights(b, p.null)[t] = NullWeights(a, p.null)[t]
  BY <1>2, SameNullWeights
<1>5. ASSUME NEW days, Len(days) \in Nat, DOMAIN days = 1..Len(days), GradeReads(days, p), NEW t \in DOMAIN days
      PROVE  RowWants(Exited(days, p.rule), t) /\ (p.null # NaN => RowWants(NullBaselineSleeve(days, p), t))
  <2>1. t \in Nat \ {0}
    BY <1>5
  <2>2. DayFits(Weights(days, p.rule), t)
    BY <1>1, <1>5, RuleDaysFit DEF GradeReads
  <2>3. p.null # NaN => DayFits(NullWeights(days, p.null), t)
    <3>1. DOMAIN NullWeights(days, p.null) = DOMAIN days
      BY DEF NullWeights
    <3>. QED
      BY <1>5, <3>1, NullFits DEF GradeReads, BookFits
  <2>. QED
    BY <2>1, <2>2, <2>3, ExitsWant DEF Exited, NullBaselineSleeve
<1>6. LongerBooks(a, b, Exited(a, p.rule), Exited(b, p.rule))
  BY <1>3, SteadyExits DEF LongerBooks, Exited
<1>7. LongerBooks(a, b, NullBaselineSleeve(a, p), NullBaselineSleeve(b, p))
  BY <1>4, SteadyExits DEF LongerBooks, NullBaselineSleeve
<1>. QED
  BY <1>2, <1>5, <1>6, <1>7

\* A period that is over.
PeriodOver(period, n) == period[1] \in Nat \ {0} /\ period[2] \in 1..n

\* The evaluation next to the core, in a period that is over.
LEMMA SameEvaluation ==
  ASSUME NEW a, NEW b, SteadyNext(a, b), NEW p \in Subjects, p.kind = "candidate",
         GradeReads(a, p), GradeReads(b, p), NEW period, PeriodOver(period, Len(a)), NEW trades
  PROVE  CombinedEvaluation(b, Exited(b, p.rule), trades, period, p)
           = CombinedEvaluation(a, Exited(a, p.rule), trades, period, p)
<1>. DEFINE all == Universe(p.core) \cup Tickers
            with(days) == Combined(days, Exited(days, p.rule), p)
            base(days) == BaselineWeights(days, p)
            held == IF p.null = NaN THEN Universe(p.core) ELSE all
            run(days) == IF with(days) = <<>> THEN NaN ELSE RunPeriod(days, with(days), all, period, p)
            ground(days) == IF base(days) = <<>> THEN NaN ELSE RunPeriod(days, base(days), held, period, p)
<1>1. Longer(a, b) /\ Len(a) \in Nat \ {0} /\ Len(b) = Len(a) + 1
  BY LongerDays DEF SteadyNext
<1>2. RuleReads(a, p.core) /\ RuleReads(b, p.core) /\ p.core.family \in Registry
  BY RuleAssumption DEF GradeReads
<1>3. (with(a) = <<>> /\ with(b) = <<>>) \/ LongerBooks(a, b, with(a), with(b))
  BY <1>1, <1>2, SleevesLonger, SameCombined
<1>4. (base(a) = <<>> /\ base(b) = <<>>) \/ LongerBooks(a, b, base(a), base(b))
  <2>1. CASE p.null = NaN
    BY <1>1, <1>2, <2>1, WeightsLonger DEF BaselineWeights
  <2>2. CASE p.null # NaN
    BY <1>1, <1>2, <2>2, SleevesLonger, SameCombined DEF BaselineWeights
  <2>. QED
    BY <2>1, <2>2
<1>5. ASSUME NEW v, NEW w, (v = <<>> /\ w = <<>>) \/ LongerBooks(a, b, v, w), NEW tickers
      PROVE  (IF w = <<>> THEN NaN ELSE RunPeriod(b, w, tickers, period, p))
               = (IF v = <<>> THEN NaN ELSE RunPeriod(a, v, tickers, period, p))
  <2>1. CASE v = <<>> /\ w = <<>>
    BY <2>1
  <2>2. CASE LongerBooks(a, b, v, w)
    <3>1. v # <<>> /\ w # <<>>
      BY <1>1, <2>2 DEF LongerBooks
    <3>2. RunPeriod(b, w, tickers, period, p) = RunPeriod(a, v, tickers, period, p)
      BY <1>1, <2>2, SamePeriod DEF LongerBooks, PeriodOver
    <3>. QED
      BY <3>1, <3>2
  <2>. QED
    BY <1>5, <2>1, <2>2
<1>. HIDE DEF with, base
<1>6. run(b) = run(a) /\ ground(b) = ground(a)
  BY <1>3, <1>4, <1>5
<1>. HIDE DEF run, ground
<1>7. ASSUME NEW days
      PROVE  CombinedEvaluation(days, Exited(days, p.rule), trades, period, p) =
               LET common == DOMAIN run(days) \cap DOMAIN ground(days)
                   on(r)  == [t \in common |-> r[t]]
               IN  IF run(days) = NaN \/ ground(days) = NaN THEN NaN
                   ELSE LET c == Metrics(on(run(days)))
                            o == Metrics(on(ground(days)))
                        IN  IF c = NaN THEN NaN
                            ELSE [failed |-> CombinedChecks(c, o, trades, p),
                                  improvement |-> [t \in common |-> Minus(run(days)[t], ground(days)[t])]]
  BY DEF CombinedEvaluation, run, ground, with, base
<1>. QED
  BY <1>6, <1>7

\* The grade of a period that is over.
LEMMA SameGrade ==
  ASSUME NEW a, NEW b, SteadyNext(a, b), NEW p \in Subjects, p.kind = "candidate",
         GradeReads(a, p), GradeReads(b, p), NEW period, PeriodOver(period, Len(a)), PeriodOver(p.research, Len(a))
  PROVE  EvaluateCandidate(b, period, p) = EvaluateCandidate(a, period, p)
<1>. DEFINE w(days) == Exited(days, p.rule)
            run(days) == RunPeriod(days, w(days), Tickers, period, p)
            trades(days) == IF Metrics(run(days)) = NaN THEN 0 ELSE Trades(w(days), Tickers, period, run(days))
            hold == [family |-> "buy_and_hold", ticker |-> p.benchmark]
<1>1. Longer(a, b)
  BY DEF SteadyNext
<1>2. Longer(w(a), w(b)) /\ Len(w(a)) = Len(a)
  BY SleevesLonger DEF LongerBooks
<1>3. run(b) = run(a) /\ Trades(w(b), Tickers, period, run(a)) = Trades(w(a), Tickers, period, run(a))
  BY <1>1, <1>2, SamePeriod DEF PeriodOver
<1>4. BenchmarkMetrics(b, p) = BenchmarkMetrics(a, p)
  <2>1. hold.family \in Registry
    BY DEF Registry, CoreFamilies
  <2>2. Longer(Weights(a, hold), Weights(b, hold)) /\ Len(Weights(a, hold)) = Len(a)
    <3>. HIDE DEF hold
    <3>. QED
      BY <1>1, <2>1, WeightsLonger DEF LongerBooks
  <2>. DEFINE tickers == {p.benchmark}
              wa == Weights(a, hold)
              wb == Weights(b, hold)
  <2>3. RunPeriod(b, wb, tickers, p.research, p) = RunPeriod(a, wa, tickers, p.research, p)
    <3>. HIDE DEF wa, wb, tickers
    <3>. QED
      BY <1>1, <2>2, SamePeriod DEF PeriodOver, wa, wb
  <2>. QED
    BY <2>3 DEF BenchmarkMetrics
<1>5. \A n : CombinedEvaluation(b, w(b), n, period, p) = CombinedEvaluation(a, w(a), n, period, p)
  BY SameEvaluation
<1>6. ASSUME NEW days
      PROVE  EvaluateCandidate(days, period, p) =
               IF run(days) = NaN THEN NaN
               ELSE IF p.combined THEN CombinedEvaluation(days, w(days), trades(days), period, p)
               ELSE IF Metrics(run(days)) = NaN \/ BenchmarkMetrics(days, p) = NaN THEN NaN
               ELSE [failed |-> Evaluate(Metrics(run(days)), trades(days), BenchmarkMetrics(days, p), p)]
  BY DEF EvaluateCandidate
<1>. HIDE DEF w, run
<1>7. trades(b) = trades(a)
  BY <1>3
<1>. HIDE DEF trades
<1>. QED
  BY <1>3, <1>4, <1>5, <1>6, <1>7

\* What is said of a candidate.
LEMMA SameGrades ==
  ASSUME NEW a, NEW b, SteadyNext(a, b), NEW s \in Subjects, s.kind = "candidate",
         GradeReads(a, s), GradeReads(b, s)
  PROVE  \A t \in DOMAIN Said(s, a) : Said(s, b)[t] = Said(s, a)[t]
<1>. DEFINE grade(days, period) == EvaluateCandidate(days, period, s)
            said(days) == [t \in DOMAIN days |->
                             IF t = s.research[2] THEN grade(days, s.research)
                             ELSE IF t = s.validation[2] THEN grade(days, s.validation) ELSE NaN]
<1>1. Said(s, a) = said(a) /\ Said(s, b) = said(b)
  BY DEF Said
<1>2. /\ {s.research[1], s.validation[1]} \subseteq Nat \ {0}
      /\ {s.research[2], s.validation[2]} \subseteq Int
      /\ s.research[1] =< s.research[2] /\ s.research[2] =< s.validation[2]
  BY RuleAssumption
<1>3. /\ Len(a) \in Nat /\ DOMAIN a = 1..Len(a) /\ DOMAIN a \subseteq DOMAIN b
  BY LongerDays DEF SteadyNext
<1>. SUFFICES ASSUME NEW t \in DOMAIN a
              PROVE  said(b)[t] = said(a)[t]
  BY <1>1
<1>4. CASE t = s.research[2]
  <2>1. PeriodOver(s.research, Len(a))
    BY <1>2, <1>3, <1>4 DEF PeriodOver
  <2>2. grade(b, s.research) = grade(a, s.research)
    BY <2>1, SameGrade
  <2>. HIDE DEF grade
  <2>. QED
    BY <1>3, <1>4, <2>2
<1>5. CASE t # s.research[2] /\ t = s.validation[2]
  <2>1. PeriodOver(s.research, Len(a)) /\ PeriodOver(s.validation, Len(a))
    BY <1>2, <1>3, <1>5 DEF PeriodOver
  <2>2. grade(b, s.validation) = grade(a, s.validation)
    BY <2>1, SameGrade
  <2>. HIDE DEF grade
  <2>. QED
    BY <1>3, <1>5, <2>2
<1>6. CASE t # s.research[2] /\ t # s.validation[2]
  <2>. HIDE DEF grade
  <2>. QED
    BY <1>3, <1>6
<1>. QED
  BY <1>4, <1>5, <1>6

\* A step that does not start over adds one day.
LEMMA StepAddsADay ==
  ASSUME IsTape, Next, tape' # <<>>
  PROVE  Len(tape') = Len(tape) + 1
<1>1. NextDay
  BY DEF Next, StartOver
<1>2. PICK day : tape' = Append(tape, day)
  BY <1>1 DEF NextDay
<1>3. PICK S : tape \in Seq(S)
  BY DEF IsTape
<1>. QED
  BY <1>2, <1>3

\* No study ever revises a day, of whatever kind it is and whatever the days bring:
\* nor do a factor's members and scores when shares are split after the day, nor the
\* grade of a candidate, next to its core and its null, when its period is over and
\* more days are appended; the days are those of DaysFit, and an overlay's months end
\* where its calendar says.
THEOREM NoHindsightHolds == Spec /\ []CalendarKept /\ []DaysFit => NoHindsight
<1>1. IsTape /\ IsTape' /\ subject \in Subjects /\ [Next]_vars /\ CalendarKept' /\ DaysFit /\ DaysFit'
        /\ [tape' # <<>> /\ subject.kind \in CausalKinds /\ CalendarKept' => Unrevised]_vars
        => [tape' # <<>> => Unrevised]_vars
  <2>. SUFFICES ASSUME IsTape, IsTape', subject \in Subjects, [Next]_vars, CalendarKept', DaysFit, DaysFit',
                       [tape' # <<>> /\ subject.kind \in CausalKinds /\ CalendarKept' => Unrevised]_vars,
                       tape' # <<>>, vars' # vars
                PROVE  Unrevised
    BY DEF vars
  <2>1. Longer(tape, tape') /\ subject' = subject
    BY StepIsLonger
  <2>2. Len(tape') = Len(tape) + 1 /\ Len(tape) \in Nat
    BY StepAddsADay, TapeDays
  <2>3. CASE subject.kind \in CausalKinds
    BY <2>3
  <2>4. CASE Kind("factor")
    <3>1. CompaniesFit(tape')
      BY <2>1, <2>4 DEF DaysFit, Kind
    <3>2. subject.limit \in Nat
      BY <2>4, RuleAssumption DEF Kind
    <3>3. \A t \in DOMAIN FactorFamily(tape, subject) :
            FactorFamily(tape', subject)[t] = FactorFamily(tape, subject)[t]
      BY <2>1, <2>2, <3>1, <3>2, SameFactor
    <3>4. Said(subject, tape) = FactorFamily(tape, subject) /\ Said(subject, tape') = FactorFamily(tape', subject)
      BY <2>4 DEF Said, Kind
    <3>. QED
      BY <3>3, <3>4 DEF Unrevised
  <2>5. CASE Kind("candidate")
    <3>1. GradeReads(tape, subject) /\ GradeReads(tape', subject)
      BY <2>1, <2>5 DEF DaysFit, Kind
    <3>2. CASE tape = <<>>
      <4>1. DOMAIN Said(subject, tape) = {}
        BY <2>5, <3>2 DEF Said, Kind
      <4>. QED
        BY <4>1 DEF Unrevised
    <3>3. CASE tape # <<>> /\ ~PricesStopOrReturn
      <4>1. \A x \in Tickers : Priced(tape, Len(tape), x) <=> Priced(tape', Len(tape'), x)
        BY <3>3 DEF PricesStopOrReturn, Priced
      <4>2. Len(tape) # 0
        BY <3>3 DEF IsTape
      <4>3. SteadyNext(tape, tape')
        BY <2>1, <2>2, <4>1, <4>2 DEF SteadyNext
      <4>4. \A t \in DOMAIN Said(subject, tape) : Said(subject, tape')[t] = Said(subject, tape)[t]
        BY <2>5, <3>1, <4>3, SameGrades DEF Kind
      <4>. QED
        BY <4>4 DEF Unrevised
    <3>4. CASE PricesStopOrReturn
      BY <2>5, <3>4 DEF Unrevised
    <3>. QED
      BY <3>2, <3>3, <3>4
  <2>6. CASE subject.kind \notin CausalKinds \cup {"factor", "candidate"}
    <3>1. Said(subject, tape) = <<>>
      BY <2>6 DEF Said, CausalKinds
    <3>. QED
      BY <3>1 DEF Unrevised
  <2>. QED
    BY <2>3, <2>4, <2>5, <2>6 DEF Kind
<1>. QED
  BY <1>1, NeverRevised, TapeStays, SubjectStays, PTL DEF Spec, NoHindsight

=============================================================================
