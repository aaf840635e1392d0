--------------------------- MODULE StudiesProofs ---------------------------
(***************************************************************************)
(* What is proved of the studies, for every tape, book and set of tickers: *)
(* a book after exit_before_delisting can be executed, a daily report that *)
(* is all right has the whole portfolio, what most studies say of a day is *)
(* never revised, and the data they compare with are what they claim.      *)
(***************************************************************************)
EXTENDS StudiesProperties, FrameProofs

-----------------------------------------------------------------------------
(* The tape.                                                               *)

\* A tape is a sequence of days.
IsTape == \E S : tape \in Seq(S)

\* Days are numbered from one.
LEMMA TapeDays ==
  ASSUME IsTape
  PROVE  Len(tape) \in Nat /\ DOMAIN tape = 1..Len(tape)
BY DEF IsTape

\* It stays one, whatever the days bring.
LEMMA TapeStays == Spec => []IsTape
<1>1. Init => IsTape
  BY DEF Init, IsTape
<1>2. IsTape /\ [Next]_vars => IsTape'
  <2>. SUFFICES ASSUME IsTape, [Next]_vars
                PROVE  IsTape'
    OBVIOUS
  <2>1. CASE NextDay
    <3>1. PICK S : tape \in Seq(S)
      BY DEF IsTape
    <3>2. PICK day \in Days(subject, tape) : tape' = Append(tape, day)
      BY <2>1 DEF NextDay
    <3>3. tape \in Seq(S \cup {day})
      BY <3>1
    <3>4. tape' \in Seq(S \cup {day})
      BY <3>2, <3>3
    <3>. QED
      BY <3>4 DEF IsTape
  <2>2. CASE StartOver
    BY <2>2 DEF StartOver, IsTape
  <2>3. CASE UNCHANGED vars
    BY <2>3 DEF vars, IsTape
  <2>. QED
    BY <2>1, <2>2, <2>3 DEF Next
<1>. QED
  BY <1>1, <1>2, PTL DEF Spec

-----------------------------------------------------------------------------
(* The exits.                                                              *)

\* What is still wanted of x after the exits need not be sold that day.
LEMMA StaysIn ==
  ASSUME NEW w, NEW s \in Int, NEW x \in Tickers, s =< Len(tape), IsTape,
         Target(ExitBeforeDelisting(tape, w, Tickers), s, x) > 0
  PROVE  s \in DOMAIN tape /\ ~MustBeOut(tape, s, x)
<1>. DEFINE book == ExitBeforeDelisting(tape, w, Tickers)
<1>1. ~(s < 1) /\ Cell(book, s, x) # NaN /\ Target(book, s, x) = Cell(book, s, x)
  BY DEF Target
<1>2. s \in DOMAIN tape
  BY <1>1, TapeDays
<1>3. Cell(book, s, x) = IF MustBeOut(tape, s, x) THEN 0 ELSE Cell(w, s, x)
  BY <1>1, <1>2 DEF Cell, ExitBeforeDelisting
<1>. QED
  BY <1>1, <1>2, <1>3

\* A ticker that need not be sold has a price on the next day.
LEMMA PricedNext ==
  ASSUME IsTape, NEW x \in Tickers, NEW s \in DOMAIN tape, ~MustBeOut(tape, s, x), s + 1 =< Len(tape)
  PROVE  Priced(tape, s + 1, x)
BY TapeDays DEF MustBeOut

\* Without gaps, it also has one on the day after the next: its last price is
\* not earlier.
LEMMA PricedAfterNext ==
  ASSUME IsTape, NoGaps, NEW x \in Tickers, NEW s \in DOMAIN tape, ~MustBeOut(tape, s, x),
         s + 2 =< Len(tape)
  PROVE  Priced(tape, s + 2, x)
<1>. DEFINE priced == {u \in DOMAIN tape : Priced(tape, u, x)}
            last == Max(priced)
<1>1. Len(tape) \in Nat /\ DOMAIN tape = 1..Len(tape)
  BY TapeDays
<1>2. priced # {} /\ ~(last < Len(tape) /\ s >= last - 1)
  BY DEF MustBeOut
<1>3. last \in priced
  BY <1>1, <1>2, LastDay
<1>4. last \in s + 2..Len(tape) /\ Priced(tape, last, x)
  BY <1>1, <1>2, <1>3
<1>5. s + 1 \in 1..s + 2 /\ Priced(tape, s + 1, x)
  BY <1>1, PricedNext
<1>6. s + 2 \in DOMAIN tape
  BY <1>1
<1>. QED
  BY <1>4, <1>5, <1>6 DEF NoGaps

-----------------------------------------------------------------------------
(* The daily report.                                                       *)

\* The subject is one of the given ones.
LEMMA SubjectStays == Spec => [](subject \in Subjects)
<1>1. Init => subject \in Subjects
  BY DEF Init
<1>2. subject \in Subjects /\ [Next]_vars => (subject \in Subjects)'
  BY DEF Next, NextDay, StartOver, vars
<1>. QED
  BY <1>1, <1>2, PTL DEF Spec

\* A row for every day, which is missing as a whole or has only some tickers.
IsFrame(w, days, tickers) ==
  /\ w = [t \in DOMAIN days |-> w[t]]
  /\ \A t \in DOMAIN days : w[t] # NaN => DOMAIN w[t] \subseteq tickers

\* A core's mix is a frame of the tickers it holds.
LEMMA MixFrame ==
  ASSUME NEW days, NEW p
  PROVE  IsFrame(CoreMix(days, p), days, DOMAIN p.on \cup DOMAIN p.off)
<1>. DEFINE w == CoreMix(days, p)
<1>1. w = [t \in DOMAIN days |-> w[t]]
  BY DEF CoreMix
<1>2. ASSUME NEW t \in DOMAIN days, w[t] # NaN
      PROVE  DOMAIN w[t] = DOMAIN p.on \cup DOMAIN p.off
  <2>1. \E above : w[t] = Mix(p.on, p.off, above)
    <3>. HIDE DEF Mix, Full, AboveMean, Closes
    <3>. QED
      BY <1>2 DEF CoreMix
  <2>. QED
    BY <2>1 DEF Mix
<1>. QED
  BY <1>1, <1>2 DEF IsFrame

\* The frame of a strategy of the registry.
LEMMA FrameOf ==
  ASSUME NEW days, NEW rule, rule.family \in Registry
  PROVE  IsFrame(Weights(days, rule), days, Universe(rule))
<1>1. CASE rule.family = "buy_and_hold"
  <2>. DEFINE p == [on |-> Whole(rule.ticker), off |-> <<>>, signal |-> NaN, lookback |-> 1]
  <2>1. Weights(days, rule) = CoreMix(days, p) /\ Universe(rule) = {rule.ticker}
    BY <1>1 DEF SleeveFamilies, Weights, BuyAndHold, Universe
  <2>2. DOMAIN p.on \cup DOMAIN p.off = {rule.ticker}
    BY DEF Whole
  <2>3. IsFrame(CoreMix(days, p), days, DOMAIN p.on \cup DOMAIN p.off)
    BY MixFrame
  <2>. QED
    BY <2>1, <2>2, <2>3
<1>2. CASE rule.family = "core_trend"
  <2>. DEFINE off == IF rule.risk_off = NaN THEN <<>> ELSE Whole(rule.risk_off)
              p == [on |-> Whole(rule.risk_on), signal |-> rule.risk_on, lookback |-> rule.lookback,
                    off |-> off]
  <2>1. /\ Weights(days, rule) = CoreMix(days, p)
        /\ Universe(rule) = {rule.risk_on} \cup (IF rule.risk_off = NaN THEN {} ELSE {rule.risk_off})
    BY <1>2 DEF SleeveFamilies, Weights, CoreTrend, Universe
  <2>2. DOMAIN p.on \cup DOMAIN p.off = Universe(rule)
    BY <2>1 DEF Whole
  <2>3. IsFrame(CoreMix(days, p), days, DOMAIN p.on \cup DOMAIN p.off)
    BY MixFrame
  <2>. QED
    BY <2>1, <2>2, <2>3
<1>3. CASE rule.family = "core_mix"
  <2>1. /\ Weights(days, rule) = CoreMix(days, rule)
        /\ DOMAIN rule.on \cup DOMAIN rule.off \subseteq Universe(rule)
    BY <1>3 DEF SleeveFamilies, Weights, Universe
  <2>. QED
    BY <2>1, MixFrame DEF IsFrame
<1>4. CASE rule.family = "factor"
  BY <1>4 DEF SleeveFamilies, Weights, FactorWeights, Universe, IsFrame
<1>5. CASE rule.family \in SleeveFamilies
  <2>1. Weights(days, rule) = SleeveWeights(days, rule) /\ Universe(rule) = Tickers
    BY <1>5 DEF SleeveFamilies, Weights, Universe
  <2>. QED
    BY <2>1 DEF SleeveWeights, IsFrame
<1>. QED
  BY <1>1, <1>2, <1>3, <1>4, <1>5 DEF CoreFamilies, Registry

\* What a report that is all right has found: nobody was left out, every frame
\* has a row of values for the last day, and the weights of that day are the
\* combined ones, within the limits, of tickers with fresh prices.
LEMMA HealthyFacts ==
  ASSUME IsTape, subject \in Subjects, Kind("health"), Market(tape, subject) # <<>>,
         NEW frames, frames = [m \in DOMAIN subject.rules |-> Weights(tape, subject.rules[m])]
  PROVE  /\ Len(tape) \in DOMAIN tape /\ Core \in DOMAIN subject.rules
         /\ Market(tape, subject)[Len(tape)] = CombinedRow(frames, subject.split, Len(tape))
         /\ \A m \in DOMAIN frames :
              Valued(frames[m][Len(tape)]) /\ DOMAIN frames[m][Len(tape)] \subseteq Universe(subject.rules[m])
         /\ WithinLimits(CombinedRow(frames, subject.split, Len(tape)),
                         SleeveRow(frames, subject.split, Len(tape)), subject.limits)
         /\ DataArrived(tape, subject)
<1>1. Healthy(tape, subject)
  BY DEF Market
<1>2. Errors(subject) = {} /\ tape # <<>>
  BY <1>1 DEF Healthy
<1>3. subject.broken = {}
  BY <1>2 DEF Errors
<1>4. Computed(tape, subject) = frames
  BY <1>3 DEF Computed
<1>5. SignalsComputed(frames) /\ Combines(frames, subject.split) /\ RiskChecked(frames, subject) /\ DataArrived(tape, subject)
  BY <1>1, <1>4 DEF Healthy
<1>6. Len(tape) \in Nat /\ DOMAIN tape = 1..Len(tape) /\ Len(tape) \in DOMAIN tape
  <2>1. Len(tape) # 0
    BY <1>2 DEF IsTape
  <2>. QED
    BY <2>1, TapeDays
<1>7. ASSUME NEW m \in DOMAIN frames
      PROVE  IsFrame(frames[m], tape, Universe(subject.rules[m])) /\ Len(frames[m]) = Len(tape)
  <2>1. IsFrame(frames[m], tape, Universe(subject.rules[m]))
    BY FrameOf, ReportAssumption DEF Kind
  <2>2. Len(frames[m]) = Len(tape)
    BY <1>6, <2>1 DEF IsFrame
  <2>. QED
    BY <2>1, <2>2
<1>8. Core \in DOMAIN frames
  BY <1>5 DEF Combines
<1>9. ASSUME NEW m \in DOMAIN frames
      PROVE  Valued(frames[m][Len(tape)]) /\ DOMAIN frames[m][Len(tape)] \subseteq Universe(subject.rules[m])
  <2>1. Valued(frames[m][Len(tape)])
    BY <1>5, <1>7 DEF SignalsComputed
  <2>. QED
    BY <1>6, <1>7, <2>1 DEF Valued, IsFrame
<1>10. Market(tape, subject)[Len(tape)] = CombinedRow(frames, subject.split, Len(tape))
  BY <1>1, <1>4, <1>6 DEF Market
<1>. QED
  BY <1>5, <1>6, <1>7, <1>8, <1>9, <1>10 DEF RiskChecked

\* The sleeves' part of a ticker is the sum of what they owe.
LEMMA SleevesOwe ==
  ASSUME NEW x, NEW frames, frames = [m \in DOMAIN subject.rules |-> Weights(tape, subject.rules[m])],
         Len(tape) \in Nat, Len(tape) >= 1, \A m \in DOMAIN frames : Valued(frames[m][Len(tape)])
  PROVE  SleeveShare(frames, subject.split, Len(tape), x) = OwedBySleeves(x)
<1>. DEFINE t == Len(tape)
            members == DOMAIN frames \ {Core}
            part(m) == IF frames[m][t] # NaN /\ x \in DOMAIN frames[m][t]
                       THEN Scaled(Target(frames[m], t, x), subject.split.sleeve, Cardinality(members)) ELSE 0
<1>1. members = Members
  BY DEF Members
<1>2. ASSUME NEW m \in Members
      PROVE  part(m) = Owed(m, x)
  <2>1. m \in DOMAIN frames /\ m # Core /\ frames[m] = Weights(tape, subject.rules[m])
    BY DEF Members
  <2>2. x \in DOMAIN frames[m][t] => Target(frames[m], t, x) = frames[m][t][x]
    <3>1. Valued(frames[m][t]) /\ ~(t < 1)
      BY <2>1
    <3>. HIDE DEF t
    <3>2. x \in DOMAIN frames[m][t] => frames[m][t] # NaN /\ frames[m][t][x] # NaN
      BY <3>1 DEF Valued
    <3>. QED
      BY <3>1, <3>2 DEF Target, Cell
  <2>. QED
    BY <1>1, <2>1, <2>2 DEF Owed
<1>. HIDE DEF part
<1>3. [m \in members |-> part(m)] = [m \in Members |-> Owed(m, x)]
  BY <1>1, <1>2
<1>4. SleeveShare(frames, subject.split, t, x) = SumFunction([m \in members |-> part(m)])
  BY DEF SleeveShare, part
<1>. QED
  BY <1>3, <1>4 DEF OwedBySleeves

-----------------------------------------------------------------------------
(* Days that are added do not change what was.                             *)

IsSeq(a) == \E S : a \in Seq(S)

\* b goes on where a ends.
Longer(a, b) == IsSeq(a) /\ IsSeq(b) /\ Len(a) =< Len(b) /\ \A t \in 1..Len(a) : b[t] = a[t]

\* A longer tape has the same days, and more.
LEMMA LongerDays ==
  ASSUME NEW a, NEW b, Longer(a, b)
  PROVE  /\ Len(a) \in Nat /\ DOMAIN a = 1..Len(a)
         /\ Len(b) \in Nat /\ DOMAIN b = 1..Len(b)
         /\ Len(a) =< Len(b) /\ DOMAIN a \subseteq DOMAIN b
         /\ \A t \in DOMAIN a : b[t] = a[t]
BY DEF Longer, IsSeq

\* What rolls over the first n cells of two columns that agree there.
SameTo(n, a, b) == \A u \in 1..n : b[u] = a[u]

\* What is rolled over cells that are the same is the same.
LEMMA SameWindows ==
  ASSUME NEW n \in Nat, NEW a, NEW b, SameTo(n, a, b), NEW t \in 1..n, NEW k
  PROVE  /\ Full(b, t, k) = Full(a, t, k)
         /\ WindowSum(b, t, k) = WindowSum(a, t, k)
         /\ AboveMean(b, t, k) = AboveMean(a, t, k)
         /\ DownStreak(b, t, k) = DownStreak(a, t, k)
         /\ UpTo(b, t) = UpTo(a, t)
         /\ b[t] = a[t]
<1>1. \A u \in Window(t, k) : u \in 1..n
  BY DEF Window
<1>2. \A u \in Window(t, k) : b[u] = a[u]
  BY <1>1 DEF SameTo
<1>3. Full(b, t, k) = Full(a, t, k)
  BY <1>2 DEF Full
<1>4. WindowSum(b, t, k) = WindowSum(a, t, k)
  <2>1. [u \in Window(t, k) |-> b[u]] = [u \in Window(t, k) |-> a[u]]
    BY <1>2
  <2>. QED
    BY <2>1 DEF WindowSum
<1>5. b[t] = a[t]
  BY DEF SameTo
<1>6. AboveMean(b, t, k) = AboveMean(a, t, k)
  BY <1>3, <1>4, <1>5 DEF AboveMean
<1>7. DownStreak(b, t, k) = DownStreak(a, t, k)
  <2>1. ASSUME NEW u \in t - k + 1..t, u > 1
        PROVE  b[u] = a[u] /\ b[u - 1] = a[u - 1]
    BY <2>1 DEF SameTo
  <2>. QED
    BY <2>1 DEF DownStreak
<1>8. UpTo(b, t) = UpTo(a, t)
  BY DEF UpTo, SameTo
<1>. QED
  BY <1>3, <1>4, <1>5, <1>6, <1>7, <1>8

\* Later days leave the columns of a ticker's fields as they were.
LEMMA SameColumns ==
  ASSUME NEW a, NEW b, Longer(a, b), NEW field, NEW x
  PROVE  SameTo(Len(a), Column(a, field, x), Column(b, field, x))
BY LongerDays DEF Column, SameTo

\* And the column of its volatilities, each of the closes up to its day.
LEMMA SameLevels ==
  ASSUME NEW a, NEW b, Longer(a, b), NEW ca, NEW cb, SameTo(Len(a), ca, cb), NEW n
  PROVE  SameTo(Len(a), [u \in DOMAIN a |-> Volatility(UpTo(ca, u), n)],
                        [u \in DOMAIN b |-> Volatility(UpTo(cb, u), n)])
<1>1. ASSUME NEW u \in 1..Len(a)
      PROVE  UpTo(cb, u) = UpTo(ca, u)
  BY LongerDays, SameWindows
<1>. QED
  BY <1>1, LongerDays DEF SameTo

-----------------------------------------------------------------------------
(* Weights.                                                                *)

\* So they leave the signals of a day as they were: of a pullback,
LEMMA SamePullback ==
  ASSUME NEW a, NEW b, Longer(a, b), NEW t \in 1..Len(a), NEW x, NEW p
  PROVE  Pullback(b, t, x, p) = Pullback(a, t, x, p)
<1>. DEFINE ca == Closes(a, x)
            cb == Closes(b, x)
<1>1. SameTo(Len(a), ca, cb) /\ Len(a) \in Nat
  BY SameColumns, LongerDays DEF Closes
<1>2. /\ \A k : Full(cb, t, k) = Full(ca, t, k)
      /\ \A k : WindowSum(cb, t, k) = WindowSum(ca, t, k)
      /\ \A k : AboveMean(cb, t, k) = AboveMean(ca, t, k)
      /\ \A k : DownStreak(cb, t, k) = DownStreak(ca, t, k)
      /\ cb[t] = ca[t]
  BY <1>1, SameWindows
<1>. HIDE DEF ca, cb
<1>. QED
  BY <1>2 DEF Pullback, ca, cb

\* of the regime,
LEMMA SameRegime ==
  ASSUME NEW a, NEW b, Longer(a, b), NEW t \in 1..Len(a), NEW p
  PROVE  RegimeOn(b, t, p) = RegimeOn(a, t, p)
<1>1. ASSUME NEW x
      PROVE  AboveMean(Closes(b, x), t, p.breadth) = AboveMean(Closes(a, x), t, p.breadth)
  BY SameColumns, LongerDays, SameWindows DEF Closes
<1>2. {x \in Tickers : AboveMean(Closes(b, x), t, p.breadth)} = {x \in Tickers : AboveMean(Closes(a, x), t, p.breadth)}
  BY <1>1
<1>. QED
  BY <1>2 DEF RegimeOn

\* of a close low in its range,
LEMMA SameRange ==
  ASSUME NEW a, NEW b, Longer(a, b), NEW t \in 1..Len(a), NEW x, NEW p
  PROVE  LowRangeClose(b, t, x, p) = LowRangeClose(a, t, x, p)
<1>. DEFINE ca == Closes(a, x)
            cb == Closes(b, x)
<1>1. SameTo(Len(a), ca, cb) /\ Len(a) \in Nat
  BY SameColumns, LongerDays DEF Closes
<1>2. /\ \A k : Full(cb, t, k) = Full(ca, t, k)
      /\ \A k : AboveMean(cb, t, k) = AboveMean(ca, t, k)
  BY <1>1, SameWindows
<1>3. b[t] = a[t] /\ (t > 1 => b[t - 1] = a[t - 1])
  BY LongerDays
<1>. HIDE DEF ca, cb
<1>. QED
  BY <1>2, <1>3 DEF LowRangeClose, Priced, ca, cb

\* of a pullback on a quiet day,
LEMMA SameQuiet ==
  ASSUME NEW a, NEW b, Longer(a, b), NEW t \in 1..Len(a), NEW x, NEW p
  PROVE  QuietPullback(b, t, x, p) = QuietPullback(a, t, x, p)
<1>. DEFINE ca == Closes(a, x)
            cb == Closes(b, x)
            la == IF p.by = "volume" THEN Column(a, "volume", x)
                  ELSE [u \in DOMAIN a |-> Volatility(UpTo(ca, u), p.window)]
            lb == IF p.by = "volume" THEN Column(b, "volume", x)
                  ELSE [u \in DOMAIN b |-> Volatility(UpTo(cb, u), p.window)]
<1>1. SameTo(Len(a), ca, cb) /\ Len(a) \in Nat
  BY SameColumns, LongerDays DEF Closes
<1>2. SameTo(Len(a), la, lb)
  BY <1>1, SameColumns, SameLevels
<1>. HIDE DEF ca, cb, la, lb
<1>3. /\ \A k : Full(cb, t, k) = Full(ca, t, k)
      /\ \A k : WindowSum(cb, t, k) = WindowSum(ca, t, k)
      /\ \A k : AboveMean(cb, t, k) = AboveMean(ca, t, k)
      /\ cb[t] = ca[t]
  BY <1>1, SameWindows
<1>4. /\ \A k : Full(lb, t, k) = Full(la, t, k)
      /\ \A k : WindowSum(lb, t, k) = WindowSum(la, t, k)
      /\ lb[t] = la[t]
  BY <1>1, <1>2, SameWindows
<1>. DEFINE known(level) == Full(level, t, p.window)
            usual(level) == WindowSum(level, t, p.window)
            full(col) == Full(col, t, p.short)
            entry(col, level) == /\ AboveMean(col, t, p.trend) /\ full(col) /\ known(level)
                                 /\ p.short * col[t] =< WindowSum(col, t, p.short)
                                 /\ 100 * p.window * level[t] =< p.ratio * usual(level)
            exit(col) == AboveMean(col, t, p.short)
            score(level) == IF known(level) THEN Fraction(-p.window * level[t], usual(level)) ELSE NaN
            warm(col, level) == ~Full(col, t, p.trend) \/ ~full(col) \/ ~known(level)
<1>5. /\ QuietPullback(b, t, x, p) = Signal(entry(cb, lb), exit(cb), score(lb), warm(cb, lb))
      /\ QuietPullback(a, t, x, p) = Signal(entry(ca, la), exit(ca), score(la), warm(ca, la))
  BY DEF QuietPullback, cb, lb, ca, la
<1>6. exit(cb) = exit(ca) /\ warm(cb, lb) = warm(ca, la) /\ entry(cb, lb) = entry(ca, la)
  BY <1>3, <1>4
<1>7. score(lb) = score(la)
  BY <1>4
<1>. QED
  BY <1>5, <1>6, <1>7

\* and of every family of sleeves.
LEMMA SameSignals ==
  ASSUME NEW a, NEW b, Longer(a, b), NEW t \in 1..Len(a), NEW x, NEW p, p.family \in SleeveFamilies
  PROVE  Signals(b, t, x, p) = Signals(a, t, x, p)
<1>1. Pullback(b, t, x, p) = Pullback(a, t, x, p) /\ RegimeOn(b, t, p) = RegimeOn(a, t, p)
  BY SamePullback, SameRegime
<1>2. RegimePullback(b, t, x, p) = RegimePullback(a, t, x, p)
  BY <1>1 DEF RegimePullback
<1>3. LowRangeClose(b, t, x, p) = LowRangeClose(a, t, x, p) /\ QuietPullback(b, t, x, p) = QuietPullback(a, t, x, p)
  BY SameRange, SameQuiet
<1>. QED
  BY <1>1, <1>2, <1>3 DEF Signals, SleeveFamilies

\* The signals of a day, and books up to a day that follow each other.
SignalsOn(days, t, p) == [x \in Tickers |-> Signals(days, t, x, p)]
BooksUpTo(books, n, days, p) ==
  /\ books[0] = <<>>
  /\ \A t \in 1..n : books[t] = NextBook(books[t - 1], SignalsOn(days, t, p), t, p)

\* There are such books for as long as one likes.
LEMMA BooksExist ==
  ASSUME NEW days, NEW p
  PROVE  \A n \in Nat : \E books : BooksUpTo(books, n, days, p)
<1>. DEFINE T == {n \in Nat : \E books : BooksUpTo(books, n, days, p)}
<1>1. 0 \in T
  <2>. DEFINE books == [t \in {0} |-> <<>>]
  <2>1. BooksUpTo(books, 0, days, p)
    BY DEF BooksUpTo
  <2>. QED
    BY <2>1
<1>2. ASSUME NEW n \in T PROVE n + 1 \in T
  <2>1. PICK old : BooksUpTo(old, n, days, p)
    OBVIOUS
  <2>. DEFINE new == [t \in 0..n + 1 |-> IF t =< n THEN old[t]
                        ELSE NextBook(old[n], SignalsOn(days, t, p), t, p)]
  <2>2. new[0] = <<>>
    BY <2>1 DEF BooksUpTo
  <2>3. ASSUME NEW t \in 1..n + 1
        PROVE  new[t] = NextBook(new[t - 1], SignalsOn(days, t, p), t, p)
    <3>1. t - 1 \in 0..n /\ new[t - 1] = old[t - 1]
      OBVIOUS
    <3>2. CASE t =< n
      BY <2>1, <3>1, <3>2 DEF BooksUpTo
    <3>3. CASE t = n + 1
      BY <3>1, <3>3
    <3>. QED
      BY <3>2, <3>3
  <2>. HIDE DEF new
  <2>4. BooksUpTo(new, n + 1, days, p)
    BY <2>2, <2>3 DEF BooksUpTo
  <2>. QED
    BY <2>4
<1>. HIDE DEF T
<1>3. \A n \in Nat : n \in T
  <2>1. T \in SUBSET Nat
    BY DEF T
  <2>. QED
    BY <1>1, <1>2, <2>1, SetInduction
<1>. QED
  BY <1>3 DEF T

\* And they are what a strategy's book is.
LEMMA BookSteps ==
  ASSUME NEW days, Len(days) \in Nat, DOMAIN days = 1..Len(days), NEW p
  PROVE  BooksUpTo(Book(days, p), Len(days), days, p)
<1>1. PICK books : BooksUpTo(books, Len(days), days, p)
  BY BooksExist
<1>. DEFINE sig == [t \in DOMAIN days |-> [x \in Tickers |-> Signals(days, t, x, p)]]
            B(f) == [t \in 0..Len(days) |-> IF t = 0 THEN <<>> ELSE NextBook(f[t - 1], sig[t], t, p)]
            h == [t \in 0..Len(days) |-> books[t]]
<1>2. \A t \in 1..Len(days) : sig[t] = SignalsOn(days, t, p)
  BY DEF SignalsOn
<1>. HIDE DEF sig
<1>3. h = B(h)
  <2>1. ASSUME NEW t \in 0..Len(days)
        PROVE  h[t] = IF t = 0 THEN <<>> ELSE NextBook(h[t - 1], sig[t], t, p)
    <3>1. CASE t = 0
      BY <1>1, <3>1 DEF BooksUpTo
    <3>2. CASE t \in 1..Len(days)
      <4>1. t - 1 \in 0..Len(days)
        BY <3>2
      <4>. QED
        BY <1>1, <1>2, <3>2, <4>1 DEF BooksUpTo
    <3>. QED
      BY <3>1, <3>2
  <2>. QED
    BY <2>1
<1>4. Book(days, p) = CHOOSE f : f = B(f)
  BY DEF Book, sig
<1>5. Book(days, p) = B(Book(days, p))
  <2>. HIDE DEF B, h
  <2>. QED
    BY <1>3, <1>4
<1>6. Book(days, p)[0] = <<>>
  BY <1>5
<1>7. ASSUME NEW t \in 1..Len(days)
      PROVE  Book(days, p)[t] = NextBook(Book(days, p)[t - 1], SignalsOn(days, t, p), t, p)
  BY <1>2, <1>5
<1>. QED
  BY <1>6, <1>7 DEF BooksUpTo

\* Later days do not change the book of a day.
LEMMA SameBook ==
  ASSUME NEW a, NEW b, Longer(a, b), NEW p, p.family \in SleeveFamilies
  PROVE  \A t \in 0..Len(a) : Book(b, p)[t] = Book(a, p)[t]
<1>. DEFINE T == {n \in Nat : n =< Len(a) => Book(b, p)[n] = Book(a, p)[n]}
<1>1. BooksUpTo(Book(a, p), Len(a), a, p) /\ BooksUpTo(Book(b, p), Len(b), b, p)
  BY LongerDays, BookSteps
<1>2. 0 \in T
  BY <1>1 DEF BooksUpTo
<1>3. ASSUME NEW n \in T PROVE n + 1 \in T
  <2>. SUFFICES ASSUME n + 1 =< Len(a)
                PROVE  Book(b, p)[n + 1] = Book(a, p)[n + 1]
    OBVIOUS
  <2>1. n + 1 \in 1..Len(a) /\ n + 1 \in 1..Len(b) /\ (n + 1) - 1 = n
    BY LongerDays
  <2>2. SignalsOn(b, n + 1, p) = SignalsOn(a, n + 1, p)
    BY <2>1, SameSignals DEF SignalsOn
  <2>3. Book(b, p)[n] = Book(a, p)[n]
    BY LongerDays
  <2>4. /\ Book(a, p)[n + 1] = NextBook(Book(a, p)[n], SignalsOn(a, n + 1, p), n + 1, p)
        /\ Book(b, p)[n + 1] = NextBook(Book(b, p)[n], SignalsOn(b, n + 1, p), n + 1, p)
    BY <1>1, <2>1 DEF BooksUpTo
  <2>. QED
    BY <2>2, <2>3, <2>4
<1>. HIDE DEF T
<1>4. \A n \in Nat : n \in T
  <2>1. T \in SUBSET Nat
    BY DEF T
  <2>. QED
    BY <1>2, <1>3, <2>1, SetInduction
<1>. QED
  BY <1>4, LongerDays DEF T

\* The weights of a core on a day: later days do not change them.
LEMMA SameMix ==
  ASSUME NEW a, NEW b, Longer(a, b), NEW t \in 1..Len(a), NEW p
  PROVE  CoreMix(b, p)[t] = CoreMix(a, p)[t]
<1>. DEFINE ca == Closes(a, p.signal)
            cb == Closes(b, p.signal)
            static == p.signal = NaN
            held == DOMAIN p.on \cup DOMAIN p.off
            missing(days) == \E x \in held : ~Priced(days, t, x)
            row(days, col) == IF missing(days) \/ (~static /\ ~Full(col, t, p.lookback))
                              THEN NaN ELSE Mix(p.on, p.off, static \/ AboveMean(col, t, p.lookback))
<1>1. SameTo(Len(a), ca, cb) /\ Len(a) \in Nat /\ t \in DOMAIN a /\ t \in DOMAIN b /\ b[t] = a[t]
  BY SameColumns, LongerDays DEF Closes
<1>. HIDE DEF ca, cb
<1>2. Full(cb, t, p.lookback) = Full(ca, t, p.lookback) /\ AboveMean(cb, t, p.lookback) = AboveMean(ca, t, p.lookback)
  BY <1>1, SameWindows
<1>3. missing(b) = missing(a)
  BY <1>1 DEF Priced
<1>4. CoreMix(b, p)[t] = row(b, cb) /\ CoreMix(a, p)[t] = row(a, ca)
  BY <1>1 DEF CoreMix, ca, cb
<1>. HIDE DEF missing
<1>. QED
  BY <1>2, <1>3, <1>4

\* Nor those of a sleeve: its rows before the first signal are those of a tape
\* that ends on the day.
LEMMA SameSleeveWeights ==
  ASSUME NEW a, NEW b, Longer(a, b), NEW t \in 1..Len(a), NEW p, p.family \in SleeveFamilies
  PROVE  SleeveWeights(b, p)[t] = SleeveWeights(a, p)[t]
<1>. DEFINE warm(days, u) == \A x \in Tickers : Signals(days, u, x, p).warm
            row(days, book) == IF \A u \in 1..t : warm(days, u) THEN NaN
                               ELSE [x \in Tickers |-> EqualSplit(DOMAIN book, Unit, x)]
<1>1. t \in DOMAIN a /\ t \in DOMAIN b /\ \A u \in 1..t : u \in 1..Len(a)
  BY LongerDays
<1>2. Book(b, p)[t] = Book(a, p)[t]
  BY <1>1, LongerDays, SameBook
<1>3. (\A u \in 1..t : warm(b, u)) = (\A u \in 1..t : warm(a, u))
  BY <1>1, SameSignals
<1>4. SleeveWeights(b, p)[t] = row(b, Book(b, p)[t]) /\ SleeveWeights(a, p)[t] = row(a, Book(a, p)[t])
  BY <1>1 DEF SleeveWeights, InLeadingRun
<1>. HIDE DEF warm
<1>. QED
  BY <1>2, <1>3, <1>4

\* A rebalance of a factor is flagged on its day or not.
LEMMA SameFlags ==
  ASSUME NEW a, NEW b, Longer(a, b), NEW t \in 1..Len(a), NEW p
  PROVE  Flag(b, t, p) = Flag(a, t, p) /\ LastFlag(b, t, p) = LastFlag(a, t, p)
<1>1. ASSUME NEW u \in 1..t
      PROVE  Flag(b, u, p) = Flag(a, u, p)
  <2>1. b[u] = a[u] /\ (u > 1 => b[u - 1] = a[u - 1])
    BY LongerDays
  <2>. QED
    BY <2>1 DEF Flag
<1>2. {u \in 1..t : Flag(b, u, p)} = {u \in 1..t : Flag(a, u, p)}
  BY <1>1
<1>3. LastFlag(b, t, p) = LastFlag(a, t, p)
  BY <1>2 DEF LastFlag
<1>. QED
  BY <1>1, <1>3, LongerDays

\* A factor's weights, given its panels.
LEMMA SameFactorWeights ==
  ASSUME NEW a, NEW b, Longer(a, b), NEW t \in 1..Len(a), NEW p
  PROVE  FactorWeights(b, p)[t] = FactorWeights(a, p)[t]
<1>. DEFINE last == LastFlag(a, t, p)
            row(days, chosen) == [x \in Tickers |-> IF x \in chosen /\ (p.filter => days[t].trend)
                                                    THEN Unit \div p.hold ELSE 0]
<1>1. t \in DOMAIN a /\ t \in DOMAIN b /\ b[t] = a[t]
  BY LongerDays
<1>2. LastFlag(b, t, p) = last
  BY SameFlags
<1>3. last # 0 => last \in 1..t
  <2>. DEFINE flags == {u \in 1..t : Flag(a, u, p)}
  <2>1. flags \in SUBSET (1..t) /\ t \in Nat
    BY LongerDays
  <2>2. last = IF flags = {} THEN 0 ELSE Max(flags)
    BY DEF LastFlag
  <2>. HIDE DEF flags, last
  <2>3. flags # {} => Max(flags) \in flags
    BY <2>1, LastDay
  <2>. QED
    BY <2>1, <2>2, <2>3
<1>4. last # 0 => Selected(b, last, p) = Selected(a, last, p)
  <2>. SUFFICES ASSUME last # 0 PROVE Selected(b, last, p) = Selected(a, last, p)
    OBVIOUS
  <2>. HIDE DEF last
  <2>1. b[last] = a[last]
    BY <1>3, LongerDays
  <2>. QED
    BY <2>1 DEF Selected, Priced
<1>5. /\ FactorWeights(b, p)[t] = IF last = 0 THEN NaN ELSE row(b, Selected(b, last, p))
      /\ FactorWeights(a, p)[t] = IF last = 0 THEN NaN ELSE row(a, Selected(a, last, p))
  BY <1>1, <1>2 DEF FactorWeights
<1>. QED
  BY <1>1, <1>4, <1>5

\* The weights of the null.
LEMMA SameNullWeights ==
  ASSUME NEW a, NEW b, Longer(a, b), NEW t \in 1..Len(a), NEW p
  PROVE  NullWeights(b, p)[t] = NullWeights(a, p)[t]
<1>. DEFINE held(days) == {x \in days[t].member : IF p.trended THEN AboveMean(Closes(days, x), t, p.lookback)
                                                  ELSE Priced(days, t, x)}
<1>1. t \in DOMAIN a /\ t \in DOMAIN b /\ b[t] = a[t]
  BY LongerDays
<1>2. ASSUME NEW x
      PROVE  /\ AboveMean(Closes(b, x), t, p.lookback) = AboveMean(Closes(a, x), t, p.lookback)
             /\ Priced(b, t, x) = Priced(a, t, x)
  BY <1>1, SameColumns, LongerDays, SameWindows DEF Closes, Priced
<1>3. held(b) = held(a)
  BY <1>1, <1>2
<1>4. /\ NullWeights(b, p)[t] = [x \in Tickers |-> EqualSplit(held(b), Unit, x)]
      /\ NullWeights(a, p)[t] = [x \in Tickers |-> EqualSplit(held(a), Unit, x)]
  BY <1>1 DEF NullWeights
<1>. HIDE DEF held
<1>. QED
  BY <1>3, <1>4

\* The weights of a strategy of the registry, or of the null.
LEMMA SameWeights ==
  ASSUME NEW a, NEW b, Longer(a, b), NEW p, p.family \in Registry \cup {"null"}, NEW t \in 1..Len(a)
  PROVE  Weights(b, p)[t] = Weights(a, p)[t]
<1>1. CASE p.family = "buy_and_hold"
  BY <1>1, SameMix DEF SleeveFamilies, Weights, BuyAndHold
<1>2. CASE p.family = "core_trend"
  BY <1>2, SameMix DEF SleeveFamilies, Weights, CoreTrend
<1>3. CASE p.family = "core_mix"
  BY <1>3, SameMix DEF SleeveFamilies, Weights
<1>4. CASE p.family = "factor"
  BY <1>4, SameFactorWeights DEF SleeveFamilies, Weights
<1>5. CASE p.family = "null"
  BY <1>5, SameNullWeights DEF SleeveFamilies, Weights
<1>6. CASE p.family \in SleeveFamilies
  BY <1>6, SameSleeveWeights DEF SleeveFamilies, Weights
<1>. QED
  BY <1>1, <1>2, <1>3, <1>4, <1>5, <1>6 DEF Registry, CoreFamilies

-----------------------------------------------------------------------------
(* The engine.                                                             *)

\* What a book wants on a day, or wanted before its first.
LEMMA SameTargets ==
  ASSUME NEW v, NEW w, Longer(v, w), NEW t \in Int, t =< Len(v), NEW x
  PROVE  Target(w, t, x) = Target(v, t, x)
BY LongerDays DEF Target, Cell

\* What the book earns on a day.
LEMMA SameGrowth ==
  ASSUME NEW a, NEW b, Longer(a, b), NEW v, NEW w, Longer(v, w), Len(v) = Len(a),
         NEW t \in 1..Len(a), NEW tickers, NEW cost
  PROVE  Growth(b, w, t, tickers, cost) = Growth(a, v, t, tickers, cost)
<1>1. t \in Nat /\ Len(a) \in Nat /\ b[t] = a[t] /\ (t # 1 => b[t - 1] = a[t - 1])
  BY LongerDays
<1>2. ASSUME NEW x
      PROVE  Executed(w, t, x) = Executed(v, t, x) /\ Overnight(w, t, x) = Overnight(v, t, x)
  <2>1. t - 1 \in Int /\ t - 2 \in Int /\ t - 1 =< Len(v) /\ t - 2 =< Len(v)
    BY <1>1
  <2>. QED
    BY <2>1, SameTargets DEF Executed, Overnight
<1>3. ASSUME NEW x
      PROVE  Gap(b, t, x) = Gap(a, t, x) /\ Session(b, t, x) = Session(a, t, x)
  BY <1>1 DEF Gap, Session, Priced
<1>4. /\ [x \in tickers |-> Overnight(w, t, x)] = [x \in tickers |-> Overnight(v, t, x)]
      /\ [x \in tickers |-> Executed(w, t, x)] = [x \in tickers |-> Executed(v, t, x)]
      /\ [x \in tickers |-> Gap(b, t, x)] = [x \in tickers |-> Gap(a, t, x)]
      /\ [x \in tickers |-> Session(b, t, x)] = [x \in tickers |-> Session(a, t, x)]
  BY <1>2, <1>3
<1>5. Turnover(w, t, tickers) = Turnover(v, t, tickers)
  <2>1. [x \in tickers |-> Abs(Executed(w, t, x) - Overnight(w, t, x))]
          = [x \in tickers |-> Abs(Executed(v, t, x) - Overnight(v, t, x))]
    BY <1>2
  <2>. QED
    BY <2>1 DEF Turnover
<1>. QED
  BY <1>4, <1>5 DEF Growth

\* What a run has earned by a day: later days make it refuse as a whole, or
\* leave it as it was, the day of its first signal included.
LEMMA SameRun ==
  ASSUME NEW a, NEW b, Longer(a, b), NEW v, NEW w, Longer(v, w), Len(v) = Len(a), NEW tickers, NEW cost,
         NEW ra, ra = Returns(RunBacktest(a, v, tickers, cost)),
         NEW rb, rb = Returns(RunBacktest(b, w, tickers, cost)), rb # <<>>
  PROVE  \A t \in DOMAIN ra : rb[t] = ra[t]
<1>. DEFINE first == FirstSignal(v, tickers)
<1>. SUFFICES ASSUME RunBacktest(a, v, tickers, cost) # NaN, NEW t \in DOMAIN ra
              PROVE  rb[t] = ra[t]
  BY DEF Returns
<1>1. RunBacktest(b, w, tickers, cost) # NaN
  BY DEF Returns
<1>2. ~Refuses(a, v, tickers) /\ ~Refuses(b, w, tickers)
  BY <1>1 DEF RunBacktest
<1>3. /\ ra = [u \in Traded(a, v, tickers) |-> Growth(a, v, u, tickers, cost)]
      /\ rb = [u \in Traded(b, w, tickers) |-> Growth(b, w, u, tickers, cost)]
  BY <1>1, <1>2 DEF Returns, RunBacktest
<1>4. FirstSignal(w, tickers) = first /\ first \in 1..Len(a)
  <2>. DEFINE rv == {u \in DOMAIN v : Complete(v, u, tickers)}
              rw == {u \in DOMAIN w : Complete(w, u, tickers)}
  <2>1. first = (IF rv = {} THEN 0 ELSE Min(rv)) /\ FirstSignal(w, tickers) = IF rw = {} THEN 0 ELSE Min(rw)
    BY DEF FirstSignal
  <2>2. rv # {}
    BY <1>2, <2>1 DEF Refuses
  <2>3. \A u \in DOMAIN v : Complete(w, u, tickers) = Complete(v, u, tickers)
    BY LongerDays DEF Complete, Cell
  <2>4. Len(a) \in Nat /\ rv \in SUBSET Nat /\ rw \in SUBSET Nat /\ rv = rw \cap (1..Len(a)) /\ ~(0 \in rw)
    BY <2>3, LongerDays
  <2>. HIDE DEF rv, rw
  <2>5. Min(rw) = Min(rv) /\ rw # {} /\ Min(rv) \in rv
    BY <2>2, <2>4, SameFirst, FirstDay
  <2>. QED
    BY <2>1, <2>2, <2>4, <2>5
<1>5. t \in Traded(a, v, tickers)
  BY <1>3
<1>6. t \in 1..Len(a) /\ t \in Traded(b, w, tickers)
  <2>1. Len(a) \in Nat /\ Len(b) \in Nat /\ Len(a) =< Len(b)
    BY LongerDays
  <2>. HIDE DEF first
  <2>. QED
    BY <1>4, <1>5, <2>1 DEF Traded, first
<1>7. Growth(b, w, t, tickers, cost) = Growth(a, v, t, tickers, cost)
  BY <1>6, SameGrowth
<1>. QED
  BY <1>3, <1>5, <1>6, <1>7

\* What is wanted on a longer tape is a longer book.
LEMMA WantedLonger ==
  ASSUME NEW a, NEW b, Longer(a, b)
  PROVE  Longer(Wanted(a), Wanted(b)) /\ Len(Wanted(a)) = Len(a) /\ Len(Wanted(b)) = Len(b)
<1>1. ASSUME NEW days, Len(days) \in Nat, DOMAIN days = 1..Len(days)
      PROVE  Wanted(days) \in Seq({days[t].want : t \in DOMAIN days}) /\ Len(Wanted(days)) = Len(days)
  BY <1>1 DEF Wanted
<1>2. IsSeq(Wanted(a)) /\ IsSeq(Wanted(b)) /\ Len(Wanted(a)) = Len(a) /\ Len(Wanted(b)) = Len(b)
  BY <1>1, LongerDays DEF IsSeq
<1>. QED
  BY <1>2, LongerDays DEF Wanted, Longer

\* And from one day on, there are longer slices.
LEMMA SlicesLonger ==
  ASSUME NEW a, NEW b, Longer(a, b), NEW s \in Nat \ {0}
  PROVE  Longer(SubSeq(a, s, Len(a)), SubSeq(b, s, Len(b)))
<1>1. ASSUME NEW c, IsSeq(c)
      PROVE  /\ IsSeq(SubSeq(c, s, Len(c)))
             /\ Len(SubSeq(c, s, Len(c))) = IF s =< Len(c) THEN Len(c) - s + 1 ELSE 0
             /\ \A t \in 1..Len(SubSeq(c, s, Len(c))) : SubSeq(c, s, Len(c))[t] = c[t + s - 1]
  <2>1. PICK S : c \in Seq(S)
    BY <1>1 DEF IsSeq
  <2>2. SubSeq(c, s, Len(c)) \in Seq(S)
    BY <2>1
  <2>3. Len(SubSeq(c, s, Len(c))) = IF s =< Len(c) THEN Len(c) - s + 1 ELSE 0
    BY <2>1
  <2>4. \A t \in 1..Len(SubSeq(c, s, Len(c))) : SubSeq(c, s, Len(c))[t] = c[t + s - 1]
    BY <2>1, <2>3
  <2>. QED
    BY <2>2, <2>3, <2>4 DEF IsSeq
<1>2. IsSeq(a) /\ IsSeq(b) /\ Len(a) \in Nat /\ Len(b) \in Nat /\ Len(a) =< Len(b)
  BY LongerDays DEF Longer
<1>. DEFINE sa == SubSeq(a, s, Len(a))
            sb == SubSeq(b, s, Len(b))
<1>3. IsSeq(sa) /\ IsSeq(sb) /\ Len(sa) =< Len(sb)
  BY <1>1, <1>2
<1>4. ASSUME NEW t \in 1..Len(sa)
      PROVE  sb[t] = sa[t]
  <2>1. sa[t] = a[t + s - 1] /\ sb[t] = b[t + s - 1] /\ t + s - 1 \in 1..Len(a)
    BY <1>1, <1>2, <1>3
  <2>. QED
    BY <2>1, LongerDays
<1>. QED
  BY <1>3, <1>4 DEF Longer

-----------------------------------------------------------------------------
(* Walk-forward.                                                           *)

\* The track of a candidate before a boundary.
LEMMA SameTrack ==
  ASSUME NEW a, NEW b, Longer(a, b), NEW t \in 1..Len(a), NEW c
  PROVE  /\ Track(b, c, t) = Track(a, c, t) /\ Track(a, c, t) \subseteq 1..t - 1
         /\ \A n : Trailing(a, c, t, n) \subseteq 1..t - 1
<1>1. t \in Nat /\ Len(a) \in Nat /\ \A u \in 1..Len(a) : b[u] = a[u]
  BY LongerDays
<1>2. \A s \in 2..t - 1 : \A u \in 1..s - 1 : b[u] = a[u]
  BY <1>1
<1>3. Track(b, c, t) = Track(a, c, t) /\ Track(a, c, t) \subseteq 1..t - 1
  BY <1>1, <1>2 DEF Track
<1>. QED
  BY <1>3 DEF Trailing

\* What it earned on some days, and how that spread.
LEMMA SameRecord ==
  ASSUME NEW a, NEW b, Longer(a, b), NEW c, NEW days \in SUBSET (1..Len(a))
  PROVE  /\ SumEarned(b, c, days) = SumEarned(a, c, days)
         /\ Spread(b, c, days) = Spread(a, c, days)
         /\ TrailingSharpe(b, c, days) = TrailingSharpe(a, c, days)
         /\ [t \in days |-> Grown(b, c, t)] = [t \in days |-> Grown(a, c, t)]
<1>1. \A t \in days : b[t] = a[t]
  BY LongerDays
<1>2. /\ [t \in days |-> b[t].ret[c]] = [t \in days |-> a[t].ret[c]]
      /\ [t \in days |-> b[t].ret[c] * b[t].ret[c]] = [t \in days |-> a[t].ret[c] * a[t].ret[c]]
      /\ [t \in days |-> Grown(b, c, t)] = [t \in days |-> Grown(a, c, t)]
  BY <1>1 DEF Grown
<1>3. SumEarned(b, c, days) = SumEarned(a, c, days)
  BY <1>2 DEF SumEarned
<1>4. Spread(b, c, days) = Spread(a, c, days)
  BY <1>2, <1>3 DEF Spread
<1>. QED
  BY <1>2, <1>3, <1>4 DEF TrailingSharpe

\* Its own normal: a first position that is taken after the boundary is as if
\* there were none.
LEMMA SameBaseline ==
  ASSUME NEW a, NEW b, Longer(a, b), NEW t \in 1..Len(a), NEW c, NEW p, p.minTrack \in Int
  PROVE  Baseline(b, c, t, p) = Baseline(a, c, t, p)
<1>. DEFINE ra == {u \in DOMAIN a : a[u].hold[c] # 0}
            rb == {u \in DOMAIN b : b[u].hold[c] # 0}
            track == Track(a, c, t)
            past(first) == {u \in track : u >= first}
            base(first) == IF first = NaN \/ Cardinality(past(first)) < Max({p.minTrack, 2}) THEN {} ELSE past(first)
<1>1. /\ FirstHeld(a, c) = IF ra = {} THEN NaN ELSE Min(ra)
      /\ FirstHeld(b, c) = IF rb = {} THEN NaN ELSE Min(rb)
  BY DEF FirstHeld
<1>2. Track(b, c, t) = track /\ track \subseteq 1..t - 1
  BY SameTrack
<1>3. Baseline(a, c, t, p) = base(FirstHeld(a, c)) /\ Baseline(b, c, t, p) = base(FirstHeld(b, c))
  BY <1>2 DEF Baseline
<1>4. /\ Len(a) \in Nat /\ t \in Nat /\ t =< Len(a) /\ ra \in SUBSET Nat /\ rb \in SUBSET Nat
      /\ ra = rb \cap (1..Len(a)) /\ ~(0 \in rb)
  BY LongerDays
<1>. HIDE DEF ra, rb, base, track
<1>5. CASE ra # {}
  <2>1. Min(rb) = Min(ra) /\ rb # {}
    BY <1>4, <1>5, SameFirst
  <2>. QED
    BY <1>1, <1>3, <1>5, <2>1
<1>6. CASE ra = {} /\ rb # {}
  <2>1. Min(rb) \in rb
    BY <1>4, <1>6, FirstDay
  <2>2. past(Min(rb)) = {}
    <3>1. Min(rb) \in Nat /\ Min(rb) # 0 /\ Min(rb) \notin 1..Len(a)
      BY <1>4, <1>6, <2>1
    <3>2. \A u \in track : u \in Int /\ ~(u >= Min(rb))
      BY <1>2, <1>4, <3>1
    <3>. QED
      BY <3>2
  <2>3. Max({p.minTrack, 2}) >= 2
    <3>1. \E m \in {p.minTrack, 2} : \A y \in {p.minTrack, 2} : m >= y
      <4>1. CASE p.minTrack >= 2
        BY <4>1
      <4>2. CASE ~(p.minTrack >= 2)
        BY <4>2
      <4>. QED
        BY <4>1, <4>2
    <3>. QED
      BY <3>1 DEF Max
  <2>4. Max({p.minTrack, 2}) \in Int
    BY <2>3 DEF Max
  <2>5. base(Min(rb)) = {} /\ base(NaN) = {}
    BY <2>2, <2>3, <2>4, FS_EmptySet DEF base
  <2>. QED
    BY <1>1, <1>3, <1>6, <2>5
<1>7. CASE ra = {} /\ rb = {}
  BY <1>1, <1>3, <1>7
<1>. QED
  BY <1>5, <1>6, <1>7

\* The selection at a boundary.
LEMMA SameSelection ==
  ASSUME NEW a, NEW b, Longer(a, b), NEW t \in 1..Len(a), NEW p, p.minTrack \in Int, NEW current
  PROVE  SelectSleeve(b, p, t, current) = SelectSleeve(a, p, t, current)
<1>1. t \in Nat /\ Len(a) \in Nat /\ 1..t - 1 \subseteq 1..Len(a)
  BY LongerDays
<1>2. ASSUME NEW c
      PROVE  /\ Trailing(b, c, t, p.lookback) = Trailing(a, c, t, p.lookback)
             /\ Evicted(b, c, t, p) = Evicted(a, c, t, p)
             /\ TrailingSharpe(b, c, Trailing(b, c, t, p.lookback)) = TrailingSharpe(a, c, Trailing(a, c, t, p.lookback))
  <2>. DEFINE own == Baseline(a, c, t, p)
              now == Trailing(a, c, t, p.lookback)
  <2>1. /\ Baseline(b, c, t, p) = own /\ Trailing(b, c, t, p.lookback) = now
        /\ Baseline(a, c, t, p) = own /\ Trailing(a, c, t, p.lookback) = now
    <3>1. Trailing(b, c, t, p.lookback) = now
      BY SameTrack DEF Trailing
    <3>2. Baseline(b, c, t, p) = own
      BY SameBaseline
    <3>. QED
      BY <3>1, <3>2
  <2>2. own \in SUBSET (1..Len(a)) /\ now \in SUBSET (1..Len(a))
    <3>1. own \subseteq Track(a, c, t)
      BY DEF Baseline
    <3>2. Track(a, c, t) \subseteq 1..t - 1 /\ now \subseteq 1..t - 1
      BY SameTrack
    <3>. QED
      BY <1>1, <3>1, <3>2
  <2>. HIDE DEF own, now
  <2>3. /\ SumEarned(b, c, own) = SumEarned(a, c, own) /\ Spread(b, c, own) = Spread(a, c, own)
        /\ [u \in own |-> Grown(b, c, u)] = [u \in own |-> Grown(a, c, u)]
        /\ SumEarned(b, c, now) = SumEarned(a, c, now)
        /\ [u \in now |-> Grown(b, c, u)] = [u \in now |-> Grown(a, c, u)]
        /\ TrailingSharpe(b, c, now) = TrailingSharpe(a, c, now)
    <3>1. ASSUME NEW past \in SUBSET (1..Len(a))
          PROVE  /\ SumEarned(b, c, past) = SumEarned(a, c, past) /\ Spread(b, c, past) = Spread(a, c, past)
                 /\ [u \in past |-> Grown(b, c, u)] = [u \in past |-> Grown(a, c, u)]
                 /\ TrailingSharpe(b, c, past) = TrailingSharpe(a, c, past)
      BY SameRecord, SMTT(20)
    <3>. QED
      BY <2>2, <3>1
  <2>4. Evicted(b, c, t, p) = Evicted(a, c, t, p)
    BY <2>1, <2>3 DEF Evicted
  <2>. QED
    BY <2>1, <2>3, <2>4
<1>. DEFINE eligible(days) == {c \in p.candidates : /\ Cardinality(Trailing(days, c, t, p.lookback)) >= p.minTrack
                                                     /\ ~(c \in current /\ Evicted(days, c, t, p))}
            score(days) == [c \in p.candidates |-> TrailingSharpe(days, c, Trailing(days, c, t, p.lookback))]
<1>3. eligible(b) = eligible(a) /\ score(b) = score(a)
  BY <1>2
<1>. HIDE DEF eligible, score
<1>4. /\ SelectSleeve(a, p, t, current) = Best(eligible(a), score(a), p.count)
      /\ SelectSleeve(b, p, t, current) = Best(eligible(b), score(b), p.count)
  BY DEF SelectSleeve, eligible, score
<1>. QED
  BY <1>3, <1>4

\* What a day makes of a sleeve.
LEMMA SameNext ==
  ASSUME NEW a, NEW b, Longer(a, b), NEW t \in 1..Len(a), NEW current,
         NEW p, p.minTrack \in Int, p.start \in Nat \ {0}
  PROVE  NextSleeve(b, p, t, current) = NextSleeve(a, p, t, current)
<1>1. b[t] = a[t] /\ (t > p.start => b[t - 1] = a[t - 1])
  BY LongerDays
<1>2. IsBoundary(b, p, t) = IsBoundary(a, p, t)
  BY <1>1 DEF IsBoundary
<1>. QED
  BY <1>2, SameSelection DEF NextSleeve

\* Sleeves up to a day that follow each other.
SleevesUpTo(sleeves, n, days, p) ==
  /\ sleeves[0] = {}
  /\ \A t \in 1..n : sleeves[t] = NextSleeve(days, p, t, sleeves[t - 1])

\* There are such sleeves for as long as one likes.
LEMMA SleevesExist ==
  ASSUME NEW days, NEW p
  PROVE  \A n \in Nat : \E sleeves : SleevesUpTo(sleeves, n, days, p)
<1>. DEFINE T == {n \in Nat : \E sleeves : SleevesUpTo(sleeves, n, days, p)}
<1>1. 0 \in T
  <2>. DEFINE sleeves == [t \in {0} |-> {}]
  <2>1. SleevesUpTo(sleeves, 0, days, p)
    BY DEF SleevesUpTo
  <2>. QED
    BY <2>1
<1>2. ASSUME NEW n \in T PROVE n + 1 \in T
  <2>1. PICK old : SleevesUpTo(old, n, days, p)
    OBVIOUS
  <2>. DEFINE new == [t \in 0..n + 1 |-> IF t =< n THEN old[t] ELSE NextSleeve(days, p, t, old[n])]
  <2>2. new[0] = {}
    BY <2>1 DEF SleevesUpTo
  <2>3. ASSUME NEW t \in 1..n + 1
        PROVE  new[t] = NextSleeve(days, p, t, new[t - 1])
    <3>1. t - 1 \in 0..n /\ new[t - 1] = old[t - 1]
      OBVIOUS
    <3>2. CASE t =< n
      BY <2>1, <3>1, <3>2 DEF SleevesUpTo
    <3>3. CASE t = n + 1
      BY <3>1, <3>3
    <3>. QED
      BY <3>2, <3>3
  <2>. HIDE DEF new
  <2>4. SleevesUpTo(new, n + 1, days, p)
    BY <2>2, <2>3 DEF SleevesUpTo
  <2>. QED
    BY <2>4
<1>. HIDE DEF T
<1>3. \A n \in Nat : n \in T
  <2>1. T \in SUBSET Nat
    BY DEF T
  <2>. QED
    BY <1>1, <1>2, <2>1, SetInduction
<1>. QED
  BY <1>3 DEF T

\* And they are what the sleeves of a process are.
LEMMA SleeveSteps ==
  ASSUME NEW days, Len(days) \in Nat, NEW p
  PROVE  SleevesUpTo(Sleeves(days, p), Len(days), days, p)
<1>1. PICK sleeves : SleevesUpTo(sleeves, Len(days), days, p)
  BY SleevesExist
<1>. DEFINE B(f) == [t \in 0..Len(days) |-> IF t = 0 THEN {} ELSE NextSleeve(days, p, t, f[t - 1])]
            h == [t \in 0..Len(days) |-> sleeves[t]]
<1>2. h = B(h)
  <2>1. ASSUME NEW t \in 0..Len(days)
        PROVE  h[t] = IF t = 0 THEN {} ELSE NextSleeve(days, p, t, h[t - 1])
    <3>1. CASE t = 0
      BY <1>1, <3>1 DEF SleevesUpTo
    <3>2. CASE t \in 1..Len(days)
      <4>1. t - 1 \in 0..Len(days)
        BY <3>2
      <4>. QED
        BY <1>1, <3>2, <4>1 DEF SleevesUpTo
    <3>. QED
      BY <3>1, <3>2
  <2>. QED
    BY <2>1
<1>3. Sleeves(days, p) = CHOOSE f : f = B(f)
  BY DEF Sleeves
<1>4. Sleeves(days, p) = B(Sleeves(days, p))
  <2>. HIDE DEF B, h
  <2>. QED
    BY <1>2, <1>3
<1>5. Sleeves(days, p)[0] = {}
  BY <1>4
<1>6. ASSUME NEW t \in 1..Len(days)
      PROVE  Sleeves(days, p)[t] = NextSleeve(days, p, t, Sleeves(days, p)[t - 1])
  <2>. DEFINE all == Sleeves(days, p)
              day == [u \in 0..Len(days) |-> IF u = 0 THEN {} ELSE NextSleeve(days, p, u, all[u - 1])]
  <2>1. all = day
    BY <1>4
  <2>2. day[t] = NextSleeve(days, p, t, all[t - 1])
    <3>. HIDE DEF all
    <3>. QED
      OBVIOUS
  <2>. HIDE DEF day
  <2>. QED
    BY <2>1, <2>2
<1>. QED
  BY <1>5, <1>6 DEF SleevesUpTo

\* Later days do not change the sleeve of a day.
LEMMA SameSleeves ==
  ASSUME NEW a, NEW b, Longer(a, b), NEW p, p.minTrack \in Int, p.start \in Nat \ {0}
  PROVE  \A t \in 0..Len(a) : Sleeves(b, p)[t] = Sleeves(a, p)[t]
<1>. DEFINE T == {n \in Nat : n =< Len(a) => Sleeves(b, p)[n] = Sleeves(a, p)[n]}
<1>1. SleevesUpTo(Sleeves(a, p), Len(a), a, p) /\ SleevesUpTo(Sleeves(b, p), Len(b), b, p)
  BY LongerDays, SleeveSteps
<1>2. 0 \in T
  BY <1>1 DEF SleevesUpTo
<1>3. ASSUME NEW n \in T PROVE n + 1 \in T
  <2>. SUFFICES ASSUME n + 1 =< Len(a)
                PROVE  Sleeves(b, p)[n + 1] = Sleeves(a, p)[n + 1]
    OBVIOUS
  <2>1. n + 1 \in 1..Len(a) /\ n + 1 \in 1..Len(b) /\ (n + 1) - 1 = n
    BY LongerDays
  <2>2. Sleeves(b, p)[n] = Sleeves(a, p)[n]
    BY LongerDays
  <2>3. /\ Sleeves(a, p)[n + 1] = NextSleeve(a, p, n + 1, Sleeves(a, p)[n])
        /\ Sleeves(b, p)[n + 1] = NextSleeve(b, p, n + 1, Sleeves(b, p)[n])
    BY <1>1, <2>1 DEF SleevesUpTo
  <2>. QED
    BY <2>1, <2>2, <2>3, SameNext
<1>. HIDE DEF T
<1>4. \A n \in Nat : n \in T
  <2>1. T \in SUBSET Nat
    BY DEF T
  <2>. QED
    BY <1>2, <1>3, <2>1, SetInduction
<1>. QED
  BY <1>4, LongerDays DEF T

\* Nor the weights that are stitched together from it.
LEMMA SameStitched ==
  ASSUME NEW a, NEW b, Longer(a, b), NEW t \in DOMAIN a, NEW p, p.minTrack \in Int, p.start \in Nat \ {0}
  PROVE  Stitched(b, p)[t] = Stitched(a, p)[t]
<1>1. t \in DOMAIN b /\ b[t] = a[t] /\ Sleeves(b, p)[t] = Sleeves(a, p)[t]
  BY LongerDays, SameSleeves
<1>. QED
  BY <1>1 DEF Stitched

-----------------------------------------------------------------------------
(* The macro overlay.                                                      *)

\* Cells that are the same have the same stretches.
LEMMA SameSlices ==
  ASSUME NEW va, NEW vb, IsSeq(va), IsSeq(vb), Len(va) =< Len(vb), SameTo(Len(va), va, vb),
         NEW s \in Nat \ {0}, NEW t \in 1..Len(va)
  PROVE  SubSeq(vb, s, t) = SubSeq(va, s, t)
<1>1. PICK S : va \in Seq(S)
  BY DEF IsSeq
<1>2. PICK T : vb \in Seq(T)
  BY DEF IsSeq
<1>3. SubSeq(va, s, t) = [u \in 1..t - s + 1 |-> va[u + s - 1]]
  BY <1>1
<1>4. SubSeq(vb, s, t) = [u \in 1..t - s + 1 |-> vb[u + s - 1]]
  BY <1>2
<1>5. \A u \in 1..t - s + 1 : vb[u + s - 1] = va[u + s - 1]
  BY <1>1 DEF SameTo
<1>. QED
  BY <1>3, <1>4, <1>5

\* The volatility signal of a day.
LEMMA SameVolatile ==
  ASSUME NEW a, NEW b, Longer(a, b), NEW t \in 1..Len(a), NEW p, p.medianDays \in Nat \ {0}
  PROVE  Volatile(b, t, p) = Volatile(a, t, p)
<1>. DEFINE ca == Closes(a, p.volAsset)
            cb == Closes(b, p.volAsset)
            va == [u \in DOMAIN a |-> Volatility(UpTo(ca, u), p.volDays)]
            vb == [u \in DOMAIN b |-> Volatility(UpTo(cb, u), p.volDays)]
            s == t - p.medianDays + 1
            test(vol) == /\ Full(vol, t, p.medianDays)
                         /\ 200 * vol[t] > p.volRatio * TwiceMedian(SubSeq(vol, s, t))
<1>1. SameTo(Len(a), ca, cb)
  BY SameColumns DEF Closes
<1>2. SameTo(Len(a), va, vb)
  <2>. HIDE DEF ca, cb
  <2>. QED
    BY <1>1, SameLevels
<1>3. Volatile(a, t, p) = test(va) /\ Volatile(b, t, p) = test(vb)
  BY DEF Volatile
<1>4. /\ Len(a) \in Nat /\ DOMAIN a = 1..Len(a)
      /\ Len(b) \in Nat /\ DOMAIN b = 1..Len(b) /\ Len(a) =< Len(b)
  BY LongerDays
<1>5. IsSeq(va) /\ IsSeq(vb) /\ Len(va) = Len(a) /\ Len(vb) = Len(b)
  <2>. DEFINE A == {va[u] : u \in DOMAIN a}
              B == {vb[u] : u \in DOMAIN b}
  <2>1. va \in [1..Len(a) -> A] /\ vb \in [1..Len(b) -> B]
    BY <1>4
  <2>2. va \in Seq(A) /\ vb \in Seq(B) /\ Len(va) = Len(a) /\ Len(vb) = Len(b)
    <3>. HIDE DEF va, vb, A, B
    <3>. QED
      BY <1>4, <2>1
  <2>. QED
    BY <2>2 DEF IsSeq
<1>. HIDE DEF va, vb
<1>6. Full(vb, t, p.medianDays) = Full(va, t, p.medianDays) /\ vb[t] = va[t]
  BY <1>2, <1>4, SameWindows
<1>7. Full(va, t, p.medianDays) => SubSeq(vb, s, t) = SubSeq(va, s, t)
  <2>. SUFFICES ASSUME Full(va, t, p.medianDays)
                PROVE  SubSeq(vb, s, t) = SubSeq(va, s, t)
    OBVIOUS
  <2>1. s \in Nat \ {0} /\ t \in 1..Len(va)
    BY <1>4, <1>5 DEF Full
  <2>. HIDE DEF s
  <2>. QED
    BY <1>2, <1>4, <1>5, <2>1, SameSlices
<1>. HIDE DEF s
<1>8. test(vb) = test(va)
  BY <1>6, <1>7
<1>. QED
  BY <1>3, <1>8

\* Months do not go back, and the last day of a month knows that it is.
OnCalendar(days) ==
  \A t \in DOMAIN days :
    /\ days[t].month \in Int
    /\ t > 1 => /\ days[t - 1].month =< days[t].month
                /\ days[t - 1].nextInNewMonth = (days[t].month # days[t - 1].month)

\* Earlier days have earlier months.
LEMMA MonthsRise ==
  ASSUME NEW days, Len(days) \in Nat, DOMAIN days = 1..Len(days), OnCalendar(days)
  PROVE  \A t \in DOMAIN days : \A u \in 1..t : days[u].month =< days[t].month
<1>. DEFINE T == {n \in Nat : n \in DOMAIN days => \A u \in 1..n : days[u].month =< days[n].month}
<1>1. 0 \in T
  OBVIOUS
<1>2. ASSUME NEW n \in T PROVE n + 1 \in T
  <2>. SUFFICES ASSUME n + 1 \in DOMAIN days, NEW u \in 1..n + 1
                PROVE  days[u].month =< days[n + 1].month
    OBVIOUS
  <2>1. days[u].month \in Int /\ days[n + 1].month \in Int
    BY DEF OnCalendar
  <2>2. CASE u = n + 1
    BY <2>1, <2>2
  <2>3. CASE u \in 1..n
    <3>1. n \in DOMAIN days /\ n + 1 > 1 /\ (n + 1) - 1 = n
      BY <2>3
    <3>2. days[n].month \in Int /\ days[n].month =< days[n + 1].month
      BY <3>1 DEF OnCalendar
    <3>3. days[u].month =< days[n].month
      BY <2>3, <3>1
    <3>. QED
      BY <2>1, <3>2, <3>3
  <2>. QED
    BY <2>2, <2>3
<1>. HIDE DEF T
<1>3. \A n \in Nat : n \in T
  <2>1. T \in SUBSET Nat
    BY DEF T
  <2>. QED
    BY <1>1, <1>2, <2>1, SetInduction
<1>. QED
  BY <1>3 DEF T

\* What was printed of a month that is not over later than a day.
LEMMA SamePrint ==
  ASSUME NEW a, NEW b, Longer(a, b), OnCalendar(b), NEW t \in 1..Len(a), NEW m \in Int, m =< a[t].month,
         \/ m < a[t].month
         \/ \E u \in 1..t : a[u].month = m
  PROVE  Printed(b, m) = Printed(a, m)
<1>. DEFINE da == {u \in DOMAIN a : a[u].month = m}
            db == {u \in DOMAIN b : b[u].month = m}
<1>1. /\ Len(a) \in Nat /\ DOMAIN a = 1..Len(a) /\ Len(b) \in Nat /\ DOMAIN b = 1..Len(b) /\ Len(a) =< Len(b)
      /\ \A u \in DOMAIN a : b[u] = a[u]
  BY LongerDays
<1>2. /\ Printed(a, m) = IF da = {} THEN NaN ELSE a[Min(da)].cpi
      /\ Printed(b, m) = IF db = {} THEN NaN ELSE b[Min(db)].cpi
  BY DEF Printed
<1>3. da = db \cap (1..Len(a)) /\ da \in SUBSET Nat /\ db \in SUBSET Nat /\ ~(0 \in db)
  BY <1>1
<1>4. da = {} => db = {}
  <2>. SUFFICES ASSUME da = {}, NEW u \in db PROVE FALSE
    OBVIOUS
  <2>1. m < a[t].month /\ b[t] = a[t] /\ u \in 1..Len(b) /\ b[u].month = m
    BY <1>1
  <2>2. t \in 1..u
    BY <1>1, <1>3
  <2>3. b[t].month =< b[u].month
    BY <1>1, <2>1, <2>2, MonthsRise
  <2>4. b[t].month \in Int
    BY <1>1 DEF OnCalendar
  <2>. QED
    BY <2>1, <2>3, <2>4
<1>. HIDE DEF da, db
<1>5. da # {} => Min(db) = Min(da) /\ Min(da) \in da
  <2>. SUFFICES ASSUME da # {} PROVE Min(db) = Min(da) /\ Min(da) \in da
    OBVIOUS
  <2>1. Min(da) \in da
    BY <1>3, FirstDay
  <2>2. Len(a) \in Nat
    BY <1>1
  <2>3. Min(db) = Min(da)
    BY <1>3, <2>2, SameFirst
  <2>. QED
    BY <2>1, <2>3
<1>6. da # {} => b[Min(da)] = a[Min(da)]
  BY <1>1, <1>3, <1>5
<1>. QED
  BY <1>2, <1>3, <1>4, <1>5, <1>6

\* The inflation signal of a day.
LEMMA SameInflating ==
  ASSUME NEW a, NEW b, Longer(a, b), OnCalendar(b), NEW t \in 1..Len(a),
         NEW p, p.inflationLookback \in Nat \ {0}, MonthsAYear \in Nat \ {0}
  PROVE  Inflating(b, t, p) = Inflating(a, t, p)
<1>. DEFINE known(days) == {m \in {days[u].month : u \in 1..t} : Available(days, t, m, p)}
            last == Max(known(a))
            test(days, k) == /\ known(a) # {} /\ Yearly(days, k) # NaN /\ Yearly(days, k - p.inflationLookback) # NaN
                             /\ Higher(Yearly(days, k), p.inflationAbove)
                             /\ Higher(Yearly(days, k), Yearly(days, k - p.inflationLookback))
<1>1. Len(a) \in Nat /\ DOMAIN a = 1..Len(a) /\ \A u \in 1..t : b[u] = a[u] /\ a[u].month \in Int
  BY LongerDays DEF OnCalendar
<1>2. known(b) = known(a)
  BY <1>1 DEF Available
<1>3. Inflating(a, t, p) = test(a, last) /\ Inflating(b, t, p) = test(b, last)
  BY <1>2 DEF Inflating
<1>4. \A u \in 1..t : a[u].month =< a[t].month
  <2>1. t \in DOMAIN b /\ \A u \in 1..t : b[u].month =< b[t].month
    BY LongerDays, MonthsRise
  <2>. QED
    BY <1>1, <2>1
<1>5. known(a) # {} => last \in known(a)
  <2>1. known(a) \in SUBSET Int /\ a[t].month \in Int /\ \A m \in known(a) : m =< a[t].month
    BY <1>1, <1>4
  <2>. HIDE DEF known
  <2>. QED
    BY <2>1, LastOf
<1>6. ASSUME known(a) # {}
      PROVE  Yearly(b, last) = Yearly(a, last)
             /\ Yearly(b, last - p.inflationLookback) = Yearly(a, last - p.inflationLookback)
  <2>1. PICK u \in 1..t : last = a[u].month
    BY <1>5, <1>6
  <2>. HIDE DEF last
  <2>2. last \in Int /\ a[t].month \in Int /\ last =< a[t].month
    BY <1>1, <1>4, <2>1
  <2>3. Printed(b, last) = Printed(a, last)
    BY <2>1, <2>2, SamePrint
  <2>4. ASSUME NEW m \in Int, m < a[t].month
        PROVE  Printed(b, m) = Printed(a, m)
    BY <1>1, <2>2, <2>4, SamePrint
  <2>. QED
    BY <2>2, <2>3, <2>4 DEF Yearly
<1>. HIDE DEF known, last
<1>. QED
  BY <1>3, <1>6

\* So the states of a day do not change.
LEMMA SameStates ==
  ASSUME NEW a, NEW b, Longer(a, b), OnCalendar(b), NEW t \in 1..Len(a),
         NEW p, p.medianDays \in Nat \ {0}, p.inflationLookback \in Nat \ {0}, MonthsAYear \in Nat \ {0}
  PROVE  DailyStates(b, t, p) = DailyStates(a, t, p)
<1>1. ASSUME NEW x
      PROVE  Trending(b, t, x, p) = Trending(a, t, x, p)
  <2>. DEFINE ca == Closes(a, x)
              cb == Closes(b, x)
  <2>1. SameTo(Len(a), ca, cb) /\ Len(a) \in Nat
    BY SameColumns, LongerDays DEF Closes
  <2>2. Full(cb, t, p.sma) = Full(ca, t, p.sma) /\ WindowSum(cb, t, p.sma) = WindowSum(ca, t, p.sma) /\ cb[t] = ca[t]
    BY <2>1, SameWindows
  <2>. HIDE DEF ca, cb
  <2>. QED
    BY <2>2 DEF Trending, ca, cb
<1>2. {y \in p.trendAssets : Trending(b, t, y, p)} = {y \in p.trendAssets : Trending(a, t, y, p)}
  BY <1>1
<1>3. Volatile(b, t, p) = Volatile(a, t, p) /\ Inflating(b, t, p) = Inflating(a, t, p)
  BY SameVolatile, SameInflating
<1>. QED
  BY <1>2, <1>3 DEF DailyStates

\* The weights of a day, with the last states before.
LEMMA SameOverlay ==
  ASSUME NEW a, NEW b, Longer(a, b), OnCalendar(b), NEW t \in 1..Len(a),
         NEW p, p.medianDays \in Nat \ {0}, p.inflationLookback \in Nat \ {0}, MonthsAYear \in Nat \ {0}
  PROVE  BuildOverlay(b, p)[t] = BuildOverlay(a, p)[t]
<1>. DEFINE ma == MonthlyStates(a, p)
            mb == MonthlyStates(b, p)
            ea == {u \in DOMAIN ma : u =< t}
            eb == {u \in DOMAIN mb : u =< t}
            row(days, monthly, ends) ==
              IF \E x \in DOMAIN p.base : ~Priced(days, t, x) THEN NaN
              ELSE IF ends = {} THEN p.base ELSE MixFor(monthly[Max(ends)], p)
<1>1. /\ Len(a) \in Nat /\ DOMAIN a = 1..Len(a) /\ Len(b) \in Nat /\ DOMAIN b = 1..Len(b) /\ Len(a) =< Len(b)
      /\ \A u \in DOMAIN a : b[u] = a[u]
  BY LongerDays
<1>2. ASSUME NEW u \in 1..Len(a)
      PROVE  EndsMonth(b, u) = EndsMonth(a, u)
  <2>1. CASE u < Len(a)
    BY <1>1, <2>1 DEF EndsMonth
  <2>2. CASE u = Len(a) /\ u < Len(b)
    <3>1. u + 1 \in DOMAIN b /\ u + 1 > 1 /\ (u + 1) - 1 = u
      BY <1>1, <2>2
    <3>2. b[u].nextInNewMonth = (b[u + 1].month # b[u].month)
      BY <3>1 DEF OnCalendar
    <3>. QED
      BY <1>1, <2>2, <3>2 DEF EndsMonth
  <2>3. CASE u = Len(a) /\ u = Len(b)
    BY <1>1, <2>3 DEF EndsMonth
  <2>4. u < Len(a) \/ (u = Len(a) /\ u < Len(b)) \/ (u = Len(a) /\ u = Len(b))
    <3>1. Len(a) \in Nat /\ Len(b) \in Nat /\ Len(a) =< Len(b)
      BY <1>1
    <3>. HIDE DEF ma, mb, ea, eb, row
    <3>. QED
      BY <3>1
  <2>. QED
    BY <2>1, <2>2, <2>3, <2>4
<1>3. DOMAIN ma = {u \in DOMAIN a : EndsMonth(a, u)} /\ DOMAIN mb = {u \in DOMAIN b : EndsMonth(b, u)}
  BY DEF MonthlyStates
<1>4. eb = ea /\ ea \in SUBSET (1..t)
  <2>. HIDE DEF ma, mb
  <2>. QED
    BY <1>1, <1>2, <1>3
<1>5. \A u \in ea : mb[u] = ma[u]
  <2>1. \A u \in ea : u \in 1..Len(a) /\ ma[u] = DailyStates(a, u, p) /\ mb[u] = DailyStates(b, u, p)
    BY <1>1, <1>2 DEF MonthlyStates
  <2>. QED
    BY <2>1, SameStates
<1>6. ea # {} => Max(ea) \in ea
  <2>1. t \in Nat
    BY <1>1
  <2>. HIDE DEF ea
  <2>. QED
    BY <1>4, <2>1, LastDay
<1>7. (\E x \in DOMAIN p.base : ~Priced(b, t, x)) = (\E x \in DOMAIN p.base : ~Priced(a, t, x))
  BY <1>1 DEF Priced
<1>8. BuildOverlay(a, p)[t] = row(a, ma, ea) /\ BuildOverlay(b, p)[t] = row(b, mb, eb)
  BY <1>1 DEF BuildOverlay, OverlayWeights
<1>. HIDE DEF ma, mb, ea, eb
<1>. QED
  BY <1>4, <1>5, <1>6, <1>7, <1>8

\* The data of a trial is cut at the end of its period.
LEMMA SameTrial ==
  ASSUME NEW a, NEW b, Longer(a, b), NEW begin \in Nat \ {0}, NEW t \in 1..Len(a), begin =< t, NEW p, NEW null
  PROVE  TrialResult(b, begin..t, null, p) = TrialResult(a, begin..t, null, p)
<1>1. Len(a) \in Nat /\ t \in Nat /\ begin..t \in SUBSET (1..t) /\ t \in begin..t
  BY LongerDays
<1>2. Max(begin..t) = t
  <2>1. begin..t # {}
    BY <1>1
  <2>2. Max(begin..t) \in begin..t /\ \A u \in begin..t : u =< Max(begin..t)
    BY <1>1, <2>1, LastDay
  <2>. QED
    BY <1>1, <2>2
<1>3. SubSeq(b, 1, t) = SubSeq(a, 1, t)
  <2>1. IsSeq(a) /\ IsSeq(b) /\ Len(a) =< Len(b) /\ SameTo(Len(a), a, b)
    BY LongerDays DEF Longer, SameTo
  <2>. QED
    BY <2>1, SameSlices
<1>. QED
  BY <1>2, <1>3 DEF TrialResult

\* What the overlay and its trials say of a day.
LEMMA SameOverlaid ==
  ASSUME NEW a, NEW b, Longer(a, b), OnCalendar(b), NEW s \in Subjects, s.kind = "overlay"
  PROVE  \A t \in DOMAIN Said(s, a) : Said(s, b)[t] = Said(s, a)[t]
<1>. DEFINE result(days, t) ==
              IF t = s.researchEnd THEN TrialResult(days, s.begin..t, TRUE, s)
              ELSE IF t = s.days THEN TrialResult(days, s.researchEnd + 1..t, FALSE, s) ELSE NaN
            said(days) == [t \in DOMAIN days |-> <<BuildOverlay(days, s)[t], result(days, t)>>]
<1>1. /\ s.begin \in Nat \ {0} /\ s.medianDays \in Nat \ {0} /\ s.inflationLookback \in Nat \ {0}
      /\ MonthsAYear \in Nat \ {0} /\ s.researchEnd \in Int /\ s.days \in Int
      /\ s.begin =< s.researchEnd /\ s.researchEnd < s.days
  BY CalendarAssumption
<1>2. Said(s, a) = said(a) /\ Said(s, b) = said(b)
  <2>1. ASSUME NEW days
        PROVE  Said(s, days) = said(days)
    <3>. DEFINE F(w) == [t \in DOMAIN days |-> <<w[t], result(days, t)>>]
    <3>1. Said(s, days) = CHOOSE one \in {F(w) : w \in {BuildOverlay(days, s)}} : TRUE
      BY DEF Said
    <3>2. {F(w) : w \in {BuildOverlay(days, s)}} = {said(days)}
      OBVIOUS
    <3>. HIDE DEF F, said
    <3>. QED
      BY <3>1, <3>2
  <2>. QED
    BY <2>1
<1>3. ASSUME NEW t \in DOMAIN a
      PROVE  BuildOverlay(b, s)[t] = BuildOverlay(a, s)[t] /\ result(b, t) = result(a, t) /\ t \in DOMAIN b
  <2>1. t \in 1..Len(a) /\ t \in DOMAIN b /\ Len(a) \in Nat
    BY LongerDays
  <2>2. BuildOverlay(b, s)[t] = BuildOverlay(a, s)[t]
    BY <1>1, <2>1, SameOverlay
  <2>3. ASSUME NEW begin \in Nat \ {0}, begin =< t, NEW null
        PROVE  TrialResult(b, begin..t, null, s) = TrialResult(a, begin..t, null, s)
    BY <2>1, <2>3, SameTrial
  <2>4. t = s.researchEnd => TrialResult(b, s.begin..t, TRUE, s) = TrialResult(a, s.begin..t, TRUE, s)
    BY <1>1, <2>3
  <2>5. t = s.days => TrialResult(b, s.researchEnd + 1..t, FALSE, s) = TrialResult(a, s.researchEnd + 1..t, FALSE, s)
    <3>1. s.researchEnd + 1 \in Nat \ {0} /\ s.researchEnd + 1 =< s.days
      BY <1>1
    <3>. QED
      BY <2>3, <3>1
  <2>. QED
    BY <2>1, <2>2, <2>4, <2>5
<1>. HIDE DEF result
<1>. QED
  BY <1>2, <1>3

-----------------------------------------------------------------------------
(* What is said of a day.                                                  *)

\* What is known of a company on a day, as all of it was filed before.
LEMMA SameFacts ==
  ASSUME NEW a, NEW b, Longer(a, b), NEW t \in DOMAIN a, NEW x, NEW concept
  PROVE  TtmPanel(b, x, concept)[t] = TtmPanel(a, x, concept)[t]
<1>. DEFINE read(days, u, span) ==
              {[end |-> f.end, filed |-> u, val |-> f.val, class |-> f.class] :
                 f \in {g \in days[u].filings[x] : g.concept = concept /\ g.span = span}}
<1>1. t \in DOMAIN b /\ \A u \in 1..t - 1 : b[u] = a[u]
  BY LongerDays
<1>2. ASSUME NEW span
      PROVE  Public(b, t, x, concept, span) = Public(a, t, x, concept, span)
  <2>1. \A u \in 1..t - 1 : read(b, u, span) = read(a, u, span)
    BY <1>1
  <2>2. {read(b, u, span) : u \in 1..t - 1} = {read(a, u, span) : u \in 1..t - 1}
    <3>. HIDE DEF read
    <3>. QED
      BY <2>1
  <2>. QED
    BY <2>2 DEF Public
<1>. QED
  BY <1>1, <1>2 DEF TtmPanel

\* The studies of which that is proved.
CausalKinds == {"strategy", "market", "walk", "facts", "paper", "overlay"}

\* Later days do not change what such a study says of a day.
LEMMA SameSaid ==
  ASSUME NEW a, NEW b, Longer(a, b), NEW s \in Subjects, s.kind \in CausalKinds,
         s.kind = "overlay" => OnCalendar(b)
  PROVE  \/ Said(s, b) = <<>> /\ s.kind \in {"market", "paper"}
         \/ \A t \in DOMAIN Said(s, a) : Said(s, b)[t] = Said(s, a)[t]
<1>1. DOMAIN a = 1..Len(a)
  BY LongerDays
<1>2. CASE s.kind = "strategy"
  <2>1. s.rule.family \in Registry \cup {"null"}
    BY <1>2, RuleAssumption DEF RuleFits
  <2>2. Said(s, a) = Weights(a, s.rule) /\ Said(s, b) = Weights(b, s.rule)
    BY <1>2 DEF Said
  <2>3. DOMAIN Weights(a, s.rule) = DOMAIN a
    <3>1. CASE s.rule.family \in Registry
      BY <3>1, FrameOf DEF IsFrame
    <3>2. CASE s.rule.family = "null"
      BY <3>2 DEF Weights, NullWeights, SleeveFamilies
    <3>. QED
      BY <2>1, <3>1, <3>2
  <2>. QED
    BY <1>1, <2>1, <2>2, <2>3, SameWeights
<1>3. CASE s.kind = "market"
  <2>1. /\ Said(s, a) = Returns(RunBacktest(a, Wanted(a), Tickers, s.cost))
        /\ Said(s, b) = Returns(RunBacktest(b, Wanted(b), Tickers, s.cost))
    BY <1>3 DEF Said
  <2>2. Longer(Wanted(a), Wanted(b)) /\ Len(Wanted(a)) = Len(a)
    BY WantedLonger
  <2>. QED
    BY <1>3, <2>1, <2>2, SameRun
<1>4. CASE s.kind = "walk"
  <2>1. Said(s, a) = Stitched(a, s) /\ Said(s, b) = Stitched(b, s)
    BY <1>4 DEF Said
  <2>2. DOMAIN Stitched(a, s) = DOMAIN a
    BY DEF Stitched
  <2>. QED
    BY <1>4, <2>1, <2>2, CalendarAssumption, SameStitched
<1>5. CASE s.kind = "facts"
  <2>1. Said(s, a) = TtmPanel(a, 1, "earned") /\ Said(s, b) = TtmPanel(b, 1, "earned")
    BY <1>5 DEF Said
  <2>2. DOMAIN TtmPanel(a, 1, "earned") = DOMAIN a
    BY DEF TtmPanel
  <2>. QED
    BY <2>1, <2>2, SameFacts
<1>6. CASE s.kind = "paper"
  <2>. DEFINE da == SubSeq(a, s.start, Len(a))
              db == SubSeq(b, s.start, Len(b))
              wa == SubSeq(Wanted(a), s.start, Len(a))
              wb == SubSeq(Wanted(b), s.start, Len(b))
  <2>1. s.start \in Nat \ {0}
    BY <1>6, CalendarAssumption
  <2>2. /\ Said(s, a) = Returns(RunBacktest(da, wa, Tickers, s.cost))
        /\ Said(s, b) = Returns(RunBacktest(db, wb, Tickers, s.cost))
    BY <1>6 DEF Said, Forward, ForwardDays, ForwardRows
  <2>3. Longer(Wanted(a), Wanted(b)) /\ Len(Wanted(a)) = Len(a) /\ Len(Wanted(b)) = Len(b)
    BY WantedLonger
  <2>4. Longer(da, db) /\ Longer(wa, wb)
    BY <2>1, <2>3, SlicesLonger
  <2>5. Len(wa) = Len(da)
    <3>1. IsSeq(a) /\ IsSeq(Wanted(a))
      BY <2>3 DEF Longer
    <3>. QED
      BY <2>1, <2>3, <3>1 DEF IsSeq
  <2>. HIDE DEF da, db, wa, wb
  <2>. QED
    BY <1>6, <2>2, <2>4, <2>5, SameRun
<1>7. CASE s.kind = "overlay"
  BY <1>7, SameOverlaid
<1>. QED
  BY <1>2, <1>3, <1>4, <1>5, <1>6, <1>7 DEF CausalKinds

\* A step that does not start over adds a day.
LEMMA StepIsLonger ==
  ASSUME IsTape, IsTape', [Next]_vars, tape' # <<>>
  PROVE  Longer(tape, tape') /\ subject' = subject
<1>1. IsSeq(tape) /\ IsSeq(tape')
  BY DEF IsTape, IsSeq
<1>2. CASE NextDay
  <2>1. PICK day \in Days(subject, tape) : tape' = Append(tape, day)
    BY <1>2 DEF NextDay
  <2>2. PICK S : tape \in Seq(S)
    BY DEF IsTape
  <2>. QED
    BY <1>1, <1>2, <2>1, <2>2 DEF Longer, NextDay
<1>3. CASE UNCHANGED vars
  BY <1>1, <1>3, TapeDays DEF Longer, vars
<1>. QED
  BY <1>2, <1>3 DEF Next, StartOver

\* The days of an overlay's tape are those of a calendar.
CalendarKept == Kind("overlay") => OnCalendar(tape)

-----------------------------------------------------------------------------
(* What companies file and what they are worth.                            *)

\* One of finitely many reports is the latest.
LEMMA LatestIs ==
  ASSUME NEW facts, IsFiniteSet(facts), facts # {},
         \A f \in facts : f.end \in Int /\ f.filed \in Int
  PROVE  Latest(facts) \in facts
<1>. DEFINE ahead(f, g) == f.end > g.end \/ (f.end = g.end /\ f.filed >= g.filed)
            P == {D \in SUBSET facts : D = {} \/ \E f \in D : \A g \in D : ahead(f, g)}
<1>1. {} \in P
  OBVIOUS
<1>2. ASSUME NEW D \in P, NEW x \in facts \ D
      PROVE  D \cup {x} \in P
  <2>1. D \cup {x} \in SUBSET facts /\ ahead(x, x)
    OBVIOUS
  <2>2. CASE D = {}
    BY <2>1, <2>2
  <2>3. CASE D # {}
    <3>1. PICK f \in D : \A g \in D : ahead(f, g)
      BY <2>3
    <3>2. ahead(f, x) \/ ahead(x, f)
      OBVIOUS
    <3>3. ahead(x, f) => \A g \in D : ahead(x, g)
      BY <3>1
    <3>4. (\A g \in D \cup {x} : ahead(f, g)) \/ \A g \in D \cup {x} : ahead(x, g)
      BY <2>1, <3>1, <3>2, <3>3
    <3>. HIDE DEF ahead
    <3>. QED
      BY <2>1, <3>4
  <2>. QED
    BY <2>2, <2>3
<1>3. facts \in P
  <2>1. P \in SUBSET (SUBSET facts)
    OBVIOUS
  <2>. HIDE DEF P
  <2>. QED
    BY <1>1, <1>2, <2>1, SubsetInduction
<1>4. \E f \in facts : \A g \in facts : ahead(f, g)
  BY <1>3
<1>. QED
  BY <1>4 DEF Latest

\* What several classes add up to is a number.
LEMMA ClassesAddUp ==
  ASSUME NEW S, IsFiniteSet(S), \A g \in S : g.val \in Int
  PROVE  SumOver(S, LAMBDA g : g.val) \in Int
<1>. DEFINE val == [g \in S |-> g.val]
            F(j) == [s \in SUBSET S |-> IF s = {} THEN 0 ELSE First(s).val + j[s \ {First(s)}]]
            iter == CHOOSE j : j = F(j)
<1>1. SumOver(S, LAMBDA g : g.val) = iter[S]
  BY DEF SumOver, FoldSet, MapThenFoldSet, First
<1>2. PICK i : Sums(i, val, S)
  BY SumsExist
<1>. DEFINE mine == [s \in SUBSET S |-> i[s]]
<1>3. mine = F(mine)
  <2>1. ASSUME NEW s \in SUBSET S
        PROVE  mine[s] = F(mine)[s]
    <3>1. s # {} => s \ {First(s)} \in SUBSET S /\ First(s) \in S
      BY DEF First
    <3>. QED
      BY <1>2, <3>1 DEF Sums
  <2>. QED
    BY <2>1
<1>4. iter = F(iter)
  <2>. HIDE DEF F, mine
  <2>. QED
    BY <1>3
<1>5. Sums(iter, val, S)
  <2>. HIDE DEF iter
  <2>1. \A s \in SUBSET S : s # {} => First(s) \in S
    BY DEF First
  <2>. QED
    BY <1>4, <2>1 DEF Sums
<1>6. iter[S] \in Int
  <2>. HIDE DEF iter
  <2>1. \A g \in S : val[g] \in Int
    OBVIOUS
  <2>. QED
    BY <1>5, <2>1, SumsAreWhole
<1>. QED
  BY <1>1, <1>6

\* The splits of some days, as terms of a product that begins with b.
SplitProduct(days, x, b, D) == FoldSet(LAMBDA u, acc : days[u].split[x] * acc, b, D)
ProductTerms(days, x, b, D, r) ==
  /\ b \in Nat \ {0} /\ IsFiniteSet(D)
  /\ \A u \in D : days[u].split[x] \in Nat \ {0} /\ r[u] = Ratio(days[u].split[x], 1)

\* They multiply to a whole number, in any order.
LEMMA ProductIsFold ==
  ASSUME NEW days, NEW x, NEW b, NEW D, NEW r, ProductTerms(days, x, b, D, r)
  PROVE  LET whole == Fold("times", r, D).n
         IN  /\ whole \in Nat \ {0} /\ Fold("times", r, D) = Ratio(whole, 1)
             /\ SplitProduct(days, x, b, D) = b * whole
<1>. DEFINE F(j) == [s \in SUBSET D |-> IF s = {} THEN b
                                        ELSE days[First(s)].split[x] * j[s \ {First(s)}]]
            iter == CHOOSE j : j = F(j)
            next(j, s) == IF s = {} THEN b ELSE days[First(s)].split[x] * j[s \ {First(s)}]
<1>a. /\ b \in Nat \ {0} /\ IsFiniteSet(D)
      /\ \A u \in D : days[u].split[x] \in Nat \ {0} /\ r[u] = Ratio(days[u].split[x], 1)
  BY DEF ProductTerms
<1>0. IsFiniteSet(D)
  BY <1>a
<1>1. SplitProduct(days, x, b, D) = iter[D]
  BY <1>a DEF SplitProduct, FoldSet, MapThenFoldSet, First
<1>2. \A s \in SUBSET D : IsFiniteSet(s) /\ Cardinality(s) \in Nat
  BY <1>0, FS_Subset, FS_CardinalityType
<1>3. \A s \in SUBSET D : s # {} =>
        First(s) \in s /\ s \ {First(s)} \in SUBSET D /\ Cardinality(s \ {First(s)}) = Cardinality(s) - 1
  BY <1>2, FS_RemoveElement DEF First
<1>4. PICK i : Folds("times", i, r, D)
  BY <1>0, FoldsExist
<1>. DEFINE mine == [s \in SUBSET D |-> b * i[s].n]
            good(s) == i[s].n \in Nat \ {0} /\ i[s] = Ratio(i[s].n, 1) /\ b * i[s].n = next(mine, s)
            T == {k \in Nat : \A s \in SUBSET D : Cardinality(s) = k => good(s)}
<1>5. 0 \in T
  <2>1. \A s \in SUBSET D : Cardinality(s) = 0 => s = {}
    BY <1>2, FS_EmptySet
  <2>2. i[{}] = Ratio(1, 1)
    BY <1>4 DEF Folds, Neutral
  <2>3. Ratio(1, 1).n = 1
    BY RatioWhole
  <2>4. good({})
    BY <1>a, <2>2, <2>3
  <2>. HIDE DEF good
  <2>. QED
    BY <2>1, <2>4
<1>6. ASSUME NEW k \in T PROVE k + 1 \in T
  <2>. SUFFICES ASSUME NEW s \in SUBSET D, Cardinality(s) = k + 1
                PROVE  good(s)
    <3>. HIDE DEF good
    <3>. QED
      OBVIOUS
  <2>. DEFINE z == First(s)
              R == s \ {z}
              a == days[z].split[x]
              m == i[R].n
  <2>1. s # {}
    <3>1. k \in Nat /\ k + 1 # 0
      OBVIOUS
    <3>2. Cardinality({}) = 0
      BY FS_EmptySet
    <3>. QED
      BY <3>1, <3>2
  <2>0. k \in Nat /\ Cardinality(s) - 1 = k
    OBVIOUS
  <2>2. z \in D /\ R \in SUBSET D /\ Cardinality(R) = k
    BY <1>3, <2>0, <2>1, Zenon
  <2>7. good(R)
    <3>. HIDE DEF good
    <3>. QED
      BY <2>2
  <2>3. m \in Nat \ {0} /\ i[R] = Ratio(m, 1) /\ a \in Nat \ {0} /\ r[z] = Ratio(a, 1)
    BY <1>a, <2>2, <2>7
  <2>4. i[s] = Times(r[z], i[R])
    BY <1>4, <2>1 DEF Folds, Combine
  <2>5. next(mine, s) = a * (b * m)
    BY <2>1, <2>2
  <2>. HIDE DEF z, R, a, m, next, mine
  <2>6. a * m \in Nat \ {0} /\ i[s] = Ratio(a * m, 1)
    BY <2>3, <2>4, TimesWhole
  <2>8. Ratio(a * m, 1).n = a * m
    BY <2>6, RatioWhole
  <2>9. b * (a * m) = a * (b * m)
    BY <1>a, <2>3
  <2>. QED
    BY <2>5, <2>6, <2>8, <2>9
<1>. HIDE DEF T
<1>7. \A k \in Nat : k \in T
  <2>1. T \in SUBSET Nat
    BY DEF T
  <2>. QED
    BY <1>5, <1>6, <2>1, SetInduction
<1>8. \A s \in SUBSET D : good(s)
  <2>. HIDE DEF good
  <2>. QED
    BY <1>2, <1>7 DEF T
<1>9. \E j : j = F(j)
  <2>1. mine = F(mine)
    BY <1>8
  <2>. HIDE DEF mine, F
  <2>. QED
    BY <2>1
<1>10. iter = F(iter)
  <2>. HIDE DEF F
  <2>. QED
    BY <1>9
<1>11. \A s \in SUBSET D : iter[s] = next(iter, s)
  <2>. HIDE DEF iter
  <2>. QED
    BY <1>10
<1>. DEFINE Q == {k \in Nat : \A s \in SUBSET D : Cardinality(s) = k => iter[s] = mine[s]}
<1>16. \A s \in SUBSET D : mine[s] = b * i[s].n
  OBVIOUS
<1>17. \A s \in SUBSET D : s # {} => s \ {First(s)} \in SUBSET D /\ Cardinality(s \ {First(s)}) = Cardinality(s) - 1
  BY <1>3
<1>. HIDE DEF iter
<1>12. 0 \in Q
  <2>1. \A s \in SUBSET D : Cardinality(s) = 0 => s = {}
    BY <1>2, FS_EmptySet
  <2>2. b * i[{}].n = next(mine, {}) /\ {} \in SUBSET D
    BY <1>8
  <2>. QED
    BY <1>11, <2>1, <2>2
<1>13. ASSUME NEW k \in Q PROVE k + 1 \in Q
  <2>. SUFFICES ASSUME NEW s \in SUBSET D, Cardinality(s) = k + 1
                PROVE  iter[s] = mine[s]
    <3>. HIDE DEF mine
    <3>. QED
      OBVIOUS
  <2>1. s # {}
    <3>1. k \in Nat /\ k + 1 # 0
      OBVIOUS
    <3>2. Cardinality({}) = 0
      BY FS_EmptySet
    <3>. QED
      BY <3>1, <3>2
  <2>2. iter[s \ {First(s)}] = mine[s \ {First(s)}]
    <3>. DEFINE R == s \ {First(s)}
    <3>0. k \in Nat /\ Cardinality(s) - 1 = k
      OBVIOUS
    <3>1. R \in SUBSET D /\ Cardinality(R) = k
      BY <1>17, <2>1, <3>0, Zenon
    <3>2. \A S \in SUBSET D : Cardinality(S) = k => iter[S] = mine[S]
      <4>. HIDE DEF mine
      <4>. QED
        OBVIOUS
    <3>. HIDE DEF mine, R
    <3>3. iter[R] = mine[R]
      BY <3>1, <3>2, Zenon
    <3>. QED
      BY <3>3 DEF R
  <2>3. iter[s] = days[First(s)].split[x] * iter[s \ {First(s)}]
    BY <1>11, <2>1
  <2>4. b * i[s].n = days[First(s)].split[x] * mine[s \ {First(s)}] /\ mine[s] = b * i[s].n
    BY <1>8, <2>1
  <2>. HIDE DEF mine
  <2>. QED
    BY <2>2, <2>3, <2>4
<1>. HIDE DEF Q
<1>14. \A k \in Nat : k \in Q
  <2>1. Q \in SUBSET Nat
    BY DEF Q
  <2>. QED
    BY <1>12, <1>13, <2>1, SetInduction
<1>15. iter[D] = b * i[D].n
  BY <1>0, <1>2, <1>14 DEF Q
<1>18. Fold("times", r, D) = i[D]
  BY <1>0, <1>4, FoldIsTabled
<1>. QED
  BY <1>1, <1>8, <1>15, <1>18

\* The splits after a day, as terms of a product.
SplitTerms(days, x, n, D, r) ==
  /\ n \in Nat /\ Len(days) \in Nat /\ D = n + 1..Len(days)
  /\ \A u \in D : days[u].split[x] \in Nat \ {0} /\ r[u] = Ratio(days[u].split[x], 1)

\* And what comes after a day, to what the splits are.
LEMMA SplitsAreFold ==
  ASSUME NEW days, NEW x, NEW n, NEW D, NEW r, SplitTerms(days, x, n, D, r)
  PROVE  /\ SplitFactor(days, x, n) \in Nat \ {0}
         /\ Ratio(SplitFactor(days, x, n), 1) = Fold("times", r, D)
<1>1. ProductTerms(days, x, 1, D, r)
  <2>1. n + 1 \in Int /\ Len(days) \in Int /\ D = n + 1..Len(days) /\ 1 \in Nat \ {0}
    BY DEF SplitTerms
  <2>2. IsFiniteSet(D)
    BY <2>1, FS_Interval
  <2>. QED
    BY <2>1, <2>2 DEF SplitTerms, ProductTerms
<1>2. SplitFactor(days, x, n) = SplitProduct(days, x, 1, D)
  BY DEF SplitTerms, SplitFactor, SplitProduct
<1>. QED
  BY <1>1, <1>2, ProductIsFold

\* Some days with one more, and how many shares a share is made on that.
OneMoreSplit(days, x, b, D, u, E, m) ==
  /\ b \in Nat \ {0} /\ IsFiniteSet(D) /\ u \in D /\ E = D \ {u} /\ m = days[u].split[x]
  /\ \A v \in D : days[v].split[x] \in Nat \ {0}

\* One more day is one more factor, whatever the product begins with.
LEMMA ProductGrows ==
  ASSUME NEW days, NEW x, NEW b, NEW D, NEW u, NEW E, NEW m, OneMoreSplit(days, x, b, D, u, E, m)
  PROVE  /\ SplitProduct(days, x, b, D) \in Nat \ {0}
         /\ SplitProduct(days, x, b, D) = m * SplitProduct(days, x, b, E)
<1>. DEFINE r == [v \in D |-> Ratio(days[v].split[x], 1)]
            f == Fold("times", r, D).n
            g == Fold("times", r, E).n
<1>1. \A v \in D : r[v] = Ratio(days[v].split[x], 1)
  OBVIOUS
<1>2. /\ b \in Nat \ {0} /\ IsFiniteSet(D) /\ u \in D /\ E = D \ {u}
      /\ \A v \in D : days[v].split[x] \in Nat \ {0}
      /\ m \in Nat \ {0} /\ r[u] = Ratio(m, 1) /\ IsFiniteSet(E) /\ E \in SUBSET D
  BY FS_Subset DEF OneMoreSplit
<1>. HIDE DEF r
<1>3. ProductTerms(days, x, b, D, r) /\ ProductTerms(days, x, b, E, r)
  BY <1>1, <1>2 DEF ProductTerms
<1>4. /\ f \in Nat \ {0} /\ Fold("times", r, D) = Ratio(f, 1) /\ SplitProduct(days, x, b, D) = b * f
      /\ g \in Nat \ {0} /\ Fold("times", r, E) = Ratio(g, 1) /\ SplitProduct(days, x, b, E) = b * g
  BY <1>3, ProductIsFold
<1>5. \A v \in D : Lowest(r[v])
  BY <1>1, <1>2, RatioWorth DEF Worth
<1>6. Fold("times", r, D) = Times(r[u], Fold("times", r, E))
  <2>1. Fold("times", r, D) = Combine("times", r[u], Fold("times", r, E))
    BY <1>2, <1>5, FoldOfOneMore
  <2>. QED
    BY <2>1 DEF Combine
<1>. HIDE DEF f, g
<1>7. m * g \in Nat \ {0} /\ Ratio(f, 1) = Ratio(m * g, 1)
  BY <1>2, <1>4, <1>6, TimesWhole
<1>8. f = m * g
  <2>1. Ratio(f, 1).n = f /\ Ratio(m * g, 1).n = m * g
    BY <1>4, <1>7, RatioWhole
  <2>. QED
    BY <1>7, <2>1
<1>9. b * f = m * (b * g) /\ b * f \in Nat \ {0}
  BY <1>2, <1>4, <1>8
<1>. QED
  BY <1>4, <1>9

\* The shares of a day times the splits after it are the shares of the last day.
LEMMA SharesGrow ==
  ASSUME IsTape, NEW x,
         \A u \in DOMAIN tape : tape[u].split[x] \in Nat \ {0}
  PROVE  \A t \in 0..Len(tape) : /\ TrueShares(x, t) \in Nat \ {0} /\ SplitFactor(tape, x, t) \in Nat \ {0}
                                 /\ TrueShares(x, t) * SplitFactor(tape, x, t) = TrueShares(x, Len(tape))
<1>. DEFINE last == Len(tape)
            up(t) == SplitProduct(tape, x, 2, 1..t)
            down(t) == SplitProduct(tape, x, 1, t + 1..last)
            good(t) == up(t) \in Nat \ {0} /\ down(t) \in Nat \ {0} /\ up(t) * down(t) = up(last)
            T == {n \in Nat : n =< last => good(last - n)}
<1>1. last \in Nat /\ DOMAIN tape = 1..last
  BY TapeDays
<1>2. ASSUME NEW t \in 0..last
      PROVE  TrueShares(x, t) = up(t) /\ SplitFactor(tape, x, t) = down(t)
  BY DEF TrueShares, SplitFactor, SplitProduct
<1>3. ASSUME NEW b \in Nat \ {0}, NEW D \in SUBSET (1..last)
      PROVE  /\ SplitProduct(tape, x, b, D) \in Nat \ {0}
             /\ \A u \in D : SplitProduct(tape, x, b, D) = tape[u].split[x] * SplitProduct(tape, x, b, D \ {u})
  <2>1. IsFiniteSet(D) /\ \A v \in D : tape[v].split[x] \in Nat \ {0}
    <3>1. IsFiniteSet(1..last)
      BY <1>1, FS_Interval
    <3>2. D \in SUBSET DOMAIN tape
      BY <1>1
    <3>. HIDE DEF last
    <3>. QED
      BY <3>1, <3>2, FS_Subset
  <2>2. ASSUME NEW u \in D
        PROVE  /\ SplitProduct(tape, x, b, D) \in Nat \ {0}
               /\ SplitProduct(tape, x, b, D) = tape[u].split[x] * SplitProduct(tape, x, b, D \ {u})
    <3>. DEFINE E == D \ {u}
                m == tape[u].split[x]
    <3>1. OneMoreSplit(tape, x, b, D, u, E, m)
      BY <2>1 DEF OneMoreSplit
    <3>. HIDE DEF E, m
    <3>2. /\ SplitProduct(tape, x, b, D) \in Nat \ {0}
          /\ SplitProduct(tape, x, b, D) = m * SplitProduct(tape, x, b, E)
      BY <3>1, ProductGrows
    <3>. QED
      BY <3>2 DEF E, m
  <2>3. ASSUME D = {}
        PROVE  SplitProduct(tape, x, b, D) \in Nat \ {0}
    <3>. DEFINE r == [v \in D |-> Ratio(tape[v].split[x], 1)]
                whole == Fold("times", r, D).n
    <3>1. ProductTerms(tape, x, b, D, r)
      BY <2>1, <2>3 DEF ProductTerms
    <3>. HIDE DEF r
    <3>2. whole \in Nat \ {0} /\ SplitProduct(tape, x, b, D) = b * whole
      BY <3>1, ProductIsFold
    <3>. HIDE DEF whole
    <3>. QED
      BY <3>2
  <2>. QED
    BY <2>2, <2>3
<1>4. 0 \in T
  <2>1. up(last) \in Nat \ {0}
    BY <1>1, <1>3
  <2>. DEFINE none == {}
  <2>2. last + 1..last = none
    BY <1>1
  <2>3. SplitProduct(tape, x, 1, none) = 1
    <3>. DEFINE r == [v \in none |-> One]
    <3>1. ProductTerms(tape, x, 1, none, r)
      BY FS_EmptySet DEF ProductTerms
    <3>. HIDE DEF r
    <3>2. Fold("times", r, {}) = Ratio(1, 1)
      <4>1. PICK i : Folds("times", i, r, {})
        BY FS_EmptySet, FoldsExist
      <4>2. i[{}] = Ratio(1, 1)
        BY <4>1 DEF Folds, Neutral
      <4>. QED
        BY <4>1, <4>2, FS_EmptySet, FoldIsTabled
    <3>3. Ratio(1, 1).n = 1
      BY RatioWhole
    <3>. QED
      BY <3>1, <3>2, <3>3, ProductIsFold
  <2>4. down(last) = 1
    BY <2>2, <2>3
  <2>. HIDE DEF up, down, last
  <2>5. good(last)
    BY <2>1, <2>4
  <2>. QED
    BY <1>1, <2>5
<1>5. ASSUME NEW n \in T PROVE n + 1 \in T
  <2>. SUFFICES ASSUME n + 1 =< last
                PROVE  good(last - (n + 1))
    OBVIOUS
  <2>. DEFINE t == last - n
              s == t - 1
              m == tape[t].split[x]
              D == 1..t
              E == s + 1..last
  <2>1. t \in 1..last /\ s \in 0..last /\ s = last - (n + 1) /\ t \in D /\ t \in E
        /\ D \ {t} = 1..s /\ E \ {t} = t + 1..last /\ D \in SUBSET (1..last) /\ E \in SUBSET (1..last)
    BY <1>1, SMTT(20)
  <2>2. good(t)
    BY <2>1
  <2>3. m \in Nat \ {0}
    BY <1>1, <2>1
  <2>. DEFINE ut == SplitProduct(tape, x, 2, D)
              us == SplitProduct(tape, x, 2, D \ {t})
              ds == SplitProduct(tape, x, 1, E)
              dt == SplitProduct(tape, x, 1, E \ {t})
  <2>a. D \in SUBSET (1..last) /\ E \in SUBSET (1..last) /\ D \ {t} \in SUBSET (1..last)
        /\ t \in D /\ t \in E /\ 1 \in Nat \ {0} /\ 2 \in Nat \ {0}
    BY <2>1
  <2>4. ut = m * us /\ ut \in Nat \ {0} /\ ds = m * dt /\ ds \in Nat \ {0}
    <3>. HIDE DEF D, E, t, last
    <3>. QED
      BY <1>3, <2>a
  <2>5. us \in Nat \ {0}
    <3>. HIDE DEF D, t, last
    <3>. QED
      BY <1>3, <2>a
  <2>6. ut = up(t) /\ us = up(s) /\ ds = down(s) /\ dt = down(t)
    BY <2>1
  <2>. HIDE DEF up, down, ut, us, ds, dt, m, t, s, last
  <2>7. us * ds = ut * dt
    <3>1. us * (m * dt) = (m * us) * dt
      BY <2>2, <2>3, <2>5, <2>6
    <3>. QED
      BY <2>4, <3>1
  <2>. QED
    BY <2>1, <2>2, <2>4, <2>5, <2>6, <2>7
<1>. HIDE DEF T
<1>6. \A n \in Nat : n \in T
  <2>1. T \in SUBSET Nat
    BY DEF T
  <2>. QED
    BY <1>4, <1>5, <2>1, SetInduction
<1>7. ASSUME NEW t \in 0..last
      PROVE  good(t)
  <2>1. last - t \in Nat /\ last - t =< last /\ last - (last - t) = t
    BY <1>1
  <2>. HIDE DEF good
  <2>. QED
    BY <1>6, <2>1 DEF T
<1>8. last \in 0..last
  BY <1>1
<1>. QED
  BY <1>2, <1>7, <1>8

\* Companies whose splits multiply their shares, whose closes are numbers, and that
\* file finitely many facts of numbers.
CompaniesFit(days) ==
  \A t \in DOMAIN days, x \in Tickers :
    /\ days[t].split[x] \in Nat \ {0}
    /\ Priced(days, t, x) => days[t].bars[x].close \in Int
    /\ IsFiniteSet(days[t].filings[x])
    /\ \A f \in days[t].filings[x] : f.end \in Int /\ f.val \in Int

\* One more day is one more factor.
LEMMA SplitGrows ==
  ASSUME NEW a, NEW b, Longer(a, b), Len(b) = Len(a) + 1, CompaniesFit(b), NEW x \in Tickers,
         NEW n \in Nat, n =< Len(a)
  PROVE  /\ SplitFactor(a, x, n) \in Nat \ {0}
         /\ SplitFactor(b, x, n) = b[Len(b)].split[x] * SplitFactor(a, x, n)
<1>. DEFINE da == n + 1..Len(a)
            db == n + 1..Len(b)
            last == Len(b)
            r == [u \in db |-> Ratio(b[u].split[x], 1)]
            m == b[last].split[x]
            fa == SplitFactor(a, x, n)
            fb == SplitFactor(b, x, n)
<1>1. /\ Len(a) \in Nat /\ Len(b) \in Nat /\ da \in SUBSET (1..Len(a)) /\ db \in SUBSET (1..Len(b))
      /\ last \in db /\ da = db \ {last}
  BY LongerDays
<1>2. \A u \in db : b[u].split[x] \in Nat \ {0}
  BY <1>1, LongerDays DEF CompaniesFit
<1>3. \A u \in da : a[u].split[x] = b[u].split[x]
  BY <1>1, LongerDays
<1>4. \A u \in da : u \in db /\ a[u].split[x] \in Nat \ {0} /\ r[u] = Ratio(a[u].split[x], 1)
  BY <1>1, <1>2, <1>3
<1>5. \A u \in db : r[u] = Ratio(b[u].split[x], 1)
  OBVIOUS
<1>. HIDE DEF r, da, db
<1>6. fb \in Nat \ {0} /\ Ratio(fb, 1) = Fold("times", r, db)
  <2>1. SplitTerms(b, x, n, db, r)
    BY <1>1, <1>2, <1>5 DEF db, SplitTerms
  <2>. QED
    BY <2>1, SplitsAreFold
<1>7. fa \in Nat \ {0} /\ Ratio(fa, 1) = Fold("times", r, da)
  <2>1. SplitTerms(a, x, n, da, r)
    BY <1>1, <1>4 DEF da, SplitTerms
  <2>. QED
    BY <2>1, SplitsAreFold
<1>8. Fold("times", r, db) = Times(r[last], Fold("times", r, da))
  <2>1. IsFiniteSet(db)
    BY <1>1, FS_Interval DEF db
  <2>2. \A u \in db : Lowest(r[u])
    BY <1>2, <1>5, RatioWorth DEF Worth
  <2>3. Fold("times", r, db) = Combine("times", r[last], Fold("times", r, da))
    BY <1>1, <2>1, <2>2, FoldOfOneMore, SMT
  <2>. QED
    BY <2>3 DEF Combine
<1>9. m \in Nat \ {0} /\ r[last] = Ratio(m, 1)
  BY <1>1, <1>2, <1>5
<1>. HIDE DEF fa, fb, m
<1>10. m * fa \in Nat \ {0} /\ Ratio(fb, 1) = Ratio(m * fa, 1)
  BY <1>6, <1>7, <1>8, <1>9, TimesWhole
<1>11. fb = m * fa
  <2>1. Ratio(fb, 1).n = fb /\ Ratio(m * fa, 1).n = m * fa
    BY <1>6, <1>10, RatioWhole
  <2>. QED
    BY <1>10, <2>1
<1>. QED
  BY <1>7, <1>11 DEF fa, fb, m

\* What is public of a company is public a day later.
LEMMA SamePublic ==
  ASSUME NEW a, NEW b, Longer(a, b), NEW t \in DOMAIN a, NEW x, NEW concept, NEW span
  PROVE  Public(b, t, x, concept, span) = Public(a, t, x, concept, span)
<1>. DEFINE read(days, u) ==
              {[end |-> f.end, filed |-> u, val |-> f.val, class |-> f.class] :
                 f \in {g \in days[u].filings[x] : g.concept = concept /\ g.span = span}}
<1>1. \A u \in 1..t - 1 : b[u] = a[u]
  BY LongerDays
<1>2. \A u \in 1..t - 1 : read(b, u) = read(a, u)
  BY <1>1
<1>3. {read(b, u) : u \in 1..t - 1} = {read(a, u) : u \in 1..t - 1}
  <2>. HIDE DEF read
  <2>. QED
    BY <1>2
<1>. QED
  BY <1>3 DEF Public

\* Facts are finitely many, of earlier days, and of numbers.
FactsUpTo(facts, t) ==
  IsFiniteSet(facts) /\ \A f \in facts : f.end \in Int /\ f.filed \in 1..t - 1 /\ f.val \in Int

\* Facts of companies that file finitely many, of numbers.
FilingsFit(days, x) ==
  \A u \in DOMAIN days :
    IsFiniteSet(days[u].filings[x]) /\ \A f \in days[u].filings[x] : f.end \in Int /\ f.val \in Int

\* What is public of a company is such facts, and was filed on an earlier day.
LEMMA PublicIsFiled ==
  ASSUME NEW days, Len(days) \in Nat, DOMAIN days = 1..Len(days),
         NEW x, FilingsFit(days, x),
         NEW t \in DOMAIN days, NEW concept, NEW span
  PROVE  /\ FactsUpTo(Public(days, t, x, concept, span), t)
         /\ \A f \in Public(days, t, x, concept, span) :
              \E u \in 1..t - 1 : \E g \in days[u].filings[x] :
                g.concept = concept /\ g.span = span /\ f.end = g.end /\ f.val = g.val /\ f.filed = u
<1>. DEFINE of(u) == {g \in days[u].filings[x] : g.concept = concept /\ g.span = span}
            fact(f, u) == [end |-> f.end, filed |-> u, val |-> f.val, class |-> f.class]
            read(u) == {fact(f, u) : f \in of(u)}
            reads == [u \in 1..t - 1 |-> read(u)]
<1>1. Public(days, t, x, concept, span) = UNION {reads[u] : u \in 1..t - 1}
  BY DEF Public
<1>2. t - 1 \in Int /\ \A u \in 1..t - 1 : u \in DOMAIN days
  OBVIOUS
<1>3. ASSUME NEW u \in 1..t - 1
      PROVE  /\ IsFiniteSet(reads[u])
             /\ \A f \in reads[u] : f.end \in Int /\ f.filed \in 1..t - 1 /\ f.val \in Int
             /\ \A f \in reads[u] : \E g \in days[u].filings[x] :
                  g.concept = concept /\ g.span = span /\ f.end = g.end /\ f.val = g.val /\ f.filed = u
  <2>1. IsFiniteSet(of(u)) /\ \A f \in of(u) : f.end \in Int /\ f.val \in Int
    <3>1. of(u) \in SUBSET days[u].filings[x] /\ IsFiniteSet(days[u].filings[x])
      BY <1>2 DEF FilingsFit
    <3>2. \A f \in of(u) : f.end \in Int /\ f.val \in Int
      BY <1>2 DEF FilingsFit
    <3>. QED
      BY <3>1, <3>2, FS_Subset
  <2>. DEFINE g == [f \in of(u) |-> fact(f, u)]
  <2>2. reads[u] = {g[f] : f \in of(u)}
    OBVIOUS
  <2>3. IsFiniteSet(reads[u])
    <3>. HIDE DEF of, g, reads
    <3>. QED
      BY <2>1, <2>2, FiniteImage
  <2>4. \A f \in reads[u] : f.end \in Int /\ f.filed \in 1..t - 1 /\ f.val \in Int
    BY <2>1
  <2>5. \A f \in reads[u] : \E h \in days[u].filings[x] :
          h.concept = concept /\ h.span = span /\ f.end = h.end /\ f.val = h.val /\ f.filed = u
    OBVIOUS
  <2>. QED
    BY <2>3, <2>4, <2>5
<1>4. IsFiniteSet({reads[u] : u \in 1..t - 1})
  <2>1. IsFiniteSet(1..t - 1)
    BY <1>2, FS_Interval
  <2>. HIDE DEF reads
  <2>. QED
    BY <2>1, FiniteImage
<1>. HIDE DEF reads
<1>5. IsFiniteSet(UNION {reads[u] : u \in 1..t - 1})
  <2>1. \A u \in 1..t - 1 : IsFiniteSet(reads[u])
    BY <1>3
  <2>2. \A T \in {reads[u] : u \in 1..t - 1} : IsFiniteSet(T)
    BY <2>1
  <2>. QED
    BY <1>4, <2>2, FS_UNION
<1>. QED
  BY <1>1, <1>3, <1>5 DEF FactsUpTo

\* What is public of a company of a panel is such facts.
LEMMA PublicFits ==
  ASSUME NEW days, Len(days) \in Nat, DOMAIN days = 1..Len(days), CompaniesFit(days),
         NEW t \in DOMAIN days, NEW x \in Tickers, NEW concept, NEW span
  PROVE  FactsUpTo(Public(days, t, x, concept, span), t)
<1>1. FilingsFit(days, x)
  BY DEF CompaniesFit, FilingsFit
<1>. QED
  BY <1>1, PublicIsFiled

\* And so are those that add up classes.
LEMMA ClassesFit ==
  ASSUME NEW t, NEW facts, FactsUpTo(facts, t)
  PROVE  FactsUpTo(AllClasses(facts), t)
<1>. DEFINE part(f) == {g \in facts : g.end = f.end /\ g.filed = f.filed}
            whole(f) == [end |-> f.end, filed |-> f.filed, val |-> SumOver(part(f), LAMBDA g : g.val)]
            wholes == [f \in facts |-> whole(f)]
<1>1. AllClasses(facts) = {wholes[f] : f \in facts}
  BY DEF AllClasses
<1>2. ASSUME NEW f \in facts
      PROVE  wholes[f].end \in Int /\ wholes[f].filed \in 1..t - 1 /\ wholes[f].val \in Int
  <2>. DEFINE S == part(f)
  <2>1. IsFiniteSet(S) /\ \A g \in S : g.val \in Int
    BY FS_Subset DEF FactsUpTo
  <2>2. SumOver(S, LAMBDA g : g.val) \in Int
    <3>. HIDE DEF S
    <3>. QED
      BY <2>1, ClassesAddUp
  <2>3. /\ wholes[f].end = f.end /\ wholes[f].filed = f.filed
        /\ wholes[f].val = SumOver(S, LAMBDA g : g.val)
    OBVIOUS
  <2>. QED
    BY <2>2, <2>3 DEF FactsUpTo
<1>3. IsFiniteSet({wholes[f] : f \in facts})
  <2>. HIDE DEF wholes
  <2>. QED
    BY FiniteImage DEF FactsUpTo
<1>. HIDE DEF wholes
<1>. QED
  BY <1>1, <1>2, <1>3 DEF FactsUpTo

\* The count of shares of a day is one of those.
LEMMA SharesFactFits ==
  ASSUME NEW days, Len(days) \in Nat, DOMAIN days = 1..Len(days), CompaniesFit(days),
         NEW t \in DOMAIN days, NEW x \in Tickers, SharesFact(days, t, x) # NaN
  PROVE  SharesFact(days, t, x).filed \in 1..t - 1 /\ SharesFact(days, t, x).val \in Int
<1>1. ASSUME NEW facts, FactsUpTo(facts, t), Current(facts, t) # NaN
      PROVE  Current(facts, t).filed \in 1..t - 1 /\ Current(facts, t).val \in Int
  <2>1. facts # {} /\ Current(facts, t) = Latest(facts)
    BY <1>1 DEF Current
  <2>2. Latest(facts) \in facts
    <3>1. \A f \in facts : f.end \in Int /\ f.filed \in Int
      BY <1>1 DEF FactsUpTo
    <3>. QED
      BY <1>1, <2>1, <3>1, LatestIs DEF FactsUpTo
  <2>. QED
    BY <1>1, <2>1, <2>2 DEF FactsUpTo
<1>2. \A concept, span : FactsUpTo(Public(days, t, x, concept, span), t)
  BY PublicFits
<1>3. FactsUpTo(AllClasses(Public(days, t, x, "dei", 0)), t)
  BY <1>2, ClassesFit
<1>. QED
  BY <1>1, <1>2, <1>3 DEF SharesFact

\* Shares n at a price of c over Q, and k at c over e after a split by m.
AfterSplit(n, c, Q, k, e) ==
  /\ n \in Int /\ c \in Int /\ Q \in Nat \ {0}
  /\ \E m \in Nat \ {0} : k = m * n /\ e = m * Q

\* They are worth the same.
LEMMA CapKeeps ==
  ASSUME NEW n, NEW c, NEW Q, NEW k, NEW e, AfterSplit(n, c, Q, k, e)
  PROVE  Times(Ratio(k, 1), Ratio(c, e)) = Times(Ratio(n, 1), Ratio(c, Q))
<1>0. PICK m \in Nat \ {0} : n \in Int /\ c \in Int /\ Q \in Nat \ {0} /\ k = m * n /\ e = m * Q
  BY DEF AfterSplit
<1>1. n \in Int /\ c \in Int /\ Q \in Nat \ {0} /\ k \in Int /\ k = m * n /\ e = m * Q /\ e \in Nat \ {0}
  BY <1>0
<1>2. Worth(Ratio(k, 1), k, 1) /\ Worth(Ratio(c, e), c, e) /\ Worth(Ratio(n, 1), n, 1) /\ Worth(Ratio(c, Q), c, Q)
  BY <1>1, RatioWorth
<1>. DEFINE one == Times(Ratio(k, 1), Ratio(c, e))
            two == Times(Ratio(n, 1), Ratio(c, Q))
<1>3. Worth(one, k * c, 1 * e) /\ Worth(two, n * c, 1 * Q)
  BY <1>2, TimesWorth
<1>. HIDE DEF one, two
<1>4. n * c \in Int /\ 1 * Q \in Nat \ {0} /\ (k * c) * (1 * Q) = (n * c) * (1 * e)
  <2>1. (m * n) * c * Q = (n * c) * (m * Q)
    BY <1>1
  <2>3. k * c = (m * n) * c /\ 1 * Q = Q /\ 1 * e = e
    BY <1>1
  <2>. QED
    BY <1>1, <2>1, <2>3
<1>5. Worth(one, n * c, 1 * Q)
  BY <1>3, <1>4, WorthSame
<1>6. one = two
  BY <1>3, <1>5, WorthIsUnique
<1>. QED
  BY <1>6 DEF one, two

\* What a company was worth on a day is what it is a day later, also if its
\* shares are split on that day.
LEMMA SameCap ==
  ASSUME NEW a, NEW b, Longer(a, b), Len(b) = Len(a) + 1, CompaniesFit(b),
         NEW t \in 1..Len(a), NEW x \in Tickers, NEW limit \in Nat
  PROVE  MarketCap(b, t, x, limit) = MarketCap(a, t, x, limit)
<1>. DEFINE fact == SharesFact(a, t, x)
            m == b[Len(b)].split[x]
            priced(days) == {u \in t - limit..t : u \in DOMAIN days /\ Priced(days, u, x)}
            days == priced(a)
            last == Max(days)
            c == a[last].bars[x].close
            P == SplitFactor(a, x, fact.filed)
            Q == SplitFactor(a, x, last)
            v == fact.val
<1>1. Len(a) \in Nat /\ Len(b) \in Nat /\ DOMAIN a = 1..Len(a) /\ DOMAIN b = 1..Len(b) /\ t \in DOMAIN a /\ t \in DOMAIN b
  BY LongerDays
<1>2. SharesFact(b, t, x) = fact
  <2>1. \A concept, span : Public(b, t, x, concept, span) = Public(a, t, x, concept, span)
    BY <1>1, SamePublic
  <2>. QED
    BY <2>1 DEF SharesFact
<1>3. priced(b) = days
  <2>1. \A u \in t - limit..t : (u \in DOMAIN b /\ Priced(b, u, x)) = (u \in DOMAIN a /\ Priced(a, u, x))
    <3>1. ASSUME NEW u \in t - limit..t
          PROVE  (u \in DOMAIN b) = (u \in DOMAIN a) /\ (u \in DOMAIN a => b[u] = a[u])
      BY <1>1, LongerDays
    <3>. QED
      BY <3>1 DEF Priced
  <2>. QED
    BY <2>1
<1>4. days # {} => last \in 1..Len(a) /\ last \in Nat /\ last =< Len(a) /\ Priced(a, last, x)
  <2>1. days \in SUBSET (1..Len(a))
    BY <1>1
  <2>2. days # {} => last \in days
    <3>. HIDE DEF days
    <3>. QED
      BY <1>1, <2>1, LastDay
  <2>3. \A u \in days : Priced(a, u, x) /\ u \in 1..Len(a)
    BY <1>1
  <2>. HIDE DEF days
  <2>. QED
    BY <1>1, <2>2, <2>3
<1>5. fact # NaN => v \in Int /\ fact.filed \in Nat /\ fact.filed =< Len(a)
  <2>1. fact # NaN => SharesFact(b, t, x).filed \in 1..t - 1 /\ SharesFact(b, t, x).val \in Int
    BY <1>1, <1>2, SharesFactFits
  <2>. HIDE DEF fact
  <2>. QED
    BY <1>1, <1>2, <2>1
<1>6. days # {} => c \in Int /\ b[last].bars[x].close = c
  <2>. HIDE DEF days, last
  <2>1. days # {} => last \in DOMAIN b /\ b[last] = a[last] /\ Priced(b, last, x)
    BY <1>1, <1>4, LongerDays DEF Priced
  <2>. QED
    BY <2>1 DEF CompaniesFit
<1>7. m \in Nat \ {0}
  <2>1. Len(b) \in DOMAIN b
    BY <1>1
  <2>. QED
    BY <2>1 DEF CompaniesFit
<1>8. \A n \in Nat : n =< Len(a) => SplitFactor(a, x, n) \in Nat \ {0} /\ SplitFactor(b, x, n) = m * SplitFactor(a, x, n)
  BY SplitGrows
<1>9. EffectiveShares(a, t, x) = (IF fact = NaN THEN NaN ELSE v * P)
  BY DEF EffectiveShares
<1>10. EffectiveShares(b, t, x) = (IF fact = NaN THEN NaN ELSE v * (m * P))
  <2>1. fact # NaN => SplitFactor(b, x, fact.filed) = m * P
    BY <1>5, <1>8
  <2>2. EffectiveShares(b, t, x) = (IF fact = NaN THEN NaN ELSE v * SplitFactor(b, x, fact.filed))
    BY <1>2 DEF EffectiveShares
  <2>. HIDE DEF fact, v, P, m
  <2>. QED
    BY <2>1, <2>2
<1>11. LastClose(a, t, x, limit) = (IF days = {} THEN NaN ELSE Ratio(c, Q))
  BY DEF LastClose, AdjustedClose
<1>12. LastClose(b, t, x, limit) = (IF days = {} THEN NaN ELSE Ratio(c, m * Q))
  <2>1. LastClose(b, t, x, limit) = (IF days = {} THEN NaN ELSE AdjustedClose(b, last, x))
    <3>1. LastClose(b, t, x, limit) = (IF priced(b) = {} THEN NaN ELSE AdjustedClose(b, Max(priced(b)), x))
      BY DEF LastClose
    <3>. HIDE DEF priced
    <3>. QED
      BY <1>3, <3>1
  <2>2. days # {} => SplitFactor(b, x, last) = m * Q
    BY <1>4, <1>8
  <2>. HIDE DEF days, last, c, Q, m
  <2>. QED
    BY <1>6, <2>1, <2>2 DEF AdjustedClose, c, Q
<1>13. fact # NaN => P \in Nat \ {0}
  BY <1>5, <1>8
<1>14. days # {} => Q \in Nat \ {0}
  BY <1>4, <1>8
<1>15. \A n \in Int, d \in Nat \ {0} : Ratio(n, d) # NaN
  <2>1. ASSUME NEW n \in Int, NEW d \in Nat \ {0}
        PROVE  Ratio(n, d) # NaN
    <3>1. Lowest(Ratio(n, d))
      BY RatioWorth DEF Worth
    <3>2. Ratio(n, d) \in [n : Int, d : Int]
      BY <3>1 DEF Lowest
    <3>. QED
      BY <3>2, FramesAssumption
  <2>. QED
    BY <2>1
<1>. DEFINE sa == EffectiveShares(a, t, x)
            sb == EffectiveShares(b, t, x)
            pa == LastClose(a, t, x, limit)
            pb == LastClose(b, t, x, limit)
<1>16. /\ MarketCap(a, t, x, limit) = (IF sa = NaN \/ pa = NaN THEN NaN ELSE Times(Ratio(sa, 1), pa))
       /\ MarketCap(b, t, x, limit) = (IF sb = NaN \/ pb = NaN THEN NaN ELSE Times(Ratio(sb, 1), pb))
  BY DEF MarketCap
<1>17. sa = (IF fact = NaN THEN NaN ELSE v * P) /\ sb = (IF fact = NaN THEN NaN ELSE v * (m * P))
  BY <1>9, <1>10
<1>18. pa = (IF days = {} THEN NaN ELSE Ratio(c, Q)) /\ pb = (IF days = {} THEN NaN ELSE Ratio(c, m * Q))
  BY <1>11, <1>12
<1>. HIDE DEF fact, days, last, c, P, Q, v, m, sa, sb, pa, pb
<1>19. CASE fact = NaN \/ days = {}
  BY <1>16, <1>17, <1>18, <1>19
<1>20. CASE fact # NaN /\ days # {}
  <2>1. v \in Int /\ c \in Int /\ P \in Nat \ {0} /\ Q \in Nat \ {0}
    BY <1>5, <1>6, <1>13, <1>14, <1>20
  <2>2. v * P \in Int /\ v * (m * P) \in Int /\ m * Q \in Nat \ {0}
    BY <1>7, <2>1
  <2>3. sa # NaN /\ sb # NaN
    BY <1>17, <1>20, <2>2, FramesAssumption
  <2>4. pa # NaN /\ pb # NaN
    BY <1>15, <1>18, <1>20, <2>1, <2>2
  <2>. DEFINE e == m * Q
  <2>6. sa = v * P /\ sb = v * (m * P) /\ pa = Ratio(c, Q) /\ pb = Ratio(c, e)
    BY <1>17, <1>18, <1>20
  <2>8. AfterSplit(sa, c, Q, sb, e)
    <3>1. v * P \in Int /\ v * (m * P) = m * (v * P)
      BY <1>7, <2>1
    <3>. QED
      BY <1>7, <2>1, <2>6, <3>1 DEF AfterSplit
  <2>. HIDE DEF e
  <2>7. Times(Ratio(sb, 1), pb) = Times(Ratio(sa, 1), pa)
    <3>1. Times(Ratio(sb, 1), Ratio(c, e)) = Times(Ratio(sa, 1), Ratio(c, Q))
      BY <2>8, CapKeeps
    <3>. QED
      BY <2>6, <3>1
  <2>. QED
    BY <1>16, <2>3, <2>4, <2>7
<1>. QED
  BY <1>19, <1>20

\* What a company scores on a day.
LEMMA SameScore ==
  ASSUME NEW a, NEW b, Longer(a, b), Len(b) = Len(a) + 1, CompaniesFit(b), NEW t \in 1..Len(a),
         NEW x \in Tickers, NEW p
  PROVE  Score(b, t, x, p) = Score(a, t, x, p)
<1>1. t \in DOMAIN a /\ t \in DOMAIN b
  BY LongerDays
<1>2. \A concept, span : Public(b, t, x, concept, span) = Public(a, t, x, concept, span)
  BY <1>1, SamePublic
<1>3. TtmPanel(b, x, p.concept)[t] = TtmPanel(a, x, p.concept)[t]
  BY <1>1, SameFacts
<1>4. PitPanel(b, x, "assets", 0)[t] = PitPanel(a, x, "assets", 0)[t]
  BY <1>1, <1>2 DEF PitPanel
<1>5. LagPanel(b, x, "assets")[t] = LagPanel(a, x, "assets")[t]
  BY <1>1, <1>2 DEF LagPanel
<1>6. MarketCap(b, t, x, 0) = MarketCap(a, t, x, 0)
  BY SameCap
<1>. QED
  BY <1>3, <1>4, <1>5, <1>6 DEF Score

\* And who the members are: they are ranked at the end of a month that is over.
LEMMA SameMembers ==
  ASSUME NEW a, NEW b, Longer(a, b), Len(b) = Len(a) + 1, CompaniesFit(b), NEW t \in 1..Len(a),
         NEW p, p.limit \in Nat
  PROVE  MembershipMask(b, p)[t] = MembershipMask(a, p)[t]
<1>. DEFINE ends(days) == {m \in 1..t - 1 : IsMonthEnd(days, m)}
            month == Max(ends(a))
<1>1. Len(a) \in Nat /\ t \in DOMAIN a /\ t \in DOMAIN b /\ t - 1 \in Nat
  BY LongerDays
<1>2. \A m \in 1..t - 1 : IsMonthEnd(b, m) = IsMonthEnd(a, m)
  <2>1. ASSUME NEW m \in 1..t - 1
        PROVE  m < Len(a) /\ m < Len(b) /\ b[m] = a[m] /\ b[m + 1] = a[m + 1]
    BY <1>1, LongerDays
  <2>. QED
    BY <2>1 DEF IsMonthEnd
<1>3. ends(b) = ends(a)
  BY <1>2
<1>4. ends(a) # {} => month \in 1..Len(a)
  <2>. DEFINE S == ends(a)
  <2>1. S \in SUBSET (1..t - 1) /\ month = Max(S)
    OBVIOUS
  <2>. HIDE DEF S, month
  <2>2. ASSUME S # {}
        PROVE  Max(S) \in S
    BY <1>1, <2>1, <2>2, LastDay
  <2>3. 1..t - 1 \subseteq 1..Len(a)
    BY <1>1
  <2>4. S # {} => month \in 1..Len(a)
    BY <2>1, <2>2, <2>3
  <2>. QED
    BY <2>4 DEF S
<1>5. ends(a) # {} => RankMembership(b, month, p) = RankMembership(a, month, p)
  <2>. HIDE DEF month, ends
  <2>1. ends(a) # {} => \A x \in Tickers : MarketCap(b, month, x, p.limit) = MarketCap(a, month, x, p.limit)
    BY <1>4, SameCap
  <2>2. ends(a) # {} => [x \in Tickers |-> MarketCap(b, month, x, p.limit)] = [x \in Tickers |-> MarketCap(a, month, x, p.limit)]
    BY <2>1
  <2>. QED
    BY <2>2 DEF RankMembership
<1>6. /\ MembershipMask(a, p)[t] = (IF ends(a) = {} THEN {} ELSE RankMembership(a, month, p))
      /\ MembershipMask(b, p)[t] = (IF ends(b) = {} THEN {} ELSE RankMembership(b, Max(ends(b)), p))
  BY <1>1 DEF MembershipMask
<1>. HIDE DEF ends
<1>. QED
  BY <1>3, <1>5, <1>6

\* So the panels of a longer tape are longer panels,
LEMMA PanelsLonger ==
  ASSUME NEW a, NEW b, Longer(a, b), Len(b) = Len(a) + 1, CompaniesFit(b), NEW p, p.limit \in Nat
  PROVE  Longer(Panelled(a, p), Panelled(b, p)) /\ Len(Panelled(a, p)) = Len(a)
<1>. DEFINE row(days, member, score, t) ==
              [bars |-> days[t].bars, month |-> days[t].month, trend |-> days[t].trend,
               member |-> member, score |-> score]
            score(days, t) == [x \in Tickers |-> IF Flag(days, t, p) THEN Score(days, t, x, p) ELSE NaN]
            pa == Panelled(a, p)
            pb == Panelled(b, p)
<1>1. ASSUME NEW days, Len(days) \in Nat, DOMAIN days = 1..Len(days)
      PROVE  /\ IsSeq(Panelled(days, p)) /\ Len(Panelled(days, p)) = Len(days)
             /\ \A t \in 1..Len(days) : Panelled(days, p)[t] = row(days, MembershipMask(days, p)[t], score(days, t), t)
  <2>. DEFINE w == Panelled(days, p)
  <2>1. w \in Seq({w[t] : t \in DOMAIN days}) /\ Len(w) = Len(days)
    BY <1>1 DEF Panelled
  <2>2. \A t \in 1..Len(days) : w[t] = row(days, MembershipMask(days, p)[t], score(days, t), t)
    BY <1>1 DEF Panelled
  <2>. HIDE DEF w, row, score
  <2>. QED
    BY <2>1, <2>2 DEF IsSeq, w
<1>2. /\ Len(a) \in Nat /\ DOMAIN a = 1..Len(a) /\ Len(b) \in Nat /\ DOMAIN b = 1..Len(b) /\ Len(a) =< Len(b)
  BY LongerDays
<1>3. ASSUME NEW t \in 1..Len(a)
      PROVE  pb[t] = pa[t]
  <2>1. b[t] = a[t] /\ t \in 1..Len(b)
    BY <1>2, LongerDays
  <2>2. MembershipMask(b, p)[t] = MembershipMask(a, p)[t]
    BY SameMembers
  <2>3. score(b, t) = score(a, t)
    <3>1. Flag(b, t, p) = Flag(a, t, p)
      BY SameFlags
    <3>2. \A x \in Tickers : Score(b, t, x, p) = Score(a, t, x, p)
      BY SameScore
    <3>. QED
      BY <3>1, <3>2
  <2>4. pa[t] = row(a, MembershipMask(a, p)[t], score(a, t), t) /\ pb[t] = row(b, MembershipMask(b, p)[t], score(b, t), t)
    <3>. HIDE DEF row, score
    <3>. QED
      BY <1>1, <1>2, <2>1
  <2>. HIDE DEF score, pa, pb
  <2>. QED
    BY <2>1, <2>2, <2>3, <2>4
<1>4. IsSeq(pa) /\ IsSeq(pb) /\ Len(pa) = Len(a) /\ Len(pb) = Len(b)
  <2>. HIDE DEF row, score
  <2>. QED
    BY <1>1, <1>2
<1>. QED
  BY <1>2, <1>3, <1>4 DEF Longer

\* and a factor's weights are not revised.
LEMMA SameFactor ==
  ASSUME NEW a, NEW b, Longer(a, b), Len(b) =< Len(a) + 1, CompaniesFit(b), NEW p, p.limit \in Nat
  PROVE  /\ DOMAIN FactorFamily(a, p) = DOMAIN a
         /\ \A t \in DOMAIN a : FactorFamily(b, p)[t] = FactorFamily(a, p)[t]
<1>1. Len(a) \in Nat /\ Len(b) \in Nat /\ DOMAIN a = 1..Len(a) /\ Len(a) =< Len(b)
  BY LongerDays
<1>2. DOMAIN FactorFamily(a, p) = DOMAIN a
  BY DEF FactorFamily, FactorWeights, Panelled
<1>3. CASE Len(b) = Len(a)
  <2>1. PICK S : a \in Seq(S)
    BY DEF Longer, IsSeq
  <2>2. PICK T : b \in Seq(T)
    BY DEF Longer, IsSeq
  <2>3. \A t \in 1..Len(a) : b[t] = a[t]
    BY DEF Longer
  <2>4. a = b
    BY <1>3, <2>1, <2>2, <2>3
  <2>. QED
    BY <1>2, <2>4
<1>4. CASE Len(b) = Len(a) + 1
  <2>1. Longer(Panelled(a, p), Panelled(b, p)) /\ Len(Panelled(a, p)) = Len(a)
    BY <1>4, PanelsLonger
  <2>2. \A t \in 1..Len(a) : FactorWeights(Panelled(b, p), p)[t] = FactorWeights(Panelled(a, p), p)[t]
    BY <2>1, SameFactorWeights
  <2>. QED
    BY <1>1, <1>2, <2>2 DEF FactorFamily
<1>. QED
  BY <1>1, <1>3, <1>4

\* Numbers by the ends of finitely many periods.
Series(q) == IsFiniteSet(DOMAIN q) /\ \A e \in DOMAIN q : q[e] \in Int

\* What some of them add up to is a number.
LEMMA SeriesAddUp ==
  ASSUME NEW q, NEW S, IsFiniteSet(S), \A e \in S : q[e] \in Int
  PROVE  SumFunctionOnSet(q, S) \in Int
<1>1. \A D \in SUBSET S :
        /\ SumFunctionOnSet(q, D) \in Int
        /\ \A x \in S \ D : SumFunctionOnSet(q, D \cup {x}) = q[x] + SumFunctionOnSet(q, D)
  BY SumGrows
<1>. QED
  BY <1>1

\* The last reports of facts are such numbers.
LEMMA ReportsFit ==
  ASSUME NEW facts, NEW t, FactsUpTo(facts, t)
  PROVE  Series(LastReports(facts))
<1>. DEFINE ends == [f \in facts |-> f.end]
            of(e) == {f \in facts : f.end = e}
<1>1. DOMAIN LastReports(facts) = {ends[f] : f \in facts} /\ IsFiniteSet(facts)
  BY DEF LastReports, FactsUpTo
<1>2. IsFiniteSet(DOMAIN LastReports(facts))
  <2>. HIDE DEF ends
  <2>. QED
    BY <1>1, FiniteImage
<1>3. ASSUME NEW e \in DOMAIN LastReports(facts)
      PROVE  LastReports(facts)[e] \in Int
  <2>1. LastReports(facts)[e] = Latest(of(e)).val
    BY <1>3 DEF LastReports
  <2>2. of(e) # {} /\ of(e) \in SUBSET facts
    BY <1>1
  <2>3. \A f \in facts : f.end \in Int /\ f.filed \in Int /\ f.val \in Int
    BY DEF FactsUpTo
  <2>. DEFINE S == of(e)
  <2>. HIDE DEF S
  <2>4. IsFiniteSet(S) /\ S # {} /\ \A f \in S : f.end \in Int /\ f.filed \in Int /\ f.val \in Int
    BY <1>1, <2>2, <2>3, FS_Subset DEF S
  <2>5. Latest(S) \in S
    BY <2>4, LatestIs
  <2>. QED
    BY <2>1, <2>4, <2>5 DEF S
<1>. QED
  BY <1>2, <1>3 DEF Series

\* With their fourth quarters they still are.
LEMMA FourthFits ==
  ASSUME NEW q, NEW years, Series(q), Series(years)
  PROVE  Series(WithFourth(q, years))
<1>. DEFINE w == WithFourth(q, years)
<1>1. DOMAIN w \in SUBSET (DOMAIN q \cup DOMAIN years)
  BY DEF WithFourth
<1>2. IsFiniteSet(DOMAIN w)
  <2>1. IsFiniteSet(DOMAIN q \cup DOMAIN years)
    BY FS_Union DEF Series
  <2>. HIDE DEF w
  <2>. QED
    BY <1>1, <2>1, FS_Subset
<1>3. ASSUME NEW e \in DOMAIN w
      PROVE  w[e] \in Int
  <2>. DEFINE S == Inner(q, e)
              taken == SumOver(S, LAMBDA d : q[d])
  <2>1. w[e] = (IF e \in DOMAIN q THEN q[e] ELSE years[e] - taken)
    BY <1>3 DEF WithFourth
  <2>2. S \in SUBSET DOMAIN q /\ IsFiniteSet(S)
    BY FS_Subset DEF Inner, Series
  <2>3. taken \in Int
    <3>1. \A d \in S : q[d] \in Int
      BY <2>2 DEF Series
    <3>. HIDE DEF S
    <3>2. taken = SumFunctionOnSet(q, S)
      BY DEF SumOver, FoldSet, SumFunctionOnSet, FoldFunctionOnSet, MapThenFoldSet
    <3>3. SumFunctionOnSet(q, S) \in Int
      BY <2>2, <3>1, SeriesAddUp
    <3>. QED
      BY <3>2, <3>3
  <2>4. e \notin DOMAIN q => e \in DOMAIN years
    BY <1>1
  <2>. HIDE DEF taken, w
  <2>. QED
    BY <1>1, <2>1, <2>3, <2>4 DEF Series
<1>. QED
  BY <1>2, <1>3 DEF Series

\* A trailing year is a number.
LEMMA TrailingFits ==
  ASSUME NEW q, NEW years, Series(q), Series(years), Trailing12(q, years) # NaN
  PROVE  Trailing12(q, years).val \in Int
<1>. DEFINE w == WithFourth(q, years)
            last == Max(DOMAIN w \cup DOMAIN years)
            S == Chain(w)
            sum == SumOver(S, LAMBDA e : w[e])
<1>1. Series(w)
  BY FourthFits
<1>2. S \in SUBSET DOMAIN w
  BY DEF Chain
<1>3. sum \in Int
  <2>1. IsFiniteSet(S) /\ \A e \in S : w[e] \in Int
    BY <1>1, <1>2, FS_Subset DEF Series
  <2>. HIDE DEF S, w
  <2>2. sum = SumFunctionOnSet(w, S)
    BY DEF SumOver, FoldSet, SumFunctionOnSet, FoldFunctionOnSet, MapThenFoldSet
  <2>3. SumFunctionOnSet(w, S) \in Int
    BY <2>1, SeriesAddUp
  <2>. QED
    BY <2>2, <2>3
<1>4. \/ last \in DOMAIN years /\ Trailing12(q, years) = [end |-> last, val |-> years[last]]
      \/ Trailing12(q, years) = [end |-> last, val |-> sum]
  BY DEF Trailing12
<1>. HIDE DEF last, sum
<1>. QED
  BY <1>3, <1>4 DEF Series

\* What is known of a company on a day is a number.
LEMMA PanelsFit ==
  ASSUME NEW days, Len(days) \in Nat, DOMAIN days = 1..Len(days), CompaniesFit(days),
         NEW t \in DOMAIN days, NEW x \in Tickers, NEW concept
  PROVE  /\ TtmPanel(days, x, concept)[t] \in Int \cup {NaN}
         /\ PitPanel(days, x, concept, 0)[t] \in Int \cup {NaN}
         /\ LagPanel(days, x, concept)[t] \in Int \cup {NaN}
<1>. DEFINE facts(span) == Public(days, t, x, concept, span)
<1>1. \A span : FactsUpTo(facts(span), t)
  BY PublicFits
<1>2. TtmPanel(days, x, concept)[t] \in Int \cup {NaN}
  <2>. DEFINE state == Trailing12(LastReports(facts(1)), LastReports(facts(Year)))
  <2>1. TtmPanel(days, x, concept)[t] = (IF state # NaN /\ Fresh(t, state.end) THEN state.val ELSE NaN)
    BY DEF TtmPanel
  <2>2. state # NaN => state.val \in Int
    <3>1. Series(LastReports(facts(1))) /\ Series(LastReports(facts(Year)))
      BY <1>1, ReportsFit
    <3>. HIDE DEF facts
    <3>. QED
      BY <3>1, TrailingFits
  <2>. HIDE DEF state
  <2>. QED
    BY <2>1, <2>2
<1>3. PitPanel(days, x, concept, 0)[t] \in Int \cup {NaN}
  <2>. DEFINE S == facts(0)
              fact == Current(S, t)
  <2>1. PitPanel(days, x, concept, 0)[t] = Value(fact)
    BY DEF PitPanel
  <2>2. fact = NaN \/ (S # {} /\ fact = Latest(S))
    BY DEF Current
  <2>3. S # {} => Latest(S) \in S
    <3>1. \A f \in S : f.end \in Int /\ f.filed \in Int
      BY <1>1 DEF FactsUpTo
    <3>2. IsFiniteSet(S)
      BY <1>1 DEF FactsUpTo
    <3>. HIDE DEF S
    <3>. QED
      BY <3>1, <3>2, LatestIs
  <2>4. \A f \in S : f.val \in Int
    BY <1>1 DEF FactsUpTo
  <2>. HIDE DEF S, fact
  <2>. QED
    BY <2>1, <2>2, <2>3, <2>4 DEF Value
<1>4. LagPanel(days, x, concept)[t] \in Int \cup {NaN}
  <2>. DEFINE S == facts(0)
              known == LastReports(S)
              last == Latest(S).end
  <2>1. LagPanel(days, x, concept)[t]
          = (IF S # {} /\ Fresh(t, last) /\ last - Year \in DOMAIN known THEN known[last - Year] ELSE NaN)
    BY DEF LagPanel
  <2>2. Series(known)
    BY <1>1, ReportsFit
  <2>. HIDE DEF S, known, last
  <2>. QED
    BY <2>1, <2>2 DEF Series
<1>. QED
  BY <1>2, <1>3, <1>4

\* What a company is worth is a fraction.
LEMMA CapFits ==
  ASSUME NEW days, Len(days) \in Nat, DOMAIN days = 1..Len(days), CompaniesFit(days),
         NEW t \in DOMAIN days, NEW x \in Tickers, NEW limit \in Nat
  PROVE  Scored(MarketCap(days, t, x, limit))
<1>. DEFINE fact == SharesFact(days, t, x)
            shares == EffectiveShares(days, t, x)
            price == LastClose(days, t, x, limit)
            priced == {u \in t - limit..t : u \in DOMAIN days /\ Priced(days, u, x)}
            last == Max(priced)
            c == days[last].bars[x].close
            Q == SplitFactor(days, x, last)
<1>1. \A n \in Nat : n =< Len(days) => SplitFactor(days, x, n) \in Nat \ {0}
  <2>. SUFFICES ASSUME NEW n \in Nat, n =< Len(days)
                PROVE  SplitFactor(days, x, n) \in Nat \ {0}
    OBVIOUS
  <2>. DEFINE D == n + 1..Len(days)
              r == [u \in D |-> Ratio(days[u].split[x], 1)]
  <2>1. \A u \in D : days[u].split[x] \in Nat \ {0} /\ r[u] = Ratio(days[u].split[x], 1)
    BY DEF CompaniesFit
  <2>2. SplitTerms(days, x, n, D, r)
    <3>. HIDE DEF r
    <3>. QED
      BY <2>1 DEF SplitTerms
  <2>. HIDE DEF D, r
  <2>. QED
    BY <2>2, SplitsAreFold
<1>2. shares # NaN => shares \in Int
  <2>1. fact # NaN => fact.filed \in 1..t - 1 /\ fact.val \in Int
    BY SharesFactFits
  <2>2. shares = (IF fact = NaN THEN NaN ELSE fact.val * SplitFactor(days, x, fact.filed))
    BY DEF EffectiveShares
  <2>. HIDE DEF fact, shares
  <2>3. fact # NaN => fact.filed \in Nat /\ fact.filed =< Len(days)
    BY <2>1
  <2>4. fact # NaN => SplitFactor(days, x, fact.filed) \in Nat \ {0}
    BY <1>1, <2>3
  <2>. QED
    BY <2>1, <2>2, <2>4
<1>3. priced # {} => last \in DOMAIN days /\ Priced(days, last, x)
  <2>1. priced \in SUBSET (1..Len(days))
    OBVIOUS
  <2>2. \A u \in priced : u \in DOMAIN days /\ Priced(days, u, x)
    OBVIOUS
  <2>. HIDE DEF priced
  <2>. QED
    BY <2>1, <2>2, LastDay
<1>4. price # NaN => price = Ratio(c, Q) /\ c \in Int /\ Q \in Nat \ {0}
  <2>1. price # NaN => priced # {} /\ price = Ratio(c, Q)
    BY DEF LastClose, AdjustedClose
  <2>. HIDE DEF priced, last, price
  <2>2. priced # {} => Q \in Nat \ {0}
    BY <1>1, <1>3
  <2>3. priced # {} => c \in Int
    BY <1>3 DEF CompaniesFit
  <2>. QED
    BY <2>1, <2>2, <2>3
<1>5. MarketCap(days, t, x, limit) = (IF shares = NaN \/ price = NaN THEN NaN ELSE Times(Ratio(shares, 1), price))
  BY DEF MarketCap
<1>. HIDE DEF shares, price, c, Q
<1>6. CASE shares # NaN /\ price # NaN
  <2>1. Worth(Ratio(shares, 1), shares, 1) /\ Worth(price, c, Q)
    BY <1>2, <1>4, <1>6, RatioWorth
  <2>2. Worth(Times(Ratio(shares, 1), price), shares * c, 1 * Q)
    BY <2>1, TimesWorth
  <2>. QED
    BY <1>5, <1>6, <2>2 DEF Worth, Lowest, Scored
<1>. QED
  BY <1>5, <1>6 DEF Scored

\* What is a number or missing is a fraction or missing, and so is one per another.
LEMMA PerFits ==
  /\ \A v \in Int \cup {NaN} : Scored(Exactly(v))
  /\ \A a, b : Scored(a) /\ Scored(b) => Scored(Per(a, b))
<1>1. \A n \in Int, d \in Nat \ {0} : Scored(Ratio(n, d))
  BY RatioWorth DEF Worth, Lowest, Scored
<1>2. \A v \in Int \cup {NaN} : Scored(Exactly(v))
  BY <1>1 DEF Exactly, Scored
<1>3. ASSUME NEW a, NEW b, Scored(a), Scored(b)
      PROVE  Scored(Per(a, b))
  <2>1. CASE a = NaN \/ b = NaN
    BY <2>1 DEF Per, Scored
  <2>2. CASE a # NaN /\ b # NaN
    <3>1. a.n \in Int /\ a.d \in Nat \ {0} /\ b.n \in Int /\ b.d \in Nat \ {0}
      BY <1>3, <2>2 DEF Scored
    <3>2. CASE b.n =< 0
      BY <2>2, <3>2 DEF Per, Scored
    <3>3. CASE b.n > 0
      <4>. DEFINE n == a.n * b.d
                  d == a.d * b.n
      <4>1. n \in Int /\ d \in Nat \ {0}
        BY <3>1, <3>3
      <4>2. Per(a, b) = Ratio(n, d)
        BY <2>2, <3>1, <3>3 DEF Per
      <4>. HIDE DEF n, d
      <4>. QED
        BY <1>1, <4>1, <4>2
    <3>. QED
      BY <3>1, <3>2, <3>3
  <2>. QED
    BY <2>1, <2>2
<1>. QED
  BY <1>2, <1>3

\* A factor that scores companies by their books.
ScoresCompanies(p) == p.score \in {"value_ey", "profitability", "low_investment"}

\* So a company's score is one.
LEMMA ScoreFits ==
  ASSUME NEW days, Len(days) \in Nat, DOMAIN days = 1..Len(days), CompaniesFit(days),
         NEW t \in DOMAIN days, NEW x \in Tickers,
         NEW p, ScoresCompanies(p)
  PROVE  Scored(Score(days, t, x, p))
<1>. DEFINE earned == TtmPanel(days, x, p.concept)[t]
            assets == Exactly(PitPanel(days, x, "assets", 0)[t])
            before == Exactly(LagPanel(days, x, "assets")[t])
            growth == Per(assets, before)
            cap == MarketCap(days, t, x, 0)
<1>1. earned \in Int \cup {NaN} /\ Scored(assets) /\ Scored(before) /\ Scored(Exactly(earned))
  BY PanelsFit, PerFits
<1>2. Scored(cap)
  BY CapFits
<1>3. Scored(growth) /\ Scored(Per(Exactly(earned), cap)) /\ Scored(Per(Exactly(earned), assets))
  <2>. HIDE DEF earned, assets, before, cap
  <2>. QED
    BY <1>1, <1>2, PerFits DEF growth
<1>4. growth # NaN => Scored([growth EXCEPT !.n = -@])
  <2>1. growth # NaN => growth = [n |-> growth.n, d |-> growth.d]
    <3>1. growth # NaN => growth = Ratio(assets.n * before.d, assets.d * before.n)
      BY DEF Per
    <3>. HIDE DEF growth, assets, before
    <3>. QED
      BY <3>1 DEF Ratio
  <2>2. growth # NaN => growth.n \in Int /\ growth.d \in Nat \ {0}
    <3>. HIDE DEF growth
    <3>. QED
      BY <1>3 DEF Scored
  <2>. DEFINE g == growth
  <2>. HIDE DEF g
  <2>3. g # NaN => [g EXCEPT !.n = -@].n = -g.n /\ [g EXCEPT !.n = -@].d = g.d
    BY <2>1 DEF g
  <2>. QED
    BY <2>2, <2>3 DEF g, Scored
<1>. HIDE DEF earned, assets, before, growth, cap
<1>5. Score(days, t, x, p) =
        CASE p.score = "value_ey" ->
               IF earned = NaN THEN NaN ELSE IF earned > 0 THEN Per(Exactly(earned), cap) ELSE NaN
          [] p.score = "profitability"  -> Per(Exactly(earned), assets)
          [] p.score = "low_investment" -> IF growth = NaN THEN NaN ELSE [growth EXCEPT !.n = -@]
  BY DEF Score, earned, assets, before, growth, cap
<1>6. Scored(NaN)
  BY DEF Scored
<1>7. CASE p.score = "value_ey"
  BY <1>3, <1>5, <1>6, <1>7
<1>8. CASE p.score = "profitability"
  BY <1>3, <1>5, <1>8
<1>9. CASE p.score = "low_investment"
  BY <1>4, <1>5, <1>6, <1>9
<1>. QED
  BY <1>7, <1>8, <1>9 DEF ScoresCompanies

\* and so are those that a factor reads.
LEMMA PanelledFits ==
  ASSUME NEW days, Len(days) \in Nat, DOMAIN days = 1..Len(days), CompaniesFit(days),
         NEW t \in DOMAIN days, NEW x \in Tickers,
         NEW p, ScoresCompanies(p)
  PROVE  Scored(Panelled(days, p)[t].score[x])
<1>1. Panelled(days, p)[t].score[x] = IF Flag(days, t, p) THEN Score(days, t, x, p) ELSE NaN
  BY DEF Panelled
<1>2. Scored(Score(days, t, x, p))
  BY ScoreFits
<1>3. Scored(NaN)
  BY DEF Scored
<1>. QED
  BY <1>1, <1>2, <1>3

\* Counts of shares that are known of a company on a day.
Counts(t, x) ==
  AllClasses(Public(tape, t, x, "dei", 0)) \cup Public(tape, t, x, "gaap", 0)
    \cup Public(tape, t, x, "wavg", 1) \cup Public(tape, t, x, "wavg", Year)

\* Companies file the shares they have on the day of the filing.
CountsTrue ==
  Kind("factor") =>
    /\ CompaniesFit(tape)
    /\ \A t \in DOMAIN tape, x \in Tickers : \A fact \in Counts(t, x) : fact.val = TrueShares(x, fact.filed)

\* The count that is used is one of those.
LEMMA SharesFactCounts ==
  ASSUME IsTape, CompaniesFit(tape), NEW t \in DOMAIN tape, NEW x \in Tickers, SharesFact(tape, t, x) # NaN
  PROVE  SharesFact(tape, t, x) \in Counts(t, x)
<1>1. ASSUME NEW facts, FactsUpTo(facts, t), Current(facts, t) # NaN
      PROVE  Current(facts, t) \in facts
  <2>1. facts # {} /\ Current(facts, t) = Latest(facts)
    BY <1>1 DEF Current
  <2>2. IsFiniteSet(facts) /\ \A f \in facts : f.end \in Int /\ f.filed \in Int
    BY <1>1 DEF FactsUpTo
  <2>. QED
    BY <2>1, <2>2, LatestIs
<1>2. \A concept, span : FactsUpTo(Public(tape, t, x, concept, span), t)
  BY TapeDays, PublicFits
<1>3. FactsUpTo(AllClasses(Public(tape, t, x, "dei", 0)), t)
  BY <1>2, ClassesFit
<1>. QED
  BY <1>1, <1>2, <1>3 DEF SharesFact, Counts

-----------------------------------------------------------------------------
(* What a company earned in a year.                                        *)

\* The sum of what was earned in quarters, as that of a function.
LEMMA QuartersAddUp ==
  ASSUME NEW S, IsFiniteSet(S), NEW q, \A e \in S : q[e] = TrueQuarter(e)
  PROVE  SumOver(S, TrueQuarter) = SumFunctionOnSet(q, S)
<1>. DEFINE F(j) == [s \in SUBSET S |-> IF s = {} THEN 0 ELSE TrueQuarter(First(s)) + j[s \ {First(s)}]]
            iter == CHOOSE j : j = F(j)
<1>1. SumOver(S, TrueQuarter) = iter[S]
  BY DEF SumOver, FoldSet, MapThenFoldSet, First
<1>2. PICK i : Sums(i, q, S)
  BY SumsExist
<1>. DEFINE mine == [s \in SUBSET S |-> i[s]]
<1>3. mine = F(mine)
  <2>1. ASSUME NEW s \in SUBSET S
        PROVE  mine[s] = F(mine)[s]
    <3>1. s # {} => s \ {First(s)} \in SUBSET S /\ First(s) \in S
      BY DEF First
    <3>. QED
      BY <1>2, <3>1 DEF Sums
  <2>. QED
    BY <2>1
<1>4. iter = F(iter)
  <2>. HIDE DEF F, mine
  <2>. QED
    BY <1>3
<1>5. Sums(iter, q, S)
  <2>. HIDE DEF iter
  <2>1. \A s \in SUBSET S : s # {} => First(s) \in S
    BY DEF First
  <2>. QED
    BY <1>4, <2>1 DEF Sums
<1>6. SumFunctionOnSet(q, S) = iter[S]
  <2>. HIDE DEF iter
  <2>. QED
    BY <1>5, SumIsTabled
<1>. QED
  BY <1>1, <1>6

\* Quarters and years as they were, of the days up to n.
Reported(q, n, quarters, years) ==
  /\ n \in Nat /\ \A e \in 1..n : q[e] \in Int
  /\ Series(quarters) /\ Series(years)
  /\ \A e \in DOMAIN quarters : e \in 1..n /\ quarters[e] = q[e]
  /\ \A e \in DOMAIN years : e \in Year..n /\ years[e] = SumFunctionOnSet(q, e - Year + 1..e)

\* A fourth quarter that is derived is as it was.
LEMMA FourthIsTrue ==
  ASSUME NEW q, NEW n, NEW quarters, NEW years, Reported(q, n, quarters, years)
  PROVE  \A e \in DOMAIN WithFourth(quarters, years) :
           e \in 1..n /\ WithFourth(quarters, years)[e] = q[e] /\ (e \in DOMAIN quarters \/ e \in DOMAIN years)
<1>. DEFINE w == WithFourth(quarters, years)
<1>0. /\ n \in Nat /\ \A e \in 1..n : q[e] \in Int
      /\ IsFiniteSet(DOMAIN quarters)
      /\ \A e \in DOMAIN quarters : e \in 1..n /\ quarters[e] = q[e]
      /\ \A e \in DOMAIN years : e \in Year..n /\ years[e] = SumFunctionOnSet(q, e - Year + 1..e)
  BY DEF Reported, Series
<1>1. ASSUME NEW e \in DOMAIN w, e \notin DOMAIN quarters
      PROVE  e \in DOMAIN years /\ w[e] = q[e]
  <2>. DEFINE I == Inner(quarters, e)
              J == e - Year + 1..e - 1
              taken == SumOver(I, LAMBDA d : quarters[d])
  <2>1. e \in DOMAIN years /\ Cardinality(I) = Year - 1 /\ w[e] = years[e] - taken
    BY <1>1 DEF WithFourth
  <2>2. e \in Year..n /\ e \in Int /\ Year = 4
    BY <1>0, <2>1 DEF Year
  <2>3. I = J
    <3>1. I \in SUBSET J
      BY DEF Inner
    <3>2. IsFiniteSet(J) /\ Cardinality(J) = 3
      <4>. DEFINE a == e - Year + 1
                  b == e - 1
      <4>0. e \in Int
        BY <2>2
      <4>1. a = e - 3 /\ a \in Int /\ b \in Int /\ b - a + 1 = 3 /\ ~(a > b)
        <5>1. a = e - 3
          BY <4>0 DEF Year
        <5>2. b = e - 1
          OBVIOUS
        <5>. HIDE DEF a, b
        <5>. QED
          BY <4>0, <5>1, <5>2
      <4>2. J = a..b
        OBVIOUS
      <4>. HIDE DEF a, b, J
      <4>. QED
        BY <4>1, <4>2, FS_Interval
    <3>3. Cardinality(I) = 3
      BY <2>1, <2>2
    <3>. HIDE DEF I, J
    <3>. QED
      BY <3>1, <3>2, <3>3, FS_Subset
  <2>4. J \in SUBSET (1..n) /\ J \in SUBSET DOMAIN quarters /\ IsFiniteSet(J)
    <3>1. J \in SUBSET (1..n)
      BY <1>0, <2>2
    <3>2. J \in SUBSET DOMAIN quarters
      BY <2>3 DEF Inner
    <3>. HIDE DEF J
    <3>. QED
      BY <1>0, <3>1, <3>2, FS_Subset
  <2>5. taken = SumFunctionOnSet(q, J)
    <3>. HIDE DEF I, J
    <3>1. taken = SumFunctionOnSet(quarters, I)
      BY DEF SumOver, FoldSet, SumFunctionOnSet, FoldFunctionOnSet, MapThenFoldSet
    <3>2. \A d \in J : quarters[d] = q[d]
      BY <1>0, <2>4
    <3>. QED
      BY <2>3, <2>4, <3>1, <3>2, SameSum
  <2>6. SumFunctionOnSet(q, e - Year + 1..e) = q[e] + SumFunctionOnSet(q, J) /\ SumFunctionOnSet(q, J) \in Int
    <3>. DEFINE K == e - Year + 1..e
    <3>1. K = J \cup {e} /\ J \in SUBSET K /\ e \in K \ J /\ K \in SUBSET (1..n)
      BY <1>0, <2>2
    <3>2. IsFiniteSet(K)
      BY <2>2, FS_Interval
    <3>3. \A d \in K : q[d] \in Int
      BY <1>0, <3>1
    <3>. HIDE DEF K, J
    <3>4. \A D \in SUBSET K :
            /\ SumFunctionOnSet(q, D) \in Int
            /\ \A d \in K \ D : SumFunctionOnSet(q, D \cup {d}) = q[d] + SumFunctionOnSet(q, D)
      BY <3>2, <3>3, SumGrows
    <3>5. SumFunctionOnSet(q, K) = q[e] + SumFunctionOnSet(q, J) /\ SumFunctionOnSet(q, J) \in Int
      BY <3>1, <3>4
    <3>. QED
      BY <3>5 DEF K
  <2>7. q[e] \in Int
    BY <1>0, <2>2
  <2>. HIDE DEF taken, J, w
  <2>. QED
    BY <1>0, <2>1, <2>5, <2>6, <2>7
<1>2. ASSUME NEW e \in DOMAIN w, e \in DOMAIN quarters
      PROVE  w[e] = quarters[e]
  BY <1>2 DEF WithFourth
<1>3. \A e \in Year..n : e \in 1..n
  BY <1>0 DEF Year
<1>. HIDE DEF w
<1>4. ASSUME NEW e \in DOMAIN w
      PROVE  e \in 1..n /\ w[e] = q[e] /\ (e \in DOMAIN quarters \/ e \in DOMAIN years)
  <2>1. CASE e \in DOMAIN quarters
    BY <1>0, <1>2, <2>1
  <2>2. CASE e \notin DOMAIN quarters
    BY <1>0, <1>1, <1>3, <2>2
  <2>. QED
    BY <2>1, <2>2
<1>. QED
  BY <1>4 DEF w

\* And so is a trailing year.
LEMMA TrailingIsTrue ==
  ASSUME NEW q, NEW n, NEW quarters, NEW years, Reported(q, n, quarters, years),
         NEW state, state = Trailing12(quarters, years), state # NaN
  PROVE  /\ state.end \in DOMAIN quarters \cup DOMAIN years /\ state.end \in Year..n
         /\ state.val = SumFunctionOnSet(q, state.end - Year + 1..state.end)
<1>. DEFINE w == WithFourth(quarters, years)
            ends == DOMAIN w \cup DOMAIN years
            last == Max(ends)
            S == Chain(w)
            L == {e \in DOMAIN w : Cardinality({d \in DOMAIN w : d > e}) < Year}
<1>0. /\ n \in Nat /\ \A e \in 1..n : q[e] \in Int
      /\ \A e \in DOMAIN years : e \in Year..n /\ years[e] = SumFunctionOnSet(q, e - Year + 1..e)
  BY DEF Reported
<1>1. \A e \in DOMAIN w : e \in 1..n /\ w[e] = q[e] /\ (e \in DOMAIN quarters \/ e \in DOMAIN years)
  BY FourthIsTrue
<1>2. ends # {} /\ (last \in DOMAIN years => state = [end |-> last, val |-> years[last]])
      /\ (last \notin DOMAIN years => S # {} /\ state = [end |-> last, val |-> SumOver(S, LAMBDA e : w[e])])
  BY DEF Trailing12
<1>3. last \in ends /\ \A e \in ends : e =< last
  <2>1. ends \in SUBSET (1..n)
    <3>1. \A e \in Year..n : e \in 1..n
      BY <1>0 DEF Year
    <3>. HIDE DEF w
    <3>. QED
      BY <1>0, <1>1, <3>1
  <2>. HIDE DEF ends
  <2>. QED
    BY <1>0, <1>2, <2>1, LastDay
<1>4. CASE last \in DOMAIN years
  <2>1. state.end = last /\ state.val = years[last]
    BY <1>2, <1>4
  <2>. HIDE DEF last
  <2>. QED
    BY <1>0, <1>4, <2>1
<1>5. CASE last \notin DOMAIN years
  <2>1. last \in DOMAIN w
    BY <1>3, <1>5
  <2>2. \A e \in DOMAIN w : e =< last /\ e \in Int
    <3>. HIDE DEF w, last
    <3>. QED
      BY <1>1, <1>3 DEF ends
  <2>3. S = L /\ L = Max(L) - Year + 1..Max(L)
    BY <1>2, <1>5 DEF Chain
  <2>4. last \in L
    <3>1. {d \in DOMAIN w : d > last} = {}
      <4>. HIDE DEF w, last
      <4>. QED
        BY <2>1, <2>2
    <3>2. Cardinality({d \in DOMAIN w : d > last}) = 0
      BY <3>1, FS_EmptySet
    <3>. HIDE DEF w, last
    <3>. QED
      BY <2>1, <3>2 DEF Year
  <2>5. L \in SUBSET DOMAIN w
    OBVIOUS
  <2>6. Max(L) = last
    <3>. DEFINE m == Max(L)
    <3>1. L \in SUBSET (1..n)
      BY <1>1, <2>5
    <3>. HIDE DEF L, w, last
    <3>2. m \in L /\ \A e \in L : e =< m
      BY <1>0, <2>4, <3>1, LastDay
    <3>3. m =< last /\ last =< m /\ m \in Int /\ last \in Int
      BY <2>1, <2>2, <2>4, <2>5, <3>2
    <3>. QED
      BY <3>3
  <2>7. S = last - Year + 1..last /\ S \in SUBSET DOMAIN w
    BY <2>3, <2>5, <2>6
  <2>8. last \in 1..n /\ last \in DOMAIN quarters
    <3>. HIDE DEF w, last
    <3>. QED
      BY <1>1, <1>5, <2>1
  <2>9. last \in Year..n
    <3>1. last - Year + 1 \in S
      <4>. HIDE DEF S, last
      <4>. QED
        BY <2>7, <2>8 DEF Year
    <3>2. last - Year + 1 \in 1..n
      <4>. HIDE DEF S, last, w
      <4>. QED
        BY <1>1, <2>7, <3>1
    <3>. HIDE DEF last
    <3>. QED
      BY <1>0, <2>8, <3>2 DEF Year
  <2>10. SumOver(S, LAMBDA e : w[e]) = SumFunctionOnSet(q, S)
    <3>1. IsFiniteSet(S)
      <4>. HIDE DEF S, last
      <4>1. last - Year + 1 \in Int /\ last \in Int
        BY <2>9 DEF Year
      <4>. QED
        BY <2>7, <4>1, FS_Interval
    <3>2. \A e \in S : w[e] = q[e]
      <4>. HIDE DEF S, w
      <4>. QED
        BY <1>1, <2>7
    <3>. HIDE DEF S, w
    <3>3. SumOver(S, LAMBDA e : w[e]) = SumFunctionOnSet(w, S)
      BY DEF SumOver, FoldSet, SumFunctionOnSet, FoldFunctionOnSet, MapThenFoldSet
    <3>. QED
      BY <3>1, <3>2, <3>3, SameSum
  <2>11. state.end = last /\ state.val = SumOver(S, LAMBDA e : w[e])
    BY <1>2, <1>5
  <2>. HIDE DEF last, S, w
  <2>. QED
    BY <2>7, <2>8, <2>9, <2>10, <2>11
<1>. QED
  BY <1>4, <1>5

\* A company files what it earned in quarters and years that are over.
EarningsTrue ==
  Kind("facts") =>
    /\ FilingsFit(tape, 1) /\ \A e \in 1..Len(tape) : TrueQuarter(e) \in Int
    /\ \A u \in DOMAIN tape : \A f \in tape[u].filings[1] :
         f.concept = "earned" /\ f.span \in {1, Year} =>
           f.end \in f.span..u /\ f.val = SumOver(f.end - f.span + 1..f.end, TrueQuarter)

\* The last report of a period is a report of it.
LEMMA ReportIsFact ==
  ASSUME NEW facts, NEW t, FactsUpTo(facts, t), NEW e \in DOMAIN LastReports(facts)
  PROVE  \E f \in facts : f.end = e /\ f.val = LastReports(facts)[e]
<1>. DEFINE S == {f \in facts : f.end = e}
<1>1. LastReports(facts)[e] = Latest(S).val /\ S # {}
  BY DEF LastReports
<1>2. S \in SUBSET facts /\ IsFiniteSet(facts) /\ \A f \in facts : f.end \in Int /\ f.filed \in Int
  BY DEF FactsUpTo
<1>3. Latest(S) \in S
  <2>. HIDE DEF S
  <2>. QED
    BY <1>1, <1>2, FS_Subset, LatestIs
<1>. QED
  BY <1>1, <1>3

-----------------------------------------------------------------------------
(* The cache of prices.                                                    *)

\* What a cache would serve reaches back to its start, unless it is broken.
CacheFields == {"parquet", "csv", "start", "served"}
CacheFits(cache, broken) ==
  /\ DOMAIN cache = CacheFields /\ cache.start \in Int \cup {NaN}
  /\ Migrated(cache).parquet # NaN =>
       /\ Migrated(cache).parquet.from \in Int
       /\ broken \/ Migrated(cache).parquet.from =< IF cache.start = NaN THEN LegacyStart ELSE cache.start

\* Whether it is broken after a load.
BreaksBy(before, cache, load, after) ==
  IF Serves(cache, load) \/ load.end = "nothing" THEN after <=> before ELSE after <=> load.end = "killed"

\* What a load hands out is what it asked for.
HandsOut(frame, load, broken) ==
  frame # NaN => HasColumns(frame, load) /\ (frame.from =< load.start \/ broken)

\* Looking migrates at most, and what is migrated stays.
LEMMA LookKeeps ==
  ASSUME NEW cache, NEW load, DOMAIN cache = CacheFields
  PROVE  /\ DOMAIN Migrated(cache) = CacheFields /\ DOMAIN Looked(cache, load) = CacheFields
         /\ Migrated(cache).start = cache.start /\ Looked(cache, load).start = cache.start
         /\ Migrated(Looked(cache, load)).parquet = Migrated(cache).parquet
         /\ Migrated(cache).parquet = Migrated(Migrated(cache)).parquet
<1>. DEFINE old == Migrated(cache)
<1>1. /\ DOMAIN old = CacheFields /\ old.start = cache.start /\ old.csv = cache.csv
      /\ old.parquet = IF cache.parquet = NaN THEN cache.csv ELSE cache.parquet
  BY DEF Migrated, CacheFields
<1>2. Migrated(old).parquet = old.parquet
  <2>. HIDE DEF old
  <2>1. Migrated(old).parquet = IF old.parquet = NaN THEN old.csv ELSE old.parquet
    BY <1>1 DEF Migrated, CacheFields
  <2>. QED
    BY <1>1, <2>1
<1>. QED
  BY <1>1, <1>2 DEF Looked

\* A load keeps the cache so, and hands out what was asked for.
LEMMA LoadKeeps ==
  ASSUME NEW cache, NEW load, load.start \in Int, NEW before, NEW after,
         CacheFits(cache, before), BreaksBy(before, cache, load, after)
  PROVE  CacheFits(Load(cache, load), after) /\ HandsOut(Load(cache, load).served, load, after)
<1>. DEFINE old == Migrated(cache)
            seen == Looked(cache, load)
            new == Load(cache, load)
<1>1. DOMAIN cache = CacheFields /\ cache.start \in Int \cup {NaN} /\ LegacyStart \in Int /\ NaN \notin Int
  BY FramesAssumption DEF CacheFits, LegacyStart
<1>2. /\ DOMAIN old = CacheFields /\ DOMAIN seen = CacheFields
      /\ old.start = cache.start /\ seen.start = cache.start
      /\ Migrated(seen).parquet = old.parquet /\ Migrated(old).parquet = old.parquet
  BY <1>1, LookKeeps
<1>4. CASE Serves(cache, load)
  <2>. DEFINE start == IF cache.start = NaN THEN LegacyStart ELSE cache.start
  <2>1. new = [old EXCEPT !.start = start, !.served = old.parquet]
    <3>1. new = [old EXCEPT !.start = IF old.start = NaN THEN LegacyStart ELSE old.start, !.served = old.parquet]
      BY <1>4, <1>2 DEF Load, CacheFields
    <3>. HIDE DEF new, old
    <3>. QED
      BY <1>2, <3>1
  <2>2. old.parquet # NaN /\ HasColumns(old.parquet, load) /\ start =< load.start /\ start \in Int
    BY <1>1, <1>4 DEF Serves, CoversStart
  <2>3. old.parquet.from \in Int /\ (before \/ old.parquet.from =< start)
    BY <2>2 DEF CacheFits
  <2>4. before => after
    BY <1>4 DEF BreaksBy
  <2>. HIDE DEF old, new, start
  <2>5. /\ DOMAIN new = CacheFields /\ Migrated(new).parquet = old.parquet
        /\ new.start = start /\ new.served = old.parquet
    <3>1. /\ DOMAIN new = CacheFields /\ new.parquet = old.parquet
          /\ new.start = start /\ new.served = old.parquet
      BY <1>2, <2>1 DEF CacheFields
    <3>2. Migrated(new).parquet = new.parquet
      BY <2>2, <3>1 DEF Migrated
    <3>. QED
      BY <3>1, <3>2
  <2>6. CacheFits(new, after)
    BY <1>1, <2>2, <2>3, <2>4, <2>5 DEF CacheFits
  <2>7. HandsOut(new.served, load, after)
    BY <2>2, <2>3, <2>4, <2>5 DEF HandsOut
  <2>. QED
    BY <2>6, <2>7 DEF new
<1>5. CASE ~Serves(cache, load) /\ load.end = "nothing"
  <2>1. new = [seen EXCEPT !.served = NaN]
    BY <1>5 DEF Load
  <2>2. before => after
    BY <1>5 DEF BreaksBy
  <2>. HIDE DEF new, old, seen
  <2>3. DOMAIN new = CacheFields /\ new.start = cache.start /\ new.served = NaN
        /\ new.parquet = seen.parquet /\ new.csv = seen.csv
    BY <1>2, <2>1 DEF CacheFields
  <2>4. Migrated(new).parquet = old.parquet
    <3>1. Migrated(seen).parquet = IF seen.parquet = NaN THEN seen.csv ELSE seen.parquet
      BY <1>2 DEF Migrated, CacheFields
    <3>2. Migrated(new).parquet = IF new.parquet = NaN THEN new.csv ELSE new.parquet
      BY <2>3 DEF Migrated, CacheFields
    <3>. QED
      BY <1>2, <2>3, <3>1, <3>2
  <2>5. CacheFits(new, after)
    BY <1>1, <2>2, <2>3, <2>4 DEF CacheFits, old
  <2>6. HandsOut(new.served, load, after)
    BY <2>3 DEF HandsOut
  <2>. QED
    BY <2>5, <2>6 DEF new
<1>6. CASE ~Serves(cache, load) /\ load.end # "nothing"
  <2>. DEFINE frame == Downloaded(load)
              start == Recorded(seen.start, load)
              served == IF load.end = "done" THEN frame ELSE NaN
  <2>1. new = [seen EXCEPT !.parquet = frame, !.start = start, !.served = served]
    BY <1>2, <1>6 DEF Load, CacheFields
  <2>2. after <=> load.end = "killed"
    BY <1>6 DEF BreaksBy
  <2>3. frame.from = load.start /\ frame.bars /\ frame # NaN
    <3>1. frame \in [from : Int, bars : BOOLEAN]
      BY DEF Downloaded
    <3>. QED
      BY <3>1, CacheAssumption DEF Downloaded
  <2>4. start \in Int \cup {NaN} /\ (~after => start = load.start)
    <3>. HIDE DEF seen
    <3>. QED
      BY <1>1, <1>2, <2>2 DEF Recorded
  <2>5. served # NaN => served = frame
    OBVIOUS
  <2>. HIDE DEF new, seen, frame, start, served
  <2>6. DOMAIN new = CacheFields /\ new.parquet = frame /\ new.start = start /\ new.served = served
    BY <1>2, <2>1 DEF CacheFields
  <2>7. Migrated(new).parquet = frame
    BY <2>3, <2>6 DEF Migrated, CacheFields
  <2>8. CacheFits(new, after)
    BY <1>1, <2>3, <2>4, <2>6, <2>7 DEF CacheFits
  <2>9. HandsOut(new.served, load, after)
    BY <2>3, <2>5, <2>6 DEF HandsOut, HasColumns
  <2>. QED
    BY <2>8, <2>9 DEF new
<1>. QED
  BY <1>4, <1>5, <1>6

\* Caches up to a load.
CachesUpTo(after, n, days, p) ==
  /\ after[0] = [parquet |-> p.parquet, csv |-> p.csv, start |-> NaN, served |-> NaN]
  /\ \A t \in 1..n : after[t] = Load(after[t - 1], days[t])

\* There are such caches.
LEMMA CachesExist ==
  ASSUME NEW days, NEW p
  PROVE  \A n \in Nat : \E after : CachesUpTo(after, n, days, p)
<1>. DEFINE T == {n \in Nat : \E after : CachesUpTo(after, n, days, p)}
<1>1. 0 \in T
  <2>. DEFINE after == [t \in {0} |-> [parquet |-> p.parquet, csv |-> p.csv, start |-> NaN, served |-> NaN]]
  <2>1. CachesUpTo(after, 0, days, p)
    BY DEF CachesUpTo
  <2>. QED
    BY <2>1
<1>2. ASSUME NEW n \in T PROVE n + 1 \in T
  <2>1. PICK old : CachesUpTo(old, n, days, p)
    OBVIOUS
  <2>. DEFINE new == [t \in 0..n + 1 |-> IF t =< n THEN old[t] ELSE Load(old[n], days[t])]
  <2>2. new[0] = [parquet |-> p.parquet, csv |-> p.csv, start |-> NaN, served |-> NaN]
    BY <2>1 DEF CachesUpTo
  <2>3. ASSUME NEW t \in 1..n + 1
        PROVE  new[t] = Load(new[t - 1], days[t])
    <3>1. t - 1 \in 0..n /\ new[t - 1] = old[t - 1]
      OBVIOUS
    <3>2. CASE t =< n
      BY <2>1, <3>1, <3>2 DEF CachesUpTo
    <3>3. CASE t = n + 1
      BY <3>1, <3>3
    <3>. QED
      BY <3>2, <3>3
  <2>. HIDE DEF new
  <2>4. CachesUpTo(new, n + 1, days, p)
    BY <2>2, <2>3 DEF CachesUpTo
  <2>. QED
    BY <2>4
<1>. HIDE DEF T
<1>3. \A n \in Nat : n \in T
  <2>1. T \in SUBSET Nat
    BY DEF T
  <2>. QED
    BY <1>1, <1>2, <2>1, SetInduction
<1>. QED
  BY <1>3 DEF T

\* And they are what the loads make of a cache.
LEMMA CacheSteps ==
  ASSUME NEW days, Len(days) \in Nat, NEW p
  PROVE  CachesUpTo(CacheAfter(days, p), Len(days), days, p)
<1>1. PICK caches : CachesUpTo(caches, Len(days), days, p)
  BY CachesExist
<1>. DEFINE B(f) == [t \in 0..Len(days) |->
                       IF t = 0 THEN [parquet |-> p.parquet, csv |-> p.csv, start |-> NaN, served |-> NaN]
                       ELSE Load(f[t - 1], days[t])]
            h == [t \in 0..Len(days) |-> caches[t]]
            after == CHOOSE f : f = B(f)
<1>2. h = B(h)
  <2>1. ASSUME NEW t \in 0..Len(days)
        PROVE  h[t] = IF t = 0 THEN [parquet |-> p.parquet, csv |-> p.csv, start |-> NaN, served |-> NaN]
                      ELSE Load(h[t - 1], days[t])
    <3>1. CASE t = 0
      BY <1>1, <3>1 DEF CachesUpTo
    <3>2. CASE t \in 1..Len(days)
      <4>1. t - 1 \in 0..Len(days)
        BY <3>2
      <4>. QED
        BY <1>1, <3>2, <4>1 DEF CachesUpTo
    <3>. QED
      BY <3>1, <3>2
  <2>. QED
    BY <2>1
<1>3. CacheAfter(days, p) = [t \in 0..Len(days) |-> after[t]]
  BY DEF CacheAfter
<1>4. after = B(after)
  <2>. HIDE DEF B, h
  <2>. QED
    BY <1>2
<1>5. \A t \in 0..Len(days) : CacheAfter(days, p)[t] = after[t]
  <2>. HIDE DEF after
  <2>. QED
    BY <1>3
<1>6. after[0] = [parquet |-> p.parquet, csv |-> p.csv, start |-> NaN, served |-> NaN]
      /\ \A t \in 1..Len(days) : after[t] = Load(after[t - 1], days[t])
  <2>. HIDE DEF after
  <2>. QED
    BY <1>4
<1>. HIDE DEF after
<1>7. \A t \in 1..Len(days) : t - 1 \in 0..Len(days) /\ t \in 0..Len(days)
  OBVIOUS
<1>. QED
  BY <1>5, <1>6, <1>7 DEF CachesUpTo

\* Days that loads are asked for are numbers.
LoadsFit == Kind("cache") => \A t \in DOMAIN tape : tape[t].start \in Int

\* The loads up to one that fetch, and whether the last of them was killed.
Fetches(cache, t) == {u \in 1..t : ~Serves(cache[u - 1], tape[u]) /\ tape[u].end # "nothing"}
Broken(cache, t) == Fetches(cache, t) # {} /\ tape[Max(Fetches(cache, t))].end = "killed"

\* Only the last of them counts.
LEMMA BreaksLast ==
  ASSUME NEW cache, NEW t \in Nat \ {0}
  PROVE  BreaksBy(Broken(cache, t - 1), cache[t - 1], tape[t], Broken(cache, t))
<1>. DEFINE before == Fetches(cache, t - 1)
            now == Fetches(cache, t)
            fetch == ~Serves(cache[t - 1], tape[t]) /\ tape[t].end # "nothing"
<1>1. 1..t = 1..(t - 1) \cup {t}
  OBVIOUS
<1>2. now = IF fetch THEN before \cup {t} ELSE before
  BY <1>1 DEF Fetches
<1>3. ASSUME fetch
      PROVE  now # {} /\ Max(now) = t
  <2>1. now \in SUBSET (1..t) /\ t \in now /\ t \in Nat
    BY <1>2, <1>3 DEF Fetches
  <2>. HIDE DEF now
  <2>2. Max(now) \in now /\ \A u \in now : u =< Max(now)
    BY <2>1, LastDay
  <2>. DEFINE last == Max(now)
  <2>3. last \in 1..t /\ t =< last
    BY <2>1, <2>2
  <2>. HIDE DEF last
  <2>4. last = t
    BY <2>1, <2>3
  <2>. QED
    BY <2>1, <2>4 DEF last
<1>4. ~fetch => now = before
  BY <1>2
<1>. HIDE DEF before, now
<1>5. /\ Broken(cache, t) <=> (now # {} /\ tape[Max(now)].end = "killed")
      /\ Broken(cache, t - 1) <=> (before # {} /\ tape[Max(before)].end = "killed")
  BY DEF Broken, now, before
<1>. QED
  BY <1>3, <1>4, <1>5 DEF BreaksBy

-----------------------------------------------------------------------------
(* The overlay's null.                                                     *)

\* Where the spells of a sequence begin, and where they end.
SpellStarts(f) == {k \in DOMAIN f : k = 1 \/ f[k] # f[k - 1]}

SpellCount(f) == Cardinality(SpellStarts(f))

SpellEnds(f, n) ==
  [i \in 0..SpellCount(f) |->
     IF i = 0 THEN 0 ELSE IF i = SpellCount(f) THEN n ELSE InOrder(SpellStarts(f))[i + 1] - 1]

\* States on each of some days.
IsStates(f, n) == n \in Nat \ {0} /\ DOMAIN f = 1..n /\ \A k \in 1..n : f[k] \in BOOLEAN

\* Any states are spells that take turns.
LEMMA OwnSpells ==
  ASSUME NEW f, NEW n, IsStates(f, n)
  PROVE  /\ SpellCount(f) \in Nat \ {0} /\ SpellCount(f) =< n /\ IsFiniteSet(SpellStarts(f))
         /\ Rises(InOrder(SpellStarts(f)), SpellCount(f), SpellStarts(f))
         /\ Spelled(f, SpellEnds(f, n), SpellCount(f), f[1])
         /\ SpellEnds(f, n)[SpellCount(f)] = n
         /\ \A i \in 1..SpellCount(f) : InOrder(SpellStarts(f))[i] = SpellEnds(f, n)[i - 1] + 1
<1>. DEFINE S == SpellStarts(f)
            m == SpellCount(f)
            s == InOrder(S)
            e == SpellEnds(f, n)
<1>1. n \in Nat /\ n # 0 /\ DOMAIN f = 1..n /\ (\A k \in 1..n : f[k] \in BOOLEAN) /\ 1 \in 1..n
  BY DEF IsStates
<1>2. S \in SUBSET (1..n) /\ 1 \in S
  BY <1>1 DEF SpellStarts
<1>3. \A k \in 2..n : k \in S <=> f[k] # f[k - 1]
  BY <1>1 DEF SpellStarts
<1>. HIDE DEF S
<1>4. IsFiniteSet(S) /\ m \in Nat /\ m =< n /\ m # 0
  <2>1. IsFiniteSet(1..n) /\ Cardinality(1..n) = n
    BY <1>1, FS_Interval
  <2>2. IsFiniteSet(S) /\ Cardinality(S) =< n /\ Cardinality(S) \in Nat
    BY <1>2, <2>1, FS_Subset, FS_CardinalityType
  <2>3. Cardinality(S) # 0
    BY <1>2, <2>2, FS_EmptySet
  <2>. QED
    BY <2>2, <2>3 DEF SpellCount, S
<1>5. Rises(s, m, S)
  <2>1. S \in SUBSET Int
    BY <1>1, <1>2
  <2>. QED
    BY <1>4, <2>1, InOrderRises DEF SpellCount, S
<1>6. e[0] = 0 /\ e[m] = n /\ \A i \in 1..m : i # m => e[i] = s[i + 1] - 1
  BY <1>4 DEF SpellEnds, S
<1>. HIDE DEF m, s, e
<1>7. /\ \A i \in 1..m : s[i] \in S /\ s[i] \in 1..n
      /\ \A i, j \in 1..m : i < j => s[i] < s[j]
      /\ \A k \in S : \E i \in 1..m : s[i] = k
  BY <1>2, <1>5 DEF Rises
<1>8. s[1] = 1
  <2>1. PICK i \in 1..m : s[i] = 1
    BY <1>2, <1>7
  <2>2. 1 \in 1..m /\ (i = 1 \/ 1 < i)
    BY <1>4
  <2>3. CASE 1 < i
    <3>1. s[1] < s[i] /\ s[1] \in 1..n
      BY <1>7, <2>2, <2>3
    <3>. QED
      BY <1>1, <2>1, <3>1
  <2>. QED
    BY <2>1, <2>2, <2>3
<1>9. \A i \in 1..m : s[i] = e[i - 1] + 1
  <2>. SUFFICES ASSUME NEW i \in 1..m PROVE s[i] = e[i - 1] + 1
    OBVIOUS
  <2>1. CASE i = 1
    BY <1>6, <1>8, <2>1
  <2>2. CASE i # 1
    <3>1. i - 1 \in 1..m /\ i - 1 # m /\ (i - 1) + 1 = i
      BY <1>4, <2>2
    <3>2. e[i - 1] = s[i] - 1 /\ s[i] \in 1..n
      BY <1>6, <1>7, <3>1
    <3>. QED
      BY <1>1, <3>2
  <2>. QED
    BY <2>1, <2>2
<1>10. \A i \in 1..m : e[i] \in 1..n /\ s[i] =< e[i] /\ \A k \in S : s[i] < k => e[i] < k
  <2>. SUFFICES ASSUME NEW i \in 1..m
                PROVE  e[i] \in 1..n /\ s[i] =< e[i] /\ \A k \in S : s[i] < k => e[i] < k
    OBVIOUS
  <2>1. s[i] \in 1..n
    BY <1>7
  <2>2. CASE i = m
    <3>1. ASSUME NEW k \in S, s[i] < k PROVE FALSE
      <4>1. PICK j \in 1..m : s[j] = k
        BY <1>7
      <4>2. j < i \/ j = i
        BY <1>4, <2>2
      <4>3. ~(j < i)
        <5>1. ASSUME j < i PROVE FALSE
          <6>1. s[j] < s[i] /\ s[j] \in 1..n
            BY <1>7, <5>1
          <6>. QED
            BY <1>1, <2>1, <3>1, <4>1, <6>1
        <5>. QED
          BY <5>1
      <4>. QED
        BY <2>1, <3>1, <4>1, <4>2, <4>3
    <3>2. e[i] = n /\ n \in 1..n /\ s[i] =< n
      BY <1>1, <1>6, <2>1, <2>2
    <3>. QED
      BY <3>1, <3>2
  <2>3. CASE i # m
    <3>1. i + 1 \in 1..m /\ i < i + 1
      BY <1>4, <2>3
    <3>2. e[i] = s[i + 1] - 1 /\ s[i] < s[i + 1] /\ s[i + 1] \in 1..n
      BY <1>6, <1>7, <2>3, <3>1
    <3>3. ASSUME NEW k \in S, s[i] < k PROVE s[i + 1] =< k
      <4>1. PICK j \in 1..m : s[j] = k
        BY <1>7
      <4>2. j = i \/ j < i \/ j = i + 1 \/ i + 1 < j
        BY <1>4
      <4>3. j < i => s[j] < s[i]
        BY <1>7
      <4>4. i + 1 < j => s[i + 1] < s[j]
        BY <1>7, <3>1
      <4>5. s[j] \in 1..n
        BY <1>7
      <4>. DEFINE a == s[i]
                  b == s[i + 1]
                  c == s[j]
      <4>6. a \in 1..n /\ b \in 1..n /\ c \in 1..n /\ a < k /\ c = k
        BY <2>1, <3>2, <3>3, <4>1, <4>5
      <4>7. (j = i => c = a) /\ (j < i => c < a) /\ (j = i + 1 => c = b) /\ (i + 1 < j => b < c)
        BY <4>3, <4>4
      <4>. HIDE DEF a, b, c
      <4>8. b =< k
        BY <1>1, <4>2, <4>6, <4>7
      <4>. QED
        BY <4>8 DEF b
    <3>4. \A k \in S : k \in Int
      BY <1>1, <1>2
    <3>. QED
      BY <1>1, <2>1, <3>2, <3>3, <3>4
  <2>. QED
    BY <2>2, <2>3
<1>11. ASSUME NEW i \in 1..m
       PROVE  \A p \in s[i]..e[i] : f[p] = f[s[i]]
  <2>. DEFINE T == {q \in Nat : s[i] + q =< e[i] => f[s[i] + q] = f[s[i]]}
  <2>1. s[i] \in 1..n /\ e[i] \in 1..n
    BY <1>7, <1>10
  <2>2. 0 \in T
    <3>1. s[i] + 0 = s[i]
      BY <2>1
    <3>. QED
      BY <3>1
  <2>3. ASSUME NEW q \in T PROVE q + 1 \in T
    <3>1. q \in Nat /\ s[i] + (q + 1) = s[i] + q + 1
      BY <2>1
    <3>. SUFFICES ASSUME s[i] + q + 1 =< e[i] PROVE f[s[i] + q + 1] = f[s[i]]
      BY <3>1
    <3>. DEFINE k == s[i] + q + 1
    <3>2. k \in 2..n /\ k - 1 = s[i] + q /\ s[i] + q =< e[i] /\ s[i] < k /\ k =< e[i]
      <4>. HIDE DEF T
      <4>. QED
        BY <1>1, <2>1, <3>1
    <3>3. ~(k \in S)
      <4>. HIDE DEF k
      <4>1. k \in S => e[i] < k
        BY <1>10, <3>2
      <4>. QED
        BY <1>1, <2>1, <3>2, <4>1
    <3>4. f[k] = f[k - 1]
      <4>. HIDE DEF k
      <4>. QED
        BY <1>3, <3>2, <3>3
    <3>. QED
      BY <3>2, <3>4
  <2>. HIDE DEF T
  <2>4. \A q \in Nat : q \in T
    <3>1. T \in SUBSET Nat
      BY DEF T
    <3>. QED
      BY <2>2, <2>3, <3>1, SetInduction
  <2>. SUFFICES ASSUME NEW p \in s[i]..e[i] PROVE f[p] = f[s[i]]
    OBVIOUS
  <2>5. p - s[i] \in Nat /\ s[i] + (p - s[i]) = p /\ p =< e[i]
    BY <2>1
  <2>. QED
    BY <2>4, <2>5 DEF T
<1>12. \A i \in 1..m : f[s[i]] = Turn(f[1], i)
  <2>. DEFINE T == {q \in Nat : q + 1 =< m => f[s[q + 1]] = Turn(f[1], q + 1)}
  <2>0. f[1] \in BOOLEAN
    BY <1>1
  <2>1. 0 \in T
    <3>1. Turn(f[1], 1) = f[1]
      BY <2>0 DEF Turn
    <3>. QED
      BY <1>8, <3>1
  <2>2. ASSUME NEW q \in T PROVE q + 1 \in T
    <3>. DEFINE i == q + 1
    <3>. SUFFICES ASSUME i + 1 =< m PROVE f[s[i + 1]] = Turn(f[1], i + 1)
      OBVIOUS
    <3>1. q \in Nat
      OBVIOUS
    <3>2. i \in 1..m /\ i + 1 \in 1..m /\ i < i + 1 /\ i # m /\ i =< m
      BY <1>4, <3>1
    <3>3. f[s[i]] = Turn(f[1], i)
      BY <3>2
    <3>4. Turn(f[1], i + 1) = ~Turn(f[1], i)
      <4>1. (i + 1) % 2 = 1 <=> ~(i % 2 = 1)
        BY <3>1
      <4>. QED
        BY <2>0, <4>1 DEF Turn
    <3>. HIDE DEF i, T
    <3>5. s[i + 1] = e[i] + 1 /\ e[i] \in s[i]..e[i] /\ e[i] \in 1..n /\ s[i + 1] \in S /\ s[i + 1] \in 1..n
      <4>1. s[i + 1] = e[i] + 1
        <5>1. (i + 1) - 1 = i
          BY <3>2
        <5>. QED
          BY <1>9, <3>2, <5>1
      <4>2. s[i] \in 1..n /\ e[i] \in 1..n /\ s[i] =< e[i] /\ s[i + 1] \in S /\ s[i + 1] \in 1..n
        BY <1>7, <1>10, <3>2
      <4>. QED
        BY <1>1, <4>1, <4>2
    <3>6. s[i + 1] \in 2..n /\ s[i + 1] - 1 = e[i]
      BY <1>1, <3>5
    <3>7. f[s[i + 1]] # f[e[i]]
      BY <1>3, <3>5, <3>6
    <3>8. f[e[i]] = f[s[i]]
      BY <1>11, <3>2, <3>5
    <3>9. f[s[i + 1]] \in BOOLEAN /\ f[e[i]] \in BOOLEAN
      BY <1>1, <3>5
    <3>. QED
      BY <3>3, <3>4, <3>7, <3>8, <3>9
  <2>. HIDE DEF T
  <2>3. \A q \in Nat : q \in T
    <3>1. T \in SUBSET Nat
      BY DEF T
    <3>. QED
      BY <2>1, <2>2, <3>1, SetInduction
  <2>. SUFFICES ASSUME NEW i \in 1..m PROVE f[s[i]] = Turn(f[1], i)
    OBVIOUS
  <2>4. i - 1 \in Nat /\ (i - 1) + 1 = i /\ i =< m
    BY <1>4
  <2>. QED
    BY <2>3, <2>4 DEF T
<1>13. \A i \in 1..m : e[i - 1] \in Nat /\ e[i] \in Nat /\ e[i - 1] < e[i]
  <2>. SUFFICES ASSUME NEW i \in 1..m PROVE e[i - 1] \in Nat /\ e[i] \in Nat /\ e[i - 1] < e[i]
    OBVIOUS
  <2>1. e[i] \in 1..n /\ s[i] =< e[i] /\ s[i] = e[i - 1] + 1 /\ s[i] \in 1..n
    BY <1>7, <1>9, <1>10
  <2>2. e[i - 1] \in Nat
    <3>1. i = 1 \/ i - 1 \in 1..m
      BY <1>4
    <3>2. i = 1 => e[i - 1] = 0
      BY <1>6
    <3>3. i - 1 \in 1..m => e[i - 1] \in 1..n
      BY <1>10
    <3>. QED
      BY <1>1, <3>1, <3>2, <3>3
  <2>. QED
    BY <1>1, <2>1, <2>2
<1>14. \A i \in 1..m : \A p \in e[i - 1] + 1..e[i] : f[p] = Turn(f[1], i)
  <2>. SUFFICES ASSUME NEW i \in 1..m, NEW p \in e[i - 1] + 1..e[i] PROVE f[p] = Turn(f[1], i)
    OBVIOUS
  <2>1. p \in s[i]..e[i]
    BY <1>9
  <2>. QED
    BY <1>11, <1>12, <2>1
<1>15. Spelled(f, e, m, f[1])
  BY <1>1, <1>4, <1>6, <1>13, <1>14 DEF Spelled
<1>. QED
  BY <1>4, <1>5, <1>6, <1>9, <1>15 DEF m, s, e, S

\* How many spells of a kind there are, and which the jth of them is.
CountOf(m, first, kind) == IF kind = first THEN (m + 1) \div 2 ELSE m \div 2
PlaceOf(first, kind, j) == IF kind = first THEN 2 * j - 1 ELSE 2 * j

\* Every other spell is of a kind.
LEMMA KindsAlternate ==
  ASSUME NEW m \in Nat, NEW first \in BOOLEAN, NEW kind \in BOOLEAN
  PROVE  /\ CountOf(m, first, kind) \in Nat /\ CountOf(m, first, kind) =< m
         /\ \A j \in 1..CountOf(m, first, kind) :
              /\ PlaceOf(first, kind, j) \in 1..m
              /\ Turn(first, PlaceOf(first, kind, j)) = kind
              /\ (PlaceOf(first, kind, j) + 1) \div 2 = j
         /\ \A i \in 1..m : Turn(first, i) = kind =>
              /\ (i + 1) \div 2 \in 1..CountOf(m, first, kind)
              /\ PlaceOf(first, kind, (i + 1) \div 2) = i
         /\ \A j, k \in Nat : j < k => PlaceOf(first, kind, j) < PlaceOf(first, kind, k)
<1>1. CASE kind = first
  <2>1. \A i \in Nat : Turn(first, i) = kind <=> i % 2 = 1
    BY <1>1 DEF Turn
  <2>2. CountOf(m, first, kind) = (m + 1) \div 2 /\ \A j \in Nat : PlaceOf(first, kind, j) = 2 * j - 1
    BY <1>1 DEF CountOf, PlaceOf
  <2>3. \A j \in 1..(m + 1) \div 2 : 2 * j - 1 \in 1..m /\ (2 * j - 1) % 2 = 1 /\ ((2 * j - 1) + 1) \div 2 = j
    OBVIOUS
  <2>4. \A i \in 1..m : i % 2 = 1 => (i + 1) \div 2 \in 1..(m + 1) \div 2 /\ 2 * ((i + 1) \div 2) - 1 = i
    OBVIOUS
  <2>5. (m + 1) \div 2 \in Nat /\ (m + 1) \div 2 =< m
    OBVIOUS
  <2>6. \A j \in 1..(m + 1) \div 2 : Turn(first, 2 * j - 1) = kind
    <3>1. \A j \in 1..(m + 1) \div 2 : 2 * j - 1 \in Nat
      BY <2>3
    <3>. QED
      BY <2>1, <2>3, <3>1
  <2>7. \A i \in 1..m : Turn(first, i) = kind => i % 2 = 1 /\ (i + 1) \div 2 \in Nat
    BY <2>1
  <2>. QED
    BY <2>2, <2>3, <2>4, <2>5, <2>6, <2>7
<1>2. CASE kind # first
  <2>1. \A i \in Nat : Turn(first, i) = kind <=> i % 2 = 0
    <3>1. \A i \in Nat : i % 2 = 0 <=> ~(i % 2 = 1)
      OBVIOUS
    <3>. QED
      BY <1>2, <3>1 DEF Turn
  <2>2. CountOf(m, first, kind) = m \div 2 /\ \A j \in Nat : PlaceOf(first, kind, j) = 2 * j
    BY <1>2 DEF CountOf, PlaceOf
  <2>3. \A j \in 1..m \div 2 : 2 * j \in 1..m /\ (2 * j) % 2 = 0 /\ (2 * j + 1) \div 2 = j
    OBVIOUS
  <2>4. \A i \in 1..m : i % 2 = 0 => (i + 1) \div 2 \in 1..m \div 2 /\ 2 * ((i + 1) \div 2) = i
    OBVIOUS
  <2>5. m \div 2 \in Nat /\ m \div 2 =< m
    OBVIOUS
  <2>6. \A j \in 1..m \div 2 : Turn(first, 2 * j) = kind
    <3>1. \A j \in 1..m \div 2 : 2 * j \in Nat
      BY <2>3
    <3>. QED
      BY <2>1, <2>3, <3>1
  <2>7. \A i \in 1..m : Turn(first, i) = kind => i % 2 = 0 /\ (i + 1) \div 2 \in Nat
    BY <2>1
  <2>. QED
    BY <2>2, <2>3, <2>4, <2>5, <2>6, <2>7
<1>. QED
  BY <1>1, <1>2

\* The lengths of the spells of a kind are those of every other spell.
LEMMA OwnLengths ==
  ASSUME NEW f, NEW n, IsStates(f, n), NEW kind \in BOOLEAN
  PROVE  LET m == SpellCount(f)
             e == SpellEnds(f, n)
             place(j) == PlaceOf(f[1], kind, j)
         IN  /\ DOMAIN SpellLengths(f, kind) = 1..CountOf(m, f[1], kind)
             /\ Len(SpellLengths(f, kind)) = CountOf(m, f[1], kind)
             /\ \A j \in 1..CountOf(m, f[1], kind) :
                  SpellLengths(f, kind)[j] = e[place(j)] - e[place(j) - 1]
<1>. DEFINE S == SpellStarts(f)
            m == SpellCount(f)
            s == InOrder(S)
            e == SpellEnds(f, n)
            c == CountOf(m, f[1], kind)
            place(j) == PlaceOf(f[1], kind, j)
            own == {k \in S : f[k] = kind}
            mine == InOrder(own)
            next(k) == Min({l \in S : l > k} \cup {Len(f) + 1})
            t == [j \in 1..c |-> s[place(j)]]
<1>1. /\ n \in Nat \ {0} /\ DOMAIN f = 1..n /\ (\A k \in 1..n : f[k] \in BOOLEAN) /\ Len(f) = n
      /\ f[1] \in BOOLEAN /\ S \in SUBSET (1..n)
  BY DEF IsStates, SpellStarts
<1>2. /\ m \in Nat \ {0} /\ IsFiniteSet(S) /\ Rises(s, m, S) /\ Spelled(f, e, m, f[1]) /\ e[m] = n
      /\ \A i \in 1..m : s[i] = e[i - 1] + 1
  BY OwnSpells
<1>3. SpellLengths(f, kind) = [j \in DOMAIN mine |-> next(mine[j]) - mine[j]]
  BY DEF SpellLengths, SpellStarts
<1>. HIDE DEF S, m, s, e
<1>4. /\ c \in Nat /\ c =< m
      /\ \A j \in 1..c : place(j) \in 1..m /\ Turn(f[1], place(j)) = kind
      /\ \A i \in 1..m : Turn(f[1], i) = kind => (i + 1) \div 2 \in 1..c /\ place((i + 1) \div 2) = i
      /\ \A j, k \in Nat : j < k => place(j) < place(k)
  <2>1. m \in Nat /\ f[1] \in BOOLEAN
    BY <1>1, <1>2
  <2>. QED
    BY <2>1, KindsAlternate
<1>. HIDE DEF c, place
<1>5. /\ \A i \in 1..m : s[i] \in S /\ s[i] \in 1..n
      /\ \A i, j \in 1..m : i < j => s[i] < s[j]
      /\ \A k \in S : \E i \in 1..m : s[i] = k
  BY <1>1, <1>2 DEF Rises
<1>6. \A i \in 1..m : e[i - 1] \in Nat /\ e[i] \in Nat /\ e[i - 1] < e[i] /\ e[i] \in 1..n
  <2>1. \A i \in 1..m : e[i - 1] \in Nat /\ e[i] \in Nat /\ e[i - 1] < e[i]
    BY <1>2 DEF Spelled
  <2>2. \A i \in 1..m : e[i] =< e[m]
    <3>1. \A i \in 1..m : i \in 0..m /\ m \in 0..m /\ (i = m \/ i < m)
      BY <1>2
    <3>2. /\ \A i \in 0..m : e[i] \in Nat
          /\ \A i, j \in 0..m : i < j => e[i] < e[j]
      BY <1>2, InASpell
    <3>. QED
      BY <3>1, <3>2
  <2>. QED
    BY <1>1, <1>2, <2>1, <2>2
<1>7. \A i \in 1..m : f[s[i]] = Turn(f[1], i)
  <2>. SUFFICES ASSUME NEW i \in 1..m PROVE f[s[i]] = Turn(f[1], i)
    OBVIOUS
  <2>1. s[i] \in e[i - 1] + 1..e[i]
    BY <1>2, <1>6
  <2>. QED
    BY <1>2, <2>1 DEF Spelled
<1>8. Rises(t, c, own)
  <2>1. \A j \in 1..c : t[j] = s[place(j)] /\ t[j] \in own
    BY <1>4, <1>5, <1>7
  <2>2. \A j, k \in 1..c : j < k => t[j] < t[k]
    BY <1>4, <1>5, <2>1
  <2>3. ASSUME NEW k \in own PROVE \E j \in 1..c : t[j] = k
    <3>1. PICK i \in 1..m : s[i] = k
      BY <1>5
    <3>2. (i + 1) \div 2 \in 1..c /\ place((i + 1) \div 2) = i
      BY <1>4, <1>7, <3>1
    <3>. QED
      BY <2>1, <3>1, <3>2
  <2>. HIDE DEF own
  <2>. QED
    BY <2>1, <2>2, <2>3 DEF Rises
<1>9. IsFiniteSet(own) /\ own \in SUBSET Int
  <2>1. IsFiniteSet(own)
    BY <1>2, FS_Subset
  <2>2. \A k \in own : k \in Int
    <3>1. \A k \in S : k \in Int
      BY <1>1
    <3>. QED
      BY <3>1
  <2>. HIDE DEF own
  <2>. QED
    BY <2>1, <2>2
<1>10. c = Cardinality(own) /\ \A j \in 1..c : mine[j] = t[j]
  <2>. HIDE DEF own, t
  <2>. QED
    BY <1>4, <1>8, <1>9, RisesOnce
<1>11. DOMAIN mine = 1..c
  BY <1>10 DEF InOrder
<1>. HIDE DEF mine
<1>12. \A i \in 1..m : next(s[i]) = e[i] + 1
  <2>. SUFFICES ASSUME NEW i \in 1..m PROVE next(s[i]) = e[i] + 1
    OBVIOUS
  <2>. DEFINE later == {l \in S : l > s[i]} \cup {n + 1}
  <2>1. \A l \in later : l \in Nat /\ e[i] + 1 =< l
    <3>. SUFFICES ASSUME NEW l \in later PROVE l \in Nat /\ e[i] + 1 =< l
      OBVIOUS
    <3>1. CASE l = n + 1
      BY <1>1, <1>6, <3>1
    <3>2. CASE l \in S /\ l > s[i]
      <4>1. PICK j \in 1..m : s[j] = l
        BY <1>5, <3>2
      <4>2. i < j
        <5>1. j = i \/ j < i \/ i < j
          BY <1>2
        <5>2. j < i => s[j] < s[i]
          BY <1>5
        <5>3. s[i] \in 1..n /\ s[j] \in 1..n
          BY <1>5
        <5>. QED
          BY <1>1, <3>2, <4>1, <5>1, <5>2, <5>3
      <4>3. s[j] = e[j - 1] + 1 /\ e[j - 1] \in Nat /\ e[i] \in Nat /\ e[i] =< e[j - 1]
        <5>1. i \in 0..m /\ j - 1 \in 0..m /\ (i = j - 1 \/ i < j - 1)
          BY <1>2, <4>2
        <5>2. /\ \A q \in 0..m : e[q] \in Nat
              /\ \A q, r \in 0..m : q < r => e[q] < e[r]
          BY <1>2, InASpell
        <5>. QED
          BY <1>2, <5>1, <5>2
      <4>. QED
        BY <4>1, <4>3
    <3>. QED
      BY <3>1, <3>2
  <2>2. e[i] + 1 \in later
    <3>1. CASE i = m
      BY <1>2, <3>1
    <3>2. CASE i # m
      <4>1. i + 1 \in 1..m /\ (i + 1) - 1 = i /\ i < i + 1
        BY <1>2, <3>2
      <4>2. s[i + 1] = e[i] + 1 /\ s[i + 1] \in S /\ s[i] < s[i + 1]
        BY <1>2, <1>5, <4>1
      <4>. QED
        BY <4>2
    <3>. QED
      BY <3>1, <3>2
  <2>3. next(s[i]) = Min(later)
    BY <1>1
  <2>. HIDE DEF later, next
  <2>4. later \in SUBSET Nat /\ later # {}
    BY <2>1, <2>2
  <2>5. Min(later) \in later /\ Min(later) =< e[i] + 1
    BY <2>2, <2>4, FirstDay
  <2>6. Min(later) \in Nat /\ e[i] + 1 =< Min(later) /\ e[i] \in Nat
    BY <1>6, <2>1, <2>5
  <2>. QED
    BY <2>3, <2>5, <2>6
<1>13. \A j \in 1..c : SpellLengths(f, kind)[j] = e[place(j)] - e[place(j) - 1]
  <2>. SUFFICES ASSUME NEW j \in 1..c
                PROVE  SpellLengths(f, kind)[j] = e[place(j)] - e[place(j) - 1]
    OBVIOUS
  <2>1. SpellLengths(f, kind)[j] = next(mine[j]) - mine[j]
    BY <1>3, <1>11
  <2>2. mine[j] = s[place(j)] /\ place(j) \in 1..m
    BY <1>4, <1>10
  <2>. DEFINE i == place(j)
  <2>. HIDE DEF i, next
  <2>3. next(s[i]) = e[i] + 1 /\ s[i] = e[i - 1] + 1 /\ e[i] \in Nat /\ e[i - 1] \in Nat
    BY <1>2, <1>6, <1>12, <2>2 DEF i
  <2>4. next(s[i]) - s[i] = e[i] - e[i - 1]
    BY <2>3
  <2>. QED
    BY <2>1, <2>2, <2>4 DEF i
<1>14. DOMAIN SpellLengths(f, kind) = 1..c
  BY <1>3, <1>11
<1>15. Len(SpellLengths(f, kind)) = c
  BY <1>3, <1>4, <1>11
<1>. QED
  BY <1>13, <1>14, <1>15 DEF m, e, c, place

\* A draw that changes places among any number of spells of a kind, up to n.
IsDraw(draw, n) ==
  \A kind \in BOOLEAN : \A k \in 1..n :
    /\ \A i \in 1..k : draw[kind][k][i] \in 1..k
    /\ \A i, j \in 1..k : draw[kind][k][i] = draw[kind][k][j] => i = j

\* Where the states change.
Switches(f) == {p \in DOMAIN f : p + 1 \in DOMAIN f /\ f[p] # f[p + 1]}

\* The states that two sequences have as often, and their changes.
SameSpells(g, f, n) ==
  /\ IsStates(g, n) /\ g[1] = f[1]
  /\ Cardinality({p \in DOMAIN g : g[p]}) = Cardinality({p \in DOMAIN f : f[p]})
  /\ Cardinality(Switches(g)) = Cardinality(Switches(f))

\* Shuffled spells start with what the states start with, are on as long, and
\* change as often.
LEMMA ShuffleMatches ==
  ASSUME NEW f, NEW n, NEW draw, IsStates(f, n), IsDraw(draw, n)
  PROVE  SameSpells(ShuffleSpells(f, draw), f, n)
<1>. DEFINE m == SpellCount(f)
            e == SpellEnds(f, n)
            first == f[1]
            c(kind) == CountOf(m, first, kind)
            place(kind, j) == PlaceOf(first, kind, j)
            len(kind) == SpellLengths(f, kind)
            lengths == [kind \in BOOLEAN |-> len(kind)]
            order == [kind \in BOOLEAN |->
                        [i \in DOMAIN lengths[kind] |-> lengths[kind][draw[kind][Len(lengths[kind])][i]]]]
            turn(i) == Turn(first, i)
            half(i) == (i + 1) \div 2
            moved(i) == draw[turn(i)][c(turn(i))][half(i)]
            o == [i \in 1..m |-> place(turn(i), moved(i))]
            L == [i \in 1..m |-> order[turn(i)][half(i)]]
            spells == [i \in 1..Len(order[TRUE]) + Len(order[FALSE]) |-> [k \in 1..order[turn(i)][half(i)] |-> turn(i)]]
            g == ShuffleSpells(f, draw)
<1>1. g = FlattenSeq(spells)
  BY DEF ShuffleSpells, Turn
<1>2. /\ n \in Nat \ {0} /\ DOMAIN f = 1..n /\ first \in BOOLEAN
      /\ m \in Nat \ {0} /\ m =< n /\ Spelled(f, e, m, first) /\ e[m] = n
  <2>1. n \in Nat \ {0} /\ DOMAIN f = 1..n /\ \A k \in 1..n : f[k] \in BOOLEAN
    BY DEF IsStates
  <2>2. m \in Nat \ {0} /\ m =< n /\ Spelled(f, e, m, first) /\ e[m] = n
    BY OwnSpells
  <2>. QED
    BY <2>1, <2>2
<1>3. ASSUME NEW kind \in BOOLEAN
      PROVE  /\ DOMAIN len(kind) = 1..c(kind) /\ Len(len(kind)) = c(kind)
             /\ \A j \in 1..c(kind) : len(kind)[j] = e[place(kind, j)] - e[place(kind, j) - 1]
  BY OwnLengths
<1>. HIDE DEF m, e, first, len, g
<1>4. ASSUME NEW kind \in BOOLEAN
      PROVE  /\ c(kind) \in Nat /\ c(kind) =< m
             /\ \A j \in 1..c(kind) : place(kind, j) \in 1..m /\ turn(place(kind, j)) = kind /\ half(place(kind, j)) = j
             /\ \A i \in 1..m : turn(i) = kind => half(i) \in 1..c(kind) /\ place(kind, half(i)) = i
  <2>1. m \in Nat /\ first \in BOOLEAN
    BY <1>2
  <2>. QED
    BY <2>1, KindsAlternate
<1>5. c(TRUE) + c(FALSE) = m
  <2>1. first = TRUE \/ first = FALSE
    BY <1>2
  <2>2. m \div 2 + (m + 1) \div 2 = m /\ (m + 1) \div 2 + m \div 2 = m
    BY <1>2
  <2>. QED
    BY <2>1, <2>2 DEF CountOf
<1>6. \A i : turn(i) \in BOOLEAN
  BY DEF Turn
<1>. HIDE DEF c, place, turn, half
<1>7. ASSUME NEW kind \in BOOLEAN
      PROVE  /\ Len(order[kind]) = c(kind)
             /\ \A j \in 1..c(kind) : order[kind][j] = len(kind)[draw[kind][c(kind)][j]]
  <2>1. lengths[kind] = len(kind)
    OBVIOUS
  <2>2. order[kind] = [i \in 1..c(kind) |-> len(kind)[draw[kind][c(kind)][i]]]
    BY <1>3, <2>1
  <2>. HIDE DEF order
  <2>. QED
    BY <1>4, <2>2
<1>8. ASSUME NEW kind \in BOOLEAN, NEW j \in 1..c(kind)
      PROVE  draw[kind][c(kind)][j] \in 1..c(kind)
  <2>1. c(kind) \in 1..n
    BY <1>2, <1>4
  <2>. QED
    BY <2>1 DEF IsDraw
<1>9. ASSUME NEW kind \in BOOLEAN, NEW j \in 1..c(kind), NEW k \in 1..c(kind),
             draw[kind][c(kind)][j] = draw[kind][c(kind)][k]
      PROVE  j = k
  <2>1. c(kind) \in 1..n
    BY <1>2, <1>4
  <2>. QED
    BY <1>9, <2>1 DEF IsDraw
<1>. HIDE DEF order
<1>10. ASSUME NEW i \in 1..m
       PROVE  /\ turn(i) \in BOOLEAN /\ half(i) \in 1..c(turn(i)) /\ moved(i) \in 1..c(turn(i))
              /\ o[i] = place(turn(i), moved(i)) /\ o[i] \in 1..m /\ turn(o[i]) = turn(i) /\ half(o[i]) = moved(i)
              /\ L[i] = e[o[i]] - e[o[i] - 1]
  <2>1. turn(i) \in BOOLEAN /\ half(i) \in 1..c(turn(i))
    BY <1>4, <1>6
  <2>2. moved(i) \in 1..c(turn(i))
    BY <1>8, <2>1
  <2>3. o[i] = place(turn(i), moved(i)) /\ L[i] = order[turn(i)][half(i)]
    OBVIOUS
  <2>4. L[i] = len(turn(i))[moved(i)]
    BY <1>7, <2>1, <2>3
  <2>. HIDE DEF o, L, moved
  <2>5. o[i] \in 1..m /\ turn(o[i]) = turn(i) /\ half(o[i]) = moved(i)
    BY <1>4, <2>1, <2>2, <2>3
  <2>6. len(turn(i))[moved(i)] = e[place(turn(i), moved(i))] - e[place(turn(i), moved(i)) - 1]
    BY <1>3, <2>1, <2>2
  <2>. QED
    BY <2>1, <2>2, <2>3, <2>4, <2>5, <2>6
<1>11. ASSUME NEW i \in 1..m, NEW j \in 1..m, o[i] = o[j] PROVE i = j
  <2>1. turn(i) = turn(j) /\ moved(i) = moved(j)
    <3>. HIDE DEF o, moved, L
    <3>. QED
      BY <1>10, <1>11
  <2>2. half(i) = half(j)
    <3>1. half(i) \in 1..c(turn(i)) /\ half(j) \in 1..c(turn(i)) /\ turn(i) \in BOOLEAN
      <4>. HIDE DEF o, moved, L
      <4>. QED
        BY <1>10, <2>1
    <3>. QED
      BY <1>9, <2>1, <3>1
  <2>3. place(turn(i), half(i)) = i /\ place(turn(j), half(j)) = j
    BY <1>4, <1>6
  <2>. QED
    BY <2>1, <2>2, <2>3
<1>12. \A i \in 1..m : L[i] \in Nat \ {0}
  <2>. SUFFICES ASSUME NEW i \in 1..m PROVE L[i] \in Nat \ {0}
    OBVIOUS
  <2>1. o[i] \in 1..m /\ L[i] = e[o[i]] - e[o[i] - 1]
    BY <1>10
  <2>. DEFINE q == o[i]
  <2>2. q \in 1..m
    BY <2>1
  <2>. HIDE DEF L, q
  <2>3. e[q - 1] \in Nat /\ e[q] \in Nat /\ e[q - 1] < e[q]
    BY <1>2, <2>2 DEF Spelled
  <2>4. e[q] - e[q - 1] \in Nat \ {0}
    BY <2>3
  <2>. QED
    BY <2>1, <2>4 DEF q
<1>13. SpellsOf(spells, L, m, first)
  <2>1. Len(order[TRUE]) + Len(order[FALSE]) = m
    BY <1>5, <1>7
  <2>2. spells = [i \in 1..m |-> [k \in 1..order[turn(i)][half(i)] |-> turn(i)]]
    BY <2>1
  <2>3. \A i \in 1..m : L[i] = order[turn(i)][half(i)]
    OBVIOUS
  <2>. HIDE DEF spells
  <2>4. Len(spells) = m
    BY <1>2, <2>2
  <2>5. \A i \in 1..m : spells[i] = [k \in 1..L[i] |-> turn(i)]
    BY <2>2, <2>3
  <2>. HIDE DEF L
  <2>. QED
    BY <1>2, <1>12, <2>4, <2>5 DEF SpellsOf, turn
<1>. HIDE DEF spells, L, o, moved
<1>14. PICK d : Spelled(g, d, m, first) /\ \A i \in 1..m : d[i] - d[i - 1] = L[i]
  BY <1>1, <1>13, FlattenIsSpelled
<1>15. Reordered(d, e, o, m, first)
  <2>1. \A i \in 1..m : o[i] \in 1..m /\ turn(o[i]) = turn(i) /\ L[i] = e[o[i]] - e[o[i] - 1]
    BY <1>10
  <2>2. \A i, j \in 1..m : o[i] = o[j] => i = j
    BY <1>11
  <2>3. \A i \in 1..m : d[i] - d[i - 1] = e[o[i]] - e[o[i] - 1]
    BY <1>14, <2>1
  <2>4. \A i \in 1..m : Turn(first, o[i]) = Turn(first, i)
    BY <2>1 DEF turn
  <2>. QED
    BY <2>1, <2>2, <2>3, <2>4 DEF Reordered
<1>16. /\ d[m] = n
       /\ Cardinality({p \in DOMAIN g : g[p]}) = Cardinality({p \in DOMAIN f : f[p]})
  <2>1. Spelled(g, d, m, first) /\ Spelled(f, e, m, first) /\ e[m] = n
    BY <1>2, <1>14
  <2>2. /\ d[m] = e[m]
        /\ Cardinality({p \in DOMAIN g : g[p]}) = Cardinality({p \in DOMAIN f : f[p]})
    BY <1>15, <2>1, SpellsMatch
  <2>. QED
    BY <2>1, <2>2
<1>17. Cardinality(Switches(g)) = Cardinality(Switches(f))
  <2>1. Cardinality(Switches(g)) = m - 1
    BY <1>14, SpellsSwitch DEF Switches
  <2>2. Cardinality(Switches(f)) = m - 1
    BY <1>2, SpellsSwitch DEF Switches
  <2>. QED
    BY <2>1, <2>2
<1>18. DOMAIN g = 1..n /\ \A p \in 1..n : g[p] \in BOOLEAN
  <2>1. DOMAIN g = 1..n
    BY <1>14, <1>16 DEF Spelled
  <2>2. ASSUME NEW p \in 1..n PROVE g[p] \in BOOLEAN
    <3>1. PICK i \in 1..m : d[i - 1] < p /\ p =< d[i]
      BY <1>14, <1>16, InASpell
    <3>2. d[i - 1] \in Nat /\ d[i] \in Nat /\ p \in Nat
      BY <1>14, <3>1 DEF Spelled
    <3>3. p \in d[i - 1] + 1..d[i]
      BY <3>1, <3>2
    <3>4. g[p] = Turn(first, i)
      BY <1>14, <3>1, <3>3 DEF Spelled
    <3>. QED
      BY <3>4 DEF Turn
  <2>. QED
    BY <2>1, <2>2
<1>19. g[1] = first
  <2>1. 1 \in 1..m /\ d[0] = 0 /\ d[1] \in Nat /\ d[0] < d[1]
    <3>1. 1 \in 1..m /\ 1 - 1 = 0
      BY <1>2
    <3>. QED
      BY <1>14, <3>1 DEF Spelled
  <2>2. 1 \in d[1 - 1] + 1..d[1]
    BY <2>1
  <2>3. g[1] = Turn(first, 1)
    BY <1>14, <2>1, <2>2 DEF Spelled
  <2>. QED
    BY <1>2, <2>3 DEF Turn
<1>. QED
  BY <1>2, <1>16, <1>17, <1>18, <1>19 DEF SameSpells, IsStates, first, g

\* Some days, those of them from one on in order, and states on them.
DaysFrom(ends, start, days, N) ==
  /\ IsFiniteSet(ends) /\ ends \in SUBSET Nat /\ N \in Nat \ {0}
  /\ Rises(days, N, {t \in ends : t >= start}) /\ days[1] = start

\* The day after each, if there is one.
LEMMA NextOfDays ==
  ASSUME NEW ends, NEW start, NEW days, NEW N, DaysFrom(ends, start, days, N)
  PROVE  /\ start \in ends
         /\ \A p \in 1..N : days[p] \in ends /\ start =< days[p]
         /\ \A t \in ends : t >= start => \E p \in 1..N : days[p] = t
         /\ \A p, q \in 1..N : days[p] = days[q] => p = q
         /\ \A p \in 1..N : {u \in ends : u > days[p]} # {} <=> p + 1 \in 1..N
         /\ \A p \in 1..N : p + 1 \in 1..N => Min({u \in ends : u > days[p]}) = days[p + 1]
<1>1. /\ ends \in SUBSET Nat /\ N \in Nat /\ N # 0 /\ 1 \in 1..N /\ days[1] = start
      /\ \A p \in 1..N : days[p] \in ends /\ days[p] >= start
      /\ \A p, q \in 1..N : p < q => days[p] < days[q]
      /\ \A t \in ends : t >= start => \E p \in 1..N : days[p] = t
  BY DEF DaysFrom, Rises
<1>2. start \in ends /\ \A p \in 1..N : days[p] \in Nat /\ start =< days[p]
  BY <1>1
<1>3. \A p, q \in 1..N : days[p] = days[q] => p = q
  <2>. SUFFICES ASSUME NEW p \in 1..N, NEW q \in 1..N, days[p] = days[q] PROVE p = q
    OBVIOUS
  <2>1. p = q \/ p < q \/ q < p
    OBVIOUS
  <2>2. (p < q => days[p] < days[q]) /\ (q < p => days[q] < days[p])
    BY <1>1
  <2>3. days[p] \in Nat /\ days[q] \in Nat
    BY <1>2
  <2>. QED
    BY <2>1, <2>2, <2>3
<1>4. ASSUME NEW p \in 1..N
      PROVE  /\ {u \in ends : u > days[p]} # {} <=> p + 1 \in 1..N
             /\ p + 1 \in 1..N => Min({u \in ends : u > days[p]}) = days[p + 1]
  <2>. DEFINE later == {u \in ends : u > days[p]}
  <2>1. days[p] \in Nat /\ start \in Nat /\ start =< days[p]
    BY <1>1, <1>2
  <2>2. ASSUME NEW u \in later
        PROVE  p + 1 \in 1..N /\ days[p + 1] =< u /\ u \in Nat
    <3>1. u \in ends /\ u > days[p] /\ u \in Nat
      BY <1>1
    <3>2. u >= start
      BY <2>1, <3>1
    <3>3. PICK q \in 1..N : days[q] = u
      BY <1>1, <3>1, <3>2
    <3>4. p < q
      <4>1. p = q \/ p < q \/ q < p
        OBVIOUS
      <4>2. q < p => days[q] < days[p]
        BY <1>1
      <4>. DEFINE a == days[p]
                  b == days[q]
      <4>3. a \in Nat /\ b \in Nat /\ b > a /\ (p = q => a = b) /\ (q < p => b < a)
        BY <2>1, <3>1, <3>3, <4>2
      <4>. HIDE DEF a, b
      <4>. QED
        BY <4>1, <4>3
    <3>5. p + 1 \in 1..N /\ (q = p + 1 \/ p + 1 < q)
      BY <1>1, <3>4
    <3>6. p + 1 < q => days[p + 1] < days[q]
      BY <1>1, <3>5
    <3>7. days[p + 1] \in Nat /\ days[q] \in Nat
      BY <1>2, <3>5
    <3>8. days[p + 1] =< days[q]
      <4>1. CASE q = p + 1
        BY <3>7, <4>1
      <4>2. CASE p + 1 < q
        BY <3>6, <3>7, <4>2
      <4>. QED
        BY <3>5, <4>1, <4>2
    <3>. QED
      BY <3>1, <3>3, <3>5, <3>8
  <2>3. p + 1 \in 1..N => days[p + 1] \in later
    <3>. SUFFICES ASSUME p + 1 \in 1..N PROVE days[p + 1] \in later
      OBVIOUS
    <3>1. days[p] < days[p + 1] /\ days[p + 1] \in ends
      <4>1. p < p + 1
        OBVIOUS
      <4>. QED
        BY <1>1, <4>1
    <3>2. days[p + 1] > days[p]
      BY <1>2, <3>1
    <3>. QED
      BY <3>1, <3>2
  <2>4. later \in SUBSET Nat
    BY <1>1
  <2>. HIDE DEF later
  <2>5. later # {} <=> p + 1 \in 1..N
    BY <2>2, <2>3
  <2>6. p + 1 \in 1..N => Min(later) = days[p + 1]
    <3>. SUFFICES ASSUME p + 1 \in 1..N PROVE Min(later) = days[p + 1]
      OBVIOUS
    <3>1. Min(later) \in later /\ Min(later) =< days[p + 1]
      BY <2>3, <2>4, FirstDay
    <3>2. days[p + 1] =< Min(later) /\ Min(later) \in Nat /\ days[p + 1] \in Nat
      BY <1>2, <2>2, <3>1
    <3>. QED
      BY <3>1, <3>2
  <2>. QED
    BY <2>5, <2>6 DEF later
<1>. QED
  BY <1>1, <1>2, <1>3, <1>4

\* What is on, and what changes, from a day on; and what shows on days in order.
LateOn(ends, start, lit) == {t \in ends : t >= start /\ t \in lit}

LateSwitches(ends, start, lit) ==
  {t \in ends :
     /\ t >= start /\ {u \in ends : u > t} # {}
     /\ (t \in lit) # (Min({u \in ends : u > t}) \in lit)}

Shows(days, N, lit, h) == IsStates(h, N) /\ \A p \in 1..N : days[p] \in lit <=> h[p]

\* What is on, and what changes, from a day on is what a sequence has.
LEMMA DaysOfStates ==
  ASSUME NEW ends, NEW start, NEW days, NEW N, DaysFrom(ends, start, days, N),
         NEW lit, NEW h, Shows(days, N, lit, h)
  PROVE  /\ IsFiniteSet(LateOn(ends, start, lit)) /\ IsFiniteSet(LateSwitches(ends, start, lit))
         /\ Cardinality(LateOn(ends, start, lit)) = Cardinality({p \in DOMAIN h : h[p]})
         /\ Cardinality(LateSwitches(ends, start, lit)) = Cardinality(Switches(h))
<1>. DEFINE next(t) == {u \in ends : u > t}
            on == LateOn(ends, start, lit)
            switches == LateSwitches(ends, start, lit)
            mine == {p \in DOMAIN h : h[p]}
            W == Switches(h)
<1>1. /\ N \in Nat /\ ends \in SUBSET Nat /\ DOMAIN h = 1..N /\ \A p \in 1..N : h[p] \in BOOLEAN
      /\ \A p \in 1..N : days[p] \in lit <=> h[p]
  BY DEF DaysFrom, IsStates, Shows
<1>2. /\ start \in ends
      /\ \A p \in 1..N : days[p] \in ends /\ start =< days[p]
      /\ \A t \in ends : t >= start => \E p \in 1..N : days[p] = t
      /\ \A p, q \in 1..N : days[p] = days[q] => p = q
      /\ \A p \in 1..N : next(days[p]) # {} <=> p + 1 \in 1..N
      /\ \A p \in 1..N : p + 1 \in 1..N => Min(next(days[p])) = days[p + 1]
  BY NextOfDays
<1>3. \A p \in 1..N : days[p] >= start
  BY <1>1, <1>2
<1>4. IsFiniteSet(mine) /\ IsFiniteSet(W)
  <2>1. \A p \in mine : p \in 1..N
    BY <1>1
  <2>2. \A p \in W : p \in 1..N
    BY <1>1 DEF Switches
  <2>3. IsFiniteSet(1..N)
    BY <1>1, FS_Interval
  <2>. HIDE DEF mine, W
  <2>. QED
    BY <2>1, <2>2, <2>3, FS_Subset
<1>5. Pairs(days, mine, on)
  <2>1. \A p \in mine : p \in 1..N /\ days[p] \in on
    BY <1>1, <1>2, <1>3 DEF LateOn
  <2>2. ASSUME NEW t \in on PROVE \E p \in mine : days[p] = t
    <3>1. PICK p \in 1..N : days[p] = t
      BY <1>2 DEF LateOn
    <3>. QED
      BY <1>1, <3>1 DEF LateOn
  <2>. HIDE DEF mine, on
  <2>. QED
    BY <1>2, <2>1, <2>2 DEF Pairs
<1>6. \A p \in 1..N : p \in W <=> p + 1 \in 1..N /\ h[p] # h[p + 1]
  BY <1>1 DEF Switches
<1>7. \A p \in 1..N : days[p] \in switches <=> p + 1 \in 1..N /\ h[p] # h[p + 1]
  <2>. SUFFICES ASSUME NEW p \in 1..N
                PROVE  days[p] \in switches <=> p + 1 \in 1..N /\ h[p] # h[p + 1]
    OBVIOUS
  <2>1. days[p] \in switches <=> p + 1 \in 1..N /\ (days[p] \in lit) # (Min(next(days[p])) \in lit)
    BY <1>2, <1>3 DEF LateSwitches
  <2>2. p + 1 \in 1..N => Min(next(days[p])) = days[p + 1]
    BY <1>2
  <2>3. p + 1 \in 1..N => ((days[p] \in lit) # (days[p + 1] \in lit) <=> h[p] # h[p + 1])
    BY <1>1
  <2>. HIDE DEF switches, next
  <2>. QED
    BY <2>1, <2>2, <2>3
<1>8. Pairs(days, W, switches)
  <2>1. \A p \in W : p \in 1..N
    BY <1>1 DEF Switches
  <2>2. \A t \in switches : \E p \in 1..N : days[p] = t
    BY <1>2 DEF LateSwitches
  <2>. HIDE DEF W, switches
  <2>3. \A p \in W : days[p] \in switches
    BY <1>6, <1>7, <2>1
  <2>4. \A t \in switches : \E p \in W : days[p] = t
    BY <1>6, <1>7, <2>2
  <2>. QED
    BY <1>2, <2>1, <2>3, <2>4 DEF Pairs
<1>. HIDE DEF on, switches, mine, W
<1>9. IsFiniteSet(on) /\ Cardinality(on) = Cardinality(mine)
  BY <1>4, <1>5, SameSize
<1>10. IsFiniteSet(switches) /\ Cardinality(switches) = Cardinality(W)
  BY <1>4, <1>8, SameSize
<1>. QED
  BY <1>9, <1>10 DEF on, switches, mine, W

\* Two sets that share a part, and the rest of which is as large.
SharePart(A, B, C, D, E) ==
  /\ IsFiniteSet(A) /\ IsFiniteSet(B) /\ IsFiniteSet(C) /\ Cardinality(B) = Cardinality(C)
  /\ A \cap B = {} /\ A \cap C = {} /\ D = A \cup B /\ E = A \cup C

\* They are as large.
LEMMA AsLarge ==
  ASSUME NEW A, NEW B, NEW C, NEW D, NEW E, SharePart(A, B, C, D, E)
  PROVE  Cardinality(D) = Cardinality(E)
<1>1. Cardinality(A \cup B) = Cardinality(A) + Cardinality(B) - Cardinality(A \cap B)
  BY FS_Union DEF SharePart
<1>2. Cardinality(A \cup C) = Cardinality(A) + Cardinality(C) - Cardinality(A \cap C)
  BY FS_Union DEF SharePart
<1>. QED
  BY <1>1, <1>2 DEF SharePart

\* What is on, and what changes.
OnIn(ends, lit) == {t \in ends : t \in lit}

SwitchesIn(ends, lit) ==
  {t \in ends :
     /\ {u \in ends : u > t} # {}
     /\ (t \in lit) # (Min({u \in ends : u > t}) \in lit)}

\* States that are as they were before a day, and have the same spells from it on.
LEMMA SplitMatches ==
  ASSUME NEW ends, NEW start, NEW days, NEW N, DaysFrom(ends, start, days, N),
         NEW a, NEW b, NEW f, NEW g, SameSpells(g, f, N), Shows(days, N, a, f), Shows(days, N, b, g),
         \A t \in ends : t < start => (t \in a <=> t \in b)
  PROVE  /\ Cardinality(OnIn(ends, b)) = Cardinality(OnIn(ends, a))
         /\ Cardinality(SwitchesIn(ends, b)) = Cardinality(SwitchesIn(ends, a))
<1>. DEFINE next(t) == {u \in ends : u > t}
            on(lit) == OnIn(ends, lit)
            switches(lit) == SwitchesIn(ends, lit)
            lateOn(lit) == LateOn(ends, start, lit)
            lateSwitches(lit) == LateSwitches(ends, start, lit)
            early == {t \in ends : t < start}
<1>1. /\ IsFiniteSet(ends) /\ ends \in SUBSET Nat /\ N \in Nat /\ 1 \in 1..N /\ days[1] = start /\ start \in ends
      /\ IsStates(g, N) /\ g[1] = f[1]
      /\ Cardinality({p \in DOMAIN g : g[p]}) = Cardinality({p \in DOMAIN f : f[p]})
      /\ Cardinality(Switches(g)) = Cardinality(Switches(f))
  <2>1. start \in ends
    BY NextOfDays
  <2>2. IsFiniteSet(ends) /\ ends \in SUBSET Nat /\ N \in Nat \ {0} /\ days[1] = start
    BY DEF DaysFrom
  <2>3. 1 \in 1..N
    BY <2>2
  <2>. QED
    BY <2>1, <2>2, <2>3 DEF SameSpells
<1>2. \A t \in ends : t < start <=> ~(t >= start)
  BY <1>1
<1>3. /\ IsFiniteSet(lateOn(a)) /\ IsFiniteSet(lateSwitches(a))
      /\ Cardinality(lateOn(a)) = Cardinality({p \in DOMAIN f : f[p]})
      /\ Cardinality(lateSwitches(a)) = Cardinality(Switches(f))
  BY DaysOfStates
<1>4. /\ IsFiniteSet(lateOn(b)) /\ IsFiniteSet(lateSwitches(b))
      /\ Cardinality(lateOn(b)) = Cardinality({p \in DOMAIN g : g[p]})
      /\ Cardinality(lateSwitches(b)) = Cardinality(Switches(g))
  BY DaysOfStates
<1>6. \A S \in SUBSET ends : IsFiniteSet(S)
  BY <1>1, FS_Subset
<1>7. Cardinality(on(b)) = Cardinality(on(a))
  <2>. DEFINE A == {t \in early : t \in a}
  <2>1. A \cap lateOn(a) = {} /\ A \cap lateOn(b) = {} /\ A \in SUBSET ends
    BY <1>2 DEF LateOn, OnIn
  <2>2. on(a) = A \cup lateOn(a) /\ on(b) = A \cup lateOn(b)
    BY <1>2 DEF LateOn, OnIn
  <2>3. Cardinality(lateOn(b)) = Cardinality(lateOn(a))
    BY <1>1, <1>3, <1>4
  <2>. HIDE DEF A, on, lateOn
  <2>4. SharePart(A, lateOn(b), lateOn(a), on(b), on(a))
    BY <1>3, <1>4, <1>6, <2>1, <2>2, <2>3 DEF SharePart
  <2>. QED
    BY <2>4, AsLarge
<1>8. Cardinality(switches(b)) = Cardinality(switches(a))
  <2>. DEFINE A == {t \in early : next(t) # {} /\ (t \in a) # (Min(next(t)) \in a)}
  <2>1. start \in a <=> start \in b
    BY <1>1 DEF Shows
  <2>2. ASSUME NEW t \in early
        PROVE  next(t) # {} /\ Min(next(t)) \in ends /\ (Min(next(t)) \in a <=> Min(next(t)) \in b)
    <3>1. start \in next(t) /\ next(t) \in SUBSET Nat /\ next(t) \in SUBSET ends
      BY <1>1
    <3>. HIDE DEF next
    <3>2. Min(next(t)) \in next(t) /\ Min(next(t)) =< start
      BY <3>1, FirstDay
    <3>3. Min(next(t)) \in ends /\ Min(next(t)) \in Nat /\ start \in Nat /\ (Min(next(t)) < start \/ Min(next(t)) = start)
      BY <1>1, <3>1, <3>2
    <3>. QED
      BY <2>1, <3>1, <3>3
  <2>3. \A t \in early : t \in ends /\ t < start /\ ~(t >= start) /\ (t \in a <=> t \in b)
    BY <1>2
  <2>. DEFINE m(t) == Min(next(t))
              some(t) == next(t) # {}
  <2>. HIDE DEF early
  <2>4. \A t \in ends : t \in early \/ t >= start
    BY <1>2 DEF early
  <2>5. A \cap lateSwitches(a) = {} /\ A \cap lateSwitches(b) = {} /\ A \in SUBSET ends
    BY <2>3 DEF LateSwitches
  <2>6. switches(a) = A \cup lateSwitches(a)
    <3>. HIDE DEF m, some
    <3>1. /\ switches(a) = {t \in ends : some(t) /\ (t \in a) # (m(t) \in a)}
          /\ A = {t \in early : some(t) /\ (t \in a) # (m(t) \in a)}
          /\ lateSwitches(a) = {t \in ends : t >= start /\ some(t) /\ (t \in a) # (m(t) \in a)}
      BY DEF m, some, LateSwitches, SwitchesIn
    <3>. HIDE DEF switches, lateSwitches, A
    <3>. QED
      BY <2>3, <2>4, <3>1
  <2>7. switches(b) = A \cup lateSwitches(b)
    <3>1. \A t \in early : some(t) /\ (m(t) \in a <=> m(t) \in b)
      BY <2>2
    <3>. HIDE DEF m, some
    <3>2. /\ switches(b) = {t \in ends : some(t) /\ (t \in b) # (m(t) \in b)}
          /\ A = {t \in early : some(t) /\ (t \in a) # (m(t) \in a)}
          /\ lateSwitches(b) = {t \in ends : t >= start /\ some(t) /\ (t \in b) # (m(t) \in b)}
      BY DEF m, some, LateSwitches, SwitchesIn
    <3>. HIDE DEF switches, lateSwitches, A
    <3>3. \A t \in early : ((t \in a) # (m(t) \in a)) <=> ((t \in b) # (m(t) \in b))
      BY <2>3, <3>1
    <3>. QED
      BY <2>3, <2>4, <3>2, <3>3
  <2>8. Cardinality(lateSwitches(b)) = Cardinality(lateSwitches(a))
    BY <1>1, <1>3, <1>4
  <2>. HIDE DEF A, switches, lateSwitches
  <2>9. SharePart(A, lateSwitches(b), lateSwitches(a), switches(b), switches(a))
    BY <1>3, <1>4, <1>6, <2>5, <2>6, <2>7, <2>8 DEF SharePart
  <2>. QED
    BY <2>9, AsLarge
<1>. QED
  BY <1>7, <1>8

\* States on some days of n, and a draw for every signal.
IsShuffle(monthly, n, signals, draw) ==
  /\ n \in Nat /\ DOMAIN monthly \in SUBSET (1..n) /\ DOMAIN monthly # {}
  /\ \A s \in signals : IsDraw(draw[s], n)

\* States that are as others up to the day that governs a period, and from it on are
\* as long on and change as often.
Matched(monthly, null, signals, begin) ==
  LET ends    == DOMAIN monthly
      next(t) == {u \in ends : u > t}
      on(states, s) == {t \in ends : s \in states[t]}
      switches(states, s) ==
        {t \in ends : next(t) # {} /\ (s \in states[t]) # (s \in states[Min(next(t))])}
  IN  /\ \A t \in ends : next(t) # {} /\ Min(next(t)) < begin => null[t] = monthly[t]
      /\ \A s \in signals :
           /\ Cardinality(on(null, s)) = Cardinality(on(monthly, s))
           /\ Cardinality(switches(null, s)) = Cardinality(switches(monthly, s))

\* Shuffled states are as they were up to the day that governs a period, and from
\* it on every signal is on as long and changes as often.
LEMMA StatesMatch ==
  ASSUME NEW monthly, NEW n, NEW signals, NEW draw, IsShuffle(monthly, n, signals, draw), NEW begin
  PROVE  Matched(monthly, ShuffleStates(monthly, signals, begin, draw), signals, begin)
<1>. DEFINE ends == DOMAIN monthly
            null == ShuffleStates(monthly, signals, begin, draw)
            next(t) == {u \in ends : u > t}
            on(states, s) == {t \in ends : s \in states[t]}
            switches(states, s) ==
              {t \in ends : next(t) # {} /\ (s \in states[t]) # (s \in states[Min(next(t))])}
            start == GoverningStart(monthly, begin)
            late == {t \in ends : t >= start}
            days == InOrder(late)
            N == Cardinality(late)
            f(s) == [k \in DOMAIN days |-> s \in monthly[days[k]]]
            shuffled == [s \in signals |-> ShuffleSpells(f(s), draw[s])]
            place(t) == CHOOSE k \in DOMAIN days : days[k] = t
            before == {t \in ends : t < begin}
<1>1. n \in Nat /\ ends \in SUBSET (1..n) /\ ends # {} /\ \A s \in signals : IsDraw(draw[s], n)
  BY DEF IsShuffle
<1>2. null = [t \in ends |-> IF t < start THEN monthly[t] ELSE {s \in signals : shuffled[s][place(t)]}]
  BY DEF ShuffleStates
<1>3. start = IF before = {} THEN Min(ends) ELSE Max(before)
  BY DEF GoverningStart
<1>4. ends \in SUBSET Nat /\ IsFiniteSet(ends)
  <2>1. \A t \in ends : t \in 1..n
    BY <1>1
  <2>. DEFINE all == 1..n
  <2>2. IsFiniteSet(all) /\ \A t \in all : t \in Nat
    BY <1>1, FS_Interval
  <2>3. ends \in SUBSET all
    BY <2>1
  <2>. HIDE DEF ends, all
  <2>. QED
    BY <2>2, <2>3, FS_Subset
<1>. HIDE DEF start, null, ends
<1>5. start \in ends /\ \A u \in before : u =< start
  <2>1. CASE before = {}
    BY <1>1, <1>3, <1>4, <2>1, FirstDay
  <2>2. CASE before # {}
    <3>1. before \in SUBSET ends /\ before \in SUBSET Int /\ \A u \in before : u =< n
      <4>1. \A u \in ends : u \in Int /\ u =< n
        BY <1>1
      <4>2. \A u \in before : u \in ends
        OBVIOUS
      <4>. HIDE DEF before
      <4>. QED
        BY <4>1, <4>2
    <3>. HIDE DEF before
    <3>2. Max(before) \in before /\ \A u \in before : u =< Max(before)
      BY <1>1, <2>2, <3>1, LastOf
    <3>. QED
      BY <1>3, <2>2, <3>1, <3>2
  <2>. QED
    BY <2>1, <2>2
<1>6. ASSUME NEW t \in ends, next(t) # {}, Min(next(t)) < begin
      PROVE  null[t] = monthly[t]
  <2>1. next(t) \in SUBSET Nat
    BY <1>4
  <2>2. Min(next(t)) \in next(t)
    BY <1>6, <2>1, FirstDay
  <2>3. Min(next(t)) \in before /\ Min(next(t)) > t /\ Min(next(t)) \in Nat /\ t \in Nat /\ start \in Nat
    BY <1>4, <1>5, <1>6, <2>2
  <2>4. Min(next(t)) =< start
    BY <1>5, <2>3
  <2>. HIDE DEF next
  <2>5. t < start
    BY <2>3, <2>4
  <2>. QED
    BY <1>2, <2>5
<1>7. IsFiniteSet(late) /\ late \in SUBSET Int /\ start \in late /\ N \in Nat \ {0} /\ N =< n
  <2>1. \A t \in late : t \in ends /\ t \in 1..n /\ t \in Int
    BY <1>1
  <2>2. start \in late
    BY <1>4, <1>5
  <2>3. IsFiniteSet(1..n) /\ Cardinality(1..n) = n
    BY <1>1, FS_Interval
  <2>. HIDE DEF late
  <2>4. IsFiniteSet(late) /\ Cardinality(late) =< n
    BY <2>1, <2>3, FS_Subset
  <2>5. Cardinality(late) \in Nat /\ Cardinality(late) # 0
    BY <2>2, <2>4, FS_CardinalityType, FS_EmptySet
  <2>. QED
    BY <2>1, <2>2, <2>4, <2>5
<1>8. Rises(days, N, late)
  <2>. HIDE DEF late
  <2>. QED
    BY <1>7, InOrderRises
<1>9. DOMAIN days = 1..N
  BY <1>8 DEF Rises
<1>10. /\ \A k \in 1..N : days[k] \in ends /\ days[k] >= start
       /\ \A t \in late : \E k \in 1..N : days[k] = t
       /\ \A j, k \in 1..N : j < k => days[j] < days[k]
  BY <1>8 DEF Rises
<1>. HIDE DEF N
<1>11. days[1] = start
  <2>1. PICK k \in 1..N : days[k] = start
    BY <1>7, <1>10
  <2>2. 1 \in 1..N /\ (k = 1 \/ 1 < k)
    BY <1>7
  <2>. DEFINE a == days[1]
  <2>3. a \in Nat /\ start \in Nat /\ a >= start /\ (1 < k => a < start)
    BY <1>4, <1>5, <1>10, <2>1, <2>2
  <2>. HIDE DEF a, days
  <2>4. ~(1 < k)
    BY <2>3
  <2>. QED
    BY <2>1, <2>2, <2>4
<1>12. DaysFrom(ends, start, days, N)
  BY <1>4, <1>7, <1>8, <1>11 DEF DaysFrom, late
<1>. HIDE DEF days
<1>13. \A p \in 1..N : place(days[p]) = p
  BY <1>9, <1>12, NextOfDays
<1>14. ASSUME NEW s \in signals
       PROVE  /\ Cardinality(on(null, s)) = Cardinality(on(monthly, s))
              /\ Cardinality(switches(null, s)) = Cardinality(switches(monthly, s))
  <2>. DEFINE g == ShuffleSpells(f(s), draw[s])
              a == on(monthly, s)
              b == on(null, s)
  <2>1. IsStates(f(s), N)
    BY <1>7, <1>9 DEF IsStates
  <2>2. IsDraw(draw[s], N)
    <3>1. \A k \in 1..N : k \in 1..n
      BY <1>1, <1>7
    <3>. QED
      BY <1>1, <3>1 DEF IsDraw
  <2>3. SameSpells(g, f(s), N)
    <3>. DEFINE fs == f(s)
    <3>. HIDE DEF fs
    <3>1. SameSpells(ShuffleSpells(fs, draw[s]), fs, N)
      BY <2>1, <2>2, ShuffleMatches DEF fs
    <3>. QED
      BY <3>1 DEF fs
  <2>4. shuffled[s] = g
    OBVIOUS
  <2>5. \A p \in 1..N : days[p] \in a <=> f(s)[p]
    BY <1>9, <1>10
  <2>6. \A p \in 1..N : days[p] \in b <=> g[p]
    <3>. SUFFICES ASSUME NEW p \in 1..N PROVE days[p] \in b <=> g[p]
      OBVIOUS
    <3>1. days[p] \in ends /\ days[p] \in Nat /\ start \in Nat /\ ~(days[p] < start)
      <4>. DEFINE t == days[p]
      <4>1. t \in ends /\ t >= start
        BY <1>10
      <4>. HIDE DEF t
      <4>2. t \in Nat /\ start \in Nat
        BY <1>4, <1>5, <4>1
      <4>3. ~(t < start)
        BY <4>1, <4>2
      <4>. QED
        BY <4>1, <4>2, <4>3 DEF t
    <3>2. null[days[p]] = {x \in signals : shuffled[x][place(days[p])]}
      BY <1>2, <3>1
    <3>. HIDE DEF shuffled, place, g
    <3>3. s \in null[days[p]] <=> g[p]
      BY <1>13, <2>4, <3>2
    <3>. QED
      BY <3>1, <3>3
  <2>7. \A t \in ends : t < start => (t \in a <=> t \in b)
    BY <1>2
  <2>. DEFINE fs == f(s)
              onIn(lit) == OnIn(ends, lit)
              switchesIn(lit) == SwitchesIn(ends, lit)
  <2>. HIDE DEF a, b, g, f, shuffled, place, fs
  <2>8. Cardinality(onIn(b)) = Cardinality(onIn(a)) /\ Cardinality(switchesIn(b)) = Cardinality(switchesIn(a))
    <3>. HIDE DEF late, before
    <3>1. SameSpells(g, fs, N) /\ Shows(days, N, a, fs) /\ Shows(days, N, b, g)
      BY <2>1, <2>3, <2>5, <2>6 DEF fs, Shows, SameSpells
    <3>. QED
      BY <1>12, <2>7, <3>1, SplitMatches
  <2>9. onIn(b) = on(null, s) /\ onIn(a) = on(monthly, s)
    BY DEF a, b, OnIn
  <2>10. \A t \in ends : next(t) # {} => Min(next(t)) \in ends
    <3>. SUFFICES ASSUME NEW t \in ends, next(t) # {} PROVE Min(next(t)) \in ends
      OBVIOUS
    <3>1. next(t) \in SUBSET Nat /\ next(t) \in SUBSET ends
      BY <1>4
    <3>. HIDE DEF next
    <3>. QED
      BY <3>1, FirstDay
  <2>11. switchesIn(b) = switches(null, s) /\ switchesIn(a) = switches(monthly, s)
    <3>. DEFINE m(t) == Min(next(t))
                some(t) == next(t) # {}
    <3>1. \A t \in ends : some(t) => m(t) \in ends
      BY <2>10
    <3>2. \A t \in ends : (t \in a <=> s \in monthly[t]) /\ (t \in b <=> s \in null[t])
      BY DEF a, b
    <3>. HIDE DEF m, some
    <3>3. /\ switchesIn(a) = {t \in ends : some(t) /\ (t \in a) # (m(t) \in a)}
          /\ switchesIn(b) = {t \in ends : some(t) /\ (t \in b) # (m(t) \in b)}
          /\ switches(monthly, s) = {t \in ends : some(t) /\ (s \in monthly[t]) # (s \in monthly[m(t)])}
          /\ switches(null, s) = {t \in ends : some(t) /\ (s \in null[t]) # (s \in null[m(t)])}
      BY DEF m, some, SwitchesIn
    <3>. HIDE DEF switchesIn, switches
    <3>. QED
      BY <3>1, <3>2, <3>3
  <2>. HIDE DEF on, switches, onIn, switchesIn
  <2>. QED
    BY <2>8, <2>9, <2>11
<1>. QED
  BY <1>6, <1>14 DEF ends, null, Matched

-----------------------------------------------------------------------------
(* The theorems.                                                           *)

\* Whatever a strategy wants and however many days a market has: if tickers
\* are only listed and delisted, the engine has the prices to execute the
\* book after its exits.
THEOREM TradableHolds == Spec => []Tradable
<1>1. IsTape => Tradable
  <2>. SUFFICES ASSUME IsTape, NoGaps, NEW t \in DOMAIN tape, NEW x \in Tickers
                PROVE  ~MissingPrice(tape, ExitBeforeDelisting(tape, Wanted(tape), Tickers), t, x)
    BY DEF Tradable
  <2>. DEFINE book == ExitBeforeDelisting(tape, Wanted(tape), Tickers)
  <2>1. t \in Nat /\ 1 =< t /\ t =< Len(tape) /\ Len(tape) \in Nat
    BY TapeDays
  <2>2. Executed(book, t, x) > 0 => Priced(tape, t, x)
    <3>. SUFFICES ASSUME Target(book, t - 1, x) > 0
                  PROVE  Priced(tape, t, x)
      BY DEF Executed
    <3>1. t - 1 \in DOMAIN tape /\ ~MustBeOut(tape, t - 1, x)
      BY <2>1, StaysIn
    <3>2. Priced(tape, (t - 1) + 1, x)
      BY <2>1, <3>1, PricedNext
    <3>. QED
      BY <2>1, <3>2
  <2>3. Overnight(book, t, x) > 0 => Priced(tape, t - 1, x) /\ Priced(tape, t, x)
    <3>. SUFFICES ASSUME Target(book, t - 2, x) > 0
                  PROVE  Priced(tape, t - 1, x) /\ Priced(tape, t, x)
      BY DEF Overnight
    <3>1. t - 2 \in DOMAIN tape /\ ~MustBeOut(tape, t - 2, x)
      BY <2>1, StaysIn
    <3>2. Priced(tape, (t - 2) + 1, x) /\ Priced(tape, (t - 2) + 2, x)
      BY <2>1, <3>1, PricedNext, PricedAfterNext
    <3>3. (t - 2) + 1 = t - 1 /\ (t - 2) + 2 = t
      BY <2>1
    <3>. QED
      BY <3>2, <3>3
  <2>. QED
    BY <2>2, <2>3 DEF MissingPrice
<1>. QED
  BY <1>1, TapeStays, PTL

\* A report that lets a rebalance have weights lets it have the whole
\* portfolio, fresh and within its caps, however many members it has.
THEOREM HealthyMeansWholeHolds == Spec => HealthyMeansWhole
<1>1. IsTape /\ subject \in Subjects /\ Kind("health") /\ Market(tape, subject) # <<>> => WholePortfolio
  <2>. SUFFICES ASSUME IsTape, subject \in Subjects, Kind("health"), Market(tape, subject) # <<>>
                PROVE  WholePortfolio
    OBVIOUS
  <2>. DEFINE last == Len(tape)
              frames == [m \in DOMAIN subject.rules |-> Weights(tape, subject.rules[m])]
              row == Market(tape, subject)[last]
              sleeve == [x \in DOMAIN row |-> OwedBySleeves(x)]
  <2>1. /\ last \in DOMAIN tape /\ Core \in DOMAIN subject.rules
        /\ row = CombinedRow(frames, subject.split, last)
        /\ \A m \in DOMAIN frames :
             Valued(frames[m][last]) /\ DOMAIN frames[m][last] \subseteq Universe(subject.rules[m])
        /\ WithinLimits(CombinedRow(frames, subject.split, last),
                        SleeveRow(frames, subject.split, last), subject.limits)
        /\ DataArrived(tape, subject)
    BY HealthyFacts
  <2>2. last \in Nat /\ last >= 1 /\ DOMAIN frames = DOMAIN subject.rules
        /\ \A m \in DOMAIN frames : frames[m] = Weights(tape, subject.rules[m])
    BY <2>1, TapeDays
  <2>3. \A m \in DOMAIN subject.rules : Weights(tape, subject.rules[m])[last] # NaN
    BY <2>1, <2>2 DEF Valued
  <2>4. DOMAIN row = Held(frames, last)
    BY <2>1 DEF CombinedRow
  <2>5. sleeve = SleeveRow(frames, subject.split, last)
    <3>1. ASSUME NEW x
          PROVE  SleeveShare(frames, subject.split, last, x) = OwedBySleeves(x)
      <4>1. \A m \in DOMAIN frames : Valued(frames[m][Len(tape)])
        BY <2>1
      <4>. HIDE DEF frames
      <4>2. frames = [m \in DOMAIN subject.rules |-> Weights(tape, subject.rules[m])]
        BY DEF frames
      <4>. QED
        BY <2>2, <4>1, <4>2, SleevesOwe
    <3>. QED
      BY <2>4, <3>1 DEF SleeveRow
  <2>. HIDE DEF frames, sleeve, last
  <2>6. ASSUME NEW x \in DOMAIN row
        PROVE  row[x] = Owed(Core, x) + sleeve[x]
    <3>1. frames[Core][last] # NaN /\ frames[Core] = Weights(tape, subject.rules[Core])
          /\ (x \in DOMAIN frames[Core][last] => frames[Core][last][x] # NaN)
      BY <2>1, <2>2 DEF Valued
    <3>2. Owed(Core, x) = CoreShare(frames, subject.split, last, x)
      BY <2>2, <3>1 DEF Owed, CoreShare, Target, Cell, last
    <3>3. row[x] = CoreShare(frames, subject.split, last, x) + SleeveShare(frames, subject.split, last, x)
      BY <2>1, <2>4, <3>1 DEF CombinedRow
    <3>4. sleeve[x] = SleeveShare(frames, subject.split, last, x)
      BY <2>4, <2>5 DEF SleeveRow
    <3>. QED
      BY <3>2, <3>3, <3>4
  <2>7. ASSUME NEW x \in DOMAIN row
        PROVE  \E t \in DOMAIN tape : Priced(tape, t, x) /\ last + subject.lag - t =< subject.staleness
    <3>1. PICK m \in DOMAIN frames : x \in DOMAIN frames[m][last]
      BY <2>4 DEF Held
    <3>2. x \in Universe(subject.rules[m])
      BY <2>1, <3>1
    <3>3. PICK t \in DOMAIN tape : Priced(tape, t, x) /\ t >= last + subject.lag - subject.staleness
      BY <2>1, <2>2, <3>1, <3>2 DEF DataArrived, last
    <3>4. subject.lag \in Int /\ subject.staleness \in Int /\ t \in Int
      BY ReportAssumption, TapeDays DEF Kind
    <3>. QED
      BY <2>2, <3>3, <3>4
  <2>8. Cardinality({x \in DOMAIN sleeve : sleeve[x] # 0}) =< subject.limits.positions
    BY <2>1, <2>5 DEF WithinLimits
  <2>. QED
    BY <2>3, <2>6, <2>7, <2>8 DEF WholePortfolio, last, sleeve
<1>. QED
  BY <1>1, TapeStays, SubjectStays, PTL DEF HealthyMeansWhole

\* Whatever the days bring, and however many they are: a strategy's weights, a
\* backtest's returns, a walk-forward's selections, a panel's values, the paper
\* track's returns, and an overlay's weights and trials are never revised; an
\* overlay's if the last trading day of a month knows that it is, which it does
\* unless there are holidays behind it (month_end_mask).
THEOREM NeverRevised ==
  Spec => [][tape' # <<>> /\ subject.kind \in CausalKinds /\ CalendarKept' => Unrevised]_vars
<1>1. IsTape /\ IsTape' /\ subject \in Subjects /\ [Next]_vars
        => [tape' # <<>> /\ subject.kind \in CausalKinds /\ CalendarKept' => Unrevised]_vars
  <2>. SUFFICES ASSUME IsTape, IsTape', subject \in Subjects, [Next]_vars, tape' # <<>>,
                       subject.kind \in CausalKinds, CalendarKept'
                PROVE  Unrevised
    OBVIOUS
  <2>1. Longer(tape, tape') /\ subject' = subject
    BY StepIsLonger
  <2>2. subject.kind = "overlay" => OnCalendar(tape')
    BY <2>1 DEF CalendarKept, Kind, OnCalendar
  <2>3. \/ Said(subject, tape') = <<>> /\ subject.kind \in {"market", "paper"}
        \/ \A t \in DOMAIN Said(subject, tape) : Said(subject, tape')[t] = Said(subject, tape)[t]
    BY <2>1, <2>2, SameSaid
  <2>. QED
    BY <2>3 DEF Unrevised, Kind
<1>. QED
  BY <1>1, TapeStays, SubjectStays, PTL DEF Spec

\* What is handed out has the fields and reaches back to the day asked for,
\* whatever was fetched before, with which start, and whatever failed (TrueData,
\* qrl/data.py).
THEOREM TruePricesHold == Spec /\ []LoadsFit => [](Kind("cache") => TruePrices)
<1>1. IsTape /\ subject \in Subjects /\ LoadsFit => (Kind("cache") => TruePrices)
  <2>. SUFFICES ASSUME IsTape, subject \in Subjects, LoadsFit, Kind("cache")
                PROVE  TruePrices
    OBVIOUS
  <2>. DEFINE cache == CacheAfter(tape, subject)
              good(t) == CacheFits(cache[t], Broken(cache, t))
              T == {t \in Nat : t =< Len(tape) => good(t)}
  <2>1. Len(tape) \in Nat /\ DOMAIN tape = 1..Len(tape)
    BY TapeDays
  <2>2. CachesUpTo(cache, Len(tape), tape, subject)
    BY <2>1, CacheSteps
  <2>. HIDE DEF cache
  <2>3. good(0)
    <3>. DEFINE first == [parquet |-> subject.parquet, csv |-> subject.csv, start |-> NaN, served |-> NaN]
                frame == Migrated(first).parquet
    <3>1. cache[0] = first
      BY <2>2 DEF CachesUpTo
    <3>2. frame = (IF subject.parquet = NaN THEN subject.csv ELSE subject.parquet)
      BY DEF Migrated
    <3>3. frame # NaN => frame \in {subject.parquet, subject.csv} \ {NaN}
      BY <3>2
    <3>4. \A f \in {subject.parquet, subject.csv} \ {NaN} :
            f \in [from : Int, bars : BOOLEAN] /\ f.from =< LegacyStart
      BY CacheAssumption DEF Kind
    <3>. HIDE DEF frame
    <3>5. frame # NaN => frame.from \in Int /\ frame.from =< LegacyStart
      BY <3>3, <3>4
    <3>. QED
      BY <3>1, <3>5 DEF CacheFits, CacheFields, frame
  <2>4. ASSUME NEW t \in 1..Len(tape), good(t - 1)
        PROVE  good(t) /\ HandsOut(cache[t].served, tape[t], Broken(cache, t))
    <3>1. cache[t] = Load(cache[t - 1], tape[t])
      BY <2>2 DEF CachesUpTo
    <3>2. tape[t].start \in Int
      BY <2>1 DEF LoadsFit
    <3>3. BreaksBy(Broken(cache, t - 1), cache[t - 1], tape[t], Broken(cache, t))
      BY BreaksLast
    <3>. QED
      BY <2>4, <3>1, <3>2, <3>3, LoadKeeps
  <2>5. 0 \in T
    BY <2>3
  <2>6. ASSUME NEW t \in T PROVE t + 1 \in T
    <3>. SUFFICES ASSUME t + 1 =< Len(tape)
                  PROVE  good(t + 1)
      OBVIOUS
    <3>1. t + 1 \in 1..Len(tape) /\ (t + 1) - 1 = t /\ good(t)
      BY <2>1
    <3>. HIDE DEF good
    <3>. QED
      BY <2>4, <3>1
  <2>. HIDE DEF T
  <2>7. \A t \in Nat : t \in T
    <3>1. T \in SUBSET Nat
      BY DEF T
    <3>. QED
      BY <2>5, <2>6, <3>1, SetInduction
  <2>8. ASSUME NEW t \in DOMAIN tape
        PROVE  HandsOut(cache[t].served, tape[t], Broken(cache, t))
    <3>1. t \in 1..Len(tape) /\ t - 1 \in Nat /\ t - 1 =< Len(tape)
      BY <2>1
    <3>2. good(t - 1)
      BY <2>7, <3>1 DEF T
    <3>. HIDE DEF good
    <3>. QED
      BY <2>4, <3>1, <3>2
  <2>. QED
    BY <2>8 DEF TruePrices, HandsOut, Broken, Fetches, cache
<1>. QED
  BY <1>1, TapeStays, SubjectStays, PTL

\* What a company is ranked by is what it was worth in the market that day, whatever
\* was split between a filing, a close and today (TrueData, pit_universe.py).
THEOREM TrueCapsHold == Spec /\ []CountsTrue => [](Kind("factor") => TrueCaps)
<1>1. IsTape /\ subject \in Subjects /\ CountsTrue => (Kind("factor") => TrueCaps)
  <2>. SUFFICES ASSUME IsTape, subject \in Subjects, CountsTrue, Kind("factor"),
                       NEW t \in DOMAIN tape, NEW x \in Tickers,
                       MarketCap(tape, t, x, subject.limit) # NaN
                PROVE  \E u \in t - subject.limit..t :
                         /\ u > 0 /\ Priced(tape, u, x)
                         /\ MarketCap(tape, t, x, subject.limit)
                              = Ratio(tape[u].bars[x].close * TrueShares(x, u), 1)
    BY DEF TrueCaps
  <2>. DEFINE limit == subject.limit
              fact == SharesFact(tape, t, x)
              shares == EffectiveShares(tape, t, x)
              price == LastClose(tape, t, x, limit)
              priced == {u \in t - limit..t : u \in DOMAIN tape /\ Priced(tape, u, x)}
              u == Max(priced)
              c == tape[u].bars[x].close
              Q == SplitFactor(tape, x, u)
              k == TrueShares(x, u)
  <2>1. Len(tape) \in Nat /\ DOMAIN tape = 1..Len(tape) /\ limit \in Nat /\ CompaniesFit(tape)
    BY TapeDays, RuleAssumption DEF Kind, CountsTrue
  <2>2. shares # NaN /\ price # NaN /\ MarketCap(tape, t, x, limit) = Times(Ratio(shares, 1), price)
    BY DEF MarketCap
  <2>3. fact # NaN /\ shares = fact.val * SplitFactor(tape, x, fact.filed)
    BY <2>2 DEF EffectiveShares
  <2>4. priced # {} /\ price = Ratio(c, Q)
    BY <2>2 DEF LastClose, AdjustedClose
  <2>5. u \in priced
    <3>1. priced \in SUBSET (1..Len(tape))
      BY <2>1
    <3>. HIDE DEF priced
    <3>. QED
      BY <2>1, <2>4, <3>1, LastDay
  <2>6. fact.val = TrueShares(x, fact.filed) /\ fact.filed \in 0..Len(tape)
    <3>1. fact \in Counts(t, x) /\ fact.filed \in 1..t - 1
      BY <2>1, <2>3, SharesFactCounts, SharesFactFits
    <3>. HIDE DEF fact
    <3>. QED
      BY <2>1, <3>1 DEF CountsTrue
  <2>7. u \in DOMAIN tape /\ u \in t - limit..t /\ Priced(tape, u, x)
    BY <2>5
  <2>. HIDE DEF fact, shares, price, priced, u, limit
  <2>8. c \in Int
    BY <2>1, <2>7 DEF CompaniesFit
  <2>9. k \in Nat \ {0} /\ Q \in Nat \ {0} /\ shares = k * Q
    <3>1. \A v \in DOMAIN tape : tape[v].split[x] \in Nat \ {0}
      BY <2>1 DEF CompaniesFit
    <3>2. \A v \in 0..Len(tape) :
            /\ TrueShares(x, v) \in Nat \ {0} /\ SplitFactor(tape, x, v) \in Nat \ {0}
            /\ TrueShares(x, v) * SplitFactor(tape, x, v) = TrueShares(x, Len(tape))
      BY <3>1, SharesGrow
    <3>3. u \in 0..Len(tape)
      BY <2>1, <2>7
    <3>. QED
      BY <2>3, <2>6, <3>2, <3>3
  <2>. HIDE DEF c, Q, k
  <2>10. Times(Ratio(shares, 1), price) = Ratio(c * k, 1)
    <3>. DEFINE one == Times(Ratio(shares, 1), price)
                two == Ratio(c * k, 1)
    <3>1. shares \in Int /\ c * k \in Int /\ shares * c \in Int /\ 1 * Q \in Nat \ {0}
          /\ (shares * c) * 1 = (c * k) * (1 * Q)
      <4>1. (k * Q) * c = (c * k) * Q
        BY <2>8, <2>9
      <4>. QED
        BY <2>8, <2>9, <4>1
    <3>2. Worth(Ratio(shares, 1), shares, 1) /\ Worth(price, c, Q) /\ Worth(two, c * k, 1)
      BY <2>4, <2>8, <2>9, <3>1, RatioWorth
    <3>3. Worth(one, shares * c, 1 * Q)
      BY <3>2, TimesWorth
    <3>. HIDE DEF one, two
    <3>4. Worth(one, c * k, 1)
      BY <3>1, <3>3, WorthSame
    <3>5. one = two
      BY <3>2, <3>4, WorthIsUnique
    <3>. QED
      BY <3>5 DEF one, two
  <2>. QED
    <3>1. u > 0 /\ MarketCap(tape, t, x, limit) = Ratio(c * k, 1)
      BY <2>1, <2>2, <2>7, <2>10
    <3>. QED
      BY <2>7, <3>1 DEF c, k, limit
<1>. QED
  BY <1>1, TapeStays, SubjectStays, PTL

\* A trailing year is the truth about four quarters in a row, the last of which was
\* filed on an earlier day, whatever was filed late, only as a year, or not at all
\* (TrueData, _ttm_state).
THEOREM TrueEarningsHold == Spec /\ []EarningsTrue => [](Kind("facts") => TrueEarnings)
<1>1. IsTape /\ EarningsTrue => (Kind("facts") => TrueEarnings)
  <2>. SUFFICES ASSUME IsTape, EarningsTrue, Kind("facts"), NEW t \in DOMAIN tape,
                       TtmPanel(tape, 1, "earned")[t] # NaN
                PROVE  \E e \in Year..t - 1 :
                         /\ Fresh(t, e)
                         /\ \E u \in 1..t - 1 : \E f \in tape[u].filings[1] : f.end = e
                         /\ TtmPanel(tape, 1, "earned")[t] = SumOver(e - Year + 1..e, TrueQuarter)
    BY DEF TrueEarnings
  <2>. DEFINE last == Len(tape)
              q == [e \in 1..last |-> TrueQuarter(e)]
              facts(span) == Public(tape, t, 1, "earned", span)
              quarters == LastReports(facts(1))
              years == LastReports(facts(Year))
              state == Trailing12(quarters, years)
              n == t - 1
  <2>1. last \in Nat /\ DOMAIN tape = 1..last /\ n \in Nat /\ 1..n \in SUBSET (1..last)
    BY TapeDays
  <2>2. FilingsFit(tape, 1) /\ \A e \in 1..last : TrueQuarter(e) \in Int
    BY DEF EarningsTrue
  <2>3. ASSUME NEW span \in {1, Year}
        PROVE  /\ FactsUpTo(facts(span), t)
               /\ \A f \in facts(span) :
                    /\ f.end \in span..n /\ f.val = SumOver(f.end - span + 1..f.end, TrueQuarter)
                    /\ \E u \in 1..n : \E g \in tape[u].filings[1] : g.end = f.end
    <3>1. /\ FactsUpTo(facts(span), t)
          /\ \A f \in facts(span) :
              \E u \in 1..n : \E g \in tape[u].filings[1] :
                g.concept = "earned" /\ g.span = span /\ f.end = g.end /\ f.val = g.val /\ f.filed = u
      BY <2>1, <2>2, PublicIsFiled
    <3>2. ASSUME NEW f \in facts(span)
          PROVE  /\ f.end \in span..n /\ f.val = SumOver(f.end - span + 1..f.end, TrueQuarter)
                 /\ \E u \in 1..n : \E g \in tape[u].filings[1] : g.end = f.end
      <4>. HIDE DEF facts, last, n
      <4>0. PICK u \in 1..n : \E g \in tape[u].filings[1] :
              g.concept = "earned" /\ g.span = span /\ f.end = g.end /\ f.val = g.val
        BY <3>1
      <4>1. PICK g \in tape[u].filings[1] :
              g.concept = "earned" /\ g.span = span /\ f.end = g.end /\ f.val = g.val
        BY <4>0
      <4>2. u \in DOMAIN tape
        BY <2>1
      <4>3. g.end \in span..u /\ g.val = SumOver(g.end - span + 1..g.end, TrueQuarter)
        BY <4>1, <4>2 DEF EarningsTrue
      <4>4. \A k \in span..u : k \in span..n
        BY <2>1 DEF Year
      <4>. QED
        BY <4>1, <4>3, <4>4
    <3>. QED
      BY <3>1, <3>2
  <2>4. ASSUME NEW a \in Int, NEW b \in Int, a..b \in SUBSET (1..last)
        PROVE  SumOver(a..b, TrueQuarter) = SumFunctionOnSet(q, a..b)
    <3>1. IsFiniteSet(a..b)
      BY FS_Interval
    <3>2. \A e \in a..b : q[e] = TrueQuarter(e)
      BY <2>4
    <3>. DEFINE S == a..b
    <3>. HIDE DEF q, S
    <3>3. SumOver(S, TrueQuarter) = SumFunctionOnSet(q, S)
      BY <3>1, <3>2, QuartersAddUp DEF S
    <3>. QED
      BY <3>3 DEF S
  <2>5. \A e \in 1..last : q[e] = TrueQuarter(e) /\ q[e] \in Int
    BY <2>2
  <2>. HIDE DEF q, facts, last
  <2>6. ASSUME NEW e \in DOMAIN quarters
        PROVE  /\ e \in 1..n /\ quarters[e] = q[e]
               /\ \E u \in 1..n : \E g \in tape[u].filings[1] : g.end = e
    <3>1. PICK f \in facts(1) : f.end = e /\ f.val = quarters[e]
      BY <2>3, ReportIsFact
    <3>2. e \in 1..n /\ quarters[e] = SumOver(e - 1 + 1..e, TrueQuarter)
          /\ \E u \in 1..n : \E g \in tape[u].filings[1] : g.end = e
      BY <2>3, <3>1
    <3>. HIDE DEF quarters
    <3>3. e \in Int /\ e - 1 + 1 = e /\ e..e = {e} /\ e \in 1..last
      BY <2>1, <3>2
    <3>4. quarters[e] = SumFunctionOnSet(q, {e})
      <4>1. e..e \in SUBSET (1..last)
        BY <3>3
      <4>2. SumOver(e..e, TrueQuarter) = SumFunctionOnSet(q, e..e)
        BY <2>4, <3>3, <4>1
      <4>. QED
        BY <3>2, <3>3, <4>2
    <3>5. SumFunctionOnSet(q, {e}) = q[e]
      <4>. DEFINE U == {e}
      <4>0. IsFiniteSet(U) /\ {} \in SUBSET U /\ e \in U \ {} /\ {} \cup {e} = U /\ \A d \in U : q[d] \in Int
        BY <2>5, <3>3, FS_Singleton
      <4>. HIDE DEF U
      <4>1. \A D \in SUBSET U :
              /\ SumFunctionOnSet(q, D) \in Int
              /\ \A d \in U \ D : SumFunctionOnSet(q, D \cup {d}) = q[d] + SumFunctionOnSet(q, D)
        BY <4>0, SumGrows
      <4>2. SumFunctionOnSet(q, {}) = 0
        BY SumOfNone
      <4>3. \A d \in U \ {} : SumFunctionOnSet(q, {} \cup {d}) = q[d] + SumFunctionOnSet(q, {})
        BY <4>0, <4>1
      <4>4. SumFunctionOnSet(q, U) = q[e] + 0
        BY <4>0, <4>2, <4>3
      <4>. QED
        BY <2>5, <3>3, <4>4 DEF U
    <3>. QED
      BY <3>2, <3>4, <3>5
  <2>7. ASSUME NEW e \in DOMAIN years
        PROVE  /\ e \in Year..n /\ years[e] = SumFunctionOnSet(q, e - Year + 1..e)
               /\ \E u \in 1..n : \E g \in tape[u].filings[1] : g.end = e
    <3>1. PICK f \in facts(Year) : f.end = e /\ f.val = years[e]
      BY <2>3, ReportIsFact
    <3>2. e \in Year..n /\ years[e] = SumOver(e - Year + 1..e, TrueQuarter)
          /\ \E u \in 1..n : \E g \in tape[u].filings[1] : g.end = e
      BY <2>3, <3>1
    <3>. DEFINE a == e - Year + 1
    <3>3. a \in Int /\ e \in Int /\ a..e \in SUBSET (1..last)
      BY <2>1, <3>2 DEF Year
    <3>. HIDE DEF years, a
    <3>4. SumOver(a..e, TrueQuarter) = SumFunctionOnSet(q, a..e)
      BY <2>4, <3>3
    <3>. QED
      BY <3>2, <3>4 DEF a
  <2>8. Reported(q, n, quarters, years)
    <3>1. Series(quarters) /\ Series(years)
      BY <2>3, ReportsFit
    <3>. HIDE DEF quarters, years, n
    <3>. QED
      BY <2>1, <2>5, <2>6, <2>7, <3>1 DEF Reported
  <2>9. state # NaN /\ Fresh(t, state.end) /\ TtmPanel(tape, 1, "earned")[t] = state.val
    BY DEF TtmPanel, facts
  <2>. DEFINE e == state.end
  <2>10. /\ e \in DOMAIN quarters \cup DOMAIN years /\ e \in Year..n
         /\ state.val = SumFunctionOnSet(q, e - Year + 1..e)
    <3>. HIDE DEF quarters, years, n
    <3>. QED
      BY <2>8, <2>9, TrailingIsTrue
  <2>. HIDE DEF quarters, years, state, e
  <2>11. \E u \in 1..n : \E f \in tape[u].filings[1] : f.end = e
    BY <2>6, <2>7, <2>10
  <2>12. state.val = SumOver(e - Year + 1..e, TrueQuarter)
    <3>. DEFINE a == e - Year + 1
    <3>1. a \in Int /\ e \in Int /\ a..e \in SUBSET (1..last)
      BY <2>1, <2>10 DEF Year
    <3>. HIDE DEF a
    <3>2. SumOver(a..e, TrueQuarter) = SumFunctionOnSet(q, a..e)
      BY <2>4, <3>1
    <3>. QED
      BY <2>10, <3>2 DEF a
  <2>. QED
    BY <2>9, <2>10, <2>11, <2>12 DEF e
<1>. QED
  BY <1>1, TapeStays, PTL

\* The draws of an overlay change places among any number of spells of a signal.
DrawsFit ==
  Kind("overlay") => \A draw \in subject.draws, s \in SignalsOf(subject) : IsDraw(draw[s], Len(tape))

\* The null's signals are as long on, and change as often, as the real ones, from the
\* month's end on that governs a period; before it they are the real ones (TrueData,
\* overlay_null.py).
THEOREM NullIsMatchedHolds == Spec /\ []DrawsFit => [](Kind("overlay") => NullIsMatched)
<1>1. IsTape /\ DrawsFit => (Kind("overlay") => NullIsMatched)
  <2>. SUFFICES ASSUME IsTape, DrawsFit, Kind("overlay")
                PROVE  NullIsMatched
    OBVIOUS
  <2>. DEFINE monthly == MonthlyStates(tape, subject)
              n == Len(tape)
              signals == SignalsOf(subject)
  <2>1. NullIsMatched <=>
          \A m \in {monthly} : DOMAIN m # {} =>
            \A draw \in subject.draws, begin \in {subject.begin, subject.researchEnd + 1} :
              \A null \in {ShuffleStates(m, signals, begin, draw)} : Matched(m, null, signals, begin)
    BY DEF NullIsMatched, Matched
  <2>2. n \in Nat /\ DOMAIN monthly \in SUBSET (1..n)
    BY TapeDays DEF MonthlyStates
  <2>3. \A draw \in subject.draws, s \in signals : IsDraw(draw[s], n)
    BY DEF DrawsFit
  <2>. HIDE DEF monthly, signals, n
  <2>4. ASSUME DOMAIN monthly # {}, NEW draw \in subject.draws, NEW begin
        PROVE  Matched(monthly, ShuffleStates(monthly, signals, begin, draw), signals, begin)
    <3>1. IsShuffle(monthly, n, signals, draw)
      BY <2>2, <2>3, <2>4 DEF IsShuffle
    <3>. QED
      BY <3>1, StatesMatch
  <2>. QED
    BY <2>1, <2>4
<1>. QED
  BY <1>1, TapeStays, PTL

=============================================================================
