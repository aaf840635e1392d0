------------------------------- MODULE Frames -------------------------------
(***************************************************************************)
(* Price frames.  A tape is the sequence of the trading days seen so far;  *)
(* a day gives every ticker a bar, or NaN when it has no price.  A bar     *)
(* carries all its fields or none.  Weights are whole parts of Unit, and a *)
(* row of weights is NaN or a function from tickers.                       *)
(***************************************************************************)
EXTENDS Integers, Sequences, FiniteSets, SequencesExt

CONSTANTS
  NaN,        \* no price, no value, no weights
  Unit        \* all of the capital

ASSUME FramesAssumption ==
  Unit \in Nat \ {0} /\ NaN \notin Int /\ NaN \notin [n : Int, d : Int]

SumOver(S, f(_)) == FoldSet(LAMBDA x, acc : f(x) + acc, 0, S)

\* One ticker's column of one field.
Column(tape, field, x) ==
  [t \in DOMAIN tape |-> IF tape[t].bars[x] = NaN THEN NaN ELSE tape[t].bars[x][field]]

Closes(tape, x) == Column(tape, "close", x)

\* A column as it was on a day.
UpTo(col, t) == [u \in 1..t |-> col[u]]

Priced(tape, t, x) == tape[t].bars[x] # NaN

\* rolling(n, min_periods=n): no value unless all n cells have one.
Window(t, n) == {u \in 1..t : u > t - n}
Full(col, t, n) == t >= n /\ \A u \in Window(t, n) : col[u] # NaN
WindowSum(col, t, n) == SumFunction([u \in Window(t, n) |-> col[u]])

\* price > price.rolling(n, min_periods=n).mean(), false on a missing mean.
AboveMean(col, t, n) == Full(col, t, n) /\ n * col[t] > WindowSum(col, t, n)

\* diff() < 0, n times in a row up to t.
DownStreak(col, t, n) ==
  \A u \in t - n + 1..t :
    u > 1 /\ col[u] # NaN /\ col[u - 1] # NaN /\ col[u] < col[u - 1]

\* The leading run of rows for which a mask holds.
InLeadingRun(mask(_), t) == \A u \in 1..t : mask(u)

\* Scores are fractions, here in lowest terms; a missing one ranks behind all
\* others.
Abs(i) == IF i < 0 THEN -i ELSE i
Divisor(a, b) ==
  LET gcd[p \in Nat \X Nat] == IF p[2] = 0 THEN p[1] ELSE gcd[<<p[2], p[1] % p[2]>>] IN gcd[<<a, b>>]
Fraction(n, d) == IF d = 0 THEN NaN ELSE IF d < 0 THEN [n |-> -n, d |-> -d] ELSE [n |-> n, d |-> d]
Ratio(n, d) == LET k == Divisor(Abs(n), d) IN [n |-> n \div k, d |-> d \div k]
Higher(a, b) ==
  a # NaN /\ (b = NaN \/ IF a.d = b.d THEN a.n > b.n
                          ELSE LET k == Divisor(a.d, b.d) IN a.n * (b.d \div k) > b.n * (a.d \div k))

\* Their arithmetic.
Plus(a, b) ==
  IF a.d = b.d THEN Ratio(a.n + b.n, a.d)
  ELSE LET k == Divisor(a.d, b.d) IN Ratio(a.n * (b.d \div k) + b.n * (a.d \div k), (a.d \div k) * b.d)
Minus(a, b) == Plus(a, [b EXCEPT !.n = -@])
Times(a, b) ==
  LET left == Ratio(a.n, b.d)
      right == Ratio(b.n, a.d)
  IN  [n |-> left.n * right.n, d |-> left.d * right.d]
Over(a, b) == Times(a, Ratio(b.d, b.n))
Zero == Ratio(0, 1)
One == Ratio(1, 1)
Total(S, f(_)) == FoldSet(LAMBDA x, acc : Plus(f(x), acc), Ratio(0, 1), S)
Product(S, f(_)) == FoldSet(LAMBDA x, acc : Times(f(x), acc), Ratio(1, 1), S)

\* What a growth per day is over all of its days.
Compounded(growth) == Product(DOMAIN growth, LAMBDA t : growth[t])

\* The deepest fall below an earlier day over a stretch of days whose growth is
\* given.  The capital before the first day counts for nothing.
Drawdown(growth) ==
  LET spans == {s \in (DOMAIN growth) \X (DOMAIN growth) : s[1] =< s[2]}
      falls == {Minus(Ratio(1, 1), Product(s[1] + 1..s[2], LAMBDA t : growth[t])) : s \in spans}
  IN  CHOOSE d \in falls \cup {Ratio(0, 1)} : \A e \in falls : ~Higher(e, d)

\* The first of those where a function is lowest.
FirstLowest(f, S) ==
  CHOOSE x \in S : \A y \in S : ~Higher(f[x], f[y]) /\ (f[y] = f[x] => x =< y)

\* x comes before y in a ranking by score, ties by ticker.
Before(score, x, y) == Higher(score[x], score[y]) \/ (~Higher(score[y], score[x]) /\ x < y)

\* The n first of a set in that ranking.
Best(S, score, n) == {x \in S : Cardinality({y \in S : Before(score, y, x)}) < n}

\* Some numbers in ascending order, each by how many are not above it.
InOrder(S) == [k \in 1..Cardinality(S) |-> CHOOSE x \in S : Cardinality({y \in S : y =< x}) = k]

\* An equal split of an amount among a set.
EqualSplit(S, amount, x) == IF x \in S THEN amount \div Cardinality(S) ELSE 0

Invested(row) == SumFunction(row)

=============================================================================
