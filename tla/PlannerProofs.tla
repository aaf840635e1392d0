--------------------------- MODULE PlannerProofs ---------------------------
(***************************************************************************)
(* Theorems about Planner, for every finite set of symbols, all prices,    *)
(* holdings and weights, and every buffer, deadband and gross cap.         *)
(***************************************************************************)
EXTENDS Planner, FiniteSetTheorems, WellFoundedInduction, TLAPS

-----------------------------------------------------------------------------
(* Sums.  SumFunction takes the elements of a set one by one, as CHOOSE    *)
(* picks them; what it returns for a finite set follows by induction on    *)
(* the number of its elements.                                             *)

Less == {ss \in Nat \X Nat : ss[1] < ss[2]}

\* A set of numbers that has 0 and all successors has them all.
LEMMA SetInduction ==
  ASSUME NEW T \in SUBSET Nat, 0 \in T, \A n \in T : n + 1 \in T
  PROVE  \A n \in Nat : n \in T
<1>. SUFFICES ASSUME Nat \ T # {} PROVE FALSE
  OBVIOUS
<1>1. IsWellFoundedOn(OpToRel(<, Nat), Nat)
  BY NatLessThanWellFounded
<1>2. IsWellFoundedOn(Less, Nat)
  BY <1>1 DEF OpToRel, Less
<1>3. PICK m \in Nat \ T : \A k \in Nat \ T : ~ (<<k, m>> \in Less)
  BY <1>2, WFMin, Zenon
<1>4. m \in Nat /\ m # 0
  OBVIOUS
<1>5. m - 1 \in Nat /\ m - 1 < m /\ (m - 1) + 1 = m
  BY <1>4
<1>6. m - 1 \in T
  BY <1>3, <1>5 DEF Less
<1>. QED
  BY <1>5, <1>6

Chosen(s) == CHOOSE x \in s : TRUE

\* g gives the sums of f over the subsets of S with at most n elements.
SumsUpTo(f, S, g, n) ==
  \A s \in SUBSET S : Cardinality(s) =< n =>
    g[s] = IF s = {} THEN 0 ELSE f[Chosen(s)] + g[s \ {Chosen(s)}]

\* A smaller set is left when the chosen element is taken away.
LEMMA WithoutChosen ==
  ASSUME NEW S, IsFiniteSet(S), NEW s \in SUBSET S, s # {}
  PROVE  /\ Chosen(s) \in s /\ s \ {Chosen(s)} \in SUBSET S
         /\ Cardinality(s) \in Nat /\ Cardinality(s \ {Chosen(s)}) \in Nat
         /\ Cardinality(s) = Cardinality(s \ {Chosen(s)}) + 1
<1>1. Chosen(s) \in s
  BY DEF Chosen
<1>2. IsFiniteSet(s) /\ Cardinality(s) \in Nat
  BY FS_Subset, FS_CardinalityType
<1>3. /\ IsFiniteSet(s \ {Chosen(s)})
      /\ Cardinality(s \ {Chosen(s)}) = Cardinality(s) - 1
  BY <1>1, <1>2, FS_RemoveElement
<1>4. Cardinality(s \ {Chosen(s)}) \in Nat
  BY <1>3, FS_CardinalityType
<1>. QED
  BY <1>1, <1>2, <1>3, <1>4

\* There are such sums for every number of elements.
LEMMA SumsExist ==
  ASSUME NEW S, IsFiniteSet(S), NEW f
  PROVE  \A n \in Nat : \E g : SumsUpTo(f, S, g, n)
<1>. DEFINE T == {n \in Nat : \E g : SumsUpTo(f, S, g, n)}
<1>1. 0 \in T
  <2>. DEFINE g == [s \in SUBSET S |-> 0]
  <2>1. ASSUME NEW s \in SUBSET S, Cardinality(s) =< 0 PROVE s = {}
    BY <2>1, FS_Subset, FS_EmptySet, FS_CardinalityType
  <2>2. SumsUpTo(f, S, g, 0)
    BY <2>1 DEF SumsUpTo
  <2>. QED
    BY <2>2
<1>2. ASSUME NEW n \in T PROVE n + 1 \in T
  <2>1. PICK g : SumsUpTo(f, S, g, n)
    OBVIOUS
  <2>. DEFINE h == [s \in SUBSET S |-> IF s = {} THEN 0 ELSE f[Chosen(s)] + g[s \ {Chosen(s)}]]
  <2>2. ASSUME NEW s \in SUBSET S, Cardinality(s) =< n + 1, s # {}
        PROVE  h[s] = f[Chosen(s)] + h[s \ {Chosen(s)}]
    <3>. DEFINE t == s \ {Chosen(s)}
    <3>1. t \in SUBSET S /\ Cardinality(t) =< n
      BY <2>2, WithoutChosen
    <3>2. h[t] = g[t]
      BY <2>1, <3>1 DEF SumsUpTo
    <3>. QED
      BY <2>2, <3>2
  <2>3. SumsUpTo(f, S, h, n + 1)
    <3>. HIDE DEF h
    <3>1. h[{}] = 0
      BY DEF h
    <3>. QED
      BY <2>2, <3>1 DEF SumsUpTo
  <2>. QED
    BY <2>3
<1>. HIDE DEF T
<1>3. T \in SUBSET Nat
  BY DEF T
<1>4. \A n \in Nat : n \in T
  BY <1>1, <1>2, <1>3, SetInduction
<1>. QED
  BY <1>4 DEF T

\* The sums of f over the subsets of S, as SumFunction computes them.
Sums(f, S) ==
  CHOOSE iter : iter = [s \in SUBSET S |-> IF s = {} THEN 0 ELSE f[Chosen(s)] + iter[s \ {Chosen(s)}]]

\* SumFunction is their last.
LEMMA SumIsLast ==
  ASSUME NEW S, NEW f, DOMAIN f = S
  PROVE  SumFunction(f) = Sums(f, S)[S]
BY DEF SumFunction, SumFunctionOnSet, FoldFunctionOnSet, MapThenFoldSet, Chosen, Sums

\* And they are what they should be.
LEMMA SumsStep ==
  ASSUME NEW S, IsFiniteSet(S), NEW f, NEW s \in SUBSET S
  PROVE  Sums(f, S)[s] = IF s = {} THEN 0 ELSE f[Chosen(s)] + Sums(f, S)[s \ {Chosen(s)}]
<1>1. Cardinality(S) \in Nat /\ \A t \in SUBSET S : Cardinality(t) =< Cardinality(S)
  BY FS_CardinalityType, FS_Subset
<1>2. PICK g : SumsUpTo(f, S, g, Cardinality(S))
  BY <1>1, SumsExist
<1>. DEFINE h == [t \in SUBSET S |-> g[t]]
<1>3. \A t \in SUBSET S : h[t] = IF t = {} THEN 0 ELSE f[Chosen(t)] + h[t \ {Chosen(t)}]
  BY <1>1, <1>2 DEF SumsUpTo
<1>4. h = [t \in SUBSET S |-> IF t = {} THEN 0 ELSE f[Chosen(t)] + h[t \ {Chosen(t)}]]
  <2>. HIDE DEF h
  <2>1. h = [t \in SUBSET S |-> h[t]]
    BY DEF h
  <2>. QED
    BY <1>3, <2>1
<1>. HIDE DEF h
<1>5. Sums(f, S) = [t \in SUBSET S |-> IF t = {} THEN 0 ELSE f[Chosen(t)] + Sums(f, S)[t \ {Chosen(t)}]]
  BY <1>4 DEF Sums
<1>. QED
  BY <1>5

\* A linear combination that is not positive.
Below(a, b, c, x, y, z) == a * x + b * y + c * z =< 0

\* So are the combinations of sums.
LEMMA BelowAdds ==
  ASSUME NEW a \in Int, NEW b \in Int, NEW c \in Int,
         NEW x \in Int, NEW y \in Int, NEW z \in Int, Below(a, b, c, x, y, z),
         NEW u \in Int, NEW v \in Int, NEW w \in Int, Below(a, b, c, u, v, w)
  PROVE  Below(a, b, c, x + u, y + v, z + w)
<1>1. a * (x + u) = a * x + a * u /\ b * (y + v) = b * y + b * v /\ c * (z + w) = c * z + c * w
  OBVIOUS
<1>. DEFINE ax == a * x
            by == b * y
            cz == c * z
            au == a * u
            bv == b * v
            cw == c * w
<1>2. /\ ax \in Int /\ by \in Int /\ cz \in Int /\ ax + by + cz =< 0
      /\ au \in Int /\ bv \in Int /\ cw \in Int /\ au + bv + cw =< 0
  BY DEF Below
<1>3. a * (x + u) = ax + au /\ b * (y + v) = by + bv /\ c * (z + w) = cz + cw
  BY <1>1
<1>. HIDE DEF ax, by, cz, au, bv, cw
<1>. QED
  BY <1>2, <1>3 DEF Below

\* Sums are numbers, and what holds of a linear combination of the terms holds
\* of the same combination of the sums.
LEMMA SumLinear ==
  ASSUME NEW S, IsFiniteSet(S),
         NEW f \in [S -> Int], NEW g \in [S -> Int], NEW h \in [S -> Int],
         NEW a \in Int, NEW b \in Int, NEW c \in Int,
         \A x \in S : Below(a, b, c, f[x], g[x], h[x])
  PROVE  /\ SumFunction(f) \in Int /\ SumFunction(g) \in Int /\ SumFunction(h) \in Int
         /\ Below(a, b, c, SumFunction(f), SumFunction(g), SumFunction(h))
<1>. DEFINE F == Sums(f, S)
            G == Sums(g, S)
            H == Sums(h, S)
            Good(s) == /\ F[s] \in Int /\ G[s] \in Int /\ H[s] \in Int
                       /\ Below(a, b, c, F[s], G[s], H[s])
            T == {n \in Nat : \A s \in SUBSET S : Cardinality(s) = n => Good(s)}
<1>1. 0 \in T
  <2>1. ASSUME NEW s \in SUBSET S, Cardinality(s) = 0 PROVE Good(s)
    <3>1. s = {}
      BY <2>1, FS_Subset, FS_EmptySet
    <3>2. F[s] = 0 /\ G[s] = 0 /\ H[s] = 0
      BY <3>1, SumsStep
    <3>3. Below(a, b, c, 0, 0, 0)
      BY DEF Below
    <3>. QED
      BY <3>2, <3>3
  <2>. QED
    BY <2>1
<1>2. ASSUME NEW n \in T PROVE n + 1 \in T
  <2>1. n \in Nat /\ \A s \in SUBSET S : Cardinality(s) = n => Good(s)
    OBVIOUS
  <2>. HIDE DEF T, Good
  <2>2. ASSUME NEW s \in SUBSET S, Cardinality(s) = n + 1 PROVE Good(s)
    <3>. DEFINE x == Chosen(s)
                t == s \ {x}
    <3>1. s # {}
      <4>1. Cardinality({}) = 0 /\ n + 1 # 0
        BY <2>1, FS_EmptySet
      <4>. QED
        BY <2>2, <4>1
    <3>2. /\ x \in s /\ t \in SUBSET S
          /\ Cardinality(t) \in Nat /\ Cardinality(s) = Cardinality(t) + 1
      BY <3>1, WithoutChosen
    <3>3. Good(t)
      <4>. HIDE DEF x, t
      <4>1. Cardinality(t) = n
        BY <2>1, <2>2, <3>2
      <4>. QED
        BY <2>1, <3>2, <4>1
    <3>4. F[s] = f[x] + F[t] /\ G[s] = g[x] + G[t] /\ H[s] = h[x] + H[t]
      BY <3>1, SumsStep
    <3>. HIDE DEF F, G, H, x, t
    <3>5. f[x] \in Int /\ g[x] \in Int /\ h[x] \in Int /\ Below(a, b, c, f[x], g[x], h[x])
      BY <3>2
    <3>6. F[t] \in Int /\ G[t] \in Int /\ H[t] \in Int /\ Below(a, b, c, F[t], G[t], H[t])
      BY <3>3 DEF Good
    <3>7. Below(a, b, c, f[x] + F[t], g[x] + G[t], h[x] + H[t])
      BY <3>5, <3>6, BelowAdds
    <3>8. f[x] + F[t] \in Int /\ g[x] + G[t] \in Int /\ h[x] + H[t] \in Int
      BY <3>5, <3>6
    <3>. QED
      BY <3>4, <3>7, <3>8 DEF Good
  <2>. QED
    BY <2>1, <2>2 DEF T
<1>. HIDE DEF T
<1>3. T \in SUBSET Nat
  BY DEF T
<1>4. Cardinality(S) \in T
  BY <1>1, <1>2, <1>3, SetInduction, FS_CardinalityType
<1>5. Good(S)
  BY <1>4 DEF T
<1>6. SumFunction(f) = F[S] /\ SumFunction(g) = G[S] /\ SumFunction(h) = H[S]
  BY SumIsLast
<1>. QED
  BY <1>5, <1>6
\* In particular a sum of numbers is a number.
LEMMA SumType ==
  ASSUME NEW S, IsFiniteSet(S), NEW f \in [S -> Int]
  PROVE  SumFunction(f) \in Int
<1>. DEFINE a == 0
<1>1. a \in Int /\ \A x \in S : Below(a, a, a, f[x], f[x], f[x])
  BY DEF Below
<1>. HIDE DEF a
<1>. QED
  BY <1>1, SumLinear

-----------------------------------------------------------------------------
(* Division that rounds down, and products with a positive factor.         *)

\* The quotient, times the divisor, is at most the dividend.
LEMMA Quotient ==
  ASSUME NEW n \in Int, NEW c \in Int, c > 0
  PROVE  n \div c \in Int /\ c * (n \div c) =< n /\ (n >= 0 => n \div c >= 0)
OBVIOUS

\* A positive factor cancels.
LEMMA Cancels ==
  ASSUME NEW c \in Int, c > 0, NEW q \in Int, NEW d \in Int, c * q =< c * d
  PROVE  q =< d
<1>. SUFFICES ASSUME q >= d + 1 PROVE FALSE
  OBVIOUS
<1>1. c * q = c * d + c * (q - d)
  OBVIOUS
<1>2. c * (q - d) > 0
  OBVIOUS
<1>. QED
  <2>. DEFINE cq == c * q
              cd == c * d
              cr == c * (q - d)
  <2>1. cq \in Int /\ cd \in Int /\ cr \in Int
    OBVIOUS
  <2>2. cq = cd + cr /\ cr > 0 /\ cq =< cd
    BY <1>1, <1>2
  <2>. HIDE DEF cq, cd, cr
  <2>. QED
    BY <2>1, <2>2

\* A factor that is not negative keeps an order.
LEMMA Grows ==
  ASSUME NEW c \in Int, c >= 0, NEW x \in Int, NEW y \in Int, x =< y
  PROVE  c * x =< c * y /\ x * c =< y * c
<1>1. c * (y - x) >= 0
  OBVIOUS
<1>2. c * (y - x) = c * y - c * x
  OBVIOUS
<1>3. c * x \in Int /\ c * y \in Int /\ x * c = c * x /\ y * c = c * y
  OBVIOUS
<1>. QED
  <2>. DEFINE cx == c * x
              cy == c * y
  <2>1. cx \in Int /\ cy \in Int /\ cy - cx >= 0
    BY <1>1, <1>2
  <2>2. cx =< cy
    <3>. HIDE DEF cx, cy
    <3>. QED
      BY <2>1
  <2>. QED
    BY <2>2, <1>3

\* A share of d in the proportion b to c is at most d.
LEMMA ShareOf ==
  ASSUME NEW d \in Int, d >= 0, NEW b \in Int, NEW c \in Int, 0 < b, b < c
  PROVE  /\ (d * b) \div c \in Int /\ 0 =< (d * b) \div c /\ (d * b) \div c =< d
         /\ c * ((d * b) \div c) =< b * d
<1>. DEFINE n == d * b
            q == n \div c
<1>1. n \in Int /\ n >= 0 /\ n = b * d
  OBVIOUS
<1>2. b * d =< c * d
  BY Grows
<1>3. q \in Int /\ c * q =< n /\ q >= 0
  <2>. HIDE DEF n
  <2>. QED
    BY <1>1, Quotient
<1>. HIDE DEF n, q
<1>4. c * q \in Int /\ b * d \in Int /\ c * d \in Int
  BY <1>3
<1>5. c * q =< c * d
  BY <1>1, <1>2, <1>3, <1>4
<1>6. q =< d
  BY <1>3, <1>5, Cancels
<1>. QED
  BY <1>1, <1>3, <1>6 DEF n, q
-----------------------------------------------------------------------------
(* What a plan is, for an account that is not refused one.                 *)

Account ==
  /\ held \in [Symbols -> Int]
  /\ cash \in Int
  /\ close \in [Symbols -> Nat]
  /\ weight \in [Universe -> Int]

\* Shares are worth a whole number of money.
LEMMA WorthType ==
  ASSUME close \in [Symbols -> Nat], NEW shares \in [Symbols -> Int]
  PROVE  Worth(shares) \in Int
<1>. DEFINE f == [s \in Symbols |-> shares[s] * close[s]]
<1>1. f \in [Symbols -> Int]
  OBVIOUS
<1>2. IsFiniteSet(Symbols)
  BY PlannerAssumption
<1>. HIDE DEF f
<1>3. SumFunction(f) \in Int
  BY <1>1, <1>2, SumType
<1>. QED
  BY <1>3 DEF Worth, f

\* Equity is a number; a plan is made only where it is positive, no position
\* is short and what is wanted has a close.
LEMMA NotRefused ==
  ASSUME Account, ~Refused
  PROVE  /\ Equity \in Int /\ Equity > 0
         /\ \A s \in Symbols : held[s] >= 0
         /\ \A s \in Universe : weight[s] > 0 => close[s] > 0
<1>1. Equity \in Int
  BY WorthType DEF Account, Equity
<1>2. \A s \in Universe : weight[s] > 0 => close[s] > 0
  <2>1. ASSUME NEW s \in Universe, weight[s] > 0 PROVE close[s] > 0
    <3>1. s \in Symbols /\ close[s] \in Nat
      BY PlannerAssumption DEF Account
    <3>2. close[s] # 0
      BY <2>1, <3>1 DEF Refused, Relevant
    <3>. QED
      BY <3>1, <3>2
  <2>. QED
    BY <2>1
<1>3. \A s \in Symbols : held[s] >= 0
  BY DEF Account, Refused
<1>. QED
  BY <1>1, <1>2, <1>3 DEF Refused

\* No target is negative.
LEMMA TargetType ==
  ASSUME Account, ~Refused, NEW s \in Symbols
  PROVE  Target(s) \in Nat
<1>. CASE ~ (s \in Universe /\ weight[s] > 0)
  BY DEF Target
<1>. CASE s \in Universe /\ weight[s] > 0
  <2>. DEFINE n == weight[s] * Equity * (Unit - Buffer)
              c == Unit * Unit * close[s]
  <2>1. /\ weight[s] \in Int /\ weight[s] > 0 /\ Equity \in Int /\ Equity > 0
        /\ Unit - Buffer \in Int /\ Unit - Buffer >= 0 /\ Unit \in Int /\ Unit > 0
        /\ close[s] \in Int /\ close[s] > 0
    BY NotRefused, PlannerAssumption DEF Account
  <2>2. weight[s] * Equity \in Int /\ weight[s] * Equity > 0
    BY <2>1
  <2>3. n \in Int /\ n >= 0
    <3>. DEFINE m == weight[s] * Equity
                k == Unit - Buffer
    <3>. HIDE DEF m, k
    <3>1. m \in Int /\ m > 0 /\ k \in Int /\ k >= 0
      BY <2>1, <2>2 DEF m, k
    <3>2. m * k \in Int /\ m * k >= 0
      BY <3>1
    <3>. QED
      BY <3>2 DEF m, k
  <2>4. Unit * Unit \in Int /\ Unit * Unit > 0
    BY <2>1
  <2>5. c \in Int /\ c > 0
    BY <2>1, <2>4
  <2>. HIDE DEF n, c
  <2>6. n \div c \in Int /\ n \div c >= 0
    BY <2>3, <2>5, Quotient
  <2>. QED
    BY <2>6 DEF Target, n, c
<1>. QED
  OBVIOUS

\* The deltas go to the targets, or are 0; to no position at all they always
\* go.
LEMMA DeltasFacts ==
  ASSUME Account, ~Refused
  PROVE  /\ Deltas \in [Symbols -> Int]
         /\ \A s \in Symbols : Deltas[s] = 0 \/ Deltas[s] = Target(s) - held[s]
         /\ \A s \in Symbols : Target(s) = 0 => Deltas[s] = -held[s]
<1>1. ASSUME NEW s \in Symbols
      PROVE  /\ Deltas[s] \in Int
             /\ Deltas[s] = 0 \/ Deltas[s] = Target(s) - held[s]
             /\ Target(s) = 0 => Deltas[s] = -held[s]
  <2>1. Target(s) \in Nat /\ held[s] \in Int
    BY TargetType DEF Account
  <2>2. Deltas[s] = IF InDeadband(s) THEN 0 ELSE Target(s) - held[s]
    BY DEF Deltas
  <2>3. Target(s) = 0 => ~InDeadband(s)
    BY DEF InDeadband
  <2>. QED
    BY <2>1, <2>2, <2>3
<1>2. Deltas = [s \in Symbols |-> Deltas[s]]
  BY DEF Deltas
<1>. QED
  BY <1>1, <1>2

\* The buys and the sells of some deltas.
LEMMA TwoSides ==
  ASSUME NEW d \in [Symbols -> Int]
  PROVE  Buys(d) \in [Symbols -> Int] /\ Sells(d) \in [Symbols -> Int]
BY DEF Buys, Sells

\* The budget is a number.
LEMMA BudgetType ==
  ASSUME Account, ~Refused, NEW d \in [Symbols -> Int]
  PROVE  /\ Worth(Sells(d)) \in Int /\ Worth(Buys(d)) \in Int /\ Worth(Buys(d)) * Unit \in Int
         /\ Budget(d) \in Int
         /\ Budget(d) = (cash + Worth(Sells(d))) * Unit - Buffer * Equity
         /\ (cash + Worth(Sells(d))) * Unit \in Int /\ Buffer * Equity \in Int
<1>1. Worth(Sells(d)) \in Int /\ Worth(Buys(d)) \in Int
  BY TwoSides, WorthType DEF Account
<1>2. cash \in Int /\ Equity \in Int /\ Unit \in Int /\ Buffer \in Int
  BY NotRefused, PlannerAssumption DEF Account
<1>. QED
  BY <1>1, <1>2 DEF Budget

\* Sells stay as they are, and a buy becomes a smaller one or none.
LEMMA CapBuysFacts ==
  ASSUME Account, ~Refused, NEW d \in [Symbols -> Int], NEW s \in Symbols
  PROVE  /\ CapBuys(d)[s] \in Int
         /\ d[s] =< 0 => CapBuys(d)[s] = d[s]
         /\ d[s] > 0 => 0 =< CapBuys(d)[s] /\ CapBuys(d)[s] =< d[s]
<1>. DEFINE cost == Worth(Buys(d)) * Unit
<1>1. d[s] \in Int /\ cost \in Int /\ Budget(d) \in Int
  BY BudgetType
<1>2. CapBuys(d)[s] =
        IF d[s] =< 0 \/ cost =< Budget(d) THEN d[s]
        ELSE IF Budget(d) =< 0 THEN 0
        ELSE (d[s] * Budget(d)) \div cost
  BY DEF CapBuys
<1>. HIDE DEF cost
<1>. CASE d[s] =< 0 \/ cost =< Budget(d) \/ Budget(d) =< 0
  BY <1>1, <1>2
<1>. CASE d[s] > 0 /\ cost > Budget(d) /\ Budget(d) > 0
  <2>1. LET q == (d[s] * Budget(d)) \div cost IN q \in Int /\ 0 =< q /\ q =< d[s]
    BY <1>1, ShareOf
  <2>. QED
    BY <1>1, <1>2, <2>1
<1>. QED
  BY <1>1
-----------------------------------------------------------------------------
(* The account, evening after evening: a queued plan is still the plan of  *)
(* the account, because only the open and, without a plan, the market      *)
(* change what it was made from.                                           *)

Types ==
  /\ Account
  /\ orders \in [Symbols -> Int]
  /\ queued \in BOOLEAN
  /\ moves \in Nat

PlanInv == Types /\ (queued => ~Refused /\ orders = Plan)

\* Orders are whole shares of the account's symbols, signed.
LEMMA PlanType ==
  ASSUME Account, ~Refused
  PROVE  Plan \in [Symbols -> Int]
<1>. DEFINE d == Deltas
<1>1. d \in [Symbols -> Int]
  BY DeltasFacts
<1>. HIDE DEF d
<1>2. \A s \in Symbols : CapBuys(d)[s] \in Int
  BY <1>1, CapBuysFacts
<1>3. CapBuys(d) = [s \in Symbols |-> CapBuys(d)[s]]
  BY DEF CapBuys
<1>4. CapBuys(d) \in [Symbols -> Int]
  <2>. DEFINE p == CapBuys(d)
  <2>1. p = [s \in Symbols |-> p[s]] /\ \A s \in Symbols : p[s] \in Int
    BY <1>2, <1>3
  <2>. HIDE DEF p
  <2>2. p \in [Symbols -> Int]
    BY <2>1
  <2>. QED
    BY <2>2 DEF p
<1>. QED
  BY <1>4 DEF Plan, d

\* The first evening has no plan.
LEMMA PlanStarts == Init => PlanInv
<1>. SUFFICES ASSUME Init PROVE PlanInv
  OBVIOUS
<1>1. Account
  BY PlannerAssumption DEF Init, Account
<1>2. orders \in [Symbols -> Int] /\ moves \in Nat
  BY DEF Init, NoOrders
<1>3. queued \in BOOLEAN /\ ~queued
  BY Zenon DEF Init
<1>. QED
  BY <1>1, <1>2, <1>3 DEF PlanInv, Types

\* The plan is made from the account and the market alone.
LEMMA SamePlan ==
  ASSUME UNCHANGED <<held, cash, close, weight>>
  PROVE  Account' = Account /\ Refused' = Refused /\ Plan' = Plan
<1>1. Equity' = Equity
  BY DEF Equity, Worth
<1>2. Account' = Account /\ Refused' = Refused
  BY <1>1 DEF Account, Refused, Relevant
<1>3. \A s : Target(s)' = Target(s)
  BY <1>1 DEF Target
<1>4. \A s : InDeadband(s)' = InDeadband(s)
  BY <1>1, <1>3 DEF InDeadband
<1>5. Deltas' = Deltas
  BY <1>3, <1>4 DEF Deltas
<1>. DEFINE d == Deltas
<1>6. d' = d
  BY <1>5
<1>. HIDE DEF d
<1>7. Worth(Buys(d))' = Worth(Buys(d)) /\ Budget(d)' = Budget(d)
  BY <1>1, <1>6 DEF Worth, Buys, Sells, Budget
<1>8. CapBuys(d)' = CapBuys(d)
  BY <1>6, <1>7 DEF CapBuys
<1>. QED
  BY <1>2, <1>8 DEF Plan, d

\* An execution gives as many shares and takes as much money as there are.
LEMMA OpenTypes ==
  ASSUME Types, Open
  PROVE  Types'
<1>. PICK price \in Closes \cup {close} :
       /\ moves' = IF price = close THEN moves ELSE moves + 1
       /\ cash' = cash - SumFunction([s \in Symbols |-> orders[s] * price[s]])
       /\ close' = price
  BY DEF Open
<1>1. price \in [Symbols -> Nat]
  BY PlannerAssumption DEF Types, Account
<1>2. SumFunction([s \in Symbols |-> orders[s] * price[s]]) \in Int
  <2>. DEFINE f == [s \in Symbols |-> orders[s] * price[s]]
  <2>1. f \in [Symbols -> Int]
    BY <1>1 DEF Types
  <2>. HIDE DEF f
  <2>2. SumFunction(f) \in Int
    BY <2>1, PlannerAssumption, SumType
  <2>. QED
    BY <2>2 DEF f
<1>3. cash' \in Int
  <2>. DEFINE x == SumFunction([s \in Symbols |-> orders[s] * price[s]])
  <2>. HIDE DEF x
  <2>1. x \in Int /\ cash' = cash - x
    BY <1>2 DEF x
  <2>. QED
    BY <2>1 DEF Types, Account
<1>4. held' \in [Symbols -> Int]
  BY DEF Open, Types, Account
<1>5. orders' \in [Symbols -> Int] /\ weight' \in [Universe -> Int]
  BY DEF Open, NoOrders, Types, Account
<1>7. queued' \in BOOLEAN
  BY Zenon DEF Open
<1>6. moves' \in Nat /\ close' \in [Symbols -> Nat]
  BY <1>1 DEF Types
<1>. QED
  BY <1>3, <1>4, <1>5, <1>6, <1>7 DEF Types, Account

\* No step breaks it.
LEMMA PlanStays == PlanInv /\ [Next]_vars => PlanInv'
<1>. SUFFICES ASSUME PlanInv, [Next]_vars PROVE PlanInv'
  OBVIOUS
<1>. USE DEF PlanInv
<1>1. CASE Evening
  <2>1. Account' = Account /\ Refused' = Refused /\ Plan' = Plan
    BY <1>1, SamePlan DEF Evening, market
  <2>2. orders' = Plan /\ ~Refused /\ Plan \in [Symbols -> Int]
    BY <1>1, PlanType DEF Evening, Types
  <2>3. queued' \in BOOLEAN
    BY <1>1, Zenon DEF Evening
  <2>4. moves' \in Nat
    BY <1>1 DEF Evening, market, Types
  <2>. QED
    BY <2>1, <2>2, <2>3, <2>4 DEF Types
<1>2. CASE Open
  <2>1. ~queued'
    BY <1>2, Zenon DEF Open
  <2>. QED
    BY <1>2, <2>1, OpenTypes
<1>3. CASE Market
  BY <1>3, PlannerAssumption DEF Market, Types, Account
<1>4. CASE UNCHANGED vars
  <2>1. Account' = Account /\ Refused' = Refused /\ Plan' = Plan
    BY <1>4, SamePlan DEF vars, market
  <2>2. UNCHANGED <<orders, queued, moves>>
    BY <1>4 DEF vars, market
  <2>. QED
    BY <2>1, <2>2 DEF Types
<1>. QED
  BY <1>1, <1>2, <1>3, <1>4 DEF Next

\* A plan that waits for the open is always the plan of the account as it is.
THEOREM PlanIsCurrent == Spec => []PlanInv
BY PlanStarts, PlanStays, PTL DEF Spec

-----------------------------------------------------------------------------
(* What such a plan does to the account.                                   *)

\* A plan goes towards its targets.
LEMMA GoesTowards == PlanInv => TowardsTargets
<1>. SUFFICES ASSUME PlanInv, queued, NEW s \in Symbols
              PROVE  /\ orders[s] > 0 => held[s] + orders[s] =< Target(s)
                     /\ orders[s] < 0 => held[s] + orders[s] >= Target(s)
                     /\ held[s] + orders[s] >= 0
                     /\ Target(s) = 0 => orders[s] = -held[s]
  BY DEF TowardsTargets
<1>1. Account /\ ~Refused /\ orders = CapBuys(Deltas)
  BY DEF PlanInv, Types, Plan
<1>2. held[s] \in Int /\ held[s] >= 0 /\ Target(s) \in Nat
  BY <1>1, NotRefused, TargetType DEF Account
<1>. DEFINE d == Deltas
<1>3. /\ d \in [Symbols -> Int]
      /\ d[s] = 0 \/ d[s] = Target(s) - held[s]
      /\ Target(s) = 0 => d[s] = -held[s]
  BY <1>1, DeltasFacts
<1>4. orders = CapBuys(d)
  BY <1>1
<1>. HIDE DEF d
<1>5. /\ orders[s] \in Int
      /\ d[s] =< 0 => orders[s] = d[s]
      /\ d[s] > 0 => 0 =< orders[s] /\ orders[s] =< d[s]
  BY <1>1, <1>3, <1>4, CapBuysFacts
<1>. QED
  BY <1>2, <1>3, <1>5

\* A plan goes towards its targets and never past them, ends what has none,
\* and never sells short (plan, _orders, _cap_buys), for every account and
\* market.
THEOREM TowardsTargetsHolds == Spec => []TowardsTargets
BY PlanIsCurrent, GoesTowards, PTL
\* The worth of capped deltas is that of their buys less that of the deltas'
\* sells: sells are never touched.
LEMMA NetWorth ==
  ASSUME Account, ~Refused, NEW d \in [Symbols -> Int]
  PROVE  LET p == CapBuys(d)
         IN  Worth(p) =< Worth(Buys(p)) - Worth(Sells(d))
<1>. DEFINE p == CapBuys(d)
            f == [s \in Symbols |-> p[s] * close[s]]
            g == [s \in Symbols |-> Buys(p)[s] * close[s]]
            h == [s \in Symbols |-> Sells(d)[s] * close[s]]
<1>1. p \in [Symbols -> Int]
  <2>1. p = [s \in Symbols |-> p[s]]
    BY DEF CapBuys
  <2>2. \A s \in Symbols : p[s] \in Int
    BY CapBuysFacts
  <2>. HIDE DEF p
  <2>. QED
    BY <2>1, <2>2
<1>2. \A s \in Symbols : /\ d[s] =< 0 => p[s] = d[s]
                         /\ d[s] > 0 => 0 =< p[s]
  BY CapBuysFacts
<1>. HIDE DEF p
<1>3. Buys(p) \in [Symbols -> Int] /\ Sells(d) \in [Symbols -> Int] /\ close \in [Symbols -> Int]
  BY <1>1, TwoSides DEF Account
<1>4. f \in [Symbols -> Int] /\ g \in [Symbols -> Int] /\ h \in [Symbols -> Int]
  BY <1>1, <1>3
<1>5. ASSUME NEW s \in Symbols PROVE Below(1, -1, 1, f[s], g[s], h[s])
  <2>1. p[s] = Buys(p)[s] - Sells(d)[s]
    BY <1>1, <1>2 DEF Buys, Sells
  <2>. DEFINE b == Buys(p)[s]
              o == Sells(d)[s]
              c == close[s]
  <2>2. b \in Int /\ o \in Int /\ c \in Int
    BY <1>3
  <2>3. f[s] = (b - o) * c /\ g[s] = b * c /\ h[s] = o * c
    BY <2>1
  <2>. HIDE DEF b, o, c, f, g, h
  <2>4. (b - o) * c = b * c - o * c
    BY <2>2
  <2>5. b * c \in Int /\ o * c \in Int
    BY <2>2
  <2>. QED
    BY <2>3, <2>4, <2>5 DEF Below
<1>6. SumFunction(f) = Worth(p) /\ SumFunction(g) = Worth(Buys(p)) /\ SumFunction(h) = Worth(Sells(d))
  BY DEF Worth
<1>. HIDE DEF f, g, h
<1>7. /\ SumFunction(f) \in Int /\ SumFunction(g) \in Int /\ SumFunction(h) \in Int
      /\ Below(1, -1, 1, SumFunction(f), SumFunction(g), SumFunction(h))
  <2>. DEFINE one == 1
              minus == -1
  <2>1. one \in Int /\ minus \in Int /\ \A s \in Symbols : Below(one, minus, one, f[s], g[s], h[s])
    BY <1>5
  <2>. HIDE DEF one, minus
  <2>2. /\ SumFunction(f) \in Int /\ SumFunction(g) \in Int /\ SumFunction(h) \in Int
        /\ Below(one, minus, one, SumFunction(f), SumFunction(g), SumFunction(h))
    BY <1>4, <2>1, PlannerAssumption, SumLinear
  <2>. QED
    BY <2>2 DEF one, minus
<1>8. SumFunction(f) =< SumFunction(g) - SumFunction(h)
  BY <1>7 DEF Below
<1>. QED
  BY <1>6, <1>8 DEF p

\* Buys that were scaled down cost at most the budget: each takes its share of
\* it, rounded down.
LEMMA ScaledCost ==
  ASSUME Account, ~Refused, NEW d \in [Symbols -> Int],
         0 < Budget(d), Budget(d) < Worth(Buys(d)) * Unit
  PROVE  Worth(Buys(CapBuys(d))) * Unit =< Budget(d)
<1>. DEFINE p == CapBuys(d)
            cost == Worth(Buys(d)) * Unit
            budget == Budget(d)
            g == [s \in Symbols |-> Buys(p)[s] * close[s]]
            h == [s \in Symbols |-> Buys(d)[s] * close[s]]
<1>1. /\ cost \in Int /\ budget \in Int /\ 0 < budget /\ budget < cost
      /\ Worth(Buys(d)) \in Int
  BY BudgetType
<1>2. ASSUME NEW s \in Symbols
      PROVE  p[s] = IF d[s] =< 0 THEN d[s] ELSE (d[s] * budget) \div cost
  BY <1>1 DEF CapBuys
<1>3. p \in [Symbols -> Int]
  <2>1. p = [s \in Symbols |-> p[s]]
    BY DEF CapBuys
  <2>2. \A s \in Symbols : p[s] \in Int
    BY CapBuysFacts
  <2>. HIDE DEF p
  <2>. QED
    BY <2>1, <2>2
<1>. HIDE DEF p, cost, budget
<1>4. Buys(p) \in [Symbols -> Int] /\ Buys(d) \in [Symbols -> Int] /\ close \in [Symbols -> Nat]
  BY <1>3, TwoSides DEF Account
<1>5. ASSUME NEW s \in Symbols
      PROVE  cost * Buys(p)[s] =< budget * Buys(d)[s]
  <2>1. CASE d[s] =< 0
    <3>1. Buys(p)[s] = 0 /\ Buys(d)[s] = 0
      BY <1>2, <2>1 DEF Buys
    <3>. QED
      BY <1>1, <3>1
  <2>2. CASE d[s] > 0
    <3>. DEFINE x == d[s]
                q == (x * budget) \div cost
    <3>1. p[s] = q /\ Buys(d)[s] = x /\ x \in Int /\ x > 0
      BY <1>2, <2>2 DEF Buys
    <3>. HIDE DEF x
    <3>2. q \in Int /\ 0 =< q /\ cost * q =< budget * x
      BY <1>1, <3>1, ShareOf
    <3>. HIDE DEF q
    <3>3. Buys(p)[s] = q
      BY <3>1, <3>2 DEF Buys
    <3>. QED
      BY <3>1, <3>2, <3>3
  <2>. QED
    BY <2>1, <2>2
<1>6. ASSUME NEW s \in Symbols PROVE Below(cost, -budget, 0, g[s], h[s], h[s])
  <2>. DEFINE b == Buys(p)[s]
              o == Buys(d)[s]
              c == close[s]
  <2>1. b \in Int /\ o \in Int /\ c \in Int /\ c >= 0
    BY <1>4
  <2>2. g[s] = b * c /\ h[s] = o * c
    OBVIOUS
  <2>3. cost * b =< budget * o
    BY <1>5
  <2>. HIDE DEF b, o, c, g, h
  <2>4. cost * b \in Int /\ budget * o \in Int
    BY <1>1, <2>1
  <2>5. (cost * b) * c =< (budget * o) * c
    BY <2>1, <2>3, <2>4, Grows
  <2>6. cost * (b * c) = (cost * b) * c /\ (-budget) * (o * c) = -((budget * o) * c)
    BY <1>1, <2>1
  <2>7. (cost * b) * c \in Int /\ (budget * o) * c \in Int /\ 0 * (o * c) = 0
    BY <2>1, <2>4
  <2>. DEFINE u == (cost * b) * c
              v == (budget * o) * c
  <2>8. u \in Int /\ v \in Int /\ u =< v
    BY <2>5, <2>7
  <2>9. cost * (b * c) = u /\ (-budget) * (o * c) = -v
    BY <2>6
  <2>. HIDE DEF u, v
  <2>. QED
    BY <2>2, <2>7, <2>8, <2>9 DEF Below
<1>7. g \in [Symbols -> Int] /\ h \in [Symbols -> Int]
  BY <1>4
<1>8. SumFunction(g) = Worth(Buys(p)) /\ SumFunction(h) = Worth(Buys(d))
  BY DEF Worth
<1>. HIDE DEF g, h
<1>. DEFINE w == Worth(Buys(p))
            v == Worth(Buys(d))
<1>9. w \in Int /\ v \in Int /\ Below(cost, -budget, 0, w, v, v)
  <2>. DEFINE minus == -budget
              zero == 0
  <2>1. minus \in Int /\ zero \in Int /\ \A s \in Symbols : Below(cost, minus, zero, g[s], h[s], h[s])
    BY <1>1, <1>6
  <2>. HIDE DEF minus, zero
  <2>2. /\ SumFunction(g) \in Int /\ SumFunction(h) \in Int
        /\ Below(cost, minus, zero, SumFunction(g), SumFunction(h), SumFunction(h))
    BY <1>1, <1>7, <2>1, PlannerAssumption, SumLinear
  <2>. QED
    BY <1>8, <2>2 DEF minus, zero
<1>10. cost = v * Unit /\ Unit \in Int /\ Unit > 0
  BY PlannerAssumption DEF cost
<1>. HIDE DEF w, v
<1>11. cost * w =< budget * v
  <2>1. (-budget) * v = -(budget * v) /\ 0 * v = 0 /\ cost * w \in Int /\ budget * v \in Int
    BY <1>1, <1>9
  <2>. DEFINE x == cost * w
              y == budget * v
              z == (-budget) * v
  <2>2. x \in Int /\ y \in Int /\ z = -y /\ x + z + 0 =< 0
    BY <1>9, <2>1 DEF Below
  <2>. HIDE DEF x, y, z
  <2>3. x =< y
    BY <2>2
  <2>. QED
    BY <2>3 DEF x, y
<1>12. v > 0
  <2>1. v * Unit > 0
    BY <1>1, <1>10
  <2>. QED
    BY <1>9, <1>10, <2>1
<1>13. v * (w * Unit) =< v * budget
  <2>1. cost * w = v * (w * Unit) /\ budget * v = v * budget
    BY <1>1, <1>9, <1>10
  <2>. QED
    BY <1>11, <2>1
<1>14. w * Unit \in Int
  BY <1>9, <1>10
<1>15. w * Unit =< budget
  <2>. DEFINE wu == w * Unit
  <2>1. wu \in Int /\ v * wu =< v * budget
    BY <1>13, <1>14
  <2>. HIDE DEF wu
  <2>2. wu =< budget
    BY <1>1, <1>9, <1>12, <2>1, Cancels
  <2>. QED
    BY <2>2 DEF wu
<1>. QED
  BY <1>15 DEF w, p, budget
\* Whichever way the buys were capped, they cost at most the budget, when any
\* is left.
LEMMA BuysWithinBudget ==
  ASSUME Account, ~Refused, NEW d \in [Symbols -> Int],
         NEW s \in Symbols, CapBuys(d)[s] > 0
  PROVE  Worth(Buys(CapBuys(d))) * Unit =< Budget(d)
<1>. DEFINE cost == Worth(Buys(d)) * Unit
<1>1. cost \in Int /\ Budget(d) \in Int /\ d[s] \in Int
  BY BudgetType
<1>2. CASE cost =< Budget(d)
  <2>1. \A t \in Symbols : CapBuys(d)[t] = d[t]
    BY <1>2 DEF CapBuys
  <2>2. Buys(CapBuys(d)) = Buys(d)
    BY <2>1 DEF Buys
  <2>. QED
    BY <1>2, <2>2
<1>3. CASE cost > Budget(d) /\ Budget(d) =< 0
  <2>1. CapBuys(d)[s] = IF d[s] =< 0 THEN d[s] ELSE 0
    BY <1>1, <1>3 DEF CapBuys
  <2>. QED
    BY <1>1, <2>1
<1>4. CASE cost > Budget(d) /\ 0 < Budget(d)
  BY <1>1, <1>4, ScaledCost
<1>. HIDE DEF cost
<1>. QED
  BY <1>1, <1>2, <1>3, <1>4

\* What the sells and the cash pay for leaves the buffer.
LEMMA LeavesBuffer == PlanInv => BuyingKeepsBuffer
<1>. SUFFICES ASSUME PlanInv, queued, NEW s \in Symbols, orders[s] > 0
              PROVE  (cash - Worth(orders)) * Unit >= Buffer * Equity
  BY DEF BuyingKeepsBuffer
<1>. DEFINE d == Deltas
<1>1. Account /\ ~Refused /\ orders = CapBuys(d) /\ orders \in [Symbols -> Int]
  BY DEF PlanInv, Types, Plan
<1>2. d \in [Symbols -> Int]
  BY <1>1, DeltasFacts
<1>. HIDE DEF d
<1>. DEFINE p == Worth(orders)
            b == Worth(Buys(orders))
            o == Worth(Sells(d))
            e == Buffer * Equity
<1>3. p =< b - o
  BY <1>1, <1>2, NetWorth
<1>4. b * Unit =< Budget(d)
  BY <1>1, <1>2, BuysWithinBudget
<1>5. /\ p \in Int /\ b \in Int /\ o \in Int /\ cash \in Int
      /\ Unit \in Int /\ Unit >= 0
  BY <1>1, <1>2, TwoSides, WorthType, PlannerAssumption DEF Account
<1>6. Budget(d) = (cash + o) * Unit - e /\ e \in Int
  BY <1>1, <1>2, BudgetType
<1>. HIDE DEF p, b, o, e
<1>7. ((cash + o) - b) * Unit =< (cash - p) * Unit
  BY <1>3, <1>5, Grows
<1>8. ((cash + o) - b) * Unit = (cash + o) * Unit - b * Unit
  BY <1>5
<1>9. (cash + o) * Unit \in Int /\ b * Unit \in Int /\ (cash - p) * Unit \in Int
  BY <1>5
<1>. DEFINE x == (cash + o) * Unit
            y == b * Unit
            z == (cash - p) * Unit
<1>10. x \in Int /\ y \in Int /\ z \in Int /\ y =< x - e /\ x - y =< z
  BY <1>4, <1>6, <1>7, <1>8, <1>9
<1>. HIDE DEF x, y, z
<1>11. z >= e
  BY <1>6, <1>10
<1>. QED
  BY <1>11 DEF z, e, p

\* Buys never dip into the cash buffer (_cap_buys), for every account, every
\* market and every buffer.
THEOREM BuyingKeepsBufferHolds == Spec => []BuyingKeepsBuffer
BY PlanIsCurrent, LeavesBuffer, PTL
=============================================================================
