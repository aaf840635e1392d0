------------------------------ MODULE Planner ------------------------------
(***************************************************************************)
(* The rebalancer's planner (qrl/rebalance.py) and the account it plans    *)
(* for, evening after evening: target weights, closes, positions and cash  *)
(* in, whole-share orders out, executed at the next opening prices.        *)
(*                                                                         *)
(* Weights, the cash buffer, the deadband and the gross cap are whole      *)
(* numbers of 1/Unit, prices and cash whole numbers of the smallest        *)
(* amount of money, so that every comparison and floor of the code is      *)
(* exact.  A plan's orders are one function of signed deltas: what is not  *)
(* ordered is 0.  A close of 0 stands for a missing, NaN, infinite or      *)
(* non-positive one, a negative weight for a negative or NaN one.          *)
(***************************************************************************)
EXTENDS Integers, FiniteSets, Functions

CONSTANTS
  Symbols,     \* what the account may hold
  Universe,    \* the index of the target weights
  Unit,        \* the denominator of the fractions below
  Buffer,      \* cash_buffer
  Deadband,    \* deadband
  MaxGross,    \* max_gross_exposure
  Holdings,    \* the positions the account may start with
  Cash,        \* the cash it may start with
  Closes,      \* the vectors of closes the market may show
  Weights,     \* the target weights the strategies may ask for
  MaxMoves     \* bound: times the market or the weights change

ASSUME PlannerAssumption ==
  /\ IsFiniteSet(Symbols)
  /\ Universe \subseteq Symbols
  /\ Unit \in Nat \ {0}
  /\ Buffer \in 0..Unit /\ Deadband \in 0..Unit
  /\ MaxGross \in Nat
  /\ Holdings \subseteq [Symbols -> Nat]
  /\ Cash \subseteq Int
  /\ Closes \subseteq [Symbols -> Nat]
  /\ Weights \subseteq [Universe -> Int]
  /\ MaxMoves \in Nat

VARIABLES
  held,      \* whole shares held
  cash,      \* cash at IB
  close,     \* the latest closes
  weight,    \* the target weights
  orders,    \* the orders queued for the next open
  queued,    \* there is a plan whose orders wait for the open
  moves      \* changes of closes or weights so far

market == <<close, weight, moves>>
vars == <<held, cash, market, orders, queued>>

NoOrders == [s \in Symbols |-> 0]

-----------------------------------------------------------------------------
(* The plan.                                                               *)

\* Shares at the latest closes.
Worth(shares) == SumFunction([s \in Symbols |-> shares[s] * close[s]])

\* Equity that forgets the shares.
EquityCashOnly == cash

Equity == cash + Worth(held)

Relevant ==
  {s \in Symbols : held[s] # 0} \cup {s \in Universe : weight[s] > 0}

\* A short position, one outside the universe, a negative weight, a breach
\* of the gross cap, a relevant symbol without a close, no positive equity.
Refused ==
  \/ \E s \in Symbols : held[s] < 0
  \/ \E s \in Symbols \ Universe : held[s] # 0
  \/ \E s \in Universe : weight[s] < 0
  \/ SumFunction(weight) > MaxGross
  \/ \E s \in Relevant : close[s] = 0
  \/ Equity =< 0

\* _targets: floor(w * equity * (1 - cash_buffer) / close).
Target(s) ==
  IF s \in Universe /\ weight[s] > 0
    THEN (weight[s] * Equity * (Unit - Buffer)) \div (Unit * Unit * close[s])
    ELSE 0

\* Every small trade is skipped, also one that would end a position.
InDeadbandAlways(s) ==
  LET delta == Target(s) - held[s]
      size  == IF delta < 0 THEN -delta ELSE delta
  IN  size * close[s] * Unit < Deadband * Equity

\* A trade too small to make, unless it ends a position.
InDeadband(s) ==
  LET delta == Target(s) - held[s]
      size  == IF delta < 0 THEN -delta ELSE delta
  IN  Target(s) # 0 /\ size * close[s] * Unit < Deadband * Equity

\* _orders: the trades to the targets.
Deltas ==
  [s \in Symbols |-> IF InDeadband(s) THEN 0 ELSE Target(s) - held[s]]

Buys(d)  == [s \in Symbols |-> IF d[s] > 0 THEN d[s] ELSE 0]
Sells(d) == [s \in Symbols |-> IF d[s] < 0 THEN -d[s] ELSE 0]

\* Cash after the sells, less the buffer; in 1/Unit.
Budget(d) == (cash + Worth(Sells(d))) * Unit - Buffer * Equity

\* Buys scaled to the whole budget, whether it falls short or not.
CapBuysBothWays(d) ==
  LET cost == Worth(Buys(d)) * Unit
  IN  [s \in Symbols |->
         IF d[s] =< 0 THEN d[s]
         ELSE IF Budget(d) =< 0 THEN 0
         ELSE (d[s] * Budget(d)) \div cost]

\* Buys scaled with shares rounded up.
CapBuysUp(d) ==
  LET cost == Worth(Buys(d)) * Unit
  IN  [s \in Symbols |->
         IF d[s] =< 0 \/ cost =< Budget(d) THEN d[s]
         ELSE IF Budget(d) =< 0 THEN 0
         ELSE (d[s] * Budget(d) + cost - 1) \div cost]

\* _cap_buys: buys beyond the budget are scaled down, each rounded down, or
\* dropped when there is no budget; sells are never touched.
CapBuys(d) ==
  LET cost == Worth(Buys(d)) * Unit
  IN  [s \in Symbols |->
         IF d[s] =< 0 \/ cost =< Budget(d) THEN d[s]
         ELSE IF Budget(d) =< 0 THEN 0
         ELSE (d[s] * Budget(d)) \div cost]

Plan == CapBuys(Deltas)

-----------------------------------------------------------------------------
(* Evening after evening.                                                  *)

\* An evening run that has something to trade.
Evening ==
  /\ ~queued
  /\ ~Refused
  /\ Plan # NoOrders
  /\ orders' = Plan
  /\ queued' = TRUE
  /\ UNCHANGED <<held, cash, market>>

\* The next open executes every order, at the closes or at other prices.
Open ==
  /\ queued
  /\ \E price \in Closes \cup {close} :
       /\ \A s \in Symbols : orders[s] # 0 => price[s] > 0
       /\ price # close => moves < MaxMoves
       /\ moves' = IF price = close THEN moves ELSE moves + 1
       /\ cash' = cash - SumFunction([s \in Symbols |-> orders[s] * price[s]])
       /\ close' = price
  /\ held' = [s \in Symbols |-> held[s] + orders[s]]
  /\ orders' = NoOrders
  /\ queued' = FALSE
  /\ UNCHANGED weight

\* A day's closes and the strategies' answer to them.
Market ==
  /\ ~queued
  /\ moves < MaxMoves
  /\ close' \in Closes
  /\ weight' \in Weights
  /\ moves' = moves + 1
  /\ UNCHANGED <<held, cash, orders, queued>>

Init ==
  /\ held \in Holdings
  /\ cash \in Cash
  /\ close \in Closes
  /\ weight \in Weights
  /\ orders = NoOrders
  /\ queued = FALSE
  /\ moves = 0

Next == Evening \/ Open \/ Market

\* The evening run is a cron job; its orders are for the next open.
Spec == Init /\ [][Next]_vars /\ WF_vars(Evening) /\ WF_vars(Open)

-----------------------------------------------------------------------------
(* What a plan may never do to the account it is made for.                 *)

\* Buys never dip into the cash buffer: if a plan buys anything, then at the
\* closes it was made from the sells and the cash pay for it and leave
\* cash_buffer of the equity, also when the deadband swallowed the sells that
\* were to pay for it and when scaling rounds each buy (_cap_buys).
BuyingKeepsBuffer ==
  queued /\ (\E s \in Symbols : orders[s] > 0) =>
    (cash - Worth(orders)) * Unit >= Buffer * Equity

\* A plan goes towards its targets and never past them, whatever is skipped
\* or scaled: a position whose target is 0 is sold to the last share, however
\* small it is, and none is sold short, also when debts have eaten up the
\* equity (plan, _orders, _cap_buys).
TowardsTargets ==
  queued => \A s \in Symbols :
    /\ orders[s] > 0 => held[s] + orders[s] =< Target(s)
    /\ orders[s] < 0 => held[s] + orders[s] >= Target(s)
    /\ held[s] + orders[s] >= 0
    /\ Target(s) = 0 => orders[s] = -held[s]

\* Once closes and weights stop changing, trading stops: the account ends
\* where a plan is empty or refused, instead of churning.
Settles == <>[](~queued /\ (Refused \/ Plan = NoOrders))
=============================================================================
