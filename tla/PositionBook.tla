---------------------------- MODULE PositionBook ----------------------------
(***************************************************************************)
(* What the rebalancer promises about one account, without runs, files or  *)
(* an exchange.                                                            *)
(*                                                                         *)
(*   owed    what the account will hold once its open orders are executed  *)
(*   record  what the newest journal says it will hold, or None            *)
(*   phase   "trading" while an evening run may send orders, "unwinding"   *)
(*           while the kill switch cancels and sells                       *)
(*                                                                         *)
(* Trading starts only on an account that is what the record says.  When a *)
(* phase ends, the record is either untouched or the truth: a run may lose *)
(* its journal, but it never leaves a false one.                           *)
(***************************************************************************)
EXTENDS Integers

CONSTANTS Symbols, None

VARIABLES owed, record, phase

vars == <<owed, record, phase>>

Book == [Symbols -> Int]

Init ==
  /\ owed \in Book
  /\ record = None
  /\ phase = "idle"

\* The world between runs: manual trades, expired or cancelled orders.
Outside ==
  /\ phase = "idle"
  /\ owed' \in Book
  /\ UNCHANGED <<record, phase>>

BeginTrading ==
  /\ phase = "idle"
  /\ record \in {None, owed}
  /\ phase' = "trading"
  /\ UNCHANGED <<owed, record>>

BeginUnwinding ==
  /\ phase = "idle"
  /\ phase' = "unwinding"
  /\ UNCHANGED <<owed, record>>

\* One order moves one symbol.
Order ==
  /\ phase = "trading"
  /\ owed' \in Book
  /\ \E s \in Symbols : \A r \in Symbols \ {s} : owed'[r] = owed[r]
  /\ UNCHANGED <<record, phase>>

\* The kill switch cancels everything and sells every long position.
Unwind ==
  /\ phase = "unwinding"
  /\ owed' \in Book
  /\ UNCHANGED <<record, phase>>

Finish ==
  /\ phase \in {"trading", "unwinding"}
  /\ phase' = "idle"
  /\ record' \in {record, owed}
  /\ UNCHANGED owed

\* The owner accepts the account as it stands.
Accept ==
  /\ phase = "idle"
  /\ record' = owed
  /\ UNCHANGED <<owed, phase>>

Next ==
  \/ Outside
  \/ BeginTrading
  \/ BeginUnwinding
  \/ Order
  \/ Unwind
  \/ Finish
  \/ Accept

Spec == Init /\ [][Next]_vars
=============================================================================
