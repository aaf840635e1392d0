------------------------------ MODULE MCPlanner ------------------------------
(***************************************************************************)
(* Small instances of Planner for TLC: two symbols of the universe and one *)
(* the strategies dropped.  The prices 3, 5 and 7 divide no equity evenly, *)
(* so that floors, the deadband and the cap all have remainders to lose.   *)
(***************************************************************************)
EXTENDS Planner

A == "A"
B == "B"
X == "X"
AllSymbols == {A, B, X}
InUniverse == {A, B}

StartHoldings ==
  {[s \in AllSymbols |-> IF s = A THEN a ELSE IF s = B THEN b ELSE x] :
     a \in {0, 1, 4}, b \in {0, 3}, x \in {0, 1}}

StartCash == {-20, 0, 11, 40}

CloseVectors ==
  {[s \in AllSymbols |-> IF s = A THEN a ELSE IF s = B THEN b ELSE 2] :
     a \in {0, 3, 5}, b \in {3, 7}}

WeightVectors ==
  {[s \in InUniverse |-> IF s = A THEN a ELSE b] :
     a \in {-1, 0, 3, 5, 10}, b \in {0, 5}}
=============================================================================
