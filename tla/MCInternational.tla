-------------------------- MODULE MCInternational --------------------------
(***************************************************************************)
(* Small instances of International for TLC: two sets and a file that the  *)
(* owner may change to one with the sets swapped and no designated core.   *)
(* Test t1 is the failed attempt of the designated rule, test t2 another   *)
(* rule that passed the search, test t3 the designated rule, once more and *)
(* this time passing.                                                      *)
(***************************************************************************)
EXTENDS InternationalProperties

OneProc == {"p"}
TwoProcs == {"p", "q"}
TwoSets == {"main", "reserve"}
TwoRules == {"core", "other"}
TwoPanels == {"d1", "d2"}

TwoTests == {"t1", "t2"}
ThreeTests == TwoTests \cup {"t3"}
OnlyPassed == {"t2"}
AlsoPassed == {"t2", "t3"}
Rule12 == [t \in TwoTests |-> IF t = "t1" THEN "core" ELSE "other"]
Rule123 == [t \in ThreeTests |-> IF t = "t2" THEN "other" ELSE "core"]

Original == [sets |-> <<"main", "reserve">>, covered |-> TwoRules,
             designated |-> [rule |-> "core", test |-> "t1"]]
Edited   == [sets |-> <<"reserve", "main">>, covered |-> {"other"}, designated |-> None]
\* A designated core whose attempt passed.
Mistaken == [sets |-> <<"main", "reserve">>, covered |-> TwoRules,
             designated |-> [rule |-> "other", test |-> "t2"]]

OneConfig == {Original}
TwoConfigs == {Original, Edited}
ThreeConfigs == {Original, Edited, Mistaken}
=============================================================================
