------------------------------ MODULE MCOverlay ------------------------------
(***************************************************************************)
(* Small instances of Overlay for TLC: one process or two that overlap, a  *)
(* config that changes back and forth, and enough runs for every step to   *)
(* be tried after every other.                                             *)
(***************************************************************************)
EXTENDS Overlay

TwoProcs == {"p", "q"}
TwoConfigs == {"c", "d"}

\* One run after the other, killed anywhere, the config edited at any time, the
\* ledger failing at any write.
OneAfterTheOther ==
  [procs |-> {"p"}, steps |-> OverlaySteps \cup Unsealings,
   configs |-> TwoConfigs, runs |-> 5, kills |-> TRUE, refuses |-> TRUE]

\* Runs that overlap and are not killed.
Overlapping ==
  [procs |-> TwoProcs, steps |-> OverlaySteps \cup Unsealings,
   configs |-> {"c"}, runs |-> 4, kills |-> FALSE, refuses |-> FALSE]

\* The same on a ledger that one process keeps locked for the other.
Locked == [Overlapping EXCEPT !.runs = 3, !.refuses = TRUE]

\* The same of the reveal.
RevealAgain ==
  [procs |-> {"p"}, steps |-> Reveals, configs |-> {"c"}, runs |-> 3,
   kills |-> TRUE, refuses |-> TRUE]
RevealTwice ==
  [procs |-> TwoProcs, steps |-> Reveals, configs |-> {"c"}, runs |-> 4,
   kills |-> FALSE, refuses |-> FALSE]

EveryWay == {OneAfterTheOther, Overlapping, Locked, RevealAgain, RevealTwice}
=============================================================================
