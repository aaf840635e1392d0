---------------------------- MODULE MCRebalancer ----------------------------
(***************************************************************************)
(* Small instances of Rebalancer for TLC.  Symbols are integers because    *)
(* orders go out in symbol order; an empty universe leaves the evening run *)
(* nothing to trade.                                                       *)
(***************************************************************************)
EXTENDS RebalancerProperties

OneSymbol  == {1}
TwoSymbols == {1, 2}

With(universe, faults) == [universe |-> universe, faults |-> faults]

\* Orders of an evening run may come back dead or not go out at all: that is
\* known at once and needs nobody's help.
CleanRuns == With(TwoSymbols, {"dead_at_submit", "submit_fails"})

\* Everything but the account moving under a run, cancel_all failing, the
\* clock set back and events.jsonl out of reach.
Quiet ==
  With(TwoSymbols,
       FaultKinds \ {"midrun", "partial_cancel", "clock_back", "events_fail"})

\* As above, with a symbol the strategy does not trade, and every accepted
\* order known to the run that sent it.
AckedFaults == With(OneSymbol, Quiet.faults \ {"lost_ack"})

\* The account moves under the runs, every run gets its journal written.
Busy == With(TwoSymbols, {"midrun", "expire", "dead_at_submit", "submit_fails"})

\* The clock is set back between runs that also crash or lose their orders.
ClockBack ==
  With(TwoSymbols, {"clock_back", "crash", "expire", "dead_at_submit", "lost_ack"})

\* A folder that takes no events, or no journals, or neither.
FullDisk ==
  With(OneSymbol,
       {"events_fail", "journal_fails", "dead_at_submit", "submit_fails", "lost_ack", "crash"})

MixedScenarios == {CleanRuns, Quiet, AckedFaults, Busy, ClockBack, FullDisk}
FlattenFailsMidrun == {With(TwoSymbols, {"midrun", "flatten_fails"})}
PartialCancelOnly == {With({}, {"partial_cancel"})}
=============================================================================
