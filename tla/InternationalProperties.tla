---------------------- MODULE InternationalProperties ----------------------
(***************************************************************************)
(* What the sealed runs guarantee, and what their specification says       *)
(* beyond that.                                                            *)
(***************************************************************************)
EXTENDS International

\* A crashed run can be finished: the set it has spent stays recomputable,
\* for the frozen data has the recorded fingerprint and the recorded
\* configuration is the pinned one, wherever runs of this and of other sets
\* were killed (_start writes the snapshot and the pin before the event).
CanBeFinished ==
  \A s \in Sets :
    events[s] # None => snapshot[s] = events[s].data /\ pin = events[s].config

\* The sealed report: what a report says was computed from the rule, the
\* configuration and the data that the ledger had recorded before, and a
\* completed event has its whole report (_score_and_record's order).
ScoredOnRecord ==
  \A s \in Sets :
    /\ report[s] \notin {None, Torn} =>
         /\ events[s] # None
         /\ report[s].rule = events[s].rule
         /\ report[s].config = events[s].config
         /\ report[s].data = events[s].data
    /\ (events[s] # None /\ events[s].status = "completed") => report[s] = events[s].result

\* An unlabelled result is that of a rule that has passed validation, and a
\* labelled one is of a rule whose designated attempt had failed, however the
\* run was started, killed and resumed (_rule_refusal, _designated_refusal).
LabelsAreEarned ==
  \A s \in Sets :
    events[s] # None /\ events[s].result # None =>
      LET r == events[s].result
      IN  IF r.designated
            THEN \E t \in Tests \ Passed : RuleOf[t] = r.rule
            ELSE \E t \in validated : RuleOf[t] = r.rule

-----------------------------------------------------------------------------
(* The abstract specification.                                             *)

Terms(r) == [rule |-> r.rule, config |-> r.config, data |-> r.data]

termsBar == [s \in Sets |-> IF events[s] = None THEN None ELSE Terms(events[s])]

verdictBar ==
  [s \in Sets |-> IF events[s] # None /\ events[s].status = "completed"
                    THEN Terms(events[s].result) ELSE None]

OneShot == INSTANCE OneShotSets WITH plan <- pin, terms <- termsBar, verdict <- verdictBar

\* The runs keep the promise of OneShotSets: sets are used in the order of the
\* pinned configuration and under it, and each gets the verdict of its terms.
KeepsOrder == OneShot!Spec

-----------------------------------------------------------------------------
(* What the documentation says and the code does not do.                   *)

\* "A pass here does not turn core A into a validated rule; the label stays
\* with the result": a run started for the designated, unvalidated core has a
\* labelled result.
LabelStays ==
  \A s \in Sets :
    events[s] # None /\ events[s].result # None =>
      events[s].result.designated = events[s].designated
=============================================================================
