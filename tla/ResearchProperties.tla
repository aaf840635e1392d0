------------------------- MODULE ResearchProperties -------------------------
(***************************************************************************)
(* What the search and the validation keep: every attempt on the record,   *)
(* every verdict earned against all of them.                               *)
(***************************************************************************)
EXTENDS RebuildValidation

AloneAtATime == ~scenario.overlap

By(i) == Cmd(tests[i].by).cmd

Follows(graded, r) ==
  /\ graded.criteria = runs[r].criteria
  /\ graded.source = runs[r].source
  /\ runs[r].combined # None => graded.combined = runs[r].combined

\* A run judges every candidate by one rulebook and on one data source, in
\* research and in validation, however the files and the command lines
\* change between seeding and judging (checked_run, check_data_source,
\* combined_config_for_run, record_test).
OneRulebook ==
  /\ \A i \in DOMAIN tests : Follows(tests[i].graded, tests[i].run)
  /\ \A t \in DOMAIN validation_events : Follows(validation_events[t].graded, tests[t].run)

\* One command at a time, a run never repeats what it has tested: a batch not
\* what any command has tested, however often batches were killed, and the one
\* attempt of a fixed run is not made again (propose_batch, candidate_key,
\* _fixed_problem).
TriedOnce ==
  AloneAtATime =>
    \A i, j \in DOMAIN tests :
      j < i /\ tests[j].run = tests[i].run /\ By(i) \in {"batch", "fixed"}
        => tests[j].cand # tests[i].cand

\* The tests of a run with a value of a parameter, those of its batches, and
\* whether none of them, a validation's neighbours included, has passed.
TestsWith(r, f, k, v) ==
  {i \in TestsOf(r) : tests[i].cand.family = f /\ tests[i].cand.params[k] = v}
BatchTestsWith(r, f, k, v) == {i \in TestsWith(r, f, k, v) : By(i) = "batch"}
NeverPassed(r, f, k, v) == \A i \in TestsWith(r, f, k, v) : ~tests[i].passed

\* Some batch that spent on the value was large enough to spend that much.
SpentInBounds(r, f, k, v) ==
  BatchTestsWith(r, f, k, v) # {} /\ NeverPassed(r, f, k, v) =>
    \E i \in BatchTestsWith(r, f, k, v) :
      Cardinality(BatchTestsWith(r, f, k, v)) < PruneMin + Cmd(tests[i].by).n

\* One command at a time, a parameter value that never passed is given up:
\* a batch proposed when it did not look dead yet is the most that is spent
\* on it (pruned_regions).
GivesUpDeadRegions ==
  AloneAtATime =>
    \A r \in DOMAIN runs : \A f \in runs[r].families : \A k \in Keys(f) :
      \A v \in 1..Spaces[f][k] : SpentInBounds(r, f, k, v)

\* Nothing is looked up in the validation period but what passed research
\* and whose neighbours, all of them on the record by then, mostly passed
\* too (neighbourhood_check).
NeighbourhoodHeld ==
  \A t \in DOMAIN validation_events :
    LET near == NeighbourSeq(tests[t].cand)
        Seen(k) == {i \in TestsOf(tests[t].run) :
                      tests[i].cand = near[k] /\ tests[i].at < validation_events[t].at}
    IN  /\ tests[t].passed
        /\ \A k \in DOMAIN near : Seen(k) # {}
        /\ Neighbourly(Cardinality({k \in DOMAIN near : \E i \in Seen(k) : tests[i].passed}),
                       Len(near))

\* A candidate only passes validation against every attempt of its run up to
\* its own: failures, errors and neighbours, and what an overlapping batch
\* recorded meanwhile (trial_sharpes).
JudgedAgainstAll ==
  \A t \in DOMAIN validation_events :
    validation_events[t].passed = TRUE =>
      SurvivesDeflation(tests[t].cand,
        Cardinality({i \in TestsOf(tests[t].run) : tests[i].at < validation_events[t].at}))

\* Unless its command is killed, or ended by a write that the ledger refuses
\* (which is like a kill there), what was looked up in the validation period
\* gets its verdict: a failed evaluation, deflation and correlation reject it, and
\* do not end the command (validate_survivors).
Unjudged == {t \in DOMAIN validation_events : validation_events[t].passed = None}
LooksAreJudged == (scenario.kills = 0 /\ Unjudged # {}) ~> Unjudged = {}

\* Of commands that ran one at a time and to their end, the replay recovers
\* the survivors and the stages validate.py printed, whenever one of them
\* reached the validation period (rebuild_validation.py).
Replayed ==
  AloneAtATime /\ scenario.kills = 0 /\ (\A p \in Jobs : pc[p] \in {"new", "ended"}) =>
    \A p \in Jobs :
      LET mine == {t \in DOMAIN validation_events : validation_events[t].by = p}
      IN  pc[p] = "ended" /\ mine # {} =>
            LET first == CHOOSE t \in mine : \A u \in mine : At(t) =< At(u)
            IN  Rebuilt(Cmd(p).run, Cmd(p).n, first) =
                  [survivors |-> survivors[p], stages |-> stages[p]]

-----------------------------------------------------------------------------
(* What the documentation says and the code does not do.                   *)

\* "a candidate may be honestly validated only once."
ValidatedOnce ==
  \A t, u \in DOMAIN validation_events :
    tests[t].run = tests[u].run /\ tests[t].cand = tests[u].cand => t = u
=============================================================================
