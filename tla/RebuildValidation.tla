------------------------- MODULE RebuildValidation -------------------------
(***************************************************************************)
(* scripts/rebuild_validation.py: what validate.py said about a run, put   *)
(* together from what it left in the ledger.  An invocation is a cluster   *)
(* of validation events without a long pause; where it started, and so     *)
(* which survivors it chose, is not stored and has to be found.  A pure    *)
(* function of the tables of Research, in its backtest mode.               *)
(***************************************************************************)
EXTENDS Research

\* load_rows: the test ids of a run, in order.
RowIds(r) ==
  LET ids == TestsOf(r)
  IN  [k \in 1..Cardinality(ids) |->
         CHOOSE i \in ids : Cardinality({j \in ids : j < i}) = k - 1]

EventsOf(r) == {t \in DOMAIN validation_events : tests[t].run = r}

At(t) == validation_events[t].at

\* cluster_events: the first events of the invocations, and the rest of each.
Firsts(r) ==
  {t \in EventsOf(r) : \A u \in EventsOf(r) : At(u) < At(t) => At(t) - At(u) > Gap}

Cluster(r, first) ==
  {t \in EventsOf(r) : /\ At(t) >= At(first)
                       /\ \A u \in Firsts(r) : At(u) =< At(first) \/ At(t) < At(u)}

Prior(r, first) == {t \in EventsOf(r) : At(t) < At(first)}

\* The first of the leading rows from position pos on with candidate c.
Find(rows, pos, c) == {x \in pos..Len(rows) : tests[rows[x]].cand = c}
Least(S) == CHOOSE x \in S : \A y \in S : x =< y
Most(S) == CHOOSE x \in S : \A y \in S : x >= y

\* _match_neighbours: the row of every neighbour in turn, none after upper.
Match(rows, pos, near, upper) ==
  LET m[j \in 0..Len(near)] ==
        IF j = 0 THEN [pos |-> pos, found |-> <<>>, complete |-> TRUE]
        ELSE LET before == m[j - 1]
                 at == Find(rows, before.pos, near[j])
             IN  IF at = {} \/ (upper # None /\ tests[rows[Least(at)]].at > upper)
                   THEN [before EXCEPT !.complete = FALSE]
                   ELSE [before EXCEPT !.pos = Least(at) + 1,
                                       !.found = Append(@, rows[Least(at)])]
  IN  m[Len(near)]

\* What the rows found say of a survivor.
Status(near, match) ==
  IF near = <<>> THEN "nbr_passed"
  ELSE IF ~match.complete THEN "unknown"
  ELSE IF Neighbourly(Cardinality({k \in DOMAIN match.found : tests[match.found[k]].passed}),
                      Len(match.found))
    THEN "nbr_passed" ELSE "nbr_failed"

\* plan_invocation: the survivors of the first nBefore rows and what became
\* of each, every one's rows after those of the one before it.
Plan(r, n, nBefore, cluster, prior) ==
  LET rows == RowIds(r)
      best == TopCandidates({rows[k] : k \in 1..nBefore}, n)
      Upper(i) == LET later == {j \in i..Len(best) : best[j] \in cluster}
                  IN  IF later = {} THEN None ELSE At(best[Least(later)])
      plan[i \in 0..Len(best)] ==
        IF i = 0 THEN [pos |-> nBefore + 1, status |-> <<>>]
        ELSE IF best[i] \in prior
          THEN [plan[i - 1] EXCEPT !.status = Append(@, "already_validated")]
        ELSE LET near == NeighbourSeq(tests[best[i]].cand)
                 match == Match(rows, plan[i - 1].pos, near, Upper(i))
             IN  [pos |-> match.pos,
                  status |-> Append(plan[i - 1].status, Status(near, match))]
  IN  [survivors |-> best, status |-> plan[Len(best)].status]

Reached(plan) == {plan.survivors[i] : i \in {j \in DOMAIN plan.status :
                                               plan.status[j] = "nbr_passed"}}

Unknown(plan) == Cardinality({j \in DOMAIN plan.status : plan.status[j] = "unknown"})
Diff(plan, cluster) ==
  Cardinality((Reached(plan) \ cluster) \cup (cluster \ Reached(plan)))

\* choose_start: the latest start that explains everything, else the one
\* that explains most.
ChosenPlan(r, n, first) ==
  LET rows == RowIds(r)
      cluster == Cluster(r, first)
      prior == Prior(r, first)
      lowest == Most({k \in DOMAIN rows : rows[k] \in cluster})
      highest == Cardinality({k \in DOMAIN rows : tests[rows[k]].at =< At(first)})
      plans == [s \in lowest..Most({lowest, highest}) |-> Plan(r, n, s, cluster, prior)]
      Worse(s, t) == \/ Unknown(plans[s]) > Unknown(plans[t])
                     \/ /\ Unknown(plans[s]) = Unknown(plans[t])
                        /\ \/ Diff(plans[s], cluster) > Diff(plans[t], cluster)
                           \/ Diff(plans[s], cluster) = Diff(plans[t], cluster) /\ s < t
  IN  plans[CHOOSE s \in DOMAIN plans : \A t \in DOMAIN plans \ {s} : Worse(t, s)]

\* All the run's rows, whenever they came.
TrialsEver(r, t) == Cardinality(TestsOf(r))

\* The trials the replay deflates a validation by: the rows up to its event.
TrialsAt(r, t) == Cardinality({i \in TestsOf(r) : tests[i].at =< At(t)})

\* finalize and _finish_validated: the stages, the accepted of before in hand.
Finalize(r, plan, cluster) ==
  LET end[i \in 0..Len(plan.status)] ==
        IF i = 0 THEN [stages |-> <<>>, accepted |-> {}]
        ELSE LET t == plan.survivors[i]
                 before == end[i - 1]
                 stage == CASE plan.status[i] = "nbr_failed" -> "neighbourhood"
                            [] plan.status[i] = "nbr_passed" /\ t \in cluster ->
                                 Verdict(tests[t].cand, TrialsAt(r, t), before.accepted)
                            [] plan.status[i] = "already_validated" -> "already_validated"
                            [] OTHER -> "unknown"
             IN  [stages |-> Append(before.stages, stage),
                  accepted |-> before.accepted \cup (IF stage = "accepted" THEN {t} ELSE {})]
  IN  end[Len(plan.status)].stages

Rebuilt(r, n, first) ==
  LET plan == ChosenPlan(r, n, first)
  IN  [survivors |-> plan.survivors, stages |-> Finalize(r, plan, Cluster(r, first))]
=============================================================================
