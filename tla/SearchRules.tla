---------------------------- MODULE SearchRules ----------------------------
(***************************************************************************)
(* The rules of the search loop that are functions of what a run has       *)
(* tested so far (qrl/search.py), and those of the survivors' validation   *)
(* (qrl/validation.py).  A candidate is a family and, for every parameter  *)
(* of the family's space, the index of its value there.  A random draw is  *)
(* a choice among what it can give.                                        *)
(***************************************************************************)
EXTENDS Integers, Sequences, FiniteSets

CONSTANTS
  Spaces,        \* family -> the number of values of each parameter
  Searchable,    \* the families a search may draw from
  PruneMin,      \* attempts after which a value that never passed is dead
  Required       \* share of the neighbours that must pass, in percent

ASSUME SearchAssumption ==
  /\ \A f \in DOMAIN Spaces : Spaces[f] \in Seq(Nat \ {0})
  /\ Searchable \subseteq DOMAIN Spaces
  /\ PruneMin \in Nat \ {0}
  /\ Required \in 0..100

Families == DOMAIN Spaces
Keys(f) == DOMAIN Spaces[f]

\* iter_grid: every point of a family's space.
Grid(f) ==
  LET values == UNION {1..Spaces[f][k] : k \in Keys(f)}
  IN  {[family |-> f, params |-> x] :
         x \in {y \in [Keys(f) -> values] : \A k \in Keys(f) : y[k] =< Spaces[f][k]}}

Candidates == UNION {Grid(f) : f \in Families}

-----------------------------------------------------------------------------
(* The proposals.  A row is [cand, passed, partial], partial when it failed *)
(* on exactly one criterion.                                               *)

With(rows, f, k, v) ==
  {r \in DOMAIN rows : rows[r].cand.family = f /\ rows[r].cand.params[k] = v}

Pruned(rows, f, k, v) ==
  LET tried == With(rows, f, k, v)
  IN  Cardinality(tried) >= PruneMin /\ \A r \in tried : ~rows[r].passed

\* No value is ever dead.
NeverPruned(rows, c) == FALSE

HasPrunedValue(rows, c) ==
  \E k \in Keys(c.family) : Pruned(rows, c.family, k, c.params[k])

\* A candidate with another value of one parameter.
SetParam(c, k, v) == [family |-> c.family, params |-> [c.params EXCEPT ![k] = v]]

\* One parameter one step up or down, bouncing back at an edge.
Bounced(size, i, step) ==
  IF i + step \in 1..size THEN i + step
  ELSE IF i - step \in 1..size THEN i - step ELSE i

Mutations(c) ==
  IF Keys(c.family) = {} THEN {c}
  ELSE {SetParam(c, k, Bounced(Spaces[c.family][k], c.params[k], step)) :
          k \in Keys(c.family), step \in {-1, 1}}

Recombinations(a, b) ==
  {c \in Grid(a.family) : \A k \in Keys(a.family) : c.params[k] \in {a.params[k], b.params[k]}}

\* What _propose_one can draw for a search over families; thin is the seed
\* phase, in which nothing is learnt from.
Drawn(rows, families, thin) ==
  LET passing == {r \in DOMAIN rows : rows[r].passed /\ rows[r].cand.family \in families}
      partial == {r \in DOMAIN rows : ~rows[r].passed /\ rows[r].partial
                                      /\ rows[r].cand.family \in families}
      random  == UNION {Grid(f) : f \in families}
      mutated == UNION {Mutations(rows[r].cand) : r \in passing}
      pairs   == {x \in partial \X partial :
                    x[1] # x[2] /\ rows[x[1]].cand.family = rows[x[2]].cand.family}
      crossed == UNION {Recombinations(rows[x[1]].cand, rows[x[2]].cand) : x \in pairs}
  IN  {c \in random \cup (IF thin THEN {} ELSE mutated \cup crossed) : ~HasPrunedValue(rows, c)}

Tested(rows) == {rows[r].cand : r \in DOMAIN rows}

\* What a batch may still try.
Fresh(rows, families, n) ==
  Drawn(rows, families, Cardinality(DOMAIN rows) < n) \ Tested(rows)

\* The untested points of the families whose whole grid is enumerated.
Queued(rows, families, gridFamilies) ==
  {c \in UNION {Grid(f) : f \in families \cap gridFamilies} :
     ~HasPrunedValue(rows, c) /\ c \notin Tested(rows)}

\* propose_batch: distinct untested candidates, at most n, those of the grid
\* families first.  It may give up before n.
Proposals(rows, families, gridFamilies, n) ==
  LET fresh == Fresh(rows, families, n)
      first == Queued(rows, families, gridFamilies)
      sizes == {m \in 0..n : m =< Cardinality(fresh)
                             /\ (m < n => m >= Cardinality(first))}
  IN  {q \in UNION {[1..m -> fresh] : m \in sizes} :
         /\ \A i, j \in DOMAIN q : q[i] = q[j] => i = j
         /\ \A i \in DOMAIN q : q[i] \in first \/ i > Cardinality(first)}

-----------------------------------------------------------------------------
(* The validation.                                                         *)

\* _one_step_neighbours: every parameter in turn, down, then up; no
\* wrap-around.
NeighbourSeq(c) ==
  LET moves == {m \in Keys(c.family) \X {-1, 1} :
                  c.params[m[1]] + m[2] \in 1..Spaces[c.family][m[1]]}
      Before(l, m) == l[1] < m[1] \/ (l[1] = m[1] /\ l[2] < m[2])
      Nth(i) == CHOOSE m \in moves : Cardinality({l \in moves : Before(l, m)}) = i - 1
  IN  [i \in 1..Cardinality(moves) |-> SetParam(c, Nth(i)[1], c.params[Nth(i)[1]] + Nth(i)[2])]

Neighbours(c) == {NeighbourSeq(c)[i] : i \in DOMAIN NeighbourSeq(c)}

\* neighbourhood_check on outcomes: without neighbours it holds.
Neighbourly(passed, all) == all = 0 \/ 100 * passed >= Required * all

\* A check that asks for one passing neighbour only.
AnyNeighbour(passed, all) == all = 0 \/ passed > 0

=============================================================================
