--------------------------- MODULE ResearchProofs ---------------------------
(***************************************************************************)
(* Theorems about Research, for every choice of families and their spaces, *)
(* every story of commands and whatever the backtests say.                 *)
(***************************************************************************)
EXTENDS ResearchProperties, FiniteSetTheorems, TLAPS

-----------------------------------------------------------------------------
(* Places in an order.                                                     *)

\* Of finitely many things in a strict order each place is taken: the CHOOSE of
\* TopCandidates and of NeighbourSeq has something to choose.
LEMMA EveryPlaceTaken ==
  ASSUME NEW S, IsFiniteSet(S), NEW R,
         \A x \in S : <<x, x>> \notin R,
         \A x, y, z \in S : <<x, y>> \in R /\ <<y, z>> \in R => <<x, z>> \in R,
         \A x, y \in S : x # y => <<x, y>> \in R \/ <<y, x>> \in R,
         NEW k \in 1..Cardinality(S)
  PROVE  \E x \in S : Cardinality({y \in S : <<y, x>> \in R}) = k - 1
<1>. DEFINE Below(x) == {y \in S : <<y, x>> \in R}
            n == Cardinality(S)
            f == [x \in S |-> Cardinality(Below(x)) + 1]
<1>1. n \in Nat
  BY FS_CardinalityType
<1>2. \A x \in S : IsFiniteSet(Below(x)) /\ Cardinality(Below(x)) \in Nat
  BY FS_Subset, FS_CardinalityType
<1>3. ASSUME NEW x \in S
      PROVE  Cardinality(Below(x)) + 1 =< n
  <2>1. Below(x) \subseteq S \ {x}
    OBVIOUS
  <2>2. IsFiniteSet(S \ {x}) /\ Cardinality(S \ {x}) = n - 1
    BY FS_RemoveElement
  <2>. HIDE DEF Below, n
  <2>3. Cardinality(Below(x)) =< n - 1
    BY <2>1, <2>2, FS_Subset
  <2>. QED
    BY <1>1, <1>2, <2>3
<1>4. ASSUME NEW x \in S, NEW y \in S, <<x, y>> \in R
      PROVE  Cardinality(Below(x)) < Cardinality(Below(y))
  <2>1. Below(x) \subseteq Below(y) /\ x \in Below(y) /\ x \notin Below(x)
    BY <1>4
  <2>. HIDE DEF Below
  <2>2. /\ Cardinality(Below(x)) =< Cardinality(Below(y))
        /\ Cardinality(Below(x)) = Cardinality(Below(y)) => Below(x) = Below(y)
    BY <1>2, <2>1, FS_Subset
  <2>. QED
    BY <1>2, <2>1, <2>2
<1>. HIDE DEF Below, n
<1>5. f \in [S -> 1..n]
  BY <1>1, <1>2, <1>3
<1>6. f \in Injection(S, 1..n)
  <2>1. ASSUME NEW x \in S, NEW y \in S, x # y
        PROVE  f[x] # f[y]
    <3>1. f[x] = Cardinality(Below(x)) + 1 /\ f[y] = Cardinality(Below(y)) + 1
      OBVIOUS
    <3>2. Cardinality(Below(x)) \in Nat /\ Cardinality(Below(y)) \in Nat
      BY <1>2
    <3>3. <<x, y>> \in R \/ <<y, x>> \in R
      BY <2>1
    <3>4. Cardinality(Below(x)) < Cardinality(Below(y)) \/ Cardinality(Below(y)) < Cardinality(Below(x))
      BY <1>4, <3>3
    <3>. HIDE DEF f
    <3>. QED
      BY <3>1, <3>2, <3>4
  <2>. HIDE DEF f
  <2>. QED
    BY <1>5, <2>1 DEF Injection, IsInjective
<1>7. IsFiniteSet(1..n) /\ Cardinality(1..n) = n
  BY <1>1, FS_Interval
<1>8. f \in Surjection(S, 1..n)
  BY <1>6, <1>7, FS_Injection DEF n
<1>9. PICK x \in S : f[x] = k
  BY <1>8 DEF Surjection, n
<1>10. Cardinality(Below(x)) = k - 1
  BY <1>2, <1>9
<1>. QED
  BY <1>10 DEF Below

-----------------------------------------------------------------------------
(* Candidates.                                                             *)

\* What a candidate consists of.
LEMMA CandidateParts ==
  ASSUME NEW c \in Candidates
  PROVE  /\ c.family \in Families
         /\ c = [family |-> c.family, params |-> c.params]
         /\ c.params \in [Keys(c.family) -> Nat \ {0}]
         /\ \A k \in Keys(c.family) : c.params[k] \in 1..Spaces[c.family][k]
         /\ c \in Grid(c.family)
         /\ Spaces[c.family] \in Seq(Nat \ {0})
<1>1. PICK f \in Families : c \in Grid(f)
  BY DEF Candidates
<1>. DEFINE values == UNION {1..Spaces[f][k] : k \in Keys(f)}
<1>2. PICK x \in [Keys(f) -> values] :
        c = [family |-> f, params |-> x] /\ \A k \in Keys(f) : x[k] =< Spaces[f][k]
  BY <1>1 DEF Grid
<1>3. Spaces[f] \in Seq(Nat \ {0})
  BY SearchAssumption DEF Families
<1>4. \A k \in Keys(f) : Spaces[f][k] \in Nat \ {0}
  BY <1>3 DEF Keys
<1>5. values \subseteq Nat \ {0}
  BY <1>4
<1>6. c.family = f /\ c.params = x
  BY <1>2
<1>. HIDE DEF values
<1>7. \A k \in Keys(f) : x[k] \in Nat \ {0} /\ x[k] \in 1..Spaces[f][k]
  <2>. SUFFICES ASSUME NEW k \in Keys(f)
                PROVE  x[k] \in Nat \ {0} /\ x[k] \in 1..Spaces[f][k]
    OBVIOUS
  <2>1. x[k] \in values
    BY <1>2
  <2>2. x[k] \in Nat \ {0}
    BY <1>5, <2>1
  <2>3. x[k] =< Spaces[f][k] /\ Spaces[f][k] \in Nat
    BY <1>2, <1>4
  <2>. QED
    BY <2>2, <2>3
<1>. QED
  BY <1>1, <1>2, <1>3, <1>6, <1>7

\* What makes a candidate.
LEMMA CandidateFrom ==
  ASSUME NEW f \in Families, NEW x, DOMAIN x = Keys(f), x = [k \in Keys(f) |-> x[k]],
         \A k \in Keys(f) : x[k] \in 1..Spaces[f][k]
  PROVE  [family |-> f, params |-> x] \in Grid(f) /\ [family |-> f, params |-> x] \in Candidates
<1>. DEFINE values == UNION {1..Spaces[f][k] : k \in Keys(f)}
<1>1. x \in [Keys(f) -> values]
  OBVIOUS
<1>2. \A k \in Keys(f) : x[k] =< Spaces[f][k]
  <2>1. Spaces[f] \in Seq(Nat \ {0})
    BY SearchAssumption DEF Families
  <2>2. \A k \in Keys(f) : Spaces[f][k] \in Nat
    BY <2>1 DEF Keys
  <2>. QED
    BY <2>2
<1>3. [family |-> f, params |-> x] \in Grid(f)
  BY <1>1, <1>2 DEF Grid
<1>. QED
  BY <1>3 DEF Candidates

\* A parameter set to a value of its space.
LEMMA SetParamType ==
  ASSUME NEW c \in Candidates, NEW k \in Keys(c.family), NEW v \in 1..Spaces[c.family][k]
  PROVE  SetParam(c, k, v) \in Candidates
<1>. DEFINE x == [c.params EXCEPT ![k] = v]
<1>1. /\ c.family \in Families /\ c.params \in [Keys(c.family) -> Nat \ {0}]
      /\ \A j \in Keys(c.family) : c.params[j] \in 1..Spaces[c.family][j]
  BY CandidateParts
<1>2. DOMAIN x = Keys(c.family) /\ x = [j \in Keys(c.family) |-> x[j]]
      /\ \A j \in Keys(c.family) : x[j] \in 1..Spaces[c.family][j]
  BY <1>1
<1>. HIDE DEF x
<1>3. [family |-> c.family, params |-> x] \in Candidates
  BY <1>1, <1>2, CandidateFrom
<1>. QED
  BY <1>3 DEF SetParam, x

\* The neighbours of a candidate are candidates, each has its turn.
LEMMA NeighbourSeqType ==
  ASSUME NEW c \in Candidates
  PROVE  NeighbourSeq(c) \in Seq(Candidates)
<1>. DEFINE moves == {m \in Keys(c.family) \X {-1, 1} :
                        c.params[m[1]] + m[2] \in 1..Spaces[c.family][m[1]]}
            Before(l, m) == l[1] < m[1] \/ (l[1] = m[1] /\ l[2] < m[2])
            Nth(i) == CHOOSE m \in moves : Cardinality({l \in moves : Before(l, m)}) = i - 1
            n == Cardinality(moves)
            R == {x \in moves \X moves : Before(x[1], x[2])}
<1>1. Spaces[c.family] \in Seq(Nat \ {0})
  BY CandidateParts
<1>2. Keys(c.family) = 1..Len(Spaces[c.family]) /\ Len(Spaces[c.family]) \in Nat
  BY <1>1 DEF Keys
<1>3. IsFiniteSet(Keys(c.family)) /\ IsFiniteSet({-1, 1})
  <2>1. IsFiniteSet(1..Len(Spaces[c.family]))
    BY <1>2, FS_Interval
  <2>2. IsFiniteSet({-1} \cup {1})
    BY FS_Singleton, FS_Union
  <2>3. {-1, 1} = {-1} \cup {1}
    OBVIOUS
  <2>. QED
    BY <1>2, <2>1, <2>2, <2>3
<1>4. IsFiniteSet(moves) /\ n \in Nat
  BY <1>3, FS_Product, FS_Subset, FS_CardinalityType
<1>5. \A m \in moves : m[1] \in Int /\ m[2] \in Int /\ m = <<m[1], m[2]>>
  BY <1>2
<1>6. ASSUME NEW i \in 1..n
      PROVE  Nth(i) \in moves
  <2>1. \A l, m \in moves : <<l, m>> \in R <=> Before(l, m)
    OBVIOUS
  <2>. HIDE DEF R, moves
  <2>2. \A x \in moves : <<x, x>> \notin R
    BY <1>5, <2>1
  <2>3. \A x, y, z \in moves : <<x, y>> \in R /\ <<y, z>> \in R => <<x, z>> \in R
    BY <1>5, <2>1
  <2>4. \A x, y \in moves : x # y => <<x, y>> \in R \/ <<y, x>> \in R
    BY <1>5, <2>1
  <2>5. PICK m \in moves : Cardinality({l \in moves : <<l, m>> \in R}) = i - 1
    BY <1>4, <2>2, <2>3, <2>4, EveryPlaceTaken
  <2>6. {l \in moves : <<l, m>> \in R} = {l \in moves : Before(l, m)}
    BY <2>1
  <2>. QED
    BY <2>5, <2>6
<1>7. ASSUME NEW i \in 1..n
      PROVE  SetParam(c, Nth(i)[1], c.params[Nth(i)[1]] + Nth(i)[2]) \in Candidates
  <2>. HIDE DEF Nth
  <2>1. Nth(i)[1] \in Keys(c.family)
        /\ c.params[Nth(i)[1]] + Nth(i)[2] \in 1..Spaces[c.family][Nth(i)[1]]
    BY <1>6
  <2>. QED
    BY <2>1, SetParamType
<1>8. NeighbourSeq(c) = [i \in 1..n |-> SetParam(c, Nth(i)[1], c.params[Nth(i)[1]] + Nth(i)[2])]
  BY DEF NeighbourSeq
<1>. HIDE DEF Nth, n, moves
<1>. QED
  BY <1>4, <1>7, <1>8

\* Ranked by a number, the older first on a tie, each place is taken.
LEMMA EveryRankTaken ==
  ASSUME NEW P, IsFiniteSet(P), NEW rank, \A i \in P : i \in Int /\ rank[i] \in Int,
         NEW k \in 1..Cardinality(P)
  PROVE  \E i \in P : Cardinality({j \in P : rank[j] > rank[i] \/ (rank[j] = rank[i] /\ j < i)}) = k - 1
<1>. DEFINE Better(i, j) == rank[i] > rank[j] \/ (rank[i] = rank[j] /\ i < j)
            R == {x \in P \X P : Better(x[1], x[2])}
<1>1. \A i, j \in P : <<i, j>> \in R <=> Better(i, j)
  OBVIOUS
<1>. HIDE DEF R
<1>2. \A x \in P : <<x, x>> \notin R
  BY <1>1
<1>3. \A x, y, z \in P : <<x, y>> \in R /\ <<y, z>> \in R => <<x, z>> \in R
  BY <1>1
<1>4. \A x, y \in P : x # y => <<x, y>> \in R \/ <<y, x>> \in R
  BY <1>1
<1>5. PICK i \in P : Cardinality({j \in P : <<j, i>> \in R}) = k - 1
  BY <1>2, <1>3, <1>4, EveryPlaceTaken, SMTT(20)
<1>6. {j \in P : <<j, i>> \in R} = {j \in P : Better(j, i)}
  BY <1>1
<1>. QED
  BY <1>5, <1>6

\* The best of some tests are passing ones among them.
LEMMA TopCandidatesType ==
  ASSUME tests \in Seq(Test), NEW ids, ids \subseteq DOMAIN tests, NEW n \in Nat
  PROVE  /\ TopCandidates(ids, n) \in Seq(ids)
         /\ \A k \in DOMAIN TopCandidates(ids, n) : tests[TopCandidates(ids, n)[k]].passed
<1>. DEFINE pool == {i \in ids : tests[i].passed}
            Better(i, j) == \/ tests[i].rank > tests[j].rank
                            \/ tests[i].rank = tests[j].rank /\ i < j
            Place(i) == Cardinality({j \in pool : Better(j, i)}) + 1
            size == IF Cardinality(pool) < n THEN Cardinality(pool) ELSE n
            Nth(k) == CHOOSE i \in pool : Place(i) = k
            rank == [i \in pool |-> tests[i].rank]
<1>1. DOMAIN tests = 1..Len(tests) /\ Len(tests) \in Nat
  OBVIOUS
<1>2. pool \subseteq 1..Len(tests)
  BY <1>1
<1>3. IsFiniteSet(pool) /\ Cardinality(pool) \in Nat
  <2>1. IsFiniteSet(1..Len(tests))
    BY <1>1, FS_Interval
  <2>. HIDE DEF pool
  <2>. QED
    BY <1>2, <2>1, FS_Subset, FS_CardinalityType
<1>4. \A i \in pool : i \in Int /\ rank[i] = tests[i].rank /\ rank[i] \in Int
  <2>1. \A i \in DOMAIN tests : tests[i] \in Test
    OBVIOUS
  <2>2. \A i \in DOMAIN tests : tests[i].rank \in Nat
    BY <2>1 DEF Test
  <2>. QED
    BY <1>1, <1>2, <2>2
<1>5. size \in Nat /\ size =< Cardinality(pool)
  BY <1>3
<1>6. ASSUME NEW k \in 1..size
      PROVE  Nth(k) \in pool
  <2>2. k \in 1..Cardinality(pool)
    BY <1>3, <1>5
  <2>. HIDE DEF pool, size, rank
  <2>3. IsFiniteSet(pool) /\ \A i \in pool : i \in Int /\ rank[i] \in Int
    BY <1>3, <1>4
  <2>6. PICK i \in pool :
          Cardinality({j \in pool : rank[j] > rank[i] \/ (rank[j] = rank[i] /\ j < i)}) = k - 1
    BY <2>2, <2>3, EveryRankTaken, SMTT(20)
  <2>7. {j \in pool : rank[j] > rank[i] \/ (rank[j] = rank[i] /\ j < i)} = {j \in pool : Better(j, i)}
    BY <1>4
  <2>8. Place(i) = k
    <3>1. Place(i) = Cardinality({j \in pool : Better(j, i)}) + 1
      OBVIOUS
    <3>2. Cardinality({j \in pool : Better(j, i)}) = k - 1
      BY <2>6, <2>7, Zenon
    <3>. HIDE DEF Place
    <3>. QED
      BY <3>1, <3>2
  <2>. HIDE DEF Place
  <2>. QED
    BY <2>8
<1>7. TopCandidates(ids, n) = [k \in 1..size |-> Nth(k)]
  BY DEF TopCandidates
<1>8. \A i \in pool : i \in ids /\ tests[i].passed
  OBVIOUS
<1>. HIDE DEF Nth, size, pool
<1>. QED
  BY <1>5, <1>6, <1>7, <1>8

\* A value one step away, or bounced back, is one of the space.
LEMMA BouncedType ==
  ASSUME NEW size \in Nat, NEW i \in 1..size, NEW step \in {-1, 1}
  PROVE  Bounced(size, i, step) \in 1..size
BY DEF Bounced

\* What is drawn is a candidate.
LEMMA DrawnType ==
  ASSUME NEW rows, \A r \in DOMAIN rows : rows[r].cand \in Candidates,
         NEW families \in SUBSET Families, NEW thin \in BOOLEAN
  PROVE  Drawn(rows, families, thin) \subseteq Candidates
<1>. DEFINE passing == {r \in DOMAIN rows : rows[r].passed /\ rows[r].cand.family \in families}
            partial == {r \in DOMAIN rows : /\ ~rows[r].passed /\ rows[r].partial
                                            /\ rows[r].cand.family \in families}
            pairs   == {x \in partial \X partial :
                          x[1] # x[2] /\ rows[x[1]].cand.family = rows[x[2]].cand.family}
            random  == UNION {Grid(f) : f \in families}
            mutated == UNION {Mutations(rows[r].cand) : r \in passing}
            crossed == UNION {Recombinations(rows[x[1]].cand, rows[x[2]].cand) : x \in pairs}
<1>1. random \subseteq Candidates
  BY DEF Candidates
<1>2. ASSUME NEW c \in Candidates
      PROVE  Mutations(c) \subseteq Candidates
  <2>1. /\ Spaces[c.family] \in Seq(Nat \ {0})
        /\ \A k \in Keys(c.family) : c.params[k] \in 1..Spaces[c.family][k]
    BY CandidateParts
  <2>2. ASSUME NEW k \in Keys(c.family), NEW step \in {-1, 1}
        PROVE  SetParam(c, k, Bounced(Spaces[c.family][k], c.params[k], step)) \in Candidates
    <3>1. Spaces[c.family][k] \in Nat
      BY <2>1 DEF Keys
    <3>2. Bounced(Spaces[c.family][k], c.params[k], step) \in 1..Spaces[c.family][k]
      BY <2>1, <3>1, BouncedType
    <3>. QED
      BY <3>2, SetParamType
  <2>. QED
    BY <2>2 DEF Mutations
<1>3. mutated \subseteq Candidates
  <2>1. \A r \in passing : rows[r].cand \in Candidates
    OBVIOUS
  <2>. QED
    BY <1>2, <2>1
<1>4. crossed \subseteq Candidates
  <2>1. \A a \in Candidates : Grid(a.family) \subseteq Candidates
    BY CandidateParts DEF Candidates
  <2>2. \A x \in pairs : rows[x[1]].cand \in Candidates
    OBVIOUS
  <2>. HIDE DEF pairs
  <2>3. \A x \in pairs : Recombinations(rows[x[1]].cand, rows[x[2]].cand) \subseteq Candidates
    BY <2>1, <2>2 DEF Recombinations
  <2>. QED
    BY <2>3
<1>5. Drawn(rows, families, thin) \subseteq random \cup mutated \cup crossed
  BY DEF Drawn
<1>. HIDE DEF random, mutated, crossed
<1>. QED
  BY <1>1, <1>3, <1>4, <1>5

\* A batch proposes distinct candidates it has not tested.
LEMMA ProposalsType ==
  ASSUME NEW rows, \A r \in DOMAIN rows : rows[r].cand \in Candidates,
         NEW families \in SUBSET Families, NEW gridFamilies, NEW n \in Nat,
         NEW q \in Proposals(rows, families, gridFamilies, n)
  PROVE  /\ q \in Seq(Candidates)
         /\ \A i, j \in DOMAIN q : q[i] = q[j] => i = j
         /\ \A i \in DOMAIN q : q[i] \notin Tested(rows)
<1>. DEFINE fresh == Fresh(rows, families, n)
            first == Queued(rows, families, gridFamilies)
            sizes == {m \in 0..n : /\ m =< Cardinality(fresh)
                                   /\ m < n => m >= Cardinality(first)}
<1>1. fresh \subseteq Candidates \ Tested(rows)
  <2>. DEFINE thin == Cardinality(DOMAIN rows) < n
  <2>1. thin \in BOOLEAN
    OBVIOUS
  <2>2. fresh = Drawn(rows, families, thin) \ Tested(rows)
    BY DEF Fresh
  <2>. HIDE DEF thin, fresh
  <2>3. Drawn(rows, families, thin) \subseteq Candidates
    BY <2>1, DrawnType
  <2>. QED
    BY <2>2, <2>3
<1>2. q \in UNION {[1..m -> fresh] : m \in sizes}
  BY DEF Proposals
<1>3. PICK m \in 0..n : q \in [1..m -> fresh]
  BY <1>2
<1>4. \A i, j \in DOMAIN q : q[i] = q[j] => i = j
  BY DEF Proposals
<1>. HIDE DEF fresh
<1>. QED
  BY <1>1, <1>3, <1>4

\* What the rows of some tests have tried.
LEMMA TestedRows ==
  ASSUME NEW ids
  PROVE  Tested(Rows(ids)) = {tests[i].cand : i \in ids}
BY DEF Tested, Rows

-----------------------------------------------------------------------------
(* The invariant.                                                          *)

TypeOK ==
  /\ scenario \in Scenarios
  /\ runs \in Seq(Run)
  /\ tests \in Seq(Test)
  /\ validation_events \in [DOMAIN validation_events -> Event]
  /\ DOMAIN validation_events \subseteq DOMAIN tests
  /\ files \in Rulebook
  /\ now \in Nat
  /\ pc \in [Jobs -> Pcs]
  /\ loaded \in [Jobs -> Rulebook]
  /\ history \in [Jobs -> SUBSET (DOMAIN tests)]
  /\ queue \in [Jobs -> Seq(Candidates)]
  /\ survivors \in [Jobs -> Seq(DOMAIN tests)]
  /\ stages \in [Jobs -> Seq(Stages)]

\* Every test belongs to a run.
Belongs == \A i \in DOMAIN tests : tests[i].run \in DOMAIN runs /\ tests[i].by \in Jobs

\* The backtest has said of every test what it always says.
Outcomes == \A i \in DOMAIN tests : tests[i].passed = (tests[i].cand \in scenario.world.passes)

\* The clock is ahead of everything on the record.
Past ==
  /\ \A i \in DOMAIN tests : tests[i].at < now
  /\ \A t \in DOMAIN validation_events : validation_events[t].at < now

\* The tests of a run that have tried c before a time.
TriedBefore(r, c, time) == {i \in TestsOf(r) : tests[i].cand = c /\ tests[i].at < time}

\* How many neighbours of c the backtests would pass.
GoodNeighbours(c) ==
  Cardinality({k \in DOMAIN NeighbourSeq(c) : NeighbourSeq(c)[k] \in scenario.world.passes})

\* What the look at t rests on.
Earned(t) ==
  LET near == NeighbourSeq(tests[t].cand)
  IN  /\ tests[t].passed
      /\ \A k \in DOMAIN near :
           TriedBefore(tests[t].run, near[k], validation_events[t].at) # {}
      /\ Neighbourly(GoodNeighbours(tests[t].cand), Len(near))

\* The tables.
Recorded ==
  /\ Belongs
  /\ Outcomes
  /\ Past
  /\ OneRulebook
  /\ \A t \in DOMAIN validation_events : Earned(t)
  /\ JudgedAgainstAll

\* Past its guards, a command works on its run by the run's rulebook.
Working == {"load", "propose", "test", "pick", "next", "neighbour", "validate", "judge", "tune"}
Serves(p) ==
  pc[p] \in Working => Cmd(p).run \in DOMAIN runs /\ Follows(loaded[p], Cmd(p).run)

\* A fixed run attempts the candidate of its command line.
Attempts(p) == pc[p] = "load" /\ Cmd(p).cmd = "fixed" => Cmd(p).fixed \in Candidates

\* Its survivors passed research in its run.
Chosen(p) ==
  \A k \in DOMAIN survivors[p] :
    survivors[p][k] \in TestsOf(Cmd(p).run) /\ tests[survivors[p][k]].passed

\* It has a survivor in hand.
Validating == {"neighbour", "validate", "judge"}
InHand(p) == pc[p] \in Validating => Turn(p) =< Len(survivors[p])

\* The neighbours of the survivor are on record or queued; when none is left,
\* enough of them passed.
OnRecord(p, c) == \E i \in TestsOf(Cmd(p).run) : tests[i].cand = c
IsQueued(p, c) == \E j \in DOMAIN queue[p] : queue[p][j] = c
Surveyed(p) ==
  LET near == NeighbourSeq(tests[Current(p)].cand)
  IN  /\ pc[p] = "neighbour" =>
           \A k \in DOMAIN near : OnRecord(p, near[k]) \/ IsQueued(p, near[k])
      /\ pc[p] = "validate" =>
           /\ \A k \in DOMAIN near : OnRecord(p, near[k])
           /\ Neighbourly(GoodNeighbours(tests[Current(p)].cand), Len(near))

\* It judges what it has looked up.
LookedUp(p) == pc[p] = "judge" => Current(p) \in DOMAIN validation_events

Session(p) ==
  Serves(p) /\ Attempts(p) /\ Chosen(p) /\ InHand(p) /\ Surveyed(p) /\ LookedUp(p)

Inv == TypeOK /\ Recorded /\ \A p \in Jobs : Session(p)

-----------------------------------------------------------------------------
(* What a step leaves alone.                                               *)

\* Runs and tests are only added, and an event is not removed.
Grows ==
  /\ scenario' = scenario
  /\ DOMAIN runs \subseteq DOMAIN runs'
  /\ \A r \in DOMAIN runs : runs'[r] = runs[r]
  /\ DOMAIN tests \subseteq DOMAIN tests'
  /\ \A i \in DOMAIN tests : tests'[i] = tests[i]
  /\ DOMAIN validation_events \subseteq DOMAIN validation_events'

\* A command has not moved.
Rests(p) ==
  /\ pc'[p] = pc[p] /\ loaded'[p] = loaded[p] /\ queue'[p] = queue[p]
  /\ survivors'[p] = survivors[p] /\ stages'[p] = stages[p]

\* What holds of a command goes on holding while others write.
LEMMA SessionKeeps ==
  ASSUME TypeOK, Grows, NEW p \in Jobs, Session(p), survivors'[p] = survivors[p],
         Rests(p) \/ pc'[p] \notin Working
  PROVE  Session(p)'
<1>1. Jobs' = Jobs /\ Cmd(p)' = Cmd(p)
  BY DEF Grows, Jobs, Cmd
<1>2. \A r : TestsOf(r) \subseteq TestsOf(r)'
  BY DEF Grows, TestsOf
<1>3. \A r \in TestsOf(Cmd(p).run) : tests'[r] = tests[r]
  BY DEF Grows, TestsOf
<1>4. Chosen(p)'
  BY <1>1, <1>2, <1>3 DEF Chosen, Session
<1>5. CASE pc'[p] \notin Working
  BY <1>4, <1>5 DEF Session, Serves, Attempts, InHand, Surveyed, LookedUp, Working, Validating
<1>6. CASE Rests(p)
  <2>1. Serves(p)'
    BY <1>1, <1>6 DEF Session, Serves, Rests, Grows, Follows
  <2>11. Attempts(p)'
    BY <1>1, <1>6 DEF Session, Attempts, Rests
  <2>2. InHand(p)'
    BY <1>6 DEF Session, InHand, Rests, Turn
  <2>3. Current(p)' = Current(p)
    BY <1>6 DEF Rests, Current, Turn
  <2>4. LookedUp(p)'
    BY <1>6, <2>3 DEF Session, LookedUp, Rests, Grows
  <2>5. ASSUME pc[p] \in Validating
        PROVE  Current(p) \in DOMAIN tests
    <3>1. Turn(p) \in DOMAIN survivors[p]
      <4>1. Turn(p) =< Len(survivors[p])
        BY <2>5 DEF Session, InHand
      <4>2. stages[p] \in Seq(Stages) /\ survivors[p] \in Seq(DOMAIN tests)
        BY DEF TypeOK
      <4>. QED
        BY <4>1, <4>2 DEF Turn
    <3>. QED
      BY <3>1 DEF Session, Chosen, Current, TestsOf
  <2>6. ASSUME pc[p] \in Validating
        PROVE  tests'[Current(p)] = tests[Current(p)]
    BY <2>5, <2>6 DEF Grows
  <2>7. \A c : GoodNeighbours(c)' = GoodNeighbours(c)
    BY DEF GoodNeighbours, Grows
  <2>8. /\ \A c : (\E i \in TestsOf(Cmd(p).run) : tests[i].cand = c)
                     => \E i \in TestsOf(Cmd(p).run)' : tests'[i].cand = c
        /\ \A c : (\E j \in DOMAIN queue[p] : queue[p][j] = c)
                     => \E j \in DOMAIN queue'[p] : queue'[p][j] = c
    BY <1>1, <1>2, <1>3, <1>6 DEF Rests
  <2>9. pc'[p] = pc[p]
    BY <1>6 DEF Rests
  <2>10. Surveyed(p)'
    <3>. DEFINE near == NeighbourSeq(tests[Current(p)].cand)
                good == GoodNeighbours(tests[Current(p)].cand)
    <3>1. ASSUME pc[p] \in Validating
          PROVE  near' = near /\ good' = good
      BY <2>3, <2>6, <2>7, <3>1
    <3>2. Surveyed(p) =
            /\ pc[p] = "neighbour" =>
                 \A k \in DOMAIN near : OnRecord(p, near[k]) \/ IsQueued(p, near[k])
            /\ pc[p] = "validate" =>
                 /\ \A k \in DOMAIN near : OnRecord(p, near[k])
                 /\ Neighbourly(good, Len(near))
      BY DEF Surveyed
    <3>3. Surveyed(p)' =
            /\ pc'[p] = "neighbour" =>
                 \A k \in DOMAIN near' : OnRecord(p, near[k])' \/ IsQueued(p, near[k])'
            /\ pc'[p] = "validate" =>
                 /\ \A k \in DOMAIN near' : OnRecord(p, near[k])'
                 /\ Neighbourly(good', Len(near'))
      BY DEF Surveyed
    <3>. HIDE DEF near, good
    <3>4. Surveyed(p)
      BY DEF Session
    <3>5. ASSUME pc[p] \in Validating, NEW k \in DOMAIN near
          PROVE  /\ OnRecord(p, near[k]) => OnRecord(p, near[k])'
                 /\ IsQueued(p, near[k]) => IsQueued(p, near[k])'
      <4>1. near'[k] = near[k]
        BY <3>1, <3>5
      <4>2. OnRecord(p, near[k]) => OnRecord(p, near[k])'
        BY <2>8, <4>1 DEF OnRecord
      <4>3. IsQueued(p, near[k]) => IsQueued(p, near[k])'
        BY <2>8, <4>1 DEF IsQueued
      <4>. QED
        BY <4>2, <4>3
    <3>6. ASSUME pc[p] = "neighbour"
          PROVE  \A k \in DOMAIN near : OnRecord(p, near[k])' \/ IsQueued(p, near[k])'
      BY <3>4, <3>5, <3>2, <3>6 DEF Validating
    <3>7. ASSUME pc[p] = "validate"
          PROVE  /\ \A k \in DOMAIN near : OnRecord(p, near[k])'
                 /\ Neighbourly(good, Len(near))
      BY <3>4, <3>5, <3>2, <3>7 DEF Validating
    <3>. QED
      BY <2>9, <3>1, <3>3, <3>6, <3>7 DEF Validating
  <2>. QED
    BY <1>4, <2>1, <2>2, <2>4, <2>10, <2>11 DEF Session
<1>. QED
  BY <1>5, <1>6

\* The tables stay right while only the tables of runs, notes and settings
\* grow and time passes.
LEMMA RecordedKeeps ==
  ASSUME TypeOK, Recorded, Grows, tests' = tests, validation_events' = validation_events,
         now' \in Nat, now' >= now
  PROVE  Recorded'
<1>1. Jobs' = Jobs
  BY DEF Grows, Jobs
<1>2. Belongs'
  BY <1>1 DEF Recorded, Belongs, Grows
<1>3. Outcomes'
  BY DEF Recorded, Outcomes, Grows
<1>4. Past'
  <2>1. \A i \in DOMAIN tests : tests[i].at \in Nat
    <3>1. \A i \in DOMAIN tests : tests[i] \in Test
      BY DEF TypeOK
    <3>. QED
      BY <3>1 DEF Test
  <2>2. \A t \in DOMAIN validation_events : validation_events[t].at \in Nat
    BY DEF TypeOK, Event
  <2>. QED
    BY <2>1, <2>2 DEF Recorded, Past, TypeOK
<1>5. OneRulebook'
  <2>1. \A i \in DOMAIN tests : tests[i].run \in DOMAIN runs
    BY DEF Recorded, Belongs
  <2>2. \A g : \A r \in DOMAIN runs : Follows(g, r) => Follows(g, r)'
    BY DEF Follows, Grows
  <2>3. DOMAIN validation_events \subseteq DOMAIN tests
    BY DEF TypeOK
  <2>. QED
    BY <2>1, <2>2, <2>3 DEF Recorded, OneRulebook, Follows
<1>6. \A t \in DOMAIN validation_events : Earned(t)'
  <2>1. \A c : GoodNeighbours(c)' = GoodNeighbours(c)
    BY DEF GoodNeighbours, Grows
  <2>2. \A r, c, time : TriedBefore(r, c, time)' = TriedBefore(r, c, time)
    BY DEF TriedBefore, TestsOf
  <2>3. ASSUME NEW t \in DOMAIN validation_events
        PROVE  Earned(t)'
    <3>. DEFINE near == NeighbourSeq(tests[t].cand)
    <3>1. Earned(t)
      BY DEF Recorded
    <3>2. near' = near /\ GoodNeighbours(tests[t].cand)' = GoodNeighbours(tests[t].cand)
      BY DEF GoodNeighbours, Grows
    <3>3. Earned(t) =
            /\ tests[t].passed
            /\ \A k \in DOMAIN near :
                 TriedBefore(tests[t].run, near[k], validation_events[t].at) # {}
            /\ Neighbourly(GoodNeighbours(tests[t].cand), Len(near))
      BY DEF Earned
    <3>4. Earned(t)' =
            /\ tests'[t].passed
            /\ \A k \in DOMAIN near' :
                 TriedBefore(tests[t].run, near[k], validation_events[t].at)' # {}
            /\ Neighbourly(GoodNeighbours(tests[t].cand)', Len(near'))
      BY DEF Earned
    <3>. HIDE DEF near
    <3>5. \A k \in DOMAIN near : TriedBefore(tests[t].run, near[k], validation_events[t].at)'
                                 = TriedBefore(tests[t].run, near[k], validation_events[t].at)
      BY <3>2 DEF TriedBefore, TestsOf
    <3>. QED
      BY <3>1, <3>2, <3>3, <3>4, <3>5
  <2>. QED
    BY <2>3
<1>7. JudgedAgainstAll'
  BY DEF Recorded, JudgedAgainstAll, SurvivesDeflation, TestsOf, Grows
<1>. QED
  BY <1>2, <1>3, <1>4, <1>5, <1>6, <1>7 DEF Recorded

\* A step of a command that writes neither tests nor events.
LEMMA QuietKeeps ==
  ASSUME Inv, TypeOK', Grows, tests' = tests, validation_events' = validation_events,
         now' >= now, NEW p \in Jobs, \A q \in Jobs \ {p} : Rests(q) /\ survivors'[q] = survivors[q],
         Session(p)'
  PROVE  Inv'
<1>1. Jobs' = Jobs
  BY DEF Grows, Jobs
<1>2. Recorded'
  <2>1. now' \in Nat
    BY DEF TypeOK
  <2>. QED
    BY <2>1, RecordedKeeps DEF Inv
<1>3. ASSUME NEW q \in Jobs, q # p
      PROVE  Session(q)'
  <2>1. TypeOK /\ Session(q) /\ Rests(q) /\ survivors'[q] = survivors[q]
    BY <1>3 DEF Inv
  <2>. QED
    BY <2>1, SessionKeeps
<1>. QED
  BY <1>1, <1>2, <1>3 DEF Inv

\* A step of a command that is not, or no longer, at work on a run.
LEMMA IdleKeeps ==
  ASSUME Inv, TypeOK', Grows, tests' = tests, validation_events' = validation_events,
         now' >= now, NEW p \in Jobs, \A q \in Jobs \ {p} : Rests(q) /\ survivors'[q] = survivors[q],
         survivors'[p] = survivors[p], pc'[p] \notin Working
  PROVE  Inv'
<1>1. TypeOK /\ Session(p)
  BY DEF Inv
<1>2. Session(p)'
  BY <1>1, SessionKeeps
<1>. QED
  BY <1>2, QuietKeeps

\* Start.
LEMMA StartKeeps ==
  ASSUME Inv, NEW p \in Jobs, Start(p)
  PROVE  Inv'
<1>1. TypeOK
  BY DEF Inv
<1>2. /\ pc' = [pc EXCEPT ![p] = "check"] /\ loaded' = [loaded EXCEPT ![p] = files]
      /\ UNCHANGED <<scenario, files, runs, tests, validation_events,
                     history, queue, survivors, stages>>
      /\ now' = IF scenario.overlap THEN now ELSE now + Gap + 1
  BY DEF Start, To, world, tables
<1>3. Jobs' = Jobs
  BY <1>2 DEF Jobs
<1>4. now' \in Nat /\ now' >= now
  <2>1. now \in Nat /\ Gap \in Nat
    BY <1>1, ResearchAssumption DEF TypeOK
  <2>. QED
    BY <1>2, <2>1
<1>5. pc' \in [Jobs -> Pcs] /\ loaded' \in [Jobs -> Rulebook]
  BY <1>1, <1>2 DEF TypeOK, Pcs
<1>6. TypeOK'
  BY <1>1, <1>2, <1>3, <1>4, <1>5 DEF TypeOK
<1>7. Grows
  BY <1>2 DEF Grows
<1>8. pc'[p] \notin Working
  BY <1>1, <1>2 DEF TypeOK, Working
<1>9. \A q \in Jobs \ {p} : Rests(q)
  BY <1>1, <1>2 DEF Rests, TypeOK
<1>. QED
  BY <1>2, <1>4, <1>6, <1>7, <1>8, <1>9, IdleKeeps

\* A step after which a command is over, or waits for its minutes of
\* downloads, and that changes only where it is.
LEMMA GoTypes ==
  ASSUME TypeOK, NEW p \in Jobs, NEW next \in Pcs, Go(p, next), UNCHANGED <<world, killed>>
  PROVE  /\ TypeOK' /\ Grows /\ tests' = tests /\ validation_events' = validation_events
         /\ now' >= now /\ pc'[p] = next
         /\ \A q \in Jobs \ {p} : Rests(q)
         /\ Rests(p) \/ pc'[p] # pc[p]
         /\ loaded' = loaded /\ queue' = queue /\ survivors' = survivors /\ stages' = stages
         /\ history' = history
<1>1. /\ pc' = [pc EXCEPT ![p] = next]
      /\ UNCHANGED <<scenario, files, runs, tests, validation_events, now, loaded,
                     history, queue, survivors, stages>>
  BY DEF Go, To, world, tables, memory
<1>2. Jobs' = Jobs
  BY <1>1 DEF Jobs
<1>3. pc' \in [Jobs -> Pcs] /\ pc'[p] = next
  BY <1>1 DEF TypeOK
<1>4. TypeOK'
  BY <1>1, <1>2, <1>3 DEF TypeOK
<1>5. Grows
  BY <1>1 DEF Grows
<1>6. now' >= now
  BY <1>1 DEF TypeOK
<1>7. \A q \in Jobs \ {p} : Rests(q)
  BY <1>1 DEF TypeOK, Rests
<1>8. Rests(p) \/ pc'[p] # pc[p]
  BY <1>1 DEF Rests
<1>. QED
  BY <1>1, <1>3, <1>4, <1>5, <1>6, <1>7, <1>8

\* A command that ends leaves everything as it is.
LEMMA EndKeeps ==
  ASSUME Inv, NEW p \in Jobs, End(p), UNCHANGED <<world, killed>>
  PROVE  Inv'
<1>1. TypeOK /\ "ended" \in Pcs /\ "ended" \notin Working
  BY DEF Inv, Pcs, Working
<1>2. Go(p, "ended")
  BY DEF End
<1>3. /\ TypeOK' /\ Grows /\ tests' = tests /\ validation_events' = validation_events
      /\ now' >= now /\ pc'[p] = "ended" /\ survivors' = survivors
      /\ \A q \in Jobs \ {p} : Rests(q)
  BY <1>1, <1>2, GoTypes
<1>. QED
  BY <1>1, <1>3, IdleKeeps

\* Kill.
LEMMA KillKeeps ==
  ASSUME Inv, NEW p \in Jobs, Kill(p)
  PROVE  Inv'
<1>1. TypeOK
  BY DEF Inv
<1>2. /\ pc' = [pc EXCEPT ![p] = "killed"]
      /\ UNCHANGED <<scenario, files, runs, tests, validation_events, now, loaded,
                     history, queue, survivors, stages>>
  BY DEF Kill, To, world, tables, memory
<1>3. Jobs' = Jobs
  BY <1>2 DEF Jobs
<1>4. pc' \in [Jobs -> Pcs] /\ pc'[p] \notin Working
  BY <1>1, <1>2 DEF TypeOK, Pcs, Working
<1>5. TypeOK'
  BY <1>1, <1>2, <1>3, <1>4 DEF TypeOK
<1>6. Grows /\ now' >= now
  BY <1>1, <1>2 DEF Grows, TypeOK
<1>7. \A q \in Jobs \ {p} : Rests(q)
  BY <1>1, <1>2 DEF TypeOK, Rests
<1>. QED
  BY <1>2, <1>4, <1>5, <1>6, <1>7, IdleKeeps

\* Edit.
LEMMA EditKeeps ==
  ASSUME Inv, Edit
  PROVE  Inv'
<1>1. TypeOK
  BY DEF Inv
<1>2. UNCHANGED <<scenario, runs, tests, validation_events, now, pc, loaded,
                  history, queue, survivors, stages>>
  BY DEF Edit, tables, memory
<1>3. files' \in Rulebook
  <2>1. files = [criteria |-> files.criteria, combined |-> files.combined, source |-> files.source]
        /\ files.criteria \in 0..1 /\ files.combined \in 0..1 /\ files.source \in 0..1
    BY <1>1 DEF TypeOK, Rulebook
  <2>2. PICK f \in DOMAIN files : files' = [files EXCEPT ![f] = 1 - @]
    BY DEF Edit
  <2>3. f \in {"criteria", "combined", "source"}
    BY <2>1
  <2>4. CASE f = "criteria"
    BY <2>1, <2>2, <2>4 DEF Rulebook
  <2>5. CASE f = "combined"
    BY <2>1, <2>2, <2>5 DEF Rulebook
  <2>6. CASE f = "source"
    BY <2>1, <2>2, <2>6 DEF Rulebook
  <2>. QED
    BY <2>3, <2>4, <2>5, <2>6
<1>4. Jobs' = Jobs
  BY <1>2 DEF Jobs
<1>5. TypeOK'
  BY <1>1, <1>2, <1>3, <1>4 DEF TypeOK
<1>6. Grows /\ now' >= now
  BY <1>1, <1>2 DEF Grows, TypeOK
<1>7. \A q \in Jobs : Rests(q) /\ survivors'[q] = survivors[q]
  BY <1>2 DEF Rests
<1>8. Recorded'
  <2>1. now' \in Nat /\ Recorded
    BY <1>5 DEF TypeOK, Inv
  <2>. QED
    BY <1>1, <1>2, <1>6, <2>1, RecordedKeeps
<1>9. \A q \in Jobs : Session(q)'
  BY <1>1, <1>6, <1>7, SessionKeeps DEF Inv
<1>. QED
  BY <1>4, <1>5, <1>8, <1>9 DEF Inv

\* What a command line says.
LEMMA CmdType ==
  ASSUME TypeOK, NEW p \in Jobs
  PROVE  /\ Cmd(p) \in Job
         /\ Cmd(p).run \in Nat /\ Cmd(p).n \in Nat
         /\ Cmd(p).families \in SUBSET Families /\ Cmd(p).fixed \in Candidates \cup {None}
<1>1. Cmd(p) \in Job
  BY ResearchAssumption DEF TypeOK, Jobs, Cmd
<1>. QED
  BY <1>1 DEF Job

\* Seed.
LEMMA SeedKeeps ==
  ASSUME Inv, NEW p \in Jobs, Seed(p)
  PROVE  Inv'
<1>1. TypeOK
  BY DEF Inv
<1>2. UNCHANGED <<world, killed>>
  BY DEF Seed
<1>. DEFINE j == Cmd(p)
            new == [criteria |-> loaded[p].criteria,
                    combined |-> IF j.rule = "standalone" THEN None ELSE files.combined,
                    source |-> files.source, families |-> j.families,
                    fixed |-> j.fixed, factor |-> j.factor]
<1>3. CASE End(p)
  BY <1>2, <1>3, EndKeeps
<1>4. CASE /\ runs' = Append(runs, new) /\ To(p, "ended")
           /\ UNCHANGED <<tests, notes, validation_events, meta_tests, now, memory>>
  <2>1. new \in Run
    <3>1. loaded[p] \in Rulebook /\ files \in Rulebook
      BY <1>1 DEF TypeOK
    <3>2. j \in Job
      BY <1>1, CmdType
    <3>. QED
      BY <3>1, <3>2 DEF Rulebook, Job, Run
  <2>. HIDE DEF new
  <2>2. runs' \in Seq(Run) /\ DOMAIN runs \subseteq DOMAIN runs'
        /\ \A r \in DOMAIN runs : runs'[r] = runs[r]
    BY <1>1, <1>4, <2>1 DEF TypeOK
  <2>3. /\ pc' = [pc EXCEPT ![p] = "ended"]
        /\ UNCHANGED <<scenario, files, tests, validation_events, now, loaded,
                       history, queue, survivors, stages>>
    BY <1>2, <1>4 DEF To, world, memory
  <2>4. Jobs' = Jobs
    BY <2>3 DEF Jobs
  <2>5. pc' \in [Jobs -> Pcs] /\ pc'[p] \notin Working
    BY <1>1, <2>3 DEF TypeOK, Pcs, Working
  <2>6. TypeOK'
    BY <1>1, <2>2, <2>3, <2>4, <2>5 DEF TypeOK
  <2>7. Grows /\ now' >= now
    BY <1>1, <2>2, <2>3 DEF Grows, TypeOK
  <2>8. \A q \in Jobs \ {p} : Rests(q)
    BY <1>1, <2>3 DEF TypeOK, Rests
  <2>. QED
    BY <2>3, <2>5, <2>6, <2>7, <2>8, IdleKeeps
<1>. QED
  BY <1>3, <1>4 DEF Seed

\* Note.
LEMMA NoteKeeps ==
  ASSUME Inv, NEW p \in Jobs, Note(p)
  PROVE  Inv'
<1>1. TypeOK
  BY DEF Inv
<1>2. /\ pc' = [pc EXCEPT ![p] = "ended"]
      /\ UNCHANGED <<scenario, files, runs, tests, validation_events, now, loaded,
                     history, queue, survivors, stages>>
  BY DEF Note, To, world, memory
<1>3. Jobs' = Jobs
  BY <1>2 DEF Jobs
<1>4. pc' \in [Jobs -> Pcs] /\ pc'[p] \notin Working
  BY <1>1, <1>2 DEF TypeOK, Pcs, Working
<1>5. TypeOK'
  BY <1>1, <1>2, <1>3, <1>4 DEF TypeOK
<1>6. Grows /\ now' >= now
  BY <1>1, <1>2 DEF Grows, TypeOK
<1>7. \A q \in Jobs \ {p} : Rests(q)
  BY <1>1, <1>2 DEF TypeOK, Rests
<1>. QED
  BY <1>2, <1>4, <1>5, <1>6, <1>7, IdleKeeps

\* A command that passes its guards, or goes on to where it holds nothing in
\* hand, is bound by what it loaded.
LEMMA WorkKeeps ==
  ASSUME Inv, TypeOK', Grows, tests' = tests, validation_events' = validation_events,
         now' >= now, NEW p \in Jobs, \A q \in Jobs \ {p} : Rests(q) /\ survivors'[q] = survivors[q],
         Chosen(p)', Attempts(p)', pc'[p] \notin Validating,
         Cmd(p).run \in DOMAIN runs, Follows(loaded'[p], Cmd(p).run)
  PROVE  Inv'
<1>1. Cmd(p)' = Cmd(p)
  BY DEF Grows, Cmd
<1>2. Serves(p)'
  BY <1>1 DEF Serves, Follows, Grows
<1>3. Session(p)'
  BY <1>2 DEF Session, InHand, Surveyed, LookedUp, Validating
<1>. QED
  BY <1>3, QuietKeeps

\* As long as the tests stay, so do the survivors chosen from them.
LEMMA ChosenKeeps ==
  ASSUME NEW p, Chosen(p), scenario' = scenario, tests' = tests, survivors'[p] = survivors[p]
  PROVE  Chosen(p)'
BY DEF Chosen, TestsOf, Cmd

\* Check.
LEMMA CheckKeeps ==
  ASSUME Inv, NEW p \in Jobs, Check(p)
  PROVE  Inv'
<1>1. TypeOK /\ Chosen(p)
  BY DEF Inv, Session
<1>2. UNCHANGED <<world, killed>>
  BY DEF Check
<1>. DEFINE j == Cmd(p)
            rulebook == [files EXCEPT !.criteria = loaded[p].criteria]
            next == IF j.cmd = "tune" THEN "pick" ELSE "load"
<1>3. CASE End(p)
  BY <1>2, <1>3, EndKeeps
<1>4. CASE /\ Bound(j.run, rulebook) /\ MayRun(p)
           /\ loaded' = [loaded EXCEPT ![p] = rulebook]
           /\ To(p, next)
           /\ UNCHANGED <<tables, now, history, queue, survivors, stages>>
  <2>1. rulebook \in Rulebook
    BY <1>1 DEF TypeOK, Rulebook
  <2>2. next \in Pcs \ Validating
    BY DEF Pcs, Validating
  <2>3. j.run \in DOMAIN runs /\ Follows(rulebook, j.run)
    BY <1>4 DEF Bound, CheckedRun, CombinedConfigForRun, CheckDataSource, Follows
  <2>. HIDE DEF rulebook, next
  <2>4. /\ pc' = [pc EXCEPT ![p] = next]
        /\ UNCHANGED <<scenario, files, runs, tests, validation_events, now,
                       history, queue, survivors, stages>>
    BY <1>2, <1>4 DEF To, world, tables
  <2>5. Jobs' = Jobs
    BY <2>4 DEF Jobs
  <2>6. /\ pc' \in [Jobs -> Pcs] /\ pc'[p] = next
        /\ loaded' \in [Jobs -> Rulebook] /\ loaded'[p] = rulebook
    BY <1>1, <1>4, <2>1, <2>2, <2>4 DEF TypeOK
  <2>7. TypeOK'
    BY <1>1, <2>4, <2>5, <2>6 DEF TypeOK
  <2>8. Grows /\ now' >= now
    BY <1>1, <2>4 DEF Grows, TypeOK
  <2>9. \A q \in Jobs \ {p} : Rests(q)
    BY <1>1, <1>4, <2>4 DEF TypeOK, Rests
  <2>10. Chosen(p)'
    BY <1>1, <2>4, ChosenKeeps
  <2>11. Attempts(p)'
    <3>1. j.cmd = "fixed" => j.fixed # None
      BY <1>4 DEF MayRun
    <3>2. j.fixed \in Candidates \cup {None}
      BY <1>1, CmdType
    <3>. QED
      BY <2>4, <3>1, <3>2 DEF Attempts, Cmd
  <2>. QED
    BY <2>2, <2>3, <2>4, <2>6, <2>7, <2>8, <2>9, <2>10, <2>11, WorkKeeps
<1>. QED
  BY <1>3, <1>4 DEF Check

\* A command at work goes on to where it holds nothing in hand.
LEMMA GoOnKeeps ==
  ASSUME Inv, TypeOK', Grows, tests' = tests, validation_events' = validation_events,
         now' >= now, NEW p \in Jobs, \A q \in Jobs \ {p} : Rests(q) /\ survivors'[q] = survivors[q],
         survivors'[p] = survivors[p], loaded'[p] = loaded[p],
         pc[p] \in Working, pc'[p] \notin Validating \cup {"load"}
  PROVE  Inv'
<1>1. Chosen(p) /\ Serves(p)
  BY DEF Inv, Session
<1>2. Chosen(p)'
  BY <1>1, ChosenKeeps DEF Grows
<1>3. Cmd(p).run \in DOMAIN runs /\ Follows(loaded'[p], Cmd(p).run)
  BY <1>1 DEF Serves
<1>4. Attempts(p)' /\ pc'[p] \notin Validating
  BY DEF Attempts
<1>. QED
  BY <1>2, <1>3, <1>4, WorkKeeps

\* Load.
LEMMA LoadKeeps ==
  ASSUME Inv, NEW p \in Jobs, Load(p)
  PROVE  Inv'
<1>1. TypeOK /\ Cmd(p) \in Job
  BY CmdType DEF Inv
<1>2. pc[p] \in Working /\ UNCHANGED <<world, killed>>
  BY DEF Load, Working
<1>3. CASE LoadBatch(p)
  <2>1. TestsOf(Cmd(p).run) \in SUBSET (DOMAIN tests)
    BY DEF TestsOf
  <2>2. /\ pc' = [pc EXCEPT ![p] = "propose"]
        /\ history' = [history EXCEPT ![p] = TestsOf(Cmd(p).run)]
        /\ UNCHANGED <<scenario, files, runs, tests, validation_events, now, loaded,
                       queue, survivors, stages>>
    BY <1>2, <1>3 DEF LoadBatch, Hist, To, world, tables
  <2>3. Jobs' = Jobs
    BY <2>2 DEF Jobs
  <2>4. /\ pc' \in [Jobs -> Pcs] /\ pc'[p] \notin Validating \cup {"load"}
        /\ history' \in [Jobs -> SUBSET (DOMAIN tests)]
    BY <1>1, <2>1, <2>2 DEF TypeOK, Pcs, Validating
  <2>5. TypeOK'
    BY <1>1, <2>2, <2>3, <2>4 DEF TypeOK
  <2>6. Grows /\ now' >= now
    BY <1>1, <2>2 DEF Grows, TypeOK
  <2>7. \A q \in Jobs \ {p} : Rests(q)
    BY <1>1, <2>2 DEF TypeOK, Rests
  <2>. QED
    BY <1>2, <2>2, <2>4, <2>5, <2>6, <2>7, GoOnKeeps
<1>4. CASE LoadFixed(p)
  <2>1. <<Cmd(p).fixed>> \in Seq(Candidates)
    <3>1. Attempts(p)
      BY DEF Inv, Session
    <3>2. Cmd(p).fixed \in Candidates
      BY <1>4, <3>1 DEF Load, LoadFixed, Attempts
    <3>. QED
      BY <3>2
  <2>2. /\ pc' = [pc EXCEPT ![p] = "test"]
        /\ queue' = [queue EXCEPT ![p] = <<Cmd(p).fixed>>]
        /\ UNCHANGED <<scenario, files, runs, tests, validation_events, now, loaded,
                       history, survivors, stages>>
    BY <1>2, <1>4 DEF LoadFixed, Queue, To, world, tables
  <2>3. Jobs' = Jobs
    BY <2>2 DEF Jobs
  <2>4. /\ pc' \in [Jobs -> Pcs] /\ pc'[p] \notin Validating \cup {"load"}
        /\ queue' \in [Jobs -> Seq(Candidates)]
    BY <1>1, <2>1, <2>2 DEF TypeOK, Pcs, Validating
  <2>5. TypeOK'
    BY <1>1, <2>2, <2>3, <2>4 DEF TypeOK
  <2>6. Grows /\ now' >= now
    BY <1>1, <2>2 DEF Grows, TypeOK
  <2>7. \A q \in Jobs \ {p} : Rests(q)
    BY <1>1, <2>2 DEF TypeOK, Rests
  <2>. QED
    BY <1>2, <2>2, <2>4, <2>5, <2>6, <2>7, GoOnKeeps
<1>5. CASE Go(p, "pick")
  <2>1. "pick" \in Pcs /\ "pick" \notin Validating \cup {"load"}
    BY DEF Pcs, Validating
  <2>2. /\ TypeOK' /\ Grows /\ tests' = tests /\ validation_events' = validation_events
        /\ now' >= now /\ pc'[p] = "pick" /\ loaded' = loaded /\ survivors' = survivors
        /\ \A q \in Jobs \ {p} : Rests(q)
    BY <1>1, <1>2, <1>5, <2>1, GoTypes
  <2>. QED
    BY <1>2, <2>1, <2>2, GoOnKeeps
<1>6. CASE End(p)
  BY <1>2, <1>6, EndKeeps
<1>. QED
  BY <1>3, <1>4, <1>5, <1>6 DEF Load

\* GiveUp.
LEMMA GiveUpKeeps ==
  ASSUME Inv, NEW p \in Jobs, GiveUp(p)
  PROVE  Inv'
BY EndKeeps DEF GiveUp

\* How much a batch has left.
LEMMA LeftType ==
  ASSUME TypeOK, NEW p \in Jobs
  PROVE  Left(p) \in Int
<1>1. DOMAIN tests = 1..Len(tests) /\ Len(tests) \in Nat
  BY DEF TypeOK
<1>2. IsFiniteSet(1..Len(tests))
  BY <1>1, FS_Interval
<1>3. Own(p) \subseteq 1..Len(tests)
  BY <1>1 DEF Own
<1>4. Cardinality(Own(p)) \in Nat
  BY <1>2, <1>3, FS_Subset, FS_CardinalityType
<1>. QED
  BY <1>4, CmdType DEF Left

\* What the run's families are.
LEMMA BatchFamiliesType ==
  ASSUME TypeOK, NEW p \in Jobs, Cmd(p).run \in DOMAIN runs
  PROVE  BatchFamilies(p) \in SUBSET Families
<1>1. runs[Cmd(p).run] \in Run
  BY DEF TypeOK
<1>2. runs[Cmd(p).run].families \in SUBSET Families
  BY <1>1 DEF Run
<1>. QED
  BY <1>2, CmdType DEF BatchFamilies

\* What a batch queues.
LEMMA ProposedType ==
  ASSUME TypeOK, NEW p \in Jobs, Cmd(p).run \in DOMAIN runs, Left(p) > 0,
         NEW q \in Proposals(Rows(history[p]), BatchFamilies(p), FactorFamilies, Left(p))
  PROVE  /\ q \in Seq(Candidates)
         /\ \A i, j \in DOMAIN q : q[i] = q[j] => i = j
         /\ \A i \in DOMAIN q : q[i] \notin {tests[t].cand : t \in history[p]}
<1>1. history[p] \subseteq DOMAIN tests /\ \A i \in DOMAIN tests : tests[i] \in Test
  BY DEF TypeOK
<1>2. \A i \in DOMAIN tests : tests[i].cand \in Candidates
  BY <1>1 DEF Test
<1>. DEFINE rows == Rows(history[p])
<1>3. \A r \in DOMAIN rows : rows[r].cand \in Candidates
  BY <1>1, <1>2 DEF Rows
<1>4. Tested(rows) = {tests[t].cand : t \in history[p]}
  BY TestedRows
<1>5. Left(p) \in Nat /\ BatchFamilies(p) \in SUBSET Families
  BY LeftType, BatchFamiliesType
<1>. HIDE DEF rows
<1>. QED
  BY <1>3, <1>4, <1>5, ProposalsType DEF rows

\* Propose.
LEMMA ProposeKeeps ==
  ASSUME Inv, NEW p \in Jobs, Propose(p)
  PROVE  Inv'
<1>1. TypeOK /\ Serves(p)
  BY DEF Inv, Session
<1>2. pc[p] \in Working /\ Cmd(p).run \in DOMAIN runs
  BY <1>1 DEF Propose, Working, Serves
<1>3. PICK q \in Proposals(Rows(history[p]), BatchFamilies(p), FactorFamilies, Left(p)) : Queue(p, q)
  BY DEF Propose
<1>4. q \in Seq(Candidates)
  <2>1. Left(p) > 0
    BY DEF Propose
  <2>. QED
    BY <1>1, <1>2, <2>1, ProposedType
<1>5. /\ pc' = [pc EXCEPT ![p] = "test"] /\ queue' = [queue EXCEPT ![p] = q]
      /\ UNCHANGED <<scenario, files, runs, tests, validation_events, now, loaded, history,
                     survivors, stages>>
  BY <1>3 DEF Propose, Queue, To, world, tables
<1>6. Jobs' = Jobs
  BY <1>5 DEF Jobs
<1>7. /\ pc' \in [Jobs -> Pcs] /\ pc'[p] \notin Validating \cup {"load"}
      /\ queue' \in [Jobs -> Seq(Candidates)]
  BY <1>1, <1>4, <1>5 DEF TypeOK, Pcs, Validating
<1>8. TypeOK'
  BY <1>1, <1>5, <1>6, <1>7 DEF TypeOK
<1>9. Grows /\ now' >= now
  BY <1>1, <1>5 DEF Grows, TypeOK
<1>10. \A r \in Jobs \ {p} : Rests(r)
  BY <1>1, <1>5 DEF TypeOK, Rests
<1>. QED
  BY <1>2, <1>5, <1>7, <1>8, <1>9, <1>10, GoOnKeeps

\* Tune.
LEMMA TuneKeeps ==
  ASSUME Inv, NEW p \in Jobs, Tune(p)
  PROVE  Inv'
<1>1. TypeOK
  BY DEF Inv
<1>2. UNCHANGED <<world, killed>> /\ pc[p] = "tune"
  BY DEF Tune
<1>3. CASE End(p)
  BY <1>2, <1>3, EndKeeps
<1>4. CASE UNCHANGED <<runs, tests, notes, validation_events, now, pc, memory>>
  <2>1. UNCHANGED <<scenario, files, runs, tests, validation_events, now, pc, loaded,
                    history, queue, survivors, stages>>
    BY <1>2, <1>4 DEF world, memory
  <2>2. TypeOK'
    BY <1>1, <2>1 DEF TypeOK, Jobs
  <2>3. Grows /\ now' >= now
    BY <1>1, <2>1 DEF Grows, TypeOK
  <2>4. \A q \in Jobs : Rests(q)
    BY <2>1 DEF Rests
  <2>5. pc[p] \in Working /\ pc'[p] \notin Validating \cup {"load"}
    BY <1>2, <2>1 DEF Working, Validating
  <2>. QED
    BY <2>1, <2>2, <2>3, <2>4, <2>5, GoOnKeeps
<1>. QED
  BY <1>3, <1>4 DEF Tune

\* Pick.
LEMMA PickKeeps ==
  ASSUME Inv, NEW p \in Jobs, Pick(p)
  PROVE  Inv'
<1>. DEFINE ids == TestsOf(Cmd(p).run)
            best == TopCandidates(ids, Cmd(p).n)
            next == IF Cmd(p).cmd = "validate" THEN "next"
                    ELSE IF best = <<>> THEN "ended" ELSE "tune"
<1>1. TypeOK /\ Serves(p) /\ pc[p] \in Working
  BY DEF Inv, Session, Pick, Working
<1>2. /\ best \in Seq(ids) /\ ids \subseteq DOMAIN tests
      /\ \A k \in DOMAIN best : tests[best[k]].passed
  <2>1. tests \in Seq(Test) /\ ids \subseteq DOMAIN tests /\ Cmd(p).n \in Nat
    BY <1>1, CmdType DEF TypeOK, TestsOf
  <2>. HIDE DEF ids
  <2>. QED
    BY <2>1, TopCandidatesType
<1>3. next \in Pcs \ (Validating \cup {"load"})
  BY DEF Pcs, Validating
<1>4. /\ pc' = [pc EXCEPT ![p] = next] /\ survivors' = [survivors EXCEPT ![p] = best]
      /\ UNCHANGED <<scenario, files, runs, tests, validation_events, now, loaded, history,
                     queue, stages>>
  BY DEF Pick, To, world, tables
<1>5. Cmd(p)' = Cmd(p) /\ ids' = ids
  BY <1>4 DEF Cmd, TestsOf
<1>6. best \in Seq(DOMAIN tests)
  BY <1>2
<1>. HIDE DEF best, next
<1>7. Jobs' = Jobs
  BY <1>4 DEF Jobs
<1>8. /\ pc' \in [Jobs -> Pcs] /\ pc'[p] \notin Validating \cup {"load"}
      /\ survivors' \in [Jobs -> Seq(DOMAIN tests)] /\ survivors'[p] = best
  BY <1>1, <1>3, <1>4, <1>6 DEF TypeOK
<1>9. TypeOK'
  BY <1>1, <1>4, <1>7, <1>8 DEF TypeOK
<1>10. Grows /\ now' >= now
  BY <1>1, <1>4 DEF Grows, TypeOK
<1>11. \A q \in Jobs \ {p} : Rests(q)
  BY <1>1, <1>4 DEF TypeOK, Rests
<1>12. Chosen(p)'
  <2>1. \A k \in DOMAIN best : best[k] \in ids /\ tests[best[k]].passed
    BY <1>2
  <2>2. \A k \in DOMAIN survivors'[p] :
          survivors'[p][k] \in ids' /\ tests'[survivors'[p][k]].passed
    BY <1>4, <1>5, <1>8, <2>1
  <2>. QED
    BY <2>2 DEF Chosen
<1>13. Cmd(p).run \in DOMAIN runs /\ Follows(loaded'[p], Cmd(p).run)
  BY <1>1, <1>4 DEF Serves
<1>14. Attempts(p)' /\ pc'[p] \notin Validating /\ \A q \in Jobs \ {p} : survivors'[q] = survivors[q]
  BY <1>8, <1>11 DEF Attempts, Rests
<1>. QED
  BY <1>4, <1>9, <1>10, <1>11, <1>12, <1>13, <1>14, WorkKeeps

\* The survivor in hand is a passing test of the run.
LEMMA InHandIsChosen ==
  ASSUME TypeOK, NEW p \in Jobs, Chosen(p), Turn(p) =< Len(survivors[p])
  PROVE  /\ Turn(p) \in DOMAIN survivors[p]
         /\ Current(p) \in TestsOf(Cmd(p).run) /\ Current(p) \in DOMAIN tests
         /\ tests[Current(p)].passed /\ tests[Current(p)].cand \in Candidates
<1>1. stages[p] \in Seq(Stages) /\ survivors[p] \in Seq(DOMAIN tests)
  BY DEF TypeOK
<1>2. Turn(p) \in DOMAIN survivors[p]
  BY <1>1 DEF Turn
<1>3. Current(p) \in TestsOf(Cmd(p).run) /\ tests[Current(p)].passed
  BY <1>2 DEF Chosen, Current
<1>4. tests[Current(p)] \in Test
  BY <1>3 DEF TestsOf, TypeOK
<1>. QED
  BY <1>2, <1>3, <1>4 DEF TestsOf, Test

\* NextSurvivor.
LEMMA NextSurvivorKeeps ==
  ASSUME Inv, NEW p \in Jobs, NextSurvivor(p)
  PROVE  Inv'
<1>1. TypeOK /\ Serves(p) /\ Chosen(p)
  BY DEF Inv, Session
<1>2. pc[p] = "next" /\ UNCHANGED <<world, killed>>
  BY DEF NextSurvivor
<1>3. CASE End(p)
  BY <1>2, <1>3, EndKeeps
<1>4. CASE /\ ~(Turn(p) > Len(survivors[p])) /\ ToNext(p)
           /\ UNCHANGED <<tables, now, loaded, history, survivors>>
  <2>1. Turn(p) =< Len(survivors[p])
    <3>1. stages[p] \in Seq(Stages) /\ survivors[p] \in Seq(DOMAIN tests)
      BY <1>1 DEF TypeOK
    <3>. QED
      BY <1>4, <3>1 DEF Turn
  <2>2. UNCHANGED <<scenario, files, runs, tests, validation_events, now, loaded,
                    history, survivors>>
    BY <1>2, <1>4 DEF world, tables
  <2>3. Jobs' = Jobs
    BY <2>2 DEF Jobs
  <2>4. Grows /\ now' >= now
    BY <1>1, <2>2 DEF Grows, TypeOK
  <2>5. CASE Stage(p, "already_validated") /\ UNCHANGED <<pc, queue>>
    <3>1. stages' = [stages EXCEPT ![p] = Append(stages[p], "already_validated")]
      BY <2>5 DEF Stage
    <3>2. stages' \in [Jobs -> Seq(Stages)]
      BY <1>1, <3>1 DEF TypeOK, Stages
    <3>3. TypeOK'
      BY <1>1, <2>2, <2>3, <2>5, <3>2 DEF TypeOK
    <3>4. \A q \in Jobs \ {p} : Rests(q)
      BY <2>2, <2>5, <3>1 DEF Rests, TypeOK
    <3>5. pc[p] \in Working /\ pc'[p] \notin Validating \cup {"load"}
      BY <1>2, <2>5 DEF Working, Validating
    <3>. QED
      BY <2>2, <2>4, <3>3, <3>4, <3>5, GoOnKeeps
  <2>6. CASE /\ Queue(p, NeighbourSeq(tests[Current(p)].cand))
             /\ To(p, IF queue'[p] = <<>> THEN "validate" ELSE "neighbour")
             /\ UNCHANGED stages
    <3>. DEFINE near == NeighbourSeq(tests[Current(p)].cand)
                next == IF queue'[p] = <<>> THEN "validate" ELSE "neighbour"
    <3>1. near \in Seq(Candidates)
      BY <1>1, <2>1, InHandIsChosen, NeighbourSeqType
    <3>2. queue' = [queue EXCEPT ![p] = near]
      BY <2>6 DEF Queue
    <3>3. pc' = [pc EXCEPT ![p] = next]
      BY <2>6 DEF To
    <3>4. Current(p)' = Current(p) /\ Turn(p)' = Turn(p)
      BY <2>2, <2>6 DEF Current, Turn
    <3>5. near' = near
      BY <2>2, <3>4
    <3>. HIDE DEF near
    <3>6. /\ queue' \in [Jobs -> Seq(Candidates)] /\ queue'[p] = near
          /\ pc' \in [Jobs -> Pcs] /\ pc'[p] = next
      BY <1>1, <3>1, <3>2, <3>3 DEF TypeOK, Pcs
    <3>7. TypeOK'
      BY <1>1, <2>2, <2>3, <2>6, <3>6 DEF TypeOK
    <3>8. \A q \in Jobs \ {p} : Rests(q)
      BY <1>1, <2>2, <2>6, <3>2, <3>3 DEF Rests, TypeOK
    <3>9. Serves(p)'
      BY <1>1, <1>2, <2>2 DEF Serves, Working, Follows, Cmd
    <3>10. Chosen(p)'
      BY <1>1, <2>2, ChosenKeeps
    <3>11. InHand(p)' /\ LookedUp(p)' /\ Attempts(p)'
      BY <2>1, <2>2, <3>4, <3>6 DEF InHand, LookedUp, Attempts
    <3>12. Surveyed(p)'
      <4>1. Surveyed(p)' =
              /\ pc'[p] = "neighbour" =>
                   \A k \in DOMAIN near' : OnRecord(p, near[k])' \/ IsQueued(p, near[k])'
              /\ pc'[p] = "validate" =>
                   /\ \A k \in DOMAIN near' : OnRecord(p, near[k])'
                   /\ Neighbourly(GoodNeighbours(tests[Current(p)].cand)', Len(near'))
        BY DEF Surveyed, near
      <4>2. \A k \in DOMAIN near : IsQueued(p, near[k])'
        BY <3>5, <3>6 DEF IsQueued
      <4>3. pc'[p] = "validate" => DOMAIN near = {} /\ Len(near) = 0
        BY <3>6
      <4>4. Neighbourly(GoodNeighbours(tests[Current(p)].cand)', 0)
        BY DEF Neighbourly
      <4>. QED
        BY <3>5, <4>1, <4>2, <4>3, <4>4
    <3>13. Session(p)'
      BY <3>9, <3>10, <3>11, <3>12 DEF Session
    <3>14. \A q \in Jobs \ {p} : survivors'[q] = survivors[q]
      BY <2>2
    <3>. QED
      BY <2>2, <2>4, <3>7, <3>8, <3>13, <3>14, QuietKeeps
  <2>. QED
    BY <1>4, <2>5, <2>6 DEF ToNext
<1>. QED
  BY <1>3, <1>4 DEF NextSurvivor

\* A recorded test: what is added to the tables, and that they stay right.
LEMMA RecordTestKeeps ==
  ASSUME Inv, NEW p \in Jobs, pc[p] \in Working, NEW c \in Candidates,
         RecordTest(p, c, c \in scenario.world.passes, c \in scenario.world.partial),
         UNCHANGED <<world, runs, validation_events>>
  PROVE  /\ Grows /\ Recorded' /\ tests' \in Seq(Test) /\ now' \in Nat
         /\ Len(tests') = Len(tests) + 1 /\ DOMAIN tests' = DOMAIN tests \cup {Len(tests')}
         /\ Len(tests') \notin DOMAIN tests
         /\ tests'[Len(tests')].run = Cmd(p).run /\ tests'[Len(tests')].cand = c
         /\ tests'[Len(tests')].by = p
         /\ tests'[Len(tests')].passed = (c \in scenario.world.passes)
<1>. DEFINE new == [run |-> Cmd(p).run, cand |-> c, passed |-> c \in scenario.world.passes,
                    partial |-> c \in scenario.world.partial, rank |-> scenario.world.rank[c],
                    by |-> p, graded |-> loaded[p], at |-> now]
            k == Len(tests')
<1>1. TypeOK /\ Recorded /\ Serves(p)
  BY DEF Inv, Session
<1>2. tests' = Append(tests, new) /\ now' = now + 1
  BY DEF RecordTest
<1>3. /\ new.run = Cmd(p).run /\ new.cand = c /\ new.passed = (c \in scenario.world.passes)
      /\ new.by = p /\ new.graded = loaded[p] /\ new.at = now
  OBVIOUS
<1>4. new \in Test
  <2>1. p \in Nat
    <3>1. scenario.jobs \in Seq(Job)
      BY <1>1, ResearchAssumption DEF TypeOK
    <3>. QED
      BY <3>1 DEF Jobs
  <2>2. Cmd(p).run \in Nat
    BY <1>1, CmdType
  <2>3. scenario.world.rank[c] \in Nat
    BY <1>1, ResearchAssumption DEF TypeOK
  <2>4. loaded[p] \in Rulebook /\ now \in Nat
    BY <1>1 DEF TypeOK
  <2>. QED
    BY <2>1, <2>2, <2>3, <2>4 DEF Test
<1>. HIDE DEF new
<1>5. tests \in Seq(Test) /\ now \in Nat
  BY <1>1 DEF TypeOK
<1>6. /\ tests' \in Seq(Test) /\ k = Len(tests) + 1
      /\ DOMAIN tests' = DOMAIN tests \cup {k} /\ k \notin DOMAIN tests
      /\ tests'[k] = new /\ \A i \in DOMAIN tests : tests'[i] = tests[i]
  BY <1>2, <1>4, <1>5
<1>7. UNCHANGED <<scenario, runs, validation_events>>
  BY DEF world
<1>. HIDE DEF k
<1>8. Grows
  BY <1>6, <1>7 DEF Grows
<1>9. Jobs' = Jobs
  BY <1>7 DEF Jobs
<1>10. Cmd(p).run \in DOMAIN runs /\ Follows(loaded[p], Cmd(p).run)
  BY <1>1 DEF Serves
<1>11. Belongs'
  BY <1>1, <1>3, <1>6, <1>7, <1>9, <1>10 DEF Recorded, Belongs
<1>12. Outcomes'
  BY <1>1, <1>3, <1>6, <1>7 DEF Recorded, Outcomes
<1>13. Past'
  <2>1. \A i \in DOMAIN tests : tests[i].at \in Nat /\ tests[i].at < now
    <3>1. \A i \in DOMAIN tests : tests[i] \in Test
      BY <1>5
    <3>. QED
      BY <1>1, <3>1 DEF Test, Recorded, Past
  <2>2. \A t \in DOMAIN validation_events :
          validation_events[t].at \in Nat /\ validation_events[t].at < now
    BY <1>1 DEF TypeOK, Event, Recorded, Past
  <2>3. \A i \in DOMAIN tests' : tests'[i].at < now'
    BY <1>2, <1>3, <1>5, <1>6, <2>1
  <2>4. \A t \in DOMAIN validation_events' : validation_events'[t].at < now'
    BY <1>2, <1>5, <1>7, <2>2
  <2>. QED
    BY <2>3, <2>4 DEF Past
<1>14. DOMAIN validation_events \subseteq DOMAIN tests
  BY <1>1 DEF TypeOK
<1>15. OneRulebook'
  <2>1. \A g : \A r \in DOMAIN runs : Follows(g, r)' <=> Follows(g, r)
    BY <1>7 DEF Follows
  <2>2. \A i \in DOMAIN tests : tests[i].run \in DOMAIN runs
    BY <1>1 DEF Recorded, Belongs
  <2>3. \A i \in DOMAIN tests' : Follows(tests[i].graded, tests[i].run)'
    BY <1>1, <1>3, <1>6, <1>7, <1>10, <2>2 DEF Recorded, OneRulebook, Follows
  <2>4. \A t \in DOMAIN validation_events' : Follows(validation_events[t].graded, tests[t].run)'
    BY <1>1, <1>6, <1>7, <1>14, <2>2 DEF Recorded, OneRulebook, Follows
  <2>. QED
    BY <2>3, <2>4 DEF OneRulebook
<1>16. ASSUME NEW t \in DOMAIN validation_events
       PROVE  Earned(t)'
  <2>. DEFINE near == NeighbourSeq(tests[t].cand)
              good == GoodNeighbours(tests[t].cand)
  <2>1. Earned(t)
    BY <1>1 DEF Recorded
  <2>2. tests'[t] = tests[t]
    BY <1>6, <1>14
  <2>3. near' = near /\ good' = good
    BY <1>7, <2>2 DEF GoodNeighbours
  <2>4. Earned(t) =
          /\ tests[t].passed
          /\ \A n \in DOMAIN near :
               TriedBefore(tests[t].run, near[n], validation_events[t].at) # {}
          /\ Neighbourly(good, Len(near))
    BY DEF Earned
  <2>5. Earned(t)' =
          /\ tests'[t].passed
          /\ \A n \in DOMAIN near' :
               TriedBefore(tests[t].run, near[n], validation_events[t].at)' # {}
          /\ Neighbourly(good', Len(near'))
    BY DEF Earned
  <2>. HIDE DEF near, good
  <2>6. \A n \in DOMAIN near :
          TriedBefore(tests[t].run, near[n], validation_events[t].at)
            \subseteq TriedBefore(tests[t].run, near[n], validation_events[t].at)'
    BY <1>6, <1>7, <2>2, <2>3 DEF TriedBefore, TestsOf
  <2>. QED
    BY <2>1, <2>2, <2>3, <2>4, <2>5, <2>6
<1>17. JudgedAgainstAll'
  <2>. SUFFICES ASSUME NEW t \in DOMAIN validation_events, validation_events[t].passed = TRUE
                PROVE  SurvivesDeflation(tests[t].cand,
                         Cardinality({i \in TestsOf(tests[t].run) :
                                        tests[i].at < validation_events[t].at}))'
    BY <1>7 DEF JudgedAgainstAll
  <2>1. SurvivesDeflation(tests[t].cand,
          Cardinality({i \in TestsOf(tests[t].run) : tests[i].at < validation_events[t].at}))
    BY <1>1 DEF Recorded, JudgedAgainstAll
  <2>2. tests'[t] = tests[t]
    BY <1>6, <1>14
  <2>3. ~(new.at < validation_events[t].at)
    BY <1>1, <1>3, <1>5 DEF Recorded, Past, TypeOK, Event
  <2>4. {i \in TestsOf(tests[t].run) : tests[i].at < validation_events[t].at}'
          = {i \in TestsOf(tests[t].run) : tests[i].at < validation_events[t].at}
    BY <1>6, <1>7, <2>2, <2>3 DEF TestsOf
  <2>. QED
    BY <1>7, <2>1, <2>2, <2>4 DEF SurvivesDeflation
<1>18. Recorded'
  BY <1>7, <1>11, <1>12, <1>13, <1>15, <1>16, <1>17 DEF Recorded
<1>. QED
  BY <1>2, <1>3, <1>5, <1>6, <1>8, <1>18 DEF k

\* What was typed by the tests stays so when tests are added.
LEMMA TestsGrow ==
  ASSUME TypeOK, Grows, tests' \in Seq(Test), now' \in Nat, UNCHANGED <<scenario, runs, files, loaded>>
  PROVE  /\ history \in [Jobs -> SUBSET (DOMAIN tests')]
         /\ survivors \in [Jobs -> Seq(DOMAIN tests')]
         /\ Jobs' = Jobs
<1>1. DOMAIN tests \subseteq DOMAIN tests'
  BY DEF Grows
<1>2. \A s \in Seq(DOMAIN tests) : s \in Seq(DOMAIN tests')
  BY <1>1
<1>3. history \in [Jobs -> SUBSET (DOMAIN tests')]
  BY <1>1 DEF TypeOK
<1>4. survivors \in [Jobs -> Seq(DOMAIN tests')]
  BY <1>2 DEF TypeOK
<1>. QED
  BY <1>3, <1>4 DEF Jobs

\* The head of what a command has queued.
LEMMA QueueType ==
  ASSUME TypeOK, NEW p \in Jobs, queue[p] # <<>>
  PROVE  Head(queue[p]) \in Candidates /\ Tail(queue[p]) \in Seq(Candidates)
BY DEF TypeOK

\* TestOne.
LEMMA TestOneKeeps ==
  ASSUME Inv, NEW p \in Jobs, TestOne(p)
  PROVE  Inv'
<1>1. TypeOK /\ Serves(p) /\ Chosen(p)
  BY DEF Inv, Session
<1>2. pc[p] = "test" /\ queue[p] # <<>> /\ UNCHANGED <<world, killed>>
  BY DEF TestOne
<1>. DEFINE c == Head(queue[p])
            next == IF Cmd(p).cmd = "fixed" THEN "ended"
                    ELSE IF Len(queue[p]) = 1 THEN "propose" ELSE "test"
<1>3. CASE End(p)
  BY <1>2, <1>3, EndKeeps
<1>4. CASE /\ RecordTest(p, c, c \in scenario.world.passes, c \in scenario.world.partial)
           /\ Hist(p, history[p] \cup {Len(tests')})
           /\ Queue(p, Tail(queue[p]))
           /\ To(p, next)
           /\ UNCHANGED <<runs, notes, validation_events, meta_tests, loaded, survivors, stages>>
  <2>1. c \in Candidates /\ Tail(queue[p]) \in Seq(Candidates)
    BY <1>1, <1>2, QueueType
  <2>2. next \in Pcs \ (Validating \cup {"load"})
    BY DEF Pcs, Validating
  <2>. HIDE DEF c, next
  <2>3. /\ Grows /\ Recorded' /\ tests' \in Seq(Test) /\ now' \in Nat
        /\ DOMAIN tests' = DOMAIN tests \cup {Len(tests')}
    <3>1. pc[p] \in Working /\ UNCHANGED <<world, runs, validation_events>>
      BY <1>2, <1>4 DEF Working
    <3>2. RecordTest(p, c, c \in scenario.world.passes, c \in scenario.world.partial)
      BY <1>4
    <3>. QED
      BY <2>1, <3>1, <3>2, RecordTestKeeps
  <2>4. /\ history' = [history EXCEPT ![p] = history[p] \cup {Len(tests')}]
        /\ queue' = [queue EXCEPT ![p] = Tail(queue[p])]
        /\ pc' = [pc EXCEPT ![p] = next]
        /\ UNCHANGED <<scenario, files, runs, validation_events, loaded, survivors, stages>>
    BY <1>2, <1>4 DEF Hist, Queue, To, world
  <2>5. /\ history \in [Jobs -> SUBSET (DOMAIN tests')]
        /\ survivors \in [Jobs -> Seq(DOMAIN tests')]
        /\ Jobs' = Jobs
    BY <1>1, <2>3, <2>4, TestsGrow
  <2>6. /\ history' \in [Jobs -> SUBSET (DOMAIN tests')]
        /\ queue' \in [Jobs -> Seq(Candidates)]
        /\ pc' \in [Jobs -> Pcs] /\ pc'[p] = next
    BY <1>1, <2>1, <2>2, <2>3, <2>4, <2>5 DEF TypeOK
  <2>7. TypeOK'
    BY <1>1, <2>3, <2>4, <2>5, <2>6 DEF TypeOK
  <2>8. ASSUME NEW q \in Jobs, q # p
        PROVE  Session(q)'
    <3>1. Rests(q) /\ survivors'[q] = survivors[q]
      BY <1>1, <2>4, <2>8 DEF TypeOK, Rests
    <3>2. TypeOK /\ Session(q)
      BY DEF Inv
    <3>. QED
      BY <2>3, <3>1, <3>2, SessionKeeps
  <2>9. Session(p)'
    <3>1. Serves(p)'
      BY <1>1, <1>2, <2>4 DEF Serves, Working, Follows, Cmd
    <3>2. Chosen(p)'
      BY <1>1, <2>3, <2>4 DEF Chosen, TestsOf, Cmd, Grows
    <3>. QED
      BY <2>2, <2>6, <3>1, <3>2 DEF Session, Attempts, InHand, Surveyed, LookedUp, Validating
  <2>. QED
    BY <2>3, <2>5, <2>7, <2>8, <2>9 DEF Inv
<1>. QED
  BY <1>3, <1>4 DEF TestOne

\* TestNeighbour: the current survivor keeps what is on record of its
\* neighbours, and the one tested is now.
LEMMA TestNeighbourKeeps ==
  ASSUME Inv, NEW p \in Jobs, TestNeighbour(p)
  PROVE  Inv'
<1>1. TypeOK /\ Serves(p) /\ Chosen(p) /\ InHand(p) /\ Surveyed(p)
  BY DEF Inv, Session
<1>2. pc[p] = "neighbour" /\ queue[p] # <<>> /\ UNCHANGED <<world, killed>>
  BY DEF TestNeighbour
<1>. DEFINE c == Head(queue[p])
            near == NeighbourSeq(tests[Current(p)].cand)
            good == GoodNeighbours(tests[Current(p)].cand)
<1>3. CASE End(p)
  BY <1>2, <1>3, EndKeeps
<1>4. CASE /\ RecordTest(p, c, c \in scenario.world.passes, c \in scenario.world.partial)
           /\ Queue(p, Tail(queue[p]))
           /\ IF Len(queue[p]) > 1
                THEN UNCHANGED <<pc, stages>>
                ELSE IF HasGoodNeighbours(p)
                  THEN To(p, "validate") /\ UNCHANGED stages
                  ELSE To(p, "next") /\ Stage(p, "neighbourhood")
           /\ UNCHANGED <<runs, notes, validation_events, meta_tests, loaded, history, survivors>>
  <2>1. c \in Candidates /\ Tail(queue[p]) \in Seq(Candidates)
    BY <1>1, <1>2, QueueType
  <2>2. /\ Turn(p) =< Len(survivors[p]) /\ Current(p) \in DOMAIN tests
    <3>1. Turn(p) =< Len(survivors[p])
      BY <1>1, <1>2 DEF InHand, Validating
    <3>. QED
      BY <1>1, <3>1, InHandIsChosen
  <2>. HIDE DEF c
  <2>3. /\ Grows /\ Recorded' /\ tests' \in Seq(Test) /\ now' \in Nat
        /\ DOMAIN tests' = DOMAIN tests \cup {Len(tests')}
        /\ tests'[Len(tests')].run = Cmd(p).run /\ tests'[Len(tests')].cand = c
    <3>1. pc[p] \in Working /\ UNCHANGED <<world, runs, validation_events>>
      BY <1>2, <1>4 DEF Working
    <3>2. RecordTest(p, c, c \in scenario.world.passes, c \in scenario.world.partial)
      BY <1>4
    <3>. QED
      BY <2>1, <3>1, <3>2, RecordTestKeeps
  <2>4. /\ queue' = [queue EXCEPT ![p] = Tail(queue[p])]
        /\ UNCHANGED <<scenario, files, runs, validation_events, loaded, history, survivors>>
    BY <1>2, <1>4 DEF Queue, world
  <2>5. /\ history \in [Jobs -> SUBSET (DOMAIN tests')]
        /\ survivors \in [Jobs -> Seq(DOMAIN tests')]
        /\ Jobs' = Jobs
    BY <1>1, <2>3, <2>4, TestsGrow
  <2>6. queue' \in [Jobs -> Seq(Candidates)] /\ queue'[p] = Tail(queue[p])
    BY <1>1, <2>1, <2>4 DEF TypeOK
  <2>7. \/ Len(queue[p]) > 1 /\ UNCHANGED <<pc, stages>>
        \/ Len(queue[p]) = 1 /\ HasGoodNeighbours(p) /\ To(p, "validate") /\ UNCHANGED stages
        \/ To(p, "next") /\ Stage(p, "neighbourhood")
    <3>1. Len(queue[p]) \in Nat /\ Len(queue[p]) # 0
      BY <1>1, <1>2 DEF TypeOK
    <3>2. CASE Len(queue[p]) > 1
      BY <1>4, <3>2
    <3>3. CASE Len(queue[p]) = 1 /\ HasGoodNeighbours(p)
      BY <1>4, <3>3
    <3>4. CASE Len(queue[p]) = 1 /\ ~HasGoodNeighbours(p)
      BY <1>4, <3>4
    <3>5. Len(queue[p]) > 1 \/ Len(queue[p]) = 1
      <4>1. \A l \in Nat : l # 0 => l > 1 \/ l = 1
        OBVIOUS
      <4>. QED
        BY <3>1, <4>1
    <3>. QED
      BY <3>2, <3>3, <3>4, <3>5, Zenon
  <2>8. pc' \in [Jobs -> Pcs] /\ stages' \in [Jobs -> Seq(Stages)]
    <3>1. pc \in [Jobs -> Pcs] /\ stages \in [Jobs -> Seq(Stages)]
      BY <1>1 DEF TypeOK
    <3>2. ASSUME NEW next \in {"validate", "next"}, To(p, next)
          PROVE  pc' \in [Jobs -> Pcs]
      BY <3>1, <3>2 DEF To, Pcs
    <3>3. Stage(p, "neighbourhood") => stages' \in [Jobs -> Seq(Stages)]
      BY <3>1 DEF Stage, Stages
    <3>. QED
      BY <2>7, <3>1, <3>2, <3>3
  <2>9. TypeOK'
    BY <1>1, <2>3, <2>4, <2>5, <2>6, <2>8 DEF TypeOK
  <2>10. ASSUME NEW q \in Jobs, q # p
         PROVE  Session(q)'
    <3>1. pc'[q] = pc[q] /\ stages'[q] = stages[q]
      BY <1>1, <2>7, <2>10 DEF TypeOK, To, Stage
    <3>2. Rests(q) /\ survivors'[q] = survivors[q]
      BY <1>1, <2>4, <2>10, <3>1 DEF TypeOK, Rests
    <3>3. TypeOK /\ Session(q)
      BY DEF Inv
    <3>. QED
      BY <2>3, <3>2, <3>3, SessionKeeps
  <2>11. Session(p)'
    <3>1. Serves(p)'
      BY <1>1, <1>2, <2>4 DEF Serves, Working, Follows, Cmd
    <3>2. Chosen(p)'
      BY <1>1, <2>3, <2>4 DEF Chosen, TestsOf, Cmd, Grows
    <3>3. CASE To(p, "next")
      <4>1. pc'[p] = "next"
        BY <1>1, <3>3 DEF To, TypeOK
      <4>. QED
        BY <3>1, <3>2, <4>1 DEF Session, Attempts, InHand, Surveyed, LookedUp, Validating
    <3>4. CASE stages' = stages /\ (\/ Len(queue[p]) > 1 /\ pc'[p] = "neighbour"
                                    \/ /\ Len(queue[p]) = 1 /\ pc'[p] = "validate"
                                       /\ HasGoodNeighbours(p))
      <4>1. Turn(p)' = Turn(p) /\ Current(p)' = Current(p)
        BY <2>4, <3>4 DEF Turn, Current
      <4>2. InHand(p)' /\ LookedUp(p)' /\ Attempts(p)'
        BY <2>2, <2>4, <3>4, <4>1 DEF InHand, LookedUp, Attempts
      <4>3. near' = near /\ good' = good
        BY <2>2, <2>3, <2>4, <4>1 DEF Grows, GoodNeighbours
      <4>4. \A k \in DOMAIN near : OnRecord(p, near[k]) \/ IsQueued(p, near[k])
        BY <1>1, <1>2 DEF Surveyed
      <4>5. HasGoodNeighbours(p) => Neighbourly(good, Len(near))
        BY DEF HasGoodNeighbours, GoodNeighbours
      <4>6. Surveyed(p)' =
              /\ pc'[p] = "neighbour" =>
                   \A k \in DOMAIN near' : OnRecord(p, near[k])' \/ IsQueued(p, near[k])'
              /\ pc'[p] = "validate" =>
                   /\ \A k \in DOMAIN near' : OnRecord(p, near[k])'
                   /\ Neighbourly(good', Len(near'))
        BY DEF Surveyed
      <4>. HIDE DEF near, good
      <4>7. ASSUME NEW k \in DOMAIN near
            PROVE  OnRecord(p, near[k])' \/ (Len(queue[p]) > 1 /\ IsQueued(p, near[k])')
        <5>1. near'[k] = near[k]
          BY <4>3
        <5>2. CASE OnRecord(p, near[k])
          <6>1. PICK i \in TestsOf(Cmd(p).run) : tests[i].cand = near[k]
            BY <5>2 DEF OnRecord
          <6>2. i \in TestsOf(Cmd(p).run)' /\ tests'[i].cand = near[k]
            BY <2>3, <2>4, <6>1 DEF TestsOf, Grows, Cmd
          <6>. QED
            BY <5>1, <6>2 DEF OnRecord
        <5>3. CASE IsQueued(p, near[k])
          <6>1. PICK j \in DOMAIN queue[p] : queue[p][j] = near[k]
            BY <5>3 DEF IsQueued
          <6>2. queue[p] \in Seq(Candidates)
            BY <1>1 DEF TypeOK
          <6>3. CASE j = 1
            <7>1. c = near[k]
              BY <6>1, <6>2, <6>3 DEF c
            <7>2. Len(tests') \in TestsOf(Cmd(p).run)' /\ tests'[Len(tests')].cand = near[k]
              BY <2>3, <2>4, <7>1 DEF TestsOf, Cmd
            <7>. QED
              BY <5>1, <7>2 DEF OnRecord
          <6>4. CASE j # 1
            <7>1. /\ j - 1 \in DOMAIN Tail(queue[p]) /\ Tail(queue[p])[j - 1] = near[k]
                  /\ Len(queue[p]) > 1
              BY <6>1, <6>2, <6>4, <1>2
            <7>. QED
              BY <2>6, <5>1, <7>1 DEF IsQueued
          <6>. QED
            BY <6>3, <6>4
        <5>. QED
          BY <4>4, <5>2, <5>3
      <4>8. Surveyed(p)'
        <5>1. CASE Len(queue[p]) > 1 /\ pc'[p] = "neighbour"
          BY <4>3, <4>6, <4>7, <5>1
        <5>2. CASE Len(queue[p]) = 1 /\ pc'[p] = "validate" /\ HasGoodNeighbours(p)
          <6>1. \A k \in DOMAIN near : OnRecord(p, near[k])'
            BY <4>7, <5>2
          <6>. QED
            BY <4>3, <4>5, <4>6, <5>2, <6>1
        <5>. QED
          BY <3>4, <5>1, <5>2
      <4>. QED
        BY <3>1, <3>2, <4>2, <4>8 DEF Session
    <3>. QED
      <4>1. CASE Len(queue[p]) > 1 /\ UNCHANGED <<pc, stages>>
        BY <1>2, <3>4, <4>1
      <4>2. CASE Len(queue[p]) = 1 /\ HasGoodNeighbours(p) /\ To(p, "validate") /\ UNCHANGED stages
        <5>1. pc'[p] = "validate"
          BY <1>1, <4>2 DEF To, TypeOK
        <5>. QED
          BY <3>4, <4>2, <5>1
      <4>. QED
        BY <2>7, <3>3, <4>1, <4>2
  <2>. QED
    BY <2>3, <2>5, <2>9, <2>10, <2>11 DEF Inv
<1>. QED
  BY <1>3, <1>4 DEF TestNeighbour

\* What an event written leaves of the others.
LEMMA WithEventIs ==
  ASSUME TypeOK, NEW t \in DOMAIN tests, NEW event \in Event, WithEvent(t, event),
         tests' = tests
  PROVE  /\ DOMAIN validation_events' = DOMAIN validation_events \cup {t}
         /\ validation_events' \in [DOMAIN validation_events' -> Event]
         /\ DOMAIN validation_events' \subseteq DOMAIN tests'
         /\ validation_events'[t] = event
         /\ \A u \in DOMAIN validation_events : u # t => validation_events'[u] = validation_events[u]
<1>1. validation_events' = [u \in DOMAIN validation_events \cup {t} |->
                              IF u = t THEN event ELSE validation_events[u]]
  BY DEF WithEvent
<1>. QED
  BY <1>1 DEF TypeOK

\* An event that is not touched, or only gets its verdict, rests on what it
\* rested on.
LEMMA EarnedKeeps ==
  ASSUME NEW t, Earned(t), tests' = tests, scenario' = scenario,
         validation_events'[t].at = validation_events[t].at
  PROVE  Earned(t)'
<1>. DEFINE near == NeighbourSeq(tests[t].cand)
            good == GoodNeighbours(tests[t].cand)
<1>1. near' = near /\ good' = good
  BY DEF GoodNeighbours
<1>2. Earned(t) =
        /\ tests[t].passed
        /\ \A k \in DOMAIN near :
             TriedBefore(tests[t].run, near[k], validation_events[t].at) # {}
        /\ Neighbourly(good, Len(near))
  BY DEF Earned
<1>3. Earned(t)' =
        /\ tests'[t].passed
        /\ \A k \in DOMAIN near' :
             TriedBefore(tests[t].run, near[k], validation_events[t].at)' # {}
        /\ Neighbourly(good', Len(near'))
  BY DEF Earned
<1>. HIDE DEF near, good
<1>4. \A k \in DOMAIN near :
        TriedBefore(tests[t].run, near[k], validation_events[t].at)'
          = TriedBefore(tests[t].run, near[k], validation_events[t].at)
  BY <1>1 DEF TriedBefore, TestsOf
<1>. QED
  BY <1>1, <1>2, <1>3, <1>4

\* Validate: what is looked up was earned.
LEMMA ValidateKeeps ==
  ASSUME Inv, NEW p \in Jobs, Validate(p)
  PROVE  Inv'
<1>1. TypeOK /\ Recorded /\ Serves(p) /\ Chosen(p) /\ InHand(p) /\ Surveyed(p)
  BY DEF Inv, Session
<1>2. pc[p] = "validate" /\ UNCHANGED <<world, killed>>
  BY DEF Validate
<1>. DEFINE t == Current(p)
            event == [at |-> now, by |-> p, graded |-> loaded[p], passed |-> None]
<1>3. CASE End(p)
  BY <1>2, <1>3, EndKeeps
<1>4. CASE /\ t \notin DOMAIN validation_events
           /\ WithEvent(t, event)
           /\ now' = now + 1
           /\ To(p, "judge")
           /\ UNCHANGED <<runs, tests, notes, meta_tests, memory>>
  <2>1. /\ Turn(p) =< Len(survivors[p])
        /\ t \in DOMAIN tests /\ tests[t].run = Cmd(p).run /\ tests[t].passed
    <3>1. Turn(p) =< Len(survivors[p])
      BY <1>1, <1>2 DEF InHand, Validating
    <3>. QED
      BY <1>1, <3>1, InHandIsChosen DEF TestsOf
  <2>2. event \in Event
    <3>1. p \in Nat
      <4>1. scenario.jobs \in Seq(Job)
        BY <1>1, ResearchAssumption DEF TypeOK
      <4>. QED
        BY <4>1 DEF Jobs
    <3>2. loaded[p] \in Rulebook /\ now \in Nat
      BY <1>1 DEF TypeOK
    <3>. QED
      BY <3>1, <3>2 DEF Event
  <2>3. event.at = now /\ event.graded = loaded[p] /\ event.passed = None
    OBVIOUS
  <2>. HIDE DEF event
  <2>4. /\ pc' = [pc EXCEPT ![p] = "judge"] /\ now' = now + 1
        /\ UNCHANGED <<scenario, files, runs, tests, loaded, history, queue, survivors, stages>>
    BY <1>2, <1>4 DEF To, world, memory
  <2>5. /\ DOMAIN validation_events' = DOMAIN validation_events \cup {t}
        /\ validation_events' \in [DOMAIN validation_events' -> Event]
        /\ DOMAIN validation_events' \subseteq DOMAIN tests'
        /\ validation_events'[t] = event
        /\ \A u \in DOMAIN validation_events : validation_events'[u] = validation_events[u]
    <3>. HIDE DEF t
    <3>. QED
      BY <1>1, <1>4, <2>1, <2>2, <2>4, WithEventIs
  <2>6. Jobs' = Jobs
    BY <2>4 DEF Jobs
  <2>7. /\ pc' \in [Jobs -> Pcs] /\ pc'[p] = "judge" /\ now' \in Nat
        /\ \A u \in DOMAIN tests : tests[u].at \in Nat
    <3>1. \A u \in DOMAIN tests : tests[u] \in Test
      BY <1>1 DEF TypeOK
    <3>. QED
      BY <1>1, <2>4, <3>1 DEF TypeOK, Pcs, Test
  <2>8. TypeOK'
    BY <1>1, <2>4, <2>5, <2>6, <2>7 DEF TypeOK
  <2>9. Grows
    BY <2>4, <2>5 DEF Grows
  <2>10. ASSUME NEW q \in Jobs, q # p
         PROVE  Session(q)'
    <3>1. Rests(q) /\ survivors'[q] = survivors[q]
      BY <1>1, <2>4, <2>10 DEF TypeOK, Rests
    <3>2. TypeOK /\ Session(q)
      BY DEF Inv
    <3>. QED
      BY <2>9, <3>1, <3>2, SessionKeeps
  <2>11. Session(p)'
    <3>1. Serves(p)'
      BY <1>1, <1>2, <2>4 DEF Serves, Working, Follows, Cmd
    <3>2. Chosen(p)'
      BY <1>1, <2>4, ChosenKeeps
    <3>3. t' = t /\ Turn(p)' = Turn(p)
      BY <2>4 DEF Current, Turn
    <3>4. InHand(p)' /\ LookedUp(p)' /\ Attempts(p)' /\ Surveyed(p)'
      BY <2>1, <2>4, <2>5, <2>7, <3>3 DEF InHand, LookedUp, Attempts, Surveyed
    <3>. QED
      BY <3>1, <3>2, <3>4 DEF Session
  <2>12. Past'
    BY <1>1, <2>3, <2>4, <2>5, <2>7 DEF Recorded, Past, TypeOK, Event
  <2>13. OneRulebook'
    <3>1. Follows(loaded[p], Cmd(p).run)
      BY <1>1, <1>2 DEF Serves, Working
    <3>2. \A g, r : Follows(g, r)' <=> Follows(g, r)
      BY <2>4 DEF Follows
    <3>3. \A u \in DOMAIN validation_events : Follows(validation_events[u].graded, tests[u].run)
      BY <1>1 DEF Recorded, OneRulebook
    <3>4. \A u \in DOMAIN validation_events' : Follows(validation_events'[u].graded, tests[u].run)
      BY <2>1, <2>3, <2>5, <3>1, <3>3
    <3>. QED
      BY <1>1, <2>4, <3>4 DEF Recorded, OneRulebook, Follows
  <2>14. Earned(t)'
    <3>. DEFINE near == NeighbourSeq(tests[t].cand)
                good == GoodNeighbours(tests[t].cand)
    <3>1. t' = t
      BY <2>4 DEF Current, Turn
    <3>2. near' = near /\ good' = good
      BY <2>4, <3>1 DEF GoodNeighbours
    <3>3. /\ \A k \in DOMAIN near : OnRecord(p, near[k])
          /\ Neighbourly(good, Len(near))
      BY <1>1, <1>2 DEF Surveyed
    <3>. HIDE DEF t
    <3>4. Earned(t)' =
            /\ tests'[t].passed
            /\ \A k \in DOMAIN near' :
                 TriedBefore(tests[t].run, near[k], validation_events[t].at)' # {}
            /\ Neighbourly(good', Len(near'))
      BY <3>1 DEF Earned
    <3>. HIDE DEF near, good
    <3>5. ASSUME NEW k \in DOMAIN near
          PROVE  TriedBefore(tests[t].run, near[k], validation_events[t].at)' # {}
      <4>1. PICK i \in TestsOf(Cmd(p).run) : tests[i].cand = near[k]
        BY <3>3 DEF OnRecord
      <4>2. tests[i].at < now
        BY <1>1, <4>1 DEF Recorded, Past, TestsOf
      <4>3. i \in TestsOf(tests[t].run)' /\ tests'[i].cand = near'[k]
            /\ tests'[i].at < validation_events'[t].at
        BY <2>1, <2>3, <2>4, <2>5, <3>1, <3>2, <4>1, <4>2 DEF TestsOf
      <4>. QED
        BY <3>1, <4>3 DEF TriedBefore
    <3>. QED
      BY <2>1, <2>4, <3>2, <3>3, <3>4, <3>5
  <2>15. ASSUME NEW u \in DOMAIN validation_events
         PROVE  Earned(u)'
    BY <1>1, <2>4, <2>5, EarnedKeeps DEF Recorded
  <2>16. JudgedAgainstAll'
    <3>1. event.passed # TRUE
      BY <2>3, NoneAssumption
    <3>. SUFFICES ASSUME NEW u \in DOMAIN validation_events, validation_events[u].passed = TRUE
                  PROVE  SurvivesDeflation(tests[u].cand,
                           Cardinality({i \in TestsOf(tests[u].run) :
                                          tests[i].at < validation_events[u].at}))'
      BY <2>5, <3>1 DEF JudgedAgainstAll
    <3>2. SurvivesDeflation(tests[u].cand,
            Cardinality({i \in TestsOf(tests[u].run) : tests[i].at < validation_events[u].at}))
      BY <1>1 DEF Recorded, JudgedAgainstAll
    <3>. QED
      BY <2>4, <2>5, <3>2 DEF SurvivesDeflation, TestsOf
  <2>17. Belongs' /\ Outcomes'
    BY <1>1, <2>4, <2>6 DEF Recorded, Belongs, Outcomes
  <2>18. Recorded'
    <3>. HIDE DEF t
    <3>1. \A u \in DOMAIN validation_events' : Earned(u)'
      <4>1. t' = t
        BY <2>4 DEF t, Current, Turn
      <4>. QED
        BY <2>5, <2>14, <2>15, <4>1
    <3>. QED
      BY <2>12, <2>13, <2>16, <2>17, <3>1 DEF Recorded
  <2>. QED
    BY <2>6, <2>8, <2>10, <2>11, <2>18 DEF Inv
<1>. QED
  BY <1>3, <1>4 DEF Validate, RecordValidation, IsValidated

\* Judge: a pass is against every test of the run so far.
LEMMA JudgeKeeps ==
  ASSUME Inv, NEW p \in Jobs, Judge(p)
  PROVE  Inv'
<1>. DEFINE t == Current(p)
            verdict == Verdict(tests[t].cand, Trials(Cmd(p).run), Accepted(p))
            event == [validation_events[t] EXCEPT !.passed = (verdict = "accepted")]
<1>1. /\ TypeOK /\ Recorded /\ Serves(p) /\ Chosen(p) /\ InHand(p) /\ LookedUp(p)
      /\ pc[p] = "judge" /\ t \in DOMAIN validation_events
  BY DEF Inv, Session, Judge, LookedUp
<1>2. t \in DOMAIN tests /\ tests[t].run = Cmd(p).run /\ tests[t].cand \in Candidates
  <2>1. Turn(p) =< Len(survivors[p])
    BY <1>1 DEF InHand, Validating
  <2>. QED
    BY <1>1, <2>1, InHandIsChosen DEF TestsOf
<1>3. /\ event \in Event /\ event.at = validation_events[t].at
      /\ event.graded = validation_events[t].graded /\ event.passed = (verdict = "accepted")
  <2>1. validation_events[t] \in Event
    BY <1>1 DEF TypeOK
  <2>2. validation_events[t] = [at |-> validation_events[t].at, by |-> validation_events[t].by,
                                graded |-> validation_events[t].graded,
                                passed |-> validation_events[t].passed]
        /\ validation_events[t].at \in Nat /\ validation_events[t].by \in Nat
        /\ validation_events[t].graded \in Rulebook
    BY <2>1 DEF Event
  <2>3. (verdict = "accepted") \in BOOLEAN
    OBVIOUS
  <2>. HIDE DEF verdict, t
  <2>. QED
    BY <2>2, <2>3 DEF Event
<1>4. verdict \in Stages /\ (verdict = "accepted" =>
        SurvivesDeflation(tests[t].cand, Trials(Cmd(p).run)))
  BY DEF Verdict, Stages
<1>5. /\ WithEvent(t, event)
      /\ stages' = [stages EXCEPT ![p] = Append(stages[p], verdict)]
      /\ pc' = [pc EXCEPT ![p] = "next"]
      /\ UNCHANGED <<scenario, files, runs, tests, now, loaded, history, queue, survivors>>
  BY DEF Judge, Stage, To, world
<1>. HIDE DEF verdict, event
<1>6. /\ DOMAIN validation_events' = DOMAIN validation_events
      /\ validation_events' \in [DOMAIN validation_events' -> Event]
      /\ DOMAIN validation_events' \subseteq DOMAIN tests'
      /\ validation_events'[t] = event
      /\ \A u \in DOMAIN validation_events : u # t => validation_events'[u] = validation_events[u]
  <2>. HIDE DEF t
  <2>. QED
    BY <1>1, <1>2, <1>3, <1>5, WithEventIs
<1>. HIDE DEF t
<1>7. Jobs' = Jobs
  BY <1>5 DEF Jobs
<1>8. /\ pc' \in [Jobs -> Pcs] /\ pc'[p] = "next" /\ stages' \in [Jobs -> Seq(Stages)]
  BY <1>1, <1>4, <1>5 DEF TypeOK, Pcs
<1>9. TypeOK'
  BY <1>1, <1>5, <1>6, <1>7, <1>8 DEF TypeOK
<1>10. Grows
  BY <1>5, <1>6 DEF Grows
<1>11. ASSUME NEW q \in Jobs, q # p
       PROVE  Session(q)'
  <2>1. Rests(q) /\ survivors'[q] = survivors[q]
    BY <1>1, <1>5, <1>11 DEF TypeOK, Rests
  <2>2. TypeOK /\ Session(q)
    BY DEF Inv
  <2>. QED
    BY <1>10, <2>1, <2>2, SessionKeeps
<1>12. Session(p)'
  <2>1. Serves(p)'
    BY <1>1, <1>5 DEF Serves, Working, Follows, Cmd
  <2>2. Chosen(p)'
    BY <1>1, <1>5, ChosenKeeps
  <2>. QED
    BY <1>8, <2>1, <2>2 DEF Session, InHand, LookedUp, Attempts, Surveyed, Validating
<1>13. Belongs' /\ Outcomes'
  BY <1>1, <1>5, <1>7 DEF Recorded, Belongs, Outcomes
<1>14. \A u \in DOMAIN validation_events : /\ validation_events'[u].at = validation_events[u].at
                                           /\ validation_events'[u].graded = validation_events[u].graded
  BY <1>3, <1>6
<1>15. Past'
  BY <1>1, <1>5, <1>6, <1>14 DEF Recorded, Past
<1>16. OneRulebook'
  BY <1>1, <1>5, <1>6, <1>14 DEF Recorded, OneRulebook, Follows
<1>17. \A u \in DOMAIN validation_events : Earned(u)'
  BY <1>1, <1>5, <1>14, EarnedKeeps DEF Recorded
<1>18. JudgedAgainstAll'
  <2>. SUFFICES ASSUME NEW u \in DOMAIN validation_events, validation_events'[u].passed = TRUE
                PROVE  SurvivesDeflation(tests[u].cand,
                         Cardinality({i \in TestsOf(tests[u].run) :
                                        tests[i].at < validation_events[u].at}))'
    BY <1>6 DEF JudgedAgainstAll
  <2>. DEFINE before == {i \in TestsOf(tests[u].run) : tests[i].at < validation_events[u].at}
  <2>1. before' = before
    BY <1>5, <1>14 DEF TestsOf
  <2>2. SurvivesDeflation(tests[u].cand, Cardinality(before))
    <3>1. CASE u # t
      <4>1. validation_events[u].passed = TRUE
        BY <1>6, <3>1
      <4>. QED
        BY <1>1, <4>1 DEF Recorded, JudgedAgainstAll
    <3>2. CASE u = t
      <4>1. event.passed = TRUE
        BY <1>6, <3>2
      <4>2. verdict = "accepted"
        BY <1>3, <4>1
      <4>3. SurvivesDeflation(tests[t].cand, Trials(Cmd(p).run))
        BY <1>4, <4>2
      <4>4. before \subseteq TestsOf(Cmd(p).run)
        BY <1>2, <3>2
      <4>5. IsFiniteSet(TestsOf(Cmd(p).run))
        <5>1. tests \in Seq(Test)
          BY <1>1 DEF TypeOK
        <5>2. TestsOf(Cmd(p).run) \subseteq 1..Len(tests) /\ Len(tests) \in Nat
          BY <5>1 DEF TestsOf
        <5>3. IsFiniteSet(1..Len(tests))
          BY <5>2, FS_Interval
        <5>. QED
          BY <5>2, <5>3, FS_Subset
      <4>. HIDE DEF before
      <4>6. /\ Cardinality(before) \in Nat /\ Cardinality(TestsOf(Cmd(p).run)) \in Nat
            /\ Cardinality(before) =< Cardinality(TestsOf(Cmd(p).run))
        BY <4>4, <4>5, FS_Subset, FS_CardinalityType
      <4>7. scenario.world.skill[tests[t].cand] \in Nat \cup {None}
        BY <1>1, <1>2, ResearchAssumption DEF TypeOK
      <4>. QED
        BY <3>2, <4>3, <4>6, <4>7 DEF SurvivesDeflation, Trials
    <3>. QED
      BY <3>1, <3>2
  <2>. HIDE DEF before
  <2>3. SurvivesDeflation(tests[u].cand, Cardinality(before))'
    BY <1>5, <2>1, <2>2 DEF SurvivesDeflation
  <2>. QED
    BY <2>3 DEF before
<1>19. Recorded'
  BY <1>6, <1>13, <1>15, <1>16, <1>17, <1>18 DEF Recorded
<1>. QED
  BY <1>7, <1>9, <1>11, <1>12, <1>19 DEF Inv

\* A state to begin in.
LEMMA InitInv == Init => Inv
<1>. SUFFICES ASSUME Init PROVE Inv
  OBVIOUS
<1>1. files \in Rulebook
  BY DEF Init, Rulebook
<1>2. TypeOK
  BY <1>1 DEF Init, TypeOK, Pcs
<1>3. tests = <<>> /\ validation_events = <<>>
  BY DEF Init
<1>4. Recorded
  BY <1>3 DEF Recorded, Belongs, Outcomes, Past, OneRulebook, JudgedAgainstAll
<1>5. ASSUME NEW p \in Jobs
      PROVE  Session(p)
  <2>1. pc[p] = "new" /\ survivors[p] = <<>>
    BY DEF Init
  <2>. QED
    BY <2>1 DEF Session, Serves, Attempts, Chosen, InHand, Surveyed, LookedUp, Working, Validating
<1>. QED
  BY <1>2, <1>4, <1>5 DEF Inv

\* No step breaks the invariant.
LEMMA NextInv == Inv /\ [Next]_vars => Inv'
<1>. SUFFICES ASSUME Inv, [Next]_vars
              PROVE  Inv'
  OBVIOUS
<1>1. ASSUME NEW p \in Jobs, Step(p)
      PROVE  Inv'
  BY <1>1, SeedKeeps, NoteKeeps, CheckKeeps, LoadKeeps, GiveUpKeeps, ProposeKeeps, TestOneKeeps,
     PickKeeps, NextSurvivorKeeps, TestNeighbourKeeps, ValidateKeeps, JudgeKeeps, TuneKeeps DEF Step
<1>2. CASE UNCHANGED vars
  <2>1. UNCHANGED <<scenario, files, runs, tests, validation_events, now, pc, loaded,
                    history, queue, survivors, stages>>
    BY <1>2 DEF vars, world, tables, memory
  <2>2. TypeOK' /\ Jobs' = Jobs
    BY <2>1 DEF Inv, TypeOK, Jobs
  <2>3. Grows /\ now' >= now /\ now' \in Nat /\ TypeOK /\ Recorded
    BY <2>1 DEF Grows, Inv, TypeOK
  <2>4. Recorded'
    BY <2>1, <2>3, RecordedKeeps
  <2>5. \A q \in Jobs : Rests(q) /\ survivors'[q] = survivors[q]
    BY <2>1 DEF Rests
  <2>6. \A q \in Jobs : Session(q)'
    BY <2>3, <2>5, SessionKeeps DEF Inv
  <2>. QED
    BY <2>2, <2>4, <2>6 DEF Inv
<1>. QED
  BY <1>1, <1>2, StartKeeps, KillKeeps, EditKeeps DEF Next

\* Neighbours that were on record by the look are counted as the backtests
\* have them.
LEMMA EarnedIsHeld == Inv => NeighbourhoodHeld
<1>. SUFFICES ASSUME Inv, NEW t \in DOMAIN validation_events
              PROVE  LET near == NeighbourSeq(tests[t].cand)
                         Seen(k) == {i \in TestsOf(tests[t].run) :
                                       tests[i].cand = near[k] /\ tests[i].at < validation_events[t].at}
                     IN  /\ tests[t].passed
                         /\ \A k \in DOMAIN near : Seen(k) # {}
                         /\ Neighbourly(Cardinality({k \in DOMAIN near :
                                                       \E i \in Seen(k) : tests[i].passed}),
                                        Len(near))
  BY DEF NeighbourhoodHeld
<1>. DEFINE near == NeighbourSeq(tests[t].cand)
            Seen(k) == {i \in TestsOf(tests[t].run) :
                          tests[i].cand = near[k] /\ tests[i].at < validation_events[t].at}
<1>1. Earned(t) /\ Outcomes
  BY DEF Inv, Recorded
<1>2. /\ tests[t].passed
      /\ \A k \in DOMAIN near :
           TriedBefore(tests[t].run, near[k], validation_events[t].at) # {}
      /\ Neighbourly(GoodNeighbours(tests[t].cand), Len(near))
  BY <1>1 DEF Earned
<1>3. GoodNeighbours(tests[t].cand) = Cardinality({k \in DOMAIN near : near[k] \in scenario.world.passes})
  BY DEF GoodNeighbours
<1>. HIDE DEF near
<1>4. \A k \in DOMAIN near : Seen(k) # {}
  BY <1>2 DEF TriedBefore
<1>5. \A k \in DOMAIN near : \A i \in Seen(k) : tests[i].passed = (near[k] \in scenario.world.passes)
  BY <1>1 DEF Outcomes, TestsOf
<1>6. {k \in DOMAIN near : \E i \in Seen(k) : tests[i].passed}
        = {k \in DOMAIN near : near[k] \in scenario.world.passes}
  BY <1>4, <1>5
<1>7. Neighbourly(Cardinality({k \in DOMAIN near : \E i \in Seen(k) : tests[i].passed}), Len(near))
  BY <1>2, <1>3, <1>6
<1>. QED
  BY <1>2, <1>4, <1>7 DEF near

\* The invariant of the tables and of the commands holds.
LEMMA AlwaysInv == Spec => []Inv
BY InitInv, NextInv, PTL DEF Spec

-----------------------------------------------------------------------------
(* One command at a time.                                                  *)

\* What a command is, where it is.
Looking == {"next", "neighbour", "validate", "judge"}
Commands(p) ==
  /\ pc[p] \in {"propose", "test"} => Cmd(p).cmd \in {"batch", "fixed"}
  /\ pc[p] = "propose" => Cmd(p).cmd = "batch"
  /\ pc[p] \in Looking => Cmd(p).cmd = "validate"

\* A batch knows all that its run has tested and what it has queued is new;
\* a fixed run has no test before its attempt.
IsNew(p) ==
  /\ \A i, j \in DOMAIN queue[p] : queue[p][i] = queue[p][j] => i = j
  /\ \A i \in DOMAIN queue[p] : \A t \in TestsOf(Cmd(p).run) : tests[t].cand # queue[p][i]
Known(p) ==
  /\ pc[p] \in {"propose", "test"} /\ Cmd(p).cmd = "batch" => history[p] = TestsOf(Cmd(p).run)
  /\ pc[p] = "test" /\ Cmd(p).cmd = "batch" => IsNew(p)
  /\ pc[p] \in {"load", "test"} /\ Cmd(p).cmd = "fixed" => TestsOf(Cmd(p).run) = {}

\* A command starts when those before it are over.
Over == {"ended", "killed"}
OneAtATime == \A o, p \in Jobs : o < p /\ pc[p] # "new" => pc[o] \in Over

AloneInv == TriedOnce /\ OneAtATime /\ \A p \in Jobs : Commands(p) /\ Known(p)

\* Where a command neither knows nor looks.
Idle == Pcs \ ({"load", "propose", "test"} \cup Looking)

\* The jobs are numbered.
LEMMA JobsAreNumbers ==
  ASSUME TypeOK
  PROVE  Jobs \subseteq Nat
<1>1. scenario.jobs \in Seq(Job)
  BY ResearchAssumption DEF TypeOK
<1>. QED
  BY <1>1 DEF Jobs

\* While one command moves, those before it are over and those after it have
\* not started.
LEMMA AloneKeeps ==
  ASSUME TypeOK, AloneInv, scenario' = scenario, NEW p \in Jobs, pc[p] \notin Over,
         \A o \in Jobs : o < p => pc[o] \in Over,
         \A q \in Jobs : q # p => pc'[q] = pc[q],
         TriedOnce', Commands(p)', Known(p)'
  PROVE  AloneInv'
<1>1. Jobs' = Jobs /\ Jobs \subseteq Nat
  BY JobsAreNumbers DEF Jobs
<1>2. ASSUME NEW q \in Jobs, q # p
      PROVE  pc[q] \in Over \/ pc[q] = "new"
  <2>1. q < p \/ p < q
    BY <1>1, <1>2
  <2>2. p < q /\ pc[q] # "new" => pc[p] \in Over
    BY DEF AloneInv, OneAtATime
  <2>. QED
    BY <2>1, <2>2
<1>3. ASSUME NEW q \in Jobs, q # p
      PROVE  Commands(q)' /\ Known(q)'
  <2>1. pc'[q] \in {"new", "ended", "killed"}
    BY <1>2, <1>3 DEF Over
  <2>. QED
    BY <2>1 DEF Commands, Known, Looking
<1>4. ASSUME NEW o \in Jobs, NEW r \in Jobs, o < r, pc'[r] # "new"
      PROVE  pc'[o] \in Over
  <2>1. o # r
    BY <1>1, <1>4
  <2>2. CASE r = p
    BY <1>4, <2>1, <2>2
  <2>3. CASE r # p
    <3>1. pc[r] # "new"
      BY <1>4, <2>3
    <3>2. pc[o] \in Over
      BY <1>4, <3>1 DEF AloneInv, OneAtATime
    <3>3. o # p
      BY <3>2
    <3>. QED
      BY <3>2, <3>3
  <2>. QED
    BY <2>2, <2>3
<1>5. OneAtATime'
  BY <1>1, <1>4 DEF OneAtATime
<1>. QED
  BY <1>1, <1>3, <1>5 DEF AloneInv

\* A command that takes a step has started and is not over, and those before
\* it are.
LEMMA AloneMoves ==
  ASSUME TypeOK, AloneInv, NEW p \in Jobs, pc[p] \notin Over \cup {"new"}
  PROVE  pc[p] \notin Over /\ \A o \in Jobs : o < p => pc[o] \in Over
BY DEF AloneInv, OneAtATime

\* Nothing tested, nothing repeated.
LEMMA TriedOnceStays ==
  ASSUME TriedOnce, tests' = tests, scenario' = scenario
  PROVE  TriedOnce'
BY DEF TriedOnce, AloneAtATime, By, Cmd

\* A step that tests nothing and leaves its command where it knows nothing.
LEMMA AloneIdle ==
  ASSUME TypeOK, AloneInv, scenario' = scenario, tests' = tests, NEW p \in Jobs, pc[p] \notin Over,
         \A o \in Jobs : o < p => pc[o] \in Over,
         \A q \in Jobs : q # p => pc'[q] = pc[q],
         pc'[p] \in Idle
  PROVE  AloneInv'
<1>1. Commands(p)' /\ Known(p)'
  BY DEF Commands, Known, Looking, Idle
<1>2. TriedOnce'
  BY TriedOnceStays DEF AloneInv
<1>. QED
  BY <1>1, <1>2, AloneKeeps

\* The same for one of validate, which knows nothing either.
LEMMA AloneLooks ==
  ASSUME TypeOK, AloneInv, scenario' = scenario, tests' = tests, NEW p \in Jobs, pc[p] \in Looking,
         \A q \in Jobs : q # p => pc'[q] = pc[q],
         pc'[p] \in Looking \cup Idle
  PROVE  AloneInv'
<1>1. Cmd(p).cmd = "validate" /\ Cmd(p)' = Cmd(p)
  BY DEF AloneInv, Commands, Cmd
<1>2. Commands(p)' /\ Known(p)'
  BY <1>1 DEF Commands, Known, Looking, Idle
<1>3. TriedOnce'
  BY TriedOnceStays DEF AloneInv
<1>4. pc[p] \notin Over /\ \A o \in Jobs : o < p => pc[o] \in Over
  BY AloneMoves DEF Looking, Over
<1>. QED
  BY <1>2, <1>3, <1>4, AloneKeeps

\* A step that ends a command.
LEMMA AloneEnd ==
  ASSUME TypeOK, AloneInv, NEW p \in Jobs, pc[p] \notin Over \cup {"new"}, End(p),
         UNCHANGED <<world, killed>>
  PROVE  AloneInv'
<1>1. /\ scenario' = scenario /\ tests' = tests /\ pc' = [pc EXCEPT ![p] = "ended"]
  BY DEF End, Go, To, world, tables
<1>2. (\A q \in Jobs : q # p => pc'[q] = pc[q]) /\ pc'[p] \in Idle
  BY <1>1 DEF TypeOK, Idle, Looking, Pcs
<1>3. pc[p] \notin Over /\ \A o \in Jobs : o < p => pc[o] \in Over
  BY AloneMoves
<1>. QED
  BY <1>1, <1>2, <1>3, AloneIdle

\* A command that starts does so after those before it.
LEMMA AloneStart ==
  ASSUME TypeOK, AloneInv, AloneAtATime, NEW p \in Jobs, Start(p)
  PROVE  AloneInv'
<1>1. /\ scenario' = scenario /\ tests' = tests /\ pc' = [pc EXCEPT ![p] = "check"]
      /\ pc[p] = "new"
  BY DEF Start, To, world, tables
<1>2. (\A q \in Jobs : q # p => pc'[q] = pc[q]) /\ pc'[p] \in Idle
  BY <1>1 DEF TypeOK, Idle, Looking, Pcs
<1>3. pc[p] \notin Over /\ \A o \in Jobs : o < p => pc[o] \in Over
  BY <1>1 DEF Start, AloneAtATime, Over
<1>. QED
  BY <1>1, <1>2, <1>3, AloneIdle

\* A command that is killed is over.
LEMMA AloneKill ==
  ASSUME TypeOK, AloneInv, NEW p \in Jobs, Kill(p)
  PROVE  AloneInv'
<1>1. /\ scenario' = scenario /\ tests' = tests /\ pc' = [pc EXCEPT ![p] = "killed"]
      /\ pc[p] \notin Over \cup {"new"}
  BY DEF Kill, To, world, tables, Over
<1>2. (\A q \in Jobs : q # p => pc'[q] = pc[q]) /\ pc'[p] \in Idle
  BY <1>1 DEF TypeOK, Idle, Looking, Pcs
<1>3. pc[p] \notin Over /\ \A o \in Jobs : o < p => pc[o] \in Over
  BY <1>1, AloneMoves
<1>. QED
  BY <1>1, <1>2, <1>3, AloneIdle

\* Nothing of a command changes.
LEMMA AloneStays ==
  ASSUME AloneInv, UNCHANGED <<scenario, tests, pc, history, queue>>
  PROVE  AloneInv'
<1>1. TriedOnce'
  BY TriedOnceStays DEF AloneInv
<1>2. Jobs' = Jobs /\ OneAtATime'
  BY DEF AloneInv, OneAtATime, Jobs
<1>3. ASSUME NEW p \in Jobs
      PROVE  Commands(p)' /\ Known(p)'
  <2>1. Commands(p) /\ Known(p)
    BY DEF AloneInv
  <2>. QED
    BY <2>1 DEF Commands, Known, IsNew, TestsOf, Cmd
<1>. QED
  BY <1>1, <1>2, <1>3 DEF AloneInv

\* seed and note.
LEMMA AloneSeedNote ==
  ASSUME TypeOK, AloneInv, NEW p \in Jobs, Seed(p) \/ Note(p)
  PROVE  AloneInv'
<1>1. pc[p] = "check" /\ UNCHANGED <<world, killed>>
  BY DEF Seed, Note
<1>2. pc[p] \notin Over \cup {"new"}
  BY <1>1 DEF Over
<1>3. CASE End(p)
  BY <1>1, <1>2, <1>3, AloneEnd
<1>4. CASE To(p, "ended") /\ tests' = tests
  <2>1. (\A q \in Jobs : q # p => pc'[q] = pc[q]) /\ pc'[p] \in Idle
    BY <1>4 DEF To, TypeOK, Idle, Looking, Pcs
  <2>2. pc[p] \notin Over /\ \A o \in Jobs : o < p => pc[o] \in Over
    BY <1>2, AloneMoves
  <2>3. scenario' = scenario
    BY <1>1 DEF world
  <2>. QED
    BY <1>4, <2>1, <2>2, <2>3, AloneIdle
<1>. QED
  BY <1>3, <1>4 DEF Seed, Note

\* Check: a fixed run has no test yet.
LEMMA AloneCheck ==
  ASSUME TypeOK, AloneInv, NEW p \in Jobs, Check(p)
  PROVE  AloneInv'
<1>1. pc[p] = "check" /\ UNCHANGED <<world, killed>>
  BY DEF Check
<1>2. pc[p] \notin Over \cup {"new"}
  BY <1>1 DEF Over
<1>3. CASE End(p)
  BY <1>1, <1>2, <1>3, AloneEnd
<1>4. CASE /\ MayRun(p)
           /\ To(p, IF Cmd(p).cmd = "tune" THEN "pick" ELSE "load")
           /\ UNCHANGED <<tables, now, history, queue, survivors, stages>>
  <2>1. scenario' = scenario /\ tests' = tests
    BY <1>1, <1>4 DEF world, tables
  <2>2. (\A q \in Jobs : q # p => pc'[q] = pc[q]) /\ pc'[p] \in {"pick", "load"}
    BY <1>4 DEF To, TypeOK
  <2>3. pc[p] \notin Over /\ \A o \in Jobs : o < p => pc[o] \in Over
    BY <1>2, AloneMoves
  <2>4. Cmd(p).cmd = "fixed" => TestsOf(Cmd(p).run) = {}
    BY <1>4 DEF MayRun, FixedAllowed
  <2>5. Commands(p)' /\ Known(p)'
    BY <2>1, <2>2, <2>4 DEF Commands, Known, Looking, TestsOf, Cmd
  <2>6. TriedOnce'
    BY <2>1, TriedOnceStays DEF AloneInv
  <2>. QED
    BY <2>1, <2>2, <2>3, <2>5, <2>6, AloneKeeps
<1>. QED
  BY <1>3, <1>4 DEF Check

\* Load: a batch reads all that its run has tested.
LEMMA AloneLoad ==
  ASSUME TypeOK, AloneInv, NEW p \in Jobs, Load(p)
  PROVE  AloneInv'
<1>1. pc[p] = "load" /\ UNCHANGED <<world, killed>> /\ scenario' = scenario
  BY DEF Load, world
<1>2. pc[p] \notin Over \cup {"new"}
  BY <1>1 DEF Over
<1>3. pc[p] \notin Over /\ \A o \in Jobs : o < p => pc[o] \in Over
  BY <1>2, AloneMoves
<1>4. CASE End(p)
  BY <1>1, <1>2, <1>4, AloneEnd
<1>5. CASE Cmd(p).cmd = "validate" /\ Go(p, "pick")
  <2>1. tests' = tests /\ (\A q \in Jobs : q # p => pc'[q] = pc[q]) /\ pc'[p] \in Idle
    BY <1>5 DEF Go, To, tables, TypeOK, Idle, Looking, Pcs
  <2>. QED
    BY <1>1, <1>3, <2>1, AloneIdle
<1>6. CASE LoadBatch(p)
  <2>1. /\ Cmd(p).cmd = "batch" /\ tests' = tests
        /\ history' = [history EXCEPT ![p] = TestsOf(Cmd(p).run)]
        /\ pc' = [pc EXCEPT ![p] = "propose"]
    BY <1>6 DEF LoadBatch, Hist, To, tables
  <2>2. /\ \A q \in Jobs : q # p => pc'[q] = pc[q]
        /\ pc'[p] = "propose" /\ history'[p] = TestsOf(Cmd(p).run)
    BY <2>1 DEF TypeOK
  <2>3. Commands(p)' /\ Known(p)'
    BY <1>1, <2>1, <2>2 DEF Commands, Known, Looking, TestsOf, Cmd
  <2>4. TriedOnce'
    BY <1>1, <2>1, TriedOnceStays DEF AloneInv
  <2>. QED
    BY <1>1, <1>3, <2>2, <2>3, <2>4, AloneKeeps
<1>7. CASE LoadFixed(p)
  <2>1. Cmd(p).cmd = "fixed" /\ tests' = tests /\ pc' = [pc EXCEPT ![p] = "test"]
    BY <1>7 DEF LoadFixed, To, tables
  <2>2. (\A q \in Jobs : q # p => pc'[q] = pc[q]) /\ pc'[p] = "test"
    BY <2>1 DEF TypeOK
  <2>3. TestsOf(Cmd(p).run) = {}
    BY <1>1, <2>1 DEF AloneInv, Known
  <2>4. Commands(p)' /\ Known(p)'
    BY <1>1, <2>1, <2>2, <2>3 DEF Commands, Known, Looking, TestsOf, Cmd
  <2>5. TriedOnce'
    BY <1>1, <2>1, TriedOnceStays DEF AloneInv
  <2>. QED
    BY <1>1, <1>3, <2>2, <2>4, <2>5, AloneKeeps
<1>. QED
  BY <1>4, <1>5, <1>6, <1>7 DEF Load

\* Propose: what is queued is new to the run.
LEMMA AlonePropose ==
  ASSUME Inv, AloneInv, NEW p \in Jobs, Propose(p)
  PROVE  AloneInv'
<1>1. TypeOK /\ Serves(p)
  BY DEF Inv, Session
<1>2. pc[p] = "propose" /\ Left(p) > 0 /\ Cmd(p).run \in DOMAIN runs
  BY <1>1 DEF Propose, Serves, Working
<1>3. PICK q \in Proposals(Rows(history[p]), BatchFamilies(p), FactorFamilies, Left(p)) : Queue(p, q)
  BY DEF Propose
<1>4. /\ q \in Seq(Candidates)
      /\ \A i, j \in DOMAIN q : q[i] = q[j] => i = j
      /\ \A i \in DOMAIN q : q[i] \notin {tests[t].cand : t \in history[p]}
  BY <1>1, <1>2, <1>3, ProposedType
<1>5. Cmd(p).cmd = "batch" /\ history[p] = TestsOf(Cmd(p).run)
  BY <1>2 DEF AloneInv, Commands, Known
<1>6. /\ scenario' = scenario /\ tests' = tests /\ history' = history
      /\ queue' = [queue EXCEPT ![p] = q] /\ pc' = [pc EXCEPT ![p] = "test"]
  BY <1>3 DEF Propose, Queue, To, world, tables
<1>7. (\A r \in Jobs : r # p => pc'[r] = pc[r]) /\ pc'[p] = "test" /\ queue'[p] = q
  BY <1>1, <1>6 DEF TypeOK
<1>8. Cmd(p)' = Cmd(p) /\ TestsOf(Cmd(p).run)' = TestsOf(Cmd(p).run)
  BY <1>6 DEF Cmd, TestsOf
<1>9. IsNew(p)'
  BY <1>4, <1>5, <1>6, <1>7, <1>8 DEF IsNew
<1>10. Commands(p)' /\ Known(p)'
  BY <1>5, <1>6, <1>7, <1>8, <1>9 DEF Commands, Known, Looking
<1>11. TriedOnce'
  BY <1>6, TriedOnceStays DEF AloneInv
<1>12. pc[p] \notin Over /\ \A o \in Jobs : o < p => pc[o] \in Over
  BY <1>1, <1>2, AloneMoves DEF Over
<1>. QED
  BY <1>1, <1>6, <1>7, <1>10, <1>11, <1>12, AloneKeeps

\* GiveUp and Tune.
LEMMA AloneGiveUpTune ==
  ASSUME TypeOK, AloneInv, NEW p \in Jobs, GiveUp(p) \/ Tune(p)
  PROVE  AloneInv'
<1>1. pc[p] \in {"propose", "test", "tune"} /\ UNCHANGED <<world, killed>> /\ scenario' = scenario
  BY DEF GiveUp, Tune, world
<1>2. pc[p] \notin Over \cup {"new"}
  BY <1>1 DEF Over
<1>3. CASE End(p)
  BY <1>1, <1>2, <1>3, AloneEnd
<1>4. CASE UNCHANGED <<runs, tests, notes, validation_events, now, pc, memory>>
  BY <1>1, <1>4, AloneStays DEF memory
<1>. QED
  BY <1>3, <1>4 DEF GiveUp, Tune

\* Pick: only a validation goes on to look.
LEMMA AlonePick ==
  ASSUME TypeOK, AloneInv, NEW p \in Jobs, Pick(p)
  PROVE  AloneInv'
<1>. DEFINE next == IF Cmd(p).cmd = "validate" THEN "next"
                    ELSE IF TopCandidates(TestsOf(Cmd(p).run), Cmd(p).n) = <<>>
                      THEN "ended" ELSE "tune"
<1>1. /\ pc[p] = "pick" /\ scenario' = scenario /\ tests' = tests
      /\ pc' = [pc EXCEPT ![p] = next]
  BY DEF Pick, To, world, tables
<1>2. (\A q \in Jobs : q # p => pc'[q] = pc[q]) /\ pc'[p] = next
  BY <1>1 DEF TypeOK
<1>3. next \in {"next", "ended", "tune"} /\ (next = "next" => Cmd(p).cmd = "validate")
  OBVIOUS
<1>. HIDE DEF next
<1>4. Commands(p)' /\ Known(p)'
  BY <1>1, <1>2, <1>3 DEF Commands, Known, Looking, Cmd
<1>5. TriedOnce'
  BY <1>1, TriedOnceStays DEF AloneInv
<1>6. pc[p] \notin Over /\ \A o \in Jobs : o < p => pc[o] \in Over
  BY <1>1, AloneMoves DEF Over
<1>. QED
  BY <1>1, <1>2, <1>4, <1>5, <1>6, AloneKeeps

\* NextSurvivor, Validate and Judge.
LEMMA AloneLook ==
  ASSUME TypeOK, AloneInv, NEW p \in Jobs, NextSurvivor(p) \/ Validate(p) \/ Judge(p)
  PROVE  AloneInv'
<1>1. pc[p] \in Looking /\ UNCHANGED <<world, killed>> /\ scenario' = scenario
  BY DEF NextSurvivor, Validate, Judge, Looking, world
<1>2. pc[p] \notin Over \cup {"new"}
  BY <1>1 DEF Over, Looking
<1>3. CASE End(p)
  BY <1>1, <1>2, <1>3, AloneEnd
<1>4. CASE NextSurvivor(p) /\ ~End(p)
  <2>1. ToNext(p) /\ tests' = tests
    BY <1>4 DEF NextSurvivor, tables
  <2>2. CASE UNCHANGED pc
    BY <1>1, <2>1, <2>2, AloneLooks
  <2>3. CASE To(p, IF queue'[p] = <<>> THEN "validate" ELSE "neighbour")
    <3>1. (\A q \in Jobs : q # p => pc'[q] = pc[q]) /\ pc'[p] \in Looking
      BY <2>3 DEF To, TypeOK, Looking
    <3>. QED
      BY <1>1, <2>1, <3>1, AloneLooks
  <2>. QED
    BY <2>1, <2>2, <2>3 DEF ToNext
<1>5. CASE Validate(p) /\ ~End(p)
  <2>1. To(p, "judge") /\ tests' = tests
    BY <1>5 DEF Validate, RecordValidation
  <2>2. (\A q \in Jobs : q # p => pc'[q] = pc[q]) /\ pc'[p] \in Looking
    BY <2>1 DEF To, TypeOK, Looking
  <2>. QED
    BY <1>1, <2>1, <2>2, AloneLooks
<1>6. CASE Judge(p)
  <2>1. To(p, "next") /\ tests' = tests
    BY <1>6 DEF Judge
  <2>2. (\A q \in Jobs : q # p => pc'[q] = pc[q]) /\ pc'[p] \in Looking
    BY <2>1 DEF To, TypeOK, Looking
  <2>. QED
    BY <1>1, <2>1, <2>2, AloneLooks
<1>. QED
  BY <1>3, <1>4, <1>5, <1>6

\* A test that repeats none of its run, or is one of validate.
LEMMA TriedOnceGrows ==
  ASSUME Inv, TriedOnce, AloneAtATime, Grows, NEW p \in Jobs,
         DOMAIN tests' = DOMAIN tests \cup {Len(tests')}, Len(tests') = Len(tests) + 1,
         tests'[Len(tests')].run = Cmd(p).run, tests'[Len(tests')].by = p,
         \/ Cmd(p).cmd = "validate"
         \/ \A t \in TestsOf(Cmd(p).run) : tests[t].cand # tests'[Len(tests')].cand
  PROVE  TriedOnce'
<1>1. tests \in Seq(Test)
  BY DEF Inv, TypeOK
<1>2. \A i \in DOMAIN tests : i \in Nat /\ i < Len(tests') /\ tests'[i] = tests[i]
  BY <1>1 DEF Grows
<1>3. \A q : Cmd(q)' = Cmd(q)
  BY DEF Grows, Cmd
<1>. SUFFICES ASSUME NEW i \in DOMAIN tests', NEW j \in DOMAIN tests', j < i,
                     tests'[j].run = tests'[i].run, By(i)' \in {"batch", "fixed"}
              PROVE  tests'[j].cand # tests'[i].cand
  BY DEF TriedOnce
<1>4. CASE i \in DOMAIN tests
  <2>1. j \in DOMAIN tests
    BY <1>1, <1>2, <1>4
  <2>2. tests'[i] = tests[i] /\ tests'[j] = tests[j]
    BY <1>2, <1>4, <2>1
  <2>3. By(i) \in {"batch", "fixed"}
    BY <1>3, <2>2 DEF By
  <2>. QED
    BY <1>4, <2>1, <2>2, <2>3 DEF TriedOnce
<1>5. CASE i = Len(tests')
  <2>1. j \in DOMAIN tests /\ tests'[j] = tests[j]
    BY <1>1, <1>2, <1>5
  <2>2. j \in TestsOf(Cmd(p).run)
    BY <1>5, <2>1 DEF TestsOf
  <2>3. By(i)' = Cmd(p).cmd
    BY <1>3, <1>5 DEF By
  <2>. QED
    BY <1>5, <2>1, <2>2, <2>3
<1>. QED
  BY <1>4, <1>5

\* TestOne: what it tests is new, and it knows of it afterwards.
LEMMA AloneTestOne ==
  ASSUME Inv, AloneInv, AloneAtATime, NEW p \in Jobs, TestOne(p)
  PROVE  AloneInv'
<1>1. TypeOK
  BY DEF Inv
<1>2. pc[p] = "test" /\ queue[p] # <<>> /\ UNCHANGED <<world, killed>>
  BY DEF TestOne
<1>3. pc[p] \notin Over \cup {"new"}
  BY <1>2 DEF Over
<1>. DEFINE c == Head(queue[p])
            next == IF Cmd(p).cmd = "fixed" THEN "ended"
                    ELSE IF Len(queue[p]) = 1 THEN "propose" ELSE "test"
<1>4. CASE End(p)
  BY <1>1, <1>2, <1>3, <1>4, AloneEnd
<1>5. CASE /\ RecordTest(p, c, c \in scenario.world.passes, c \in scenario.world.partial)
           /\ Hist(p, history[p] \cup {Len(tests')})
           /\ Queue(p, Tail(queue[p]))
           /\ To(p, next)
           /\ UNCHANGED <<runs, notes, validation_events, meta_tests, loaded, survivors, stages>>
  <2>1. c \in Candidates /\ c = queue[p][1] /\ queue[p] \in Seq(Candidates) /\ Len(queue[p]) > 0
    <3>1. queue[p] \in Seq(Candidates)
      BY <1>1 DEF TypeOK
    <3>. QED
      BY <1>2, <3>1
  <2>. HIDE DEF c
  <2>2. /\ Grows /\ DOMAIN tests' = DOMAIN tests \cup {Len(tests')}
        /\ Len(tests') = Len(tests) + 1
        /\ tests'[Len(tests')].run = Cmd(p).run /\ tests'[Len(tests')].cand = c
        /\ tests'[Len(tests')].by = p
    <3>1. pc[p] \in Working /\ UNCHANGED <<world, runs, validation_events>>
      BY <1>2, <1>5 DEF Working
    <3>2. RecordTest(p, c, c \in scenario.world.passes, c \in scenario.world.partial)
      BY <1>5
    <3>. QED
      BY <2>1, <3>1, <3>2, RecordTestKeeps
  <2>3. Cmd(p).cmd \in {"batch", "fixed"} /\ Known(p)
    BY <1>2 DEF AloneInv, Commands
  <2>4. \A t \in TestsOf(Cmd(p).run) : tests[t].cand # c
    <3>1. CASE Cmd(p).cmd = "batch"
      <4>1. IsNew(p)
        BY <1>2, <2>3, <3>1 DEF Known
      <4>. QED
        BY <2>1, <4>1 DEF IsNew
    <3>2. CASE Cmd(p).cmd = "fixed"
      BY <1>2, <2>3, <3>2 DEF Known
    <3>. QED
      BY <2>3, <3>1, <3>2
  <2>5. TriedOnce'
    BY <2>2, <2>4, TriedOnceGrows DEF AloneInv
  <2>6. /\ \A q \in Jobs : q # p => pc'[q] = pc[q]
        /\ pc'[p] = next /\ queue'[p] = Tail(queue[p])
        /\ history'[p] = history[p] \cup {Len(tests')}
    BY <1>1, <1>5 DEF TypeOK, To, Queue, Hist
  <2>7. Cmd(p)' = Cmd(p)
    BY <2>2 DEF Grows, Cmd
  <2>8. TestsOf(Cmd(p).run)' = TestsOf(Cmd(p).run) \cup {Len(tests')}
    BY <2>2, <2>7 DEF TestsOf, Grows
  <2>9. Commands(p)'
    BY <2>3, <2>6, <2>7 DEF Commands, Looking
  <2>10. Known(p)'
    <3>1. CASE Cmd(p).cmd = "fixed"
      BY <2>6, <2>7, <3>1 DEF Known
    <3>2. CASE Cmd(p).cmd = "batch"
      <4>1. history'[p] = TestsOf(Cmd(p).run)'
        BY <1>2, <2>3, <2>6, <2>8, <3>2 DEF Known
      <4>2. IsNew(p)
        BY <1>2, <2>3, <3>2 DEF Known
      <4>3. \A i \in DOMAIN Tail(queue[p]) :
              i + 1 \in DOMAIN queue[p] /\ i + 1 # 1 /\ Tail(queue[p])[i] = queue[p][i + 1] /\ i \in Int
        BY <2>1
      <4>4. \A i, j \in DOMAIN queue'[p] : queue'[p][i] = queue'[p][j] => i = j
        BY <2>6, <4>2, <4>3 DEF IsNew
      <4>5. ASSUME NEW i \in DOMAIN queue'[p], NEW t \in TestsOf(Cmd(p).run)'
            PROVE  tests'[t].cand # queue'[p][i]
        <5>1. i + 1 \in DOMAIN queue[p] /\ queue'[p][i] = queue[p][i + 1] /\ i + 1 # 1
          BY <2>6, <4>3
        <5>2. CASE t = Len(tests')
          <6>1. 1 \in DOMAIN queue[p]
            BY <2>1
          <6>. QED
            BY <2>1, <2>2, <4>2, <5>1, <5>2, <6>1 DEF IsNew
        <5>3. CASE t \in TestsOf(Cmd(p).run)
          <6>1. tests'[t] = tests[t]
            BY <2>2, <5>3 DEF Grows, TestsOf
          <6>. QED
            BY <4>2, <5>1, <5>3, <6>1 DEF IsNew
        <5>. QED
          BY <2>8, <5>2, <5>3
      <4>6. IsNew(p)'
        BY <4>4, <4>5 DEF IsNew
      <4>. QED
        BY <2>7, <3>2, <4>1, <4>6 DEF Known
    <3>. QED
      BY <2>3, <3>1, <3>2
  <2>11. pc[p] \notin Over /\ \A o \in Jobs : o < p => pc[o] \in Over
    BY <1>1, <1>3, AloneMoves
  <2>12. scenario' = scenario
    BY <2>2 DEF Grows
  <2>. QED
    BY <1>1, <2>5, <2>6, <2>9, <2>10, <2>11, <2>12, AloneKeeps
<1>. QED
  BY <1>4, <1>5 DEF TestOne

\* TestNeighbour: a neighbour may have been tested before.
LEMMA AloneTestNeighbour ==
  ASSUME Inv, AloneInv, AloneAtATime, NEW p \in Jobs, TestNeighbour(p)
  PROVE  AloneInv'
<1>1. TypeOK
  BY DEF Inv
<1>2. pc[p] = "neighbour" /\ queue[p] # <<>> /\ UNCHANGED <<world, killed>>
  BY DEF TestNeighbour
<1>3. pc[p] \notin Over \cup {"new"}
  BY <1>2 DEF Over
<1>. DEFINE c == Head(queue[p])
<1>4. CASE End(p)
  BY <1>1, <1>2, <1>3, <1>4, AloneEnd
<1>5. CASE /\ RecordTest(p, c, c \in scenario.world.passes, c \in scenario.world.partial)
           /\ \/ UNCHANGED pc
              \/ To(p, "validate")
              \/ To(p, "next")
           /\ UNCHANGED <<runs, validation_events>>
  <2>1. c \in Candidates
    BY <1>1, <1>2, QueueType
  <2>. HIDE DEF c
  <2>2. /\ Grows /\ DOMAIN tests' = DOMAIN tests \cup {Len(tests')}
        /\ Len(tests') = Len(tests) + 1
        /\ tests'[Len(tests')].run = Cmd(p).run /\ tests'[Len(tests')].by = p
    <3>1. pc[p] \in Working /\ UNCHANGED <<world, runs, validation_events>>
      BY <1>2, <1>5 DEF Working
    <3>2. RecordTest(p, c, c \in scenario.world.passes, c \in scenario.world.partial)
      BY <1>5
    <3>. QED
      BY <2>1, <3>1, <3>2, RecordTestKeeps
  <2>3. Cmd(p).cmd = "validate" /\ Cmd(p)' = Cmd(p)
    BY <1>2, <2>2 DEF AloneInv, Commands, Looking, Grows, Cmd
  <2>4. TriedOnce'
    BY <2>2, <2>3, TriedOnceGrows DEF AloneInv
  <2>5. /\ \A q \in Jobs : q # p => pc'[q] = pc[q]
        /\ pc'[p] \in Looking
    BY <1>1, <1>2, <1>5 DEF TypeOK, To, Looking
  <2>6. Commands(p)' /\ Known(p)'
    BY <2>3, <2>5 DEF Commands, Known, Looking
  <2>7. pc[p] \notin Over /\ \A o \in Jobs : o < p => pc[o] \in Over
    BY <1>1, <1>3, AloneMoves
  <2>8. scenario' = scenario
    BY <2>2 DEF Grows
  <2>. QED
    BY <1>1, <2>4, <2>5, <2>6, <2>7, <2>8, AloneKeeps
<1>6. TestNeighbour(p) =>
        \/ End(p)
        \/ /\ RecordTest(p, c, c \in scenario.world.passes, c \in scenario.world.partial)
           /\ \/ UNCHANGED pc
              \/ To(p, "validate")
              \/ To(p, "next")
           /\ UNCHANGED <<runs, validation_events>>
  BY DEF TestNeighbour
<1>. QED
  BY <1>4, <1>5, <1>6

\* Nothing has been tested, nobody has started.
LEMMA AloneInit == Init => AloneInv
<1>. SUFFICES ASSUME Init PROVE AloneInv
  OBVIOUS
<1>1. tests = <<>> /\ \A p \in Jobs : pc[p] = "new"
  BY DEF Init
<1>. QED
  BY <1>1 DEF AloneInv, TriedOnce, OneAtATime, Commands, Known, Looking

\* Alone at a time, no step breaks it.
LEMMA AloneNext == AloneAtATime /\ Inv /\ AloneInv /\ [Next]_vars => AloneInv'
<1>. SUFFICES ASSUME AloneAtATime, Inv, AloneInv, [Next]_vars
              PROVE  AloneInv'
  OBVIOUS
<1>1. TypeOK
  BY DEF Inv
<1>2. ASSUME NEW p \in Jobs, Step(p)
      PROVE  AloneInv'
  BY <1>1, <1>2, AloneSeedNote, AloneCheck, AloneLoad, AloneGiveUpTune, AlonePropose, AloneTestOne,
     AlonePick, AloneLook, AloneTestNeighbour DEF Step
<1>3. CASE Edit
  BY <1>3, AloneStays DEF Edit, tables, memory
<1>4. CASE UNCHANGED vars
  BY <1>4, AloneStays DEF vars, world, tables, memory
<1>. QED
  BY <1>1, <1>2, <1>3, <1>4, AloneStart, AloneKill DEF Next

\* The scenario never changes.
LEMMA ScenarioStays == Inv /\ [Next]_vars => scenario' = scenario
<1>. SUFFICES ASSUME Inv, [Next]_vars
              PROVE  scenario' = scenario
  OBVIOUS
<1>1. ASSUME NEW p \in Jobs, Start(p) \/ Kill(p) \/ Step(p)
      PROVE  scenario' = scenario
  BY <1>1 DEF Start, Kill, Step, Seed, Note, Check, Load, GiveUp, Propose, TestOne, Pick,
     NextSurvivor, TestNeighbour, Validate, Judge, Tune, world
<1>. QED
  BY <1>1 DEF Next, Edit, vars, world

-----------------------------------------------------------------------------
(* What is spent on a value that never passed.                             *)

\* A candidate with the value is queued.
Queues(p, f, k, v) ==
  \E j \in DOMAIN queue[p] : queue[p][j].family = f /\ queue[p][j].params[k] = v

\* Testing all that a batch has queued stays below the threshold and a batch.
Room(p, f, k, v) ==
  NeverPassed(Cmd(p).run, f, k, v) /\ Queues(p, f, k, v) =>
    Cardinality(TestsWith(Cmd(p).run, f, k, v)) + Len(queue[p]) < PruneMin + Cmd(p).n

HasRoom(p) ==
  pc[p] = "test" /\ Cmd(p).cmd = "batch" =>
    \A f \in Families : \A k \in Keys(f) : \A v \in 1..Spaces[f][k] : Room(p, f, k, v)

Frugal ==
  \A r \in DOMAIN runs : \A f \in Families : \A k \in Keys(f) : \A v \in 1..Spaces[f][k] :
    SpentInBounds(r, f, k, v)

SpendInv == Frugal /\ \A p \in Jobs : HasRoom(p)

\* Finitely many tests have a value.
LEMMA TestsWithFinite ==
  ASSUME tests \in Seq(Test), NEW r, NEW f, NEW k, NEW v
  PROVE  /\ IsFiniteSet(TestsWith(r, f, k, v))
         /\ Cardinality(TestsWith(r, f, k, v)) \in Nat
<1>1. DOMAIN tests = 1..Len(tests) /\ Len(tests) \in Nat
  OBVIOUS
<1>2. IsFiniteSet(1..Len(tests))
  BY <1>1, FS_Interval
<1>3. TestsWith(r, f, k, v) \subseteq 1..Len(tests)
  BY <1>1 DEF TestsWith, TestsOf
<1>. QED
  BY <1>2, <1>3, FS_Subset, FS_CardinalityType

\* A set that grows by at most one element.
LEMMA OneMore ==
  ASSUME NEW S, NEW T, NEW x, IsFiniteSet(S), T \subseteq S \cup {x}
  PROVE  Cardinality(T) \in Nat /\ Cardinality(T) =< Cardinality(S) + 1
<1>1. /\ IsFiniteSet(S \cup {x})
      /\ Cardinality(S \cup {x}) \in {Cardinality(S), Cardinality(S) + 1}
  BY FS_AddElement
<1>2. IsFiniteSet(T) /\ Cardinality(T) =< Cardinality(S \cup {x})
  BY <1>1, FS_Subset
<1>3. Cardinality(T) \in Nat /\ Cardinality(S) \in Nat
  BY <1>2, FS_CardinalityType
<1>. QED
  BY <1>1, <1>2, <1>3

\* A batch queues no more than it has left, and nothing with a dead value.
LEMMA ProposalsAlive ==
  ASSUME NEW rows, NEW families, NEW gridFamilies, NEW n \in Nat,
         NEW q \in Proposals(rows, families, gridFamilies, n), q \in Seq(Candidates)
  PROVE  /\ Len(q) =< n
         /\ \A i \in DOMAIN q : ~HasPrunedValue(rows, q[i])
<1>. DEFINE fresh == Fresh(rows, families, n)
            first == Queued(rows, families, gridFamilies)
            sizes == {m \in 0..n : /\ m =< Cardinality(fresh)
                                   /\ m < n => m >= Cardinality(first)}
<1>1. \A c \in fresh : ~HasPrunedValue(rows, c)
  BY DEF Fresh, Drawn
<1>2. q \in UNION {[1..m -> fresh] : m \in sizes}
  BY DEF Proposals
<1>3. PICK m \in 0..n : q \in [1..m -> fresh]
  BY <1>2
<1>. HIDE DEF fresh
<1>4. Len(q) = m
  BY <1>3
<1>. QED
  BY <1>1, <1>3, <1>4

\* Only the active command has anything queued to test.
LEMMA OthersRest ==
  ASSUME TypeOK, AloneInv, NEW p \in Jobs, pc[p] \notin Over \cup {"new"}, NEW q \in Jobs, q # p
  PROVE  pc[q] \in Over \cup {"new"}
<1>1. q < p \/ p < q
  BY JobsAreNumbers
<1>2. p < q /\ pc[q] # "new" => pc[p] \in Over
  BY DEF AloneInv, OneAtATime
<1>3. q < p => pc[q] \in Over
  BY DEF AloneInv, OneAtATime
<1>. QED
  BY <1>1, <1>2, <1>3

\* Nothing tested, and nothing queued to test but by p.
LEMMA SpendStays ==
  ASSUME Inv, SpendInv, scenario' = scenario, tests' = tests, NEW p \in Jobs,
         \A q \in Jobs : q # p => pc'[q] = pc[q] /\ queue'[q] = queue[q],
         HasRoom(p)'
  PROVE  SpendInv'
<1>1. Jobs' = Jobs /\ \A q : Cmd(q)' = Cmd(q)
  BY DEF Jobs, Cmd
<1>2. \A r, f, k, v : /\ TestsWith(r, f, k, v)' = TestsWith(r, f, k, v)
                      /\ NeverPassed(r, f, k, v)' = NeverPassed(r, f, k, v)
                      /\ BatchTestsWith(r, f, k, v)' = BatchTestsWith(r, f, k, v)
  BY DEF TestsWith, TestsOf, NeverPassed, BatchTestsWith, By, Cmd
<1>3. \A r, f, k, v : SpentInBounds(r, f, k, v)' = SpentInBounds(r, f, k, v)
  BY <1>1, <1>2 DEF SpentInBounds
<1>4. Frugal'
  <2>. SUFFICES ASSUME NEW r \in DOMAIN runs', NEW f \in Families, NEW k \in Keys(f),
                       NEW v \in 1..Spaces[f][k]
                PROVE  SpentInBounds(r, f, k, v)
    BY <1>3 DEF Frugal
  <2>1. CASE r \in DOMAIN runs
    BY <2>1 DEF SpendInv, Frugal
  <2>2. CASE r \notin DOMAIN runs
    <3>1. TestsOf(r) = {}
      BY <2>2 DEF Inv, Recorded, Belongs, TestsOf
    <3>. QED
      BY <3>1 DEF SpentInBounds, BatchTestsWith, TestsWith
  <2>. QED
    BY <2>1, <2>2
<1>5. ASSUME NEW q \in Jobs, q # p
      PROVE  HasRoom(q)'
  <2>1. \A f, k, v : Room(q, f, k, v)' = Room(q, f, k, v)
    BY <1>1, <1>2, <1>5 DEF Room, Queues
  <2>2. HasRoom(q)
    BY DEF SpendInv
  <2>. QED
    BY <1>1, <1>5, <2>1, <2>2 DEF HasRoom
<1>. QED
  BY <1>1, <1>4, <1>5 DEF SpendInv

\* A step that tests nothing and leaves its command where it tests nothing.
LEMMA SpendIdle ==
  ASSUME Inv, SpendInv, scenario' = scenario, tests' = tests, NEW p \in Jobs,
         \A q \in Jobs : q # p => pc'[q] = pc[q] /\ queue'[q] = queue[q],
         pc'[p] # "test" \/ Cmd(p).cmd # "batch"
  PROVE  SpendInv'
<1>1. HasRoom(p)'
  BY DEF HasRoom, Cmd
<1>. QED
  BY <1>1, SpendStays

\* Propose: what is queued did not look dead in all that the run has tested.
LEMMA SpendPropose ==
  ASSUME Inv, AloneInv, SpendInv, NEW p \in Jobs, Propose(p)
  PROVE  SpendInv'
<1>1. TypeOK /\ Serves(p)
  BY DEF Inv, Session
<1>2. pc[p] = "propose" /\ Left(p) > 0 /\ Cmd(p).run \in DOMAIN runs
  BY <1>1 DEF Propose, Serves, Working
<1>3. PICK q \in Proposals(Rows(history[p]), BatchFamilies(p), FactorFamilies, Left(p)) : Queue(p, q)
  BY DEF Propose
<1>4. q \in Seq(Candidates)
  BY <1>1, <1>2, <1>3, ProposedType
<1>5. Left(p) \in Nat /\ Left(p) =< Cmd(p).n
  <2>1. DOMAIN tests = 1..Len(tests) /\ Len(tests) \in Nat
    BY <1>1 DEF TypeOK
  <2>2. IsFiniteSet(1..Len(tests)) /\ Own(p) \subseteq 1..Len(tests)
    BY <2>1, FS_Interval DEF Own
  <2>3. Cardinality(Own(p)) \in Nat
    BY <2>2, FS_Subset, FS_CardinalityType
  <2>. QED
    BY <1>1, <1>2, <2>3, CmdType DEF Left
<1>6. Len(q) =< Left(p) /\ \A i \in DOMAIN q : ~HasPrunedValue(Rows(history[p]), q[i])
  BY <1>3, <1>4, <1>5, ProposalsAlive
<1>7. Cmd(p).cmd = "batch" /\ history[p] = TestsOf(Cmd(p).run)
  BY <1>2 DEF AloneInv, Commands, Known
<1>8. /\ scenario' = scenario /\ tests' = tests
      /\ queue' = [queue EXCEPT ![p] = q] /\ pc' = [pc EXCEPT ![p] = "test"]
  BY <1>3 DEF Propose, Queue, To, world, tables
<1>9. /\ \A r \in Jobs : r # p => pc'[r] = pc[r] /\ queue'[r] = queue[r]
      /\ queue'[p] = q
  BY <1>1, <1>8 DEF TypeOK
<1>10. ASSUME NEW f \in Families, NEW k \in Keys(f), NEW v \in 1..Spaces[f][k]
       PROVE  Room(p, f, k, v)'
  <2>. DEFINE with == TestsWith(Cmd(p).run, f, k, v)
  <2>1. /\ Cmd(p)' = Cmd(p) /\ TestsWith(Cmd(p).run, f, k, v)' = with
        /\ NeverPassed(Cmd(p).run, f, k, v)' = NeverPassed(Cmd(p).run, f, k, v)
    BY <1>8 DEF Cmd, TestsWith, TestsOf, NeverPassed
  <2>2. With(Rows(history[p]), f, k, v) = with
    BY <1>7 DEF With, Rows, TestsWith
  <2>3. \A i \in with : Rows(history[p])[i].passed = tests[i].passed
    BY <1>7 DEF Rows, TestsWith
  <2>4. Cardinality(with) \in Nat
    BY <1>1, TestsWithFinite DEF TypeOK
  <2>. HIDE DEF with
  <2>5. ASSUME NeverPassed(Cmd(p).run, f, k, v), Queues(p, f, k, v)'
        PROVE  Cardinality(with) < PruneMin
    <3>1. PICK j \in DOMAIN q : q[j].family = f /\ q[j].params[k] = v
      BY <1>9, <2>5 DEF Queues
    <3>2. ~Pruned(Rows(history[p]), f, k, v)
      BY <1>6, <3>1 DEF HasPrunedValue
    <3>3. \A i \in with : ~Rows(history[p])[i].passed
      BY <2>3, <2>5 DEF NeverPassed, with
    <3>. QED
      BY <2>2, <2>4, <3>2, <3>3, SearchAssumption DEF Pruned
  <2>6. Len(q) \in Nat /\ Cmd(p).n \in Nat
    BY <1>1, <1>4, CmdType
  <2>. QED
    BY <1>5, <1>6, <1>9, <2>1, <2>4, <2>5, <2>6, SearchAssumption DEF Room
<1>11. HasRoom(p)'
  BY <1>10 DEF HasRoom
<1>. QED
  BY <1>8, <1>9, <1>11, SpendStays

\* A test that is no batch's, or one there is room for.
LEMMA FrugalGrows ==
  ASSUME Inv, Frugal, Grows, runs' = runs, NEW p \in Jobs,
         DOMAIN tests' = DOMAIN tests \cup {Len(tests')},
         tests'[Len(tests')].run = Cmd(p).run, tests'[Len(tests')].by = p,
         \/ Cmd(p).cmd # "batch"
         \/ /\ pc[p] = "test" /\ HasRoom(p)
            /\ queue[p] \in Seq(Candidates) /\ Len(queue[p]) > 0
            /\ tests'[Len(tests')].cand = queue[p][1]
  PROVE  Frugal'
<1>. DEFINE new == Len(tests')
<1>1. tests \in Seq(Test)
  BY DEF Inv, TypeOK
<1>2. \A q : Cmd(q)' = Cmd(q)
  BY DEF Grows, Cmd
<1>. SUFFICES ASSUME NEW r \in DOMAIN runs, NEW f \in Families, NEW k \in Keys(f),
                     NEW v \in 1..Spaces[f][k]
              PROVE  SpentInBounds(r, f, k, v)'
  BY DEF Frugal
<1>. DEFINE with == TestsWith(r, f, k, v)
            batch == BatchTestsWith(r, f, k, v)
            withNow == TestsWith(r, f, k, v)'
            batchNow == BatchTestsWith(r, f, k, v)'
<1>3. \A i \in DOMAIN tests : tests'[i] = tests[i]
  BY DEF Grows
<1>4. /\ with \subseteq withNow /\ withNow \subseteq with \cup {new}
      /\ batch \subseteq batchNow /\ batchNow \subseteq batch \cup {new}
      /\ batchNow \subseteq withNow
  BY <1>2, <1>3 DEF TestsWith, TestsOf, BatchTestsWith, By
<1>5. NeverPassed(r, f, k, v)' => NeverPassed(r, f, k, v)
  BY <1>3, <1>4 DEF NeverPassed, TestsWith, TestsOf
<1>6. IsFiniteSet(with) /\ Cardinality(with) \in Nat
  BY <1>1, TestsWithFinite
<1>7. \A i \in batch : tests'[i] = tests[i]
  BY <1>3 DEF BatchTestsWith, TestsWith, TestsOf
<1>8. SpentInBounds(r, f, k, v)
  BY DEF Frugal
<1>9. CASE batchNow = batch
  BY <1>2, <1>5, <1>7, <1>8, <1>9 DEF SpentInBounds
<1>10. CASE new \in batchNow
  <2>1. /\ Cmd(p).cmd = "batch" /\ r = Cmd(p).run
        /\ tests'[new].cand.family = f /\ tests'[new].cand.params[k] = v
    BY <1>2, <1>10 DEF BatchTestsWith, TestsWith, TestsOf, By
  <2>2. Queues(p, f, k, v)
    <3>1. 1 \in DOMAIN queue[p]
      BY <2>1
    <3>. QED
      BY <2>1, <3>1 DEF Queues
  <2>3. NeverPassed(r, f, k, v)' => Cardinality(with) + Len(queue[p]) < PruneMin + Cmd(p).n
    BY <1>5, <2>1, <2>2 DEF HasRoom, Room
  <2>4. Cardinality(batchNow) \in Nat /\ Cardinality(batchNow) =< Cardinality(with) + 1
    <3>1. batchNow \subseteq with \cup {new}
      BY <1>4
    <3>. HIDE DEF with, batchNow, new
    <3>. QED
      BY <1>6, <3>1, OneMore
  <2>5. Len(queue[p]) \in Nat /\ Len(queue[p]) > 0 /\ Cmd(p).n \in Nat /\ PruneMin \in Nat
    <3>1. TypeOK
      BY DEF Inv
    <3>. QED
      BY <2>1, <3>1, CmdType, SearchAssumption
  <2>6. NeverPassed(r, f, k, v)' => Cardinality(batchNow) < PruneMin + Cmd(p).n
    <3>. HIDE DEF with, batchNow
    <3>. QED
      BY <1>6, <2>3, <2>4, <2>5
  <2>7. Cmd(tests'[new].by).n = Cmd(p).n
    OBVIOUS
  <2>. QED
    BY <1>2, <1>10, <2>6, <2>7 DEF SpentInBounds
<1>. QED
  BY <1>4, <1>9, <1>10

\* TestOne: each test of what is queued takes up room that was left for it.
LEMMA SpendTestOne ==
  ASSUME Inv, AloneInv, SpendInv, NEW p \in Jobs, TestOne(p)
  PROVE  SpendInv'
<1>1. TypeOK
  BY DEF Inv
<1>2. pc[p] = "test" /\ queue[p] # <<>> /\ UNCHANGED <<world, killed>> /\ scenario' = scenario
  BY DEF TestOne, world
<1>. DEFINE c == Head(queue[p])
            next == IF Cmd(p).cmd = "fixed" THEN "ended"
                    ELSE IF Len(queue[p]) = 1 THEN "propose" ELSE "test"
<1>3. CASE End(p)
  <2>1. /\ tests' = tests /\ \A q \in Jobs : q # p => pc'[q] = pc[q] /\ queue'[q] = queue[q]
        /\ pc'[p] # "test"
    BY <1>1, <1>3 DEF End, Go, To, tables, memory, TypeOK
  <2>. QED
    BY <1>2, <2>1, SpendIdle
<1>4. CASE /\ RecordTest(p, c, c \in scenario.world.passes, c \in scenario.world.partial)
           /\ Queue(p, Tail(queue[p]))
           /\ To(p, next)
           /\ UNCHANGED <<runs, notes, validation_events, meta_tests, loaded, survivors, stages>>
  <2>1. c \in Candidates /\ c = queue[p][1] /\ queue[p] \in Seq(Candidates) /\ Len(queue[p]) > 0
    <3>1. queue[p] \in Seq(Candidates)
      BY <1>1 DEF TypeOK
    <3>. QED
      BY <1>2, <3>1
  <2>. HIDE DEF c
  <2>2. /\ Grows /\ DOMAIN tests' = DOMAIN tests \cup {Len(tests')}
        /\ tests' \in Seq(Test)
        /\ tests'[Len(tests')].run = Cmd(p).run /\ tests'[Len(tests')].cand = c
        /\ tests'[Len(tests')].by = p
    <3>1. pc[p] \in Working /\ UNCHANGED <<world, runs, validation_events>>
      BY <1>2, <1>4 DEF Working
    <3>2. RecordTest(p, c, c \in scenario.world.passes, c \in scenario.world.partial)
      BY <1>4
    <3>. QED
      BY <2>1, <3>1, <3>2, RecordTestKeeps
  <2>3. HasRoom(p) /\ Frugal
    BY DEF SpendInv
  <2>4. Frugal'
    BY <1>2, <1>4, <2>1, <2>2, <2>3, FrugalGrows
  <2>5. /\ \A q \in Jobs : q # p => pc'[q] = pc[q]
        /\ pc'[p] = next /\ queue'[p] = Tail(queue[p])
    BY <1>1, <1>4 DEF TypeOK, To, Queue
  <2>6. ASSUME NEW q \in Jobs, q # p
        PROVE  HasRoom(q)'
    <3>1. pc[q] \in Over \cup {"new"}
      BY <1>1, <1>2, <2>6, OthersRest DEF Over
    <3>. QED
      BY <2>5, <2>6, <3>1 DEF HasRoom, Over
  <2>7. \A q : Cmd(q)' = Cmd(q)
    BY <1>2 DEF Cmd
  <2>8. ASSUME Cmd(p).cmd = "batch", NEW f \in Families, NEW k \in Keys(f),
               NEW v \in 1..Spaces[f][k]
        PROVE  Room(p, f, k, v)'
    <3>. DEFINE r == Cmd(p).run
                with == TestsWith(r, f, k, v)
                withNow == TestsWith(r, f, k, v)'
                new == Len(tests')
    <3>1. \A i \in DOMAIN tests : tests'[i] = tests[i]
      BY <2>2 DEF Grows
    <3>2. with \subseteq withNow /\ withNow \subseteq with \cup {new}
      BY <2>2, <2>7, <3>1 DEF TestsWith, TestsOf
    <3>3. NeverPassed(r, f, k, v)' => NeverPassed(r, f, k, v)
      BY <2>7, <3>1, <3>2 DEF NeverPassed, TestsWith, TestsOf
    <3>4. Queues(p, f, k, v)' => Queues(p, f, k, v)
      <4>1. \A j \in DOMAIN Tail(queue[p]) :
              j + 1 \in DOMAIN queue[p] /\ Tail(queue[p])[j] = queue[p][j + 1]
        BY <2>1
      <4>. QED
        BY <2>5, <4>1 DEF Queues
    <3>5. Room(p, f, k, v)
      BY <1>2, <2>3, <2>8 DEF HasRoom
    <3>6. IsFiniteSet(with) /\ Cardinality(with) \in Nat
      BY <1>1, TestsWithFinite DEF TypeOK
    <3>7. Cardinality(withNow) \in Nat /\ Cardinality(withNow) =< Cardinality(with) + 1
      BY <3>2, <3>6, OneMore
    <3>8. Len(Tail(queue[p])) = Len(queue[p]) - 1 /\ Len(queue[p]) \in Nat
      BY <2>1
    <3>9. Cmd(p).n \in Nat /\ PruneMin \in Nat
      BY <1>1, CmdType, SearchAssumption
    <3>10. NeverPassed(r, f, k, v)' /\ Queues(p, f, k, v)' =>
             Cardinality(withNow) + Len(queue'[p]) < PruneMin + Cmd(p).n
      <4>1. NeverPassed(r, f, k, v)' /\ Queues(p, f, k, v)' =>
              Cardinality(with) + Len(queue[p]) < PruneMin + Cmd(p).n
        BY <3>3, <3>4, <3>5 DEF Room
      <4>. HIDE DEF with, withNow, r, new
      <4>. QED
        BY <2>5, <3>6, <3>7, <3>8, <3>9, <4>1
    <3>. QED
      BY <2>7, <3>10 DEF Room
  <2>9. HasRoom(p)'
    BY <2>7, <2>8 DEF HasRoom
  <2>10. Jobs' = Jobs
    BY <1>2 DEF Jobs
  <2>. QED
    BY <2>4, <2>6, <2>9, <2>10 DEF SpendInv
<1>. QED
  BY <1>3, <1>4 DEF TestOne

\* TestNeighbour: a validation's tests are not a batch's.
LEMMA SpendTestNeighbour ==
  ASSUME Inv, AloneInv, SpendInv, NEW p \in Jobs, TestNeighbour(p)
  PROVE  SpendInv'
<1>1. TypeOK
  BY DEF Inv
<1>2. /\ pc[p] = "neighbour" /\ queue[p] # <<>> /\ UNCHANGED <<world, killed>>
      /\ scenario' = scenario
  BY DEF TestNeighbour, world
<1>3. Cmd(p).cmd = "validate"
  BY <1>2 DEF AloneInv, Commands, Looking
<1>. DEFINE c == Head(queue[p])
<1>4. CASE End(p)
  <2>1. tests' = tests /\ \A q \in Jobs : q # p => pc'[q] = pc[q] /\ queue'[q] = queue[q]
    BY <1>1, <1>4 DEF End, Go, To, tables, memory, TypeOK
  <2>. QED
    BY <1>2, <1>3, <2>1, SpendIdle
<1>5. CASE /\ RecordTest(p, c, c \in scenario.world.passes, c \in scenario.world.partial)
           /\ \/ UNCHANGED pc
              \/ To(p, "validate")
              \/ To(p, "next")
           /\ UNCHANGED <<runs, validation_events>>
  <2>1. c \in Candidates
    BY <1>1, <1>2, QueueType
  <2>. HIDE DEF c
  <2>2. /\ Grows /\ DOMAIN tests' = DOMAIN tests \cup {Len(tests')}
        /\ tests'[Len(tests')].run = Cmd(p).run /\ tests'[Len(tests')].by = p
    <3>1. pc[p] \in Working /\ UNCHANGED <<world, runs, validation_events>>
      BY <1>2, <1>5 DEF Working
    <3>2. RecordTest(p, c, c \in scenario.world.passes, c \in scenario.world.partial)
      BY <1>5
    <3>. QED
      BY <2>1, <3>1, <3>2, RecordTestKeeps
  <2>3. Frugal'
    BY <1>3, <1>5, <2>2, FrugalGrows DEF SpendInv
  <2>4. \A q \in Jobs : q # p => pc'[q] = pc[q]
    BY <1>1, <1>5 DEF TypeOK, To
  <2>5. \A q : Cmd(q)' = Cmd(q)
    BY <1>2 DEF Cmd
  <2>6. ASSUME NEW q \in Jobs
        PROVE  HasRoom(q)'
    <3>1. CASE q = p
      BY <1>3, <2>5, <3>1 DEF HasRoom
    <3>2. CASE q # p
      <4>1. pc[q] \in Over \cup {"new"}
        BY <1>1, <1>2, <3>2, OthersRest DEF Over
      <4>. QED
        BY <2>4, <3>2, <4>1 DEF HasRoom, Over
    <3>. QED
      BY <3>1, <3>2
  <2>7. Jobs' = Jobs
    BY <1>2 DEF Jobs
  <2>. QED
    BY <2>3, <2>6, <2>7 DEF SpendInv
<1>6. TestNeighbour(p) =>
        \/ End(p)
        \/ /\ RecordTest(p, c, c \in scenario.world.passes, c \in scenario.world.partial)
           /\ \/ UNCHANGED pc
              \/ To(p, "validate")
              \/ To(p, "next")
           /\ UNCHANGED <<runs, validation_events>>
  BY DEF TestNeighbour
<1>. QED
  BY <1>4, <1>5, <1>6

\* The actions that test nothing and leave nothing queued to test.
LEMMA SpendOther ==
  ASSUME Inv, AloneInv, SpendInv, NEW p \in Jobs,
         \/ Start(p) \/ Kill(p) \/ Seed(p) \/ Note(p) \/ Check(p) \/ Load(p) \/ GiveUp(p)
         \/ Pick(p) \/ NextSurvivor(p) \/ Validate(p) \/ Judge(p) \/ Tune(p)
  PROVE  SpendInv'
<1>1. TypeOK
  BY DEF Inv
<1>. DEFINE Quiet == /\ scenario' = scenario /\ tests' = tests
                     /\ \A q \in Jobs : q # p => pc'[q] = pc[q] /\ queue'[q] = queue[q]
                     /\ pc'[p] # "test" \/ Cmd(p).cmd # "batch"
<1>2. End(p) /\ scenario' = scenario => Quiet
  BY <1>1 DEF End, Go, To, tables, memory, TypeOK
<1>3. Start(p) \/ Kill(p) => Quiet
  BY <1>1 DEF Start, Kill, To, world, tables, memory, TypeOK
<1>4. Seed(p) \/ Note(p) \/ Check(p) => Quiet
  BY <1>1, <1>2 DEF Seed, Note, Check, To, world, tables, memory, TypeOK
<1>5. Load(p) => Quiet
  <2>1. LoadBatch(p) /\ scenario' = scenario => Quiet
    BY <1>1 DEF LoadBatch, Hist, To, tables, TypeOK
  <2>2. LoadFixed(p) /\ scenario' = scenario => Quiet
    BY <1>1 DEF LoadFixed, Queue, To, tables, TypeOK
  <2>3. Go(p, "pick") /\ scenario' = scenario => Quiet
    BY <1>1 DEF Go, To, tables, memory, TypeOK
  <2>. QED
    BY <1>2, <2>1, <2>2, <2>3 DEF Load, world
<1>6. GiveUp(p) => Quiet
  BY <1>2 DEF GiveUp, world
<1>7. Pick(p) => Quiet
  <2>. DEFINE next == IF Cmd(p).cmd = "validate" THEN "next"
                      ELSE IF TopCandidates(TestsOf(Cmd(p).run), Cmd(p).n) = <<>>
                        THEN "ended" ELSE "tune"
  <2>1. next # "test"
    OBVIOUS
  <2>2. Pick(p) => /\ scenario' = scenario /\ tests' = tests /\ queue' = queue
                   /\ pc' = [pc EXCEPT ![p] = next]
    BY DEF Pick, To, world, tables
  <2>. HIDE DEF next
  <2>. QED
    BY <1>1, <2>1, <2>2 DEF TypeOK
<1>8. NextSurvivor(p) => Quiet
  <2>1. ASSUME NextSurvivor(p), ToNext(p), UNCHANGED <<scenario, tests>>
        PROVE  Quiet
    <3>1. CASE UNCHANGED <<pc, queue>>
      BY <2>1, <3>1 DEF NextSurvivor
    <3>2. CASE /\ Queue(p, NeighbourSeq(tests[Current(p)].cand))
               /\ To(p, IF queue'[p] = <<>> THEN "validate" ELSE "neighbour")
      BY <1>1, <2>1, <3>2 DEF Queue, To, TypeOK
    <3>. QED
      BY <2>1, <3>1, <3>2 DEF ToNext
  <2>. QED
    BY <1>2, <2>1 DEF NextSurvivor, world, tables
<1>9. Validate(p) => Quiet
  BY <1>1, <1>2 DEF Validate, RecordValidation, To, world, memory, TypeOK
<1>10. Judge(p) => Quiet
  BY <1>1 DEF Judge, To, world, TypeOK
<1>11. Tune(p) => Quiet
  <2>1. pc[p] = "tune" /\ UNCHANGED <<runs, tests, notes, validation_events, now, pc, memory>>
          /\ scenario' = scenario => Quiet
    BY DEF memory
  <2>. QED
    BY <1>2, <2>1 DEF Tune, world
<1>12. Quiet
  BY <1>3, <1>4, <1>5, <1>6, <1>7, <1>8, <1>9, <1>10, <1>11
<1>. QED
  BY <1>12, SpendIdle

\* Nothing has been tested, nobody has started.
LEMMA SpendInit == Init => SpendInv
BY DEF Init, SpendInv, Frugal, HasRoom

\* Alone at a time, no step breaks it.
LEMMA SpendNext == Inv /\ AloneInv /\ SpendInv /\ [Next]_vars => SpendInv'
<1>. SUFFICES ASSUME Inv, AloneInv, SpendInv, [Next]_vars
              PROVE  SpendInv'
  OBVIOUS
<1>1. ASSUME UNCHANGED <<scenario, runs, tests, pc, queue>>
      PROVE  SpendInv'
  BY <1>1 DEF SpendInv, Frugal, HasRoom, Room, Queues, SpentInBounds, NeverPassed,
     BatchTestsWith, TestsWith, TestsOf, By, Cmd, Jobs
<1>2. ASSUME NEW p \in Jobs, Start(p) \/ Step(p) \/ Kill(p)
      PROVE  SpendInv'
  BY <1>2, SpendOther, SpendPropose, SpendTestOne, SpendTestNeighbour DEF Step
<1>3. CASE Edit
  BY <1>1, <1>3 DEF Edit, tables, memory
<1>4. CASE UNCHANGED vars
  BY <1>1, <1>4 DEF vars, world, tables, memory
<1>. QED
  BY <1>2, <1>3, <1>4 DEF Next

-----------------------------------------------------------------------------
(* The theorems.                                                           *)

\* The tables and what every command holds in memory have their types, and
\* no event is without its test.
THEOREM ResearchTypes == Spec => []TypeOK
<1>1. Inv => TypeOK
  BY DEF Inv
<1>. QED
  BY <1>1, AlwaysInv, PTL

\* Every test and every look of a run is graded by the run's rulebook, for
\* any number of commands that overlap, are killed, and find files edited.
THEOREM OneRulebookHolds == Spec => []OneRulebook
<1>1. Inv => OneRulebook
  BY DEF Inv, Recorded
<1>. QED
  BY <1>1, AlwaysInv, PTL

\* Nothing is looked up whose neighbours are not all on record and mostly
\* passed.
THEOREM NeighbourhoodHeldHolds == Spec => []NeighbourhoodHeld
BY EarnedIsHeld, AlwaysInv, PTL

\* Nothing passes validation but against every attempt of its run up to its
\* own, whoever recorded it.
THEOREM JudgedAgainstAllHolds == Spec => []JudgedAgainstAll
<1>1. Inv => JudgedAgainstAll
  BY DEF Inv, Recorded
<1>. QED
  BY <1>1, AlwaysInv, PTL

\* One command at a time, no batch and no fixed run tests again what its run
\* has tested, whatever was killed or edited in between.
THEOREM TriedOnceHolds == Spec => []TriedOnce
<1>. DEFINE Both == Inv /\ (AloneAtATime => AloneInv)
<1>1. Init => Both
  BY InitInv, AloneInit
<1>2. Both /\ [Next]_vars => Both'
  <2>1. AloneAtATime /\ Inv /\ [Next]_vars => (AloneInv => AloneInv')
    BY AloneNext
  <2>2. Inv /\ [Next]_vars => (AloneAtATime' => AloneAtATime)
    BY ScenarioStays DEF AloneAtATime
  <2>. QED
    BY <2>1, <2>2, NextInv
<1>3. Both => TriedOnce
  BY DEF AloneInv, TriedOnce
<1>. HIDE DEF Both
<1>. QED
  BY <1>1, <1>2, <1>3, PTL DEF Spec

\* One command at a time, what batches spend on a value that never passed
\* stays below the threshold and the size of one of them.
THEOREM GivesUpDeadRegionsHolds == Spec => []GivesUpDeadRegions
<1>. DEFINE All == Inv /\ (AloneAtATime => AloneInv /\ SpendInv)
<1>1. Init => All
  BY InitInv, AloneInit, SpendInit
<1>2. All /\ [Next]_vars => All'
  <2>1. AloneAtATime /\ Inv /\ [Next]_vars /\ AloneInv /\ SpendInv => AloneInv' /\ SpendInv'
    BY AloneNext, SpendNext
  <2>2. Inv /\ [Next]_vars => (AloneAtATime' => AloneAtATime)
    BY ScenarioStays DEF AloneAtATime
  <2>. QED
    BY <2>1, <2>2, NextInv
<1>3. All => GivesUpDeadRegions
  <2>. SUFFICES ASSUME Inv, SpendInv, NEW r \in DOMAIN runs, NEW f \in runs[r].families,
                       NEW k \in Keys(f), NEW v \in 1..Spaces[f][k]
                PROVE  SpentInBounds(r, f, k, v)
    BY DEF GivesUpDeadRegions
  <2>1. f \in Families
    <3>1. runs[r] \in Run
      BY DEF Inv, TypeOK
    <3>. QED
      BY <3>1 DEF Run
  <2>. QED
    BY <2>1 DEF SpendInv, Frugal
<1>. HIDE DEF All
<1>. QED
  BY <1>1, <1>2, <1>3, PTL DEF Spec
=============================================================================
