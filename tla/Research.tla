------------------------------ MODULE Research ------------------------------
(***************************************************************************)
(* The search loop and the validation of its survivors over the ledger's   *)
(* tables: scripts/search.py, validate.py and walkforward.py (tune), with  *)
(* qrl/search.py, validation.py, combined.py, factor_run.py and ledger.py. *)
(*                                                                         *)
(* A job is one command line.  Reading its files, each query and each      *)
(* committed write of the ledger is a step; a job may be killed between    *)
(* any two, overlap with others, and find the files it is bound to edited. *)
(* What a backtest says of a candidate is fixed by the scenario: graded by *)
(* the same rules on the same data it says the same again.                 *)
(***************************************************************************)
EXTENDS SearchRules

CONSTANTS
  CoreFamilies,     \* the families a fixed run grades on their own merits
  FactorFamilies,   \* the families of factor runs, enumerated by their grid
  MetaGrid,         \* bound: meta-settings a tuning tries
  Gap,              \* a pause longer than a whole command
  None,             \* no value
  Scenarios

\* jobs: the commands, in the order of their process ids; overlap: may a job
\* start before the one before it has ended?  kills, edits: how many;
\* world: what the backtests say.
\*   world.passes  passes the research criteria
\*   world.partial fails on one criterion only
\*   world.rank    its metric, higher is better
\*   world.skill   up to how many trials its validation Sharpe survives
\*                 deflation; None when it has too few observations
\*   world.alike   pairs whose validation returns correlate too highly
Job == [cmd : {"seed", "batch", "fixed", "validate", "tune", "note"},
        run : Nat, families : SUBSET Families, fixed : Candidates \cup {None},
        factor : BOOLEAN, rule : {"standalone", "combined", "combined_null"},
        n : Nat, budget : BOOLEAN]

ASSUME ResearchAssumption ==
  /\ MetaGrid \in Nat /\ Gap \in Nat
  /\ CoreFamilies \subseteq Families /\ FactorFamilies \subseteq Searchable
  /\ \A s \in Scenarios :
       /\ s.jobs \in Seq(Job)
       /\ s.overlap \in BOOLEAN /\ s.kills \in Nat /\ s.edits \in Nat
       /\ s.world.rank \in [Candidates -> Nat]
       /\ s.world.skill \in [Candidates -> Nat \cup {None}]

ASSUME NoneAssumption == None \notin BOOLEAN

VARIABLES
  scenario,           \* never changes
  runs, tests, notes, validation_events, meta_tests,   \* the tables, by id
  files,              \* the current hashes of the files a run is bound to
  now,                \* the clock of created_at
  killed, edited,     \* how often
  pc,                 \* where a job is
  loaded,             \* the rulebook a job read
  history,            \* the tests it knows
  queue,              \* candidates it is about to test
  survivors,          \* the tests a validation looks at, best first
  stages              \* the stage each of them stopped at, so far

tables == <<runs, tests, notes, validation_events, meta_tests>>
memory == <<loaded, history, queue, survivors, stages>>
world == <<scenario, files, edited>>
vars == <<world, tables, now, killed, pc, memory>>

Jobs == DOMAIN scenario.jobs
Cmd(p) == scenario.jobs[p]

\* What a command is graded by: the hashes of criteria.yaml, of the combined
\* config, and of the data source (with factor.yaml and its membership).
Rulebook == [criteria : 0..1, combined : 0..1, source : 0..1]

Run == [criteria : 0..1, combined : (0..1) \cup {None}, source : 0..1,
        families : SUBSET Families, fixed : Candidates \cup {None}, factor : BOOLEAN]
Test == [run : Nat, cand : Candidates, passed : BOOLEAN, partial : BOOLEAN,
         rank : Nat, by : Nat, graded : Rulebook, at : Nat]
Event == [at : Nat, by : Nat, graded : Rulebook, passed : BOOLEAN \cup {None}]

Pcs == {"new", "check", "load", "propose", "test", "pick", "next", "neighbour",
        "validate", "judge", "tune", "ended", "killed"}
Stages == {"already_validated", "neighbourhood", "deflated_sharpe", "correlation", "accepted"}

-----------------------------------------------------------------------------
(* The ledger.                                                             *)

\* list_tests of a run.
TestsOf(r) == {i \in DOMAIN tests : tests[i].run = r}

Rows(ids) == [i \in ids |-> tests[i]]

\* record_test, refused for another rulebook than the run's.
Accepts(r, rulebook) ==
  /\ runs[r].criteria = rulebook.criteria
  /\ runs[r].combined # None => runs[r].combined = rulebook.combined

RecordTest(p, c, passed, partial) ==
  LET r == Cmd(p).run
  IN  /\ Accepts(r, loaded[p])
      /\ tests' = Append(tests,
           [run |-> r, cand |-> c, passed |-> passed, partial |-> partial,
            rank |-> scenario.world.rank[c], by |-> p, graded |-> loaded[p], at |-> now])
      /\ now' = now + 1

\* top_candidates(passed_only): the n best, the older one first on a tie.
TopCandidates(ids, n) ==
  LET pool == {i \in ids : tests[i].passed}
      Better(i, j) == \/ tests[i].rank > tests[j].rank
                      \/ tests[i].rank = tests[j].rank /\ i < j
      Place(i) == Cardinality({j \in pool : Better(j, i)}) + 1
      size == IF Cardinality(pool) < n THEN Cardinality(pool) ELSE n
  IN  [k \in 1..size |-> CHOOSE i \in pool : Place(i) = k]

IsValidated(t) == t \in DOMAIN validation_events

\* A count that forgets the failures.
PassedTrials(r) == Cardinality({i \in TestsOf(r) : tests[i].passed})

\* trial_sharpes: every test of the run counts, failures and errors too.
Trials(r) == Cardinality(TestsOf(r))

-----------------------------------------------------------------------------
(* The guards every command runs first.                                    *)

\* checked_run.
CheckedRun(r, rulebook) == r \in DOMAIN runs /\ runs[r].criteria = rulebook.criteria

\* combined_config_for_run: a standalone run has no such config.
CombinedConfigForRun(r, rulebook) ==
  runs[r].combined # None => runs[r].combined = rulebook.combined

\* A guard that trusts --synthetic and --universe.
CheckNoSource(r, rulebook) == TRUE

\* check_data_source: --synthetic and the universe are the seed's; of a
\* factor run, the files behind its provider too.
CheckDataSource(r, rulebook) == runs[r].source = rulebook.source

Bound(r, rulebook) ==
  CheckedRun(r, rulebook) /\ CombinedConfigForRun(r, rulebook) /\ CheckDataSource(r, rulebook)

\* _validate_seed.
SeedAllowed(j) ==
  IF j.fixed # None
    THEN /\ Cardinality(j.families) = 1
         /\ ~j.factor
         /\ j.rule = IF j.families \subseteq CoreFamilies THEN "standalone" ELSE "combined"
    ELSE /\ j.families # {}
         /\ j.families \subseteq Searchable
         /\ j.factor => j.rule = "combined_null" /\ j.families \subseteq FactorFamilies
         /\ ~j.factor => j.families \cap FactorFamilies = {}

\* The families of a batch: its own, or the run's.
BatchFamilies(p) ==
  (IF Cmd(p).families # {} THEN Cmd(p).families ELSE runs[Cmd(p).run].families) \cap Searchable

FamiliesMix(p) ==
  IF runs[Cmd(p).run].factor THEN BatchFamilies(p) \subseteq FactorFamilies
  ELSE BatchFamilies(p) \cap FactorFamilies = {}

\* _fixed_problem.
FixedAllowed(p) ==
  /\ runs[Cmd(p).run].fixed = Cmd(p).fixed
  /\ TestsOf(Cmd(p).run) = {}

MayBatch(p) ==
  /\ runs[Cmd(p).run].fixed = None
  /\ BatchFamilies(p) # {}
  /\ FamiliesMix(p)

MayRun(p) ==
  CASE Cmd(p).cmd = "batch" -> MayBatch(p)
    [] Cmd(p).cmd = "fixed" -> Cmd(p).fixed # None /\ FixedAllowed(p)
    [] Cmd(p).cmd \in {"validate", "tune"} -> TRUE

-----------------------------------------------------------------------------

To(p, next) == pc' = [pc EXCEPT ![p] = next]

Go(p, next) == To(p, next) /\ UNCHANGED <<tables, now, memory>>

End(p) == Go(p, "ended")

Hist(p, ids) == history' = [history EXCEPT ![p] = ids]
Queue(p, q) == queue' = [queue EXCEPT ![p] = q]

\* A command reads criteria.yaml; the pause before it may be a long one.
Start(p) ==
  /\ pc[p] = "new"
  /\ \A o \in Jobs : o < p => \/ pc[o] \in {"ended", "killed"}
                              \/ scenario.overlap /\ o # 1
  /\ To(p, "check")
  /\ loaded' = [loaded EXCEPT ![p] = files]
  /\ now' = IF scenario.overlap THEN now ELSE now + Gap + 1
  /\ UNCHANGED <<world, tables, killed, history, queue, survivors, stages>>

\* seed: start_run with the hashes of everything the run is bound to.
Seed(p) ==
  LET j == Cmd(p)
  IN  /\ pc[p] = "check" /\ j.cmd = "seed"
      /\ IF SeedAllowed(j)
           THEN /\ runs' = Append(runs,
                     [criteria |-> loaded[p].criteria,
                      combined |-> IF j.rule = "standalone" THEN None ELSE files.combined,
                      source |-> files.source, families |-> j.families,
                      fixed |-> j.fixed, factor |-> j.factor])
                /\ To(p, "ended")
                /\ UNCHANGED <<tests, notes, validation_events, meta_tests, now, memory>>
           ELSE End(p)
      /\ UNCHANGED <<world, killed>>

\* note: the foreign key refuses an unknown run.
Note(p) ==
  /\ pc[p] = "check" /\ Cmd(p).cmd = "note"
  /\ notes' = IF Cmd(p).run \in DOMAIN runs THEN Append(notes, Cmd(p).run) ELSE notes
  /\ To(p, "ended")
  /\ UNCHANGED <<world, runs, tests, validation_events, meta_tests, now, killed, memory>>

\* The guards of batch, fixed, validate and tune, which read the other files
\* a run is bound to.
Check(p) ==
  LET j == Cmd(p)
      rulebook == [files EXCEPT !.criteria = loaded[p].criteria]
  IN  /\ pc[p] = "check" /\ j.cmd \notin {"seed", "note"}
      /\ IF Bound(j.run, rulebook) /\ MayRun(p)
           THEN /\ loaded' = [loaded EXCEPT ![p] = rulebook]
                /\ To(p, IF j.cmd = "tune" THEN "pick" ELSE "load")
                /\ UNCHANGED <<tables, now, history, queue, survivors, stages>>
           ELSE End(p)
      /\ UNCHANGED <<world, killed>>

\* Minutes of downloads, after which a batch reads the run's history, once.
LoadBatch(p) ==
  /\ Cmd(p).cmd = "batch"
  /\ Hist(p, TestsOf(Cmd(p).run))
  /\ To(p, "propose")
  /\ UNCHANGED <<tables, now, loaded, queue, survivors, stages>>

LoadFixed(p) ==
  /\ Cmd(p).cmd = "fixed"
  /\ Queue(p, <<Cmd(p).fixed>>)
  /\ To(p, "test")
  /\ UNCHANGED <<tables, now, loaded, history, survivors, stages>>

\* When prices are missing a fixed run refuses and the others fail, and
\* nothing is recorded.
Load(p) ==
  /\ pc[p] = "load"
  /\ \/ LoadBatch(p)
     \/ LoadFixed(p)
     \/ Cmd(p).cmd = "validate" /\ Go(p, "pick")
     \/ End(p)
  /\ UNCHANGED <<world, killed>>

-----------------------------------------------------------------------------
(* batch and fixed.                                                        *)

Own(p) == {i \in DOMAIN tests : tests[i].by = p}
Left(p) == Cmd(p).n - Cardinality(Own(p))

\* Out of time, or out of candidates.
GiveUp(p) ==
  /\ pc[p] \in {"propose", "test"} /\ Cmd(p).cmd = "batch"
  /\ \/ Cmd(p).budget
     \/ Left(p) = 0
     \/ pc[p] = "propose" /\ <<>> \in
          Proposals(Rows(history[p]), BatchFamilies(p), FactorFamilies, Left(p))
  /\ End(p)
  /\ UNCHANGED <<world, killed>>

Propose(p) ==
  /\ pc[p] = "propose"
  /\ Left(p) > 0
  /\ \E q \in Proposals(Rows(history[p]), BatchFamilies(p), FactorFamilies, Left(p)) :
       q # <<>> /\ Queue(p, q)
  /\ To(p, "test")
  /\ UNCHANGED <<world, tables, now, killed, loaded, history, survivors, stages>>

\* A batch that does not add what it tested to its history.
TestOneForgetful(p) ==
  /\ pc[p] = "test" /\ queue[p] # <<>>
  /\ LET c == Head(queue[p])
     IN  RecordTest(p, c, c \in scenario.world.passes, c \in scenario.world.partial)
  /\ Queue(p, Tail(queue[p]))
  /\ To(p, IF Cmd(p).cmd = "fixed" THEN "ended"
           ELSE IF Len(queue[p]) = 1 THEN "propose" ELSE "test")
  /\ UNCHANGED <<world, killed, runs, notes, validation_events, meta_tests,
                 loaded, history, survivors, stages>>

\* _test_one_candidate, and the one attempt of a fixed run: whatever happens
\* is one row, an error a failed one.
TestOne(p) ==
  /\ pc[p] = "test" /\ queue[p] # <<>>
  /\ \/ /\ Accepts(Cmd(p).run, loaded[p])
        /\ LET c == Head(queue[p])
           IN  RecordTest(p, c, c \in scenario.world.passes, c \in scenario.world.partial)
        /\ Hist(p, history[p] \cup {Len(tests')})
        /\ Queue(p, Tail(queue[p]))
        /\ To(p, IF Cmd(p).cmd = "fixed" THEN "ended"
                 ELSE IF Len(queue[p]) = 1 THEN "propose" ELSE "test")
        /\ UNCHANGED <<runs, notes, validation_events, meta_tests, loaded, survivors, stages>>
     \/ ~Accepts(Cmd(p).run, loaded[p]) /\ End(p)
  /\ UNCHANGED <<world, killed>>

-----------------------------------------------------------------------------
(* validate and tune.                                                      *)

Turn(p) == Len(stages[p]) + 1
Current(p) == survivors[p][Turn(p)]
Accepted(p) == {survivors[p][i] : i \in {j \in DOMAIN stages[p] : stages[p][j] = "accepted"}}

Stage(p, stage) == stages' = [stages EXCEPT ![p] = Append(@, stage)]

\* The survivors are those of the run's tests so far.
Pick(p) ==
  LET best == TopCandidates(TestsOf(Cmd(p).run), Cmd(p).n)
  IN  /\ pc[p] = "pick"
      /\ survivors' = [survivors EXCEPT ![p] = best]
      /\ To(p, IF Cmd(p).cmd = "validate" THEN "next"
               ELSE IF best = <<>> THEN "ended" ELSE "tune")
      /\ UNCHANGED <<world, tables, now, killed, loaded, history, queue, stages>>

\* A survivor is skipped when its test has an event, otherwise its
\* neighbours are tested.
ToNext(p) ==
  IF IsValidated(Current(p))
    THEN /\ Stage(p, "already_validated")
         /\ UNCHANGED <<pc, queue>>
    ELSE /\ Queue(p, NeighbourSeq(tests[Current(p)].cand))
         /\ To(p, IF queue'[p] = <<>> THEN "validate" ELSE "neighbour")
         /\ UNCHANGED stages

NextSurvivor(p) ==
  /\ pc[p] = "next"
  /\ IF Turn(p) > Len(survivors[p])
       THEN End(p)
       ELSE ToNext(p) /\ UNCHANGED <<tables, now, loaded, history, survivors>>
  /\ UNCHANGED <<world, killed>>

\* A neighbourhood check that asks for one passing neighbour only.
HasAGoodNeighbour(p) ==
  LET near == NeighbourSeq(tests[Current(p)].cand)
  IN  AnyNeighbour(Cardinality({i \in DOMAIN near : near[i] \in scenario.world.passes}), Len(near))

\* neighbourhood_check of the current survivor.
HasGoodNeighbours(p) ==
  LET near == NeighbourSeq(tests[Current(p)].cand)
  IN  Neighbourly(Cardinality({i \in DOMAIN near : near[i] \in scenario.world.passes}), Len(near))

\* _eval_and_record: a neighbour is an ordinary research test.
TestNeighbour(p) ==
  /\ pc[p] = "neighbour" /\ queue[p] # <<>>
  /\ \/ /\ LET c == Head(queue[p])
           IN  RecordTest(p, c, c \in scenario.world.passes, c \in scenario.world.partial)
        /\ Queue(p, Tail(queue[p]))
        /\ IF Len(queue[p]) > 1
             THEN UNCHANGED <<pc, stages>>
             ELSE IF HasGoodNeighbours(p)
               THEN To(p, "validate") /\ UNCHANGED stages
               ELSE To(p, "next") /\ Stage(p, "neighbourhood")
        /\ UNCHANGED <<runs, notes, validation_events, meta_tests, loaded, history, survivors>>
     \/ ~Accepts(Cmd(p).run, loaded[p]) /\ End(p)
  /\ UNCHANGED <<world, killed>>

WithEvent(t, event) ==
  validation_events' = [u \in DOMAIN validation_events \cup {t} |->
                          IF u = t THEN event ELSE validation_events[u]]

\* record_validation: one event per test; a second raises, which nothing
\* catches.
RecordValidation(p) ==
  IF IsValidated(Current(p)) THEN End(p)
  ELSE /\ WithEvent(Current(p), [at |-> now, by |-> p, graded |-> loaded[p], passed |-> None])
       /\ now' = now + 1
       /\ To(p, "judge")
       /\ UNCHANGED <<runs, tests, notes, meta_tests, memory>>

Validate(p) ==
  /\ pc[p] = "validate"
  /\ RecordValidation(p)
  /\ UNCHANGED <<world, killed>>

\* Does the validation Sharpe of a candidate survive so many trials?
SurvivesDeflation(c, trials) ==
  scenario.world.skill[c] # None /\ trials =< scenario.world.skill[c]

Alike(c, d) == {c, d} \in scenario.world.alike

\* The stage a validated candidate stops at: deflated Sharpe, then the
\* correlation with what this validation accepted before.
Verdict(c, trials, accepted) ==
  IF ~SurvivesDeflation(c, trials) THEN "deflated_sharpe"
  ELSE IF \E a \in accepted : Alike(c, tests[a].cand) THEN "correlation"
  ELSE "accepted"

\* A judge that writes a verdict only when it is good news.
JudgeAccepted(p) ==
  LET t == Current(p)
      verdict == Verdict(tests[t].cand, Trials(Cmd(p).run), Accepted(p))
  IN  /\ pc[p] = "judge"
      /\ WithEvent(t, [validation_events[t] EXCEPT
           !.passed = IF verdict = "accepted" THEN TRUE ELSE None])
      /\ Stage(p, verdict)
      /\ To(p, "next")
      /\ UNCHANGED <<world, runs, tests, notes, meta_tests, now, killed,
                     loaded, history, queue, survivors>>

\* set_validation_verdict.
Judge(p) ==
  LET t == Current(p)
      verdict == Verdict(tests[t].cand, Trials(Cmd(p).run), Accepted(p))
  IN  /\ pc[p] = "judge"
      /\ WithEvent(t, [validation_events[t] EXCEPT !.passed = (verdict = "accepted")])
      /\ Stage(p, verdict)
      /\ To(p, "next")
      /\ UNCHANGED <<world, runs, tests, notes, meta_tests, now, killed,
                     loaded, history, queue, survivors>>

\* tune_meta: one row per setting tried, whatever it gives.
Tune(p) ==
  /\ pc[p] = "tune"
  /\ IF Cardinality({i \in DOMAIN meta_tests : meta_tests[i].by = p}) = MetaGrid
       THEN End(p)
       ELSE /\ meta_tests' = Append(meta_tests, [run |-> Cmd(p).run, by |-> p])
            /\ UNCHANGED <<runs, tests, notes, validation_events, now, pc, memory>>
  /\ UNCHANGED <<world, killed>>

-----------------------------------------------------------------------------

Kill(p) ==
  /\ killed < scenario.kills
  /\ pc[p] \notin {"new", "ended", "killed"}
  /\ killed' = killed + 1
  /\ To(p, "killed")
  /\ UNCHANGED <<world, tables, now, memory>>

\* The owner edits a file, or the next command line names another one.
Edit ==
  /\ edited < scenario.edits
  /\ edited' = edited + 1
  /\ \E f \in DOMAIN files : files' = [files EXCEPT ![f] = 1 - @]
  /\ UNCHANGED <<scenario, tables, now, killed, pc, memory>>

Init ==
  /\ scenario \in Scenarios
  /\ files = [criteria |-> 0, combined |-> 0, source |-> 0]
  /\ runs = <<>> /\ tests = <<>> /\ notes = <<>> /\ meta_tests = <<>>
  /\ validation_events = <<>>
  /\ now = 0 /\ killed = 0 /\ edited = 0
  /\ pc = [p \in Jobs |-> "new"]
  /\ loaded = [p \in Jobs |-> files]
  /\ history = [p \in Jobs |-> {}]
  /\ queue = [p \in Jobs |-> <<>>]
  /\ survivors = [p \in Jobs |-> <<>>]
  /\ stages = [p \in Jobs |-> <<>>]

Step(p) ==
  \/ Seed(p) \/ Note(p) \/ Check(p) \/ Load(p)
  \/ GiveUp(p) \/ Propose(p) \/ TestOne(p)
  \/ Pick(p) \/ NextSurvivor(p) \/ TestNeighbour(p) \/ Validate(p) \/ Judge(p)
  \/ Tune(p)

Next ==
  \/ \E p \in Jobs : Start(p) \/ Step(p) \/ Kill(p)
  \/ Edit

Spec == Init /\ [][Next]_vars

MaxJobs == 6

\* A command that runs goes on; nobody has to start one.
FairSpec == Spec /\ \A p \in 1..MaxJobs : WF_vars(p \in Jobs /\ Step(p))
=============================================================================
