----------------------------- MODULE MCResearch -----------------------------
(***************************************************************************)
(* Small instances of Research for TLC.  A behaviour is one history of a   *)
(* run: seeded, searched, validated, command by command or overlapping,    *)
(* with commands killed or files edited in between.                        *)
(***************************************************************************)
EXTENDS ResearchProperties

\* trend moves along one parameter, grid along two, value is a factor
\* family, hold and core have nothing to vary and are not searched.
SmallSpaces == [trend |-> <<3>>, grid |-> <<2, 3>>, value |-> <<2>>, hold |-> <<>>]

At1(f, i) == [family |-> f, params |-> <<i>>]
Hold == [family |-> "hold", params |-> <<>>]

Plain == [cmd |-> "note", run |-> 1, families |-> {}, fixed |-> None, factor |-> FALSE,
          rule |-> "standalone", n |-> 0, budget |-> FALSE]
SeedOf(fs) == [Plain EXCEPT !.cmd = "seed", !.families = fs]
Batch(size) == [Plain EXCEPT !.cmd = "batch", !.n = size]
Validation(size) == [Plain EXCEPT !.cmd = "validate", !.n = size]
Fixed == [Plain EXCEPT !.cmd = "fixed", !.fixed = Hold]
Tuning == [Plain EXCEPT !.cmd = "tune", !.n = 2]

\* All of trend passes, or all but one end; a Sharpe that survives few or
\* many trials, or cannot be computed; two ends that move together.
WorldOf(passes, skill, alike) ==
  [passes  |-> passes,
   partial |-> Candidates \ passes,
   rank    |-> [c \in Candidates |-> IF c.params = <<>> THEN 1 ELSE c.params[1]],
   skill   |-> [c \in Candidates |-> skill],
   alike   |-> alike]
AllOfTrend == Grid("trend") \cup {Hold}
Ends == {At1("trend", 2), At1("trend", 3)}

Worlds ==
  {WorldOf(p, s, a) : p \in {AllOfTrend, Ends}, s \in {None, 4, 12}, a \in {{}, {Ends}}}

Story(jobs, overlap, kills, edits, w) ==
  [jobs |-> jobs, overlap |-> overlap, kills |-> kills, edits |-> edits, world |-> w]

Lucky == WorldOf(AllOfTrend, 12, {})
Poor == WorldOf({}, 12, {})

SearchedAndValidated ==
  {Story(<<SeedOf({"trend"}), [Batch(2) EXCEPT !.budget = TRUE], Batch(2),
           Validation(2), Validation(2)>>, FALSE, 0, 0, w) : w \in Worlds}

Interrupted ==
  {Story(<<SeedOf({"trend"}), Batch(2), Batch(2), Validation(2), Validation(2)>>,
         FALSE, 1, 0, Lucky)}

Overlapping ==
  {Story(<<SeedOf({"trend"}), Batch(2), Validation(2), Validation(2)>>, TRUE, 0, 0, w) :
     w \in {Lucky, WorldOf(AllOfTrend, 4, {Ends})}}

\* The rulebook changes while a combined run, a fixed run and a factor run
\* are tested.
CombinedSeed == [SeedOf({"trend"}) EXCEPT !.rule = "combined"]
FixedSeed == [SeedOf({"hold"}) EXCEPT !.fixed = Hold, !.rule = "combined"]
FactorSeed == [SeedOf({"value"}) EXCEPT !.factor = TRUE, !.rule = "combined_null"]
Edited ==
  {Story(<<CombinedSeed, Batch(2), Validation(1)>>, FALSE, 0, 2, Lucky),
   Story(<<FixedSeed, Fixed, Fixed, Batch(1), Validation(1)>>, FALSE, 1, 1, Lucky),
   Story(<<FactorSeed, Batch(3), [Batch(1) EXCEPT !.families = {"trend"}], Tuning>>,
         FALSE, 0, 1, WorldOf({At1("value", 1)}, 12, {})),
   Story(<<[SeedOf({"value"}) EXCEPT !.rule = "combined"], Plain, SeedOf({"trend"}), Plain>>,
         FALSE, 0, 0, Lucky)}

DeadEnds ==
  {Story(<<SeedOf({"grid"}), Batch(1), Batch(1), Batch(1), Batch(2)>>, FALSE, 0, 0, w) :
     w \in {Poor, WorldOf({[family |-> "grid", params |-> <<1, 1>>]}, 12, {})}}

Stories == SearchedAndValidated \cup Interrupted \cup Overlapping \cup Edited \cup DeadEnds
Twice == {Story(<<SeedOf({"trend"}), Batch(2), Validation(2), Validation(2)>>,
                FALSE, 0, 0, Lucky)}
=============================================================================
