------------------------ MODULE InternationalProofs ------------------------
(***************************************************************************)
(* Theorems about International, for every set of market sets, tests,      *)
(* rules, configurations and prices and every number of runs.              *)
(***************************************************************************)
EXTENDS InternationalProperties, TLAPS

-----------------------------------------------------------------------------
(* What holds however runs overlap.                                        *)

TypeOK ==
  /\ validated \subseteq Tests
  /\ config \in Configs
  /\ pin \in Configs \cup {None}
  /\ events \in [Sets -> Event \cup {None}]
  /\ snapshot \in [Sets -> Data \cup {None, Torn}]
  /\ report \in [Sets -> Result \cup {None, Torn}]
  /\ runs \in Nat
  /\ pc \in [Procs -> Pcs]
  /\ args \in [Procs -> Args]
  /\ cfg \in [Procs -> Configs]
  /\ rule \in [Procs -> Rules \cup {CHOOSE r \in Rules : TRUE}]
  /\ seen \in [Procs -> Event \cup {None}]
  /\ panel \in [Procs -> Data \cup {None}]

\* The places of a run, by what it has behind it.
Starting == {"download", "freeze", "pin", "pin_insert", "record"}
Frozen   == {"pin", "pin_insert", "record"}
Scoring  == {"score", "report", "complete"}
Chosen   == {"events", "resume"} \cup Starting \cup Scoring
PinSeen  == {"subject"} \cup Chosen

\* A rule with its label: validated without one, failed with one.
Earned(r, designated) ==
  IF designated THEN \E t \in Tests \ Passed : RuleOf[t] = r
                ELSE \E t \in validated : RuleOf[t] = r

\* What a run knows by now, and nothing that others do takes away.
Knows(p) ==
  /\ pc[p] # "idle" => \E i \in DOMAIN cfg[p].sets : cfg[p].sets[i] = args[p].set
  /\ pc[p] \in Chosen => rule[p] \in Rules /\ Earned(rule[p], IsDesignated(p))
  /\ pc[p] \in {"freeze"} \cup Frozen \cup Scoring => panel[p] \in Data
  /\ pc[p] = "resume" => seen[p] # None
  /\ pc[p] \in {"resume"} \cup Scoring => events[args[p].set] # None

LabelInv ==
  /\ TypeOK
  /\ \A p \in Procs : Knows(p)
  /\ LabelsAreEarned

-----------------------------------------------------------------------------
(* What holds when runs follow each other.                                 *)

OneRun == \A p, q \in Procs : pc[p] # "idle" /\ pc[q] # "idle" => p = q

\* A run still sees what it has read.
StillSees(p) ==
  LET s == args[p].set
      e == events[s]
  IN  /\ pc[p] \in PinSeen => pin \in {None, cfg[p]}
      /\ pc[p] = "record" => pin = cfg[p]
      /\ pc[p] \in Starting => e = None /\ InTurn(cfg[p], s, events)
      /\ pc[p] \in Frozen => snapshot[s] = panel[p]
      /\ pc[p] = "resume" => e = seen[p] /\ MayResume(p, e)
      /\ pc[p] \in Scoring => MayResume(p, e) /\ e.data = panel[p]
      /\ pc[p] = "complete" => report[s] = Computed(p)

Inv ==
  /\ LabelInv
  /\ OneRun
  /\ \A p \in Procs : StillSees(p)
  /\ CanBeFinished
  /\ ScoredOnRecord

-----------------------------------------------------------------------------
(* Labels.                                                                 *)

\* Types of what a run works on.
LEMMA SetOfRun ==
  ASSUME TypeOK, NEW p \in Procs
  PROVE  /\ args[p] \in Args /\ args[p].set \in Sets
         /\ cfg[p] \in Configs /\ cfg[p].sets \in Seq(Sets)
  BY InternationalAssumption DEF TypeOK, Args

\* What a run knows survives whatever the others do.
LEMMA OthersKnow ==
  ASSUME TypeOK, NEW p \in Procs, NEW q \in Procs, q # p, Knows(q),
         \/ UNCHANGED <<args, cfg, rule, seen, panel>>
         \/ \E x, y, z, u, v : /\ args' = [args EXCEPT ![p] = x] /\ cfg' = [cfg EXCEPT ![p] = y]
                               /\ rule' = [rule EXCEPT ![p] = z] /\ seen' = [seen EXCEPT ![p] = u]
                               /\ panel' = [panel EXCEPT ![p] = v],
         \E next : pc' = [pc EXCEPT ![p] = next],
         validated \subseteq validated',
         \A s \in Sets : events[s] # None => events'[s] # None
  PROVE  Knows(q)'
<1>1. /\ pc'[q] = pc[q] /\ args'[q] = args[q] /\ cfg'[q] = cfg[q] /\ rule'[q] = rule[q]
      /\ seen'[q] = seen[q] /\ panel'[q] = panel[q]
  BY DEF TypeOK
<1>2. args[q].set \in Sets
  BY SetOfRun
<1>. QED
  BY <1>1, <1>2 DEF Knows, Earned, IsDesignated

\* A rule of an allowed subject has earned its label.
LEMMA AllowedIsEarned ==
  ASSUME TypeOK, NEW p \in Procs, SubjectAllowed(p)
  PROVE  SubjectRule(p) \in Rules /\ Earned(SubjectRule(p), IsDesignated(p))
<1>1. args[p].subject \in Tests \cup {Designated} /\ cfg[p] \in Configs
  BY DEF TypeOK, Args
<1>2. CASE IsDesignated(p)
  <2>. DEFINE core == cfg[p].designated
  <2>1. core # None /\ RuleOf[core.test] = core.rule /\ core.test \notin Passed
    BY <1>2 DEF SubjectAllowed
  <2>2. core \in [rule : cfg[p].covered, test : Tests] /\ cfg[p].covered \subseteq Rules
    BY <1>1, <2>1, InternationalAssumption
  <2>3. core.test \in Tests \ Passed /\ core.rule \in Rules
    BY <2>1, <2>2
  <2>. QED
    BY <1>2, <2>1, <2>3 DEF Earned, SubjectRule
<1>3. CASE ~IsDesignated(p)
  <2>1. args[p].subject \in Tests /\ args[p].subject \in validated
    BY <1>1, <1>3 DEF SubjectAllowed, IsDesignated
  <2>2. RuleOf[args[p].subject] \in Rules
    BY <2>1, InternationalAssumption
  <2>. QED
    BY <1>3, <2>1, <2>2 DEF Earned, SubjectRule
<1>. QED
  BY <1>2, <1>3

\* A run that only goes to another place, or stops.
LEMMA MovesLabel ==
  ASSUME LabelInv, NEW p \in Procs, NEW next \in Pcs,
         pc' = [pc EXCEPT ![p] = next],
         UNCHANGED <<validated, config, events, args, cfg, rule, seen, panel, runs>>,
         pin' \in Configs \cup {None},
         snapshot' \in [Sets -> Data \cup {None, Torn}],
         report' \in [Sets -> Result \cup {None, Torn}],
         \/ next = "idle"
         \/ pc[p] # "idle" /\ next = "subject"
         \/ pc[p] \in {"freeze"} \cup Frozen /\ next \in Frozen
         \/ pc[p] \in Scoring /\ next \in Scoring
  PROVE  LabelInv'
<1>1. TypeOK'
  BY DEF LabelInv, TypeOK
<1>2. Knows(p)'
  BY DEF LabelInv, TypeOK, Knows, Earned, IsDesignated, Chosen, Starting, Frozen, Scoring
<1>3. \A q \in Procs : q # p => Knows(q)'
  BY OthersKnow DEF LabelInv
<1>4. LabelsAreEarned'
  BY DEF LabelInv, LabelsAreEarned
<1>. QED
  BY <1>1, <1>2, <1>3, <1>4 DEF LabelInv

\* The places of a run, one by one.
LEMMA KeepsLabel ==
  ASSUME LabelInv, NEW p \in Procs, Go(p)
  PROVE  LabelInv'
<1>. USE DEF tables, files, memory, To
<1>1. CASE Stop(p)
  BY <1>1, MovesLabel DEF Stop, LabelInv, TypeOK, Pcs
<1>2. CASE CheckPin(p) /\ ~Stop(p)
  <2>1. pc[p] = "pinned" /\ pc' = [pc EXCEPT ![p] = "subject"]
        /\ UNCHANGED <<validated, tables, files, runs, memory>>
    BY <1>2 DEF CheckPin, Check
  <2>. QED
    BY <2>1, MovesLabel DEF LabelInv, TypeOK, Pcs
<1>3. CASE ReadPin(p)
  <2>. DEFINE next == IF pin = None THEN "pin_insert" ELSE "record"
  <2>1. pc[p] = "pin" /\ pc' = [pc EXCEPT ![p] = next]
        /\ UNCHANGED <<validated, tables, files, runs, memory>>
    BY <1>3 DEF ReadPin
  <2>2. next \in Pcs /\ next \in Frozen /\ pc[p] \in Frozen
    BY <2>1 DEF Pcs, Frozen
  <2>. HIDE DEF next
  <2>. QED
    BY <2>1, <2>2, MovesLabel DEF LabelInv, TypeOK
<1>4. CASE Score(p)
  <2>1. PICK next \in {"report", "idle"} : pc' = [pc EXCEPT ![p] = next]
    BY <1>4 DEF Score
  <2>2. pc[p] = "score" /\ UNCHANGED <<validated, tables, files, runs, memory>>
    BY <1>4 DEF Score
  <2>3. next \in Pcs /\ (next = "idle" \/ (pc[p] \in Scoring /\ next \in Scoring))
    BY <2>2 DEF Pcs, Scoring
  <2>. QED
    BY <2>1, <2>2, <2>3, MovesLabel DEF LabelInv, TypeOK
<1>5. CASE WriteSnapshot(p)
  <2>1. /\ pc[p] = "freeze" /\ pc' = [pc EXCEPT ![p] = "pin"]
        /\ snapshot' = [snapshot EXCEPT ![args[p].set] = panel[p]]
        /\ UNCHANGED <<validated, tables, config, report, runs, memory>>
    BY <1>5 DEF WriteSnapshot
  <2>2. snapshot' \in [Sets -> Data \cup {None, Torn}]
    BY <2>1 DEF LabelInv, TypeOK
  <2>3. "pin" \in Pcs /\ "pin" \in Frozen
    BY DEF Pcs, Frozen
  <2>. QED
    BY <2>1, <2>2, <2>3, MovesLabel DEF LabelInv, TypeOK
<1>6. CASE InsertPin(p) /\ ~Stop(p)
  <2>1. /\ pc[p] = "pin_insert" /\ pc' = [pc EXCEPT ![p] = "record"] /\ pin' = cfg[p]
        /\ UNCHANGED <<validated, events, files, runs, memory>>
    BY <1>6 DEF InsertPin
  <2>2. "record" \in Pcs /\ "record" \in Frozen /\ pc[p] \in Frozen /\ pin' \in Configs
    BY <2>1, SetOfRun DEF Pcs, Frozen, LabelInv
  <2>. QED
    BY <2>1, <2>2, MovesLabel DEF LabelInv, TypeOK
<1>7. CASE WriteReport(p)
  <2>1. /\ pc[p] = "report" /\ pc' = [pc EXCEPT ![p] = "complete"]
        /\ report' = [report EXCEPT ![args[p].set] = Computed(p)]
        /\ UNCHANGED <<validated, tables, config, snapshot, runs, memory>>
    BY <1>7 DEF WriteReport
  <2>2. Computed(p) \in Result
    BY <2>1 DEF LabelInv, TypeOK, Knows, Scoring, Chosen, Computed, Result, IsDesignated
  <2>3. report' \in [Sets -> Result \cup {None, Torn}]
    BY <2>1, <2>2 DEF LabelInv, TypeOK
  <2>4. "complete" \in Pcs /\ "complete" \in Scoring /\ pc[p] \in Scoring
    BY <2>1 DEF Pcs, Scoring
  <2>. QED
    BY <2>1, <2>3, <2>4, MovesLabel DEF LabelInv, TypeOK
<1>8. CASE CheckSubject(p) /\ ~Stop(p)
  <2>1. /\ pc[p] = "subject" /\ pc' = [pc EXCEPT ![p] = "events"] /\ SubjectAllowed(p)
        /\ rule' = [rule EXCEPT ![p] = SubjectRule(p)]
        /\ UNCHANGED <<validated, tables, files, runs, args, cfg, seen, panel>>
    BY <1>8 DEF CheckSubject
  <2>2. SubjectRule(p) \in Rules /\ Earned(SubjectRule(p), IsDesignated(p))
    BY <2>1, AllowedIsEarned DEF LabelInv
  <2>3. TypeOK'
    BY <2>1, <2>2 DEF LabelInv, TypeOK, Pcs
  <2>4. Knows(p)'
    BY <2>1, <2>2 DEF LabelInv, TypeOK, Knows, Earned, IsDesignated, Frozen, Scoring
  <2>5. \A q \in Procs : q # p => Knows(q)'
    BY <2>1 DEF LabelInv, TypeOK, Knows, Earned, IsDesignated
  <2>6. LabelsAreEarned'
    BY <2>1 DEF LabelInv, LabelsAreEarned
  <2>. QED
    BY <2>3, <2>4, <2>5, <2>6 DEF LabelInv
<1>9. CASE ReadEvents(p) /\ ~Stop(p)
  <2>. DEFINE e == events[args[p].set]
              next == IF e = None THEN "download" ELSE "resume"
  <2>1. /\ pc[p] = "events" /\ pc' = [pc EXCEPT ![p] = next]
        /\ seen' = [seen EXCEPT ![p] = e]
        /\ UNCHANGED <<validated, tables, files, runs, args, cfg, rule, panel>>
    BY <1>9 DEF ReadEvents
  <2>2. next \in {"download", "resume"} /\ (next = "resume" => e # None)
    OBVIOUS
  <2>3. e \in Event \cup {None} /\ (e # None => events[args[p].set] # None)
    BY SetOfRun DEF LabelInv, TypeOK
  <2>. HIDE DEF e, next
  <2>4. TypeOK'
    BY <2>1, <2>2, <2>3 DEF LabelInv, TypeOK, Pcs
  <2>5. Knows(p)'
    BY <2>1, <2>2, <2>3 DEF LabelInv, TypeOK, Knows, Earned, IsDesignated, Frozen, Scoring, Chosen, Starting
  <2>6. \A q \in Procs : q # p => Knows(q)'
    BY <2>1 DEF LabelInv, TypeOK, Knows, Earned, IsDesignated
  <2>7. LabelsAreEarned'
    BY <2>1 DEF LabelInv, LabelsAreEarned
  <2>. QED
    BY <2>4, <2>5, <2>6, <2>7 DEF LabelInv
<1>10. CASE Download(p) /\ ~Stop(p)
  <2>1. PICK d \in Data : panel' = [panel EXCEPT ![p] = d]
    BY <1>10 DEF Download
  <2>2. /\ pc[p] = "download" /\ pc' = [pc EXCEPT ![p] = "freeze"]
        /\ UNCHANGED <<validated, tables, files, runs, args, cfg, rule, seen>>
    BY <1>10 DEF Download
  <2>3. TypeOK'
    BY <2>1, <2>2 DEF LabelInv, TypeOK, Pcs
  <2>4. Knows(p)'
    BY <2>1, <2>2 DEF LabelInv, TypeOK, Knows, Earned, IsDesignated, Frozen, Scoring, Chosen, Starting
  <2>5. \A q \in Procs : q # p => Knows(q)'
    BY <2>1, <2>2 DEF LabelInv, TypeOK, Knows, Earned, IsDesignated
  <2>6. LabelsAreEarned'
    BY <2>2 DEF LabelInv, LabelsAreEarned
  <2>. QED
    BY <2>3, <2>4, <2>5, <2>6 DEF LabelInv
<1>11. CASE Resume(p) /\ ~Stop(p)
  <2>1. /\ pc[p] = "resume" /\ pc' = [pc EXCEPT ![p] = "score"]
        /\ snapshot[args[p].set] = seen[p].data
        /\ panel' = [panel EXCEPT ![p] = seen[p].data]
        /\ UNCHANGED <<validated, tables, files, runs, args, cfg, rule, seen>>
    BY <1>11 DEF Resume
  <2>2. seen[p].data \in Data
    BY <2>1 DEF LabelInv, TypeOK, Knows, Event
  <2>3. TypeOK'
    BY <2>1, <2>2 DEF LabelInv, TypeOK, Pcs
  <2>4. Knows(p)'
    BY <2>1, <2>2 DEF LabelInv, TypeOK, Knows, Earned, IsDesignated, Frozen, Scoring, Chosen, Starting
  <2>5. \A q \in Procs : q # p => Knows(q)'
    BY <2>1 DEF LabelInv, TypeOK, Knows, Earned, IsDesignated
  <2>6. LabelsAreEarned'
    BY <2>1 DEF LabelInv, LabelsAreEarned
  <2>. QED
    BY <2>3, <2>4, <2>5, <2>6 DEF LabelInv
<1>12. CASE Record(p) /\ ~Stop(p)
  <2>. DEFINE s == args[p].set
              e == [rule |-> rule[p], config |-> cfg[p], data |-> panel[p],
                    designated |-> IsDesignated(p), status |-> "started", result |-> None]
  <2>1. /\ pc[p] = "record" /\ pc' = [pc EXCEPT ![p] = "score"]
        /\ events' = [events EXCEPT ![s] = e]
        /\ UNCHANGED <<validated, pin, files, runs, memory>>
    BY <1>12 DEF Record
  <2>2. rule[p] \in Rules /\ panel[p] \in Data /\ IsDesignated(p) \in BOOLEAN
    BY <2>1 DEF LabelInv, Knows, Chosen, Starting, Frozen, IsDesignated
  <2>3. e \in Event /\ e.result = None
    BY <2>2, SetOfRun DEF LabelInv, Event
  <2>4. s \in Sets
    BY SetOfRun DEF LabelInv
  <2>5. e # None
    BY <2>3, NoneAssumption
  <2>. HIDE DEF e
  <2>6. TypeOK'
    BY <2>1, <2>3, <2>4 DEF LabelInv, TypeOK, Pcs
  <2>7. Knows(p)'
    BY <2>1, <2>4, <2>5 DEF LabelInv, TypeOK, Knows, Earned, IsDesignated, Frozen, Scoring, Chosen, Starting
  <2>8. \A q \in Procs : q # p => Knows(q)'
    <3>1. \A t \in Sets : events[t] # None => events'[t] # None
      BY <2>1, <2>5 DEF LabelInv, TypeOK
    <3>. QED
      BY <2>1, <3>1, SetOfRun DEF LabelInv, TypeOK, Knows, Earned, IsDesignated
  <2>9. LabelsAreEarned'
    BY <2>1, <2>3, <2>4 DEF LabelInv, TypeOK, LabelsAreEarned
  <2>. QED
    BY <2>6, <2>7, <2>8, <2>9 DEF LabelInv
<1>13. CASE Complete(p)
  <2>. DEFINE s == args[p].set
              e == [events[s] EXCEPT !.status = "completed", !.result = Computed(p)]
  <2>1. /\ pc[p] = "complete" /\ pc' = [pc EXCEPT ![p] = "idle"]
        /\ events' = [events EXCEPT ![s] = e]
        /\ UNCHANGED <<validated, pin, files, runs, memory>>
    BY <1>13 DEF Complete
  <2>2. Computed(p) \in Result
    BY <2>1 DEF LabelInv, TypeOK, Knows, Scoring, Chosen, Computed, Result, IsDesignated
  <2>3. s \in Sets /\ events[s] \in Event
    BY <2>1, SetOfRun DEF LabelInv, TypeOK, Knows, Scoring
  <2>4. e \in Event /\ e.result = Computed(p)
    BY <2>2, <2>3 DEF Event
  <2>5. Earned(Computed(p).rule, Computed(p).designated)
    BY <2>1 DEF LabelInv, Knows, Scoring, Chosen, Computed
  <2>6. e # None
    BY <2>4, NoneAssumption
  <2>. HIDE DEF e
  <2>7. TypeOK'
    BY <2>1, <2>3, <2>4 DEF LabelInv, TypeOK, Pcs
  <2>8. Knows(p)'
    BY <2>1 DEF LabelInv, TypeOK, Knows, Frozen, Scoring, Chosen, Starting
  <2>9. \A q \in Procs : q # p => Knows(q)'
    <3>1. \A t \in Sets : events[t] # None => events'[t] # None
      BY <2>1, <2>6 DEF LabelInv, TypeOK
    <3>. QED
      BY <2>1, <3>1, SetOfRun DEF LabelInv, TypeOK, Knows, Earned, IsDesignated
  <2>10. LabelsAreEarned'
    BY <2>1, <2>3, <2>4, <2>5 DEF LabelInv, TypeOK, LabelsAreEarned, Earned
  <2>. QED
    BY <2>7, <2>8, <2>9, <2>10 DEF LabelInv
<1>. QED
  BY <1>1, <1>2, <1>3, <1>4, <1>5, <1>6, <1>7, <1>8, <1>9, <1>10, <1>11, <1>12, <1>13 DEF Go

\* The start, the end and the owner.
LEMMA StartsLabel ==
  ASSUME LabelInv, NEW p \in Procs, NEW a \in Args, Start(p, a)
  PROVE  LabelInv'
<1>. USE DEF tables, files, To
<1>1. /\ pc[p] = "idle" /\ pc' = [pc EXCEPT ![p] = "pinned"]
      /\ \E i \in DOMAIN config.sets : config.sets[i] = a.set
      /\ args' = [args EXCEPT ![p] = a] /\ cfg' = [cfg EXCEPT ![p] = config]
      /\ runs' = runs + 1
      /\ UNCHANGED <<validated, tables, files, rule, seen, panel>>
  BY DEF Start
<1>2. TypeOK'
  BY <1>1 DEF LabelInv, TypeOK, Pcs
<1>3. Knows(p)'
  BY <1>1 DEF LabelInv, TypeOK, Knows, Chosen, Starting, Frozen, Scoring
<1>4. \A q \in Procs : q # p => Knows(q)'
  BY <1>1 DEF LabelInv, TypeOK, Knows, Earned, IsDesignated
<1>5. LabelsAreEarned'
  BY <1>1 DEF LabelInv, LabelsAreEarned
<1>. QED
  BY <1>2, <1>3, <1>4, <1>5 DEF LabelInv

\* A killed process leaves what it has committed.
LEMMA KillKeepsLabel ==
  ASSUME LabelInv, NEW p \in Procs, Kill(p)
  PROVE  LabelInv'
<1>. USE DEF tables, files, memory, To
<1>1. /\ pc' = [pc EXCEPT ![p] = "idle"]
      /\ snapshot' = snapshot \/ snapshot' = [snapshot EXCEPT ![args[p].set] = Torn]
      /\ report' = report \/ report' = [report EXCEPT ![args[p].set] = Torn]
      /\ UNCHANGED <<validated, tables, config, runs, memory>>
  BY DEF Kill
<1>2. /\ snapshot' \in [Sets -> Data \cup {None, Torn}]
      /\ report' \in [Sets -> Result \cup {None, Torn}]
  BY <1>1 DEF LabelInv, TypeOK
<1>3. "idle" \in Pcs
  BY DEF Pcs
<1>. QED
  BY <1>1, <1>2, <1>3, MovesLabel DEF LabelInv, TypeOK

\* Nothing has run.
LEMMA InitLabel == Init => LabelInv
<1>. SUFFICES ASSUME Init PROVE LabelInv
  OBVIOUS
<1>1. Args # {}
  <2>1. PICK s \in Sets : TRUE
    BY InternationalAssumption DEF Init
  <2>2. [set |-> s, subject |-> Designated] \in Args
    BY DEF Args
  <2>. QED
    BY <2>2
<1>2. (CHOOSE a \in Args : TRUE) \in Args
  BY <1>1
<1>3. TypeOK
  BY <1>2 DEF Init, TypeOK, Pcs
<1>4. \A p \in Procs : Knows(p)
  BY DEF Init, Knows, Chosen, Starting, Frozen, Scoring
<1>5. LabelsAreEarned
  BY DEF Init, LabelsAreEarned
<1>. QED
  BY <1>3, <1>4, <1>5 DEF LabelInv

\* Every step keeps the labels.
LEMMA NextLabel == LabelInv /\ [Next]_vars => LabelInv'
<1>. SUFFICES ASSUME LabelInv, [Next]_vars PROVE LabelInv'
  OBVIOUS
<1>1. CASE \E p \in Procs : (\E a \in Args : Start(p, a)) \/ Go(p) \/ Kill(p)
  BY <1>1, StartsLabel, KeepsLabel, KillKeepsLabel
<1>2. CASE EditConfig
  <2>. USE <1>2 DEF EditConfig, tables, memory
  <2>1. TypeOK'
    BY DEF LabelInv, TypeOK
  <2>2. (\A p \in Procs : Knows(p)') /\ LabelsAreEarned'
    BY DEF LabelInv, Knows, LabelsAreEarned, Earned, IsDesignated
  <2>. QED
    BY <2>1, <2>2 DEF LabelInv
<1>3. CASE \E t \in Tests : Validate(t)
  <2>1. PICK t \in Tests : Validate(t)
    BY <1>3
  <2>. USE <2>1 DEF Validate, tables, files, memory
  <2>2. TypeOK'
    BY DEF LabelInv, TypeOK
  <2>3. (\A p \in Procs : Knows(p)') /\ LabelsAreEarned'
    BY DEF LabelInv, Knows, LabelsAreEarned, Earned, IsDesignated
  <2>. QED
    BY <2>2, <2>3 DEF LabelInv
<1>4. CASE UNCHANGED vars
  <2>. USE <1>4 DEF vars, tables, files, memory
  <2>1. TypeOK'
    BY DEF LabelInv, TypeOK
  <2>2. (\A p \in Procs : Knows(p)') /\ LabelsAreEarned'
    BY DEF LabelInv, Knows, LabelsAreEarned, Earned, IsDesignated
  <2>. QED
    BY <2>1, <2>2 DEF LabelInv
<1>. QED
  BY <1>1, <1>2, <1>3, <1>4 DEF Next

\* The tables, the files and what a run holds keep their types, however runs
\* overlap.
THEOREM InternationalTypes == Spec => []TypeOK
<1>1. LabelInv => TypeOK
  BY DEF LabelInv
<1>. QED
  BY <1>1, InitLabel, NextLabel, PTL DEF Spec

\* Every result has earned its label, however runs overlap, are killed and are
\* resumed (_rule_refusal, _designated_refusal).
THEOREM LabelsAreEarnedHolds == Spec => []LabelsAreEarned
<1>1. LabelInv => LabelsAreEarned
  BY DEF LabelInv
<1>. QED
  BY <1>1, InitLabel, NextLabel, PTL DEF Spec

-----------------------------------------------------------------------------
(* Runs that follow each other.                                            *)

\* The others sit still.
LEMMA OthersIdle ==
  ASSUME Inv, NEW p \in Procs, pc[p] # "idle" \/ \A q \in Procs : pc[q] = "idle",
         NEW next, pc' = [pc EXCEPT ![p] = next]
  PROVE  OneRun' /\ \A q \in Procs : q # p => StillSees(q)'
<1>1. \A q \in Procs : q # p => pc'[q] = "idle"
  BY DEF Inv, LabelInv, TypeOK, OneRun
<1>2. OneRun'
  BY <1>1 DEF OneRun
<1>3. \A q \in Procs : q # p => StillSees(q)'
  BY <1>1 DEF StillSees, PinSeen, Chosen, Starting, Frozen, Scoring
<1>. QED
  BY <1>2, <1>3

\* A step that touches neither the tables nor the files keeps their promises.
LEMMA MovesKeep ==
  ASSUME Inv, LabelInv', NEW p \in Procs, NEW next,
         pc[p] # "idle" \/ \A q \in Procs : pc[q] = "idle",
         pc' = [pc EXCEPT ![p] = next],
         StillSees(p)',
         UNCHANGED <<pin, events, snapshot, report>>
  PROVE  Inv'
<1>1. OneRun' /\ \A q \in Procs : StillSees(q)'
  BY OthersIdle
<1>2. CanBeFinished' /\ ScoredOnRecord'
  BY DEF Inv, CanBeFinished, ScoredOnRecord
<1>. QED
  BY <1>1, <1>2 DEF Inv

\* The steps of a run.
LEMMA KeepsInv ==
  ASSUME Inv, NEW p \in Procs, Go(p), LabelInv', pc[p] # "idle"
  PROVE  Inv'
<1>. USE DEF tables, files, memory, To
<1>. DEFINE s == args[p].set
<1>0. s \in Sets
  BY SetOfRun DEF Inv, LabelInv
<1>1. CASE Stop(p)
  <2>1. StillSees(p)'
    BY <1>1 DEF Stop, Inv, LabelInv, TypeOK, StillSees, PinSeen, Chosen, Starting, Frozen, Scoring
  <2>. QED
    BY <1>1, <2>1, MovesKeep DEF Stop
<1>2. CASE CheckPin(p) /\ ~Stop(p)
  <2>1. /\ pc[p] = "pinned" /\ pc' = [pc EXCEPT ![p] = "subject"] /\ pin \in {None, cfg[p]}
        /\ UNCHANGED <<validated, tables, files, runs, memory>>
    BY <1>2 DEF CheckPin, Check
  <2>2. StillSees(p)'
    BY <2>1 DEF Inv, LabelInv, TypeOK, StillSees, PinSeen, Chosen, Starting, Frozen, Scoring
  <2>. QED
    BY <2>1, <2>2, MovesKeep
<1>3. CASE ReadPin(p)
  <2>. DEFINE next == IF pin = None THEN "pin_insert" ELSE "record"
  <2>1. pc[p] = "pin" /\ pc' = [pc EXCEPT ![p] = next]
        /\ UNCHANGED <<validated, tables, files, runs, memory>>
    BY <1>3 DEF ReadPin
  <2>2. next \in {"pin_insert", "record"} /\ (next = "record" => pin # None)
    OBVIOUS
  <2>. HIDE DEF next
  <2>3. StillSees(p)'
    BY <2>1, <2>2 DEF Inv, LabelInv, TypeOK, StillSees, PinSeen, Chosen, Starting, Frozen, Scoring, InTurn, Before
  <2>. QED
    BY <2>1, <2>3, MovesKeep
<1>4. CASE Score(p)
  <2>1. PICK next \in {"report", "idle"} : pc' = [pc EXCEPT ![p] = next]
    BY <1>4 DEF Score
  <2>2. pc[p] = "score" /\ UNCHANGED <<validated, tables, files, runs, memory>>
    BY <1>4 DEF Score
  <2>3. StillSees(p)'
    BY <2>1, <2>2 DEF Inv, LabelInv, TypeOK, StillSees, PinSeen, Chosen, Starting, Frozen, Scoring, MayResume
  <2>. QED
    BY <2>1, <2>2, <2>3, MovesKeep
<1>5. CASE WriteSnapshot(p)
  <2>1. /\ pc[p] = "freeze" /\ pc' = [pc EXCEPT ![p] = "pin"]
        /\ snapshot' = [snapshot EXCEPT ![s] = panel[p]]
        /\ UNCHANGED <<validated, tables, config, report, runs, memory>>
    BY <1>5 DEF WriteSnapshot
  <2>2. StillSees(p)'
    BY <1>0, <2>1 DEF Inv, LabelInv, TypeOK, StillSees, PinSeen, Chosen, Starting, Frozen, Scoring, InTurn, Before
  <2>3. events[s] = None
    BY <2>1 DEF Inv, StillSees, Starting
  <2>4. CanBeFinished' /\ ScoredOnRecord'
    BY <2>1, <2>3 DEF Inv, LabelInv, TypeOK, CanBeFinished, ScoredOnRecord
  <2>. QED
    BY <2>1, <2>2, <2>4, OthersIdle DEF Inv
<1>6. CASE InsertPin(p) /\ ~Stop(p)
  <2>1. /\ pc[p] = "pin_insert" /\ pc' = [pc EXCEPT ![p] = "record"] /\ pin' = cfg[p] /\ pin = None
        /\ UNCHANGED <<validated, events, files, runs, memory>>
    BY <1>6 DEF InsertPin
  <2>2. StillSees(p)'
    BY <2>1 DEF Inv, LabelInv, TypeOK, StillSees, PinSeen, Chosen, Starting, Frozen, Scoring, InTurn, Before
  <2>3. \A t \in Sets : events[t] = None
    <3>1. \A t \in Sets : events[t] # None => events[t].config \in Configs
      BY DEF Inv, LabelInv, TypeOK, Event
    <3>. QED
      BY <2>1, <3>1, InternationalAssumption DEF Inv, CanBeFinished
  <2>4. CanBeFinished' /\ ScoredOnRecord'
    BY <2>1, <2>3 DEF Inv, LabelInv, TypeOK, CanBeFinished, ScoredOnRecord
  <2>. QED
    BY <2>1, <2>2, <2>4, OthersIdle DEF Inv
<1>7. CASE WriteReport(p)
  <2>1. /\ pc[p] = "report" /\ pc' = [pc EXCEPT ![p] = "complete"]
        /\ report' = [report EXCEPT ![s] = Computed(p)]
        /\ UNCHANGED <<validated, tables, config, snapshot, runs, memory>>
    BY <1>7 DEF WriteReport
  <2>2. /\ events[s] # None /\ MayResume(p, events[s]) /\ events[s].data = panel[p]
    BY <2>1 DEF Inv, LabelInv, Knows, StillSees, Scoring
  <2>3. StillSees(p)'
    BY <1>0, <2>1, <2>2 DEF Inv, LabelInv, TypeOK, StillSees, PinSeen, Chosen, Starting, Frozen, Scoring, MayResume, Computed, IsDesignated
  <2>4. CanBeFinished'
    BY <2>1 DEF Inv, CanBeFinished
  <2>5. ScoredOnRecord'
    BY <1>0, <2>1, <2>2 DEF Inv, LabelInv, TypeOK, ScoredOnRecord, MayResume, Computed
  <2>. QED
    BY <2>1, <2>3, <2>4, <2>5, OthersIdle DEF Inv
<1>8. CASE CheckSubject(p) /\ ~Stop(p)
  <2>1. /\ pc[p] = "subject" /\ pc' = [pc EXCEPT ![p] = "events"]
        /\ UNCHANGED <<validated, tables, files, runs, args, cfg, seen, panel>>
    BY <1>8 DEF CheckSubject
  <2>2. StillSees(p)'
    BY <2>1 DEF Inv, LabelInv, TypeOK, StillSees, PinSeen, Chosen, Starting, Frozen, Scoring
  <2>. QED
    BY <2>1, <2>2, MovesKeep
<1>9. CASE ReadEvents(p) /\ ~Stop(p)
  <2>. DEFINE e == events[s]
              next == IF e = None THEN "download" ELSE "resume"
  <2>1. /\ pc[p] = "events" /\ pc' = [pc EXCEPT ![p] = next]
        /\ seen' = [seen EXCEPT ![p] = e]
        /\ IF e = None THEN InTurn(cfg[p], s, events) ELSE MayResume(p, e)
        /\ UNCHANGED <<validated, tables, files, runs, args, cfg, rule, panel>>
    BY <1>9 DEF ReadEvents
  <2>2. \/ next = "download" /\ e = None
        \/ next = "resume" /\ e # None
    OBVIOUS
  <2>. HIDE DEF next
  <2>3. StillSees(p)'
    BY <2>1, <2>2 DEF Inv, LabelInv, TypeOK, StillSees, PinSeen, Chosen, Starting, Frozen, Scoring, MayResume, InTurn, Before
  <2>. QED
    BY <2>1, <2>3, MovesKeep
<1>10. CASE Download(p) /\ ~Stop(p)
  <2>1. /\ pc[p] = "download" /\ pc' = [pc EXCEPT ![p] = "freeze"]
        /\ UNCHANGED <<validated, tables, files, runs, args, cfg, rule, seen>>
    BY <1>10 DEF Download
  <2>2. StillSees(p)'
    BY <2>1 DEF Inv, LabelInv, TypeOK, StillSees, PinSeen, Chosen, Starting, Frozen, Scoring, InTurn, Before
  <2>. QED
    BY <2>1, <2>2, MovesKeep
<1>11. CASE Resume(p) /\ ~Stop(p)
  <2>1. /\ pc[p] = "resume" /\ pc' = [pc EXCEPT ![p] = "score"]
        /\ panel' = [panel EXCEPT ![p] = seen[p].data]
        /\ UNCHANGED <<validated, tables, files, runs, args, cfg, rule, seen>>
    BY <1>11 DEF Resume
  <2>2. StillSees(p)'
    BY <2>1 DEF Inv, LabelInv, TypeOK, StillSees, PinSeen, Chosen, Starting, Frozen, Scoring, MayResume
  <2>. QED
    BY <2>1, <2>2, MovesKeep
<1>12. CASE Record(p) /\ ~Stop(p)
  <2>. DEFINE e == [rule |-> rule[p], config |-> cfg[p], data |-> panel[p],
                    designated |-> IsDesignated(p), status |-> "started", result |-> None]
  <2>1. /\ pc[p] = "record" /\ pc' = [pc EXCEPT ![p] = "score"]
        /\ events' = [events EXCEPT ![s] = e]
        /\ UNCHANGED <<validated, pin, files, runs, memory>>
    BY <1>12 DEF Record
  <2>2. e.rule = rule[p] /\ e.config = cfg[p] /\ e.data = panel[p] /\ e.status = "started"
    OBVIOUS
  <2>3. pin = cfg[p] /\ snapshot[s] = panel[p] /\ events[s] = None
    BY <2>1 DEF Inv, StillSees, Frozen, Starting
  <2>4. report[s] \in {None, Torn}
    BY <1>0, <2>3 DEF Inv, ScoredOnRecord
  <2>. HIDE DEF e
  <2>5. StillSees(p)'
    BY <1>0, <2>1, <2>2, <2>3 DEF Inv, LabelInv, TypeOK, StillSees, PinSeen, Chosen, Starting, Frozen, Scoring, MayResume
  <2>6. CanBeFinished'
    BY <1>0, <2>1, <2>2, <2>3 DEF Inv, LabelInv, TypeOK, CanBeFinished
  <2>7. ScoredOnRecord'
    BY <1>0, <2>1, <2>2, <2>4 DEF Inv, LabelInv, TypeOK, ScoredOnRecord
  <2>. QED
    BY <2>1, <2>5, <2>6, <2>7, OthersIdle DEF Inv
<1>13. CASE Complete(p)
  <2>. DEFINE e == [events[s] EXCEPT !.status = "completed", !.result = Computed(p)]
  <2>1. /\ pc[p] = "complete" /\ pc' = [pc EXCEPT ![p] = "idle"]
        /\ events' = [events EXCEPT ![s] = e]
        /\ UNCHANGED <<validated, pin, files, runs, memory>>
    BY <1>13 DEF Complete
  <2>2. events[s] \in Event /\ events[s] # None
    BY <1>0, <2>1 DEF Inv, LabelInv, TypeOK, Knows, Scoring
  <2>3. /\ e.rule = events[s].rule /\ e.config = events[s].config /\ e.data = events[s].data
        /\ e.result = Computed(p)
    BY <2>2 DEF Event
  <2>4. report[s] = Computed(p)
    BY <2>1 DEF Inv, StillSees
  <2>5. e # None
    <3>1. Computed(p) \in Result
      BY <2>1 DEF Inv, LabelInv, TypeOK, Knows, Scoring, Chosen, Computed, Result, IsDesignated
    <3>2. e \in Event
      BY <2>2, <3>1 DEF Event
    <3>. QED
      BY <3>2, NoneAssumption
  <2>. HIDE DEF e
  <2>6. StillSees(p)'
    BY <2>1 DEF Inv, LabelInv, TypeOK, StillSees, PinSeen, Chosen, Starting, Frozen, Scoring
  <2>7. CanBeFinished'
    BY <1>0, <2>1, <2>2, <2>3 DEF Inv, LabelInv, TypeOK, CanBeFinished
  <2>8. ScoredOnRecord'
    BY <1>0, <2>1, <2>2, <2>3, <2>4, <2>5 DEF Inv, LabelInv, TypeOK, ScoredOnRecord
  <2>. QED
    BY <2>1, <2>6, <2>7, <2>8, OthersIdle DEF Inv
<1>. QED
  BY <1>1, <1>2, <1>3, <1>4, <1>5, <1>6, <1>7, <1>8, <1>9, <1>10, <1>11, <1>12, <1>13 DEF Go

\* Every step keeps the promises, when runs follow each other.
LEMMA NextInv == ~Overlap /\ Inv /\ [Next]_vars => Inv'
<1>. SUFFICES ASSUME ~Overlap, Inv, [Next]_vars PROVE Inv'
  OBVIOUS
<1>1. LabelInv'
  BY NextLabel DEF Inv
<1>2. ASSUME NEW p \in Procs, NEW a \in Args, Start(p, a)
      PROVE  Inv'
  <2>1. /\ \A q \in Procs : pc[q] = "idle"
        /\ pc' = [pc EXCEPT ![p] = "pinned"]
        /\ UNCHANGED <<pin, events, snapshot, report>>
    BY <1>2 DEF Start, To, tables, files
  <2>2. StillSees(p)'
    BY <2>1 DEF Inv, LabelInv, TypeOK, StillSees, PinSeen, Chosen, Starting, Frozen, Scoring
  <2>. QED
    BY <1>1, <2>1, <2>2, MovesKeep
<1>3. ASSUME NEW p \in Procs, Go(p)
      PROVE  Inv'
  <2>1. pc[p] # "idle"
    BY <1>3 DEF Go, CheckPin, CheckSubject, ReadEvents, Download, WriteSnapshot, ReadPin, InsertPin,
                Record, Resume, Score, WriteReport, Complete
  <2>. QED
    BY <1>1, <1>3, <2>1, KeepsInv
<1>4. ASSUME NEW p \in Procs, Kill(p)
      PROVE  Inv'
  <2>. DEFINE s == args[p].set
  <2>1. /\ pc[p] # "idle" /\ pc' = [pc EXCEPT ![p] = "idle"]
        /\ snapshot' = snapshot \/ (pc[p] = "freeze" /\ snapshot' = [snapshot EXCEPT ![s] = Torn])
        /\ report' = report \/ (pc[p] = "report" /\ report' = [report EXCEPT ![s] = Torn])
        /\ UNCHANGED <<validated, tables, config, runs, memory>>
    BY <1>4 DEF Kill, To
  <2>2. StillSees(p)'
    BY <2>1 DEF Inv, LabelInv, TypeOK, StillSees, PinSeen, Chosen, Starting, Frozen, Scoring
  <2>3. s \in Sets
    BY SetOfRun DEF Inv, LabelInv
  <2>4. CanBeFinished'
    <3>1. pc[p] = "freeze" => events[s] = None
      BY DEF Inv, StillSees, Starting
    <3>. QED
      BY <2>1, <2>3, <3>1 DEF Inv, LabelInv, TypeOK, CanBeFinished, tables
  <2>5. ScoredOnRecord'
    <3>1. pc[p] = "report" => events[s].status = "started"
      BY DEF Inv, StillSees, Scoring, MayResume
    <3>. QED
      BY <2>1, <2>3, <3>1 DEF Inv, LabelInv, TypeOK, ScoredOnRecord, tables
  <2>. QED
    BY <1>1, <2>1, <2>2, <2>4, <2>5, OthersIdle DEF Inv
<1>5. CASE UNCHANGED <<pin, events, snapshot, report, pc, args, cfg, rule, seen, panel>>
  <2>1. (\A p \in Procs : StillSees(p)') /\ OneRun'
    BY <1>5 DEF Inv, OneRun, StillSees, PinSeen, Chosen, Starting, Frozen, Scoring, MayResume, InTurn,
                Before, Computed, IsDesignated
  <2>2. CanBeFinished' /\ ScoredOnRecord'
    BY <1>5 DEF Inv, CanBeFinished, ScoredOnRecord
  <2>. QED
    BY <1>1, <2>1, <2>2 DEF Inv
<1>6. CASE EditConfig \/ (\E t \in Tests : Validate(t)) \/ UNCHANGED vars
  BY <1>5, <1>6 DEF EditConfig, Validate, vars, tables, files, memory
<1>. QED
  BY <1>2, <1>3, <1>4, <1>6 DEF Next

\* Nothing has run.
LEMMA InitInv == Init => Inv
<1>. SUFFICES ASSUME Init PROVE Inv
  OBVIOUS
<1>1. LabelInv
  BY InitLabel
<1>2. OneRun /\ \A p \in Procs : StillSees(p)
  BY DEF Init, OneRun, StillSees, PinSeen, Chosen, Starting, Frozen, Scoring
<1>3. CanBeFinished /\ ScoredOnRecord
  BY DEF Init, CanBeFinished, ScoredOnRecord
<1>. QED
  BY <1>1, <1>2, <1>3 DEF Inv

\* One run after the other, a set that was used can always be recomputed: its
\* snapshot is the recorded one and its configuration the pinned one, wherever
\* a run was killed (_start's order of snapshot, pin and event).
THEOREM CanBeFinishedHolds ==
  ASSUME ~Overlap
  PROVE  Spec => []CanBeFinished
<1>1. Inv => CanBeFinished
  BY DEF Inv
<1>2. Inv /\ [Next]_vars => Inv'
  BY NextInv
<1>. QED
  BY <1>1, <1>2, InitInv, PTL DEF Spec

\* One run after the other, a report says what the ledger had recorded before,
\* and a completed set has its whole report (_score_and_record's order).
THEOREM ScoredOnRecordHolds ==
  ASSUME ~Overlap
  PROVE  Spec => []ScoredOnRecord
<1>1. Inv => ScoredOnRecord
  BY DEF Inv
<1>2. Inv /\ [Next]_vars => Inv'
  BY NextInv
<1>. QED
  BY <1>1, <1>2, InitInv, PTL DEF Spec

-----------------------------------------------------------------------------
(* The refinement of OneShotSets.                                          *)

\* A row has terms.
LEMMA TermsOfRow ==
  ASSUME NEW e \in Event
  PROVE  Terms(e) \in [rule : Rules, config : Configs, data : Data] /\ Terms(e) # None
<1>1. Terms(e) \in [rule : Rules, config : Configs, data : Data]
  BY DEF Event, Terms
<1>. QED
  BY <1>1, NoneAssumption

\* The order of the sets: all before the first place of s are before s.
LEMMA InTurnUses ==
  ASSUME TypeOK, NEW p \in Procs, Knows(p), pc[p] # "idle", InTurn(cfg[p], args[p].set, events)
  PROVE  \E i \in DOMAIN cfg[p].sets :
           /\ cfg[p].sets[i] = args[p].set
           /\ \A j \in 1..(i - 1) : events[cfg[p].sets[j]] # None /\ cfg[p].sets[j] \in Sets
<1>1. PICK i \in DOMAIN cfg[p].sets : cfg[p].sets[i] = args[p].set
  BY DEF Knows
<1>2. cfg[p].sets \in Seq(Sets)
  BY SetOfRun
<1>3. \A j \in 1..(i - 1) : j \in DOMAIN cfg[p].sets /\ i > j /\ cfg[p].sets[j] \in Sets
  BY <1>1, <1>2
<1>4. \A j \in 1..(i - 1) : cfg[p].sets[j] \in Before(cfg[p], args[p].set)
  BY <1>1, <1>3 DEF Before
<1>. QED
  BY <1>1, <1>3, <1>4 DEF InTurn

\* A step of a run fixes the plan, uses a set, decides one, or shows nothing.
LEMMA StepImplements ==
  ASSUME ~Overlap, Inv, [Next]_vars
  PROVE  [OneShot!Next]_(OneShot!vars)
<1>. USE DEF OneShot!vars, memory, files, tables
<1>1. CASE UNCHANGED <<pin, events>>
  BY <1>1 DEF termsBar, verdictBar
<1>2. ASSUME NEW p \in Procs, InsertPin(p), ~Stop(p)
      PROVE  OneShot!Fix
  <2>1. pin = None /\ pin' = cfg[p] /\ events' = events
    BY <1>2 DEF InsertPin
  <2>2. cfg[p] # None
    BY SetOfRun, InternationalAssumption DEF Inv, LabelInv
  <2>. QED
    BY <2>1, <2>2 DEF OneShot!Fix, termsBar, verdictBar
<1>3. ASSUME NEW p \in Procs, Record(p), ~Stop(p)
      PROVE  OneShot!Next
  <2>. DEFINE s == args[p].set
              e == [rule |-> rule[p], config |-> cfg[p], data |-> panel[p],
                    designated |-> IsDesignated(p), status |-> "started", result |-> None]
  <2>1. /\ pc[p] = "record" /\ events' = [events EXCEPT ![s] = e] /\ pin' = pin
        /\ InTurn(cfg[p], s, events)
    BY <1>3 DEF Record
  <2>2. e.config = cfg[p] /\ e.status = "started" /\ e.rule = rule[p] /\ e.data = panel[p]
    OBVIOUS
  <2>3. /\ rule[p] \in Rules /\ panel[p] \in Data /\ cfg[p] \in Configs /\ IsDesignated(p) \in BOOLEAN
    BY <2>1, SetOfRun DEF Inv, LabelInv, Knows, Chosen, Starting, Frozen, IsDesignated
  <2>4. e \in Event
    BY <2>3 DEF Event
  <2>5. s \in Sets /\ events[s] = None /\ pin = cfg[p] /\ pin # None
    BY <2>1, <2>3, SetOfRun, InternationalAssumption DEF Inv, LabelInv, StillSees, Starting
  <2>. HIDE DEF e
  <2>6. Terms(e) # None /\ Terms(e).config = pin
    BY <2>2, <2>4, <2>5, TermsOfRow DEF Terms
  <2>7. termsBar' = [termsBar EXCEPT ![s] = Terms(e)]
    <3>1. \A t \in Sets : events'[t] = IF t = s THEN e ELSE events[t]
      BY <2>1, <2>5 DEF Inv, LabelInv, TypeOK
    <3>2. e # None
      BY <2>4, NoneAssumption
    <3>. QED
      BY <2>5, <3>1, <3>2 DEF termsBar
  <2>8. verdictBar' = verdictBar
    <3>1. \A t \in Sets : t # s => events'[t] = events[t]
      BY <2>1, <2>5 DEF Inv, LabelInv, TypeOK
    <3>2. events'[s] = e
      BY <2>1, <2>5 DEF Inv, LabelInv, TypeOK
    <3>. QED
      BY <2>2, <2>5, <3>1, <3>2 DEF verdictBar
  <2>9. \A t \in Sets : termsBar[t] # None <=> events[t] # None
    BY TermsOfRow DEF Inv, LabelInv, TypeOK, termsBar
  <2>10. \E i \in DOMAIN pin.sets :
           pin.sets[i] = s /\ \A j \in 1..(i - 1) : termsBar[pin.sets[j]] # None
    BY <2>1, <2>5, <2>9, InTurnUses DEF Inv, LabelInv
  <2>11. termsBar'[s] = Terms(e) /\ s \in DOMAIN termsBar /\ termsBar[s] = None
    BY <2>5, <2>7, <2>9 DEF termsBar
  <2>12. OneShot!Use(s)
    BY <2>1, <2>5, <2>6, <2>7, <2>8, <2>10, <2>11 DEF OneShot!Use
  <2>. QED
    BY <2>11, <2>12 DEF OneShot!Next
<1>4. ASSUME NEW p \in Procs, Complete(p)
      PROVE  OneShot!Next
  <2>. DEFINE s == args[p].set
              e == [events[s] EXCEPT !.status = "completed", !.result = Computed(p)]
  <2>1. pc[p] = "complete" /\ events' = [events EXCEPT ![s] = e] /\ pin' = pin
    BY <1>4 DEF Complete
  <2>2. s \in Sets /\ events[s] \in Event /\ events[s] # None
    BY <2>1, SetOfRun DEF Inv, LabelInv, TypeOK, Knows, Scoring
  <2>3. MayResume(p, events[s]) /\ events[s].data = panel[p]
    BY <2>1 DEF Inv, StillSees, Scoring
  <2>4. /\ e.rule = events[s].rule /\ e.config = events[s].config /\ e.data = events[s].data
        /\ e.status = "completed" /\ e.result = Computed(p)
    BY <2>2 DEF Event
  <2>5. e # None
    <3>1. Computed(p) \in Result
      BY <2>1 DEF Inv, LabelInv, TypeOK, Knows, Scoring, Chosen, Computed, Result, IsDesignated
    <3>2. e \in Event
      BY <2>2, <3>1 DEF Event
    <3>. QED
      BY <3>2, NoneAssumption
  <2>. HIDE DEF e
  <2>6. Terms(e) = Terms(events[s]) /\ Terms(e.result) = Terms(events[s])
    BY <2>3, <2>4 DEF Terms, Computed, MayResume
  <2>7. \A t \in Sets : events'[t] = IF t = s THEN e ELSE events[t]
    BY <2>1, <2>2 DEF Inv, LabelInv, TypeOK
  <2>8. termsBar' = termsBar
    BY <2>2, <2>5, <2>6, <2>7 DEF termsBar
  <2>9. termsBar[s] = Terms(events[s]) /\ termsBar[s] # None /\ s \in DOMAIN termsBar
    BY <2>2, TermsOfRow DEF termsBar
  <2>10. verdictBar[s] = None
    BY <2>2, <2>3 DEF verdictBar, MayResume
  <2>11. verdictBar' = [verdictBar EXCEPT ![s] = termsBar[s]]
    BY <2>2, <2>4, <2>5, <2>6, <2>7, <2>9 DEF verdictBar
  <2>12. OneShot!Decide(s)
    BY <2>1, <2>8, <2>9, <2>10, <2>11 DEF OneShot!Decide
  <2>. QED
    BY <2>9, <2>12 DEF OneShot!Next
<1>5. ASSUME NEW p \in Procs, Go(p), ~(InsertPin(p) /\ ~Stop(p)), ~(Record(p) /\ ~Stop(p)), ~Complete(p)
      PROVE  UNCHANGED <<pin, events>>
  BY <1>5 DEF Go, Stop, Check, CheckPin, CheckSubject, ReadEvents, Download, WriteSnapshot, ReadPin,
              Resume, Score, WriteReport
<1>6. CASE \E p \in Procs : Go(p)
  BY <1>1, <1>2, <1>3, <1>4, <1>5, <1>6 DEF OneShot!Next
<1>7. CASE ~ \E p \in Procs : Go(p)
  <2>1. UNCHANGED <<pin, events>>
    BY <1>7 DEF Next, Start, Kill, EditConfig, Validate, vars
  <2>. QED
    BY <1>1, <2>1
<1>. QED
  BY <1>6, <1>7

\* One run after the other, the sets are used in the order of the pinned
\* configuration, once each, and each gets the verdict of its own terms: the
\* runs implement OneShotSets (_order_refusal, pin_config and
\* record_international_event).
THEOREM KeepsOrderHolds ==
  ASSUME ~Overlap
  PROVE  Spec => KeepsOrder
<1>1. Init => OneShot!Init
  BY DEF Init, OneShot!Init, termsBar, verdictBar
<1>2. Inv /\ [Next]_vars => [OneShot!Next]_(OneShot!vars)
  BY StepImplements
<1>3. Inv /\ [Next]_vars => Inv'
  BY NextInv
<1>. QED
  BY <1>1, <1>2, <1>3, InitInv, PTL DEF Spec, KeepsOrder, OneShot!Spec
=============================================================================
