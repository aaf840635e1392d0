--------------------------- MODULE International ---------------------------
(***************************************************************************)
(* The sealed runs of the international final test: `run` of               *)
(* scripts/international.py over the ledger's international_events and     *)
(* config_pins tables (qrl/ledger.py), the frozen data snapshots and the   *)
(* reports.                                                                *)
(*                                                                         *)
(* A process is one run.  Each query, committed write or file operation is *)
(* a step; a process may be killed between any two and within a file       *)
(* write.  A configuration stands for its own sha256, and so do a rule and *)
(* a panel of prices.  Scoring is a function of rule, configuration and    *)
(* data, so a result is the three it was computed from and its label.      *)
(***************************************************************************)
EXTENDS Naturals, Sequences, FiniteSets

CONSTANTS
  Procs,      \* the processes that may run at a time
  Sets,       \* market sets
  Rules,      \* rules: a family with its parameters
  Tests,      \* test ids of the ledger
  RuleOf,     \* the rule of a test
  Passed,     \* the tests that passed the search criteria
  Configs,    \* contents of config/international.yaml
  Data,       \* panels of prices a download can give
  MaxRuns,    \* bound: runs started
  Overlap,    \* may a run start while another is active?
  Kills,      \* may a process be killed?
  None, Torn  \* nothing; a file only part of which was written

ASSUME InternationalAssumption ==
  /\ RuleOf \in [Tests -> Rules]
  /\ Passed \subseteq Tests
  /\ Configs # {}
  /\ \A c \in Configs :
       /\ c.sets \in Seq(Sets) \ {<<>>}
       /\ c.covered \subseteq Rules
       /\ c.designated \in {None} \cup [rule : c.covered, test : Tests]
  /\ MaxRuns \in Nat
  /\ Overlap \in BOOLEAN
  /\ Kills \in BOOLEAN
  /\ None \notin Configs /\ None \notin Data
  /\ Torn \notin Data \cup {None}

VARIABLES
  validated,   \* tests whose validation passed
  config,      \* what the file contains
  pin,         \* the pinned configuration
  events,      \* per set, its event
  snapshot,    \* per set, its frozen data file
  report,      \* per set, its report file
  runs,        \* runs started
  pc,          \* where a process is
  args,        \* the set and the subject it was started with
  cfg,         \* the configuration it loaded
  rule,        \* the rule of its subject
  seen,        \* its copy of the events
  panel        \* the frozen prices it holds

tables == <<pin, events>>
files  == <<config, snapshot, report>>
memory == <<args, cfg, rule, seen, panel>>
vars == <<validated, tables, files, runs, pc, memory>>

Designated == "designated"
Args == [set : Sets, subject : Tests \cup {Designated}]

Pcs == {"idle", "pinned", "subject", "events", "download", "freeze", "pin",
        "pin_insert", "record", "resume", "score", "report", "complete"}

Result == [rule : Rules, config : Configs, data : Data, designated : BOOLEAN]

Event == [rule : Rules, config : Configs, data : Data, designated : BOOLEAN,
          status : {"started", "completed"}, result : Result \cup {None}]

\* No row is not a row, and has no terms either.
ASSUME NoneAssumption ==
  None \notin Event \cup [rule : Rules, config : Configs, data : Data]

-----------------------------------------------------------------------------

To(p, next) == pc' = [pc EXCEPT ![p] = next]

\* A refusal, an exception that nothing catches, or the end of the script.
Stop(p) ==
  /\ To(p, "idle")
  /\ UNCHANGED <<validated, tables, files, runs, memory>>

\* The steps that only read move on, or stop.
Check(p, ok, next) ==
  IF ok THEN /\ To(p, next)
             /\ UNCHANGED <<validated, tables, files, runs, memory>>
        ELSE Stop(p)

IsDesignated(p) == args[p].subject = Designated

Before(c, s) ==
  {c.sets[i] : i \in {j \in DOMAIN c.sets : \E k \in DOMAIN c.sets : k > j /\ c.sets[k] = s}}

\* _order_refusal, and its repetition in record_international_event.
InTurn(c, s, es) == \A t \in Before(c, s) : es[t] # None

\* A confirmed run with a reason loads the file; the set must be one of its.
Start(p, a) ==
  /\ pc[p] = "idle"
  /\ Overlap \/ \A q \in Procs : pc[q] = "idle"
  /\ runs < MaxRuns
  /\ \E i \in DOMAIN config.sets : config.sets[i] = a.set
  /\ runs' = runs + 1
  /\ args' = [args EXCEPT ![p] = a]
  /\ cfg'  = [cfg EXCEPT ![p] = config]
  /\ To(p, "pinned")
  /\ UNCHANGED <<validated, tables, files, rule, seen, panel>>

\* The owner edits the file.
EditConfig ==
  /\ config' \in Configs
  /\ UNCHANGED <<validated, tables, snapshot, report, runs, pc, memory>>

\* scripts/validate.py records the verdict on a test.
Validate(t) ==
  /\ t \in Passed
  /\ validated' = validated \cup {t}
  /\ UNCHANGED <<tables, files, runs, pc, memory>>

\* A run that does not look at the pin.
PinIgnored(p) ==
  /\ pc[p] = "pinned"
  /\ Check(p, TRUE, "subject")

CheckPin(p) ==
  /\ pc[p] = "pinned"
  /\ Check(p, pin \in {None, cfg[p]}, "subject")

\* The rule of a process's subject.
SubjectRule(p) ==
  IF IsDesignated(p) THEN cfg[p].designated.rule ELSE RuleOf[args[p].subject]

\* A check that leaves out the test's validation and the attempt's failure.
SubjectUnvalidated(p) ==
  IF IsDesignated(p) THEN cfg[p].designated # None
                     ELSE SubjectRule(p) \in cfg[p].covered

\* _rule_refusal: a test that passed validation, with a rule the test covers.
\* _designated_refusal: the configuration's own rule, of a test that failed.
SubjectAllowed(p) ==
  IF IsDesignated(p)
    THEN LET core == cfg[p].designated
         IN  core # None /\ RuleOf[core.test] = core.rule /\ core.test \notin Passed
    ELSE args[p].subject \in validated /\ SubjectRule(p) \in cfg[p].covered

CheckSubject(p) ==
  /\ pc[p] = "subject"
  /\ IF SubjectAllowed(p)
       THEN /\ rule' = [rule EXCEPT ![p] = SubjectRule(p)]
            /\ To(p, "events")
            /\ UNCHANGED <<validated, tables, files, runs, args, cfg, seen, panel>>
       ELSE Stop(p)

\* Any started event of the set may be resumed.
MayResumeAny(p, e) == e.status = "started"

\* _resume: a completed set is spent; a crashed run is only recomputed with
\* the same rule and configuration.
MayResume(p, e) == e.status = "started" /\ e.rule = rule[p] /\ e.config = cfg[p]

\* The events are read once: a set without one is started, if it is its
\* turn, a set with one is resumed, if it may be.
ReadEvents(p) ==
  /\ pc[p] = "events"
  /\ LET e == events[args[p].set]
         ok == IF e = None THEN InTurn(cfg[p], args[p].set, events) ELSE MayResume(p, e)
     IN  IF ok THEN /\ seen' = [seen EXCEPT ![p] = e]
                    /\ To(p, IF e = None THEN "download" ELSE "resume")
                    /\ UNCHANGED <<validated, tables, files, runs, args, cfg, rule, panel>>
               ELSE Stop(p)

-----------------------------------------------------------------------------
(* _start: a set that is used for the first time.                          *)

\* load_raw, build_panel, data_end_before and freeze; any may refuse.
Download(p) ==
  /\ pc[p] = "download"
  /\ \/ /\ \E d \in Data : panel' = [panel EXCEPT ![p] = d]
        /\ To(p, "freeze")
        /\ UNCHANGED <<validated, tables, files, runs, args, cfg, rule, seen>>
     \/ Stop(p)

\* A frozen file that is there already is kept.
WriteSnapshotOnce(p) ==
  /\ pc[p] = "freeze"
  /\ snapshot' = IF snapshot[args[p].set] = None
                   THEN [snapshot EXCEPT ![args[p].set] = panel[p]] ELSE snapshot
  /\ To(p, "pin")
  /\ UNCHANGED <<validated, tables, config, report, runs, memory>>

WriteSnapshot(p) ==
  /\ pc[p] = "freeze"
  /\ snapshot' = [snapshot EXCEPT ![args[p].set] = panel[p]]
  /\ To(p, "pin")
  /\ UNCHANGED <<validated, tables, config, report, runs, memory>>

\* _pin_on_first_run: a pin that is there is left alone, and not compared.
ReadPin(p) ==
  /\ pc[p] = "pin"
  /\ To(p, IF pin = None THEN "pin_insert" ELSE "record")
  /\ UNCHANGED <<validated, tables, files, runs, memory>>

\* pin_config: the name is a primary key; a second pin is refused.
InsertPin(p) ==
  /\ pc[p] = "pin_insert"
  /\ IF pin = None
       THEN /\ pin' = cfg[p]
            /\ To(p, "record")
            /\ UNCHANGED <<validated, events, files, runs, memory>>
       ELSE Stop(p)

\* record_international_event: the set must be unused, and its turn.
Record(p) ==
  /\ pc[p] = "record"
  /\ IF events[args[p].set] = None /\ InTurn(cfg[p], args[p].set, events)
       THEN /\ events' = [events EXCEPT ![args[p].set] =
                 [rule |-> rule[p], config |-> cfg[p], data |-> panel[p],
                  designated |-> IsDesignated(p), status |-> "started", result |-> None]]
            /\ To(p, "score")
            /\ UNCHANGED <<validated, pin, files, runs, memory>>
       ELSE Stop(p)

-----------------------------------------------------------------------------
(* _resume: a set whose run crashed.                                       *)

\* The snapshot is there, readable, and has the recorded fingerprint.
Resume(p) ==
  /\ pc[p] = "resume"
  /\ IF snapshot[args[p].set] = seen[p].data
       THEN /\ panel' = [panel EXCEPT ![p] = seen[p].data]
            /\ To(p, "score")
            /\ UNCHANGED <<validated, tables, files, runs, args, cfg, rule, seen>>
       ELSE Stop(p)

-----------------------------------------------------------------------------
(* _score_and_record.                                                      *)

\* fill_proxy_gaps and evaluate_market: their errors are not caught.
Score(p) ==
  /\ pc[p] = "score"
  /\ To(p, "report") \/ To(p, "idle")
  /\ UNCHANGED <<validated, tables, files, runs, memory>>

Computed(p) == [rule |-> rule[p], config |-> cfg[p], data |-> panel[p],
                designated |-> IsDesignated(p)]

WriteReport(p) ==
  /\ pc[p] = "report"
  /\ report' = [report EXCEPT ![args[p].set] = Computed(p)]
  /\ To(p, "complete")
  /\ UNCHANGED <<validated, tables, config, snapshot, runs, memory>>

\* complete_international_event.
Complete(p) ==
  /\ pc[p] = "complete"
  /\ events' = [events EXCEPT ![args[p].set] =
                  [@ EXCEPT !.status = "completed", !.result = Computed(p)]]
  /\ To(p, "idle")
  /\ UNCHANGED <<validated, pin, files, runs, memory>>

-----------------------------------------------------------------------------

\* A process is killed, between two steps or while it writes a file.
Kill(p) ==
  /\ Kills
  /\ pc[p] # "idle"
  /\ To(p, "idle")
  /\ snapshot' \in {snapshot} \cup
       (IF pc[p] = "freeze" THEN {[snapshot EXCEPT ![args[p].set] = Torn]} ELSE {})
  /\ report' \in {report} \cup
       (IF pc[p] = "report" THEN {[report EXCEPT ![args[p].set] = Torn]} ELSE {})
  /\ UNCHANGED <<validated, tables, config, runs, memory>>

Init ==
  /\ validated = {}
  /\ config \in Configs
  /\ pin = None
  /\ events = [s \in Sets |-> None]
  /\ snapshot = events
  /\ report = events
  /\ runs = 0
  /\ pc = [p \in Procs |-> "idle"]
  /\ args \in [Procs -> {CHOOSE a \in Args : TRUE}]
  /\ cfg = [p \in Procs |-> config]
  /\ rule \in [Procs -> {CHOOSE r \in Rules : TRUE}]
  /\ seen = [p \in Procs |-> None]
  /\ panel = seen

\* What a running process does next.
Go(p) ==
  \/ CheckPin(p)
  \/ CheckSubject(p)
  \/ ReadEvents(p)
  \/ Download(p)
  \/ WriteSnapshot(p)
  \/ ReadPin(p)
  \/ InsertPin(p)
  \/ Record(p)
  \/ Resume(p)
  \/ Score(p)
  \/ WriteReport(p)
  \/ Complete(p)

Next ==
  \/ \E p \in Procs : (\E a \in Args : Start(p, a)) \/ Go(p) \/ Kill(p)
  \/ EditConfig
  \/ \E t \in Tests : Validate(t)

Spec == Init /\ [][Next]_vars
=============================================================================
