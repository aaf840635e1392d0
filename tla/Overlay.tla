------------------------------ MODULE Overlay ------------------------------
(***************************************************************************)
(* The macro overlay's three one-shot steps (scripts/overlay.py), the      *)
(* holdout gateway (qrl/holdout.py), which the overlay's holdout step and  *)
(* scripts/unseal_holdout.py go through, and the one look of               *)
(* scripts/core_reveal.py, over the ledger's overlay_events, holdout_events*)
(* and reveal_events tables (qrl/ledger.py).                               *)
(*                                                                         *)
(* A process is one run of one of the scripts.  Each query and each        *)
(* committed write of the ledger is a step; a process may be killed        *)
(* between any two.  A behaviour has one scenario, which never changes: a  *)
(* single process, or several that overlap, what is run, whether one may   *)
(* be killed, and whether the ledger may refuse a write.                   *)
(***************************************************************************)
EXTENDS Naturals, Sequences, FiniteSets

CONSTANTS
  Procs,      \* processes
  Configs,    \* hashes of config/overlay.yaml
  MaxRuns,    \* bound: runs started
  Scenarios   \* the scenarios to look at

OverlaySteps == {"research", "validate", "holdout"}
Unsealings == {"unseal", "unseal_force"}
Reveals == {"reveal", "reveal_force"}
Steps == OverlaySteps \cup Unsealings \cup Reveals

\* procs: the processes that may run at a time; steps: what they are asked to
\* do; configs: the contents the config may have; runs: a bound of its own;
\* kills: may a process be killed, or interrupted with Ctrl-C?
\* refuses: may a write of the ledger fail?
Scenario == [procs : SUBSET Procs, steps : SUBSET Steps, configs : SUBSET Configs \ {{}},
             runs : 0..MaxRuns, kills : BOOLEAN, refuses : BOOLEAN]

ASSUME OverlayAssumption ==
  /\ IsFiniteSet(Procs)
  /\ MaxRuns \in Nat
  /\ Scenarios \subseteq Scenario

VARIABLES
  scenario,         \* who runs, and what may happen to them
  overlay_events,   \* the table, by event_id
  holdout_events,   \* the table, by event_id: was the unsealing forced?
  looks,            \* how often unseal() has returned holdout data
  reveal_events,    \* the table, by event_id
  revealed,         \* how often the reveal's numbers were computed
  config,           \* the hash of config/overlay.yaml
  runs,             \* runs started
  pc,               \* where a process is
  step,             \* what it was asked to do
  sha,              \* the hash it loaded
  event,            \* the event_id it recorded
  prior             \* did the process see an earlier unsealing, or reveal?

reveals == <<reveal_events, revealed>>
tables == <<overlay_events, holdout_events, reveal_events>>
memory == <<step, sha, event, prior>>
world == <<scenario, config>>
vars == <<tables, looks, revealed, world, runs, pc, memory>>

-----------------------------------------------------------------------------
(* The ledger.                                                             *)

Of(kind) == {i \in DOMAIN overlay_events : overlay_events[i].kind = kind}
WithStatus(kind, status) == {i \in Of(kind) : overlay_events[i].status = status}

\* The done events of a step, the first one the code looks at.
First(ids) == CHOOSE i \in ids : \A j \in ids : i =< j

\* finish_overlay_event
SetEvent(p, status, passed) ==
  overlay_events' = [overlay_events EXCEPT ![event[p]] =
    [kind |-> @.kind, sha |-> @.sha, status |-> status, passed |-> passed]]

-----------------------------------------------------------------------------

To(p, next) == pc' = [pc EXCEPT ![p] = next]

Stop(p) ==
  /\ To(p, "idle")
  /\ UNCHANGED <<tables, looks, revealed, world, runs, memory>>

\* A script is started and reads config/overlay.yaml.
Start(p, s) ==
  /\ p \in scenario.procs
  /\ s \in scenario.steps
  /\ pc[p] = "idle"
  /\ runs < scenario.runs
  /\ runs' = runs + 1
  /\ step' = [step EXCEPT ![p] = s]
  /\ sha'  = [sha EXCEPT ![p] = config]
  /\ To(p, CASE s \in OverlaySteps -> "prior"
             [] s \in Unsealings   -> "unseal"
             [] s \in Reveals      -> "preflight")
  /\ UNCHANGED <<tables, looks, revealed, world, event, prior>>

\* The owner edits config/overlay.yaml.
EditConfig ==
  /\ config' \in scenario.configs
  /\ UNCHANGED <<scenario, tables, looks, revealed, runs, pc, memory>>

\* Only a running step blocks another run of it.
BlocksRunning(s) == WithStatus(s, "started")

\* The earlier events that refuse another run of a step: any event of the
\* holdout, and of the other steps every one but a crashed one.
Blocks(s) == IF s = "holdout" THEN Of(s) ELSE Of(s) \ WithStatus(s, "error")

\* _refusal: the step's own events.
CheckPrior(p) ==
  /\ pc[p] = "prior"
  /\ IF Blocks(step[p]) # {}
       THEN Stop(p)
       ELSE /\ To(p, IF step[p] = "research" THEN "load" ELSE "research")
            /\ UNCHANGED <<tables, looks, revealed, world, runs, memory>>

\* A check that takes any research result for a pass.
ResearchDoneOnly(p) == WithStatus("research", "done") # {}

\* Research is done, on this very config, and has passed.
ResearchAllows(p) ==
  LET done == WithStatus("research", "done")
  IN  /\ done # {}
      /\ overlay_events[First(done)].sha = sha[p]
      /\ overlay_events[First(done)].passed

\* _refusal: the research event and, for the holdout, its unsealings.
CheckResearch(p) ==
  /\ pc[p] = "research"
  /\ IF ResearchAllows(p) /\ (step[p] = "holdout" => holdout_events = <<>>)
       THEN /\ To(p, "load")
            /\ UNCHANGED <<tables, looks, revealed, world, runs, memory>>
       ELSE Stop(p)

\* _load and _coverage_problem: a failure spends nothing.
Load(p) ==
  /\ pc[p] = "load"
  /\ \/ To(p, "record") /\ UNCHANGED <<tables, looks, revealed, world, runs, memory>>
     \/ Stop(p)

\* record_overlay_event: the table admits one holdout row; a second one
\* raises, and nothing catches it.
Record(p) ==
  /\ pc[p] = "record"
  /\ IF step[p] = "holdout" /\ Of("holdout") # {}
       THEN Stop(p)
       ELSE /\ overlay_events' = Append(overlay_events,
                 [kind |-> step[p], sha |-> sha[p], status |-> "started", passed |-> FALSE])
            /\ event' = [event EXCEPT ![p] = Len(overlay_events')]
            /\ To(p, "compute")
            /\ UNCHANGED <<holdout_events, looks, reveals, world, runs, step, sha, prior>>

\* _compute: research and validation have their result; the holdout step
\* computes its returns and goes on to unseal their holdout part.
Compute(p) ==
  /\ pc[p] = "compute"
  /\ To(p, IF step[p] = "holdout" THEN "unseal" ELSE "finish")
  /\ UNCHANGED <<tables, looks, revealed, world, runs, memory>>

\* Inside the try of main(): _compute, to which the window that the holdout
\* step makes of its look belongs.  The write of the verdict does not.
InCompute(p) ==
  /\ step[p] \in OverlaySteps
  /\ \/ pc[p] \in {"compute", "unseal", "unseal_record", "slice"}
     \/ pc[p] = "finish" /\ step[p] = "holdout"

\* A ValueError or a RuntimeError of the computation, also after the look at
\* the holdout was recorded: a result, and a failed one.
ComputeRaises(p) ==
  /\ step[p] \in OverlaySteps
  /\ pc[p] \in {"compute", "slice"}
  /\ SetEvent(p, "done", FALSE)
  /\ To(p, "idle")
  /\ UNCHANGED <<holdout_events, looks, reveals, world, runs, memory>>

\* A crash that nothing catches.
ComputeCrashesUncaught(p) ==
  /\ InCompute(p)
  /\ Stop(p)

\* An exception that is no ValueError or RuntimeError: the event becomes an
\* error, without a verdict.
ComputeCrashes(p) ==
  /\ InCompute(p)
  /\ SetEvent(p, "error", FALSE)
  /\ To(p, "idle")
  /\ UNCHANGED <<holdout_events, looks, reveals, world, runs, memory>>

\* A step's result, passed or failed (a window that raises one of those two
\* fails).
FinishVerdict(p) ==
  /\ pc[p] = "finish"
  /\ \E passed \in BOOLEAN : SetEvent(p, "done", passed)
  /\ To(p, "idle")
  /\ UNCHANGED <<holdout_events, looks, reveals, world, runs, memory>>

-----------------------------------------------------------------------------
(* The gateway.                                                            *)

\* A refusal of unseal(): the script gives up; the overlay records a failed
\* holdout step, for the refusal is a RuntimeError.
Refused(p) ==
  /\ IF step[p] = "holdout" THEN SetEvent(p, "done", FALSE)
                            ELSE UNCHANGED overlay_events
  /\ To(p, "idle")
  /\ UNCHANGED <<holdout_events, looks, reveals, world, runs, memory>>

\* unseal() goes on if nothing was unsealed before, or if it is forced.
MayUnseal(p) == holdout_events = <<>> \/ step[p] = "unseal_force"

UnsealCheck(p) ==
  /\ pc[p] = "unseal"
  /\ IF MayUnseal(p)
       THEN /\ prior' = [prior EXCEPT ![p] = holdout_events # <<>>]
            /\ To(p, "unseal_record")
            /\ UNCHANGED <<tables, looks, revealed, world, runs, step, sha, event>>
       ELSE Refused(p)

\* A repeat that is recorded like a first unsealing.
UnsealUnforced(p) == FALSE

\* What the event says of the unsealing.
ForcedFlag(p) == prior[p]

\* record_holdout_event: forced if there was a prior one.
UnsealRecord(p) ==
  /\ pc[p] = "unseal_record"
  /\ holdout_events' = Append(holdout_events, ForcedFlag(p))
  /\ To(p, "slice")
  /\ UNCHANGED <<overlay_events, looks, reveals, world, runs, memory>>

\* slice_period hands out the data; the script goes on to print what it
\* finds, the overlay to its verdict.
Slice(p) ==
  /\ pc[p] = "slice"
  /\ looks' = looks + 1
  /\ To(p, IF step[p] = "holdout" THEN "finish" ELSE "idle")
  /\ UNCHANGED <<tables, revealed, world, runs, memory>>

-----------------------------------------------------------------------------
(* The reveal.                                                             *)

\* What can fail without showing a number: the configs, the prices, the windows
\* and the guard against looking ahead.  It spends nothing.
Preflight(p) ==
  /\ pc[p] = "preflight"
  /\ \/ To(p, "reveals") /\ UNCHANGED <<tables, looks, revealed, world, runs, memory>>
     \/ Stop(p)

\* An earlier look refuses this one, unless it is forced.
RevealCheck(p) ==
  /\ pc[p] = "reveals"
  /\ IF reveal_events = <<>> \/ step[p] = "reveal_force"
       THEN /\ prior' = [prior EXCEPT ![p] = reveal_events # <<>>]
            /\ To(p, "reveal_record")
            /\ UNCHANGED <<tables, looks, revealed, world, runs, step, sha, event>>
       ELSE Stop(p)

\* record_reveal_event, before anything is computed
RevealRecord(p) ==
  /\ pc[p] = "reveal_record"
  /\ reveal_events' = Append(reveal_events, [status |-> "started", forced |-> ForcedFlag(p)])
  /\ event' = [event EXCEPT ![p] = Len(reveal_events')]
  /\ To(p, "reveal")
  /\ UNCHANGED <<overlay_events, holdout_events, looks, revealed, world, runs, step, sha, prior>>

\* run_core_reveal: the numbers; an exception leaves the event as it is.
Reveal(p) ==
  /\ pc[p] = "reveal"
  /\ \/ /\ revealed' = revealed + 1
        /\ To(p, "reveal_finish")
        /\ UNCHANGED <<tables, looks, world, runs, memory>>
     \/ Stop(p)

\* The report is written; finish_reveal_event
RevealFinish(p) ==
  /\ pc[p] = "reveal_finish"
  /\ \/ /\ reveal_events' = [reveal_events EXCEPT ![event[p]] =
             [status |-> "done", forced |-> @.forced]]
        /\ To(p, "idle")
        /\ UNCHANGED <<overlay_events, holdout_events, looks, revealed, world, runs, memory>>
     \/ Stop(p)

-----------------------------------------------------------------------------

\* A write of the ledger raises: the database is locked, or the disk is full.
\* Nothing catches it where a verdict or an error is written, and what it was
\* to complete stays as it is.
LedgerRefuses(p) ==
  /\ scenario.refuses
  /\ pc[p] \in {"record", "compute", "unseal", "unseal_record", "slice", "finish",
                "reveal_record", "reveal_finish"}
  /\ Stop(p)

\* kill -9 or Ctrl-C, neither an Exception: no handler of the scripts sees it.
Kill(p) ==
  /\ scenario.kills
  /\ pc[p] # "idle"
  /\ Stop(p)

Init ==
  /\ overlay_events = <<>>
  /\ holdout_events = <<>>
  /\ looks = 0
  /\ reveal_events = <<>>
  /\ revealed = 0
  /\ scenario \in Scenarios
  /\ config \in scenario.configs
  /\ runs = 0
  /\ pc = [p \in Procs |-> "idle"]
  /\ step \in [Procs -> {"research"}]
  /\ sha = [p \in Procs |-> config]
  /\ event = [p \in Procs |-> 0]
  /\ prior = [p \in Procs |-> FALSE]

\* What a running process does next.
Go(p) ==
  \/ CheckPrior(p)
  \/ CheckResearch(p)
  \/ Load(p)
  \/ Record(p)
  \/ Compute(p)
  \/ ComputeRaises(p)
  \/ ComputeCrashes(p)
  \/ UnsealCheck(p)
  \/ UnsealRecord(p)
  \/ Slice(p)
  \/ FinishVerdict(p)
  \/ LedgerRefuses(p)
  \/ Preflight(p)
  \/ RevealCheck(p)
  \/ RevealRecord(p)
  \/ Reveal(p)
  \/ RevealFinish(p)

Next ==
  \/ \E p \in Procs : (\E s \in Steps : Start(p, s)) \/ Go(p) \/ Kill(p)
  \/ EditConfig

Spec == Init /\ [][Next]_vars

\* A process that is not killed keeps running to its end.
FairSpec == Spec /\ \A p \in Procs : WF_vars(Go(p))

-----------------------------------------------------------------------------
(* What the one-shot steps of the overlay and the holdout gateway keep.        *)

\* One run at a time.
Sequential == Cardinality(scenario.procs) = 1

\* One run after the other, a step has a result at most once, ever, however
\* often it crashed before: a finished event keeps every later run of the step
\* out (_refusal).  Whatever overlaps, the overlay has one holdout event, and
\* nobody sees the holdout, or the shortlisted cores in the validation windows,
\* before a look is recorded (its unique index, unseal, core_reveal.py).
OneResult ==
  /\ Sequential => \A k \in OverlaySteps : Cardinality(WithStatus(k, "done")) =< 1
  /\ Cardinality(Of("holdout")) =< 1
  /\ looks =< Len(holdout_events)
  /\ revealed =< Len(reveal_events)

\* Validation and holdout were only ever started after research had passed,
\* on the config it passed with, although the file can change at any time
\* and the check is made long before the event is written.
PreRegistered ==
  \A k \in {"validate", "holdout"} : \A i \in Of(k) :
    \E r \in WithStatus("research", "done") :
      overlay_events[r].passed /\ overlay_events[r].sha = overlay_events[i].sha

\* One run after the other, the holdout and the windows of the reveal keep their
\* promise: looks are recorded before they happen, and only the first can be
\* unforced.  (A scenario that overlaps is mapped to data nobody touches.)
recordBar == IF Sequential THEN holdout_events ELSE <<>>
looksBar == IF Sequential THEN looks ELSE 0
Sealed == INSTANCE SealedHoldout WITH record <- recordBar, looks <- looksBar
revealsBar ==
  IF Sequential THEN [i \in DOMAIN reveal_events |-> reveal_events[i].forced] ELSE <<>>
revealedBar == IF Sequential THEN revealed ELSE 0
Revealed == INSTANCE SealedHoldout WITH record <- revealsBar, looks <- revealedBar
KeepsSeal == Sealed!Spec /\ Revealed!Spec

\* A process leaves no event behind that is neither a result nor an error,
\* whatever its computation raises: such an event would refuse the step for
\* good.  It takes a kill, or a ledger that refuses the write of the verdict
\* (which main() makes outside of its try) or of the error (in its handlers).
IsStarted(i) ==
  i \in DOMAIN overlay_events /\ overlay_events[i].status = "started"
HasEnded(i) ==
  i \in DOMAIN overlay_events /\ overlay_events[i].status # "started"
EventsEnd ==
  \A i \in 1..MaxRuns :
    (~scenario.kills /\ ~scenario.refuses /\ IsStarted(i)) ~> HasEnded(i)
=============================================================================
