---------------------------- MODULE OverlayProofs ----------------------------
(***************************************************************************)
(* Theorems about Overlay, for every finite set of processes, every set of *)
(* configs and of scenarios and every number of runs.                      *)
(***************************************************************************)
EXTENDS Overlay, FiniteSetTheorems, WellFoundedInduction, TLAPS

-----------------------------------------------------------------------------
(* Types, and where each command can be.                                   *)

OverlayPlaces == {"prior", "research", "load", "record", "compute", "finish"}
GatewayPlaces == {"unseal", "unseal_record", "slice"}
RevealPlaces  == {"preflight", "reveals", "reveal_record", "reveal", "reveal_finish"}

OverlayEvent ==
  [kind : OverlaySteps, sha : Configs, status : {"started", "done", "error"}, passed : BOOLEAN]

RevealEvent == [status : {"started", "done"}, forced : BOOLEAN]

TypeOK ==
  /\ scenario \in Scenarios
  /\ config \in Configs
  /\ overlay_events \in Seq(OverlayEvent)
  /\ holdout_events \in Seq(BOOLEAN)
  /\ reveal_events \in Seq(RevealEvent)
  /\ looks \in Nat /\ revealed \in Nat /\ runs \in Nat
  /\ pc \in [Procs -> {"idle"} \cup OverlayPlaces \cup GatewayPlaces \cup RevealPlaces]
  /\ step \in [Procs -> Steps]
  /\ sha \in [Procs -> Configs]
  /\ event \in [Procs -> Nat]
  /\ prior \in [Procs -> BOOLEAN]

\* A process is where its command can bring it, and has recorded the event
\* that it is going to complete.
AtItsPlace ==
  \A p \in Procs :
    /\ pc[p] \in OverlayPlaces => step[p] \in OverlaySteps
    /\ pc[p] \in GatewayPlaces => step[p] \in {"holdout"} \cup Unsealings
    /\ pc[p] \in RevealPlaces => step[p] \in Reveals

\* A step of the overlay after its event and before its verdict.
Busy(p) ==
  /\ step[p] \in OverlaySteps
  /\ pc[p] \in {"compute", "unseal", "unseal_record", "slice", "finish"}

-----------------------------------------------------------------------------
(* The invariants.                                                         *)

\* A busy step is going to complete an event of its own kind, its own alone.
OwnEvents ==
  /\ \A p \in Procs : Busy(p) =>
       /\ event[p] \in DOMAIN overlay_events
       /\ overlay_events[event[p]].kind = step[p]
       /\ overlay_events[event[p]].status = "started"
  /\ \A p, q \in Procs : Busy(p) /\ Busy(q) /\ event[p] = event[q] => p = q

\* The configs on which research has passed.
PassedOn ==
  {overlay_events[r].sha : r \in {i \in WithStatus("research", "done") : overlay_events[i].passed}}

\* Past its check, a validation or a holdout step keeps the config it checked.
\* This is what the check is worth: no later step takes the pass away.
Checked ==
  \A p \in Procs :
    pc[p] \in {"load", "record"} /\ step[p] \in {"validate", "holdout"} => sha[p] \in PassedOn

Registered ==
  \A k \in {"validate", "holdout"} : \A i \in Of(k) : overlay_events[i].sha \in PassedOn

OneHoldout == \A i, j \in Of("holdout") : i = j

\* Only the processes of the scenario run.
InScenario == \A p \in Procs : pc[p] # "idle" => p \in scenario.procs

\* One run after the other: a step that was let through has no result yet, and
\* none has two.
NoResultYet ==
  Sequential => \A p \in Procs :
    pc[p] \in {"research", "load", "record"} \/ Busy(p) => WithStatus(step[p], "done") = {}
OneDone ==
  Sequential => \A k \in OverlaySteps : \A i, j \in WithStatus(k, "done") : i = j

\* Whoever is about to look has recorded it.
At(place) == {p \in Procs : pc[p] = place}
Recorded ==
  /\ looks + Cardinality(At("slice")) =< Len(holdout_events)
  /\ revealed + Cardinality(At("reveal")) =< Len(reveal_events)

\* One run after the other: what a process saw of the earlier looks is still so
\* when it records its own.
SawEarlier ==
  Sequential => \A p \in Procs :
    /\ pc[p] = "unseal_record" => (prior[p] <=> holdout_events # <<>>)
    /\ pc[p] = "reveal_record" => (prior[p] <=> reveal_events # <<>>)

Inv ==
  /\ TypeOK
  /\ AtItsPlace
  /\ OwnEvents
  /\ Checked
  /\ Registered
  /\ OneHoldout
  /\ InScenario
  /\ NoResultYet
  /\ OneDone
  /\ Recorded
  /\ SawEarlier

-----------------------------------------------------------------------------
(* Steps that only move a process.                                         *)

\* Nothing but the place of p changes.
Moves(p, next) ==
  /\ pc' = [pc EXCEPT ![p] = next]
  /\ UNCHANGED <<tables, looks, revealed, world, runs, memory>>

\* A place that p may go to without touching a table.
Allowed(p, next) ==
  \/ next = "idle"
  \/ /\ step[p] \in OverlaySteps
     /\ next \in {"research", "load", "record"}
     /\ step[p] \in {"validate", "holdout"} /\ next # "research" => sha[p] \in PassedOn
     /\ Sequential => WithStatus(step[p], "done") = {}
     /\ p \in scenario.procs
  \/ /\ Busy(p)
     /\ p \in scenario.procs
     /\ next = IF step[p] = "holdout" THEN "unseal" ELSE "finish"
  \/ step[p] \in Reveals /\ p \in scenario.procs /\ next = "reveals"

\* The processes at a place, when one of them goes elsewhere.
LEMMA LeavesPlace ==
  ASSUME TypeOK, NEW p \in Procs, NEW next, NEW place,
         pc' = [pc EXCEPT ![p] = next], next # place
  PROVE  /\ At(place)' = At(place) \ {p}
         /\ IsFiniteSet(At(place))
         /\ Cardinality(At(place)') \in Nat
         /\ Cardinality(At(place)) \in Nat
         /\ Cardinality(At(place)') =< Cardinality(At(place))
         /\ pc[p] = place => Cardinality(At(place)') = Cardinality(At(place)) - 1
<1>1. At(place)' = At(place) \ {p}
  BY DEF At, TypeOK
<1>2. IsFiniteSet(At(place))
  BY OverlayAssumption, FS_Subset DEF At
<1>3. /\ IsFiniteSet(At(place) \ {p})
      /\ Cardinality(At(place) \ {p}) =
           IF p \in At(place) THEN Cardinality(At(place)) - 1 ELSE Cardinality(At(place))
  BY <1>2, FS_RemoveElement
<1>4. Cardinality(At(place)) \in Nat /\ Cardinality(At(place) \ {p}) \in Nat
  BY <1>2, <1>3, FS_CardinalityType
<1>5. pc[p] = place => p \in At(place)
  BY DEF At
<1>. QED
  BY <1>1, <1>2, <1>3, <1>4, <1>5

\* The processes at a place, when another one comes.
LEMMA ComesToPlace ==
  ASSUME TypeOK, NEW p \in Procs, NEW place,
         pc' = [pc EXCEPT ![p] = place], pc[p] # place
  PROVE  /\ Cardinality(At(place)') \in Nat
         /\ Cardinality(At(place)) \in Nat
         /\ Cardinality(At(place)') = Cardinality(At(place)) + 1
<1>1. At(place)' = At(place) \cup {p} /\ p \notin At(place)
  BY DEF At, TypeOK
<1>2. IsFiniteSet(At(place))
  BY OverlayAssumption, FS_Subset DEF At
<1>3. Cardinality(At(place) \cup {p}) = Cardinality(At(place)) + 1
  BY <1>1, <1>2, FS_AddElement
<1>. QED
  BY <1>1, <1>2, <1>3, FS_CardinalityType

\* A quiet step keeps everything.
LEMMA MovesKeeps ==
  ASSUME Inv, NEW p \in Procs, NEW next, Moves(p, next), Allowed(p, next)
  PROVE  Inv'
<1>. USE DEF tables, world, memory, Moves
<1>1. next \in {"idle", "research", "load", "record", "finish", "unseal", "reveals"}
  BY DEF Allowed
<1>2. TypeOK'
  BY <1>1 DEF Inv, TypeOK, OverlayPlaces, GatewayPlaces, RevealPlaces
<1>3. AtItsPlace'
  BY <1>1 DEF Inv, TypeOK, AtItsPlace, Allowed, Busy, OverlayPlaces, GatewayPlaces, RevealPlaces,
              OverlaySteps, Unsealings, Reveals
<1>4. \A q \in Procs : Busy(q)' => Busy(q)
  BY <1>1 DEF Inv, TypeOK, Allowed, Busy, Reveals, OverlaySteps
<1>5. OwnEvents'
  BY <1>4 DEF Inv, OwnEvents
<1>6. PassedOn' = PassedOn
  BY DEF PassedOn, WithStatus, Of
<1>7. Checked'
  BY <1>1, <1>6 DEF Inv, TypeOK, Checked, Allowed
<1>8. Registered' /\ OneHoldout'
  BY <1>6 DEF Inv, Registered, OneHoldout, Of
<1>9. InScenario'
  BY DEF Inv, TypeOK, InScenario, Allowed
<1>10. OneDone'
  BY DEF Inv, OneDone, WithStatus, Of, Sequential
<1>11. NoResultYet'
  BY <1>1, <1>4 DEF Inv, TypeOK, NoResultYet, WithStatus, Of, Sequential, Allowed
<1>12. Recorded'
  <2>1. next # "slice" /\ next # "reveal"
    BY <1>1
  <2>2. Cardinality(At("slice")') =< Cardinality(At("slice")) /\ Cardinality(At("slice")) \in Nat
        /\ Cardinality(At("slice")') \in Nat
    BY <2>1, LeavesPlace DEF Inv
  <2>3. Cardinality(At("reveal")') =< Cardinality(At("reveal")) /\ Cardinality(At("reveal")) \in Nat
        /\ Cardinality(At("reveal")') \in Nat
    BY <2>1, LeavesPlace DEF Inv
  <2>. QED
    BY <2>2, <2>3 DEF Inv, TypeOK, Recorded
<1>13. SawEarlier'
  BY <1>1 DEF Inv, TypeOK, SawEarlier, Sequential
<1>. QED
  BY <1>2, <1>3, <1>5, <1>7, <1>8, <1>9, <1>10, <1>11, <1>12, <1>13 DEF Inv

Less == {x \in Nat \X Nat : x[1] < x[2]}

\* A set of numbers has a least one: First(ids) is an event of ids.
LEMMA FirstIsOne ==
  ASSUME NEW ids \in SUBSET Nat, ids # {}
  PROVE  First(ids) \in ids
<1>1. IsWellFoundedOn(OpToRel(<, Nat), Nat)
  BY NatLessThanWellFounded
<1>2. IsWellFoundedOn(Less, Nat)
  BY <1>1 DEF OpToRel, Less
<1>3. PICK m \in ids : \A k \in ids : ~ (<<k, m>> \in Less)
  BY <1>2, WFMin, Zenon
<1>4. \A k \in ids : ~ (k < m)
  BY <1>3 DEF Less
<1>5. \A k \in ids : m =< k
  BY <1>4
<1>. QED
  BY <1>5 DEF First

\* A process that goes on or stops is a quiet step.
LEMMA QuietSteps ==
  ASSUME Inv, NEW p \in Procs,
         \/ CheckPrior(p) \/ CheckResearch(p) \/ Load(p) \/ Compute(p)
         \/ Preflight(p) \/ Stop(p)
  PROVE  Inv'
<1>. USE DEF To
<1>1. CASE Stop(p)
  BY <1>1, MovesKeeps DEF Stop, Moves, Allowed
<1>2. CASE CheckPrior(p) /\ ~Stop(p)
  <2>1. Blocks(step[p]) = {} /\ pc[p] = "prior"
    BY <1>2 DEF CheckPrior
  <2>2. step[p] \in OverlaySteps /\ p \in scenario.procs
    BY <2>1 DEF Inv, AtItsPlace, OverlayPlaces, InScenario
  <2>3. WithStatus(step[p], "done") = {}
    BY <2>1 DEF Blocks, WithStatus
  <2>. DEFINE next == IF step[p] = "research" THEN "load" ELSE "research"
  <2>4. Moves(p, next)
    BY <1>2 DEF CheckPrior, Moves
  <2>5. Allowed(p, next)
    BY <2>2, <2>3 DEF Allowed
  <2>. QED
    BY <2>4, <2>5, MovesKeeps
<1>3. CASE CheckResearch(p) /\ ~Stop(p)
  <2>1. ResearchAllows(p) /\ pc[p] = "research" /\ Moves(p, "load")
    BY <1>3 DEF CheckResearch, Moves
  <2>2. sha[p] \in PassedOn
    <3>. DEFINE done == WithStatus("research", "done")
    <3>1. done # {} /\ done \subseteq Nat
      BY <2>1 DEF ResearchAllows, WithStatus, Of, Inv, TypeOK
    <3>2. First(done) \in done
      BY <3>1, FirstIsOne
    <3>. QED
      BY <2>1, <3>2 DEF ResearchAllows, PassedOn
  <2>3. Allowed(p, "load")
    BY <2>1, <2>2 DEF Allowed, Inv, AtItsPlace, OverlayPlaces, InScenario, NoResultYet
  <2>. QED
    BY <2>1, <2>3, MovesKeeps
<1>4. CASE Load(p) /\ ~Stop(p)
  <2>1. pc[p] = "load" /\ Moves(p, "record")
    BY <1>4 DEF Load, Moves
  <2>2. Allowed(p, "record")
    BY <2>1 DEF Allowed, Inv, AtItsPlace, OverlayPlaces, InScenario, NoResultYet, Checked
  <2>. QED
    BY <2>1, <2>2, MovesKeeps
<1>5. CASE Compute(p)
  <2>. DEFINE next == IF step[p] = "holdout" THEN "unseal" ELSE "finish"
  <2>1. pc[p] = "compute" /\ Moves(p, next)
    BY <1>5 DEF Compute, Moves
  <2>2. Allowed(p, next)
    BY <2>1 DEF Allowed, Inv, AtItsPlace, OverlayPlaces, InScenario, Busy
  <2>. QED
    BY <2>1, <2>2, MovesKeeps
<1>6. CASE Preflight(p) /\ ~Stop(p)
  <2>1. pc[p] = "preflight" /\ Moves(p, "reveals")
    BY <1>6 DEF Preflight, Moves
  <2>2. Allowed(p, "reveals")
    BY <2>1 DEF Allowed, Inv, AtItsPlace, RevealPlaces, InScenario
  <2>. QED
    BY <2>1, <2>2, MovesKeeps
<1>. QED
  BY <1>1, <1>2, <1>3, <1>4, <1>5, <1>6

-----------------------------------------------------------------------------
(* The start of a process, and the owner.                                  *)

\* A new run begins at the start of its command, with nothing of its own yet.
LEMMA StartKeeps ==
  ASSUME Inv, NEW p \in Procs, NEW s \in Steps, Start(p, s)
  PROVE  Inv'
<1>. USE DEF tables, world, To
<1>. DEFINE first == CASE s \in OverlaySteps -> "prior"
                       [] s \in Unsealings   -> "unseal"
                       [] s \in Reveals      -> "preflight"
<1>1. /\ pc[p] = "idle" /\ pc' = [pc EXCEPT ![p] = first]
      /\ step' = [step EXCEPT ![p] = s] /\ sha' = [sha EXCEPT ![p] = config]
      /\ runs' = runs + 1 /\ p \in scenario.procs
      /\ UNCHANGED <<tables, looks, revealed, world, event, prior>>
  BY DEF Start
<1>2. first \in {"prior", "unseal", "preflight"} /\ (first = "prior" <=> s \in OverlaySteps)
      /\ (first = "unseal" <=> s \in Unsealings) /\ (first = "preflight" <=> s \in Reveals)
  BY DEF Steps, OverlaySteps, Unsealings, Reveals
<1>. HIDE DEF first
<1>3. TypeOK'
  BY <1>1, <1>2 DEF Inv, TypeOK, OverlayPlaces, GatewayPlaces, RevealPlaces
<1>4. AtItsPlace'
  BY <1>1, <1>2 DEF Inv, TypeOK, AtItsPlace, OverlayPlaces, GatewayPlaces, RevealPlaces
<1>5. \A q \in Procs : Busy(q)' => Busy(q) /\ q # p
  BY <1>1, <1>2 DEF Inv, TypeOK, Busy, Unsealings, OverlaySteps
<1>6. OwnEvents'
  BY <1>1, <1>5 DEF Inv, TypeOK, OwnEvents
<1>7. PassedOn' = PassedOn
  BY <1>1 DEF PassedOn, WithStatus, Of
<1>8. Checked'
  BY <1>1, <1>2, <1>7 DEF Inv, TypeOK, Checked
<1>9. Registered' /\ OneHoldout' /\ OneDone'
  BY <1>1, <1>7 DEF Inv, Registered, OneHoldout, OneDone, WithStatus, Of, Sequential
<1>10. InScenario'
  BY <1>1 DEF Inv, TypeOK, InScenario
<1>11. NoResultYet'
  BY <1>1, <1>2, <1>5 DEF Inv, TypeOK, NoResultYet, WithStatus, Of, Sequential
<1>12. Recorded'
  <2>1. \A place \in {"slice", "reveal"} :
          /\ Cardinality(At(place)') =< Cardinality(At(place))
          /\ Cardinality(At(place)) \in Nat /\ Cardinality(At(place)') \in Nat
    BY <1>1, <1>2, LeavesPlace DEF Inv
  <2>. QED
    BY <1>1, <2>1 DEF Inv, TypeOK, Recorded
<1>13. SawEarlier'
  BY <1>1, <1>2 DEF Inv, TypeOK, SawEarlier, Sequential
<1>. QED
  BY <1>3, <1>4, <1>6, <1>8, <1>9, <1>10, <1>11, <1>12, <1>13 DEF Inv

\* An edit of the config touches no process.
LEMMA EditKeeps ==
  ASSUME Inv, EditConfig
  PROVE  Inv'
<1>. USE DEF tables, memory
<1>1. config' \in scenario.configs
      /\ UNCHANGED <<scenario, tables, looks, revealed, runs, pc, memory>>
  BY DEF EditConfig
<1>2. scenario.configs \subseteq Configs
  BY OverlayAssumption DEF Inv, TypeOK, Scenario
<1>3. TypeOK'
  BY <1>1, <1>2 DEF Inv, TypeOK
<1>4. AtItsPlace' /\ OwnEvents' /\ InScenario' /\ SawEarlier' /\ Recorded'
  BY <1>1 DEF Inv, AtItsPlace, OwnEvents, Busy, InScenario, SawEarlier, Recorded, At, Sequential
<1>5. Checked' /\ Registered' /\ OneHoldout' /\ OneDone' /\ NoResultYet'
  BY <1>1 DEF Inv, Checked, Registered, OneHoldout, OneDone, NoResultYet, PassedOn,
              WithStatus, Of, Busy, Sequential
<1>. QED
  BY <1>3, <1>4, <1>5 DEF Inv

-----------------------------------------------------------------------------
(* The events of the overlay.                                              *)

\* One run after the other: two processes that run are one.
LEMMA Alone ==
  ASSUME InScenario, Sequential, TypeOK, NEW p \in Procs, NEW q \in Procs,
         pc[p] # "idle", pc[q] # "idle"
  PROVE  p = q
<1>1. scenario.procs \subseteq Procs
  BY OverlayAssumption DEF TypeOK, Scenario
<1>2. PICK x : scenario.procs = {x}
  BY <1>1, OverlayAssumption, FS_Subset, FS_Singleton DEF Sequential
<1>. QED
  BY <1>2 DEF InScenario

\* A step's own event, added as it starts.
LEMMA RecordKeeps ==
  ASSUME Inv, NEW p \in Procs, Record(p), ~Stop(p)
  PROVE  Inv'
<1>. USE DEF world, reveals, To
<1>. DEFINE n == Len(overlay_events) + 1
            e == [kind |-> step[p], sha |-> sha[p], status |-> "started", passed |-> FALSE]
<1>1. /\ pc[p] = "record" /\ pc' = [pc EXCEPT ![p] = "compute"]
      /\ overlay_events' = Append(overlay_events, e)
      /\ event' = [event EXCEPT ![p] = Len(overlay_events')]
      /\ step[p] = "holdout" => Of("holdout") = {}
      /\ UNCHANGED <<holdout_events, looks, reveals, world, runs, step, sha, prior>>
  BY DEF Record
<1>2. step[p] \in OverlaySteps
  BY <1>1 DEF Inv, AtItsPlace, OverlayPlaces
<1>3. e \in OverlayEvent
  BY <1>2 DEF OverlayEvent, Inv, TypeOK
<1>4. /\ overlay_events' \in Seq(OverlayEvent)
      /\ Len(overlay_events') = n /\ n \in Nat
      /\ DOMAIN overlay_events = 1..(n - 1)
      /\ DOMAIN overlay_events' = 1..n
      /\ overlay_events'[n] = e
      /\ \A i \in 1..(n - 1) : overlay_events'[i] = overlay_events[i]
  BY <1>1, <1>3 DEF Inv, TypeOK
<1>5. /\ e.kind = step[p] /\ e.sha = sha[p] /\ e.status = "started"
  OBVIOUS
<1>. HIDE DEF e, n
<1>6. \A k : WithStatus(k, "done")' = WithStatus(k, "done")
  BY <1>4, <1>5 DEF WithStatus, Of
<1>7. \A k : \A i \in Of(k)' : (i \in Of(k) /\ i # n) \/ (i = n /\ k = step[p])
  BY <1>4, <1>5 DEF Of
<1>8. PassedOn \subseteq PassedOn'
  BY <1>4, <1>6 DEF PassedOn, WithStatus, Of
<1>9. TypeOK'
  BY <1>1, <1>4 DEF Inv, TypeOK, OverlayPlaces
<1>10. AtItsPlace' /\ InScenario'
  BY <1>1, <1>2 DEF Inv, TypeOK, AtItsPlace, InScenario, OverlayPlaces, GatewayPlaces, RevealPlaces
<1>11. \A q \in Procs : Busy(q)' => q = p \/ (Busy(q) /\ event'[q] = event[q])
  BY <1>1 DEF Inv, TypeOK, Busy
<1>12. event'[p] = n
  BY <1>1, <1>4 DEF Inv, TypeOK
<1>13. OwnEvents'
  <2>1. \A q \in Procs : Busy(q) => event[q] \in 1..(n - 1)
    BY <1>4 DEF Inv, OwnEvents
  <2>2. ASSUME NEW q \in Procs, Busy(q)'
        PROVE  /\ event'[q] \in DOMAIN overlay_events'
               /\ overlay_events'[event'[q]].kind = step'[q]
               /\ overlay_events'[event'[q]].status = "started"
    <3>1. CASE q = p
      BY <1>1, <1>4, <1>5, <1>12, <3>1
    <3>2. CASE q # p
      BY <1>1, <1>4, <1>11, <2>1, <2>2, <3>2 DEF Inv, OwnEvents
    <3>. QED
      BY <3>1, <3>2
  <2>3. ASSUME NEW q \in Procs, NEW r \in Procs, Busy(q)', Busy(r)', event'[q] = event'[r]
        PROVE  q = r
    BY <1>4, <1>11, <1>12, <2>1, <2>3 DEF Inv, OwnEvents
  <2>. QED
    BY <2>2, <2>3 DEF OwnEvents
<1>14. Checked'
  BY <1>1, <1>8 DEF Inv, TypeOK, Checked
<1>15. Registered'
  <2>. SUFFICES ASSUME NEW k \in {"validate", "holdout"}, NEW i \in Of(k)'
                PROVE  overlay_events'[i].sha \in PassedOn'
    BY DEF Registered
  <2>1. CASE i \in Of(k) /\ i # n
    BY <1>4, <1>8, <2>1 DEF Inv, Registered, Of
  <2>2. CASE i = n /\ k = step[p]
    BY <1>1, <1>4, <1>5, <1>8, <2>2 DEF Inv, Checked
  <2>. QED
    BY <1>7, <2>1, <2>2
<1>16. OneHoldout'
  BY <1>1, <1>7 DEF Inv, OneHoldout
<1>17. NoResultYet'
  BY <1>1, <1>2, <1>6, <1>11 DEF Inv, TypeOK, NoResultYet, Sequential
<1>18. OneDone'
  BY <1>1, <1>6 DEF Inv, OneDone, Sequential
<1>19. Recorded'
  <2>1. \A place \in {"slice", "reveal"} :
          /\ Cardinality(At(place)') =< Cardinality(At(place))
          /\ Cardinality(At(place)) \in Nat /\ Cardinality(At(place)') \in Nat
    BY <1>1, LeavesPlace DEF Inv
  <2>. QED
    BY <1>1, <2>1 DEF Inv, TypeOK, Recorded
<1>20. SawEarlier'
  BY <1>1 DEF Inv, TypeOK, SawEarlier, Sequential
<1>. QED
  BY <1>9, <1>10, <1>13, <1>14, <1>15, <1>16, <1>17, <1>18, <1>19, <1>20 DEF Inv

\* The verdict or the error of a busy process.
Settles(p, status, passed) ==
  /\ Busy(p)
  /\ SetEvent(p, status, passed)
  /\ pc' = [pc EXCEPT ![p] = "idle"]
  /\ UNCHANGED <<holdout_events, looks, reveals, world, runs, memory>>

\* A verdict or an error ends an event that nobody else has.
LEMMA SettlesKeeps ==
  ASSUME Inv, NEW p \in Procs, NEW status \in {"done", "error"}, NEW passed \in BOOLEAN,
         Settles(p, status, passed)
  PROVE  Inv'
<1>. USE DEF world, reveals, memory
<1>. DEFINE ev == event[p]
            n == Len(overlay_events)
            old == overlay_events[ev]
            new == [kind |-> old.kind, sha |-> old.sha, status |-> status, passed |-> passed]
<1>1. /\ Busy(p) /\ pc' = [pc EXCEPT ![p] = "idle"]
      /\ overlay_events' = [overlay_events EXCEPT ![ev] = new]
      /\ UNCHANGED <<holdout_events, looks, reveals, world, runs, memory>>
  BY DEF Settles, SetEvent
<1>2. /\ n \in Nat /\ DOMAIN overlay_events = 1..n /\ ev \in 1..n
      /\ old \in OverlayEvent /\ old.kind = step[p] /\ old.status = "started"
  BY <1>1 DEF Inv, TypeOK, OwnEvents
<1>3. new \in OverlayEvent /\ new.kind = old.kind /\ new.sha = old.sha /\ new.status = status
  BY <1>2 DEF OverlayEvent
<1>. HIDE DEF new
<1>4. /\ overlay_events' \in Seq(OverlayEvent)
      /\ DOMAIN overlay_events' = 1..n
      /\ overlay_events'[ev] = new
      /\ \A i \in 1..n : i # ev => overlay_events'[i] = overlay_events[i]
  BY <1>1, <1>2, <1>3 DEF Inv, TypeOK
<1>. HIDE DEF old, ev, n
<1>5. \A k : Of(k)' = Of(k)
  BY <1>2, <1>3, <1>4 DEF Of, old
<1>6. \A i \in 1..n : overlay_events'[i].sha = overlay_events[i].sha
  BY <1>2, <1>3, <1>4 DEF old
<1>7. \A k : WithStatus(k, "done")' \subseteq
               WithStatus(k, "done") \cup (IF k = step[p] THEN {ev} ELSE {})
  BY <1>2, <1>3, <1>4 DEF WithStatus, Of, old
<1>8. PassedOn \subseteq PassedOn'
  <2>. SUFFICES ASSUME NEW r \in WithStatus("research", "done"), overlay_events[r].passed
                PROVE  overlay_events[r].sha \in PassedOn'
    BY DEF PassedOn
  <2>1. r \in 1..n /\ r # ev
    BY <1>2 DEF WithStatus, Of, old
  <2>. QED
    BY <1>4, <2>1 DEF PassedOn, WithStatus, Of
<1>9. TypeOK'
  BY <1>1, <1>4 DEF Inv, TypeOK
<1>10. AtItsPlace' /\ InScenario'
  BY <1>1 DEF Inv, TypeOK, AtItsPlace, InScenario, OverlayPlaces, GatewayPlaces, RevealPlaces
<1>11. \A q \in Procs : Busy(q)' => Busy(q) /\ q # p
  BY <1>1 DEF Inv, TypeOK, Busy
<1>12. OwnEvents'
  <2>1. \A q \in Procs : Busy(q)' => event[q] \in 1..n /\ event[q] # ev
    BY <1>1, <1>2, <1>11 DEF Inv, OwnEvents, ev
  <2>. QED
    BY <1>1, <1>4, <1>11, <2>1 DEF Inv, OwnEvents
<1>13. Checked'
  BY <1>1, <1>8 DEF Inv, TypeOK, Checked
<1>14. Registered'
  BY <1>2, <1>5, <1>6, <1>8 DEF Inv, Registered, Of
<1>15. OneHoldout'
  BY <1>5 DEF Inv, OneHoldout
<1>16. pc[p] # "idle"
  BY <1>1 DEF Busy
<1>17. NoResultYet'
  <2>. SUFFICES ASSUME Sequential, NEW q \in Procs,
                       pc'[q] \in {"research", "load", "record"} \/ Busy(q)'
                PROVE  FALSE
    BY <1>1 DEF NoResultYet, Sequential
  <2>1. q # p /\ pc[q] # "idle"
    BY <1>1 DEF Inv, TypeOK, Busy
  <2>. QED
    BY <1>16, <2>1, Alone DEF Inv
<1>18. OneDone'
  <2>. SUFFICES ASSUME Sequential, NEW k \in OverlaySteps,
                       NEW i \in WithStatus(k, "done")', NEW j \in WithStatus(k, "done")'
                PROVE  i = j
    BY <1>1 DEF OneDone, Sequential
  <2>1. k = step[p] => WithStatus(k, "done") = {}
    BY <1>1 DEF Inv, NoResultYet
  <2>. QED
    BY <1>7, <2>1 DEF Inv, OneDone
<1>19. Recorded'
  <2>1. \A place \in {"slice", "reveal"} :
          /\ Cardinality(At(place)') =< Cardinality(At(place))
          /\ Cardinality(At(place)) \in Nat /\ Cardinality(At(place)') \in Nat
    BY <1>1, LeavesPlace DEF Inv
  <2>. QED
    BY <1>1, <2>1 DEF Inv, TypeOK, Recorded
<1>20. SawEarlier'
  BY <1>1 DEF Inv, TypeOK, SawEarlier, Sequential
<1>. QED
  BY <1>9, <1>10, <1>12, <1>13, <1>14, <1>15, <1>17, <1>18, <1>19, <1>20 DEF Inv

\* The steps that end an event.
LEMMA SettlingSteps ==
  ASSUME Inv, NEW p \in Procs,
         \/ ComputeRaises(p) \/ ComputeCrashes(p) \/ FinishVerdict(p)
         \/ pc[p] = "unseal" /\ Refused(p)
  PROVE  Inv'
<1>. USE DEF To
<1>1. CASE ComputeRaises(p)
  BY <1>1, SettlesKeeps DEF ComputeRaises, Settles, Busy
<1>2. CASE ComputeCrashes(p)
  BY <1>2, SettlesKeeps DEF ComputeCrashes, InCompute, Settles, Busy
<1>3. CASE FinishVerdict(p)
  <2>1. Busy(p)
    BY <1>3 DEF FinishVerdict, Busy, Inv, AtItsPlace, OverlayPlaces
  <2>2. PICK passed \in BOOLEAN : SetEvent(p, "done", passed)
    BY <1>3 DEF FinishVerdict
  <2>. QED
    BY <1>3, <2>1, <2>2, SettlesKeeps DEF FinishVerdict, Settles
<1>4. CASE pc[p] = "unseal" /\ Refused(p) /\ step[p] = "holdout"
  BY <1>4, SettlesKeeps DEF Refused, Settles, Busy, OverlaySteps
<1>5. CASE pc[p] = "unseal" /\ Refused(p) /\ step[p] # "holdout"
  <2>1. Stop(p)
    BY <1>5 DEF Refused, Stop, tables, reveals
  <2>. QED
    BY <2>1, QuietSteps
<1>. QED
  BY <1>1, <1>2, <1>3, <1>4, <1>5

-----------------------------------------------------------------------------
(* The gateway and the reveal.                                             *)

\* Of the overlay's events, nothing changes, and nobody becomes busy.
LEMMA EventsStay ==
  ASSUME Inv, NEW p \in Procs, NEW next,
         next \notin {"research", "load", "record", "compute"},
         pc' = [pc EXCEPT ![p] = next],
         Busy(p)' => Busy(p) /\ event'[p] = event[p],
         \A q \in Procs : q # p => event'[q] = event[q],
         p \in scenario.procs,
         UNCHANGED <<overlay_events, scenario, config, step, sha>>
  PROVE  OwnEvents' /\ Checked' /\ Registered' /\ OneHoldout' /\ InScenario' /\ NoResultYet' /\ OneDone'
<1>1. \A q \in Procs : Busy(q)' => Busy(q) /\ event'[q] = event[q]
  BY DEF Inv, TypeOK, Busy
<1>2. OwnEvents'
  BY <1>1 DEF Inv, OwnEvents
<1>3. PassedOn' = PassedOn
  BY DEF PassedOn, WithStatus, Of
<1>4. Checked'
  BY <1>3 DEF Inv, TypeOK, Checked
<1>5. Registered' /\ OneHoldout' /\ OneDone'
  BY <1>3 DEF Inv, Registered, OneHoldout, OneDone, WithStatus, Of, Sequential
<1>6. InScenario'
  BY DEF Inv, TypeOK, InScenario
<1>7. NoResultYet'
  BY <1>1 DEF Inv, TypeOK, NoResultYet, WithStatus, Of, Sequential
<1>. QED
  BY <1>2, <1>4, <1>5, <1>6, <1>7

\* unseal() goes on: what it saw is so until it records, for nobody else runs.
LEMMA UnsealCheckKeeps ==
  ASSUME Inv, NEW p \in Procs, UnsealCheck(p)
  PROVE  Inv'
<1>. USE DEF tables, world, To
<1>1. CASE ~MayUnseal(p)
  BY <1>1, SettlingSteps DEF UnsealCheck
<1>2. CASE MayUnseal(p)
  <2>1. /\ pc[p] = "unseal" /\ pc' = [pc EXCEPT ![p] = "unseal_record"]
        /\ prior' = [prior EXCEPT ![p] = holdout_events # <<>>]
        /\ UNCHANGED <<tables, looks, revealed, world, runs, step, sha, event>>
    BY <1>2 DEF UnsealCheck
  <2>2. TypeOK' /\ AtItsPlace'
    BY <2>1 DEF Inv, TypeOK, AtItsPlace, OverlayPlaces, GatewayPlaces, RevealPlaces
  <2>3. OwnEvents' /\ Checked' /\ Registered' /\ OneHoldout' /\ InScenario' /\ NoResultYet' /\ OneDone'
    <3>1. Busy(p)' => Busy(p)
      BY <2>1 DEF Busy
    <3>2. p \in scenario.procs
      BY <2>1 DEF Inv, InScenario
    <3>. QED
      BY <2>1, <3>1, <3>2, EventsStay
  <2>4. Recorded'
    <3>1. \A place \in {"slice", "reveal"} :
            /\ Cardinality(At(place)') =< Cardinality(At(place))
            /\ Cardinality(At(place)) \in Nat /\ Cardinality(At(place)') \in Nat
      BY <2>1, LeavesPlace DEF Inv
    <3>. QED
      BY <2>1, <3>1 DEF Inv, TypeOK, Recorded
  <2>5. SawEarlier'
    BY <2>1 DEF Inv, TypeOK, SawEarlier, Sequential
  <2>. QED
    BY <2>2, <2>3, <2>4, <2>5 DEF Inv
<1>. QED
  BY <1>1, <1>2

\* The record of an unsealing makes room for its look.
LEMMA UnsealRecordKeeps ==
  ASSUME Inv, NEW p \in Procs, UnsealRecord(p)
  PROVE  Inv'
<1>. USE DEF world, memory, reveals, To
<1>1. /\ pc[p] = "unseal_record" /\ pc' = [pc EXCEPT ![p] = "slice"]
      /\ holdout_events' = Append(holdout_events, prior[p])
      /\ UNCHANGED <<overlay_events, looks, reveals, world, runs, memory>>
  BY DEF UnsealRecord, ForcedFlag
<1>2. /\ holdout_events' \in Seq(BOOLEAN)
      /\ Len(holdout_events') = Len(holdout_events) + 1
      /\ Len(holdout_events) \in Nat
  BY <1>1 DEF Inv, TypeOK
<1>3. TypeOK' /\ AtItsPlace'
  BY <1>1, <1>2 DEF Inv, TypeOK, AtItsPlace, OverlayPlaces, GatewayPlaces, RevealPlaces
<1>4. OwnEvents' /\ Checked' /\ Registered' /\ OneHoldout' /\ InScenario' /\ NoResultYet' /\ OneDone'
  <2>1. Busy(p)' => Busy(p)
    BY <1>1 DEF Busy
  <2>2. p \in scenario.procs
    BY <1>1 DEF Inv, InScenario
  <2>. QED
    BY <1>1, <2>1, <2>2, EventsStay
<1>5. Recorded'
  <2>1. /\ Cardinality(At("slice")') = Cardinality(At("slice")) + 1
        /\ Cardinality(At("slice")) \in Nat
    BY <1>1, ComesToPlace DEF Inv
  <2>2. /\ Cardinality(At("reveal")') =< Cardinality(At("reveal"))
        /\ Cardinality(At("reveal")) \in Nat /\ Cardinality(At("reveal")') \in Nat
    BY <1>1, LeavesPlace DEF Inv
  <2>. QED
    BY <1>1, <1>2, <2>1, <2>2 DEF Inv, TypeOK, Recorded
<1>6. SawEarlier'
  <2>. SUFFICES ASSUME Sequential, NEW q \in Procs
                PROVE  /\ pc'[q] # "unseal_record"
                       /\ pc'[q] = "reveal_record" => (prior'[q] <=> reveal_events' # <<>>)
    BY <1>1 DEF SawEarlier, Sequential
  <2>1. pc[q] = "unseal_record" => q = p
    BY <1>1, Alone DEF Inv
  <2>. QED
    BY <1>1, <2>1 DEF Inv, TypeOK, SawEarlier
<1>. QED
  BY <1>3, <1>4, <1>5, <1>6 DEF Inv

\* A look takes the room its record made.
LEMMA SliceKeeps ==
  ASSUME Inv, NEW p \in Procs, Slice(p)
  PROVE  Inv'
<1>. USE DEF tables, world, memory, To
<1>. DEFINE next == IF step[p] = "holdout" THEN "finish" ELSE "idle"
<1>1. /\ pc[p] = "slice" /\ pc' = [pc EXCEPT ![p] = next]
      /\ looks' = looks + 1
      /\ UNCHANGED <<tables, revealed, world, runs, memory>>
  BY DEF Slice
<1>2. next \in {"finish", "idle"} /\ (next = "finish" => step[p] = "holdout")
  OBVIOUS
<1>. HIDE DEF next
<1>3. TypeOK' /\ AtItsPlace'
  BY <1>1, <1>2 DEF Inv, TypeOK, AtItsPlace, OverlayPlaces, GatewayPlaces, RevealPlaces, OverlaySteps
<1>4. OwnEvents' /\ Checked' /\ Registered' /\ OneHoldout' /\ InScenario' /\ NoResultYet' /\ OneDone'
  <2>1. Busy(p)' => Busy(p)
    BY <1>1 DEF Busy
  <2>2. p \in scenario.procs
    BY <1>1 DEF Inv, InScenario
  <2>. QED
    BY <1>1, <1>2, <2>1, <2>2, EventsStay
<1>5. Recorded'
  <2>1. /\ Cardinality(At("slice")') = Cardinality(At("slice")) - 1
        /\ Cardinality(At("slice")) \in Nat
    BY <1>1, <1>2, LeavesPlace DEF Inv
  <2>2. /\ Cardinality(At("reveal")') =< Cardinality(At("reveal"))
        /\ Cardinality(At("reveal")) \in Nat /\ Cardinality(At("reveal")') \in Nat
    BY <1>1, <1>2, LeavesPlace DEF Inv
  <2>. QED
    BY <1>1, <2>1, <2>2 DEF Inv, TypeOK, Recorded
<1>6. SawEarlier'
  BY <1>1, <1>2 DEF Inv, TypeOK, SawEarlier, Sequential
<1>. QED
  BY <1>3, <1>4, <1>5, <1>6 DEF Inv

\* A look at the windows is refused, or goes on knowing the earlier ones.
LEMMA RevealCheckKeeps ==
  ASSUME Inv, NEW p \in Procs, RevealCheck(p), ~Stop(p)
  PROVE  Inv'
<1>. USE DEF tables, world, To
<1>1. /\ pc[p] = "reveals" /\ pc' = [pc EXCEPT ![p] = "reveal_record"]
      /\ prior' = [prior EXCEPT ![p] = reveal_events # <<>>]
      /\ UNCHANGED <<tables, looks, revealed, world, runs, step, sha, event>>
  BY DEF RevealCheck
<1>2. TypeOK' /\ AtItsPlace'
  BY <1>1 DEF Inv, TypeOK, AtItsPlace, OverlayPlaces, GatewayPlaces, RevealPlaces
<1>3. OwnEvents' /\ Checked' /\ Registered' /\ OneHoldout' /\ InScenario' /\ NoResultYet' /\ OneDone'
  <2>1. ~Busy(p)'
    BY <1>1 DEF Inv, TypeOK, Busy
  <2>2. p \in scenario.procs
    BY <1>1 DEF Inv, InScenario
  <2>. QED
    BY <1>1, <2>1, <2>2, EventsStay
<1>4. Recorded'
  <2>1. \A place \in {"slice", "reveal"} :
          /\ Cardinality(At(place)') =< Cardinality(At(place))
          /\ Cardinality(At(place)) \in Nat /\ Cardinality(At(place)') \in Nat
    BY <1>1, LeavesPlace DEF Inv
  <2>. QED
    BY <1>1, <2>1 DEF Inv, TypeOK, Recorded
<1>5. SawEarlier'
  BY <1>1 DEF Inv, TypeOK, SawEarlier, Sequential
<1>. QED
  BY <1>2, <1>3, <1>4, <1>5 DEF Inv

\* The record of a look makes room for it.
LEMMA RevealRecordKeeps ==
  ASSUME Inv, NEW p \in Procs, RevealRecord(p)
  PROVE  Inv'
<1>. USE DEF world, To
<1>1. /\ pc[p] = "reveal_record" /\ pc' = [pc EXCEPT ![p] = "reveal"]
      /\ reveal_events' = Append(reveal_events, [status |-> "started", forced |-> prior[p]])
      /\ event' = [event EXCEPT ![p] = Len(reveal_events')]
      /\ UNCHANGED <<overlay_events, holdout_events, looks, revealed, world, runs, step, sha, prior>>
  BY DEF RevealRecord, ForcedFlag
<1>2. /\ reveal_events' \in Seq(RevealEvent)
      /\ Len(reveal_events') = Len(reveal_events) + 1
      /\ Len(reveal_events) \in Nat
  BY <1>1 DEF Inv, TypeOK, RevealEvent
<1>3. TypeOK' /\ AtItsPlace'
  BY <1>1, <1>2 DEF Inv, TypeOK, AtItsPlace, OverlayPlaces, GatewayPlaces, RevealPlaces
<1>4. OwnEvents' /\ Checked' /\ Registered' /\ OneHoldout' /\ InScenario' /\ NoResultYet' /\ OneDone'
  <2>1. ~Busy(p)'
    BY <1>1 DEF Inv, TypeOK, Busy
  <2>2. p \in scenario.procs /\ \A q \in Procs : q # p => event'[q] = event[q]
    BY <1>1 DEF Inv, TypeOK, InScenario
  <2>. QED
    BY <1>1, <2>1, <2>2, EventsStay
<1>5. Recorded'
  <2>1. /\ Cardinality(At("reveal")') = Cardinality(At("reveal")) + 1
        /\ Cardinality(At("reveal")) \in Nat
    BY <1>1, ComesToPlace DEF Inv
  <2>2. /\ Cardinality(At("slice")') =< Cardinality(At("slice"))
        /\ Cardinality(At("slice")) \in Nat /\ Cardinality(At("slice")') \in Nat
    BY <1>1, LeavesPlace DEF Inv
  <2>. QED
    BY <1>1, <1>2, <2>1, <2>2 DEF Inv, TypeOK, Recorded
<1>6. SawEarlier'
  <2>. SUFFICES ASSUME Sequential, NEW q \in Procs
                PROVE  /\ pc'[q] # "reveal_record"
                       /\ pc'[q] = "unseal_record" => (prior'[q] <=> holdout_events' # <<>>)
    BY <1>1 DEF SawEarlier, Sequential
  <2>1. pc[q] = "reveal_record" => q = p
    BY <1>1, Alone DEF Inv
  <2>. QED
    BY <1>1, <2>1 DEF Inv, TypeOK, SawEarlier
<1>. QED
  BY <1>3, <1>4, <1>5, <1>6 DEF Inv

\* The numbers are computed.
LEMMA RevealKeeps ==
  ASSUME Inv, NEW p \in Procs, Reveal(p), ~Stop(p)
  PROVE  Inv'
<1>. USE DEF tables, world, memory, To
<1>1. /\ pc[p] = "reveal" /\ pc' = [pc EXCEPT ![p] = "reveal_finish"]
      /\ revealed' = revealed + 1
      /\ UNCHANGED <<tables, looks, world, runs, memory>>
  BY DEF Reveal
<1>2. TypeOK' /\ AtItsPlace'
  BY <1>1 DEF Inv, TypeOK, AtItsPlace, OverlayPlaces, GatewayPlaces, RevealPlaces
<1>3. OwnEvents' /\ Checked' /\ Registered' /\ OneHoldout' /\ InScenario' /\ NoResultYet' /\ OneDone'
  <2>1. ~Busy(p)'
    BY <1>1 DEF Inv, TypeOK, Busy
  <2>2. p \in scenario.procs
    BY <1>1 DEF Inv, InScenario
  <2>. QED
    BY <1>1, <2>1, <2>2, EventsStay
<1>4. Recorded'
  <2>1. /\ Cardinality(At("reveal")') = Cardinality(At("reveal")) - 1
        /\ Cardinality(At("reveal")) \in Nat
    BY <1>1, LeavesPlace DEF Inv
  <2>2. /\ Cardinality(At("slice")') =< Cardinality(At("slice"))
        /\ Cardinality(At("slice")) \in Nat /\ Cardinality(At("slice")') \in Nat
    BY <1>1, LeavesPlace DEF Inv
  <2>. QED
    BY <1>1, <2>1, <2>2 DEF Inv, TypeOK, Recorded
<1>5. SawEarlier'
  BY <1>1 DEF Inv, TypeOK, SawEarlier, Sequential
<1>. QED
  BY <1>2, <1>3, <1>4, <1>5 DEF Inv

\* The reveal's event is completed; how it was recorded stays.
LEMMA RevealFinishKeeps ==
  ASSUME Inv, NEW p \in Procs, RevealFinish(p), ~Stop(p)
  PROVE  Inv' /\ Len(reveal_events') = Len(reveal_events)
              /\ \A i \in DOMAIN reveal_events : reveal_events'[i].forced = reveal_events[i].forced
<1>. USE DEF world, memory, To
<1>. DEFINE ev == event[p]
            new == [status |-> "done", forced |-> reveal_events[ev].forced]
<1>1. /\ pc[p] = "reveal_finish" /\ pc' = [pc EXCEPT ![p] = "idle"]
      /\ reveal_events' = [reveal_events EXCEPT ![ev] = new]
      /\ UNCHANGED <<overlay_events, holdout_events, looks, revealed, world, runs, memory>>
  BY DEF RevealFinish
<1>2. ev \in DOMAIN reveal_events => new \in RevealEvent
  <2>1. ev \in DOMAIN reveal_events => reveal_events[ev] \in RevealEvent
    BY DEF Inv, TypeOK
  <2>. QED
    BY <2>1 DEF RevealEvent
<1>3. new.forced = reveal_events[ev].forced
  OBVIOUS
<1>. HIDE DEF new, ev
<1>4. /\ reveal_events' \in Seq(RevealEvent)
      /\ Len(reveal_events') = Len(reveal_events) /\ Len(reveal_events) \in Nat
  <2>1. CASE ev \in DOMAIN reveal_events
    BY <1>1, <1>2, <2>1 DEF Inv, TypeOK
  <2>2. CASE ev \notin DOMAIN reveal_events
    <3>1. reveal_events' = reveal_events
      BY <1>1, <2>2 DEF Inv, TypeOK
    <3>. QED
      BY <3>1 DEF Inv, TypeOK
  <2>. QED
    BY <2>1, <2>2
<1>5. \A i \in DOMAIN reveal_events : reveal_events'[i].forced = reveal_events[i].forced
  <2>1. \A i \in DOMAIN reveal_events :
          reveal_events'[i] = IF i = ev THEN new ELSE reveal_events[i]
    BY <1>1 DEF Inv, TypeOK
  <2>. QED
    BY <1>3, <2>1
<1>6. (reveal_events' = <<>>) <=> (reveal_events = <<>>)
  BY <1>4 DEF Inv, TypeOK
<1>7. TypeOK' /\ AtItsPlace'
  BY <1>1, <1>4 DEF Inv, TypeOK, AtItsPlace, OverlayPlaces, GatewayPlaces, RevealPlaces
<1>8. OwnEvents' /\ Checked' /\ Registered' /\ OneHoldout' /\ InScenario' /\ NoResultYet' /\ OneDone'
  <2>1. ~Busy(p)'
    BY <1>1 DEF Inv, TypeOK, Busy
  <2>2. p \in scenario.procs
    BY <1>1 DEF Inv, InScenario
  <2>. QED
    BY <1>1, <2>1, <2>2, EventsStay
<1>9. Recorded'
  <2>1. \A place \in {"slice", "reveal"} :
          /\ Cardinality(At(place)') =< Cardinality(At(place))
          /\ Cardinality(At(place)) \in Nat /\ Cardinality(At(place)') \in Nat
    BY <1>1, LeavesPlace DEF Inv
  <2>. QED
    BY <1>1, <1>4, <2>1 DEF Inv, TypeOK, Recorded
<1>10. SawEarlier'
  BY <1>1, <1>6 DEF Inv, TypeOK, SawEarlier, Sequential
<1>. QED
  BY <1>4, <1>5, <1>7, <1>8, <1>9, <1>10 DEF Inv

-----------------------------------------------------------------------------
(* The theorems.                                                           *)

\* Nothing has run.
LEMMA InitInv == Init => Inv
<1>. SUFFICES ASSUME Init PROVE Inv
  OBVIOUS
<1>1. scenario.configs \subseteq Configs
  BY OverlayAssumption DEF Init, Scenario
<1>2. TypeOK
  BY <1>1 DEF Init, TypeOK, Steps, OverlaySteps
<1>3. AtItsPlace /\ OwnEvents /\ Checked /\ InScenario /\ NoResultYet /\ SawEarlier
  BY DEF Init, AtItsPlace, OwnEvents, Checked, InScenario, NoResultYet, SawEarlier, Busy,
         OverlayPlaces, GatewayPlaces, RevealPlaces
<1>4. \A k : Of(k) = {}
  BY DEF Init, Of
<1>5. Registered /\ OneHoldout /\ OneDone
  BY <1>4 DEF Registered, OneHoldout, OneDone, WithStatus
<1>6. Recorded
  <2>1. At("slice") = {} /\ At("reveal") = {}
    BY DEF Init, At
  <2>2. Cardinality(At("slice")) = 0 /\ Cardinality(At("reveal")) = 0
    BY <2>1, FS_EmptySet
  <2>3. looks = 0 /\ revealed = 0 /\ Len(holdout_events) = 0 /\ Len(reveal_events) = 0
    BY DEF Init
  <2>. QED
    BY <2>2, <2>3 DEF Recorded
<1>. QED
  BY <1>2, <1>3, <1>5, <1>6 DEF Inv

\* Every step keeps the invariant.
LEMMA NextInv == Inv /\ [Next]_vars => Inv'
<1>. SUFFICES ASSUME Inv, [Next]_vars PROVE Inv'
  OBVIOUS
<1>1. ASSUME NEW p \in Procs, NEW s \in Steps, Start(p, s)
      PROVE  Inv'
  BY <1>1, StartKeeps
<1>2. ASSUME NEW p \in Procs, Go(p)
      PROVE  Inv'
  <2>1. CASE Stop(p) \/ LedgerRefuses(p)
    BY <2>1, QuietSteps DEF LedgerRefuses
  <2>2. CASE CheckPrior(p) \/ CheckResearch(p) \/ Load(p) \/ Compute(p) \/ Preflight(p)
    BY <2>2, QuietSteps
  <2>3. CASE Record(p) /\ ~Stop(p)
    BY <2>3, RecordKeeps
  <2>4. CASE ComputeRaises(p) \/ ComputeCrashes(p) \/ FinishVerdict(p)
    BY <2>4, SettlingSteps
  <2>5. CASE UnsealCheck(p)
    BY <2>5, UnsealCheckKeeps
  <2>6. CASE UnsealRecord(p)
    BY <2>6, UnsealRecordKeeps
  <2>7. CASE Slice(p)
    BY <2>7, SliceKeeps
  <2>8. CASE RevealCheck(p) /\ ~Stop(p)
    BY <2>8, RevealCheckKeeps
  <2>9. CASE RevealRecord(p)
    BY <2>9, RevealRecordKeeps
  <2>10. CASE Reveal(p) /\ ~Stop(p)
    BY <2>10, RevealKeeps
  <2>11. CASE RevealFinish(p) /\ ~Stop(p)
    BY <2>11, RevealFinishKeeps
  <2>. QED
    BY <1>2, <2>1, <2>2, <2>3, <2>4, <2>5, <2>6, <2>7, <2>8, <2>9, <2>10, <2>11 DEF Go
<1>3. ASSUME NEW p \in Procs, Kill(p)
      PROVE  Inv'
  BY <1>3, QuietSteps DEF Kill
<1>4. CASE EditConfig
  BY <1>4, EditKeeps
<1>5. CASE UNCHANGED vars
  <2>. USE <1>5 DEF vars, tables, world, memory
  <2>1. TypeOK' /\ AtItsPlace' /\ InScenario' /\ SawEarlier' /\ Recorded'
    BY DEF Inv, TypeOK, AtItsPlace, InScenario, SawEarlier, Recorded, At, Sequential
  <2>2. OwnEvents' /\ Checked' /\ Registered' /\ OneHoldout' /\ OneDone' /\ NoResultYet'
    BY DEF Inv, OwnEvents, Checked, Registered, OneHoldout, OneDone, NoResultYet, PassedOn,
           WithStatus, Of, Busy, Sequential
  <2>. QED
    BY <2>1, <2>2 DEF Inv
<1>. QED
  BY <1>1, <1>2, <1>3, <1>4, <1>5 DEF Next

\* The state of the ledger and of every process keeps its type, and a process
\* the place its command can bring it to.
THEOREM OverlayTypes == Spec => [](TypeOK /\ AtItsPlace)
<1>1. Inv => TypeOK /\ AtItsPlace
  BY DEF Inv
<1>. QED
  BY <1>1, InitInv, NextInv, PTL DEF Spec

\* A set whose members are all the same has at most one.
LEMMA AtMostOne ==
  ASSUME NEW S, \A x, y \in S : x = y
  PROVE  Cardinality(S) =< 1
<1>1. CASE S = {}
  BY <1>1, FS_EmptySet
<1>2. CASE S # {}
  <2>1. PICK x \in S : S = {x}
    BY <1>2
  <2>. QED
    BY <2>1, FS_Singleton
<1>. QED
  BY <1>1, <1>2

\* A step gets one result at most, one run after the other; there is one holdout
\* event, and no look without its record, whatever overlaps (overlay.py
\* _refusal, holdout.py unseal, core_reveal.py).
THEOREM OneResultHolds == Spec => []OneResult
<1>1. Inv => OneResult
  <2>. SUFFICES ASSUME Inv PROVE OneResult
    OBVIOUS
  <2>1. Sequential => \A k \in OverlaySteps : Cardinality(WithStatus(k, "done")) =< 1
    BY AtMostOne DEF Inv, OneDone
  <2>2. Cardinality(Of("holdout")) =< 1
    BY AtMostOne DEF Inv, OneHoldout
  <2>3. \A place : Cardinality(At(place)) \in Nat
    <3>1. \A place : IsFiniteSet(At(place))
      BY OverlayAssumption, FS_Subset DEF At
    <3>. QED
      BY <3>1, FS_CardinalityType
  <2>4. looks =< Len(holdout_events) /\ revealed =< Len(reveal_events)
    BY <2>3 DEF Inv, TypeOK, Recorded
  <2>. QED
    BY <2>1, <2>2, <2>4 DEF OneResult
<1>. QED
  BY <1>1, InitInv, NextInv, PTL DEF Spec

\* A validation or a holdout was only ever started on a config with which
\* research had passed (overlay.py _refusal), whoever edits the file meanwhile.
THEOREM PreRegisteredHolds == Spec => []PreRegistered
<1>1. Inv => PreRegistered
  BY DEF Inv, Registered, PassedOn, PreRegistered
<1>. QED
  BY <1>1, InitInv, NextInv, PTL DEF Spec

-----------------------------------------------------------------------------
(* The refinement of SealedHoldout.                                        *)

\* Only two steps touch the gateway's record, and two that of the reveal; a
\* step's completed event is neither.
LEMMA SealedSteps ==
  ASSUME Inv, [Next]_vars
  PROVE  /\ scenario' = scenario
         /\ \/ UNCHANGED <<holdout_events, looks>>
            \/ \E p \in Procs : UnsealRecord(p) \/ Slice(p)
         /\ \/ UNCHANGED <<reveal_events, revealed>>
            \/ \E p \in Procs : RevealRecord(p) \/ (Reveal(p) /\ ~Stop(p)) \/ (RevealFinish(p) /\ ~Stop(p))
<1>. USE DEF tables, world, memory, reveals
<1>1. ASSUME NEW p \in Procs, NEW s \in Steps, Start(p, s)
      PROVE  UNCHANGED <<scenario, holdout_events, looks, reveal_events, revealed>>
  BY <1>1 DEF Start
<1>2. ASSUME NEW p \in Procs, Stop(p)
      PROVE  UNCHANGED <<scenario, holdout_events, looks, reveal_events, revealed>>
  BY <1>2 DEF Stop
<1>3. ASSUME NEW p \in Procs,
             \/ CheckPrior(p) \/ CheckResearch(p) \/ Load(p) \/ Record(p) \/ Compute(p)
             \/ ComputeRaises(p) \/ ComputeCrashes(p) \/ UnsealCheck(p) \/ FinishVerdict(p)
             \/ Preflight(p) \/ RevealCheck(p) \/ LedgerRefuses(p)
      PROVE  UNCHANGED <<scenario, holdout_events, looks, reveal_events, revealed>>
  BY <1>2, <1>3 DEF CheckPrior, CheckResearch, Load, Record, Compute, ComputeRaises, ComputeCrashes,
         UnsealCheck, Refused, FinishVerdict, Preflight, RevealCheck, LedgerRefuses
<1>4. ASSUME NEW p \in Procs, UnsealRecord(p) \/ Slice(p)
      PROVE  UNCHANGED <<scenario, reveal_events, revealed>>
  BY <1>4 DEF UnsealRecord, Slice
<1>5. ASSUME NEW p \in Procs, RevealRecord(p) \/ Reveal(p) \/ RevealFinish(p)
      PROVE  UNCHANGED <<scenario, holdout_events, looks>>
  BY <1>2, <1>5 DEF RevealRecord, Reveal, RevealFinish
<1>6. CASE \E p \in Procs : (\E s \in Steps : Start(p, s)) \/ Kill(p)
  BY <1>1, <1>2, <1>6 DEF Kill
<1>7. CASE EditConfig
  BY <1>7 DEF EditConfig
<1>8. CASE UNCHANGED vars
  BY <1>8 DEF vars
<1>9. CASE \E p \in Procs : Go(p)
  <2>1. PICK p \in Procs : Go(p)
    BY <1>9
  <2>2. CASE UnsealRecord(p) \/ Slice(p)
    BY <1>4, <2>2
  <2>3. CASE RevealRecord(p) \/ Reveal(p) \/ RevealFinish(p)
    BY <1>2, <1>5, <2>3
  <2>. QED
    BY <1>3, <2>1, <2>2, <2>3 DEF Go
<1>. QED
  BY <1>6, <1>7, <1>8, <1>9 DEF Next

\* The first entry of a record.
LEMMA AppendToNothing == Append(<<>>, FALSE) = <<FALSE>>
OBVIOUS

\* A look at the holdout is recorded before it happens, and recorded as what it
\* is.
LEMMA GatewaySeals ==
  ASSUME Inv, [Next]_vars
  PROVE  [Sealed!Next]_(Sealed!vars)
<1>. USE DEF Sealed!vars, recordBar, looksBar
<1>1. Sequential' <=> Sequential
  BY SealedSteps DEF Sequential
<1>2. CASE ~Sequential \/ UNCHANGED <<holdout_events, looks>>
  BY <1>1, <1>2
<1>3. ASSUME Sequential, NEW p \in Procs, UnsealRecord(p)
      PROVE  Sealed!Next
  <2>1. /\ pc[p] = "unseal_record" /\ looks' = looks
        /\ holdout_events' = Append(holdout_events, prior[p])
    BY <1>3 DEF UnsealRecord, ForcedFlag
  <2>2. prior[p] \in BOOLEAN /\ (prior[p] <=> holdout_events # <<>>) /\ holdout_events \in Seq(BOOLEAN)
    BY <1>3, <2>1 DEF Inv, TypeOK, SawEarlier
  <2>3. CASE holdout_events = <<>>
    <3>1. prior[p] = FALSE
      BY <2>2, <2>3
    <3>2. holdout_events' = <<FALSE>>
      BY <2>1, <2>3, <3>1, AppendToNothing
    <3>. QED
      BY <1>1, <1>3, <2>1, <2>3, <3>2 DEF Sealed!Next, Sealed!RecordFirst
  <2>4. CASE holdout_events # <<>>
    <3>1. prior[p] = TRUE
      BY <2>2, <2>4
    <3>. QED
      BY <1>1, <1>3, <2>1, <2>4, <3>1 DEF Sealed!Next, Sealed!RecordForced
  <2>. QED
    BY <2>3, <2>4
<1>4. ASSUME Sequential, NEW p \in Procs, Slice(p)
      PROVE  Sealed!Next
  <2>1. pc[p] = "slice" /\ looks' = looks + 1 /\ holdout_events' = holdout_events
    BY <1>4 DEF Slice, tables
  <2>2. Cardinality(At("slice")) \in Nat /\ Cardinality(At("slice")) # 0
    BY <2>1, OverlayAssumption, FS_Subset, FS_EmptySet, FS_CardinalityType DEF At
  <2>3. looks < Len(holdout_events)
    BY <2>2 DEF Inv, TypeOK, Recorded
  <2>. QED
    BY <1>1, <1>4, <2>1, <2>3 DEF Sealed!Next, Sealed!Look
<1>. QED
  BY <1>2, <1>3, <1>4, SealedSteps

\* The same of the reveal; its event is completed without a word about it.
LEMMA RevealSeals ==
  ASSUME Inv, [Next]_vars
  PROVE  [Revealed!Next]_(Revealed!vars)
<1>. USE DEF Revealed!vars, revealsBar, revealedBar
<1>1. Sequential' <=> Sequential
  BY SealedSteps DEF Sequential
<1>2. CASE ~Sequential \/ UNCHANGED <<reveal_events, revealed>>
  BY <1>1, <1>2
<1>3. ASSUME Sequential, NEW p \in Procs, RevealRecord(p)
      PROVE  Revealed!Next
  <2>. DEFINE e == [status |-> "started", forced |-> prior[p]]
  <2>1. /\ pc[p] = "reveal_record" /\ revealed' = revealed
        /\ reveal_events' = Append(reveal_events, e)
    BY <1>3 DEF RevealRecord, ForcedFlag
  <2>2. prior[p] \in BOOLEAN /\ (prior[p] <=> reveal_events # <<>>) /\ reveal_events \in Seq(RevealEvent)
    BY <1>3, <2>1 DEF Inv, TypeOK, SawEarlier
  <2>3. e.forced = prior[p]
    OBVIOUS
  <2>. HIDE DEF e
  <2>4. revealsBar' = Append(revealsBar, prior[p])
    BY <1>1, <1>3, <2>1, <2>2, <2>3
  <2>5. (revealsBar = <<>>) <=> (reveal_events = <<>>)
    BY <1>3, <2>2
  <2>. HIDE DEF revealsBar
  <2>6. CASE reveal_events = <<>>
    <3>1. prior[p] = FALSE /\ revealsBar = <<>>
      BY <2>2, <2>5, <2>6
    <3>2. revealsBar' = <<FALSE>>
      BY <2>4, <3>1, AppendToNothing
    <3>. QED
      BY <1>1, <1>3, <2>1, <3>1, <3>2 DEF Revealed!Next, Revealed!RecordFirst
  <2>7. CASE reveal_events # <<>>
    <3>1. revealsBar' = Append(revealsBar, TRUE) /\ revealsBar # <<>>
      BY <2>2, <2>4, <2>5, <2>7
    <3>. QED
      BY <1>1, <1>3, <2>1, <3>1 DEF Revealed!Next, Revealed!RecordForced
  <2>. QED
    BY <2>6, <2>7
<1>4. ASSUME Sequential, NEW p \in Procs, Reveal(p), ~Stop(p)
      PROVE  Revealed!Next
  <2>1. pc[p] = "reveal" /\ revealed' = revealed + 1 /\ reveal_events' = reveal_events
    BY <1>4 DEF Reveal, tables
  <2>2. Cardinality(At("reveal")) \in Nat /\ Cardinality(At("reveal")) # 0
    BY <2>1, OverlayAssumption, FS_Subset, FS_EmptySet, FS_CardinalityType DEF At
  <2>3. revealed < Len(reveal_events) /\ Len(revealsBar) = Len(reveal_events)
    BY <1>4, <2>2 DEF Inv, TypeOK, Recorded
  <2>4. UNCHANGED revealsBar
    BY <1>1, <2>1
  <2>. QED
    BY <1>1, <1>4, <2>1, <2>3, <2>4 DEF Revealed!Next, Revealed!Look
<1>5. ASSUME Sequential, NEW p \in Procs, RevealFinish(p), ~Stop(p)
      PROVE  UNCHANGED Revealed!vars
  <2>1. revealed' = revealed
    BY <1>5 DEF RevealFinish
  <2>2. DOMAIN reveal_events' = DOMAIN reveal_events
    BY <1>5, RevealFinishKeeps DEF Inv, TypeOK
  <2>3. revealsBar' = revealsBar
    BY <1>1, <1>5, <2>2, RevealFinishKeeps
  <2>. QED
    BY <1>1, <2>1, <2>3
<1>. QED
  BY <1>2, <1>3, <1>4, <1>5, SealedSteps

\* One run after the other, the holdout's gateway and the reveal keep the promise
\* of SealedHoldout, killed anywhere (holdout.py unseal, core_reveal.py).
THEOREM KeepsSealHolds == Spec => KeepsSeal
<1>1. Init => Sealed!Init /\ Revealed!Init
  BY DEF Init, Sealed!Init, Revealed!Init, recordBar, looksBar, revealsBar, revealedBar
<1>2. Inv /\ [Next]_vars => [Sealed!Next]_(Sealed!vars) /\ [Revealed!Next]_(Revealed!vars)
  BY GatewaySeals, RevealSeals
<1>. QED
  BY <1>1, <1>2, InitInv, NextInv, PTL DEF Spec, KeepsSeal, Sealed!Spec, Revealed!Spec
=============================================================================
