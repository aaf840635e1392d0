----------------------------- MODULE Rebalancer -----------------------------
(***************************************************************************)
(* The IB paper rebalancer: the evening run, the --flatten kill switch and *)
(* --accept-positions (qrl/broker_run.py) against an account at Interactive*)
(* Brokers (external), with the journal folder between them.               *)
(*                                                                         *)
(* One run at a time: the adapter connects with the one client_id of       *)
(* config/broker.yaml, which IB admits once.  A run reads the account in   *)
(* several calls and acts on what it read; the account moves on its own.   *)
(*                                                                         *)
(* A behaviour has one scenario, which never changes: the universe that is *)
(* traded, and the faults that may happen.  Each result then states        *)
(* exactly what it tolerates:                                              *)
(*   "midrun"          orders fill, expire and are cancelled, the owner    *)
(*                     trades and midnight passes while a run is active;   *)
(*                     without it these happen between runs only, as they  *)
(*                     do around the 18:30 cron run of market-on-open      *)
(*                     orders                                              *)
(*   "expire"          open orders end without (all of) their shares       *)
(*   "dead_at_submit"  IB returns an order as rejected or cancelled        *)
(*   "submit_fails"    submit raises before IB has the order               *)
(*   "lost_ack"        submit raises after IB has the order                *)
(*   "journal_fails"   the journal cannot be written                       *)
(*   "events_fail"     a line of events.jsonl cannot be written            *)
(*   "partial_cancel"  cancel_all leaves orders open (CancelAllError)      *)
(*   "flatten_fails"   the broker's flatten raises part-way                *)
(*   "crash"           the process is killed                               *)
(*   "manual"          the owner trades by hand                            *)
(*   "clock_back"      the machine's clock is set back between runs        *)
(*                                                                         *)
(* Positions are functions from symbols to share counts; a symbol the code *)
(* leaves out of a dict has 0 shares.  A file of the journal folder        *)
(* (qrl/broker_journal.py) is abstracted to the fields that later runs     *)
(* read: its kind, the session of a dated file, its recorded_at stamp and  *)
(* its expected positions.                                                 *)
(***************************************************************************)
EXTENDS Integers, FiniteSets

CONSTANTS
  Symbols,     \* the instruments an account can hold
  None,        \* "no journal yet"
  MaxShares,   \* bound: no target and no manual purchase beyond it
  MaxRuns,     \* bound: runs started
  MaxDay,      \* bound: sessions
  MaxManual,   \* bound: trades by the owner's own hand
  Scenarios    \* the scenarios to look at

-----------------------------------------------------------------------------
(* The journal folder: what a file records, which file is the baseline, what a *)
(* run expects, and how that is compared with the account.                     *)

Positions == [Symbols -> Int]

\* No shares of anything.
Flat == [s \in Symbols |-> 0]

ASSUME JournalAssumption == None \notin Positions

Kinds == {"rebalance", "flatten", "accept"}

Journal == [kind : Kinds, stamp : Nat, day : Nat, expected : Positions]

\* Only what was held before: the orders just submitted are forgotten.
ExpectedPositionsForgetful(pre, submitted) == pre

\* Pre-trade positions plus the delta of each submitted order.  `submitted`
\* maps a symbol to the delta IB accepted: 0 where there was no order and
\* where the order came back rejected or cancelled.
ExpectedPositions(pre, submitted) ==
  [s \in Symbols |-> pre[s] + submitted[s]]

\* The file of the oldest stamp instead of the newest.
OldestBaseline(files) ==
  IF files = {} THEN None
  ELSE (CHOOSE j \in files : \A k \in files : j.stamp =< k.stamp).expected

\* The expected positions of the newest journal by recorded_at, over every
\* kind of file; None when the folder holds no journal.
LatestBaseline(files) ==
  IF files = {} THEN None
  ELSE (CHOOSE j \in files : \A k \in files : k.stamp =< j.stamp).expected

\* A comparison that cannot see a difference.
MatchesAlways(baseline, actual) == TRUE

\* reconcile() reports no mismatch; without a baseline it is skipped.
Matches(baseline, actual) == baseline \in {None, actual}

\* A dated file that is never found.
DatedNever(files, day) == FALSE

\* dated_path(session).exists()
Dated(files, day) ==
  \E j \in files : j.kind = "rebalance" /\ j.day = day

-----------------------------------------------------------------------------

FaultKinds ==
  {"midrun", "expire", "dead_at_submit", "submit_fails", "lost_ack",
   "journal_fails", "events_fail", "partial_cancel", "flatten_fails",
   "crash", "manual", "clock_back"}

\* `universe`: the symbols of the combined weights' columns.
Scenario == [universe : SUBSET Symbols, faults : SUBSET FaultKinds]

ASSUME RebalancerAssumption ==
  /\ Symbols \subseteq Int
  /\ MaxShares \in Nat
  /\ MaxRuns \in Nat
  /\ MaxDay \in Nat
  /\ MaxManual \in Nat
  /\ Scenarios \subseteq Scenario

VARIABLES
  \* the account at IB
  pos,       \* shares held
  buying,    \* shares of open buy orders
  selling,   \* shares of open sell orders
  \* the world
  scenario,  \* what may go wrong, and what is traded
  today,     \* the New York date
  manual,    \* trades the owner made by hand so far
  \* the journal folder
  journals,  \* the *.json files
  events,    \* the lines of events.jsonl
  stray,     \* sessions whose dated journal left a .tmp behind
  \* the active run, or the last one
  pc,        \* where it is
  stamp,     \* its recorded_at
  stamps,    \* the stamps of the runs started so far
  day,       \* the date of its stamp
  held,      \* the positions it read
  todo,      \* the deltas it still has to send
  sent,      \* the deltas IB accepted
  some,      \* it has submitted at least one order, dead or alive
  failed     \* a submit raised

account == <<pos, buying, selling>>
world   == <<scenario, today, manual>>
files   == <<journals, events, stray>>
local   == <<held, todo, sent, some, failed>>
vars    == <<account, world, files, pc, stamp, stamps, day, local>>

Faults == scenario.faults
Universe == scenario.universe

EveningPcs == {"gate", "orders", "checks", "size", "submit", "settle", "report"}
FlattenPcs == {"fl_holdings", "fl_cancel", "fl_positions", "fl_sell", "fl_settle"}
AcceptPcs  == {"ac_holdings", "ac_orders", "ac_journal"}
\* No process is active: the last run, if any, came to its end or was killed.
Gone == {"idle", "killed"}
Pcs == Gone \cup EveningPcs \cup FlattenPcs \cup AcceptPcs

\* "refused" stands for every halt that traded nothing and left the account
\* alone: refused, no new session, an error of a read.
Statuses == {"refused", "reconcile_mismatch", "nothing_to_trade", "error"}

Event == [stamp : Nat, status : Statuses, orders : Positions]

-----------------------------------------------------------------------------
(* The account at IB.                                                      *)

\* No open order of either side.
BookClear == buying = Flat /\ selling = Flat

\* What the account will hold once every open order has been executed.
Owed == [s \in Symbols |-> pos[s] + buying[s] - selling[s]]

\* A sell that keeps the sign of its delta.
PlaceSigned(s, n) ==
  /\ buying'  = [buying  EXCEPT ![s] = @ + (IF n > 0 THEN n ELSE 0)]
  /\ selling' = [selling EXCEPT ![s] = @ + (IF n < 0 THEN n ELSE 0)]
  /\ pos' = pos

\* IB queues an order for a delta of n shares of s.
Place(s, n) ==
  /\ buying'  = [buying  EXCEPT ![s] = @ + (IF n > 0 THEN n ELSE 0)]
  /\ selling' = [selling EXCEPT ![s] = @ + (IF n < 0 THEN -n ELSE 0)]
  /\ pos' = pos

Between == pc \in Gone \/ "midrun" \in Faults

\* Open orders are executed, whole or in part.
Fill(s) ==
  /\ Between
  /\ \/ \E k \in 1..buying[s] :
          /\ pos' = [pos EXCEPT ![s] = @ + k]
          /\ buying' = [buying EXCEPT ![s] = @ - k]
          /\ UNCHANGED selling
     \/ \E k \in 1..selling[s] :
          /\ pos' = [pos EXCEPT ![s] = @ - k]
          /\ selling' = [selling EXCEPT ![s] = @ - k]
          /\ UNCHANGED buying
  /\ UNCHANGED <<world, files, pc, stamp, stamps, day, local>>

\* Open orders end unexecuted: rejected at the open, expired, or cancelled
\* by the owner.
Expire(s) ==
  /\ "expire" \in Faults
  /\ Between
  /\ \/ \E k \in 1..buying[s] :
          buying' = [buying EXCEPT ![s] = @ - k] /\ UNCHANGED selling
     \/ \E k \in 1..selling[s] :
          selling' = [selling EXCEPT ![s] = @ - k] /\ UNCHANGED buying
  /\ UNCHANGED <<pos, world, files, pc, stamp, stamps, day, local>>

\* The owner buys one share, or sells one that is not already being sold.
ManualTrade(s) ==
  /\ "manual" \in Faults
  /\ Between
  /\ manual < MaxManual
  /\ manual' = manual + 1
  /\ \/ pos[s] + buying[s] < MaxShares /\ pos' = [pos EXCEPT ![s] = @ + 1]
     \/ pos[s] > selling[s] /\ pos' = [pos EXCEPT ![s] = @ - 1]
  /\ UNCHANGED <<buying, selling, scenario, today, files, pc, stamp, stamps, day, local>>

NewDay ==
  /\ Between
  /\ today < MaxDay
  /\ today' = today + 1
  /\ UNCHANGED <<account, scenario, manual, files, pc, stamp, stamps, day, local>>

-----------------------------------------------------------------------------
(* Starting and ending a run.                                              *)

\* Runs are stamped in the order they start, unless the clock was set back.
Start(first) ==
  /\ pc \in Gone
  /\ \E now \in (1..MaxRuns) \ stamps :
       /\ \/ "clock_back" \in Faults
          \/ \A later \in (1..MaxRuns) \ stamps : now =< later
       /\ stamp' = now
       /\ stamps' = stamps \cup {now}
  /\ pc' = first
  /\ day' = today
  /\ UNCHANGED <<account, world, files, local>>

StartEvening == Start("gate")
StartFlatten == Start("fl_holdings")
StartAccept  == Start("ac_holdings")

\* The process is gone, and what it kept in memory with it.
Leave(end) ==
  /\ pc' = end
  /\ held' = Flat
  /\ todo' = Flat
  /\ sent' = Flat
  /\ some' = FALSE
  /\ failed' = FALSE
  /\ UNCHANGED <<stamp, stamps, day>>

Forget == Leave("idle")

\* The run ends without a line in events.jsonl.
EndSilently(status, orders) ==
  /\ Forget
  /\ UNCHANGED <<account, world, files>>

\* One line of events.jsonl, carrying these order records; if it cannot be
\* written, the folder keeps nothing and stderr has the detail.
Record(status, orders) ==
  \/ events' = events \cup {[stamp |-> stamp, status |-> status, orders |-> orders]}
  \/ "events_fail" \in Faults /\ UNCHANGED events

\* The run ends with one line, or with one that is lost.
EndWithEvent(status, orders) ==
  /\ Forget
  /\ Record(status, orders)
  /\ UNCHANGED <<account, world, journals, stray>>

\* _halt, under _guarded: nothing was ordered.  A line that cannot be written
\* is one more exception, for which _guarded tries one of status "error".
Halt(status) ==
  \/ EndWithEvent(status, Flat)
  \/ "events_fail" \in Faults /\ EndWithEvent("error", Flat)

\* What halts a run without depending on the modelled state: a connection,
\* account or currency refusal, `enabled: false`, failing health checks, no
\* new session, unusable weights or closes, unreadable cash, any exception
\* of a broker or data call before anything was ordered or cancelled.
Refuse ==
  /\ pc \in {"gate", "orders", "checks", "size", "fl_holdings",
             "ac_holdings", "ac_orders"}
  /\ Halt("refused")

\* kill -9, power, host reboot, an interrupt nothing catches: nothing is
\* written.
Crash ==
  /\ "crash" \in Faults
  /\ pc \notin Gone
  /\ Leave("killed")
  /\ UNCHANGED <<account, world, files>>

\* The same, while the dated journal's temporary file is being written.
CrashInWrite ==
  /\ "crash" \in Faults
  /\ pc = "settle" /\ some
  /\ stray' = stray \cup {day}
  /\ Leave("killed")
  /\ UNCHANGED <<account, world, journals, events>>

-----------------------------------------------------------------------------
(* The evening run.                                                        *)

\* gate(): the holdings are read before the open orders.
ReadHoldings ==
  /\ pc = "gate"
  /\ held' = pos
  /\ pc' = "orders"
  /\ UNCHANGED <<account, world, files, stamp, stamps, day, todo, sent, some, failed>>

\* A gate that lets open orders through.
GateOrdersUnchecked ==
  /\ pc = "orders"
  /\ pc' = "checks"
  /\ UNCHANGED <<account, world, files, stamp, stamps, day, local>>

\* gate(): an open order refuses the run, and is never cancelled.
GateOrders ==
  /\ pc = "orders"
  /\ IF BookClear
       THEN /\ pc' = "checks"
            /\ UNCHANGED <<account, world, files, stamp, stamps, day, local>>
       ELSE Halt("refused")

\* The same-session rerun and the held symbol outside the universe.
SessionRefused ==
  \/ Dated(journals, day)
  \/ \E s \in Symbols \ Universe : held[s] # 0

\* _session_checks, then _reconcile.
Checks ==
  /\ pc = "checks"
  /\ \/ /\ SessionRefused
        /\ Halt("refused")
     \/ /\ ~SessionRefused
        /\ ~Matches(LatestBaseline(journals), held)
        /\ Halt("reconcile_mismatch")
     \/ /\ ~SessionRefused
        /\ Matches(LatestBaseline(journals), held)
        /\ pc' = "size"
        /\ UNCHANGED <<account, world, files, stamp, stamps, day, local>>

\* What the planner can make of the held positions: whole shares, no shorts,
\* nothing outside the universe.  A symbol the deadband skips stays as it is.
Plans ==
  {d \in [Symbols -> 0..MaxShares] :
     \A s \in Symbols \ Universe : d[s] = held[s]}

\* The orders that take the held positions to d, as deltas.
Orders(d) == [s \in Symbols |-> d[s] - held[s]]

\* _trade up to the first order: cash, plan, refusals, nothing to trade.
Size ==
  /\ pc = "size"
  /\ IF \E s \in Symbols : held[s] < 0
       THEN Halt("refused")
       ELSE \E d \in Plans :
              IF Orders(d) = Flat
                THEN Halt("nothing_to_trade")
                ELSE /\ todo' = Orders(d)
                     /\ pc' = "submit"
                     /\ UNCHANGED <<account, world, files, stamp, stamps, day,
                                    held, sent, some, failed>>

\* Sells go out before buys, each side in symbol order.
IsNext(s) ==
  /\ todo[s] # 0
  /\ \A r \in Symbols :
       todo[r] # 0 /\ r # s =>
         \/ todo[s] < 0 /\ todo[r] > 0
         \/ (todo[s] < 0 <=> todo[r] < 0) /\ s < r

\* One order has been dealt with: on to the next one, or to `last`.
Advance(s, last) ==
  /\ todo' = [todo EXCEPT ![s] = 0]
  /\ pc' = IF todo' = Flat THEN last ELSE pc
  /\ some' = TRUE

\* The remaining orders are not sent.
Abandon(last) ==
  /\ todo' = Flat
  /\ failed' = TRUE
  /\ pc' = last

\* submit() returns an order IB queued.
SubmitAccepted(s) ==
  /\ pc = "submit" /\ IsNext(s)
  /\ Place(s, todo[s])
  /\ sent' = [sent EXCEPT ![s] = todo[s]]
  /\ Advance(s, "settle")
  /\ UNCHANGED <<world, files, stamp, stamps, day, held, failed>>

\* SubmittedOrder.delta of a rejected or cancelled order.
DeadDelta(s) == 0

\* submit() returns an order IB rejected or cancelled at once.
SubmitDead(s) ==
  /\ "dead_at_submit" \in Faults
  /\ pc = "submit" /\ IsNext(s)
  /\ sent' = [sent EXCEPT ![s] = DeadDelta(s)]
  /\ Advance(s, "settle")
  /\ UNCHANGED <<account, world, files, stamp, stamps, day, held, failed>>

\* submit() raises, or is interrupted, before IB has the order.
SubmitFails(s) ==
  /\ "submit_fails" \in Faults
  /\ pc = "submit" /\ IsNext(s)
  /\ Abandon("settle")
  /\ UNCHANGED <<account, world, files, stamp, stamps, day, held, sent, some>>

\* submit() raises, or is interrupted, after IB has the order.
SubmitLost(s) ==
  /\ "lost_ack" \in Faults
  /\ pc = "submit" /\ IsNext(s)
  /\ Place(s, todo[s])
  /\ Abandon("settle")
  /\ UNCHANGED <<world, files, stamp, stamps, day, held, sent, some>>

Entry(kind, expected) ==
  [kind |-> kind, stamp |-> stamp, day |-> day, expected |-> expected]

\* write_journal of the dated file.  A run whose every order went through
\* ends here; one with a failed submit still has to report it.
WriteDated ==
  /\ pc = "settle" /\ some
  /\ ~Dated(journals, day) /\ day \notin stray
  /\ journals' = journals \cup {Entry("rebalance", ExpectedPositions(held, sent))}
  /\ IF failed
       THEN pc' = "report" /\ UNCHANGED <<stamp, stamps, day, local>>
       ELSE Forget
  /\ UNCHANGED <<account, world, events, stray>>

\* write_journal raises: the disk, an existing file, or a .tmp of a killed
\* run, which this failure removes.
WriteDatedFails ==
  /\ pc = "settle" /\ some
  /\ \/ "journal_fails" \in Faults
     \/ Dated(journals, day)
     \/ day \in stray
  /\ stray' = stray \ {day}
  /\ Record("error", sent)
  /\ Forget
  /\ UNCHANGED <<account, world, journals>>

\* The first submit raised: no journal, one error event.
NothingSubmitted ==
  /\ pc = "settle" /\ ~some
  /\ EndWithEvent("error", sent)

\* The error event of a partial submit, after its journal.
ReportPartial ==
  /\ pc = "report"
  /\ EndWithEvent("error", sent)

-----------------------------------------------------------------------------
(* The kill switch.                                                        *)

FlHoldings ==
  /\ pc = "fl_holdings"
  /\ IF \E s \in Symbols : pos[s] < 0
       THEN Halt("refused")
       ELSE /\ held' = pos
            /\ pc' = "fl_cancel"
            /\ UNCHANGED <<account, world, files, stamp, stamps, day,
                           todo, sent, some, failed>>

\* A flatten that cancels nothing.
CancelNothing == UNCHANGED <<buying, selling>>

\* cancel_all: nothing stays open; with "partial_cancel" any of the orders
\* may.
CancelAll ==
  \E kept \in SUBSET (Symbols \X {"BUY", "SELL"}) :
    /\ "partial_cancel" \in Faults \/ kept = {}
    /\ buying'  = [s \in Symbols |-> IF <<s, "BUY">>  \in kept THEN buying[s]  ELSE 0]
    /\ selling' = [s \in Symbols |-> IF <<s, "SELL">> \in kept THEN selling[s] ELSE 0]

\* A failed cancel_all is printed, and the selling goes on.
FlCancel ==
  /\ pc = "fl_cancel"
  /\ CancelAll
  /\ pc' = "fl_positions"
  /\ UNCHANGED <<pos, world, files, stamp, stamps, day, local>>

\* The positions are read again: one sell for each long one.
FlPositions ==
  /\ pc = "fl_positions"
  /\ todo' = [s \in Symbols |-> IF pos[s] > 0 THEN -pos[s] ELSE 0]
  /\ pc' = IF todo' = Flat THEN "fl_settle" ELSE "fl_sell"
  /\ UNCHANGED <<account, world, files, stamp, stamps, day, held, sent, some, failed>>

FlSellAccepted(s) ==
  /\ pc = "fl_sell" /\ todo[s] # 0
  /\ Place(s, todo[s])
  /\ sent' = [sent EXCEPT ![s] = todo[s]]
  /\ Advance(s, "fl_settle")
  /\ UNCHANGED <<world, files, stamp, stamps, day, held, failed>>

FlSellDead(s) ==
  /\ "dead_at_submit" \in Faults
  /\ pc = "fl_sell" /\ todo[s] # 0
  /\ sent' = [sent EXCEPT ![s] = DeadDelta(s)]
  /\ Advance(s, "fl_settle")
  /\ UNCHANGED <<account, world, files, stamp, stamps, day, held, failed>>

\* flatten() raises: in cancel_all, in the second read of the positions, or
\* before IB has a sell.  What it had sent so far is lost with its result,
\* and no journal is written.
FlFails ==
  /\ "flatten_fails" \in Faults
  /\ pc \in {"fl_cancel", "fl_positions", "fl_sell"}
  /\ EndWithEvent("error", Flat)

\* The same, after IB has one more sell.
FlSellLost(s) ==
  /\ "lost_ack" \in Faults
  /\ pc = "fl_sell" /\ todo[s] # 0
  /\ Place(s, todo[s])
  /\ Record("error", Flat)
  /\ Forget
  /\ UNCHANGED <<world, journals, stray>>

FlWrite ==
  /\ pc = "fl_settle"
  /\ journals' = journals \cup {Entry("flatten", ExpectedPositions(held, sent))}
  /\ Forget
  /\ UNCHANGED <<account, world, events, stray>>

FlWriteFails ==
  /\ "journal_fails" \in Faults
  /\ pc = "fl_settle"
  /\ EndWithEvent("error", sent)

-----------------------------------------------------------------------------
(* --accept-positions.                                                     *)

AcHoldings ==
  /\ pc = "ac_holdings"
  /\ held' = pos
  /\ pc' = "ac_orders"
  /\ UNCHANGED <<account, world, files, stamp, stamps, day, todo, sent, some, failed>>

AcOrders ==
  /\ pc = "ac_orders"
  /\ IF BookClear
       THEN /\ pc' = "ac_journal"
            /\ UNCHANGED <<account, world, files, stamp, stamps, day, local>>
       ELSE Halt("refused")

AcWrite ==
  /\ pc = "ac_journal"
  /\ journals' = journals \cup {Entry("accept", held)}
  /\ Forget
  /\ UNCHANGED <<account, world, events, stray>>

AcWriteFails ==
  /\ "journal_fails" \in Faults
  /\ pc = "ac_journal"
  /\ EndWithEvent("error", Flat)

-----------------------------------------------------------------------------

Init ==
  /\ pos \in [Symbols -> 0..MaxShares]
  /\ buying = Flat
  /\ selling = Flat
  /\ scenario \in Scenarios
  /\ today = 1
  /\ manual = 0
  /\ journals = {}
  /\ events = {}
  /\ stray = {}
  /\ pc = "idle"
  /\ stamp = 0
  /\ stamps = {}
  /\ day = 0
  /\ held = Flat
  /\ todo = Flat
  /\ sent = Flat
  /\ some = FALSE
  /\ failed = FALSE

Environment ==
  \/ \E s \in Symbols : Fill(s)
  \/ \E s \in Symbols : Expire(s)
  \/ \E s \in Symbols : ManualTrade(s)
  \/ NewDay

Evening ==
  \/ ReadHoldings
  \/ GateOrders
  \/ Checks
  \/ Size
  \/ \E s \in Symbols : SubmitAccepted(s)
  \/ \E s \in Symbols : SubmitDead(s)
  \/ \E s \in Symbols : SubmitFails(s)
  \/ \E s \in Symbols : SubmitLost(s)
  \/ WriteDated
  \/ WriteDatedFails
  \/ NothingSubmitted
  \/ ReportPartial

Flatten ==
  \/ FlHoldings
  \/ FlCancel
  \/ FlPositions
  \/ \E s \in Symbols : FlSellAccepted(s)
  \/ \E s \in Symbols : FlSellDead(s)
  \/ FlFails
  \/ \E s \in Symbols : FlSellLost(s)
  \/ FlWrite
  \/ FlWriteFails

AcceptRun ==
  \/ AcHoldings
  \/ AcOrders
  \/ AcWrite
  \/ AcWriteFails

\* What an active run does next.
RunStep == Evening \/ Flatten \/ AcceptRun

Starts == StartEvening \/ StartFlatten \/ StartAccept

Next ==
  \/ Environment
  \/ Starts
  \/ RunStep
  \/ Refuse
  \/ Crash
  \/ CrashInWrite

Spec == Init /\ [][Next]_vars

\* A run that is started gets to its end (a process keeps running unless it
\* is killed), and IB executes open orders at the next opening auction.
FairSpec ==
  /\ Spec
  /\ WF_vars(RunStep)
  /\ \A s \in Symbols : WF_vars(Fill(s))
=============================================================================
