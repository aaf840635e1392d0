-------------------------- MODULE RebalancerProofs --------------------------
(***************************************************************************)
(* Theorems about Rebalancer, for every set of symbols, every bound and    *)
(* every set of faults that the hypotheses of a theorem allow.             *)
(***************************************************************************)
EXTENDS RebalancerProperties, TLAPS

-----------------------------------------------------------------------------
(* Type correctness.                                                       *)

\* Nothing held is a vector of positions.
LEMMA FlatType == Flat \in Positions /\ Flat \in [Symbols -> Nat]
BY DEF Flat, Positions

\* IB's book keeps natural quantities when it queues an order.
LEMMA PlaceType ==
  ASSUME TypeOK, NEW s \in Symbols, NEW n \in Int, Place(s, n)
  PROVE  pos' \in Positions /\ buying' \in [Symbols -> Nat] /\ selling' \in [Symbols -> Nat]
BY DEF TypeOK, Place, Positions

\* The names of the places a run can be at.
LEMMA PcsMembers ==
  /\ "idle" \in Pcs /\ "killed" \in Pcs
  /\ "gate" \in Pcs /\ "orders" \in Pcs /\ "checks" \in Pcs /\ "size" \in Pcs
  /\ "submit" \in Pcs /\ "settle" \in Pcs /\ "report" \in Pcs
  /\ "fl_holdings" \in Pcs /\ "fl_cancel" \in Pcs /\ "fl_positions" \in Pcs
  /\ "fl_sell" \in Pcs /\ "fl_settle" \in Pcs
  /\ "ac_holdings" \in Pcs /\ "ac_orders" \in Pcs /\ "ac_journal" \in Pcs
BY DEF Pcs, Gone, EveningPcs, FlattenPcs, AcceptPcs

\* Dealing with one order keeps the types.
LEMMA AdvanceType ==
  ASSUME TypeOK, NEW s \in Symbols, NEW last \in Pcs, Advance(s, last)
  PROVE  todo' \in Positions /\ pc' \in Pcs /\ some' \in BOOLEAN
<1>1. todo' \in Positions
  BY DEF Advance, TypeOK, Positions
<1>2. pc' \in Pcs
  BY DEF Advance, TypeOK
<1>. QED
  BY <1>1, <1>2 DEF Advance

\* A run is over, at its end or killed.
Over == Forget \/ Leave("killed")

\* Its end resets its memory to well-typed values.
LEMMA ForgetType ==
  ASSUME TypeOK, Over
  PROVE  /\ pc' \in Pcs /\ stamp' \in Nat /\ day' \in Nat /\ stamps' \subseteq Nat
         /\ held' \in Positions /\ todo' \in Positions /\ sent' \in Positions
         /\ some' \in BOOLEAN /\ failed' \in BOOLEAN
BY FlatType, PcsMembers DEF TypeOK, Over, Forget, Leave

\* A line of events.jsonl is an event, written or lost.
LEMMA RecordType ==
  ASSUME TypeOK, NEW st \in Statuses, NEW o \in Positions, Record(st, o)
  PROVE  events' \subseteq Event
<1>1. [stamp |-> stamp, status |-> st, orders |-> o] \in Event
  BY DEF TypeOK, Event
<1>. QED
  BY <1>1 DEF Record, TypeOK

\* Ending with an event keeps every variable in its type.
LEMMA EndType ==
  ASSUME TypeOK, NEW st \in Statuses, NEW o \in Positions, EndWithEvent(st, o)
  PROVE  TypeOK'
<1>2. events' \subseteq Event
  BY RecordType DEF EndWithEvent
<1>3. Forget
  BY DEF EndWithEvent
<1>. QED
  BY <1>2, <1>3, ForgetType DEF Over, EndWithEvent, TypeOK, account, world

\* So does a halt.
LEMMA HaltType ==
  ASSUME TypeOK, NEW st \in Statuses, Halt(st)
  PROVE  TypeOK'
BY EndType, FlatType DEF Halt, Statuses

\* What a journal is expected to say is a vector of positions.
LEMMA ExpectedType ==
  ASSUME NEW p \in Positions, NEW d \in Positions
  PROVE  ExpectedPositions(p, d) \in Positions
BY DEF ExpectedPositions, Positions

\* A new journal file is a journal.
LEMMA EntryType ==
  ASSUME TypeOK, NEW k \in Kinds, NEW p \in Positions
  PROVE  Entry(k, p) \in Journal
BY DEF TypeOK, Entry, Journal

\* The environment keeps the types.
LEMMA EnvironmentType == TypeOK /\ Environment => TypeOK'
<1>. SUFFICES ASSUME TypeOK, Environment PROVE TypeOK'
  OBVIOUS
<1>. USE DEF Positions, world, files, local
<1>1. ASSUME NEW s \in Symbols, Fill(s) PROVE TypeOK'
  <2>1. pos' \in Positions /\ buying' \in [Symbols -> Nat] /\ selling' \in [Symbols -> Nat]
    BY <1>1 DEF Fill, TypeOK
  <2>. QED
    BY <1>1, <2>1 DEF Fill, TypeOK
<1>2. ASSUME NEW s \in Symbols, Expire(s) PROVE TypeOK'
  <2>1. pos' \in Positions /\ buying' \in [Symbols -> Nat] /\ selling' \in [Symbols -> Nat]
    BY <1>2 DEF Expire, TypeOK
  <2>. QED
    BY <1>2, <2>1 DEF Expire, TypeOK
<1>3. ASSUME NEW s \in Symbols, ManualTrade(s) PROVE TypeOK'
  <2>1. pos' \in Positions /\ manual' \in Nat
    BY <1>3 DEF ManualTrade, TypeOK
  <2>. QED
    BY <1>3, <2>1 DEF ManualTrade, TypeOK
<1>4. CASE NewDay
  BY <1>4 DEF NewDay, TypeOK, account
<1>. QED
  BY <1>1, <1>2, <1>3, <1>4 DEF Environment

\* The evening run keeps the types.
LEMMA EveningType == TypeOK /\ Evening => TypeOK'
<1>. SUFFICES ASSUME TypeOK, Evening PROVE TypeOK'
  OBVIOUS
<1>. USE DEF account, world, files, local
<1>0. Flat \in Positions /\ sent \in Positions
  BY FlatType DEF TypeOK
<1>1. CASE ReadHoldings
  BY <1>1 DEF ReadHoldings, TypeOK, Pcs, EveningPcs
<1>2. CASE GateOrders
  <2>1. CASE Halt("refused")
    BY <1>0, <2>1, HaltType DEF Statuses
  <2>. QED
    BY <1>2, <2>1 DEF GateOrders, TypeOK, Pcs, EveningPcs
<1>3. CASE Checks
  <2>1. CASE Halt("refused") \/ Halt("reconcile_mismatch")
    BY <1>0, <2>1, HaltType DEF Statuses
  <2>. QED
    BY <1>3, <2>1 DEF Checks, TypeOK, Pcs, EveningPcs
<1>4. CASE Size
  <2>1. CASE Halt("refused") \/ Halt("nothing_to_trade")
    BY <1>0, <2>1, HaltType DEF Statuses
  <2>2. ASSUME NEW d \in Plans, todo' = Orders(d)
        PROVE  todo' \in Positions
    BY <2>2, RebalancerAssumption DEF Plans, Orders, Positions, TypeOK
  <2>. QED
    BY <1>4, <2>1, <2>2 DEF Size, TypeOK, Pcs, EveningPcs
<1>5. ASSUME NEW s \in Symbols, SubmitAccepted(s) PROVE TypeOK'
  <2>1. todo[s] \in Int
    BY DEF TypeOK, Positions
  <2>2. Place(s, todo[s])
    BY <1>5 DEF SubmitAccepted
  <2>3. sent' \in Positions
    BY <1>5, <2>1 DEF SubmitAccepted, TypeOK, Positions
  <2>4. todo' \in Positions /\ some' \in BOOLEAN /\ pc' \in Pcs
    BY <1>5, AdvanceType, PcsMembers DEF SubmitAccepted
  <2>. QED
    BY <1>5, <2>1, <2>2, <2>3, <2>4, PlaceType DEF SubmitAccepted, TypeOK
<1>6. ASSUME NEW s \in Symbols, SubmitDead(s) PROVE TypeOK'
  <2>2. sent' = [sent EXCEPT ![s] = 0]
    BY <1>6 DEF SubmitDead, DeadDelta
  <2>3. sent' \in Positions
    BY <2>2 DEF TypeOK, Positions
  <2>4. todo' \in Positions /\ some' \in BOOLEAN /\ pc' \in Pcs
    BY <1>6, AdvanceType, PcsMembers DEF SubmitDead
  <2>. QED
    BY <1>6, <2>3, <2>4 DEF SubmitDead, TypeOK
<1>7. ASSUME NEW s \in Symbols, SubmitFails(s) PROVE TypeOK'
  BY <1>0, <1>7 DEF SubmitFails, Abandon, TypeOK, Pcs, EveningPcs
<1>8. ASSUME NEW s \in Symbols, SubmitLost(s) PROVE TypeOK'
  <2>1. todo[s] \in Int
    BY DEF TypeOK, Positions
  <2>2. Place(s, todo[s])
    BY <1>8 DEF SubmitLost
  <2>. QED
    BY <1>0, <1>8, <2>1, <2>2, PlaceType DEF SubmitLost, Abandon, TypeOK, Pcs, EveningPcs
<1>9. CASE WriteDated
  <2>1. Entry("rebalance", ExpectedPositions(held, sent)) \in Journal
    BY EntryType, ExpectedType DEF TypeOK, Kinds
  <2>2. journals' \subseteq Journal
    BY <1>9, <2>1 DEF WriteDated, TypeOK
  <2>3. CASE Forget
    BY <1>9, <2>2, <2>3, ForgetType DEF Over, WriteDated, TypeOK
  <2>. QED
    BY <1>9, <2>2, <2>3 DEF WriteDated, TypeOK, Pcs, EveningPcs
<1>10. CASE WriteDatedFails
  <2>1. events' \subseteq Event
    BY <1>0, <1>10, RecordType DEF WriteDatedFails, Statuses
  <2>2. events' \subseteq Event /\ stray' \subseteq Nat
    BY <1>10, <2>1 DEF WriteDatedFails, TypeOK
  <2>3. Forget
    BY <1>10 DEF WriteDatedFails
  <2>. QED
    BY <1>10, <2>2, <2>3, ForgetType DEF Over, WriteDatedFails, TypeOK
<1>11. CASE NothingSubmitted
  BY <1>0, <1>11, EndType DEF NothingSubmitted, Statuses
<1>12. CASE ReportPartial
  BY <1>0, <1>12, EndType DEF ReportPartial, Statuses
<1>. QED
  BY <1>1, <1>2, <1>3, <1>4, <1>5, <1>6, <1>7, <1>8, <1>9, <1>10, <1>11, <1>12
  DEF Evening

\* The kill switch keeps the types.
LEMMA FlattenType == TypeOK /\ Flatten => TypeOK'
<1>. SUFFICES ASSUME TypeOK, Flatten PROVE TypeOK'
  OBVIOUS
<1>. USE DEF account, world, files, local
<1>0. Flat \in Positions /\ sent \in Positions
  BY FlatType DEF TypeOK
<1>1. CASE FlHoldings
  <2>1. CASE Halt("refused")
    BY <1>0, <2>1, HaltType DEF Statuses
  <2>. QED
    BY <1>1, <2>1 DEF FlHoldings, TypeOK, Pcs, FlattenPcs
<1>2. CASE FlCancel
  <2>1. buying' \in [Symbols -> Nat] /\ selling' \in [Symbols -> Nat]
    <3>1. PICK kept \in SUBSET (Symbols \X {"BUY", "SELL"}) :
            /\ buying'  = [s \in Symbols |-> IF <<s, "BUY">>  \in kept THEN buying[s]  ELSE 0]
            /\ selling' = [s \in Symbols |-> IF <<s, "SELL">> \in kept THEN selling[s] ELSE 0]
      BY <1>2 DEF FlCancel, CancelAll
    <3>. QED
      BY <3>1 DEF TypeOK
  <2>. QED
    BY <1>2, <2>1 DEF FlCancel, TypeOK, Pcs, FlattenPcs
<1>3. CASE FlPositions
  <2>1. todo' \in Positions
    <3>1. \A s \in Symbols : (IF pos[s] > 0 THEN -pos[s] ELSE 0) \in Int
      BY DEF TypeOK, Positions
    <3>. QED
      BY <1>3, <3>1 DEF FlPositions, Positions
  <2>. QED
    BY <1>3, <2>1, PcsMembers DEF FlPositions, TypeOK
<1>4. ASSUME NEW s \in Symbols, FlSellAccepted(s) PROVE TypeOK'
  <2>1. todo[s] \in Int
    BY DEF TypeOK, Positions
  <2>2. Place(s, todo[s])
    BY <1>4 DEF FlSellAccepted
  <2>3. sent' \in Positions
    BY <1>4, <2>1 DEF FlSellAccepted, TypeOK, Positions
  <2>4. todo' \in Positions /\ some' \in BOOLEAN /\ pc' \in Pcs
    BY <1>4, AdvanceType, PcsMembers DEF FlSellAccepted
  <2>. QED
    BY <1>4, <2>1, <2>2, <2>3, <2>4, PlaceType DEF FlSellAccepted, TypeOK
<1>5. ASSUME NEW s \in Symbols, FlSellDead(s) PROVE TypeOK'
  <2>2. sent' = [sent EXCEPT ![s] = 0]
    BY <1>5 DEF FlSellDead, DeadDelta
  <2>3. sent' \in Positions
    BY <2>2 DEF TypeOK, Positions
  <2>4. todo' \in Positions /\ some' \in BOOLEAN /\ pc' \in Pcs
    BY <1>5, AdvanceType, PcsMembers DEF FlSellDead
  <2>. QED
    BY <1>5, <2>3, <2>4 DEF FlSellDead, TypeOK
<1>6. CASE FlFails
  BY <1>0, <1>6, EndType DEF FlFails, Statuses
<1>7. ASSUME NEW s \in Symbols, FlSellLost(s) PROVE TypeOK'
  <2>1. todo[s] \in Int
    BY DEF TypeOK, Positions
  <2>2. Place(s, todo[s]) /\ Forget
    BY <1>7 DEF FlSellLost
  <2>4. events' \subseteq Event
    BY <1>0, <1>7, RecordType DEF FlSellLost, Statuses
  <2>. QED
    BY <1>7, <2>1, <2>2, <2>4, PlaceType, ForgetType DEF Over, FlSellLost, TypeOK
<1>8. CASE FlWrite
  <2>1. Entry("flatten", ExpectedPositions(held, sent)) \in Journal
    BY EntryType, ExpectedType DEF TypeOK, Kinds
  <2>2. journals' \subseteq Journal /\ Forget
    BY <1>8, <2>1 DEF FlWrite, TypeOK
  <2>. QED
    BY <1>8, <2>2, ForgetType DEF Over, FlWrite, TypeOK
<1>9. CASE FlWriteFails
  BY <1>0, <1>9, EndType DEF FlWriteFails, Statuses
<1>. QED
  BY <1>1, <1>2, <1>3, <1>4, <1>5, <1>6, <1>7, <1>8, <1>9 DEF Flatten

\* Accepting the positions keeps the types.
LEMMA AcceptType == TypeOK /\ AcceptRun => TypeOK'
<1>. SUFFICES ASSUME TypeOK, AcceptRun PROVE TypeOK'
  OBVIOUS
<1>. USE DEF account, world, files, local
<1>0. Flat \in Positions
  BY FlatType
<1>1. CASE AcHoldings
  BY <1>1 DEF AcHoldings, TypeOK, Pcs, AcceptPcs
<1>2. CASE AcOrders
  <2>1. CASE Halt("refused")
    BY <1>0, <2>1, HaltType DEF Statuses
  <2>. QED
    BY <1>2, <2>1 DEF AcOrders, TypeOK, Pcs, AcceptPcs
<1>3. CASE AcWrite
  <2>1. Entry("accept", held) \in Journal
    BY EntryType DEF TypeOK, Kinds
  <2>2. journals' \subseteq Journal /\ Forget
    BY <1>3, <2>1 DEF AcWrite, TypeOK
  <2>. QED
    BY <1>3, <2>2, ForgetType DEF Over, AcWrite, TypeOK
<1>4. CASE AcWriteFails
  BY <1>0, <1>4, EndType DEF AcWriteFails, Statuses
<1>. QED
  BY <1>1, <1>2, <1>3, <1>4 DEF AcceptRun

\* A scenario never changes.
LEMMA Rigid == [Next]_vars => UNCHANGED scenario
<1>. SUFFICES ASSUME [Next]_vars PROVE scenario' = scenario
  OBVIOUS
<1>. USE DEF world
<1>1. CASE Environment
  BY <1>1 DEF Environment, Fill, Expire, ManualTrade, NewDay
<1>2. CASE Evening
  BY <1>2 DEF Evening, ReadHoldings, GateOrders, Checks, Size, SubmitAccepted,
     SubmitDead, SubmitFails, SubmitLost, WriteDated, WriteDatedFails,
     NothingSubmitted, ReportPartial, EndWithEvent, Halt
<1>3. CASE Flatten
  BY <1>3 DEF Flatten, FlHoldings, FlCancel, FlPositions, FlSellAccepted,
     FlSellDead, FlFails, FlSellLost, FlWrite, FlWriteFails, EndWithEvent, Halt
<1>4. CASE AcceptRun
  BY <1>4 DEF AcceptRun, AcHoldings, AcOrders, AcWrite, AcWriteFails, EndWithEvent, Halt
<1>5. CASE Starts \/ Refuse \/ Crash \/ CrashInWrite
  BY <1>5 DEF Starts, StartEvening, StartFlatten, StartAccept, Start, Refuse,
     Crash, CrashInWrite, EndWithEvent, Halt
<1>6. CASE UNCHANGED vars
  BY <1>6 DEF vars
<1>. QED
  BY <1>1, <1>2, <1>3, <1>4, <1>5, <1>6 DEF Next, RunStep

\* Every step keeps the types.
LEMMA NextType == TypeOK /\ [Next]_vars => TypeOK'
<1>. SUFFICES ASSUME TypeOK, [Next]_vars PROVE TypeOK'
  OBVIOUS
<1>. USE DEF account, world, files, local
<1>1. CASE Starts
  <2>1. PICK first \in Pcs : Start(first)
    BY <1>1, PcsMembers DEF Starts, StartEvening, StartFlatten, StartAccept
  <2>2. stamp' \in Nat /\ stamps' \subseteq Nat
    BY <2>1, RebalancerAssumption DEF Start, TypeOK
  <2>. QED
    BY <2>1, <2>2 DEF Start, TypeOK
<1>2. CASE Refuse
  BY <1>2, HaltType DEF Refuse, Statuses
<1>3. CASE Crash
  <2>1. Leave("killed")
    BY <1>3 DEF Crash
  <2>. QED
    BY <1>3, <2>1, ForgetType DEF Over, Crash, TypeOK
<1>4. CASE CrashInWrite
  <2>1. Leave("killed")
    BY <1>4 DEF CrashInWrite
  <2>2. stray' \subseteq Nat
    BY <1>4 DEF CrashInWrite, TypeOK
  <2>. QED
    BY <1>4, <2>1, <2>2, ForgetType DEF Over, CrashInWrite, TypeOK
<1>5. CASE UNCHANGED vars
  BY <1>5 DEF vars, TypeOK
<1>. QED
  BY <1>1, <1>2, <1>3, <1>4, <1>5, EnvironmentType, EveningType, FlattenType, AcceptType
  DEF Next, RunStep

\* The account, the folder and the run's memory always have their types; in
\* particular no open quantity is ever negative.
THEOREM TypeCorrect == Spec => []TypeOK
<1>1. ASSUME Init PROVE TypeOK
  <2>1. pos \in Positions
    BY <1>1, RebalancerAssumption DEF Init, Positions
  <2>2. some \in BOOLEAN /\ failed \in BOOLEAN
    BY <1>1 DEF Init
  <2>3. /\ buying \in [Symbols -> Nat] /\ selling \in [Symbols -> Nat]
        /\ held \in Positions /\ todo \in Positions /\ sent \in Positions
    BY <1>1, FlatType DEF Init
  <2>4. /\ today \in Nat /\ manual \in Nat /\ stamp \in Nat /\ day \in Nat
        /\ pc \in Pcs /\ scenario \in Scenarios /\ stamps \subseteq Nat
    BY <1>1, PcsMembers DEF Init
  <2>5. journals \subseteq Journal /\ events \subseteq Event /\ stray \subseteq Nat
    BY <1>1 DEF Init
  <2>. QED
    BY <2>1, <2>2, <2>3, <2>4, <2>5 DEF TypeOK
<1>. QED
  BY <1>1, NextType, PTL DEF Spec

-----------------------------------------------------------------------------
(* An evening run trades on the account it read.                           *)

\* Why SizedOnReconciledAccount holds when the account only moves between
\* runs: the gate's two reads are still true when the orders go out, the
\* book is empty when they start, and no symbol is sent twice.
SizedInv ==
  /\ pc \in {"orders", "checks", "size", "submit"} => held = pos
  /\ pc \in {"checks", "size"} => BookClear
  /\ pc \in {"idle", "killed", "gate", "orders", "checks", "size"} => sent = Flat
  /\ pc = "submit" =>
       \A s \in Symbols : /\ buying[s] - selling[s] = sent[s]
                          /\ todo[s] # 0 => sent[s] = 0
  /\ pc \in {"size", "submit"} => Matches(LatestBaseline(journals), held)

\* A run that is over keeps it: a new run starts from a clean memory.
LEMMA ForgetSized == Over => SizedInv'
BY DEF Over, Forget, Leave, SizedInv

\* Ending with an event, or halting, ends the run.
LEMMA EndForgets ==
  ASSUME NEW st, NEW o, EndWithEvent(st, o) \/ Halt(st)
  PROVE  Forget
BY DEF EndWithEvent, Halt

\* The evening run's steps keep it.
LEMMA EveningSized == TypeOK /\ SizedInv /\ Evening => SizedInv'
<1>. SUFFICES ASSUME TypeOK, SizedInv, Evening PROVE SizedInv'
  OBVIOUS
<1>. USE DEF account, world, files, local
<1>1. CASE ReadHoldings
  BY <1>1 DEF ReadHoldings, SizedInv
<1>2. CASE GateOrders
  <2>1. CASE Halt("refused")
    BY <2>1, EndForgets, ForgetSized DEF Over
  <2>2. CASE BookClear
    BY <1>2, <2>2 DEF GateOrders, SizedInv, BookClear
  <2>. QED
    BY <1>2, <2>1, <2>2 DEF GateOrders
<1>3. CASE Checks
  <2>1. CASE Halt("refused") \/ Halt("reconcile_mismatch")
    BY <2>1, EndForgets, ForgetSized DEF Over
  <2>2. CASE pc' = "size"
    BY <1>3, <2>1, <2>2 DEF Checks, SizedInv, BookClear
  <2>. QED
    BY <1>3, <2>1, <2>2 DEF Checks
<1>4. CASE Size
  <2>1. CASE Halt("refused") \/ Halt("nothing_to_trade")
    BY <2>1, EndForgets, ForgetSized DEF Over
  <2>2. ASSUME NEW d \in Plans, todo' = Orders(d), pc' = "submit",
               UNCHANGED <<account, world, files, stamp, stamps, day, held, sent, some, failed>>
        PROVE  SizedInv'
    <3>1. /\ held = pos /\ BookClear /\ sent = Flat
          /\ Matches(LatestBaseline(journals), held)
      BY <1>4 DEF Size, SizedInv
    <3>2. \A s \in Symbols : buying[s] - selling[s] = sent[s] /\ sent[s] = 0
      <4>. SUFFICES ASSUME NEW s \in Symbols
                    PROVE  buying[s] - selling[s] = sent[s] /\ sent[s] = 0
        OBVIOUS
      <4>1. buying[s] = 0
        BY <3>1 DEF BookClear, Flat
      <4>2. selling[s] = 0
        BY <3>1 DEF BookClear, Flat
      <4>3. sent[s] = 0
        BY <3>1 DEF Flat
      <4>. QED
        BY <4>1, <4>2, <4>3
    <3>3. UNCHANGED <<pos, buying, selling, journals, held, sent>>
      BY <2>2
    <3>. QED
      BY <2>2, <3>1, <3>2, <3>3 DEF SizedInv
  <2>. QED
    BY <1>4, <2>1, <2>2 DEF Size
<1>5. ASSUME NEW s \in Symbols, SubmitAccepted(s) PROVE SizedInv'
  <2>1. /\ pc = "submit" /\ pc' \in {"submit", "settle"}
        /\ todo[s] # 0
        /\ UNCHANGED <<pos, journals, held>>
    BY <1>5 DEF SubmitAccepted, Advance, IsNext, Place
  <2>2. \A r \in Symbols : /\ buying'[r] - selling'[r] = sent'[r]
                           /\ todo'[r] # 0 => sent'[r] = 0
    <3>1. /\ sent[s] = 0
          /\ \A r \in Symbols : /\ buying[r] - selling[r] = sent[r]
                                /\ todo[r] # 0 => sent[r] = 0
      BY <2>1 DEF SizedInv
    <3>2. /\ buying'  = [buying  EXCEPT ![s] = @ + (IF todo[s] > 0 THEN todo[s] ELSE 0)]
          /\ selling' = [selling EXCEPT ![s] = @ + (IF todo[s] < 0 THEN -todo[s] ELSE 0)]
          /\ sent' = [sent EXCEPT ![s] = todo[s]]
          /\ todo' = [todo EXCEPT ![s] = 0]
      BY <1>5 DEF SubmitAccepted, Advance, Place
    <3>3. /\ buying \in [Symbols -> Int] /\ selling \in [Symbols -> Int]
          /\ sent \in [Symbols -> Int] /\ todo \in [Symbols -> Int]
      BY DEF TypeOK, Positions
    <3>. QED
      BY <3>1, <3>2, <3>3
  <2>. QED
    BY <2>1, <2>2 DEF SizedInv
<1>6. ASSUME NEW s \in Symbols, SubmitDead(s) PROVE SizedInv'
  <2>1. /\ pc = "submit" /\ pc' \in {"submit", "settle"}
        /\ todo[s] # 0
        /\ UNCHANGED <<pos, buying, selling, journals, held>>
    BY <1>6 DEF SubmitDead, Advance, IsNext
  <2>2. sent' = sent
    BY <1>6, <2>1 DEF SubmitDead, DeadDelta, SizedInv, TypeOK, Positions
  <2>3. \A r \in Symbols : todo'[r] # 0 => todo[r] # 0
    BY <1>6 DEF SubmitDead, Advance, TypeOK, Positions
  <2>. QED
    BY <2>1, <2>2, <2>3 DEF SizedInv
<1>7. ASSUME NEW s \in Symbols, SubmitFails(s) \/ SubmitLost(s) PROVE SizedInv'
  BY <1>7 DEF SubmitFails, SubmitLost, Abandon, SizedInv
<1>8. CASE WriteDated
  <2>1. CASE Forget
    BY <2>1, ForgetSized DEF Over
  <2>2. CASE pc' = "report"
    BY <2>2 DEF SizedInv
  <2>. QED
    BY <1>8, <2>1, <2>2 DEF WriteDated
<1>9. CASE WriteDatedFails
  BY <1>9, ForgetSized DEF Over, WriteDatedFails
<1>10. CASE NothingSubmitted \/ ReportPartial
  BY <1>10, EndForgets, ForgetSized DEF Over, NothingSubmitted, ReportPartial
<1>. QED
  BY <1>1, <1>2, <1>3, <1>4, <1>5, <1>6, <1>7, <1>8, <1>9, <1>10 DEF Evening

\* The other two commands are over, or at a place of their own.
LEMMA OthersPlaces == Flatten \/ AcceptRun => Forget \/ pc' \in FlattenPcs \cup AcceptPcs
<1>1. Flatten => Forget \/ pc' \in FlattenPcs
  <2>. SUFFICES ASSUME Flatten PROVE Forget \/ pc' \in FlattenPcs
    OBVIOUS
  <2>. USE DEF FlattenPcs
  <2>1. CASE FlHoldings
    BY <2>1, EndForgets DEF FlHoldings
  <2>2. CASE FlCancel \/ FlPositions
    BY <2>2 DEF FlCancel, FlPositions
  <2>3. ASSUME NEW s \in Symbols, FlSellAccepted(s) \/ FlSellDead(s)
        PROVE  pc' \in FlattenPcs
    BY <2>3 DEF FlSellAccepted, FlSellDead, Advance
  <2>4. CASE FlFails \/ FlWrite \/ FlWriteFails \/ \E s \in Symbols : FlSellLost(s)
    BY <2>4, EndForgets DEF FlFails, FlWrite, FlWriteFails, FlSellLost
  <2>. QED
    BY <2>1, <2>2, <2>3, <2>4 DEF Flatten
<1>2. AcceptRun => Forget \/ pc' \in AcceptPcs
  BY EndForgets DEF AcceptRun, AcHoldings, AcOrders, AcWrite, AcWriteFails, AcceptPcs
<1>. QED
  BY <1>1, <1>2

\* Of such places the invariant says nothing.
LEMMA OthersSized == Flatten \/ AcceptRun => SizedInv'
<1>1. pc' \in FlattenPcs \cup AcceptPcs => SizedInv'
  BY DEF FlattenPcs, AcceptPcs, SizedInv
<1>. QED
  BY <1>1, OthersPlaces, ForgetSized DEF Over

\* Every step keeps it if the account only moves between runs.
LEMMA NextSized ==
  ASSUME "midrun" \notin Faults, TypeOK, SizedInv, [Next]_vars
  PROVE  SizedInv'
<1>. USE DEF account, world, files, local
<1>1. CASE Environment
  <2>1. pc \in Gone /\ UNCHANGED <<pc, sent>>
    BY <1>1 DEF Environment, Fill, Expire, ManualTrade, NewDay, Between
  <2>. QED
    BY <2>1 DEF Gone, SizedInv
<1>2. CASE Starts
  <2>1. pc \in Gone /\ UNCHANGED <<sent>> /\ pc' \in {"gate", "fl_holdings", "ac_holdings"}
    BY <1>2 DEF Starts, StartEvening, StartFlatten, StartAccept, Start
  <2>. QED
    BY <2>1 DEF Gone, SizedInv
<1>3. CASE Refuse \/ Crash \/ CrashInWrite
  BY <1>3, EndForgets, ForgetSized DEF Over, Refuse, Crash, CrashInWrite
<1>4. CASE UNCHANGED vars
  BY <1>4 DEF vars, SizedInv, BookClear
<1>. QED
  BY <1>1, <1>2, <1>3, <1>4, EveningSized, OthersSized DEF Next, RunStep

\* If the account only moves between runs, an evening run never sends an
\* order sized on anything but the reconciled account, whatever else fails.
THEOREM SizedSafe == Spec => []SizedOnReconciledAccount
<1>. DEFINE Between_ == "midrun" \notin Faults
<1>1. Init => SizedInv
  BY DEF Init, SizedInv
<1>2. TypeOK /\ (Between_ => SizedInv) /\ [Next]_vars => (Between_ => SizedInv)'
  BY NextSized, Rigid DEF Faults
<1>3. TypeOK /\ (Between_ => SizedInv) => SizedOnReconciledAccount
  BY DEF TypeOK, SizedInv, SizedOnReconciledAccount, Owed, Positions
<1>. QED
  BY <1>1, <1>2, <1>3, TypeCorrect, PTL DEF Spec

-----------------------------------------------------------------------------
(* No share is sold twice.                                                 *)

\* Every sell still to be sent is covered: its symbol has no open sell, and
\* its shares are held.
Covered ==
  \A s \in Symbols : todo[s] < 0 => selling[s] = 0 /\ -todo[s] =< pos[s]

\* Why Coverable holds: what a run has yet to sell is covered from the
\* moment it is planned, and a flatten plans on a book it has emptied.
SellInv ==
  /\ Coverable
  /\ pc \in {"submit", "fl_sell"} => Covered
  /\ pc = "fl_positions" => selling = Flat

\* Where a run plans and sends nothing, only the account counts.
LEMMA QuietSell ==
  ASSUME SellInv, UNCHANGED <<pos, selling>>,
         pc' \notin {"submit", "fl_sell", "fl_positions"}
  PROVE  SellInv'
BY DEF SellInv, Coverable

\* So it does when a run ends.
LEMMA ForgetSell ==
  ASSUME SellInv, UNCHANGED <<pos, selling>>, Over
  PROVE  SellInv'
BY QuietSell DEF Over, Forget, Leave

\* Also with an event.
LEMMA EndSell ==
  ASSUME SellInv, NEW st, NEW o, EndWithEvent(st, o) \/ Halt(st)
  PROVE  SellInv'
BY ForgetSell DEF Over, EndWithEvent, Halt, account

\* Sending a covered sell, or a buy, oversells nothing.
LEMMA PlaceSell ==
  ASSUME TypeOK, Coverable, Covered, NEW s \in Symbols, Place(s, todo[s])
  PROVE  /\ Coverable'
         /\ \A r \in Symbols \ {s} : selling'[r] = selling[r]
         /\ pos' = pos
<1>1. /\ pos' = pos
      /\ selling' = [selling EXCEPT ![s] = @ + (IF todo[s] < 0 THEN -todo[s] ELSE 0)]
  BY DEF Place
<1>2. /\ pos \in [Symbols -> Int] /\ selling \in [Symbols -> Nat]
      /\ todo \in [Symbols -> Int]
  BY DEF TypeOK, Positions
<1>3. selling'[s] =< pos'[s]
  BY <1>1, <1>2 DEF Coverable, Covered
<1>4. \A r \in Symbols \ {s} : selling'[r] = selling[r]
  BY <1>1, <1>2
<1>. QED
  BY <1>1, <1>3, <1>4 DEF Coverable

\* And what is left to send stays covered.
LEMMA SendSell ==
  ASSUME TypeOK, Coverable, Covered, NEW s \in Symbols, NEW last \in Pcs,
         last \notin {"submit", "fl_sell", "fl_positions"},
         pc \in {"submit", "fl_sell"},
         Place(s, todo[s]), Advance(s, last)
  PROVE  SellInv'
<1>1. todo' = [todo EXCEPT ![s] = 0] /\ pc' \in {last, pc}
  BY DEF Advance
<1>2. todo'[s] = 0 /\ \A r \in Symbols \ {s} : todo'[r] = todo[r]
  BY <1>1 DEF TypeOK, Positions
<1>3. \A r \in Symbols \ {s} : selling'[r] = selling[r] /\ pos'[r] = pos[r]
  BY PlaceSell
<1>4. Covered'
  <2>. SUFFICES ASSUME NEW r \in Symbols, todo'[r] < 0
                PROVE  selling'[r] = 0 /\ -(todo'[r]) =< pos'[r]
    BY DEF Covered
  <2>1. r # s /\ todo'[r] = todo[r]
    BY <1>2
  <2>. QED
    BY <1>3, <2>1 DEF Covered
<1>. QED
  BY <1>1, <1>4, PlaceSell DEF SellInv

\* A dead order takes nothing from the account, and the rest stays covered.
LEMMA DeadSell ==
  ASSUME TypeOK, Coverable, Covered, NEW s \in Symbols, NEW last \in Pcs,
         last \notin {"submit", "fl_sell", "fl_positions"},
         pc \in {"submit", "fl_sell"},
         UNCHANGED <<pos, selling>>, Advance(s, last)
  PROVE  SellInv'
<1>1. todo' = [todo EXCEPT ![s] = 0] /\ pc' \in {last, pc}
  BY DEF Advance
<1>2. todo'[s] = 0 /\ \A r \in Symbols \ {s} : todo'[r] = todo[r]
  BY <1>1 DEF TypeOK, Positions
<1>3. Covered'
  <2>. SUFFICES ASSUME NEW r \in Symbols, todo'[r] < 0
                PROVE  selling'[r] = 0 /\ -(todo'[r]) =< pos'[r]
    BY DEF Covered
  <2>1. r # s /\ todo'[r] = todo[r]
    BY <1>2
  <2>. QED
    BY <2>1 DEF Covered
<1>4. Coverable'
  BY DEF Coverable
<1>. QED
  BY <1>1, <1>3, <1>4 DEF SellInv

\* Between the runs nothing is oversold: fills take from both sides, and the
\* owner sells only what is not being sold.
LEMMA EnvironmentSell ==
  ASSUME "midrun" \notin Faults, TypeOK, SellInv, Environment
  PROVE  SellInv'
<1>. USE DEF world, files, local
<1>0. /\ Coverable
      /\ pos \in [Symbols -> Int] /\ buying \in [Symbols -> Nat]
      /\ selling \in [Symbols -> Nat]
  BY DEF SellInv, TypeOK, Positions
<1>1. pc \in Gone /\ pc' = pc
  BY DEF Environment, Fill, Expire, ManualTrade, NewDay, Between
<1>2. ASSUME NEW s \in Symbols, Fill(s) PROVE Coverable'
  BY <1>0, <1>2 DEF Fill, Coverable
<1>3. ASSUME NEW s \in Symbols, Expire(s) PROVE Coverable'
  BY <1>0, <1>3 DEF Expire, Coverable
<1>4. ASSUME NEW s \in Symbols, ManualTrade(s) PROVE Coverable'
  BY <1>0, <1>4 DEF ManualTrade, Coverable
<1>5. ASSUME NewDay PROVE Coverable'
  BY <1>0, <1>5 DEF NewDay, Coverable, account
<1>6. Coverable'
  BY <1>2, <1>3, <1>4, <1>5 DEF Environment
<1>. QED
  BY <1>1, <1>6 DEF Gone, SellInv

\* The evening run's steps keep it.
LEMMA EveningSell == TypeOK /\ SizedInv /\ SellInv /\ Evening => SellInv'
<1>. SUFFICES ASSUME TypeOK, SizedInv, SellInv, Evening PROVE SellInv'
  OBVIOUS
<1>. USE DEF account
<1>1. CASE ReadHoldings
  BY <1>1, QuietSell DEF ReadHoldings
<1>2. CASE GateOrders \/ Checks
  BY <1>2, QuietSell, EndSell DEF GateOrders, Checks
<1>3. CASE Size
  <2>1. CASE Halt("refused") \/ Halt("nothing_to_trade")
    BY <2>1, EndSell
  <2>2. ASSUME ~(\E s \in Symbols : held[s] < 0),
               NEW d \in Plans, todo' = Orders(d), pc' = "submit",
               UNCHANGED account
        PROVE  SellInv'
    <3>1. held = pos /\ selling = Flat
      BY <1>3 DEF Size, SizedInv, BookClear
    <3>2. ASSUME NEW s \in Symbols, todo'[s] < 0
          PROVE  selling[s] = 0 /\ -(todo'[s]) =< pos[s]
      <4>1. todo'[s] = d[s] - pos[s]
        BY <2>2, <3>1 DEF Orders
      <4>2. d[s] \in Nat /\ pos[s] \in Int
        BY RebalancerAssumption DEF Plans, TypeOK, Positions
      <4>3. selling[s] = 0
        BY <3>1 DEF Flat
      <4>. QED
        BY <4>1, <4>2, <4>3
    <3>. QED
      BY <2>2, <3>2 DEF SellInv, Covered, Coverable
  <2>. QED
    BY <1>3, <2>1, <2>2 DEF Size
<1>4. ASSUME NEW s \in Symbols, SubmitAccepted(s) PROVE SellInv'
  BY <1>4, SendSell, PcsMembers DEF SubmitAccepted, SellInv
<1>5. ASSUME NEW s \in Symbols, SubmitDead(s) PROVE SellInv'
  BY <1>5, DeadSell, PcsMembers DEF SubmitDead, SellInv
<1>6. ASSUME NEW s \in Symbols, SubmitFails(s) PROVE SellInv'
  BY <1>6, QuietSell DEF SubmitFails, Abandon
<1>7. ASSUME NEW s \in Symbols, SubmitLost(s) PROVE SellInv'
  <2>1. Coverable' /\ pc' = "settle"
    BY <1>7, PlaceSell DEF SubmitLost, SellInv, Abandon
  <2>. QED
    BY <2>1 DEF SellInv
<1>8. CASE WriteDated
  BY <1>8, QuietSell, ForgetSell DEF Over, WriteDated
<1>9. CASE WriteDatedFails
  BY <1>9, ForgetSell DEF Over, WriteDatedFails
<1>10. CASE NothingSubmitted \/ ReportPartial
  BY <1>10, EndSell DEF NothingSubmitted, ReportPartial
<1>. QED
  BY <1>1, <1>2, <1>3, <1>4, <1>5, <1>6, <1>7, <1>8, <1>9, <1>10 DEF Evening

\* The kill switch's steps keep it, if its cancel_all leaves nothing open.
LEMMA FlattenSell ==
  ASSUME "partial_cancel" \notin Faults, TypeOK, SellInv, Flatten
  PROVE  SellInv'
<1>. USE DEF account
<1>1. CASE FlHoldings
  BY <1>1, QuietSell, EndSell DEF FlHoldings
<1>2. CASE FlCancel
  <2>1. selling' = Flat /\ pos' = pos
    BY <1>2 DEF FlCancel, CancelAll, Flat
  <2>2. Coverable'
    <3>. SUFFICES ASSUME NEW s \in Symbols PROVE selling'[s] =< pos'[s]
      BY DEF Coverable
    <3>1. selling[s] =< pos[s] /\ selling[s] \in Nat /\ pos[s] \in Int
      BY DEF SellInv, Coverable, TypeOK, Positions
    <3>2. selling'[s] = 0
      BY <2>1 DEF Flat
    <3>. QED
      BY <2>1, <3>1, <3>2
  <2>. QED
    BY <1>2, <2>1, <2>2 DEF FlCancel, SellInv
<1>3. CASE FlPositions
  <2>1. /\ selling = Flat /\ pc' \in {"fl_settle", "fl_sell"}
        /\ UNCHANGED <<pos, selling>>
        /\ \A s \in Symbols : todo'[s] = IF pos[s] > 0 THEN -pos[s] ELSE 0
    BY <1>3 DEF FlPositions, SellInv
  <2>2. Covered'
    <3>. SUFFICES ASSUME NEW s \in Symbols, todo'[s] < 0
                  PROVE  selling'[s] = 0 /\ -(todo'[s]) =< pos'[s]
      BY DEF Covered
    <3>1. selling'[s] = 0
      BY <2>1 DEF Flat
    <3>2. pos[s] \in Int
      BY DEF TypeOK, Positions
    <3>. QED
      BY <2>1, <3>1, <3>2
  <2>3. Coverable'
    BY <2>1 DEF SellInv, Coverable
  <2>. QED
    BY <2>1, <2>2, <2>3 DEF SellInv
<1>4. ASSUME NEW s \in Symbols, FlSellAccepted(s) PROVE SellInv'
  BY <1>4, SendSell, PcsMembers DEF FlSellAccepted, SellInv
<1>5. ASSUME NEW s \in Symbols, FlSellDead(s) PROVE SellInv'
  BY <1>5, DeadSell, PcsMembers DEF FlSellDead, SellInv
<1>6. CASE FlFails \/ FlWriteFails
  BY <1>6, EndSell DEF FlFails, FlWriteFails
<1>7. ASSUME NEW s \in Symbols, FlSellLost(s) PROVE SellInv'
  <2>1. Coverable' /\ pc' = "idle"
    BY <1>7, PlaceSell DEF FlSellLost, SellInv, Forget, Leave
  <2>. QED
    BY <2>1 DEF SellInv
<1>8. CASE FlWrite
  BY <1>8, ForgetSell DEF Over, FlWrite
<1>. QED
  BY <1>1, <1>2, <1>3, <1>4, <1>5, <1>6, <1>7, <1>8 DEF Flatten

\* Every step keeps it.
LEMMA NextSell ==
  ASSUME Faults \cap {"midrun", "partial_cancel"} = {},
         TypeOK, SizedInv, SellInv, [Next]_vars
  PROVE  SellInv'
<1>. USE DEF account
<1>1. CASE Starts
  BY <1>1, QuietSell DEF Starts, StartEvening, StartFlatten, StartAccept, Start
<1>2. CASE AcceptRun
  BY <1>2, QuietSell, EndSell, ForgetSell
     DEF Over, AcceptRun, AcHoldings, AcOrders, AcWrite, AcWriteFails
<1>3. CASE Refuse
  BY <1>3, EndSell DEF Refuse
<1>4. CASE Crash \/ CrashInWrite
  BY <1>4, ForgetSell DEF Over, Crash, CrashInWrite
<1>5. CASE UNCHANGED vars
  <2>1. UNCHANGED <<pc, pos, selling, todo>>
    BY <1>5 DEF vars, local
  <2>2. Coverable' <=> Coverable
    BY <2>1 DEF Coverable
  <2>3. Covered' <=> Covered
    BY <2>1 DEF Covered
  <2>. QED
    BY <2>1, <2>2, <2>3 DEF SellInv
<1>. QED
  BY <1>1, <1>2, <1>3, <1>4, <1>5, EnvironmentSell, EveningSell, FlattenSell
  DEF Next, RunStep

\* If the account only moves between runs and cancel_all works, no run and no
\* sequence of runs ever sells a share twice, whatever orders, journals,
\* clocks and processes do.
THEOREM SellsSafe == Spec => []NoOversell
<1>. DEFINE Between_ == "midrun" \notin Faults
            Safe == Faults \cap {"midrun", "partial_cancel"} = {}
<1>1. Init => SizedInv
  BY DEF Init, SizedInv
<1>2. TypeOK /\ (Between_ => SizedInv) /\ [Next]_vars => (Between_ => SizedInv)'
  BY NextSized, Rigid DEF Faults
<1>3. Init => SellInv
  <2>1. ASSUME Init PROVE Coverable
    <3>. SUFFICES ASSUME NEW s \in Symbols PROVE selling[s] =< pos[s]
      BY DEF Coverable
    <3>1. selling[s] = 0 /\ pos[s] \in 0..MaxShares
      BY <2>1 DEF Init, Flat
    <3>. QED
      BY <3>1, RebalancerAssumption
  <2>. QED
    BY <2>1 DEF Init, SellInv
<1>4. TypeOK /\ (Between_ => SizedInv) /\ (Safe => SellInv) /\ [Next]_vars
        => (Safe => SellInv)'
  BY NextSell, Rigid DEF Faults
<1>5. (Safe => SellInv) => NoOversell
  BY DEF SellInv, NoOversell
<1>. QED
  BY <1>1, <1>2, <1>3, <1>4, <1>5, TypeCorrect, PTL DEF Spec

-----------------------------------------------------------------------------
(* No session is traded twice, and every run leaves a trace.               *)

\* The file a partial submit is reported after.
OnFile ==
  \E j \in journals : j.stamp = stamp /\ j.expected = ExpectedPositions(held, sent)

\* Why NoSecondTrade and LeavesTrace hold, whatever happens: nothing is
\* written between the rerun check and the run's journal, a run that has sent
\* nothing knows of no order, and one that reports has its orders on file.
TraceInv ==
  /\ pc = "report" => OnFile
  /\ pc \in Gone \cup {"gate", "orders", "checks", "size"} => sent = Flat
  /\ pc \in {"size", "submit", "settle"} => ~Dated(journals, day)

\* A run that is over keeps it.
LEMMA ForgetTrace == Over => TraceInv'
BY DEF Over, Forget, Leave, TraceInv, OnFile

\* The evening run's steps keep it.
LEMMA EveningTrace == TraceInv /\ Evening => TraceInv'
<1>. SUFFICES ASSUME TraceInv, Evening PROVE TraceInv'
  OBVIOUS
<1>. USE DEF files, local, Gone
<1>1. CASE ReadHoldings
  BY <1>1 DEF ReadHoldings, TraceInv
<1>2. CASE GateOrders
  <2>1. CASE Halt("refused")
    BY <2>1, EndForgets, ForgetTrace DEF Over
  <2>. QED
    BY <1>2, <2>1 DEF GateOrders, TraceInv
<1>3. CASE Checks
  <2>1. CASE Halt("refused") \/ Halt("reconcile_mismatch")
    BY <2>1, EndForgets, ForgetTrace DEF Over
  <2>2. CASE pc' = "size" /\ ~SessionRefused /\ UNCHANGED <<journals, day, sent>>
    BY <1>3, <2>2 DEF Checks, TraceInv, SessionRefused, Dated
  <2>. QED
    BY <1>3, <2>1, <2>2 DEF Checks
<1>4. CASE Size
  <2>1. CASE Halt("refused") \/ Halt("nothing_to_trade")
    BY <2>1, EndForgets, ForgetTrace DEF Over
  <2>2. CASE pc' = "submit" /\ UNCHANGED <<journals, day, sent>>
    BY <1>4, <2>2 DEF Size, TraceInv, Dated
  <2>. QED
    BY <1>4, <2>1, <2>2 DEF Size
<1>5. ASSUME NEW s \in Symbols,
             SubmitAccepted(s) \/ SubmitDead(s) \/ SubmitFails(s) \/ SubmitLost(s)
      PROVE  TraceInv'
  <2>1. pc = "submit" /\ pc' \in {"submit", "settle"} /\ UNCHANGED <<journals, day>>
    BY <1>5 DEF SubmitAccepted, SubmitDead, SubmitFails, SubmitLost, Advance, Abandon
  <2>. QED
    BY <2>1 DEF TraceInv, Dated
<1>6. CASE WriteDated
  <2>1. CASE Forget
    BY <2>1, ForgetTrace DEF Over
  <2>2. CASE pc' = "report" /\ UNCHANGED <<stamp, local>>
    <3>. DEFINE e == Entry("rebalance", ExpectedPositions(held, sent))
    <3>1. e \in journals' /\ e.stamp = stamp /\ e.expected = ExpectedPositions(held, sent)
      BY <1>6 DEF WriteDated, Entry
    <3>2. ExpectedPositions(held, sent)' = ExpectedPositions(held, sent)
      BY <2>2 DEF ExpectedPositions
    <3>3. OnFile'
      BY <2>2, <3>1, <3>2 DEF OnFile
    <3>. QED
      BY <2>2, <3>3 DEF TraceInv
  <2>. QED
    BY <1>6, <2>1, <2>2 DEF WriteDated
<1>7. CASE WriteDatedFails \/ NothingSubmitted \/ ReportPartial
  BY <1>7, EndForgets, ForgetTrace DEF Over, WriteDatedFails, NothingSubmitted, ReportPartial
<1>. QED
  BY <1>1, <1>2, <1>3, <1>4, <1>5, <1>6, <1>7 DEF Evening

\* Every step keeps it.
LEMMA NextTrace == TraceInv /\ [Next]_vars => TraceInv'
<1>. SUFFICES ASSUME TraceInv, [Next]_vars PROVE TraceInv'
  OBVIOUS
<1>. USE DEF files, local, Gone
<1>1. CASE Environment
  <2>1. UNCHANGED <<pc, stamp, held, sent, journals, day>>
    BY <1>1 DEF Environment, Fill, Expire, ManualTrade, NewDay
  <2>. QED
    BY <2>1 DEF TraceInv, OnFile, Dated, ExpectedPositions
<1>2. CASE Starts
  <2>1. pc \in Gone /\ UNCHANGED sent /\ pc' \in {"gate", "fl_holdings", "ac_holdings"}
    BY <1>2 DEF Starts, StartEvening, StartFlatten, StartAccept, Start
  <2>. QED
    BY <2>1 DEF TraceInv
<1>3. CASE Flatten \/ AcceptRun
  <2>1. pc' \in FlattenPcs \cup AcceptPcs => TraceInv'
    BY DEF FlattenPcs, AcceptPcs, TraceInv
  <2>. QED
    BY <1>3, <2>1, OthersPlaces, ForgetTrace DEF Over
<1>4. CASE Refuse \/ Crash \/ CrashInWrite
  BY <1>4, EndForgets, ForgetTrace DEF Over, Refuse, Crash, CrashInWrite
<1>5. CASE UNCHANGED vars
  BY <1>5 DEF vars, TraceInv, OnFile, Dated, ExpectedPositions
<1>. QED
  BY <1>1, <1>2, <1>3, <1>4, <1>5, EveningTrace DEF Next, RunStep

\* Init satisfies it.
LEMMA InitTrace == Init => TraceInv
BY DEF Init, TraceInv

\* No order goes out in a session whose dated journal exists, whatever
\* happens between the rerun check and the order, and whatever fails.
THEOREM NoSecondTradeHolds == Spec => NoSecondTrade
<1>1. TraceInv => (pc = "submit" /\ some' => ~\E j \in journals : j.kind = "rebalance" /\ j.day = day)
  BY DEF TraceInv, Dated
<1>. QED
  BY <1>1, InitTrace, NextTrace, PTL DEF Spec, NoSecondTrade

\* What LeavesTrace asks of a step that ends a run: the trace, or
Excused ==
  /\ "events_fail" \in Faults
  /\ HasToJournal => "journal_fails" \in Faults \/ day \in stray

Trace ==
  \/ \E j \in journals' :
       j.stamp = stamp /\ (pc \in EveningPcs => j.expected = ExpectedPositions(held, sent))
  \/ \E e \in events' :
       e.stamp = stamp /\ (pc \in EveningPcs => e.orders = sent)
  \/ Excused

\* An event is a trace; losing it is excused where the journal failed,
LEMMA RecordTrace ==
  ASSUME NEW st, NEW o, Record(st, o),
         pc \in EveningPcs => o = sent,
         HasToJournal => "journal_fails" \in Faults \/ day \in stray
  PROVE  Trace
<1>. DEFINE e == [stamp |-> stamp, status |-> st, orders |-> o]
<1>1. e.stamp = stamp /\ e.orders = o
  OBVIOUS
<1>2. CASE e \in events'
  BY <1>1, <1>2 DEF Trace
<1>3. CASE "events_fail" \in Faults
  BY <1>3 DEF Trace, Excused
<1>. QED
  BY <1>2, <1>3 DEF Record

\* as it is where there was nothing to journal,
LEMMA EndTrace ==
  ASSUME NEW st, NEW o, EndWithEvent(st, o), pc \in EveningPcs => o = sent,
         HasToJournal => "journal_fails" \in Faults \/ day \in stray
  PROVE  Trace
BY RecordTrace DEF EndWithEvent

\* and for a run that halts,
LEMMA HaltTrace ==
  ASSUME NEW st, Halt(st), pc \in EveningPcs => sent = Flat, ~HasToJournal
  PROVE  Trace
BY EndTrace DEF Halt

\* and a journal is one.
LEMMA EntryTrace ==
  ASSUME NEW kind, NEW x, Entry(kind, x) \in journals',
         pc \in EveningPcs => x = ExpectedPositions(held, sent)
  PROVE  Trace
<1>1. Entry(kind, x).stamp = stamp /\ Entry(kind, x).expected = x
  BY DEF Entry
<1>. QED
  BY <1>1 DEF Trace

\* The journal or the event a run's last step writes.
LEMMA TraceStep ==
  ASSUME TraceInv, [Next]_vars, pc \notin Gone, pc' = "idle"
  PROVE  Trace
<1>. USE DEF Gone
<1>1. CASE Evening
  <2>. USE DEF TraceInv, HasToJournal
  <2>1. ~ReadHoldings
    BY DEF ReadHoldings
  <2>2. CASE GateOrders
    BY HaltTrace, <2>2 DEF GateOrders
  <2>3. CASE Checks
    BY HaltTrace, <2>3 DEF Checks
  <2>4. CASE Size
    BY HaltTrace, <2>4 DEF Size
  <2>5. ASSUME NEW s \in Symbols,
               SubmitAccepted(s) \/ SubmitDead(s) \/ SubmitFails(s) \/ SubmitLost(s)
        PROVE  FALSE
    BY <2>5 DEF SubmitAccepted, SubmitDead, SubmitFails, SubmitLost, Advance, Abandon
  <2>6. CASE WriteDated
    BY EntryTrace, <2>6 DEF WriteDated
  <2>7. CASE WriteDatedFails
    BY <2>7, RecordTrace DEF WriteDatedFails
  <2>8. CASE NothingSubmitted
    BY EndTrace, <2>8 DEF NothingSubmitted
  <2>9. CASE ReportPartial
    BY <2>9 DEF ReportPartial, EndWithEvent, OnFile, Trace
  <2>. QED
    BY <1>1, <2>1, <2>2, <2>3, <2>4, <2>5, <2>6, <2>7, <2>8, <2>9 DEF Evening
<1>2. CASE Flatten
  <2>. USE DEF EveningPcs, HasToJournal
  <2>1. CASE FlHoldings
    BY HaltTrace, <2>1 DEF FlHoldings
  <2>2. CASE FlCancel \/ FlPositions
    BY <2>2 DEF FlCancel, FlPositions
  <2>3. ASSUME NEW s \in Symbols, FlSellAccepted(s) \/ FlSellDead(s)
        PROVE  FALSE
    BY <2>3 DEF FlSellAccepted, FlSellDead, Advance
  <2>4. CASE FlFails \/ FlWriteFails
    BY EndTrace, <2>4 DEF FlFails, FlWriteFails
  <2>5. ASSUME NEW s \in Symbols, FlSellLost(s) PROVE Trace
    BY <2>5, RecordTrace DEF FlSellLost
  <2>6. CASE FlWrite
    BY EntryTrace, <2>6 DEF FlWrite
  <2>. QED
    BY <1>2, <2>1, <2>2, <2>3, <2>4, <2>5, <2>6 DEF Flatten
<1>3. CASE AcceptRun
  <2>. USE DEF EveningPcs, HasToJournal
  <2>1. CASE AcHoldings \/ AcOrders
    BY HaltTrace, <2>1 DEF AcHoldings, AcOrders
  <2>2. CASE AcWrite
    BY EntryTrace, <2>2 DEF AcWrite
  <2>3. CASE AcWriteFails
    BY EndTrace, <2>3 DEF AcWriteFails
  <2>. QED
    BY <1>3, <2>1, <2>2, <2>3 DEF AcceptRun
<1>4. CASE Refuse
  BY HaltTrace, <1>4 DEF Refuse, TraceInv, EveningPcs, HasToJournal
<1>5. ~Environment
  BY DEF Environment, Fill, Expire, ManualTrade, NewDay
<1>6. ~Starts /\ ~Crash /\ ~CrashInWrite
  BY DEF Starts, StartEvening, StartFlatten, StartAccept, Start, Crash, CrashInWrite, Leave
<1>7. ~UNCHANGED vars
  BY DEF vars
<1>. QED
  BY <1>1, <1>2, <1>3, <1>4, <1>5, <1>6, <1>7 DEF Next, RunStep

\* A run that comes to its end leaves a journal or an event of its stamp, and
\* an evening run's names every order IB accepted and it knows of, whichever
\* order, file or broker call failed: unless its event could not be written,
\* nor the journal it had to write.
THEOREM LeavesTraceHolds == Spec => LeavesTrace
<1>1. TraceInv /\ [Next]_vars => (pc \notin Gone /\ pc' = "idle" => Trace)
  BY TraceStep
<1>2. Spec => [][pc \notin Gone /\ pc' = "idle" => Trace]_vars
  BY <1>1, InitTrace, NextTrace, PTL DEF Spec
<1>. QED
  BY <1>2 DEF LeavesTrace, Trace, Excused

-----------------------------------------------------------------------------
(* The journal folder.                                                     *)

\* Every journal carries the stamp of a run of its own, and one is newest.
StampInv ==
  /\ \A j \in journals : j.stamp \in stamps
  /\ \A j, k \in journals : j.stamp = k.stamp => j = k
  /\ pc \notin Gone => stamp \in stamps
  /\ pc \notin Gone \cup {"report"} => \A j \in journals : j.stamp # stamp
  /\ journals = {} \/ \E j \in journals : \A k \in journals : k.stamp =< j.stamp

\* The baseline is the newest journal's.
LEMMA NewestIsBaseline ==
  ASSUME NEW folder, NEW j \in folder, \A k \in folder : k.stamp \in Nat /\ k.stamp =< j.stamp,
         \A k, l \in folder : k.stamp = l.stamp => k = l
  PROVE  LatestBaseline(folder) = j.expected
<1>. DEFINE c == CHOOSE i \in folder : \A k \in folder : k.stamp =< i.stamp
<1>1. c \in folder /\ \A k \in folder : k.stamp =< c.stamp
  OBVIOUS
<1>2. c.stamp =< j.stamp /\ j.stamp =< c.stamp /\ c.stamp \in Nat /\ j.stamp \in Nat
  BY <1>1
<1>3. c = j
  BY <1>1, <1>2
<1>. QED
  BY <1>3 DEF LatestBaseline

\* A run that writes its journal makes it the baseline, or leaves the one of
\* a later stamp; the folder stays in order.
LEMMA WriteStamps ==
  ASSUME TypeOK, StampInv, NEW e \in Journal, e.stamp = stamp,
         journals' = journals \cup {e}, UNCHANGED <<stamp, stamps>>,
         pc \notin Gone \cup {"report"}, pc' \in Gone \cup {"report"}
  PROVE  /\ StampInv'
         /\ LatestBaseline(journals') \in {LatestBaseline(journals), e.expected}
         /\ (\A j \in journals : j.stamp < e.stamp) => LatestBaseline(journals') = e.expected
<1>1. /\ \A j \in journals : j.stamp \in Nat /\ j.stamp # e.stamp
      /\ e.stamp \in Nat /\ e.stamp \in stamps
  BY DEF TypeOK, Journal, StampInv
<1>2. /\ \A j \in journals' : j.stamp \in Nat /\ j.stamp \in stamps'
      /\ \A j, k \in journals' : j.stamp = k.stamp => j = k
  BY <1>1 DEF StampInv
<1>3. CASE \A j \in journals : j.stamp < e.stamp
  <2>1. e \in journals' /\ \A k \in journals' : k.stamp \in Nat /\ k.stamp =< e.stamp
    BY <1>1, <1>3
  <2>2. LatestBaseline(journals') = e.expected
    BY <1>2, <2>1, NewestIsBaseline
  <2>. QED
    BY <1>1, <1>2, <2>1, <2>2 DEF StampInv, Gone
<1>4. CASE ~\A j \in journals : j.stamp < e.stamp
  <2>1. PICK l \in journals : e.stamp < l.stamp
    BY <1>1, <1>4
  <2>2. PICK j \in journals : \A k \in journals : k.stamp =< j.stamp
    BY <2>1 DEF StampInv
  <2>3. /\ j \in journals' /\ \A k \in journals' : k.stamp \in Nat /\ k.stamp =< j.stamp
        /\ \A k \in journals : k.stamp \in Nat /\ k.stamp =< j.stamp
    <3>1. l.stamp =< j.stamp
      BY <2>2
    <3>. QED
      BY <1>1, <2>1, <2>2, <3>1
  <2>4. LatestBaseline(journals') = j.expected
    BY <1>2, <2>3, NewestIsBaseline
  <2>5. LatestBaseline(journals) = j.expected
    BY <2>3, NewestIsBaseline DEF StampInv
  <2>. QED
    BY <1>1, <1>2, <1>4, <2>3, <2>4, <2>5 DEF StampInv, Gone
<1>. QED
  BY <1>3, <1>4

\* A step writes one journal with the run's stamp, as its last or but one, or
\* takes a new stamp, or leaves folder and stamps alone.
Writes ==
  /\ pc \in {"settle", "fl_settle", "ac_journal"}
  /\ pc' \in {"idle", "report"}
  /\ UNCHANGED <<account, stamp, stamps>>
  /\ \E e \in Journal :
       /\ journals' = journals \cup {e}
       /\ e.stamp = stamp
       /\ e.expected = IF pc = "ac_journal" THEN held ELSE ExpectedPositions(held, sent)
Keeps ==
  /\ UNCHANGED <<journals, stamp, stamps>>
  /\ pc' \notin Gone => pc \notin Gone
  /\ pc' \notin Gone \cup {"report"} => pc \notin Gone \cup {"report"}

\* No other step does anything with the folder.
LEMMA FolderSteps == TypeOK /\ [Next]_vars => Writes \/ Starts \/ Keeps
<1>. SUFFICES ASSUME TypeOK, [Next]_vars PROVE Writes \/ Starts \/ Keeps
  OBVIOUS
<1>. USE DEF files, account
<1>1. ASSUME NEW e, e \in Journal, e.stamp = stamp,
             e.expected = IF pc = "ac_journal" THEN held ELSE ExpectedPositions(held, sent),
             journals' = journals \cup {e}, UNCHANGED <<account, stamp, stamps>>,
             pc \in {"settle", "fl_settle", "ac_journal"}, pc' \in {"idle", "report"}
      PROVE  Writes
  BY <1>1 DEF Writes
<1>2. ASSUME Over, UNCHANGED journals PROVE Keeps
  BY <1>2 DEF Over, Forget, Leave, Keeps, Gone
<1>3. ASSUME NEW st, NEW o, EndWithEvent(st, o) \/ Halt(st) PROVE Keeps
  BY <1>2, <1>3 DEF EndWithEvent, Halt, Over
<1>4. ASSUME UNCHANGED <<journals, stamp, stamps>>,
             pc \notin Gone \cup {"report"}
      PROVE  Keeps
  BY <1>4 DEF Keeps
<1>5. CASE Environment
  BY <1>5 DEF Environment, Fill, Expire, ManualTrade, NewDay, Keeps
<1>6. CASE Evening
  <2>. USE DEF Gone
  <2>1. CASE ReadHoldings
    BY <1>4, <2>1 DEF ReadHoldings
  <2>2. CASE GateOrders
    BY <1>3, <1>4, <2>2 DEF GateOrders
  <2>3. CASE Checks
    BY <1>3, <1>4, <2>3 DEF Checks
  <2>4. CASE Size
    BY <1>3, <1>4, <2>4 DEF Size
  <2>5. ASSUME NEW s \in Symbols,
               SubmitAccepted(s) \/ SubmitDead(s) \/ SubmitFails(s) \/ SubmitLost(s)
        PROVE  Keeps
    BY <1>4, <2>5 DEF SubmitAccepted, SubmitDead, SubmitFails, SubmitLost
  <2>6. CASE WriteDated
    <3>. DEFINE e == Entry("rebalance", ExpectedPositions(held, sent))
    <3>1. e \in Journal
      BY EntryType, ExpectedType DEF TypeOK, Kinds
    <3>2. e.stamp = stamp /\ e.expected = ExpectedPositions(held, sent)
      BY DEF Entry
    <3>3. pc' \in {"idle", "report"} /\ UNCHANGED <<stamp, stamps>>
      BY <2>6 DEF WriteDated, Forget, Leave
    <3>. QED
      BY <1>1, <2>6, <3>1, <3>2, <3>3 DEF WriteDated
  <2>7. CASE WriteDatedFails
    BY <1>2, <2>7 DEF WriteDatedFails, Over
  <2>8. CASE NothingSubmitted \/ ReportPartial
    BY <1>3, <2>8 DEF NothingSubmitted, ReportPartial
  <2>. QED
    BY <1>6, <2>1, <2>2, <2>3, <2>4, <2>5, <2>6, <2>7, <2>8 DEF Evening
<1>7. CASE Flatten
  <2>. USE DEF Gone
  <2>1. CASE FlHoldings
    BY <1>3, <1>4, <2>1 DEF FlHoldings
  <2>2. CASE FlCancel \/ FlPositions
    BY <1>4, <2>2 DEF FlCancel, FlPositions
  <2>3. ASSUME NEW s \in Symbols, FlSellAccepted(s) \/ FlSellDead(s) PROVE Keeps
    BY <1>4, <2>3 DEF FlSellAccepted, FlSellDead
  <2>4. CASE FlFails \/ FlWriteFails
    BY <1>3, <2>4 DEF FlFails, FlWriteFails
  <2>5. ASSUME NEW s \in Symbols, FlSellLost(s) PROVE Keeps
    BY <1>2, <2>5 DEF FlSellLost, Over
  <2>6. CASE FlWrite
    <3>. DEFINE e == Entry("flatten", ExpectedPositions(held, sent))
    <3>1. e \in Journal
      BY EntryType, ExpectedType DEF TypeOK, Kinds
    <3>2. e.stamp = stamp /\ e.expected = ExpectedPositions(held, sent)
      BY DEF Entry
    <3>3. pc' = "idle" /\ UNCHANGED <<stamp, stamps>>
      BY <2>6 DEF FlWrite, Forget, Leave
    <3>. QED
      BY <1>1, <2>6, <3>1, <3>2, <3>3 DEF FlWrite
  <2>. QED
    BY <1>7, <2>1, <2>2, <2>3, <2>4, <2>5, <2>6 DEF Flatten
<1>8. CASE AcceptRun
  <2>. USE DEF Gone
  <2>1. CASE AcHoldings \/ AcOrders
    BY <1>3, <1>4, <2>1 DEF AcHoldings, AcOrders
  <2>2. CASE AcWrite
    <3>. DEFINE e == Entry("accept", held)
    <3>1. e \in Journal
      BY EntryType DEF TypeOK, Kinds
    <3>2. e.stamp = stamp /\ e.expected = held
      BY DEF Entry
    <3>3. pc' = "idle" /\ UNCHANGED <<stamp, stamps>>
      BY <2>2 DEF AcWrite, Forget, Leave
    <3>. QED
      BY <1>1, <2>2, <3>1, <3>2, <3>3 DEF AcWrite
  <2>3. CASE AcWriteFails
    BY <1>3, <2>3 DEF AcWriteFails
  <2>. QED
    BY <1>8, <2>1, <2>2, <2>3 DEF AcceptRun
<1>9. CASE Refuse
  BY <1>3, <1>9 DEF Refuse
<1>10. CASE Crash \/ CrashInWrite
  BY <1>2, <1>10 DEF Crash, CrashInWrite, Over
<1>11. CASE UNCHANGED vars
  BY <1>11 DEF vars, Keeps
<1>. QED
  BY <1>5, <1>6, <1>7, <1>8, <1>9, <1>10, <1>11 DEF Next, RunStep

\* So the folder stays in order.
LEMMA NextStamps == TypeOK /\ StampInv /\ [Next]_vars => StampInv'
<1>. SUFFICES ASSUME TypeOK, StampInv, [Next]_vars PROVE StampInv'
  OBVIOUS
<1>1. CASE Writes
  <2>1. PICK e \in Journal : journals' = journals \cup {e} /\ e.stamp = stamp
    BY <1>1 DEF Writes
  <2>. QED
    BY <1>1, <2>1, WriteStamps DEF Writes, Gone
<1>2. CASE Starts
  <2>1. /\ stamp' \notin stamps /\ stamps' = stamps \cup {stamp'} /\ journals' = journals
    BY <1>2 DEF Starts, StartEvening, StartFlatten, StartAccept, Start, files
  <2>. QED
    BY <2>1 DEF StampInv
<1>3. CASE Keeps
  BY <1>3 DEF Keeps, StampInv
<1>. QED
  BY <1>1, <1>2, <1>3, FolderSteps

-----------------------------------------------------------------------------
(* The runs implement PositionBook.                                        *)

Trading   == {"submit", "settle"}
Unwinding == FlattenPcs \ {"fl_holdings"}

\* Why a record is never false: from its first read to its journal a run's
\* positions are the account's, its book is empty before it sends anything,
\* and then holds what it knows it has sent.
KnownInv ==
  /\ pc \in {"orders", "checks", "size", "ac_orders", "ac_journal"} \cup Trading \cup Unwinding
       => held = pos
  /\ pc \in {"checks", "size", "fl_positions", "ac_journal"} => BookClear
  /\ pc \in Gone \cup {"gate", "orders", "checks", "size", "fl_holdings", "fl_cancel", "fl_positions"}
       => sent = Flat
  /\ pc \in {"submit", "settle", "fl_sell", "fl_settle"} =>
       \A s \in Symbols : /\ buying[s] - selling[s] = sent[s]
                          /\ todo[s] # 0 => sent[s] = 0

\* A run that is over keeps it.
LEMMA ForgetKnown == Over => KnownInv'
BY DEF Over, Forget, Leave, KnownInv, Trading, Unwinding, FlattenPcs, Gone

\* An order that IB takes is known to the run.
LEMMA SentKnown ==
  ASSUME TypeOK, NEW s \in Symbols,
         \A r \in Symbols : buying[r] - selling[r] = sent[r] /\ (todo[r] # 0 => sent[r] = 0),
         todo[s] # 0, Place(s, todo[s]),
         sent' = [sent EXCEPT ![s] = todo[s]], todo' = [todo EXCEPT ![s] = 0]
  PROVE  \A r \in Symbols : buying'[r] - selling'[r] = sent'[r] /\ (todo'[r] # 0 => sent'[r] = 0)
<1>1. /\ buying'  = [buying  EXCEPT ![s] = @ + (IF todo[s] > 0 THEN todo[s] ELSE 0)]
      /\ selling' = [selling EXCEPT ![s] = @ + (IF todo[s] < 0 THEN -todo[s] ELSE 0)]
  BY DEF Place
<1>2. /\ buying \in [Symbols -> Int] /\ selling \in [Symbols -> Int]
      /\ sent \in [Symbols -> Int] /\ todo \in [Symbols -> Int]
  BY DEF TypeOK, Positions
<1>3. sent[s] = 0
  OBVIOUS
<1>. QED
  BY <1>1, <1>2, <1>3

\* So is one that comes back dead.
LEMMA DeadKnown ==
  ASSUME TypeOK, NEW s \in Symbols,
         \A r \in Symbols : buying[r] - selling[r] = sent[r] /\ (todo[r] # 0 => sent[r] = 0),
         todo[s] # 0, UNCHANGED account,
         sent' = [sent EXCEPT ![s] = DeadDelta(s)], todo' = [todo EXCEPT ![s] = 0]
  PROVE  \A r \in Symbols : buying'[r] - selling'[r] = sent'[r] /\ (todo'[r] # 0 => sent'[r] = 0)
<1>1. /\ sent \in [Symbols -> Int] /\ todo \in [Symbols -> Int]
  BY DEF TypeOK, Positions
<1>2. UNCHANGED <<buying, selling>>
  BY DEF account
<1>3. sent' = sent
  BY <1>1 DEF DeadDelta
<1>. QED
  BY <1>1, <1>2, <1>3

\* An empty book holds nothing the run knows of.
LEMMA ClearKnown ==
  ASSUME BookClear, sent = Flat
  PROVE  \A s \in Symbols : buying[s] = 0 /\ selling[s] = 0 /\ sent[s] = 0
BY DEF BookClear, Flat

\* The evening run's steps keep it, if every order IB accepts is acknowledged.
LEMMA EveningKnown ==
  ASSUME "lost_ack" \notin Faults, TypeOK, KnownInv, Evening
  PROVE  KnownInv'
<1>. USE DEF account, files, local, Trading, Unwinding, FlattenPcs, Gone
<1>1. CASE ReadHoldings
  BY <1>1 DEF ReadHoldings, KnownInv
<1>2. CASE GateOrders
  <2>1. CASE Halt("refused")
    BY <2>1, EndForgets, ForgetKnown DEF Over
  <2>2. CASE BookClear
    BY <1>2, <2>2 DEF GateOrders, KnownInv, BookClear
  <2>. QED
    BY <1>2, <2>1, <2>2 DEF GateOrders
<1>3. CASE Checks
  <2>1. CASE Halt("refused") \/ Halt("reconcile_mismatch")
    BY <2>1, EndForgets, ForgetKnown DEF Over
  <2>2. CASE pc' = "size" /\ UNCHANGED <<account, local>>
    BY <1>3, <2>2 DEF Checks, KnownInv, BookClear
  <2>. QED
    BY <1>3, <2>1, <2>2 DEF Checks
<1>4. CASE Size
  <2>1. CASE Halt("refused") \/ Halt("nothing_to_trade")
    BY <2>1, EndForgets, ForgetKnown DEF Over
  <2>2. CASE pc' = "submit" /\ UNCHANGED <<account, held, sent>>
    <3>1. held = pos /\ \A s \in Symbols : buying[s] = 0 /\ selling[s] = 0 /\ sent[s] = 0
      BY <1>4, ClearKnown DEF Size, KnownInv
    <3>. QED
      BY <2>2, <3>1 DEF KnownInv
  <2>. QED
    BY <1>4, <2>1, <2>2 DEF Size
<1>5. ASSUME NEW s \in Symbols, SubmitAccepted(s) PROVE KnownInv'
  <2>1. /\ pc = "submit" /\ pc' \in {"submit", "settle"} /\ todo[s] # 0
        /\ UNCHANGED <<pos, held>>
    BY <1>5 DEF SubmitAccepted, Advance, IsNext, Place
  <2>2. \A r \in Symbols : buying'[r] - selling'[r] = sent'[r] /\ (todo'[r] # 0 => sent'[r] = 0)
    BY <1>5, <2>1, SentKnown DEF SubmitAccepted, Advance, KnownInv
  <2>. QED
    BY <2>1, <2>2 DEF KnownInv
<1>6. ASSUME NEW s \in Symbols, SubmitDead(s) PROVE KnownInv'
  <2>1. /\ pc = "submit" /\ pc' \in {"submit", "settle"} /\ todo[s] # 0
        /\ UNCHANGED <<pos, held>>
    BY <1>6 DEF SubmitDead, Advance, IsNext
  <2>2. \A r \in Symbols : buying'[r] - selling'[r] = sent'[r] /\ (todo'[r] # 0 => sent'[r] = 0)
    BY <1>6, <2>1, DeadKnown DEF SubmitDead, Advance, KnownInv
  <2>. QED
    BY <2>1, <2>2 DEF KnownInv
<1>7. ASSUME NEW s \in Symbols, SubmitFails(s) \/ SubmitLost(s) PROVE KnownInv'
  <2>1. /\ pc = "submit" /\ pc' = "settle" /\ todo' = Flat
        /\ UNCHANGED <<pos, buying, selling, held, sent>>
    BY <1>7 DEF SubmitFails, SubmitLost, Abandon
  <2>2. \A r \in Symbols : todo'[r] = 0
    BY <2>1 DEF Flat
  <2>. QED
    BY <2>1, <2>2 DEF KnownInv
<1>8. CASE WriteDated
  <2>1. CASE Forget
    BY <2>1, ForgetKnown DEF Over
  <2>2. CASE pc' = "report"
    BY <2>2 DEF KnownInv
  <2>. QED
    BY <1>8, <2>1, <2>2 DEF WriteDated
<1>9. CASE WriteDatedFails \/ NothingSubmitted \/ ReportPartial
  BY <1>9, EndForgets, ForgetKnown DEF Over, WriteDatedFails, NothingSubmitted, ReportPartial
<1>. QED
  BY <1>1, <1>2, <1>3, <1>4, <1>5, <1>6, <1>7, <1>8, <1>9 DEF Evening

\* So do the kill switch's, if cancel_all leaves nothing open.
LEMMA FlattenKnown ==
  ASSUME "partial_cancel" \notin Faults, TypeOK, KnownInv, Flatten
  PROVE  KnownInv'
<1>. USE DEF account, files, local, Trading, Unwinding, FlattenPcs, Gone
<1>1. CASE FlHoldings
  <2>1. CASE Halt("refused")
    BY <2>1, EndForgets, ForgetKnown DEF Over
  <2>2. CASE pc' = "fl_cancel"
    BY <1>1, <2>1, <2>2 DEF FlHoldings, KnownInv
  <2>. QED
    BY <1>1, <2>1, <2>2 DEF FlHoldings
<1>2. CASE FlCancel
  <2>1. buying' = Flat /\ selling' = Flat
    BY <1>2 DEF FlCancel, CancelAll, Flat
  <2>. QED
    BY <1>2, <2>1 DEF FlCancel, KnownInv, BookClear, Flat
<1>3. CASE FlPositions
  <2>1. held = pos /\ \A s \in Symbols : buying[s] = 0 /\ selling[s] = 0 /\ sent[s] = 0
    BY <1>3, ClearKnown DEF FlPositions, KnownInv
  <2>2. pc' \in {"fl_settle", "fl_sell"} /\ UNCHANGED <<pos, buying, selling, held, sent>>
    BY <1>3 DEF FlPositions
  <2>. QED
    BY <2>1, <2>2 DEF KnownInv
<1>4. ASSUME NEW s \in Symbols, FlSellAccepted(s) PROVE KnownInv'
  <2>1. /\ pc = "fl_sell" /\ pc' \in {"fl_sell", "fl_settle"} /\ todo[s] # 0
        /\ UNCHANGED <<pos, held>>
    BY <1>4 DEF FlSellAccepted, Advance, Place
  <2>2. \A r \in Symbols : buying'[r] - selling'[r] = sent'[r] /\ (todo'[r] # 0 => sent'[r] = 0)
    BY <1>4, <2>1, SentKnown DEF FlSellAccepted, Advance, KnownInv
  <2>. QED
    BY <2>1, <2>2 DEF KnownInv
<1>5. ASSUME NEW s \in Symbols, FlSellDead(s) PROVE KnownInv'
  <2>1. /\ pc = "fl_sell" /\ pc' \in {"fl_sell", "fl_settle"} /\ todo[s] # 0
        /\ UNCHANGED <<pos, held>>
    BY <1>5 DEF FlSellDead, Advance
  <2>2. \A r \in Symbols : buying'[r] - selling'[r] = sent'[r] /\ (todo'[r] # 0 => sent'[r] = 0)
    BY <1>5, <2>1, DeadKnown DEF FlSellDead, Advance, KnownInv
  <2>. QED
    BY <2>1, <2>2 DEF KnownInv
<1>6. CASE FlFails \/ FlWrite \/ FlWriteFails \/ \E s \in Symbols : FlSellLost(s)
  BY <1>6, EndForgets, ForgetKnown DEF Over, FlFails, FlWrite, FlWriteFails, FlSellLost
<1>. QED
  BY <1>1, <1>2, <1>3, <1>4, <1>5, <1>6 DEF Flatten

\* Every step keeps it, if every accepted order is acknowledged and the
\* account moves only between runs.
LEMMA NextKnown ==
  ASSUME Acked, TypeOK, KnownInv, [Next]_vars
  PROVE  KnownInv'
<1>. USE DEF account, files, local, Trading, Unwinding, FlattenPcs, Gone
<1>1. CASE Environment
  <2>1. pc \in Gone /\ UNCHANGED <<pc, sent>>
    BY <1>1 DEF Environment, Fill, Expire, ManualTrade, NewDay, Between, Acked
  <2>. QED
    BY <2>1 DEF KnownInv
<1>2. CASE Starts
  <2>1. pc \in Gone /\ UNCHANGED sent /\ pc' \in {"gate", "fl_holdings", "ac_holdings"}
    BY <1>2 DEF Starts, StartEvening, StartFlatten, StartAccept, Start
  <2>. QED
    BY <2>1 DEF KnownInv
<1>3. CASE AcceptRun
  <2>1. CASE AcHoldings
    BY <2>1 DEF AcHoldings, KnownInv
  <2>2. CASE AcOrders
    <3>1. CASE Halt("refused")
      BY <3>1, EndForgets, ForgetKnown DEF Over
    <3>2. CASE BookClear
      BY <2>2, <3>2 DEF AcOrders, KnownInv, BookClear
    <3>. QED
      BY <2>2, <3>1, <3>2 DEF AcOrders
  <2>3. CASE AcWrite \/ AcWriteFails
    BY <2>3, EndForgets, ForgetKnown DEF Over, AcWrite, AcWriteFails
  <2>. QED
    BY <1>3, <2>1, <2>2, <2>3 DEF AcceptRun
<1>4. CASE Refuse \/ Crash \/ CrashInWrite
  BY <1>4, EndForgets, ForgetKnown DEF Over, Refuse, Crash, CrashInWrite
<1>5. CASE UNCHANGED vars
  BY <1>5 DEF vars, KnownInv, BookClear
<1>6. "lost_ack" \notin Faults /\ "partial_cancel" \notin Faults
  BY DEF Acked
<1>. QED
  BY <1>1, <1>2, <1>3, <1>4, <1>5, <1>6, EveningKnown, FlattenKnown DEF Next, RunStep

\* What PositionBook sees of a step, when it sees anything.
LEMMA Bars ==
  ASSUME Acked, UNCHANGED scenario
  PROVE  /\ owedBar = Owed /\ owedBar' = Owed'
         /\ recordBar = LatestBaseline(journals) /\ recordBar' = LatestBaseline(journals')
         /\ pc \in Trading => phaseBar = "trading"
         /\ pc' \in Trading => phaseBar' = "trading"
         /\ pc \in Unwinding => phaseBar = "unwinding"
         /\ pc' \in Unwinding => phaseBar' = "unwinding"
         /\ pc \notin Trading \cup Unwinding => phaseBar = "idle"
         /\ pc' \notin Trading \cup Unwinding => phaseBar' = "idle"
<1>1. Acked' <=> Acked
  BY DEF Acked, Faults
<1>2. Trading \cap Unwinding = {}
  BY DEF Trading, Unwinding, FlattenPcs
<1>. QED
  BY <1>1, <1>2 DEF owedBar, recordBar, phaseBar, Trading, Unwinding

\* The account always owes a vector of positions.
LEMMA OwedType == TypeOK => Owed \in Positions
BY DEF TypeOK, Owed, Positions

\* A step that leaves account and folder alone and stays in its phase is not
\* seen.
LEMMA Unseen ==
  ASSUME Acked, UNCHANGED <<scenario, account, journals>>,
         \/ pc \in Trading /\ pc' \in Trading
         \/ pc \in Unwinding /\ pc' \in Unwinding
         \/ pc \notin Trading \cup Unwinding /\ pc' \notin Trading \cup Unwinding
  PROVE  [Promise!Next]_(Promise!vars)
<1>1. Owed' = Owed
  BY DEF Owed, account
<1>2. UNCHANGED <<owedBar, recordBar, phaseBar>>
  BY <1>1, Bars
<1>. QED
  BY <1>2 DEF Promise!vars

\* The end of a run is the end of its phase, if it has one.
LEMMA EndIsFinish ==
  ASSUME Acked, UNCHANGED <<scenario, account>>, pc' \in Gone \cup {"report"},
         \/ journals' = journals
         \/ pc \in Trading \cup Unwinding /\ LatestBaseline(journals') \in {LatestBaseline(journals), Owed}
  PROVE  [Promise!Next]_(Promise!vars)
<1>1. pc' \notin Trading \cup Unwinding
  BY DEF Trading, Unwinding, FlattenPcs, Gone
<1>2. Owed' = Owed
  BY DEF Owed, account
<1>3. CASE pc \in Trading \cup Unwinding
  <2>1. Promise!Finish
    BY <1>1, <1>2, <1>3, Bars DEF Promise!Finish
  <2>. QED
    BY <2>1 DEF Promise!Next
<1>. QED
  BY <1>1, <1>3, Unseen

\* Also a killed run's, or one's that ends with an event.
LEMMA OverIsFinish ==
  ASSUME Acked, Over, UNCHANGED <<scenario, account, journals>>
  PROVE  [Promise!Next]_(Promise!vars)
BY EndIsFinish DEF Over, Forget, Leave, Gone

\* An order is one.
LEMMA PlaceIsOrder ==
  ASSUME Acked, TypeOK, TypeOK', UNCHANGED <<scenario, journals>>, NEW s \in Symbols, Place(s, todo[s]),
         \/ pc \in Trading /\ pc' \in Trading
         \/ pc \in Unwinding /\ pc' \in Unwinding
  PROVE  [Promise!Next]_(Promise!vars)
<1>1. Owed' \in Positions
  BY DEF TypeOK, Owed, Positions
<1>2. \A r \in Symbols \ {s} : Owed'[r] = Owed[r]
  <2>1. \A r \in Symbols \ {s} : buying'[r] = buying[r] /\ selling'[r] = selling[r] /\ pos'[r] = pos[r]
    BY DEF Place, TypeOK, Positions
  <2>. QED
    BY <2>1 DEF Owed
<1>3. CASE pc \in Trading
  <2>1. pc' \in Trading
    BY <1>3 DEF Trading, Unwinding, FlattenPcs
  <2>2. Promise!Order
    BY <1>1, <1>2, <1>3, <2>1, Bars DEF Promise!Order, Promise!Book, Positions
  <2>. QED
    BY <2>2 DEF Promise!Next
<1>4. CASE pc \in Unwinding
  <2>1. pc' \in Unwinding
    BY <1>4 DEF Trading, Unwinding, FlattenPcs
  <2>2. Promise!Unwind
    BY <1>1, <1>4, <2>1, Bars DEF Promise!Unwind, Promise!Book, Positions
  <2>. QED
    BY <2>2 DEF Promise!Next
<1>. QED
  BY <1>3, <1>4

\* What a run writes into its journal is what the account owes.
LEMMA ExpectedIsOwed ==
  ASSUME TypeOK, KnownInv, pc \in {"settle", "fl_settle", "ac_journal"}
  PROVE  (IF pc = "ac_journal" THEN held ELSE ExpectedPositions(held, sent)) = Owed
<1>1. held = pos /\ pos \in [Symbols -> Int] /\ buying \in [Symbols -> Nat] /\ selling \in [Symbols -> Nat]
  BY DEF KnownInv, Trading, Unwinding, FlattenPcs, TypeOK, Positions
<1>2. CASE pc = "ac_journal"
  <2>1. \A s \in Symbols : buying[s] = 0 /\ selling[s] = 0
    BY <1>2 DEF KnownInv, BookClear, Flat
  <2>2. ASSUME NEW s \in Symbols PROVE pos[s] + buying[s] - selling[s] = pos[s]
    <3>1. pos[s] \in Int /\ buying[s] = 0 /\ selling[s] = 0
      BY <1>1, <2>1
    <3>. QED
      BY <3>1
  <2>3. Owed = [s \in Symbols |-> pos[s]]
    BY <2>2 DEF Owed
  <2>. QED
    BY <1>1, <1>2, <2>3
<1>3. CASE pc # "ac_journal"
  <2>1. \A s \in Symbols : buying[s] - selling[s] = sent[s]
    BY <1>3 DEF KnownInv
  <2>2. \A s \in Symbols : pos[s] + buying[s] - selling[s] = pos[s] + sent[s]
    BY <1>1, <2>1
  <2>3. Owed = ExpectedPositions(held, sent)
    BY <1>1, <2>2 DEF Owed, ExpectedPositions
  <2>. QED
    BY <1>3, <2>3
<1>. QED
  BY <1>2, <1>3

\* So a record becomes the truth or stays as it is.
LEMMA WritesTruth ==
  ASSUME TypeOK, KnownInv, StampInv, Writes
  PROVE  /\ LatestBaseline(journals') \in {LatestBaseline(journals), Owed}
         /\ (\A j \in journals : j.stamp < stamp) => LatestBaseline(journals') = Owed
<1>1. PICK e \in Journal :
        /\ journals' = journals \cup {e}
        /\ e.stamp = stamp
        /\ e.expected = IF pc = "ac_journal" THEN held ELSE ExpectedPositions(held, sent)
  BY DEF Writes
<1>2. /\ LatestBaseline(journals') \in {LatestBaseline(journals), e.expected}
      /\ (\A j \in journals : j.stamp < e.stamp) => LatestBaseline(journals') = e.expected
  BY <1>1, WriteStamps DEF Writes, Gone
<1>3. e.expected = Owed
  BY <1>1, ExpectedIsOwed DEF Writes
<1>. QED
  BY <1>1, <1>2, <1>3

\* The evening run trades as PositionBook lets it.
LEMMA EveningPromise ==
  ASSUME Acked, TypeOK, TypeOK', SizedInv, KnownInv, StampInv, Evening, UNCHANGED scenario
  PROVE  [Promise!Next]_(Promise!vars)
<1>. DEFINE Goal == [Promise!Next]_(Promise!vars)
<1>. USE DEF files, local
<1>0. \A st, o : EndWithEvent(st, o) \/ Halt(st) => UNCHANGED <<account, journals>> /\ Over
  BY DEF EndWithEvent, Halt, Over
<1>. HIDE DEF Goal
<1>1. CASE ReadHoldings
  BY <1>1, Unseen DEF ReadHoldings, Trading, Unwinding, FlattenPcs, Goal
<1>2. CASE GateOrders
  <2>1. CASE Halt("refused")
    BY <1>0, <2>1, OverIsFinish DEF Goal
  <2>2. CASE pc' = "checks"
    BY <1>2, <2>1, <2>2, Unseen DEF GateOrders, Trading, Unwinding, FlattenPcs, Goal
  <2>. QED
    BY <1>2, <2>1, <2>2 DEF GateOrders
<1>3. CASE Checks
  <2>1. CASE Halt("refused") \/ Halt("reconcile_mismatch")
    BY <1>0, <2>1, OverIsFinish DEF Goal
  <2>2. CASE pc' = "size" /\ UNCHANGED <<account, journals>>
    BY <1>3, <2>2, Unseen DEF Checks, Trading, Unwinding, FlattenPcs, Goal
  <2>. QED
    BY <1>3, <2>1, <2>2 DEF Checks
<1>4. CASE Size
  <2>1. CASE Halt("refused") \/ Halt("nothing_to_trade")
    BY <1>0, <2>1, OverIsFinish DEF Goal
  <2>2. CASE pc' = "submit" /\ UNCHANGED <<account, journals>>
    <3>1. /\ pc = "size" /\ held = pos /\ BookClear
          /\ LatestBaseline(journals) \in {None, pos}
      BY <1>4 DEF Size, SizedInv, Matches
    <3>2. \A s \in Symbols : pos[s] + buying[s] - selling[s] = pos[s]
      BY <3>1 DEF BookClear, Flat, TypeOK, Positions
    <3>3. Owed = pos
      <4>1. Owed = [s \in Symbols |-> pos[s]] /\ pos \in [Symbols -> Int]
        BY <3>2 DEF Owed, TypeOK, Positions
      <4>. QED
        BY <4>1
    <3>4. Owed' = Owed
      BY <2>2 DEF Owed, account
    <3>5. pc \notin Trading \cup Unwinding /\ pc' \in Trading
      BY <2>2, <3>1 DEF Trading, Unwinding, FlattenPcs
    <3>6. Promise!BeginTrading
      BY <2>2, <3>1, <3>3, <3>4, <3>5, Bars DEF Promise!BeginTrading
    <3>. QED
      BY <3>6 DEF Promise!Next, Goal
  <2>. QED
    BY <1>4, <2>1, <2>2 DEF Size
<1>5. ASSUME NEW s \in Symbols, SubmitAccepted(s) PROVE Goal
  <2>1. pc \in Trading /\ pc' \in Trading /\ journals' = journals /\ Place(s, todo[s])
    BY <1>5 DEF SubmitAccepted, Advance, Trading
  <2>. QED
    BY <2>1, PlaceIsOrder DEF Goal
<1>6. ASSUME NEW s \in Symbols, SubmitDead(s) \/ SubmitFails(s) PROVE Goal
  <2>1. pc \in Trading /\ pc' \in Trading /\ UNCHANGED <<account, journals>>
    BY <1>6 DEF SubmitDead, SubmitFails, Advance, Abandon, Trading
  <2>. QED
    BY <2>1, Unseen DEF Goal
<1>7. ASSUME NEW s \in Symbols, SubmitLost(s) PROVE FALSE
  BY <1>7 DEF SubmitLost, Acked
<1>8. CASE WriteDated
  <2>1. pc \in Trading /\ UNCHANGED account /\ pc' \in Gone \cup {"report"}
    BY <1>8 DEF WriteDated, Forget, Leave, Gone, Trading
  <2>2. LatestBaseline(journals') \in {LatestBaseline(journals), Owed}
    <3>. DEFINE e == Entry("rebalance", ExpectedPositions(held, sent))
    <3>1. e \in Journal
      BY EntryType, ExpectedType DEF TypeOK, Kinds
    <3>2. e.stamp = stamp /\ e.expected = ExpectedPositions(held, sent)
      BY DEF Entry
    <3>3. pc = "settle" /\ pc' \in {"idle", "report"} /\ UNCHANGED <<stamp, stamps, account>>
      BY <1>8 DEF WriteDated, Forget, Leave
    <3>4. Writes
      BY <1>8, <3>1, <3>2, <3>3 DEF WriteDated, Writes
    <3>. QED
      BY <3>4, WritesTruth
  <2>. QED
    BY <2>1, <2>2, EndIsFinish DEF Goal
<1>9. CASE WriteDatedFails \/ NothingSubmitted \/ ReportPartial
  <2>1. Over /\ UNCHANGED <<account, journals>>
    BY <1>9 DEF WriteDatedFails, NothingSubmitted, ReportPartial, EndWithEvent, Over
  <2>. QED
    BY <2>1, OverIsFinish DEF Goal
<1>. QED
  BY <1>1, <1>2, <1>3, <1>4, <1>5, <1>6, <1>7, <1>8, <1>9 DEF Evening, Goal

\* The kill switch unwinds.
LEMMA FlattenPromise ==
  ASSUME Acked, TypeOK, TypeOK', KnownInv, StampInv, Flatten, UNCHANGED scenario
  PROVE  [Promise!Next]_(Promise!vars)
<1>. DEFINE Goal == [Promise!Next]_(Promise!vars)
<1>. USE DEF files, local
<1>0. \A st, o : EndWithEvent(st, o) \/ Halt(st) => UNCHANGED <<account, journals>> /\ Over
  BY DEF EndWithEvent, Halt, Over
<1>. HIDE DEF Goal
<1>1. CASE FlHoldings
  <2>1. CASE Halt("refused")
    BY <1>0, <2>1, OverIsFinish DEF Goal
  <2>2. CASE pc' = "fl_cancel" /\ UNCHANGED <<account, journals>>
    <3>1. pc \notin Trading \cup Unwinding /\ pc' \in Unwinding
      BY <1>1, <2>2 DEF FlHoldings, Trading, Unwinding, FlattenPcs
    <3>2. Owed' = Owed
      BY <2>2 DEF Owed, account
    <3>3. Promise!BeginUnwinding
      BY <2>2, <3>1, <3>2, Bars DEF Promise!BeginUnwinding
    <3>. QED
      BY <3>3 DEF Promise!Next, Goal
  <2>. QED
    BY <1>1, <2>1, <2>2 DEF FlHoldings
<1>2. CASE FlCancel
  <2>1. pc \in Unwinding /\ pc' \in Unwinding /\ journals' = journals
    BY <1>2 DEF FlCancel, Unwinding, FlattenPcs
  <2>2. Owed' \in Positions
    BY DEF TypeOK, Owed, Positions
  <2>3. Promise!Unwind
    BY <2>1, <2>2, Bars DEF Promise!Unwind, Promise!Book, Positions
  <2>. QED
    BY <2>3 DEF Promise!Next, Goal
<1>3. CASE FlPositions
  <2>1. pc \in Unwinding /\ pc' \in Unwinding /\ UNCHANGED <<account, journals>>
    BY <1>3 DEF FlPositions, Unwinding, FlattenPcs
  <2>. QED
    BY <2>1, Unseen DEF Goal
<1>4. ASSUME NEW s \in Symbols, FlSellAccepted(s) PROVE Goal
  <2>1. pc \in Unwinding /\ pc' \in Unwinding /\ journals' = journals /\ Place(s, todo[s])
    BY <1>4 DEF FlSellAccepted, Advance, Unwinding, FlattenPcs
  <2>. QED
    BY <2>1, PlaceIsOrder DEF Goal
<1>5. ASSUME NEW s \in Symbols, FlSellDead(s) PROVE Goal
  <2>1. pc \in Unwinding /\ pc' \in Unwinding /\ UNCHANGED <<account, journals>>
    BY <1>5 DEF FlSellDead, Advance, Unwinding, FlattenPcs
  <2>. QED
    BY <2>1, Unseen DEF Goal
<1>6. CASE FlFails \/ FlWriteFails
  BY <1>0, <1>6, OverIsFinish DEF FlFails, FlWriteFails, Goal
<1>7. ASSUME NEW s \in Symbols, FlSellLost(s) PROVE FALSE
  BY <1>7 DEF FlSellLost, Acked
<1>8. CASE FlWrite
  <2>1. pc \in Unwinding /\ UNCHANGED account /\ pc' \in Gone \cup {"report"}
    BY <1>8 DEF FlWrite, Forget, Leave, Gone, Unwinding, FlattenPcs
  <2>2. LatestBaseline(journals') \in {LatestBaseline(journals), Owed}
    <3>. DEFINE e == Entry("flatten", ExpectedPositions(held, sent))
    <3>1. e \in Journal
      BY EntryType, ExpectedType DEF TypeOK, Kinds
    <3>2. e.stamp = stamp /\ e.expected = ExpectedPositions(held, sent)
      BY DEF Entry
    <3>3. pc = "fl_settle" /\ pc' = "idle" /\ UNCHANGED <<stamp, stamps, account>>
      BY <1>8 DEF FlWrite, Forget, Leave
    <3>4. Writes
      BY <1>8, <3>1, <3>2, <3>3 DEF FlWrite, Writes
    <3>. QED
      BY <3>4, WritesTruth
  <2>. QED
    BY <2>1, <2>2, EndIsFinish DEF Goal
<1>. QED
  BY <1>1, <1>2, <1>3, <1>4, <1>5, <1>6, <1>7, <1>8 DEF Flatten, Goal

\* The owner accepts.
LEMMA AcceptPromise ==
  ASSUME Acked, TypeOK, KnownInv, StampInv, AcceptRun, UNCHANGED scenario
  PROVE  [Promise!Next]_(Promise!vars)
<1>. DEFINE Goal == [Promise!Next]_(Promise!vars)
<1>. USE DEF files, local
<1>0. \A st, o : EndWithEvent(st, o) \/ Halt(st) => UNCHANGED <<account, journals>> /\ Over
  BY DEF EndWithEvent, Halt, Over
<1>. HIDE DEF Goal
<1>1. CASE AcHoldings
  BY <1>1, Unseen DEF AcHoldings, Trading, Unwinding, FlattenPcs, Goal
<1>2. CASE AcOrders
  <2>1. CASE Halt("refused")
    BY <1>0, <2>1, OverIsFinish DEF Goal
  <2>2. CASE pc' = "ac_journal"
    BY <1>2, <2>1, <2>2, Unseen DEF AcOrders, Trading, Unwinding, FlattenPcs, Goal
  <2>. QED
    BY <1>2, <2>1, <2>2 DEF AcOrders
<1>3. CASE AcWrite
  <2>. DEFINE e == Entry("accept", held)
  <2>1. e \in Journal
    BY EntryType DEF TypeOK, Kinds
  <2>2. e.stamp = stamp /\ e.expected = held
    BY DEF Entry
  <2>3. pc = "ac_journal" /\ pc' = "idle" /\ UNCHANGED <<stamp, stamps, account>>
    BY <1>3 DEF AcWrite, Forget, Leave
  <2>4. Writes
    BY <1>3, <2>1, <2>2, <2>3 DEF AcWrite, Writes
  <2>5. LatestBaseline(journals') \in {LatestBaseline(journals), Owed}
    BY <2>4, WritesTruth
  <2>6. Owed' = Owed
    BY <2>3 DEF Owed, account
  <2>7. pc \notin Trading \cup Unwinding /\ pc' \notin Trading \cup Unwinding
    BY <2>3 DEF Trading, Unwinding, FlattenPcs
  <2>8. Promise!Accept \/ UNCHANGED <<owedBar, recordBar, phaseBar>>
    BY <2>5, <2>6, <2>7, Bars DEF Promise!Accept
  <2>. QED
    BY <2>8 DEF Promise!Next, Promise!vars, Goal
<1>4. CASE AcWriteFails
  BY <1>0, <1>4, OverIsFinish DEF AcWriteFails, Goal
<1>. QED
  BY <1>1, <1>2, <1>3, <1>4 DEF AcceptRun, Goal

\* Every step is one of PositionBook's, or is not seen.
LEMMA PromiseStep ==
  ASSUME TypeOK, TypeOK', StampInv,
         "midrun" \notin Faults => SizedInv, Acked => KnownInv, [Next]_vars
  PROVE  [Promise!Next]_(Promise!vars)
<1>. USE DEF files, local
<1>1. UNCHANGED scenario
  BY Rigid
<1>2. CASE ~Acked
  <2>1. ~Acked'
    BY <1>1, <1>2 DEF Acked, Faults
  <2>. QED
    BY <1>2, <2>1 DEF Promise!vars, owedBar, recordBar, phaseBar
<1>3. CASE Acked
  <2>1. "midrun" \notin Faults /\ SizedInv /\ KnownInv
    BY <1>3 DEF Acked
  <2>2. CASE Environment
    <3>1. pc \in Gone /\ pc' = pc /\ journals' = journals
      BY <2>1, <2>2 DEF Environment, Fill, Expire, ManualTrade, NewDay, Between
    <3>2. Owed' \in Positions
      BY DEF TypeOK, Owed, Positions
    <3>3. pc \notin Trading \cup Unwinding
      BY <3>1 DEF Gone, Trading, Unwinding, FlattenPcs
    <3>4. Promise!Outside
      BY <1>1, <1>3, <3>1, <3>2, <3>3, Bars DEF Promise!Outside, Promise!Book, Positions
    <3>. QED
      BY <3>4 DEF Promise!Next
  <2>3. CASE Starts
    <3>1. /\ pc \in Gone /\ pc' \in {"gate", "fl_holdings", "ac_holdings"}
          /\ UNCHANGED <<account, journals>>
      BY <2>3 DEF Starts, StartEvening, StartFlatten, StartAccept, Start
    <3>. QED
      BY <1>1, <1>3, <3>1, Unseen DEF Gone, Trading, Unwinding, FlattenPcs
  <2>4. CASE Refuse \/ Crash \/ CrashInWrite
    <3>1. Over /\ UNCHANGED <<account, journals>>
      BY <2>4 DEF Refuse, Crash, CrashInWrite, EndWithEvent, Halt, Over
    <3>. QED
      BY <1>1, <1>3, <3>1, OverIsFinish
  <2>5. CASE UNCHANGED vars
    <3>1. UNCHANGED <<account, journals, pc>>
      BY <2>5 DEF vars
    <3>. QED
      BY <1>1, <1>3, <3>1, Unseen
  <2>. QED
    BY <1>1, <1>3, <2>1, <2>2, <2>3, <2>4, <2>5, EveningPromise, FlattenPromise, AcceptPromise
    DEF Next, RunStep
<1>. QED
  BY <1>2, <1>3

\* Nor does any run begin.
LEMMA PromiseInit == Init => Promise!Init
<1>. SUFFICES ASSUME Init PROVE Promise!Init
  OBVIOUS
<1>1. phaseBar = "idle"
  BY DEF Init, phaseBar, FlattenPcs
<1>2. recordBar = None
  BY DEF Init, recordBar, LatestBaseline
<1>3. owedBar \in [Symbols -> Int]
  <2>1. Flat \in [Symbols -> Int]
    BY FlatType DEF Positions
  <2>2. \A s \in Symbols : pos[s] \in Int
    BY RebalancerAssumption DEF Init
  <2>3. \A s \in Symbols : buying[s] = 0 /\ selling[s] = 0
    BY DEF Init, Flat
  <2>4. Owed \in [Symbols -> Int]
    BY <2>2, <2>3 DEF Owed
  <2>. QED
    BY <2>1, <2>4 DEF owedBar
<1>. QED
  BY <1>1, <1>2, <1>3 DEF Promise!Init, Promise!Book

\* The first state is in order.
LEMMA InitKnown == Init => StampInv /\ KnownInv
<1>1. Init => KnownInv
  BY DEF Init, KnownInv, Gone, Trading, Unwinding, FlattenPcs
<1>. QED
  BY <1>1 DEF Init, StampInv, Gone

\* The runs implement PositionBook if every order IB accepts is acknowledged
\* and the account only moves between runs: whatever else fails or crashes,
\* trading starts only on an account that the record describes, and no record
\* is ever false.
THEOREM KeepsPromiseHolds == Spec => KeepsPromise
<1>. DEFINE Between_ == "midrun" \notin Faults
<1>1. Init => SizedInv
  BY DEF Init, SizedInv
<1>2. TypeOK /\ (Between_ => SizedInv) /\ [Next]_vars => (Between_ => SizedInv)'
  BY NextSized, Rigid DEF Faults
<1>3. TypeOK /\ (Acked => KnownInv) /\ [Next]_vars => (Acked => KnownInv)'
  BY NextKnown, Rigid DEF Acked, Faults
<1>4. /\ TypeOK /\ TypeOK' /\ StampInv
      /\ Between_ => SizedInv
      /\ Acked => KnownInv
      /\ [Next]_vars
      => [Promise!Next]_(Promise!vars)
  BY PromiseStep
<1>. HIDE DEF Between_
<1>. QED
  BY <1>1, <1>2, <1>3, <1>4, PromiseInit, InitKnown, NextStamps, TypeCorrect, PTL
  DEF Spec, KeepsPromise, Promise!Spec

-----------------------------------------------------------------------------
(* No false alarm.                                                         *)

\* Why the reconcile never halts a system in which nothing goes wrong that a
\* run does not know at once: the newest journal says what the account owes
\* whenever no run has orders of its own out, and while one has, it said what
\* the account held; every run that sent something gets its journal written,
\* and with a later stamp than all others.
CleanInv ==
  /\ stray = {}
  /\ stamps = 1..stamp
  /\ \A e \in events : e.status # "reconcile_mismatch"
  /\ ~some => sent = Flat
  /\ pc \notin Trading \cup Unwinding => Matches(LatestBaseline(journals), Owed)
  /\ pc \in Trading => Matches(LatestBaseline(journals), held)

\* What the steps that start a run, write a journal or trade do not touch.
Steady ==
  /\ UNCHANGED stray
  /\ \A e \in events' : e \in events \/ e.status # "reconcile_mismatch"
  /\ ~some' => sent' = Flat

\* A run without orders of its own leaves things as they are.
LEMMA IdleClean ==
  ASSUME CleanInv, Steady, UNCHANGED <<account, journals, stamp, stamps>>,
         pc \notin Trading \cup Unwinding, pc' \notin Trading
  PROVE  CleanInv'
<1>1. Owed' = Owed
  BY DEF Owed, account
<1>. QED
  BY <1>1 DEF CleanInv, Steady

\* So does one that ends.
LEMMA OverClean ==
  ASSUME CleanInv, Over, UNCHANGED <<account, journals, stray>>,
         \A e \in events' : e \in events \/ e.status # "reconcile_mismatch",
         pc \notin Trading \cup Unwinding
  PROVE  CleanInv'
<1>1. pc' \notin Trading /\ UNCHANGED <<stamp, stamps>> /\ Steady
  BY DEF Over, Forget, Leave, Trading, Steady
<1>. QED
  BY <1>1, IdleClean

\* A line that is no mismatch, written or lost, adds none.
LEMMA RecordClean ==
  ASSUME NEW st, NEW o, Record(st, o), st # "reconcile_mismatch"
  PROVE  \A f \in events' : f \in events \/ f.status # "reconcile_mismatch"
<1>. DEFINE e == [stamp |-> stamp, status |-> st, orders |-> o]
<1>1. e.status = st
  OBVIOUS
<1>2. events' = events \cup {e} \/ events' = events
  BY DEF Record
<1>. QED
  BY <1>1, <1>2

\* Also with an event, unless it is a mismatch.
LEMMA EndClean ==
  ASSUME CleanInv, NEW st, NEW o, EndWithEvent(st, o) \/ Halt(st), st # "reconcile_mismatch",
         pc \notin Trading \cup Unwinding
  PROVE  CleanInv'
<1>1. /\ Over /\ UNCHANGED <<account, journals, stray>>
      /\ Record(st, o) \/ Record(st, Flat) \/ Record("error", Flat)
  BY DEF EndWithEvent, Halt, Over
<1>2. \A f \in events' : f \in events \/ f.status # "reconcile_mismatch"
  BY <1>1, RecordClean
<1>. QED
  BY <1>1, <1>2, OverClean

\* A journal is the truth, and the newest.
LEMMA WriteClean ==
  ASSUME TypeOK, KnownInv, StampInv, CleanInv, Writes, UNCHANGED <<stray, events>>,
         ~some' => sent' = Flat
  PROVE  CleanInv'
<1>1. \A j \in journals : j.stamp < stamp
  BY DEF Writes, StampInv, CleanInv, Gone, TypeOK, Journal
<1>2. LatestBaseline(journals') = Owed
  BY <1>1, WritesTruth
<1>3. Owed' = Owed
  BY DEF Writes, Owed, account
<1>4. pc' \notin Trading \cup Unwinding /\ UNCHANGED <<stamp, stamps>>
  BY DEF Writes, Trading, Unwinding, FlattenPcs
<1>. QED
  BY <1>2, <1>3, <1>4 DEF CleanInv, Matches

\* An empty book owes what is held.
LEMMA ClearOwed ==
  ASSUME TypeOK, BookClear
  PROVE  Owed = pos
<1>1. ASSUME NEW s \in Symbols PROVE pos[s] + buying[s] - selling[s] = pos[s]
  <2>1. buying[s] = 0 /\ selling[s] = 0
    BY DEF BookClear, Flat
  <2>2. pos[s] \in Int
    BY DEF TypeOK, Positions
  <2>. QED
    BY <2>1, <2>2
<1>2. Owed = [s \in Symbols |-> pos[s]]
  BY <1>1 DEF Owed
<1>. QED
  BY <1>2 DEF TypeOK, Positions

\* An order changes nothing but the book.
LEMMA SubmitClean ==
  ASSUME CleanInv, pc \in Trading, pc' \in Trading, Steady,
         UNCHANGED <<journals, stamp, stamps, held>>
  PROVE  CleanInv'
<1>1. pc' \notin Unwinding
  BY DEF Trading, Unwinding, FlattenPcs
<1>. QED
  BY <1>1 DEF CleanInv, Steady

\* The evening run's steps keep it.
LEMMA EveningClean ==
  ASSUME Clean, TypeOK, TraceInv, StampInv, KnownInv, CleanInv, Evening
  PROVE  CleanInv'
<1>. USE DEF files, local
<1>0. /\ Trading \cap Unwinding = {}
      /\ {"gate", "orders", "checks", "size", "report"} \cap (Trading \cup Unwinding) = {}
  BY DEF Trading, Unwinding, FlattenPcs
<1>1. CASE ReadHoldings
  <2>1. pc \notin Trading \cup Unwinding /\ pc' \notin Trading /\ Steady
    BY <1>0, <1>1 DEF ReadHoldings, Steady, CleanInv
  <2>. QED
    BY <1>1, <2>1, IdleClean DEF ReadHoldings
<1>2. CASE GateOrders
  <2>1. CASE Halt("refused")
    BY <1>0, <1>2, <2>1, EndClean DEF GateOrders
  <2>2. CASE pc' = "checks" /\ UNCHANGED <<account, files, stamp, stamps, local>>
    <3>1. pc \notin Trading \cup Unwinding /\ pc' \notin Trading /\ Steady
      BY <1>0, <1>2, <2>2 DEF GateOrders, Steady, CleanInv
    <3>. QED
      BY <2>2, <3>1, IdleClean
  <2>. QED
    BY <1>2, <2>1, <2>2 DEF GateOrders
<1>3. CASE Checks
  <2>1. Matches(LatestBaseline(journals), held)
    <3>1. pc \notin Trading \cup Unwinding /\ held = pos /\ BookClear
      BY <1>0, <1>3 DEF Checks, KnownInv
    <3>2. held = Owed
      BY <3>1, ClearOwed
    <3>. QED
      BY <3>1, <3>2 DEF CleanInv
  <2>2. CASE Halt("refused")
    BY <1>0, <1>3, <2>2, EndClean DEF Checks
  <2>3. CASE pc' = "size" /\ UNCHANGED <<account, files, stamp, stamps, local>>
    <3>1. pc \notin Trading \cup Unwinding /\ pc' \notin Trading /\ Steady
      BY <1>0, <1>3, <2>3 DEF Checks, Steady, CleanInv
    <3>. QED
      BY <2>3, <3>1, IdleClean
  <2>. QED
    BY <1>3, <2>1, <2>2, <2>3 DEF Checks
<1>4. CASE Size
  <2>1. CASE Halt("refused") \/ Halt("nothing_to_trade")
    BY <1>0, <1>4, <2>1, EndClean DEF Size
  <2>2. CASE pc' = "submit" /\ UNCHANGED <<account, files, stamp, stamps, held, sent, some>>
    <3>1. pc \notin Trading \cup Unwinding /\ held = pos /\ BookClear
      BY <1>0, <1>4 DEF Size, KnownInv
    <3>2. Matches(LatestBaseline(journals), held)
      BY <3>1, ClearOwed DEF CleanInv
    <3>3. pc' \notin Unwinding
      BY <2>2 DEF Unwinding, FlattenPcs
    <3>4. pc' \in Trading
      BY <2>2 DEF Trading
    <3>5. UNCHANGED <<journals, held, stray, stamp, stamps, events, some, sent>>
      BY <2>2
    <3>. QED
      BY <3>2, <3>3, <3>4, <3>5 DEF CleanInv
  <2>. QED
    BY <1>4, <2>1, <2>2 DEF Size
<1>5. ASSUME NEW s \in Symbols, SubmitAccepted(s) \/ SubmitDead(s) \/ SubmitFails(s) PROVE CleanInv'
  <2>1. pc \in Trading /\ pc' \in Trading
    BY <1>5 DEF SubmitAccepted, SubmitDead, SubmitFails, Advance, Abandon, Trading
  <2>2. /\ UNCHANGED <<files, stamp, stamps, held>>
        /\ some' = TRUE \/ UNCHANGED <<some, sent>>
    BY <1>5 DEF SubmitAccepted, SubmitDead, SubmitFails, Advance, Abandon
  <2>3. Steady
    BY <2>2 DEF Steady, CleanInv
  <2>. QED
    BY <2>1, <2>2, <2>3, SubmitClean
<1>6. ASSUME NEW s \in Symbols, SubmitLost(s) PROVE FALSE
  BY <1>6 DEF SubmitLost, Clean
<1>7. CASE WriteDated
  <2>. DEFINE e == Entry("rebalance", ExpectedPositions(held, sent))
  <2>1. e \in Journal
    BY EntryType, ExpectedType DEF TypeOK, Kinds
  <2>2. e.stamp = stamp /\ e.expected = ExpectedPositions(held, sent)
    BY DEF Entry
  <2>3. pc = "settle" /\ pc' \in {"idle", "report"} /\ UNCHANGED <<stamp, stamps, account, stray, events>>
    BY <1>7 DEF WriteDated, Forget, Leave
  <2>4. Writes
    BY <1>7, <2>1, <2>2, <2>3 DEF WriteDated, Writes
  <2>5. ~some' => sent' = Flat
    BY <1>7 DEF WriteDated, Forget, Leave, CleanInv
  <2>. QED
    BY <2>3, <2>4, <2>5, WriteClean
<1>8. ~WriteDatedFails
  BY DEF WriteDatedFails, Clean, TraceInv, CleanInv
<1>9. CASE NothingSubmitted
  <2>1. pc = "settle" /\ sent = Flat /\ held = pos /\ Matches(LatestBaseline(journals), held)
    BY <1>9 DEF NothingSubmitted, CleanInv, KnownInv, Trading
  <2>2. Owed = held
    <3>1. Owed = ExpectedPositions(held, sent)
      BY <2>1, ExpectedIsOwed
    <3>2. ASSUME NEW s \in Symbols PROVE held[s] + sent[s] = held[s]
      <4>1. sent[s] = 0
        BY <2>1 DEF Flat
      <4>2. held[s] \in Int
        BY DEF TypeOK, Positions
      <4>. QED
        BY <4>1, <4>2
    <3>3. ExpectedPositions(held, sent) = [s \in Symbols |-> held[s]]
      BY <3>2 DEF ExpectedPositions
    <3>. QED
      BY <3>1, <3>3 DEF TypeOK, Positions
  <2>3. Owed' = Owed
    BY <1>9 DEF NothingSubmitted, EndWithEvent, Owed, account
  <2>4. pc' \notin Trading /\ UNCHANGED <<stamp, stamps, journals, stray>> /\ sent' = Flat
    BY <1>9 DEF NothingSubmitted, EndWithEvent, Forget, Leave, Trading
  <2>5. \A e \in events' : e.status # "reconcile_mismatch"
    <3>1. Record("error", sent)
      BY <1>9 DEF NothingSubmitted, EndWithEvent
    <3>. QED
      BY <3>1, RecordClean DEF CleanInv
  <2>. QED
    BY <2>1, <2>2, <2>3, <2>4, <2>5 DEF CleanInv
<1>10. CASE ReportPartial
  BY <1>0, <1>10, EndClean DEF ReportPartial
<1>. QED
  BY <1>1, <1>2, <1>3, <1>4, <1>5, <1>6, <1>7, <1>8, <1>9, <1>10 DEF Evening

\* So do the kill switch's.
LEMMA FlattenClean ==
  ASSUME Clean, TypeOK, StampInv, KnownInv, CleanInv, Flatten
  PROVE  CleanInv'
<1>. USE DEF files, local
<1>0. Trading \cap Unwinding = {} /\ "fl_holdings" \notin Trading \cup Unwinding
  BY DEF Trading, Unwinding, FlattenPcs
<1>1. ASSUME pc' \in Unwinding, UNCHANGED <<files, stamp, stamps>>, ~some' => sent' = Flat
      PROVE  CleanInv'
  BY <1>0, <1>1 DEF CleanInv
<1>2. CASE FlHoldings
  <2>1. CASE Halt("refused")
    BY <1>0, <1>2, <2>1, EndClean DEF FlHoldings
  <2>2. CASE pc' = "fl_cancel" /\ UNCHANGED <<files, stamp, stamps, sent, some>>
    BY <1>1, <2>2 DEF Unwinding, FlattenPcs, CleanInv
  <2>. QED
    BY <1>2, <2>1, <2>2 DEF FlHoldings
<1>3. CASE FlCancel \/ FlPositions
  <2>1. pc' \in Unwinding /\ UNCHANGED <<files, stamp, stamps, sent, some>>
    BY <1>3 DEF FlCancel, FlPositions, Unwinding, FlattenPcs
  <2>. QED
    BY <1>1, <2>1 DEF CleanInv
<1>4. ASSUME NEW s \in Symbols, FlSellAccepted(s) \/ FlSellDead(s) PROVE CleanInv'
  <2>1. pc' \in Unwinding /\ UNCHANGED <<files, stamp, stamps>> /\ some' = TRUE
    BY <1>4 DEF FlSellAccepted, FlSellDead, Advance, Unwinding, FlattenPcs
  <2>. QED
    BY <1>1, <2>1
<1>5. ~FlFails /\ ~FlWriteFails /\ ~\E s \in Symbols : FlSellLost(s)
  BY DEF FlFails, FlWriteFails, FlSellLost, Clean
<1>6. CASE FlWrite
  <2>. DEFINE e == Entry("flatten", ExpectedPositions(held, sent))
  <2>1. e \in Journal
    BY EntryType, ExpectedType DEF TypeOK, Kinds
  <2>2. e.stamp = stamp /\ e.expected = ExpectedPositions(held, sent)
    BY DEF Entry
  <2>3. pc = "fl_settle" /\ pc' = "idle" /\ UNCHANGED <<stamp, stamps, account, stray, events>>
    BY <1>6 DEF FlWrite, Forget, Leave
  <2>4. Writes
    BY <1>6, <2>1, <2>2, <2>3 DEF FlWrite, Writes
  <2>5. sent' = Flat
    BY <1>6 DEF FlWrite, Forget, Leave
  <2>. QED
    BY <2>3, <2>4, <2>5, WriteClean
<1>. QED
  BY <1>2, <1>3, <1>4, <1>5, <1>6 DEF Flatten

\* And accepting the positions.
LEMMA AcceptClean ==
  ASSUME Clean, TypeOK, StampInv, KnownInv, CleanInv, AcceptRun
  PROVE  CleanInv'
<1>. USE DEF files, local
<1>0. AcceptPcs \cap (Trading \cup Unwinding) = {}
  BY DEF Trading, Unwinding, FlattenPcs, AcceptPcs
<1>1. CASE AcHoldings
  <2>1. pc \notin Trading \cup Unwinding /\ pc' \notin Trading /\ Steady
    BY <1>0, <1>1 DEF AcHoldings, AcceptPcs, Steady, CleanInv
  <2>. QED
    BY <1>1, <2>1, IdleClean DEF AcHoldings
<1>2. CASE AcOrders
  <2>1. CASE Halt("refused")
    BY <1>0, <1>2, <2>1, EndClean DEF AcOrders, AcceptPcs
  <2>2. CASE pc' = "ac_journal" /\ UNCHANGED <<account, files, stamp, stamps, local>>
    <3>1. pc \notin Trading \cup Unwinding /\ pc' \notin Trading /\ Steady
      BY <1>0, <1>2, <2>2 DEF AcOrders, AcceptPcs, Steady, CleanInv
    <3>. QED
      BY <2>2, <3>1, IdleClean
  <2>. QED
    BY <1>2, <2>1, <2>2 DEF AcOrders
<1>3. CASE AcWrite
  <2>. DEFINE e == Entry("accept", held)
  <2>1. e \in Journal
    BY EntryType DEF TypeOK, Kinds
  <2>2. e.stamp = stamp /\ e.expected = held
    BY DEF Entry
  <2>3. pc = "ac_journal" /\ pc' = "idle" /\ UNCHANGED <<stamp, stamps, account, stray, events>>
    BY <1>3 DEF AcWrite, Forget, Leave
  <2>4. Writes
    BY <1>3, <2>1, <2>2, <2>3 DEF AcWrite, Writes
  <2>5. sent' = Flat
    BY <1>3 DEF AcWrite, Forget, Leave
  <2>. QED
    BY <2>3, <2>4, <2>5, WriteClean
<1>4. ~AcWriteFails
  BY DEF AcWriteFails, Clean
<1>. QED
  BY <1>1, <1>2, <1>3, <1>4 DEF AcceptRun

\* The clock is never set back: a new run's stamp is the next one.
LEMMA StartClean ==
  ASSUME Clean, TypeOK, CleanInv, Starts
  PROVE  CleanInv'
<1>1. /\ pc \in Gone /\ pc' \in {"gate", "fl_holdings", "ac_holdings"}
      /\ UNCHANGED <<account, journals, stray, events, sent, some>>
      /\ stamp' \in (1..MaxRuns) \ stamps
      /\ \A later \in (1..MaxRuns) \ stamps : stamp' =< later
      /\ stamps' = stamps \cup {stamp'}
  BY DEF Starts, StartEvening, StartFlatten, StartAccept, Start, files, local, Clean
<1>2. stamps = 1..stamp /\ stamp \in Nat /\ MaxRuns \in Nat
  BY RebalancerAssumption DEF CleanInv, TypeOK
<1>3. stamp' = stamp + 1
  <2>1. stamp' \in 1..MaxRuns /\ stamp' > stamp
    BY <1>1, <1>2
  <2>2. stamp + 1 \in (1..MaxRuns) \ stamps
    BY <1>2, <2>1
  <2>3. stamp' =< stamp + 1
    BY <1>1, <2>2
  <2>. QED
    BY <1>2, <2>1, <2>3
<1>4. stamps' = 1..stamp'
  BY <1>1, <1>2, <1>3
<1>5. Owed' = Owed
  BY <1>1 DEF Owed, account
<1>6. pc \notin Trading \cup Unwinding /\ pc' \notin Trading \cup Unwinding
  BY <1>1 DEF Gone, Trading, Unwinding, FlattenPcs
<1>. QED
  BY <1>1, <1>4, <1>5, <1>6 DEF CleanInv

\* Between the runs orders are executed, which changes nothing that is owed.
LEMMA EnvironmentClean ==
  ASSUME Clean, TypeOK, CleanInv, Environment
  PROVE  CleanInv'
<1>. USE DEF files, local
<1>1. ASSUME NEW s \in Symbols, Fill(s) PROVE Owed' = Owed
  <2>1. /\ pos \in [Symbols -> Int] /\ buying \in [Symbols -> Nat] /\ selling \in [Symbols -> Nat]
    BY DEF TypeOK, Positions
  <2>2. \A r \in Symbols : pos'[r] + buying'[r] - selling'[r] = pos[r] + buying[r] - selling[r]
    BY <1>1, <2>1 DEF Fill
  <2>. QED
    BY <2>2 DEF Owed
<1>2. CASE NewDay
  BY <1>2 DEF NewDay, CleanInv, Owed, account
<1>3. ~\E s \in Symbols : Expire(s) \/ ManualTrade(s)
  BY DEF Expire, ManualTrade, Clean
<1>4. ASSUME NEW s \in Symbols, Fill(s) PROVE CleanInv'
  BY <1>1, <1>4 DEF Fill, CleanInv
<1>. QED
  BY <1>2, <1>3, <1>4 DEF Environment

\* Every step keeps it, if nothing goes wrong that a run does not know.
LEMMA NextClean ==
  ASSUME Clean, TypeOK, TraceInv, StampInv, KnownInv, CleanInv, [Next]_vars
  PROVE  CleanInv'
<1>1. CASE Refuse
  <2>1. pc \notin Trading \cup Unwinding
    BY <1>1 DEF Refuse, Trading, Unwinding, FlattenPcs
  <2>. QED
    BY <1>1, <2>1, EndClean DEF Refuse
<1>2. ~Crash /\ ~CrashInWrite
  BY DEF Crash, CrashInWrite, Clean
<1>3. CASE UNCHANGED vars
  BY <1>3 DEF vars, account, files, local, CleanInv, Owed
<1>. QED
  BY <1>1, <1>2, <1>3, EnvironmentClean, StartClean, EveningClean, FlattenClean, AcceptClean
  DEF Next, RunStep

\* If nothing goes wrong but orders that IB returns dead or does not get, the
\* reconcile never halts the system: whatever is run in whatever order, and
\* whenever between the runs orders are executed, no run finds a mismatch.
THEOREM NoFalseAlarmHolds == Spec => []NoFalseAlarm
<1>1. Clean => Acked
  BY DEF Clean, Acked
<1>2. TypeOK /\ (Acked => KnownInv) /\ [Next]_vars => (Acked => KnownInv)'
  BY NextKnown, Rigid DEF Acked, Faults
<1>3. Init => CleanInv
  BY DEF Init, CleanInv, Matches, LatestBaseline
<1>4. TypeOK /\ TraceInv /\ StampInv /\ (Acked => KnownInv) /\ (Clean => CleanInv) /\ [Next]_vars
        => (Clean => CleanInv)'
  BY <1>1, NextClean, Rigid DEF Clean, Faults
<1>5. (Clean => CleanInv) => NoFalseAlarm
  BY DEF CleanInv, NoFalseAlarm
<1>. QED
  BY <1>1, <1>2, <1>3, <1>4, <1>5, InitTrace, NextTrace, InitKnown, NextStamps, TypeCorrect, PTL DEF Spec
=============================================================================
