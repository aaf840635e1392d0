------------------------ MODULE RebalancerProperties ------------------------
(***************************************************************************)
(* What the rebalancer guarantees, and what its documentation says of it.  *)
(***************************************************************************)
EXTENDS Rebalancer

\* Type invariant.  The book's open quantities are never negative, so a fill
\* or a cancel never takes more than an order has.
TypeOK ==
  /\ pos \in Positions
  /\ buying \in [Symbols -> Nat]
  /\ selling \in [Symbols -> Nat]
  /\ scenario \in Scenarios
  /\ today \in Nat
  /\ manual \in Nat
  /\ journals \subseteq Journal
  /\ events \subseteq Event
  /\ stray \subseteq Nat
  /\ pc \in Pcs
  /\ stamp \in Nat
  /\ stamps \subseteq Nat
  /\ day \in Nat
  /\ held \in Positions
  /\ todo \in Positions
  /\ sent \in Positions
  /\ some \in BOOLEAN
  /\ failed \in BOOLEAN

\* An evening run only sends orders that were sized on the account as it is,
\* if the account only moves between runs: while it submits, the account and
\* its book are what the run read plus what it has sent, and the baseline, if
\* any, said the same before it began (the gate, then _reconcile, then
\* _trade).  A clock set back makes an older journal the baseline, which may
\* halt a run and never lets one through.
SizedOnReconciledAccount ==
  "midrun" \notin Faults /\ pc = "submit" =>
    /\ \A s \in Symbols : Owed[s] = held[s] + sent[s]
    /\ Matches(LatestBaseline(journals), held)

\* The open sells never exceed the shares held, so executing everything
\* cannot leave the long-only account short.
Coverable == \A s \in Symbols : selling[s] =< pos[s]

\* Neither an evening run over an earlier run's orders nor a flatten over its
\* own sells a share twice, if the account only moves between runs and
\* cancel_all cancels.
NoOversell == Faults \cap {"midrun", "partial_cancel"} = {} => Coverable

\* A session whose dated journal exists is never traded again: the rerun
\* check is made several broker calls before the first order goes out.
NoSecondTrade ==
  [][pc = "submit" /\ some' =>
       ~\E j \in journals : j.kind = "rebalance" /\ j.day = day]_vars

\* The run has something to put on file: its orders, those of a flatten that
\* returned, or the accepted positions.
HasToJournal ==
  \/ pc \in {"settle", "report"} /\ some
  \/ pc \in {"fl_settle", "ac_journal"}

\* A run that is not killed leaves a trace of its stamp in the folder, a
\* journal or an event; if IB accepted orders of an evening run, the trace
\* says which (broker_run's docstring; _submit_each and _settle).  Without
\* one, two writes of that run have failed: its event's, which goes to stderr
\* as a last resort (_append_error), and that of the journal it had to write.
LeavesTrace ==
  [][pc \notin Gone /\ pc' = "idle" =>
       \/ \E j \in journals' :
            j.stamp = stamp /\ (pc \in EveningPcs => j.expected = ExpectedPositions(held, sent))
       \/ \E e \in events' :
            e.stamp = stamp /\ (pc \in EveningPcs => e.orders = sent)
       \/ /\ "events_fail" \in Faults
          /\ HasToJournal => "journal_fails" \in Faults \/ day \in stray]_vars

\* Nothing goes wrong but an order that IB returns dead or does not get, which
\* a run knows at once.
Clean == Faults \subseteq {"dead_at_submit", "submit_fails"}

\* Then the reconcile never halts the system: no sequence of evening runs,
\* flattens and accepts, at whatever moment between them orders fill, ends in
\* a mismatch.
NoFalseAlarm == Clean => \A e \in events : e.status # "reconcile_mismatch"

\* Then the account and its newest journal agree again and again, with
\* nobody's help.
Converges ==
  Clean => []<>(pc = "idle" /\ Matches(LatestBaseline(journals), pos))

-----------------------------------------------------------------------------
(* The abstract specification.                                             *)

\* Every order IB accepted is known to the run that sent it, and the account
\* only moves between runs.
Acked == Faults \cap {"midrun", "partial_cancel", "lost_ack"} = {}

\* A scenario without Acked promises nothing, and is mapped to a book that
\* stands still.
phaseBar ==
  CASE Acked /\ pc \in {"submit", "settle"} -> "trading"
    [] Acked /\ pc \in FlattenPcs \ {"fl_holdings"} -> "unwinding"
    [] OTHER -> "idle"

owedBar == IF Acked THEN Owed ELSE Flat

recordBar == IF Acked THEN LatestBaseline(journals) ELSE None

Promise == INSTANCE PositionBook
             WITH owed <- owedBar, record <- recordBar, phase <- phaseBar

\* The runs keep the promise of PositionBook: trading starts only on an
\* account that its record describes, and a record is never false.
KeepsPromise == Promise!Spec

-----------------------------------------------------------------------------
(* What the documentation says and the code does not do.                   *)

\* "A second --flatten is allowed and idempotent, because it calls
\* cancel_all() first": after any number of flattens, no share is being sold
\* twice.
FlattenIsIdempotent == Coverable

\* A flatten() that raised leaves sells no journal knows, but "the next run's
\* Gate (open orders) or reconcile catches whatever went out": an evening run
\* that has a baseline to reconcile with, and passes both, never sells what
\* such a flatten has already sold.
NextRunCatchesFlatten ==
  pc = "submit" /\ LatestBaseline(journals) # None => Coverable
=============================================================================
