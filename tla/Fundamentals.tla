---------------------------- MODULE Fundamentals ----------------------------
(***************************************************************************)
(* Point-in-time panels from filings (qrl/fundamentals.py), the universe   *)
(* that is ranked by them (qrl/pit_universe.py) and the factor scores      *)
(* (qrl/factor_data.py, strategies/factors.py); at the end, the cache of   *)
(* prices (qrl/data.py).                                                   *)
(*                                                                         *)
(* A day's filings give each company a set of facts: a concept, the number *)
(* of quarters it spans (0 for an instant), the day its period ended, the  *)
(* value, and the share class it is about.  Each day is a quarter's end.   *)
(* A fact is public on the days after its filing.                          *)
(***************************************************************************)
EXTENDS Strategies

Year == 4
Staleness == 5           \* quarters after which a value is too old to use

-----------------------------------------------------------------------------
(* pit_panel                                                               *)

\* The facts of a company filed strictly before a day.
Public(tape, t, x, concept, span) ==
  UNION {{[end |-> f.end, filed |-> u, val |-> f.val, class |-> f.class] :
            f \in {g \in tape[u].filings[x] : g.concept = concept /\ g.span = span}} : u \in 1..t - 1}

\* The latest period, as it was last reported.
Latest(facts) ==
  CHOOSE f \in facts :
    \A g \in facts : f.end > g.end \/ (f.end = g.end /\ f.filed >= g.filed)

Fresh(t, end) == t - end =< Staleness

\* The latest fact of a day, NaN when there is none or it is stale.
Current(facts, t) ==
  IF facts = {} THEN NaN ELSE IF Fresh(t, Latest(facts).end) THEN Latest(facts) ELSE NaN

Value(fact) == IF fact = NaN THEN NaN ELSE fact.val

PitPanel(tape, x, concept, span) ==
  [t \in DOMAIN tape |-> Value(Current(Public(tape, t, x, concept, span), t))]

-----------------------------------------------------------------------------
(* ttm_panel: four quarters, where a fourth quarter is what its year has   *)
(* more than the other three.                                              *)

\* The last report of every period.
LastReports(facts) ==
  [e \in {f.end : f \in facts} |-> Latest({f \in facts : f.end = e}).val]

\* The year's quarters before its last.
Inner(quarters, end) == DOMAIN quarters \cap end - Year + 1..end - 1

WithFourth(quarters, annuals) ==
  LET derived == {e \in DOMAIN annuals \ DOMAIN quarters :
                    Cardinality(Inner(quarters, e)) = Year - 1}
  IN  [e \in DOMAIN quarters \cup derived |->
         IF e \in DOMAIN quarters THEN quarters[e]
         ELSE annuals[e] - SumOver(Inner(quarters, e), LAMBDA q : quarters[q])]

\* The last four, only if they follow on each other.
Chain(q) ==
  LET last == {e \in DOMAIN q : Cardinality({d \in DOMAIN q : d > e}) < Year}
  IN  IF last = Max(last) - Year + 1..Max(last) THEN last ELSE {}

\* _ttm_state
Trailing12(quarters, annuals) ==
  LET q    == WithFourth(quarters, annuals)
      ends == DOMAIN q \cup DOMAIN annuals
      last == Max(ends)
  IN  IF ends = {} THEN NaN
      ELSE IF last \in DOMAIN annuals THEN [end |-> last, val |-> annuals[last]]
      ELSE IF Chain(q) = {} THEN NaN
      ELSE [end |-> last, val |-> SumOver(Chain(q), LAMBDA e : q[e])]

TtmPanel(tape, x, concept) ==
  [t \in DOMAIN tape |->
     LET state == Trailing12(LastReports(Public(tape, t, x, concept, 1)),
                             LastReports(Public(tape, t, x, concept, Year)))
     IN  IF state # NaN /\ Fresh(t, state.end) THEN state.val ELSE NaN]

\* assets_lag1y_panel: the value a year before the latest one known.
LagPanel(tape, x, concept) ==
  [t \in DOMAIN tape |->
     LET facts == Public(tape, t, x, concept, 0)
         last  == Latest(facts).end
         known == LastReports(facts)
     IN  IF facts # {} /\ Fresh(t, last) /\ last - Year \in DOMAIN known
         THEN known[last - Year] ELSE NaN]

-----------------------------------------------------------------------------
(* total_shares_sourced_panels                                             *)

\* total_shares_facts: the classes of one filing are added up.
AllClasses(facts) ==
  {[end |-> f.end, filed |-> f.filed,
    val |-> SumOver({g \in facts : g.end = f.end /\ g.filed = f.filed}, LAMBDA g : g.val)] :
     f \in facts}

\* Cover pages, else balance sheets, else quarterly, else annual averages.
SharesFact(tape, t, x) ==
  LET dei  == Current(AllClasses(Public(tape, t, x, "dei", 0)), t)
      gaap == Current(Public(tape, t, x, "gaap", 0), t)
      wavg == Current(Public(tape, t, x, "wavg", 1), t)
  IN  IF dei # NaN THEN dei ELSE IF gaap # NaN THEN gaap
      ELSE IF wavg # NaN THEN wavg ELSE Current(Public(tape, t, x, "wavg", Year), t)

\* A count is brought to the shares of its own day.
SplitFactorFromFiling(tape, x, filed) ==
  FoldSet(LAMBDA u, acc : tape[u].split[x] * acc, 1, filed..Len(tape))

\* Counts filed before a split are brought to today's shares, like the prices.
SplitFactor(tape, x, filed) ==
  FoldSet(LAMBDA u, acc : tape[u].split[x] * acc, 1, filed + 1..Len(tape))

EffectiveShares(tape, t, x) ==
  LET fact == SharesFact(tape, t, x)
  IN  IF fact = NaN THEN NaN ELSE fact.val * SplitFactor(tape, x, fact.filed)

-----------------------------------------------------------------------------
(* The universe: the largest companies at the end of each month.           *)

\* Yahoo's closes are those of today's shares, too.
AdjustedClose(tape, t, x) ==
  Ratio(tape[t].bars[x].close, SplitFactor(tape, x, t))

\* The last close, if it is not too old.
LastClose(tape, t, x, limit) ==
  LET priced == {u \in t - limit..t : u \in DOMAIN tape /\ Priced(tape, u, x)}
  IN  IF priced = {} THEN NaN ELSE AdjustedClose(tape, Max(priced), x)

MarketCap(tape, t, x, limit) ==
  LET shares == EffectiveShares(tape, t, x)
      price  == LastClose(tape, t, x, limit)
  IN  IF shares = NaN \/ price = NaN THEN NaN ELSE Times(Ratio(shares, 1), price)

\* month_end_dates: the last day of every month that is over.
IsMonthEnd(tape, t) ==
  IF t < Len(tape) THEN tape[t + 1].month # tape[t].month ELSE tape[t].last

\* rank_membership
RankMembership(tape, m, p) ==
  LET cap == [x \in Tickers |-> MarketCap(tape, m, x, p.limit)]
  IN  Best({x \in Tickers : cap[x] # NaN /\ cap[x].n > 0}, cap, p.top)

\* membership_mask: the last month's end strictly before the day.
MembershipMask(tape, p) ==
  [t \in DOMAIN tape |->
     LET ends == {m \in 1..t - 1 : IsMonthEnd(tape, m)}
     IN  IF ends = {} THEN {} ELSE RankMembership(tape, Max(ends), p)]

-----------------------------------------------------------------------------
(* The factor families on those panels.                                    *)

Per(a, b) == IF a = NaN \/ b = NaN THEN NaN ELSE IF b.n =< 0 THEN NaN
             ELSE Ratio(a.n * b.d, a.d * b.n)
Exactly(v) == IF v = NaN THEN NaN ELSE Ratio(v, 1)

\* value_ey, profitability and low_investment; for the last, low is better.
Score(tape, t, x, p) ==
  LET earned == TtmPanel(tape, x, p.concept)[t]
      assets == Exactly(PitPanel(tape, x, "assets", 0)[t])
      growth == Per(assets, Exactly(LagPanel(tape, x, "assets")[t]))
  IN  CASE p.score = "value_ey" ->
             IF earned = NaN THEN NaN
             ELSE IF earned > 0 THEN Per(Exactly(earned), MarketCap(tape, t, x, 0)) ELSE NaN
        [] p.score = "profitability"  -> Per(Exactly(earned), assets)
        [] p.score = "low_investment" -> IF growth = NaN THEN NaN ELSE [growth EXCEPT !.n = -@]

\* The tape the family sees: who is a member and what each one scores.
Panelled(tape, p) ==
  [t \in DOMAIN tape |->
     [bars   |-> tape[t].bars, month |-> tape[t].month, trend |-> tape[t].trend,
      member |-> MembershipMask(tape, p)[t],
      score  |-> [x \in Tickers |-> IF Flag(tape, t, p) THEN Score(tape, t, x, p) ELSE NaN]]]

FactorFamily(tape, p) == FactorWeights(Panelled(tape, p), p)

-----------------------------------------------------------------------------
(* The cache of Yahoo's prices (qrl/data.py), one ticker of it.  A tape is *)
(* the sequence of the loads that asked for the ticker, each with the day  *)
(* from which it wants bars, whether it wants all their fields, whether it *)
(* is to refresh, and how it ends: "done", "nothing" when no download      *)
(* succeeds, chunk or single, or "killed" between the two files that a     *)
(* fetch writes.  The cache is what the loads made of it: the parquet file *)
(* and the start file beside it, the legacy CSV, NaN when there is none.   *)

LegacyStart == 2      \* 1999-01-01

\* _load_cached: a legacy CSV becomes a parquet file on the way.
Migrated(cache) == IF cache.parquet = NaN THEN [cache EXCEPT !.parquet = cache.csv] ELSE cache

HasColumns(frame, load) == frame.bars \/ ~load.bars

\* _covers_start
CoversStart(cache, load) == (IF cache.start = NaN THEN LegacyStart ELSE cache.start) =< load.start

\* A load that refreshes does not look.
Looked(cache, load) == IF load.refresh THEN cache ELSE Migrated(cache)
Serves(cache, load) ==
  /\ ~load.refresh /\ Migrated(cache).parquet # NaN
  /\ HasColumns(Migrated(cache).parquet, load) /\ CoversStart(cache, load)

\* _download_chunk, _download_one: bars of every field from the day asked for
Downloaded(load) == [from |-> load.start, bars |-> TRUE]

\* _record_start, unless killed before.
Recorded(old, load) == IF load.end = "killed" THEN old ELSE load.start

\* _load_frames: the cache after a load, and what it hands out.
Load(cache, load) ==
  IF Serves(cache, load)
  THEN [Migrated(cache) EXCEPT !.start = IF @ = NaN THEN LegacyStart ELSE @, !.served = Migrated(cache).parquet]
  ELSE IF load.end = "nothing" THEN [Looked(cache, load) EXCEPT !.served = NaN]
  ELSE [Looked(cache, load) EXCEPT !.parquet = Downloaded(load), !.start = Recorded(@, load),
                                   !.served = IF load.end = "done" THEN Downloaded(load) ELSE NaN]

\* The cache after every load.
CacheAfter(tape, p) ==
  LET after[t \in 0..Len(tape)] ==
        IF t = 0 THEN [parquet |-> p.parquet, csv |-> p.csv, start |-> NaN, served |-> NaN]
        ELSE Load(after[t - 1], tape[t])
  IN  [t \in 0..Len(tape) |-> after[t]]

=============================================================================
