----------------------------- MODULE MCStudies -----------------------------
(***************************************************************************)
(* Small tapes for every kind of study.  Tickers are numbers; the sleeves  *)
(* trade 1 and 2, the core 8 and 9.                                        *)
(***************************************************************************)
EXTENDS StudiesProperties

MCTickers == {1, 2}

\* The spread of the last closes stands for the volatility of their returns.
MCVolatility(closes, n) ==
  LET last == {closes[u] : u \in Window(Len(closes), n)}
  IN  IF ~Full(closes, Len(closes), n) THEN NaN ELSE Max(last) - Min(last)

MCMonthsAYear == 1
MCSharpe(run) == Minus(Product(DOMAIN run, LAMBDA t : run[t]), Drawdown(run))

\* What a company earned in its quarters, so that sums tell which they are.
MCTrueQuarter(q) == 2 ^ q

-----------------------------------------------------------------------------

Bar(open, close) == [open |-> open, high |-> Max({open, close}), low |-> Min({open, close}),
                     close |-> close, volume |-> close]
At(close) == IF close = NaN THEN NaN ELSE Bar(close, close)

Sleeve(closes) == {[bars |-> [x \in {1, 2} |-> At(c[x])]] : c \in closes}

PullbackRule ==
  [family |-> "trend_pullback", trend |-> 3, short |-> 2, days |-> 1, pct |-> 50,
   exitDays |-> 2, slots |-> 1]
RegimeRule ==
  [family |-> "regime_pullback", trend |-> 2, short |-> 3, days |-> 9, pct |-> 0, exitDays |-> 9,
   slots |-> 2, breadth |-> 2, minBreadth |-> 50]
RangeRule ==
  [family |-> "low_range_close", trend |-> 2, range |-> 50, exitDays |-> 9, slots |-> 1]
QuietRule ==
  [family |-> "quiet_pullback", trend |-> 3, short |-> 2, by |-> "price", window |-> 2,
   ratio |-> 100, exitDays |-> 9, slots |-> 1]
BusyRule == [QuietRule EXCEPT !.by = "volume", !.ratio = 120]
TrendRule == [family |-> "core_trend", risk_on |-> 8, risk_off |-> 9, lookback |-> 2]
HoldRule == [family |-> "buy_and_hold", ticker |-> 8]
NullRule == [family |-> "null", trended |-> TRUE, lookback |-> 2]

SleeveDays == Sleeve({<<1, 1>>, <<5, 3>>, <<3, 4>>, <<3, NaN>>})
RangeDays ==
  {[bars |-> [x \in {1, 2} |-> b[x]]] :
     b \in {<<Bar(1, 1), Bar(1, 2)>>, <<Bar(4, 3), Bar(2, 3)>>, <<Bar(3, 4), Bar(4, 3)>>,
            <<NaN, Bar(4, 4)>>, <<Bar(2, 4), NaN>>}}
CoreDays ==
  {[bars |-> [x \in {8, 9} |-> At(c[x - 7])]] :
     c \in {<<1, 2>>, <<2, 2>>, <<3, NaN>>, <<NaN, 2>>}}
NullDays ==
  {[bars |-> [x \in {1, 2} |-> At(c[x])], member |-> m] :
     c \in {<<1, 2>>, <<2, 1>>, <<3, NaN>>}, m \in {{1}, {1, 2}}}

Strategy(rule, days) == [kind |-> "strategy", rule |-> rule, days |-> days]

-----------------------------------------------------------------------------
MarketSubject == [kind |-> "market", cost |-> Ratio(1, 4), days |-> 4]
Want(a, b) == [x \in {1, 2} |-> IF x = 1 THEN a ELSE b]
MarketDays ==
  {[bars |-> [x \in {1, 2} |-> b[x]], want |-> w] :
     b \in {<<Bar(1, 2), Bar(2, 1)>>, <<Bar(2, 1), NaN>>, <<NaN, Bar(1, 1)>>},
     w \in {Want(Unit, 0), Want(0, Unit), Want(0, 0)}}
  \cup {[bars |-> [x \in {1, 2} |-> Bar(1, 2)], want |-> NaN]}

-----------------------------------------------------------------------------
\* Two candidates: the first warms up and comes and goes, the second is steady.
WalkSubject ==
  [kind |-> "walk", candidates |-> {1, 2}, start |-> 2, lookback |-> 2, minTrack |-> 2,
   ddMultiple |-> 1, lossMultiple |-> 1, count |-> 1, share |-> 6, quarterly |-> FALSE, days |-> 6]
Steady == [hold |-> Unit, ret |-> 0]
WalkDays(days) ==
  LET t == Len(days) + 1
      first == {h \in {NaN, 0, Unit} : h = NaN => \A u \in DOMAIN days : days[u].hold[1] = NaN}
      invested(u) == u > 0 /\ days[u].hold[1] \notin {NaN, 0}
  IN  {[month |-> (t + 1) \div 2, hold |-> <<h, Unit>>, ret |-> <<r, q>>] :
         h \in first, r \in IF invested(t - 1) \/ invested(t - 2) THEN {-1, 2} ELSE {0},
         q \in IF t = 4 THEN {0, 2} ELSE {0}}

-----------------------------------------------------------------------------
HealthSubject ==
  [kind |-> "health", days |-> 3, split |-> [core |-> 6, sleeve |-> 6],
   rules |-> [m \in {"core", "first", "second"} |->
                CASE m = "core"   -> TrendRule
                  [] m = "first"  -> [PullbackRule EXCEPT !.trend = 2, !.short = 1, !.days = 9, !.pct = 0]
                  [] m = "second" -> RangeRule],
   limits |-> [gross |-> Unit, positions |-> 1, loss |-> 6],
   staleness |-> 1, lag |-> 0, broken |-> {}, loads |-> TRUE, warned |-> FALSE]
HealthSubjects ==
  {HealthSubject, [HealthSubject EXCEPT !.lag = 1], [HealthSubject EXCEPT !.broken = {"first"}],
   [HealthSubject EXCEPT !.broken = {"core"}], [HealthSubject EXCEPT !.warned = TRUE],
   [HealthSubject EXCEPT !.loads = FALSE], [HealthSubject EXCEPT !.split.core = 9]}
HealthDays ==
  {[bars |-> [x \in {1, 2, 8, 9} |-> IF x < 8 THEN d[x] ELSE At(d[3])]] :
     d \in {<<Bar(1, 1), Bar(1, 1), 2>>, <<Bar(1, 1), Bar(4, 2), 3>>, <<Bar(1, 2), Bar(1, 1), 3>>,
            <<NaN, Bar(4, 2), 2>>, <<Bar(1, 2), Bar(4, 2), 3>>}}

-----------------------------------------------------------------------------
\* A company files each quarter in the next one, late, or only with its year.
FactsSubject == [kind |-> "facts", days |-> 7]
Fact(concept, span, end, val, class) ==
  [concept |-> concept, span |-> span, end |-> end, val |-> val, class |-> class]
Quarterly(q) == Fact("earned", 1, q, MCTrueQuarter(q), 1)
Annual(q) == Fact("earned", 4, q, SumOver(q - 3..q, MCTrueQuarter), 1)
FactsDays(days) ==
  LET t == Len(days) + 1
  IN  {[filings |-> [x \in {1} |-> f]] :
         f \in {{}} \cup {{Quarterly(t)}} \cup (IF t > 1 THEN {{Quarterly(t), Quarterly(t - 1)}} ELSE {})
              \cup (IF t % 4 = 0 THEN {{Annual(t)}} ELSE {})}

-----------------------------------------------------------------------------
\* Two companies, two classes, splits, and months of two days.
FactorSubject(score) ==
  [kind |-> "factor", score |-> score, concept |-> "earned", hold |-> 1, quarterly |-> FALSE,
   filter |-> FALSE, top |-> 1, limit |-> 1, days |-> 4]
CoverPage(s) == {Fact("dei", 0, 0, s \div 2, 1), Fact("dei", 0, 0, s - s \div 2, 2)}
Books(earned, assets, before) ==
  {Fact("earned", 4, 0, earned, 1), Fact("assets", 0, 0, assets, 1), Fact("assets", 0, -4, before, 1)}
FactorDays(days) ==
  LET t == Len(days) + 1
      shares(k) == k * FoldSet(LAMBDA u, acc : days[u].split[1] * acc, 2, DOMAIN days)
      filed(k, f) == IF f THEN CoverPage(shares(k)) \cup Books(2, 3, 2) ELSE {}
  IN  {[bars |-> [x \in {1, 2} |-> At(IF x = 1 THEN d[1] ELSE 3)],
        split |-> [x \in {1, 2} |-> IF x = 1 THEN d[2] ELSE 1],
        filings |-> [x \in {1, 2} |-> IF x = 1 THEN filed(d[2], d[3])
                                       ELSE IF t = 1 THEN CoverPage(2) \cup Books(3, 4, 2) ELSE {}],
        month |-> (t + 1) \div 2, last |-> t % 2 = 0, trend |-> TRUE] :
         d \in {<<2, 1, FALSE>>, <<2, 1, TRUE>>, <<NaN, 1, FALSE>>, <<2, 2, FALSE>>, <<2, 2, TRUE>>}}

-----------------------------------------------------------------------------
PaperSubject ==
  [kind |-> "paper", start |-> 1, cost |-> Ratio(0, 1), days |-> 5,
   baseline |-> [family |-> "null", trended |-> FALSE, lookback |-> 1],
   researchFall |-> Ratio(1, 4), multiple |-> Ratio(3, 2), review |-> 3, reviews |-> {2, 3, 4},
   minExcess |-> Ratio(-1, 4), promote |-> 4, minPromote |-> Ratio(0, 1), due |-> 0]
PaperDays ==
  {[bars |-> [x \in {1, 2} |-> IF x = 1 THEN At(d[1]) ELSE At(2)], want |-> d[2], member |-> {1, 2}] :
     d \in {<<1, Want(Unit, 0)>>, <<2, Want(Unit, 0)>>, <<4, Want(Unit, 0)>>, <<2, Want(0, Unit)>>,
            <<NaN, Want(0, Unit)>>}}

-----------------------------------------------------------------------------
\* A cache with nothing, with the open and close of an old version, with a CSV.
CacheSubject(parquet, csv, days) == [kind |-> "cache", parquet |-> parquet, csv |-> csv, days |-> days]
CacheSubjects ==
  {CacheSubject(NaN, NaN, 2), CacheSubject([from |-> LegacyStart, bars |-> FALSE], NaN, 3),
   CacheSubject(NaN, [from |-> LegacyStart, bars |-> TRUE], 2)}
CacheDays ==
  [start : {LegacyStart - 1, LegacyStart}, bars : BOOLEAN, refresh : BOOLEAN, end : {"done", "nothing", "killed"}]

-----------------------------------------------------------------------------
\* A draw that turns around the spells of some kinds.
Backwards(kinds) ==
  [kind \in BOOLEAN |-> [n \in 1..8 |-> [i \in 1..n |-> IF kind \in kinds THEN n + 1 - i ELSE i]]]

\* Months of two days; the last one may be the month's last, or a weekend comes.
OverlaySubject ==
  [kind |-> "overlay", days |-> 8, begin |-> 3, researchEnd |-> 6, cost |-> Ratio(1, 8),
   base |-> [x \in {1, 2, 3} |-> IF x = 1 THEN 6 ELSE 3], safe |-> 3, cap |-> 6,
   move |-> [s \in {"trend", "vol", "inflation"} |-> 3],
   trendAssets |-> {1}, sma |-> 2, volAsset |-> 1, volDays |-> 2, medianDays |-> 2, volRatio |-> 100,
   inflationAsset |-> 2, inflationAbove |-> Ratio(1, 4), inflationLookback |-> 1, cpiLag |-> 2,
   minGain |-> Ratio(0, 1), maxShortfall |-> Ratio(1, 8),
   draws |-> {[s \in {<<"trend", 1>>, <<"vol", 1>>, <<"inflation", 2>>} |->
                 Backwards(IF s[1] = "vol" THEN BOOLEAN \ kinds ELSE kinds)] : kinds \in SUBSET BOOLEAN},
   luckier |-> 2]
OverlayDays(days) ==
  LET t == Len(days) + 1
  IN  {[bars |-> [x \in {1, 2, 3} |-> At(CASE x = 1 -> d[1] [] x = 2 -> d[2] [] x = 3 -> 2)],
        month |-> (t + 1) \div 2, cpi |-> IF t % 2 = 0 THEN days[t - 1].cpi ELSE c,
        nextInNewMonth |-> t % 2 = 0, calendarEnd |-> t % 2 = 0 /\ d[3]] :
         d \in {<<1, 1, TRUE>>} \cup (IF t > 2 THEN {<<3, 1, FALSE>>, <<2, NaN, TRUE>>} ELSE {}),
         c \in IF t = 5 THEN {NaN, 4, 6} ELSE {4}}

-----------------------------------------------------------------------------
\* Graded on its own, next to a core that may be listed late, and against the null.
CandidateSubject ==
  [kind |-> "candidate", days |-> 6, rule |-> NullRule, core |-> HoldRule, combined |-> TRUE,
   null |-> [family |-> "null", trended |-> FALSE, lookback |-> 1],
   research |-> <<1, 4>>, validation |-> <<4, 6>>, split |-> [core |-> 6, sleeve |-> 6],
   cost |-> Ratio(1, 8), benchmark |-> 8, minTrades |-> 1, minSharpe |-> Ratio(0, 1),
   maxFall |-> Ratio(1, 4), minGain |-> Ratio(1, 8), noWorse |-> TRUE, maxShortfall |-> Ratio(1, 8)]
CandidateSubjects ==
  {CandidateSubject, [CandidateSubject EXCEPT !.combined = FALSE, !.null = NaN],
   [CandidateSubject EXCEPT !.null = NaN]}
CandidateDays(days) ==
  {[bars |-> [x \in {1, 2, 8} |-> CASE x = 1 -> At(d[1]) [] x = 2 -> At(d[2]) [] x = 8 -> At(d[3])],
    member |-> {1, 2}] :
     d \in {<<1, 2, 2>>, <<3, 1, 3>>, <<NaN, 2, 2>>} \cup (IF days = <<>> THEN {<<1, 2, NaN>>} ELSE {})}

-----------------------------------------------------------------------------
WalkOnly == {WalkSubject}

MCSubjects ==
  {Strategy(PullbackRule, 5), Strategy(RegimeRule, 5), Strategy(RangeRule, 4),
   Strategy(QuietRule, 5), Strategy(BusyRule, 4),
   Strategy(TrendRule, 4), Strategy(HoldRule, 3), Strategy(NullRule, 4),
   MarketSubject, WalkSubject, [WalkSubject EXCEPT !.count = 2, !.days = 5], FactsSubject, PaperSubject}
  \cup HealthSubjects \cup CacheSubjects \cup {OverlaySubject} \cup CandidateSubjects
  \cup {FactorSubject(score) : score \in {"value_ey", "profitability", "low_investment"}}

MCDays(s, days) ==
  CASE s.kind = "market" -> MarketDays
    [] s.kind = "walk"   -> WalkDays(days)
    [] s.kind = "health" -> HealthDays
    [] s.kind = "facts"  -> FactsDays(days)
    [] s.kind = "factor" -> FactorDays(days)
    [] s.kind = "paper"  -> PaperDays
    [] s.kind = "cache"  -> CacheDays
    [] s.kind = "overlay" -> OverlayDays(days)
    [] s.kind = "candidate" -> CandidateDays(days)
    [] s.kind = "strategy" /\ s.rule.family = "low_range_close" -> RangeDays
    [] s.kind = "strategy" /\ s.rule.family = "null" -> NullDays
    [] s.kind = "strategy" /\ s.rule.family \in {"core_trend", "buy_and_hold"} -> CoreDays
    [] OTHER -> SleeveDays

=============================================================================
