---------------------------- MODULE EntrySignals ----------------------------
(***************************************************************************)
(* When an entry is wanted: the regime of the daily bars (classifier.py), the *)
(* entries of the strategies (domain/strategy), and the two guards of         *)
(* _try_buy that look at the minute bars.  The daily bars are given by what   *)
(* is asked of them: d.ma (up, down, mixed), d.rsi (oversold, low, middle,    *)
(* high, overbought), d.direction and d.macd (1, 0, -1), and the indicators   *)
(* d.accel, d.surge, d.aboveMa5 and d.overBand (%B is one or more).           *)
(***************************************************************************)
EXTENDS MinuteAnalysis, FiniteSetsExt

CONSTANTS
  DisableScore3, LowUpsideGuard, LeastUpside, GuardsPatternD,
  RequireConfirmation, SlowVEnabled,
  SymbolMinScore,              \* symbol_min_score_override of the symbol, 0: none
  EnforceCandidateA, NeedVwap  \* candidate_a_guard_mode, require_entry_above_vwap

ASSUME EntryAssumption ==
  /\ {DisableScore3, LowUpsideGuard, GuardsPatternD, RequireConfirmation, SlowVEnabled,
      EnforceCandidateA, NeedVwap} \subseteq BOOLEAN
  /\ {LeastUpside, SymbolMinScore} \subseteq Nat

\* The average, the RSI with its direction and the MACD agree
TrendRules(d) ==
  << <<d.ma = "up" /\ d.rsi # "overbought" /\ d.direction >= 0 /\ d.macd = 1, "BULLISH">>,
     <<d.ma = "down" /\ d.rsi # "oversold" /\ d.direction <= 0 /\ d.macd = -1, "BEARISH">> >>

\* They do not, and the RSI decides: "middle" is 35 to 65, whatever the rest says
RsiRules(d) ==
  << <<d.rsi = "oversold" /\ d.direction = -1, "BEARISH">>,
     <<d.rsi = "oversold" /\ d.direction = 1, "NEUTRAL">>,
     <<d.rsi = "middle", "NEUTRAL">>,
     <<TRUE, "SIDEWAYS">> >>

\* classify, the first rule that applies; bars that are too few, or that cannot be, are not known
Classify(d) ==
  IF d.known THEN SelectSeq(TrendRules(d) \o RsiRules(d), LAMBDA rule : rule[1])[1][2] ELSE "UNKNOWN"

Change(price, prev) == (price - prev) * 1000   \* compare with a share times prev

\* _get_regime_with_cache: a day of two percent overrules the daily bars
RegimeOf(d, price, prev) ==
  IF Change(price, prev) >= 20 * prev THEN "BULLISH"
  ELSE IF Change(price, prev) <= -20 * prev THEN "NEUTRAL" ELSE Classify(d)

-----------------------------------------------------------------------------
Count(conditions) == Cardinality({i \in DOMAIN conditions : conditions[i]})

VOrPr(a, slow) == a.v \/ a.pr \/ (slow /\ a.slowV)

DailyScore(d) == Count(<<d.macd = 1, d.accel, d.surge, d.aboveMa5>>)
MinuteScore(a, slow) == IF a.known THEN Count(<<a.aboveVwap, a.lowRising, VOrPr(a, slow), a.spike>>) ELSE 0
Score(d, a, slow) == DailyScore(d) + MinuteScore(a, slow)

\* Compare with a share times the price, or times the day's high
Upside(a)   == (a.recentHigh - a.price) * 1000
Pullback(a) == (a.price - a.dayHigh) * 1000

\* The pattern D: a gap of five to ten percent and a small step back
GapPullback(a) ==
  /\ a.known /\ a.aboveVwap
  /\ 50 * a.prev <= Change(a.price, a.prev) /\ Change(a.price, a.prev) <= 100 * a.prev
  /\ -30 * a.dayHigh <= Pullback(a) /\ Pullback(a) <= -a.dayHigh

(***************************************************************************)
(* BreakoutStrategy.generate_signal, nothing held                             *)
(***************************************************************************)
BreakoutPattern(a) ==
  /\ a.validValue
  /\ a.validChange \/ a.validPulldown \/ VOrPr(a, SlowVEnabled)
  /\ a.validChange /\ ~a.validPulldown => Pullback(a) >= -20 * a.dayHigh
  /\ a.validPulldown /\ ~a.validChange => a.validPullback

Chasing(d, a)   == a.known /\ Change(a.price, a.prev) >= 30 * a.prev /\ d.macd # 1
NoUpside(a)     == /\ LowUpsideGuard /\ a.known /\ Upside(a) < LeastUpside * a.price
                   /\ GuardsPatternD \/ ~GapPullback(a)
Confirmed(d, a) == d.surge \/ (a.known /\ (VOrPr(a, SlowVEnabled) \/ a.spike))

\* The reasons to wait.  mutant: the upside that is left is not looked at
WaitsUnlessHot(d, a, score) == Chasing(d, a) \/ d.overBand \/ score < SymbolMinScore
Waits(d, a, score) == Chasing(d, a) \/ d.overBand \/ NoUpside(a) \/ score < SymbolMinScore

BreakoutEntry(d, a) ==
  LET score == Score(d, a, SlowVEnabled)
  IN /\ d.known /\ (a.known => BreakoutPattern(a))
     /\ IF score >= 5 THEN RequireConfirmation => Confirmed(d, a)
        ELSE /\ ~Waits(d, a, score)
             /\ score = 4 \/ (score = 3 /\ ~DisableScore3) \/ (score >= 2 /\ GapPullback(a))

\* NeutralStrategy.generate_signal, nothing held
NeutralEntry(d, a) ==
  /\ d.known /\ a.known /\ a.validValue
  /\ a.v \/ a.pr
  /\ a.validPulldown => a.validPullback
  /\ Score(d, a, FALSE) >= 5

-----------------------------------------------------------------------------
\* evaluate_candidate_a: little upside, and no volume behind the rebound
CandidateA(a) == a.known /\ Upside(a) < 5 * a.price /\ ~a.spike

\* entry_vwap_block_reason: both the price decided on and the live one are above
VwapAllows(bars, price, live) == AboveVwap(bars, price) /\ AboveVwap(bars, live)

\* What the strategy of the regime wants, if the minute bars are safe
Wanted(d, a, safe, price, prev) ==
  LET regime == RegimeOf(d, price, prev)
  IN /\ safe
     /\ \/ regime = "BULLISH" /\ BreakoutEntry(d, a)
        \/ regime = "NEUTRAL" /\ NeutralEntry(d, a)

Entry(d, a, safe, bars, price, prev, live) ==
  /\ Wanted(d, a, safe, price, prev)
  /\ NeedVwap => VwapAllows(bars, price, live)
  /\ EnforceCandidateA => ~CandidateA(a)
=============================================================================
