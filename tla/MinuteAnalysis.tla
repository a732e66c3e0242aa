--------------------------- MODULE MinuteAnalysis ---------------------------
(***************************************************************************)
(* What is read from a window of one-minute bars: MinuteAnalyzer             *)
(* (domain/market_regime/minute_analyzer.py) and the check a window must     *)
(* pass before an entry may rest on it (_evaluate_bar_freshness in           *)
(* domain/service/trading_service.py).                                       *)
(* A bar is [ts, high, low, close, volume, acc]; ts counts minutes.  Prices   *)
(* are whole won and shares of a price thousandths; the code has percents     *)
(* in floating point.  The open price is left out.                            *)
(***************************************************************************)
EXTENDS Integers, SequencesExt

CONSTANTS
  MinCount, MaxAge,            \* minute_bar_min_count_for_entry, minute_bar_max_age_seconds
  LowRisingBars, MinValue,     \* low_rising_bars, min_trading_value
  PullbackDeepest, PullbackLeast, ChangeLeast, ChangeMost,
  FastV, SlowV,                \* the parameters of the two rebounds
  MinBarAmount                 \* v_min_bar_amount

ASSUME MinuteAssumption ==
  /\ {MinCount, LowRisingBars} \subseteq Nat \ {0}
  /\ {MaxAge, MinValue, PullbackDeepest, PullbackLeast, ChangeLeast, ChangeMost, MinBarAmount} \subseteq Nat
  /\ \A p \in {FastV, SlowV} :
       {p.lookback, p.minAge, p.maxAge, p.drop, p.rise, p.maxRise, p.volume} \subseteq Nat

None == [known |-> FALSE]
Nothing == "V_FAIL_UNKNOWN"

LastN(s, n) == SubSeq(s, IF Len(s) > n THEN Len(s) - n + 1 ELSE 1, Len(s))
SumOf(s, f(_)) == FoldLeft(LAMBDA total, b : total + f(b), 0, s)
MaxOf(s, f(_)) == Max({0} \cup {f(s[i]) : i \in DOMAIN s})
FirstLowest(s) == CHOOSE i \in DOMAIN s : \A j \in DOMAIN s : s[i].low < s[j].low \/ (s[i].low = s[j].low /\ i <= j)

-----------------------------------------------------------------------------
\* _evaluate_bar_freshness
Sound(b) == 0 < b.low /\ b.low <= b.close /\ b.close <= b.high /\ b.volume >= 0

Ascending(bars) == \A i \in 1 .. Len(bars) - 1 : bars[i].ts < bars[i + 1].ts

Fresh(bars, now) ==
  /\ Len(bars) >= MinCount
  /\ Ascending(bars)
  /\ \A b \in ToSet(bars) : Sound(b)
  /\ now - Last(bars).ts \in 0 .. MaxAge

-----------------------------------------------------------------------------
\* sum(closes[-k:]) of the positive closes, and how many they are
ClosesOf(bars) == SelectSeq([i \in DOMAIN bars |-> bars[i].close], LAMBDA c : c > 0)
Total(closes) == FoldLeft(LAMBDA a, c : a + c, 0, closes)

\* sum(a)/len(a) > sum(b)/len(b)
HigherMean(a, b) == Len(b) > 0 /\ Total(a) * Len(b) > Total(b) * Len(a)

Ma5Rising(bars) ==
  LET closes == ClosesOf(bars)
  IN Len(closes) >= 6 /\ HigherMean(LastN(closes, 5), LastN(Front(closes), 5))

AboveVwap(bars, price) ==
  3 * price * SumOf(bars, LAMBDA b : b.volume) > SumOf(bars, LAMBDA b : (b.high + b.low + b.close) * b.volume)

(***************************************************************************)
(* _detect_v_rebound: a high, after it the lowest low, after that the rise    *)
(* to the last bar, which itself is no candidate for the low.  "said" is      *)
(* _last_v_fail_reasons afterwards: an early return leaves what an earlier    *)
(* call, perhaps for another symbol, has written there.                       *)
(***************************************************************************)
NotFound(said) == [found |-> FALSE, said |-> said]

\* The high before the low.  mutant: the high of all that is searched
TopOfAll(search, low) == MaxOf(search, LAMBDA b : b.high)
TopBefore(search, low) == MaxOf(SubSeq(search, 1, low - 1), LAMBDA b : b.high)

\* What a low at this place of the bars that are searched may lack to be a rebound
Lacks(bars, p, trend, search, at, bottom, top) ==
  LET price     == Last(bars).close
      falling   == SubSeq(search, 1, at)
      rising    == Append(SubSeq(search, at + 1, Len(search)), Last(bars))
      Volume(s) == SumOf(s, LAMBDA b : b.volume)
  IN << <<(top - bottom) * 1000 < p.drop * top, "drop">>,
        <<(price - bottom) * 1000 < p.rise * bottom, "rise">>,
        <<(price - bottom) * 1000 > p.maxRise * bottom, "too_late">>,
        <<Volume(rising) * Len(falling) * 10 < p.volume * Volume(falling) * Len(rising)
          \/ (Volume(falling) = 0 /\ p.volume > 0), "volume">>,
        <<~AboveVwap(bars, price), "vwap">>,
        <<~trend, "ma5">>,
        <<Last(bars).volume * price < MinBarAmount, "amount">> >>

Found(checks) ==
  LET failed == SelectSeq(checks, LAMBDA check : check[1])
  IN [found |-> \A i \in DOMAIN checks : ~checks[i][1], said |-> [i \in DOMAIN failed |-> failed[i][2]]]

Searched(bars, p) == LastN(Front(bars), IF p.lookback < Len(bars) - 2 THEN p.lookback ELSE Len(bars) - 2)

DetectLow(bars, p, trend, said, search, at) ==
  LET bottom == search[at].low
      top    == TopBefore(search, at)
  IN IF Len(search) - at + 1 \notin p.minAge .. p.maxAge \/ at = 1 \/ bottom <= 0 \/ top <= bottom
     THEN NotFound(said)
     ELSE Found(Lacks(bars, p, trend, search, at, bottom, top))

DetectIn(bars, p, trend, said, search) ==
  IF Len(search) < 3 THEN NotFound(said)
  ELSE DetectLow(bars, p, trend, said, search, FirstLowest(search))

DetectV(bars, p, trend, said) == DetectIn(bars, p, trend, said, Searched(bars, p))

\* _detect_pulldown_recovery
PulldownRecovery(bars, above) ==
  LET lows == LastN(bars, 5)
      before == LastN(Front(bars), 3)
  IN /\ above /\ Len(bars) >= 6
     /\ \A i \in 1 .. 4 : lows[i + 1].low > lows[i].low
     /\ Last(bars).volume * Len(before) * 10 > 12 * SumOf(before, LAMBDA b : b.volume)

\* The slow rebound is looked for only if there is no fast one.
DetectSlow(bars, trend, fast) == IF fast.found THEN NotFound(fast.said) ELSE DetectV(bars, SlowV, trend, fast.said)

\* The mean of the last five closes is above the one of the last twenty.
Ma5AboveMa20(closes) == HigherMean(LastN(closes, 5), LastN(closes, 20))

\* AnalysisResult; above: of the means, fast and slow: the rebounds
ResultOf(bars, prevClose, dayHigh, above, fast, slow) ==
  LET price  == Last(bars).close
      recent == LastN(bars, LowRisingBars)
      vwap   == AboveVwap(bars, price)
      change == (price - prevClose) * 1000
      back   == (dayHigh - price) * 1000
  IN [known |-> TRUE, price |-> price, prev |-> prevClose, dayHigh |-> dayHigh,
      aboveVwap |-> vwap,
      lowRising |-> \A i \in 1 .. Len(recent) - 1 : recent[i].low < recent[i + 1].low,
      validPullback |-> PullbackLeast * dayHigh <= back /\ back <= PullbackDeepest * dayHigh,
      validChange   |-> ChangeLeast * prevClose <= change /\ change <= ChangeMost * prevClose,
      validValue    |-> Last(bars).acc * price >= MinValue,
      validPulldown |-> -80 * prevClose <= change /\ change <= -10 * prevClose /\ above /\ vwap,
      v |-> fast.found, slowV |-> slow.found,
      vFail |-> IF fast.found THEN "" ELSE IF fast.said # <<>> THEN fast.said[1] ELSE Nothing,
      pr    |-> PulldownRecovery(bars, above),
      spike |-> Last(bars).volume * Len(bars) > 2 * SumOf(bars, LAMBDA b : b.volume),
      recentHigh |-> IF Len(bars) >= 30 THEN MaxOf(LastN(bars, 30), LAMBDA b : b.high) ELSE dayHigh]

(***************************************************************************)
(* analyze.  Its result, and _last_v_fail_reasons afterwards.  A day's high   *)
(* of zero is a division by zero, an exception that _get_minute_analysis      *)
(* catches.                                                                   *)
(***************************************************************************)
Analyze(bars, prevClose, said) ==
  LET dayHigh == MaxOf(bars, LAMBDA b : b.high)
      above   == Ma5AboveMa20(ClosesOf(bars))
      trend   == Ma5Rising(bars) \/ above
      fast    == DetectV(bars, FastV, trend, said)
      slow    == DetectSlow(bars, trend, fast)
  IN IF Len(bars) < LowRisingBars + 1 \/ Last(bars).close <= 0 \/ prevClose <= 0 \/ dayHigh = 0
     THEN [analysis |-> None, said |-> said]
     ELSE [said |-> slow.said, analysis |-> ResultOf(bars, prevClose, dayHigh, above, fast, slow)]
=============================================================================
