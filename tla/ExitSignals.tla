----------------------------- MODULE ExitSignals -----------------------------
(***************************************************************************)
(* When a position is sold: the exits of the strategies                      *)
(* (domain/strategy), the few of them that are evaluated while the balance   *)
(* API is out (exit_calc.py), and the watch over the first minutes of an      *)
(* entry (_check_entry_watch in domain/service/trading_service.py).           *)
(* Prices are whole won; shares of a price are in thousandths, where the      *)
(* code has percents in floating point.                                      *)
(***************************************************************************)
EXTENDS Integers, SequencesExt

CONSTANTS
  StopLoss, TakeProfit,             \* stop_loss_pct, take_profit_pct
  WatchTime, Grace,                 \* watch_minutes, vwap_grace_seconds
  FailCut, MinProfit, ConfirmCount  \* -fail_cut_pct, min_profit_pct, vwap_break_confirm_count

ASSUME ExitAssumption ==
  /\ {StopLoss, TakeProfit, FailCut, MinProfit, ConfirmCount} \subseteq Nat \ {0}
  /\ {WatchTime, Grace} \subseteq Nat

Regimes == {"BULLISH", "NEUTRAL", "REBOUND", "BEARISH", "SIDEWAYS", "UNKNOWN"}

\* A table of conditions in the order in which they are tried
FirstOf(table, otherwise) ==
  LET hits == {i \in DOMAIN table : table[i][1]}
  IN IF hits = {} THEN otherwise ELSE table[CHOOSE i \in hits : \A j \in hits : i <= j][2]

Pnl(avg, price) == (price - avg) * 1000   \* compare with a share times avg

\* StrategyRouter.select.  REBOUND goes to the neutral strategy.
Select(regime) ==
  CASE regime = "BULLISH"                -> "breakout"
    [] regime \in {"NEUTRAL", "REBOUND"} -> "neutral"
    [] OTHER                             -> "hold"

\* trailing_params: from which gain of the highest price the stop is active,
\* and how far below that price it is, by the gain.
Trailing ==
  [breakout |-> [start |-> 12, tiers |-> << <<50, 28>>, <<35, 22>>, <<20, 18>> >>, below |-> 15],
   neutral  |-> [start |-> 5,  tiers |-> << <<30, 20>>, <<20, 15>>, <<10, 12>> >>, below |-> 8]]

StopHit(avg, price) == price <= (avg * (1000 - StopLoss)) \div 1000

TrailPct(s, avg, highest) ==
  LET t == Trailing[s]
  IN FirstOf([i \in DOMAIN t.tiers |-> <<Pnl(avg, highest) >= t.tiers[i][1] * avg, t.tiers[i][2]>>], t.below)

TrailActive(s, avg, highest) ==
  /\ s \in DOMAIN Trailing /\ highest > 0
  /\ highest >= (avg * (1000 + Trailing[s].start)) \div 1000

TrailHit(s, avg, price, highest) ==
  /\ TrailActive(s, avg, highest)
  /\ price <= (highest * (1000 - TrailPct(s, avg, highest))) \div 1000

SafetyNetHit(avg, price) == price >= (avg * (1000 + TakeProfit)) \div 1000

(***************************************************************************)
(* The trend has turned: three of five points, one of them the price's own.   *)
(* daily: the indicators of the day, if there are any: how many of RSI high,   *)
(* RSI falling and MACD shrinking hold, and whether the price is above MA5.    *)
(* minute: the analysis of the minute bars, if there is one; vwap is "above",  *)
(* "near" (below, by less than vwap_break_min_pct) or "below".                *)
(***************************************************************************)
TrendTurned(avg, price, daily, minute) ==
  LET belowVwap == minute # "none" /\ minute # "above"
      points == daily.weak + (IF belowVwap THEN 1 ELSE 0) + (IF daily.aboveMa5 THEN 0 ELSE 1)
  IN /\ daily.known /\ Pnl(avg, price) >= 5 * avg
     /\ points >= 3 /\ (belowVwap \/ ~daily.aboveMa5)

\* generate_signal of the three strategies, for a position
BreakoutExit(avg, price, highest, daily, minute) ==
  FirstOf(<< <<StopHit(avg, price), "stop">>,
             <<TrailHit("breakout", avg, price, highest), "trailing">>,
             <<TrendTurned(avg, price, daily, minute), "turned">>,
             <<SafetyNetHit(avg, price), "net">> >>, "hold")

\* While its trailing stop is active, the neutral strategy looks at nothing else.
NeutralExit(avg, price, highest, daily, minute) ==
  FirstOf(<< <<StopHit(avg, price), "stop">>,
             <<TrailHit("neutral", avg, price, highest), "trailing">>,
             <<TrailActive("neutral", avg, highest), "hold">>,
             <<TrendTurned(avg, price, daily, minute), "turned">>,
             <<SafetyNetHit(avg, price), "net">> >>, "hold")

HoldExit(avg, price) ==
  FirstOf(<< <<SafetyNetHit(avg, price), "net">>, <<StopHit(avg, price), "stop">> >>, "hold")

GenerateExit(s, avg, price, highest, daily, minute) ==
  CASE s = "breakout" -> BreakoutExit(avg, price, highest, daily, minute)
    [] s = "neutral"  -> NeutralExit(avg, price, highest, daily, minute)
    [] s = "hold"     -> HoldExit(avg, price)

\* mutant: the trailing stop before the stop loss
TrailingFirst(s, avg, price, highest) ==
  FirstOf(<< <<TrailHit(s, avg, price, highest), "trailing">>, <<StopHit(avg, price), "stop">> >>, "hold")

\* evaluate_exit_candidate: what is looked at while the balance is unknown
ExitCandidate(s, avg, price, highest) ==
  FirstOf(<< <<StopHit(avg, price), "stop">>, <<TrailHit(s, avg, price, highest), "trailing">> >>, "hold")

\* mutant: a price that could not be read is a price
ReadinessOfAnyPrice(price, avg, age, maxAge) ==
  FirstOf(<< <<avg <= 0, "invalid_average_price">>,
             <<age < 0, "invalid_price_age">>, <<age > maxAge, "stale_price">> >>, "ready")

\* classify_exit_observation_readiness; a clock set back makes an age negative.
Readiness(price, avg, age, maxAge) ==
  FirstOf(<< <<price <= 0, "invalid_current_price">>, <<avg <= 0, "invalid_average_price">>,
             <<age < 0, "invalid_price_age">>, <<age > maxAge, "stale_price">> >>, "ready")

(***************************************************************************)
(* _check_entry_watch, elapsed after the entry; minute is "none" where the    *)
(* bars are not fresh.  Its answer is a reason, or "pass" to the strategy;     *)
(* streak is vwap_break_streak_by_symbol.                                     *)
(***************************************************************************)
Watched(elapsed) == elapsed <= WatchTime + 1

VwapLooked(avg, price, elapsed, minute) ==
  Watched(elapsed) /\ Pnl(avg, price) > -(FailCut * avg) /\ minute # "none"

StreakAfter(avg, price, elapsed, minute, streak) ==
  IF ~VwapLooked(avg, price, elapsed, minute) THEN streak
  ELSE IF elapsed < Grace \/ minute # "below" THEN 0 ELSE streak + 1

\* What the watch has found when its time is over
Unprofitable(avg, price, elapsed) == elapsed >= WatchTime /\ Pnl(avg, price) < MinProfit * avg

EntryWatch(avg, price, elapsed, minute, streak) ==
  FirstOf(<< <<~Watched(elapsed), "pass">>,
             <<Pnl(avg, price) <= -(FailCut * avg), "cut">>,
             <<minute = "below" /\ elapsed >= Grace /\ streak + 1 >= ConfirmCount, "vwap">>,
             <<Unprofitable(avg, price, elapsed), "slow">> >>, "pass")
=============================================================================
