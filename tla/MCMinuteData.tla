---------------------------- MODULE MCMinuteData ----------------------------
\* MinuteData for TLC: a plateau, a fall and a rise; an evening and a morning.
EXTENDS MinuteData

Bar(h, l, c, v) == [high |-> h, low |-> l, close |-> c, volume |-> v]
MCKinds == {Bar(1010, 1001, 1006, 3), Bar(995, 970, 975, 3), Bar(1080, 1001, 1072, 6)}

MCEvening == [i \in 1 .. 6 |-> [ts |-> 2 + i, high |-> 1012, low |-> 994 + i, close |-> 1000 + i, volume |-> 2, acc |-> 2 * i]]
MCTimes == <<8, 13, 14, 15>>

MCTrades == {[price |-> 985, volume |-> 2]}
MCCutAt == {7, 14}

MCFastV == [lookback |-> 4, minAge |-> 1, maxAge |-> 2, drop |-> 45, rise |-> 5, maxRise |-> 120, volume |-> 10]
MCSlowV == [lookback |-> 6, minAge |-> 3, maxAge |-> 5, drop |-> 25, rise |-> 5, maxRise |-> 150, volume |-> 10]

DailyBars(ma, rsi, direction, macd, points, over) ==
  [known |-> TRUE, ma |-> ma, rsi |-> rsi, direction |-> direction, macd |-> macd,
   accel |-> points > 0, aboveMa5 |-> points > 1, surge |-> points > 2, overBand |-> over]

MCDaily ==
  {[known |-> FALSE], DailyBars("up", "middle", 1, 1, 1, FALSE), DailyBars("up", "high", 0, 1, 2, TRUE),
   DailyBars("down", "middle", -1, -1, 2, FALSE), DailyBars("mixed", "oversold", 1, -1, 3, TRUE),
   DailyBars("up", "middle", -1, -1, 1, FALSE)}
=============================================================================
