------------------------- MODULE HeldPosition_proofs -------------------------
(***************************************************************************)
(* The watch over a position, for any prices, parameters of the strategies,   *)
(* analyses, times and restarts: the highest price is the position's own,      *)
(* every poll decides its exits rightly, and what is observed in an outage     *)
(* agrees with the strategy.  And of the minute bars, for any market, broker,  *)
(* parameters and settings: what an entry rests on is what the market was.     *)
(***************************************************************************)
EXTENDS HeldPosition, MinuteData, SequenceTheorems, FiniteSetTheorems, WellFoundedInduction, TLAPS

-----------------------------------------------------------------------------
(* The tables of the exits                                                  *)

\* FirstOf takes the first row whose condition holds.
LEMMA FirstIsTaken ==
  ASSUME NEW table, DOMAIN table \subseteq Nat, NEW otherwise,
         NEW k \in DOMAIN table, table[k][1], \A j \in DOMAIN table : j < k => ~table[j][1]
  PROVE  FirstOf(table, otherwise) = table[k][2]
<1> DEFINE hits == {i \in DOMAIN table : table[i][1]}
           first == CHOOSE i \in hits : \A j \in hits : i <= j
<1>1. k \in hits /\ \A j \in hits : k <= j
  OBVIOUS
<1>2. first \in hits /\ \A j \in hits : first <= j
  BY <1>1
<1>3. first = k
  BY <1>1, <1>2
<1> QED
  BY <1>1, <1>3 DEF FirstOf

LEMMA NoneIsTaken ==
  ASSUME NEW table, NEW otherwise, \A j \in DOMAIN table : ~table[j][1]
  PROVE  FirstOf(table, otherwise) = otherwise
BY DEF FirstOf

\* What a table of two, four or five rows says.
LEMMA FirstOfTwo ==
  ASSUME NEW table, DOMAIN table = 1 .. 2, NEW otherwise
  PROVE  FirstOf(table, otherwise) =
           IF table[1][1] THEN table[1][2] ELSE IF table[2][1] THEN table[2][2] ELSE otherwise
<1>1. DOMAIN table \subseteq Nat /\ \A j \in DOMAIN table : j = 1 \/ j = 2
  OBVIOUS
<1>2. CASE table[1][1]
  <2>1. 1 \in DOMAIN table /\ \A j \in DOMAIN table : j < 1 => ~table[j][1]
    BY <1>1, <1>2
  <2>2. FirstOf(table, otherwise) = table[1][2]
    BY <1>1, <1>2, <2>1, FirstIsTaken
  <2> QED
    BY <1>2, <2>2
<1>3. CASE ~table[1][1] /\ table[2][1]
  <2>1. 2 \in DOMAIN table /\ \A j \in DOMAIN table : j < 2 => ~table[j][1]
    BY <1>1, <1>3
  <2>2. FirstOf(table, otherwise) = table[2][2]
    BY <1>1, <1>3, <2>1, FirstIsTaken
  <2> QED
    BY <1>3, <2>2
<1>4. CASE ~table[1][1] /\ ~table[2][1]
  BY <1>1, <1>4, NoneIsTaken
<1> QED
  BY <1>2, <1>3, <1>4

LEMMA FirstOfFour ==
  ASSUME NEW table, DOMAIN table = 1 .. 4, NEW otherwise
  PROVE  FirstOf(table, otherwise) =
           IF table[1][1] THEN table[1][2] ELSE IF table[2][1] THEN table[2][2] ELSE IF table[3][1] THEN table[3][2] ELSE
           IF table[4][1] THEN table[4][2] ELSE otherwise
<1>1. DOMAIN table \subseteq Nat /\ \A j \in DOMAIN table : j = 1 \/ j = 2 \/ j = 3 \/ j = 4
  OBVIOUS
<1>2. CASE table[1][1]
  <2>1. 1 \in DOMAIN table /\ \A j \in DOMAIN table : j < 1 => ~table[j][1]
    BY <1>1, <1>2
  <2>2. FirstOf(table, otherwise) = table[1][2]
    BY <1>1, <1>2, <2>1, FirstIsTaken
  <2> QED
    BY <1>2, <2>2
<1>3. CASE ~table[1][1] /\ table[2][1]
  <2>1. 2 \in DOMAIN table /\ \A j \in DOMAIN table : j < 2 => ~table[j][1]
    BY <1>1, <1>3
  <2>2. FirstOf(table, otherwise) = table[2][2]
    BY <1>1, <1>3, <2>1, FirstIsTaken
  <2> QED
    BY <1>3, <2>2
<1>4. CASE ~table[1][1] /\ ~table[2][1] /\ table[3][1]
  <2>1. 3 \in DOMAIN table /\ \A j \in DOMAIN table : j < 3 => ~table[j][1]
    BY <1>1, <1>4
  <2>2. FirstOf(table, otherwise) = table[3][2]
    BY <1>1, <1>4, <2>1, FirstIsTaken
  <2> QED
    BY <1>4, <2>2
<1>5. CASE ~table[1][1] /\ ~table[2][1] /\ ~table[3][1] /\ table[4][1]
  <2>1. 4 \in DOMAIN table /\ \A j \in DOMAIN table : j < 4 => ~table[j][1]
    BY <1>1, <1>5
  <2>2. FirstOf(table, otherwise) = table[4][2]
    BY <1>1, <1>5, <2>1, FirstIsTaken
  <2> QED
    BY <1>5, <2>2
<1>6. CASE ~table[1][1] /\ ~table[2][1] /\ ~table[3][1] /\ ~table[4][1]
  BY <1>1, <1>6, NoneIsTaken
<1> QED
  BY <1>2, <1>3, <1>4, <1>5, <1>6

LEMMA FirstOfFive ==
  ASSUME NEW table, DOMAIN table = 1 .. 5, NEW otherwise
  PROVE  FirstOf(table, otherwise) =
           IF table[1][1] THEN table[1][2] ELSE IF table[2][1] THEN table[2][2] ELSE IF table[3][1] THEN table[3][2] ELSE
           IF table[4][1] THEN table[4][2] ELSE IF table[5][1] THEN table[5][2] ELSE otherwise
<1>1. DOMAIN table \subseteq Nat /\ \A j \in DOMAIN table : j = 1 \/ j = 2 \/ j = 3 \/ j = 4 \/ j = 5
  OBVIOUS
<1>2. CASE table[1][1]
  <2>1. 1 \in DOMAIN table /\ \A j \in DOMAIN table : j < 1 => ~table[j][1]
    BY <1>1, <1>2
  <2>2. FirstOf(table, otherwise) = table[1][2]
    BY <1>1, <1>2, <2>1, FirstIsTaken
  <2> QED
    BY <1>2, <2>2
<1>3. CASE ~table[1][1] /\ table[2][1]
  <2>1. 2 \in DOMAIN table /\ \A j \in DOMAIN table : j < 2 => ~table[j][1]
    BY <1>1, <1>3
  <2>2. FirstOf(table, otherwise) = table[2][2]
    BY <1>1, <1>3, <2>1, FirstIsTaken
  <2> QED
    BY <1>3, <2>2
<1>4. CASE ~table[1][1] /\ ~table[2][1] /\ table[3][1]
  <2>1. 3 \in DOMAIN table /\ \A j \in DOMAIN table : j < 3 => ~table[j][1]
    BY <1>1, <1>4
  <2>2. FirstOf(table, otherwise) = table[3][2]
    BY <1>1, <1>4, <2>1, FirstIsTaken
  <2> QED
    BY <1>4, <2>2
<1>5. CASE ~table[1][1] /\ ~table[2][1] /\ ~table[3][1] /\ table[4][1]
  <2>1. 4 \in DOMAIN table /\ \A j \in DOMAIN table : j < 4 => ~table[j][1]
    BY <1>1, <1>5
  <2>2. FirstOf(table, otherwise) = table[4][2]
    BY <1>1, <1>5, <2>1, FirstIsTaken
  <2> QED
    BY <1>5, <2>2
<1>6. CASE ~table[1][1] /\ ~table[2][1] /\ ~table[3][1] /\ ~table[4][1] /\ table[5][1]
  <2>1. 5 \in DOMAIN table /\ \A j \in DOMAIN table : j < 5 => ~table[j][1]
    BY <1>1, <1>6
  <2>2. FirstOf(table, otherwise) = table[5][2]
    BY <1>1, <1>6, <2>1, FirstIsTaken
  <2> QED
    BY <1>6, <2>2
<1>7. CASE ~table[1][1] /\ ~table[2][1] /\ ~table[3][1] /\ ~table[4][1] /\ ~table[5][1]
  BY <1>1, <1>7, NoneIsTaken
<1> QED
  BY <1>2, <1>3, <1>4, <1>5, <1>6, <1>7

-----------------------------------------------------------------------------
(* The exits                                                                *)

\* The conditions are true or false, whatever they are computed from.
LEMMA ConditionsDecide ==
  ASSUME NEW avg, NEW p, NEW h, NEW s, NEW day, NEW vwap, NEW elapsed
  PROVE  /\ StopHit(avg, p) \in BOOLEAN /\ SafetyNetHit(avg, p) \in BOOLEAN
         /\ TrailHit(s, avg, p, h) \in BOOLEAN /\ TrailActive(s, avg, h) \in BOOLEAN
         /\ TrendTurned(avg, p, day, vwap) \in BOOLEAN
         /\ Unprofitable(avg, p, elapsed) \in BOOLEAN /\ Watched(elapsed) \in BOOLEAN
BY DEF StopHit, SafetyNetHit, TrailHit, TrailActive, TrendTurned, Unprofitable, Watched

LEMMA BreakoutIs ==
  ASSUME NEW avg, NEW p, NEW h, NEW day, NEW vwap
  PROVE  BreakoutExit(avg, p, h, day, vwap) =
           IF StopHit(avg, p) THEN "stop"
           ELSE IF TrailHit("breakout", avg, p, h) THEN "trailing"
           ELSE IF TrendTurned(avg, p, day, vwap) THEN "turned"
           ELSE IF SafetyNetHit(avg, p) THEN "net" ELSE "hold"
<1> DEFINE table == << <<StopHit(avg, p), "stop">>,
                       <<TrailHit("breakout", avg, p, h), "trailing">>,
                       <<TrendTurned(avg, p, day, vwap), "turned">>,
                       <<SafetyNetHit(avg, p), "net">> >>
<1>1. DOMAIN table = 1 .. 4
  OBVIOUS
<1>2. table[1][1] = StopHit(avg, p) /\ table[1][2] = "stop"
  BY ConditionsDecide
<1>3. table[2][1] = TrailHit("breakout", avg, p, h) /\ table[2][2] = "trailing"
  BY ConditionsDecide
<1>4. table[3][1] = TrendTurned(avg, p, day, vwap) /\ table[3][2] = "turned"
  BY ConditionsDecide
<1>5. table[4][1] = SafetyNetHit(avg, p) /\ table[4][2] = "net"
  BY ConditionsDecide
<1>6. BreakoutExit(avg, p, h, day, vwap) = FirstOf(table, "hold")
  BY DEF BreakoutExit
<1> HIDE DEF table
<1>7. FirstOf(table, "hold") =
        IF table[1][1] THEN table[1][2] ELSE IF table[2][1] THEN table[2][2] ELSE IF table[3][1] THEN table[3][2] ELSE
        IF table[4][1] THEN table[4][2] ELSE "hold"
  BY <1>1, FirstOfFour
<1> QED
  BY <1>2, <1>3, <1>4, <1>5, <1>6, <1>7

LEMMA NeutralIs ==
  ASSUME NEW avg, NEW p, NEW h, NEW day, NEW vwap
  PROVE  NeutralExit(avg, p, h, day, vwap) =
           IF StopHit(avg, p) THEN "stop"
           ELSE IF TrailHit("neutral", avg, p, h) THEN "trailing"
           ELSE IF TrailActive("neutral", avg, h) THEN "hold"
           ELSE IF TrendTurned(avg, p, day, vwap) THEN "turned"
           ELSE IF SafetyNetHit(avg, p) THEN "net" ELSE "hold"
<1> DEFINE table == << <<StopHit(avg, p), "stop">>,
                       <<TrailHit("neutral", avg, p, h), "trailing">>,
                       <<TrailActive("neutral", avg, h), "hold">>,
                       <<TrendTurned(avg, p, day, vwap), "turned">>,
                       <<SafetyNetHit(avg, p), "net">> >>
<1>1. DOMAIN table = 1 .. 5
  OBVIOUS
<1>2. table[1][1] = StopHit(avg, p) /\ table[1][2] = "stop"
  BY ConditionsDecide
<1>3. table[2][1] = TrailHit("neutral", avg, p, h) /\ table[2][2] = "trailing"
  BY ConditionsDecide
<1>4. table[3][1] = TrailActive("neutral", avg, h) /\ table[3][2] = "hold"
  BY ConditionsDecide
<1>5. table[4][1] = TrendTurned(avg, p, day, vwap) /\ table[4][2] = "turned"
  BY ConditionsDecide
<1>6. table[5][1] = SafetyNetHit(avg, p) /\ table[5][2] = "net"
  BY ConditionsDecide
<1>7. NeutralExit(avg, p, h, day, vwap) = FirstOf(table, "hold")
  BY DEF NeutralExit
<1> HIDE DEF table
<1>8. FirstOf(table, "hold") =
        IF table[1][1] THEN table[1][2] ELSE IF table[2][1] THEN table[2][2] ELSE IF table[3][1] THEN table[3][2] ELSE
        IF table[4][1] THEN table[4][2] ELSE IF table[5][1] THEN table[5][2] ELSE "hold"
  BY <1>1, FirstOfFive
<1> QED
  BY <1>2, <1>3, <1>4, <1>5, <1>6, <1>7, <1>8

LEMMA HoldIs ==
  ASSUME NEW avg, NEW p
  PROVE  HoldExit(avg, p) = IF SafetyNetHit(avg, p) THEN "net" ELSE IF StopHit(avg, p) THEN "stop" ELSE "hold"
<1> DEFINE table == << <<SafetyNetHit(avg, p), "net">>,
                       <<StopHit(avg, p), "stop">> >>
<1>1. DOMAIN table = 1 .. 2
  OBVIOUS
<1>2. table[1][1] = SafetyNetHit(avg, p) /\ table[1][2] = "net"
  BY ConditionsDecide
<1>3. table[2][1] = StopHit(avg, p) /\ table[2][2] = "stop"
  BY ConditionsDecide
<1>4. HoldExit(avg, p) = FirstOf(table, "hold")
  BY DEF HoldExit
<1> HIDE DEF table
<1>5. FirstOf(table, "hold") =
        IF table[1][1] THEN table[1][2] ELSE IF table[2][1] THEN table[2][2] ELSE "hold"
  BY <1>1, FirstOfTwo
<1> QED
  BY <1>2, <1>3, <1>4, <1>5

LEMMA CandidateIs ==
  ASSUME NEW s, NEW avg, NEW p, NEW h
  PROVE  ExitCandidate(s, avg, p, h) =
           IF StopHit(avg, p) THEN "stop" ELSE IF TrailHit(s, avg, p, h) THEN "trailing" ELSE "hold"
<1> DEFINE table == << <<StopHit(avg, p), "stop">>,
                       <<TrailHit(s, avg, p, h), "trailing">> >>
<1>1. DOMAIN table = 1 .. 2
  OBVIOUS
<1>2. table[1][1] = StopHit(avg, p) /\ table[1][2] = "stop"
  BY ConditionsDecide
<1>3. table[2][1] = TrailHit(s, avg, p, h) /\ table[2][2] = "trailing"
  BY ConditionsDecide
<1>4. ExitCandidate(s, avg, p, h) = FirstOf(table, "hold")
  BY DEF ExitCandidate
<1> HIDE DEF table
<1>5. FirstOf(table, "hold") =
        IF table[1][1] THEN table[1][2] ELSE IF table[2][1] THEN table[2][2] ELSE "hold"
  BY <1>1, FirstOfTwo
<1> QED
  BY <1>2, <1>3, <1>4, <1>5

LEMMA EntryWatchIs ==
  ASSUME NEW avg, NEW p, NEW elapsed, NEW watch, NEW kept
  PROVE  EntryWatch(avg, p, elapsed, watch, kept) =
           IF ~Watched(elapsed) THEN "pass"
           ELSE IF Pnl(avg, p) <= -(FailCut * avg) THEN "cut"
           ELSE IF watch = "below" /\ elapsed >= Grace /\ kept + 1 >= ConfirmCount THEN "vwap"
           ELSE IF Unprofitable(avg, p, elapsed) THEN "slow" ELSE "pass"
<1> DEFINE cut  == Pnl(avg, p) <= -(FailCut * avg)
           vwap == watch = "below" /\ elapsed >= Grace /\ kept + 1 >= ConfirmCount
           table == << <<~Watched(elapsed), "pass">>, <<cut, "cut">>, <<vwap, "vwap">>,
                      <<Unprofitable(avg, p, elapsed), "slow">> >>
<1>1. DOMAIN table = 1 .. 4
  OBVIOUS
<1>2. EntryWatch(avg, p, elapsed, watch, kept) = FirstOf(table, "pass")
  BY DEF EntryWatch
<1>3. cut \in BOOLEAN /\ vwap \in BOOLEAN
  OBVIOUS
<1> HIDE DEF cut, vwap
<1>4. /\ table[1][1] = ~Watched(elapsed) /\ table[1][2] = "pass"
      /\ table[2][1] = cut /\ table[2][2] = "cut"
      /\ table[3][1] = vwap /\ table[3][2] = "vwap"
      /\ table[4][1] = Unprofitable(avg, p, elapsed) /\ table[4][2] = "slow"
  BY <1>3, ConditionsDecide
<1> HIDE DEF table
<1>5. FirstOf(table, "pass") =
        IF table[1][1] THEN table[1][2] ELSE IF table[2][1] THEN table[2][2] ELSE
        IF table[3][1] THEN table[3][2] ELSE IF table[4][1] THEN table[4][2] ELSE "pass"
  BY <1>1, FirstOfFour
<1>6. EntryWatch(avg, p, elapsed, watch, kept) =
        IF ~Watched(elapsed) THEN "pass" ELSE IF cut THEN "cut" ELSE IF vwap THEN "vwap"
        ELSE IF Unprofitable(avg, p, elapsed) THEN "slow" ELSE "pass"
  BY <1>2, <1>4, <1>5
<1> QED
  BY <1>6 DEF cut, vwap
-----------------------------------------------------------------------------
(* The invariant                                                            *)

Quote == [price : Nat, at : Int]

Positions == [avg : Nat, order : Nat, sells : BOOLEAN]

Typed ==
  /\ now \in Nat /\ price \in Nat /\ pos \in Positions
  /\ cache \in Quote /\ high \in Nat /\ top \in Nat
  /\ disk \in [high : Nat, entry : Int] /\ entry \in Int
  /\ streak \in Nat /\ run \in Nat /\ snapshot \in Nat

\* What the highest price may be made of: the price, the cache and state.json are
\* of the time since the purchase was decided.  This begins when the order is sent,
\* before there is a position, and holds of one that is hidden.
OwnTime == price <= top /\ cache.price <= top /\ high <= top /\ disk.high <= top
OwnSinceBought == Held \/ pos.order > 0 => OwnTime

\* What is counted of broken VWAPs has been looked at in a row.
StreakIsRun == streak <= run

HeldInv == Typed /\ OwnSinceBought /\ StreakIsRun

LEMMA HeldInvInit == Init => HeldInv
<1> SUFFICES ASSUME Init PROVE HeldInv
  OBVIOUS
<1>1. price \in Nat
  BY WatchAssumption DEF Init
<1>2. Typed
  BY <1>1 DEF Init, Typed, Positions, Position, Quote, NoPrice, NoEntry, Never
<1>3. OwnSinceBought /\ StreakIsRun
  BY DEF Init, Position, OwnSinceBought, StreakIsRun, Held
<1> QED
  BY <1>2, <1>3 DEF HeldInv

-----------------------------------------------------------------------------
(* Prices                                                                   *)

\* A price is the market's now, or 0, or the one that is cached.
Known(q) == q = cache \/ (q.price \in Quoted /\ q.at = now)

LEMMA MarketPriceIs ==
  ASSUME Typed, NEW got \in MarketPrices
  PROVE  got.cache \in Quote /\ Known(got.cache)
<1>1. PICK quote \in Quoted \cup {NoQuote} : got = GetMarketPrice(quote)
  BY DEF MarketPrices
<1>2. got.cache = cache \/ (quote # NoQuote /\ got.cache = [price |-> quote, at |-> now])
  BY <1>1 DEF GetMarketPrice
<1>3. CASE got.cache = cache
  BY <1>3 DEF Typed, Known
<1>4. CASE quote # NoQuote /\ got.cache = [price |-> quote, at |-> now]
  BY <1>1, <1>4 DEF Typed, Known, Quote, Quoted
<1> QED
  BY <1>2, <1>3, <1>4

LEMMA HoldingPriceIs ==
  ASSUME Typed, NEW got \in HoldingPrices
  PROVE  got.cache \in Quote /\ Known(got.cache)
<1>1. PICK told \in Answers : got = HoldingPrice(told)
  BY DEF HoldingPrices
<1>2. told[1] \in Quoted \cup {NoQuote} /\ told[2] \in Quoted \cup {NoQuote}
  BY DEF Answers
<1>3. CASE told[1] # NoQuote
  <2>1. got.cache = [price |-> told[1], at |-> now]
    BY <1>1, <1>3 DEF HoldingPrice
  <2> QED
    BY <1>2, <1>3, <2>1 DEF Typed, Known, Quote, Quoted
<1>4. CASE told[1] = NoQuote
  <2>1. got = GetMarketPrice(told[2])
    BY <1>1, <1>4 DEF HoldingPrice
  <2>2. got \in MarketPrices
    BY <1>2, <2>1 DEF MarketPrices
  <2> QED
    BY <2>2, MarketPriceIs
<1> QED
  BY <1>3, <1>4

\* So no price that a poll knows is above the highest since the purchase was decided.
LEMMA KnownIsOwn ==
  ASSUME Typed, OwnTime, NEW q \in Quote, Known(q)
  PROVE  q.price <= top
BY DEF Typed, OwnTime, Known, Quote, Quoted

-----------------------------------------------------------------------------
(* What a poll decides                                                      *)

\* The parts of a decision that later polls read.
LEMMA DecisionKeeps ==
  ASSUME HeldInv, NEW got, got.cache \in Quote, NEW r, NEW m, NEW day
  PROVE  LET d == Decision(got, r, m, day)
         IN  /\ d.high = Higher(high, got.cache.price) /\ d.price = got.cache.price
             /\ d.entry \in Int
             /\ d.streak \in Nat /\ d.run \in Nat /\ d.streak <= d.run
<1> DEFINE d     == Decision(got, r, m, day)
           p     == got.cache.price
           since == IF bought THEN now ELSE entry
           watch == IF m.safe THEN m.vwap ELSE "none"
           kept  == IF m.safe THEN streak ELSE 0
           looked == VwapLooked(pos.avg, p, now - since, watch)
<1>1. /\ d.high = Higher(high, p) /\ d.price = p /\ d.entry = since
      /\ d.streak = IF since = NoEntry THEN kept
                    ELSE Lower(StreakAfter(pos.avg, p, now - since, watch, kept), ConfirmCount)
      /\ d.run = IF ~m.safe THEN 0
                 ELSE IF since = NoEntry \/ ~looked THEN run
                 ELSE IF watch = "below" /\ now - since >= Grace THEN Lower(run + 1, ConfirmCount) ELSE 0
  BY DEF Decision
<1>2. /\ since \in Int /\ kept \in Nat /\ now - since \in Int
      /\ streak \in Nat /\ run \in Nat /\ streak <= run /\ ConfirmCount \in Nat /\ Grace \in Nat
  BY ExitAssumption DEF HeldInv, Typed, StreakIsRun
<1>3. ~m.safe => ~looked
  BY DEF VwapLooked
<1>4. StreakAfter(pos.avg, p, now - since, watch, kept)
        = IF ~looked THEN kept
          ELSE IF now - since < Grace \/ watch # "below" THEN 0 ELSE kept + 1
  BY DEF StreakAfter
<1> HIDE DEF d, since, watch, looked
<1>5. d.streak \in Nat /\ d.run \in Nat /\ d.streak <= d.run
  <2>1. CASE ~m.safe
    BY <1>1, <1>2, <1>3, <1>4, <2>1 DEF Lower
  <2>2. CASE m.safe
    BY <1>1, <1>2, <1>4, <2>2 DEF Lower
  <2> QED
    BY <2>1, <2>2
<1> QED
  BY <1>1, <1>2, <1>5 DEF d

-----------------------------------------------------------------------------
(* The steps                                                                *)

LEMMA PollKeeps ==
  ASSUME HeldInv, Poll
  PROVE  HeldInv'
<1>1. PICK got \in HoldingPrices :
        /\ cache' = got.cache /\ retryAt' = got.retryAt
        /\ IF got.source = "unavailable"
           THEN /\ entry' = (IF bought THEN now ELSE entry) /\ bought' = FALSE
                /\ UNCHANGED <<pos, hidden, daily, high, streak, disk, run, upsets>>
           ELSE \E r \in DailyRegime :
                  /\ daily' = r
                  /\ \E decision \in {Decision(got, r, m, day) :
                                        m \in MinuteData(Regime(got.cache.price, r)), day \in Indicators} :
                       Act(decision)
  BY DEF Poll
<1>2. Held /\ snapshot' = pos.avg /\ UNCHANGED <<now, price, top>>
  BY DEF Poll, Visible
<1>3. Typed /\ OwnTime /\ StreakIsRun /\ pos \in Positions
  BY <1>2 DEF HeldInv, OwnSinceBought, Typed
<1>4. got.cache \in Quote /\ got.cache.price \in Nat /\ got.cache.price <= top
  <2>1. got.cache \in Quote /\ Known(got.cache)
    BY <1>3, HoldingPriceIs
  <2> QED
    BY <1>3, <2>1, KnownIsOwn DEF Quote
<1>5. CASE got.source = "unavailable"
  <2>1. Typed'
    BY <1>1, <1>2, <1>3, <1>4, <1>5 DEF Typed, Positions
  <2>2. OwnTime' /\ StreakIsRun'
    BY <1>1, <1>2, <1>3, <1>4, <1>5 DEF OwnTime, StreakIsRun
  <2> QED
    BY <2>1, <2>2 DEF HeldInv, OwnSinceBought
<1>6. CASE got.source # "unavailable"
  <2>1. PICK r \in DailyRegime, m \in MinuteData(Regime(got.cache.price, daily')), day \in Indicators :
          Act(Decision(got, r, m, day))
    BY <1>1, <1>6
  <2> DEFINE d == Decision(got, r, m, day)
  <2>2. /\ d.high = Higher(high, got.cache.price) /\ d.entry \in Int
        /\ d.streak \in Nat /\ d.run \in Nat /\ d.streak <= d.run
    BY <1>4, DecisionKeeps
  <2>3. /\ high' = d.high /\ entry' = d.entry /\ streak' = d.streak /\ run' = d.run
        /\ disk' = [high |-> high', entry |-> entry']
        /\ pos' = pos \/ pos' = [pos EXCEPT !.sells = TRUE]
    BY <2>1 DEF Act, Saved
  <2> HIDE DEF d
  <2>4. high' \in Nat /\ high' <= top
    BY <1>3, <1>4, <2>2, <2>3 DEF Higher, Typed, OwnTime
  <2>5. Typed'
    <3>1. pos' \in Positions
      BY <1>3, <2>3 DEF Positions
    <3>2. pos.avg \in Nat
      BY <1>3 DEF Positions
    <3> QED
      BY <1>1, <1>2, <1>3, <1>4, <2>2, <2>3, <2>4, <3>1, <3>2 DEF Typed
  <2>6. OwnTime' /\ StreakIsRun'
    BY <1>1, <1>2, <1>3, <1>4, <2>2, <2>3, <2>4 DEF OwnTime, StreakIsRun
  <2> QED
    BY <2>5, <2>6 DEF HeldInv, OwnSinceBought
<1> QED
  BY <1>5, <1>6

\* A purchase begins the time of its own: what was the highest is forgotten, and the
\* price is asked for again.
LEMMA BuyOrPassKeeps ==
  ASSUME HeldInv, PollWithoutPosition
  PROVE  HeldInv'
<1>1. PICK got \in MarketPrices, live \in Quoted, r \in DailyRegime :
        IF got.source = "unavailable"
        THEN /\ cache' = cache /\ retryAt' = got.retryAt
             /\ UNCHANGED <<pos, hidden, daily, high, streak, bought, disk, top, run>>
        ELSE /\ retryAt' = got.retryAt /\ daily' = r
             /\ high' = HighestAfterExit /\ streak' = 0
             /\ \/ /\ ~Held /\ pos.order = 0 /\ Select(Regime(got.cache.price, r)) # "hold"
                   /\ MayBuyAt(got.cache.price, live)
                   /\ cache' = Revalidated(live)
                   /\ pos' = [pos EXCEPT !.order = got.cache.price]
                   /\ hidden' = FALSE /\ bought' = TRUE /\ top' = price /\ run' = 0
                \/ /\ cache' \in {got.cache} \cup
                        (IF Held \/ Select(Regime(got.cache.price, r)) = "hold" THEN {}
                         ELSE {Revalidated(live)})
                   /\ UNCHANGED <<pos, hidden, bought, top, run>>
             /\ disk' = Saved(high', entry')
  BY DEF PollWithoutPosition
<1>2. /\ UNCHANGED <<now, price>> /\ snapshot' = pos.avg /\ entry' \in {entry, NoEntry}
  BY DEF PollWithoutPosition
<1>3. Typed /\ StreakIsRun /\ OwnSinceBought /\ NoEntry \in Int
  BY DEF HeldInv, NoEntry, Never
<1>4. got.cache \in Quote /\ Known(got.cache)
  BY <1>3, MarketPriceIs
<1>5. Revalidated(live) \in Quote /\ Known(Revalidated(live)) /\ live \in Nat /\ live <= price
  BY <1>3 DEF Revalidated, Quote, Known, Quoted, Typed
<1>6. CASE got.source = "unavailable"
  <2>1. Typed'
    BY <1>1, <1>2, <1>3, <1>6 DEF Typed, Positions
  <2>2. OwnSinceBought' /\ StreakIsRun'
    BY <1>1, <1>2, <1>3, <1>6 DEF OwnSinceBought, OwnTime, Held, StreakIsRun
  <2> QED
    BY <2>1, <2>2 DEF HeldInv
<1>7. CASE /\ got.source # "unavailable"
           /\ cache' = Revalidated(live) /\ pos' = [pos EXCEPT !.order = got.cache.price]
           /\ top' = price /\ run' = 0
  <2>1. high' = 0 /\ streak' = 0 /\ disk' = [high |-> 0, entry |-> entry']
    BY <1>1, <1>7 DEF HighestAfterExit, Saved
  <2>2. got.cache.price \in Nat /\ pos' \in Positions /\ snapshot' \in Nat
    BY <1>2, <1>3, <1>4, <1>7 DEF Quote, Typed, Positions
  <2>3. Typed'
    BY <1>2, <1>3, <1>5, <1>7, <2>1, <2>2 DEF Typed
  <2>4. OwnTime' /\ StreakIsRun'
    BY <1>2, <1>3, <1>5, <1>7, <2>1 DEF OwnTime, StreakIsRun, Revalidated, Typed
  <2> QED
    BY <2>3, <2>4 DEF HeldInv, OwnSinceBought
<1>8. CASE /\ got.source # "unavailable"
           /\ cache' \in {got.cache, Revalidated(live)} /\ UNCHANGED <<pos, top, run>>
  <2>1. high' = 0 /\ streak' = 0 /\ disk' = [high |-> 0, entry |-> entry']
    BY <1>1, <1>8 DEF HighestAfterExit, Saved
  <2>2. cache' \in Quote /\ Known(cache')
    BY <1>4, <1>5, <1>8
  <2>3. Typed'
    BY <1>2, <1>3, <1>8, <2>1, <2>2 DEF Typed, Positions
  <2>4. StreakIsRun'
    BY <1>3, <1>8, <2>1 DEF Typed, StreakIsRun
  <2>5. ASSUME Held \/ pos.order > 0 PROVE OwnTime'
    <3>1. OwnTime
      BY <1>3, <2>5 DEF OwnSinceBought
    <3>2. cache'.price <= top
      BY <1>3, <2>2, <3>1, KnownIsOwn
    <3> QED
      BY <1>2, <1>3, <1>8, <2>1, <3>1, <3>2 DEF OwnTime, Typed
  <2> QED
    BY <1>8, <2>3, <2>4, <2>5 DEF HeldInv, OwnSinceBought, Held
<1> QED
  BY <1>1, <1>6, <1>7, <1>8

LEMMA BuysKeeps == HeldInv /\ Buys => HeldInv'
<1> SUFFICES ASSUME HeldInv, Buys PROVE HeldInv'
  OBVIOUS
<1>1. /\ pos.order > 0 /\ pos' \in {Position(pos.order), Position(0)}
      /\ UNCHANGED <<now, price, cache, high, entry, streak, snapshot, disk, top, run>>
  BY DEF Buys
<1>2. Typed'
  <2>1. Position(0) \in Positions /\ Position(pos.order) \in Positions
    BY DEF HeldInv, Typed, Positions, Position
  <2> QED
    BY <1>1, <2>1 DEF HeldInv, Typed
<1>3. OwnSinceBought' /\ StreakIsRun'
  BY <1>1 DEF HeldInv, OwnSinceBought, OwnTime, StreakIsRun
<1> QED
  BY <1>2, <1>3 DEF HeldInv

LEMMA SoldKeeps == HeldInv /\ Sold => HeldInv'
BY DEF HeldInv, Typed, Positions, Position, OwnSinceBought, Held, StreakIsRun, Sold, memory

LEMMA AdvanceKeeps == HeldInv /\ Advance => HeldInv'
<1> SUFFICES ASSUME HeldInv, Advance PROVE HeldInv'
  OBVIOUS
<1>1. /\ now' = now + 1 /\ price' \in Nat
      /\ top' = (IF Held \/ pos.order > 0 THEN Higher(top, price') ELSE 0)
      /\ UNCHANGED <<pos, cache, high, entry, streak, snapshot, disk, run>>
  BY WatchAssumption DEF Advance, memory
<1>2. Typed'
  BY <1>1 DEF HeldInv, Typed, Higher
<1>3. StreakIsRun'
  BY <1>1 DEF HeldInv, StreakIsRun
<1>4. ASSUME Held \/ pos.order > 0 PROVE OwnTime'
  <2>1. OwnTime /\ top \in Nat /\ cache.price \in Nat /\ high \in Nat /\ disk.high \in Nat
    BY <1>4 DEF HeldInv, OwnSinceBought, Typed, Quote
  <2>2. top' \in Nat /\ top <= top' /\ price' <= top'
    BY <1>1, <1>4, <2>1 DEF Higher
  <2> QED
    BY <1>1, <2>1, <2>2 DEF OwnTime
<1> QED
  BY <1>1, <1>2, <1>3, <1>4 DEF HeldInv, OwnSinceBought, Held

LEMMA ObserveKeeps == HeldInv /\ Observe => HeldInv'
<1> SUFFICES ASSUME HeldInv, Observe PROVE HeldInv'
  OBVIOUS
<1>1. PICK got \in MarketPrices : cache' = got.cache
  BY DEF Observe
<1>2. UNCHANGED <<now, price, pos, high, entry, streak, snapshot, disk, top, run>>
  BY DEF Observe, market
<1>3. got.cache \in Quote /\ Known(got.cache)
  BY MarketPriceIs DEF HeldInv
<1>4. Typed' /\ StreakIsRun'
  BY <1>1, <1>2, <1>3 DEF HeldInv, Typed, StreakIsRun
<1>5. ASSUME Held \/ pos.order > 0 PROVE OwnTime'
  <2>1. OwnTime
    BY <1>5 DEF HeldInv, OwnSinceBought
  <2>2. cache'.price <= top
    BY <1>1, <1>3, <2>1, KnownIsOwn DEF HeldInv
  <2> QED
    BY <1>2, <2>1, <2>2 DEF OwnTime
<1> QED
  BY <1>2, <1>4, <1>5 DEF HeldInv, OwnSinceBought, Held

\* state.json knows the highest price of this purchase, or none: then the price is.
LEMMA RestartKeeps == HeldInv /\ Restart => HeldInv'
<1> SUFFICES ASSUME HeldInv, Restart PROVE HeldInv'
  OBVIOUS
<1>1. /\ high' = (IF ~Held THEN 0 ELSE IF disk.high = 0 THEN price ELSE disk.high)
      /\ entry' = (IF Held THEN disk.entry ELSE NoEntry) /\ streak' = 0 /\ run' = 0
      /\ cache' = [price |-> 0, at |-> Never] /\ snapshot' = 0
      /\ UNCHANGED <<now, price, pos, disk, top>>
  BY DEF Restart, market, NoPrice
<1>2. Typed'
  BY <1>1 DEF HeldInv, Typed, Quote, NoEntry, Never
<1>3. StreakIsRun'
  BY <1>1 DEF StreakIsRun
<1>4. ASSUME Held \/ pos.order > 0 PROVE OwnTime'
  <2>1. OwnTime /\ Typed
    BY <1>4 DEF HeldInv, OwnSinceBought
  <2> QED
    BY <1>1, <2>1 DEF OwnTime, Typed
<1> QED
  BY <1>1, <1>2, <1>3, <1>4 DEF HeldInv, OwnSinceBought, Held

LEMMA OtherStepKeeps ==
  ASSUME HeldInv, UNCHANGED <<now, price, pos, cache, high, entry, streak, snapshot, disk, top, run>>
  PROVE  HeldInv'
BY DEF HeldInv, Typed, OwnSinceBought, OwnTime, Held, StreakIsRun

LEMMA NextKeepsHeldInv == HeldInv /\ [Next]_vars => HeldInv'
<1> SUFFICES ASSUME HeldInv, [Next]_vars PROVE HeldInv'
  OBVIOUS
<1>1. CASE Poll
  BY <1>1, PollKeeps
<1>2. CASE PollWithoutPosition
  BY <1>2, BuyOrPassKeeps
<1>3. CASE Buys
  BY <1>3, BuysKeeps
<1>4. CASE Sold
  BY <1>4, SoldKeeps
<1>5. CASE Advance
  BY <1>5, AdvanceKeeps
<1>6. CASE BalanceFails
  BY <1>6, OtherStepKeeps DEF BalanceFails, market
<1>7. CASE BalanceAnswers
  BY <1>7, OtherStepKeeps DEF BalanceAnswers, market
<1>8. CASE Observe
  BY <1>8, ObserveKeeps
<1>9. CASE Restart
  BY <1>9, RestartKeeps
<1>10. CASE UNCHANGED vars
  BY <1>10, OtherStepKeeps DEF vars, market, memory
<1> QED
  BY <1>1, <1>2, <1>3, <1>4, <1>5, <1>6, <1>7, <1>8, <1>9, <1>10 DEF Next

-----------------------------------------------------------------------------
\* The highest price, from which the trailing stop is reckoned, is one of the
\* position's own time, whatever the cache, a failed call, state.json and a restart
\* bring back (_process_symbol, _get_market_price_with_cache, StateReconciler).
THEOREM HighestStaysOwn == Spec => []HighestIsOwn
<1>1. HeldInv => HighestIsOwn
  BY DEF HeldInv, OwnSinceBought, OwnTime, HighestIsOwn, Visible
<1> QED
  BY <1>1, HeldInvInit, NextKeepsHeldInv, PTL DEF Spec
-----------------------------------------------------------------------------
(* The exits of a decision                                                  *)

Strategies == {"breakout", "neutral", "hold"}

LEMMA SelectIs == ASSUME NEW regime PROVE Select(regime) \in Strategies
BY DEF Select, Strategies

\* Every strategy sells a position that is past its stop loss or its trailing stop.
LEMMA StrategySells ==
  ASSUME NEW s \in Strategies, NEW avg, NEW p, NEW h, NEW day, NEW vwap
  PROVE  /\ GenerateExit(s, avg, p, h, day, vwap) \in {"stop", "trailing", "turned", "net", "hold"}
         /\ StopHit(avg, p) \/ TrailHit(s, avg, p, h) =>
              GenerateExit(s, avg, p, h, day, vwap) \in {"stop", "trailing", "net"}
<1>1. CASE s = "breakout"
  BY <1>1, BreakoutIs DEF GenerateExit
<1>2. CASE s = "neutral"
  BY <1>2, NeutralIs DEF GenerateExit
<1>3. CASE s = "hold"
  <2>1. ~TrailHit(s, avg, p, h)
    BY <1>3 DEF TrailHit, TrailActive, Trailing
  <2> QED
    BY <1>3, <2>1, HoldIs DEF GenerateExit
<1> QED
  BY <1>1, <1>2, <1>3 DEF Strategies

\* The watch over the first minutes answers for a broken VWAP only after its grace
\* and with as many looks at it as are asked for, this one included.
LEMMA WatchCounts ==
  ASSUME HeldInv, NEW p \in Nat, NEW elapsed \in Int, NEW watch, NEW kept \in Nat
  PROVE  LET first == EntryWatch(pos.avg, p, elapsed, watch, kept)
         IN  /\ first \in {"pass", "cut", "vwap", "slow"}
             /\ first = "vwap" => /\ watch = "below" /\ elapsed >= Grace /\ kept + 1 >= ConfirmCount
                                  /\ VwapLooked(pos.avg, p, elapsed, watch)
<1> DEFINE cut == Pnl(pos.avg, p) <= -(FailCut * pos.avg)
           first == EntryWatch(pos.avg, p, elapsed, watch, kept)
<1>1. first = IF ~Watched(elapsed) THEN "pass" ELSE IF cut THEN "cut"
              ELSE IF watch = "below" /\ elapsed >= Grace /\ kept + 1 >= ConfirmCount THEN "vwap"
              ELSE IF Unprofitable(pos.avg, p, elapsed) THEN "slow" ELSE "pass"
  BY EntryWatchIs
<1>2. ~cut => Pnl(pos.avg, p) > -(FailCut * pos.avg)
  <2>1. pos.avg \in Nat /\ FailCut \in Nat
    BY ExitAssumption DEF HeldInv, Typed, Positions
  <2>2. Pnl(pos.avg, p) \in Int /\ FailCut * pos.avg \in Int
    BY <2>1 DEF Pnl
  <2> QED
    BY <2>2
<1> HIDE DEF cut, first
<1>3. first = "vwap" => /\ Watched(elapsed) /\ ~cut
                        /\ watch = "below" /\ elapsed >= Grace /\ kept + 1 >= ConfirmCount
  BY <1>1
<1>4. first \in {"pass", "cut", "vwap", "slow"}
  BY <1>1
<1> QED
  BY <1>2, <1>3, <1>4 DEF VwapLooked, first

LEMMA DecisionIsRight ==
  ASSUME HeldInv, NEW got, got.cache \in Quote, NEW r, NEW m, NEW day
  PROVE  /\ HardExitsWork(Decision(got, r, m, day))
         /\ IndicatorExitsAreFresh(Decision(got, r, m, day), m.safe)
<1> DEFINE d      == Decision(got, r, m, day)
           p      == got.cache.price
           s      == Select(Regime(p, r))
           h      == Higher(high, p)
           since  == IF bought THEN now ELSE entry
           watch  == IF m.safe THEN m.vwap ELSE "none"
           kept   == IF m.safe THEN streak ELSE 0
           first  == IF since = NoEntry THEN "pass" ELSE EntryWatch(pos.avg, p, now - since, watch, kept)
           exit   == GenerateExit(s, pos.avg, p, h, day, m.vwap)
           reason == IF first # "pass" THEN first ELSE exit
           looked == VwapLooked(pos.avg, p, now - since, watch)
<1>1. /\ d.does = Permitted(reason, m.safe) /\ d.strategy = s /\ d.price = p /\ d.high = h /\ d.entry = since
      /\ d.run = IF ~m.safe THEN 0
                 ELSE IF since = NoEntry \/ ~looked THEN run
                 ELSE IF watch = "below" /\ now - since >= Grace THEN Lower(run + 1, ConfirmCount) ELSE 0
  BY DEF Decision
<1>2. /\ p \in Nat /\ since \in Int /\ kept \in Nat /\ now - since \in Int
      /\ streak \in Nat /\ run \in Nat /\ streak <= run /\ ConfirmCount \in Nat /\ Grace \in Nat
  BY ExitAssumption DEF HeldInv, Typed, StreakIsRun, Quote
<1>3. s \in Strategies
  BY SelectIs
<1>4. /\ exit \in {"stop", "trailing", "turned", "net", "hold"}
      /\ StopHit(pos.avg, p) \/ TrailHit(s, pos.avg, p, h) => exit \in {"stop", "trailing", "net"}
  BY <1>3, StrategySells
<1>5. /\ first \in {"pass", "cut", "vwap", "slow"}
      /\ first = "vwap" => /\ since # NoEntry /\ watch = "below" /\ now - since >= Grace
                           /\ kept + 1 >= ConfirmCount /\ looked
  BY <1>2, WatchCounts
<1>6. watch = "below" => m.safe /\ kept = streak
  OBVIOUS
<1> HIDE DEF d, s, since, watch, kept, first, exit, looked
<1>7. HardExitsWork(d)
  <2> SUFFICES ASSUME StopHit(pos.avg, p) \/ TrailHit(s, pos.avg, p, h)
               PROVE  d.does \in Sells
    BY <1>1 DEF HardExitsWork
  <2>1. exit \in {"stop", "trailing", "net"}
    BY <1>4
  <2>2. reason \in {"cut", "vwap", "slow", "stop", "trailing", "net"}
    BY <1>5, <2>1
  <2>3. reason = "vwap" => m.safe
    BY <1>5, <1>6, <2>1
  <2>4. d.does = reason
    BY <1>1, <2>2, <2>3 DEF Permitted
  <2> QED
    BY <2>2, <2>4 DEF Sells
<1>8. d.does \in {"turned", "vwap"} => m.safe
  BY <1>1 DEF Permitted
<1>9. d.does = "vwap" => d.entry # NoEntry /\ now - d.entry >= Grace /\ d.run >= ConfirmCount
  <2> SUFFICES ASSUME d.does = "vwap"
               PROVE  d.entry # NoEntry /\ now - d.entry >= Grace /\ d.run >= ConfirmCount
    OBVIOUS
  <2>1. reason = "vwap"
    BY <1>1 DEF Permitted
  <2>2. first = "vwap"
    BY <1>4, <2>1
  <2>3. /\ since # NoEntry /\ watch = "below" /\ now - since >= Grace /\ looked
        /\ m.safe /\ streak + 1 >= ConfirmCount
    BY <1>5, <1>6, <2>2
  <2>4. d.run = Lower(run + 1, ConfirmCount)
    BY <1>1, <2>3
  <2>5. Lower(run + 1, ConfirmCount) >= ConfirmCount
    BY <1>2, <2>3 DEF Lower
  <2> QED
    BY <1>1, <2>3, <2>4, <2>5
<1> QED
  BY <1>7, <1>8, <1>9 DEF IndicatorExitsAreFresh, d

\* Prices and bars that cannot be had keep no position from its stop loss or its
\* trailing stop, and an exit that rests on minute bars rests on fresh ones and on as
\* many looks in a row as the code asks for, across restarts (_process_symbol,
\* _check_entry_watch).
THEOREM ExitsStayRight == Spec => []ExitsAreRight
<1>1. HeldInv => ExitsAreRight
  <2> SUFFICES ASSUME HeldInv,
                      NEW got \in HoldingPrices, NEW r \in DailyRegime, NEW day \in Indicators,
                      NEW m \in MinuteData(Regime(got.cache.price, r))
               PROVE  /\ HardExitsWork(Decision(got, r, m, day))
                      /\ IndicatorExitsAreFresh(Decision(got, r, m, day), m.safe)
    BY DEF ExitsAreRight, EveryDecision
  <2>1. got.cache \in Quote
    BY HoldingPriceIs DEF HeldInv
  <2> QED
    BY <2>1, DecisionIsRight
<1> QED
  BY <1>1, HeldInvInit, NextKeepsHeldInv, PTL DEF Spec

-----------------------------------------------------------------------------
(* What is observed in an outage                                            *)

\* No price is both at the stop loss and at the safety net, so that it does not
\* matter which of the two is asked for first.
LEMMA StopIsBelowNet ==
  ASSUME NEW avg \in Nat, avg > 0, NEW p \in Nat
  PROVE  ~(StopHit(avg, p) /\ SafetyNetHit(avg, p))
<1>1. StopLoss \in Nat /\ StopLoss >= 1 /\ TakeProfit \in Nat /\ TakeProfit >= 1
  BY ExitAssumption
<1>2. avg * StopLoss \in Nat /\ avg * StopLoss >= 1 /\ avg * TakeProfit \in Nat
  BY <1>1
<1>3. avg * (1000 - StopLoss) = 1000 * avg - avg * StopLoss
  BY <1>1
<1>4. avg * (1000 + TakeProfit) = 1000 * avg + avg * TakeProfit
  BY <1>1
<1>5. (avg * (1000 - StopLoss)) \div 1000 < avg
  BY <1>2, <1>3
<1>6. (avg * (1000 + TakeProfit)) \div 1000 >= avg
  BY <1>2, <1>4
<1>7. (avg * (1000 - StopLoss)) \div 1000 \in Int /\ (avg * (1000 + TakeProfit)) \div 1000 \in Int
  BY <1>2, <1>3, <1>4
<1> QED
  BY <1>5, <1>6, <1>7 DEF StopHit, SafetyNetHit

\* The few exits that are looked at without the balance are those of the strategy.
LEMMA CandidateAgrees ==
  ASSUME NEW s \in Strategies, NEW avg \in Nat, avg > 0, NEW p \in Nat, NEW h, NEW day, NEW vwap
  PROVE  LET does == GenerateExit(s, avg, p, h, day, vwap)
             row  == ExitCandidate(s, avg, p, h)
         IN  row \in {does, "hold"} /\ (does \in {"stop", "trailing"} => row = does)
<1>1. CASE s = "breakout"
  BY <1>1, BreakoutIs, CandidateIs DEF GenerateExit
<1>2. CASE s = "neutral"
  BY <1>2, NeutralIs, CandidateIs DEF GenerateExit
<1>3. CASE s = "hold"
  <2>1. ~TrailHit(s, avg, p, h)
    BY <1>3 DEF TrailHit, TrailActive, Trailing
  <2> QED
    BY <1>3, <2>1, HoldIs, CandidateIs, StopIsBelowNet DEF GenerateExit
<1> QED
  BY <1>1, <1>2, <1>3 DEF Strategies

LEMMA ReadinessIs ==
  ASSUME NEW p \in Nat, NEW avg \in Nat, NEW age \in Int,
         Readiness(p, avg, age, MaxPriceAge) = "ready"
  PROVE  p > 0 /\ age \in 0 .. MaxPriceAge
<1> DEFINE table == << <<p <= 0, "invalid_current_price">>, <<avg <= 0, "invalid_average_price">>,
                       <<age < 0, "invalid_price_age">>, <<age > MaxPriceAge, "stale_price">> >>
<1>1. DOMAIN table = 1 .. 4 /\ Readiness(p, avg, age, MaxPriceAge) = FirstOf(table, "ready")
  BY DEF Readiness
<1>2. /\ table[1][1] = (p <= 0) /\ table[1][2] = "invalid_current_price"
      /\ table[2][1] = (avg <= 0) /\ table[2][2] = "invalid_average_price"
      /\ table[3][1] = (age < 0) /\ table[3][2] = "invalid_price_age"
      /\ table[4][1] = (age > MaxPriceAge) /\ table[4][2] = "stale_price"
  OBVIOUS
<1> HIDE DEF table
<1>3. FirstOf(table, "ready") =
        IF table[1][1] THEN table[1][2] ELSE IF table[2][1] THEN table[2][2] ELSE
        IF table[3][1] THEN table[3][2] ELSE IF table[4][1] THEN table[4][2] ELSE "ready"
  BY <1>1, FirstOfFour
<1>4. ~(p <= 0) /\ ~(age < 0) /\ ~(age > MaxPriceAge)
  BY <1>1, <1>2, <1>3
<1> QED
  BY <1>4, WatchAssumption

\* What is observed while the balance API is out is what the strategy would do, of a
\* price that could be read and is recent, and of a regime that is known
\* (_observe_exit_candidate_for_symbol, exit_calc.py).
THEOREM ObservationsStayRight == Spec => []ObservationsAgree
<1>1. HeldInv => ObservationsAgree
  <2> SUFFICES ASSUME HeldInv, snapshot > 0, NEW got \in MarketPrices, Observed(got) # "deferred"
               PROVE  /\ got.cache.price > 0 /\ now - got.cache.at \in 0 .. MaxPriceAge /\ daily # "UNKNOWN"
                      /\ \A day \in Indicators, vwap \in {"none", "above", "near", "below"} :
                           LET does == GenerateExit(Select(daily), snapshot, got.cache.price, high, day, vwap)
                           IN /\ Observed(got) \in {does, "hold"}
                              /\ does \in {"stop", "trailing"} => Observed(got) = does
    BY DEF ObservationsAgree
  <2>1. /\ got.source # "unavailable" /\ daily # "UNKNOWN"
        /\ Readiness(got.cache.price, snapshot, now - got.cache.at, MaxPriceAge) = "ready"
        /\ Observed(got) = ExitCandidate(Select(daily), snapshot, got.cache.price, high)
    BY DEF Observed, RegimeIsKnown
  <2>2. got.cache.price \in Nat /\ got.cache.at \in Int /\ now \in Nat /\ snapshot \in Nat
    BY MarketPriceIs DEF HeldInv, Typed, Quote
  <2>3. got.cache.price > 0 /\ now - got.cache.at \in 0 .. MaxPriceAge
    BY <2>1, <2>2, ReadinessIs
  <2>4. Select(daily) \in Strategies
    BY SelectIs
  <2> QED
    BY <2>1, <2>2, <2>3, <2>4, CandidateAgrees
<1> QED
  BY <1>1, HeldInvInit, NextKeepsHeldInv, PTL DEF Spec

-----------------------------------------------------------------------------
(* The minute bars: what the broker's rows become                           *)

\* A market of at least one bar; all that there have been are sound and of a day of the run.
MarketIsSound ==
  /\ traded \in Seq(Bars) /\ Len(traded) > 0 /\ \A i \in 1 .. Len(traded) : traded[i] \in made
  /\ made \subseteq Bars /\ \A b \in made : Sound(b) /\ Day(b.ts) \in Days

\* The newest bars of a part of the market, none left out, the last perhaps half-made
IsWindow(w) ==
  \E n \in 1 .. Len(traded), k \in MinCount .. BarCount : \E b \in Versions(n) : w = LastN(View(n, b), k)

\* The last k elements of the first n.
LEMMA LastOfFirst ==
  ASSUME NEW S, NEW s \in Seq(S), NEW n \in 0 .. Len(s), NEW k \in Nat
  PROVE  LET l == IF n > k THEN k ELSE n
             w == LastN(SubSeq(s, 1, n), k)
         IN  /\ w \in Seq(S) /\ Len(w) = l
             /\ \A i \in 1 .. l : w[i] = s[n - l + i]
<1> DEFINE p == SubSeq(s, 1, n)
           l == IF n > k THEN k ELSE n
           first == IF n > k THEN n - k + 1 ELSE 1
<1>1. /\ p \in Seq(S) /\ Len(p) = n /\ \A i \in 1 .. n : p[i] = s[i]
  <2>1. \A i \in 1 .. n : s[i] \in S
    OBVIOUS
  <2> QED BY <2>1, SubSeqProperties
<1>2. LastN(p, k) = SubSeq(p, first, n)
  BY <1>1 DEF LastN
<1>3. first \in Int /\ n \in Int /\ first \in 1 .. n + 1 /\ n - first + 1 = l
  OBVIOUS
<1> HIDE DEF p, l, first
<1>4. \A i \in first .. n : p[i] \in S
  BY <1>1, <1>3
<1>5. /\ SubSeq(p, first, n) \in Seq(S)
      /\ Len(SubSeq(p, first, n)) = IF first <= n THEN n - first + 1 ELSE 0
      /\ \A i \in 1 .. n - first + 1 : SubSeq(p, first, n)[i] = p[first + i - 1]
  BY <1>3, <1>4, SubSeqProperties
<1>6. Len(SubSeq(p, first, n)) = l
  BY <1>3, <1>5
<1>7. ASSUME NEW i \in 1 .. l PROVE SubSeq(p, first, n)[i] = s[n - l + i]
  <2>1. first + i - 1 \in 1 .. n /\ first + i - 1 = n - l + i
    BY <1>3
  <2> QED BY <1>1, <1>3, <1>5, <2>1
<1> QED BY <1>2, <1>5, <1>6, <1>7 DEF p, l

LEMMA LastIs ==
  ASSUME NEW S, NEW s \in Seq(S), NEW k \in Nat
  PROVE  LET l == IF Len(s) > k THEN k ELSE Len(s)
         IN  /\ LastN(s, k) \in Seq(S) /\ Len(LastN(s, k)) = l
             /\ \A i \in 1 .. l : LastN(s, k)[i] = s[Len(s) - l + i]
<1>1. Len(s) \in 0 .. Len(s) /\ SubSeq(s, 1, Len(s)) = s
  <2>1. Len(s) \in Nat /\ \A i \in 1 .. Len(s) : s[i] \in S
    OBVIOUS
  <2>2. /\ SubSeq(s, 1, Len(s)) \in Seq(S) /\ Len(SubSeq(s, 1, Len(s))) = Len(s)
        /\ \A i \in 1 .. Len(s) : SubSeq(s, 1, Len(s))[i] = s[i]
    BY <2>1, SubSeqProperties
  <2> QED BY <2>1, <2>2, SeqEqual
<1> DEFINE n == Len(s)
<1>2. LET l == IF n > k THEN k ELSE n
          w == LastN(SubSeq(s, 1, n), k)
      IN  w \in Seq(S) /\ Len(w) = l /\ \A i \in 1 .. l : w[i] = s[n - l + i]
  <2>1. n \in 0 .. Len(s)
    BY <1>1
  <2> HIDE DEF n
  <2> QED BY <2>1, LastOfFirst
<1>3. SubSeq(s, 1, n) = s
  BY <1>1
<1> QED BY <1>2, <1>3

\* The market up to its n-th bar, as it was at some time.
LEMMA ViewIs ==
  ASSUME MarketIsSound, NEW n \in 1 .. Len(traded), NEW b \in Versions(n)
  PROVE  /\ View(n, b) \in Seq(Bars) /\ Len(View(n, b)) = n /\ View(n, b)[n] = b
         /\ \A i \in 1 .. n - 1 : View(n, b)[i] = traded[i]
         /\ \A i \in 1 .. n : View(n, b)[i] \in made
<1>1. /\ traded \in Seq(Bars) /\ Len(traded) \in Nat /\ b \in made /\ b \in Bars
      /\ \A i \in 1 .. Len(traded) : traded[i] \in made
  BY DEF MarketIsSound, Versions
<1>2. /\ SubSeq(traded, 1, n - 1) \in Seq(Bars) /\ Len(SubSeq(traded, 1, n - 1)) = n - 1
      /\ \A i \in 1 .. n - 1 : SubSeq(traded, 1, n - 1)[i] = traded[i]
  <2>1. n - 1 \in Int /\ \A i \in 1 .. n - 1 : traded[i] \in Bars
    BY <1>1
  <2> QED BY <1>1, <2>1, SubSeqProperties
<1>3. View(n, b) = Append(SubSeq(traded, 1, n - 1), b)
  BY DEF View
<1>4. /\ View(n, b) \in Seq(Bars) /\ Len(View(n, b)) = n /\ View(n, b)[n] = b
      /\ \A i \in 1 .. n - 1 : View(n, b)[i] = traded[i]
  BY <1>1, <1>2, <1>3
<1>5. ASSUME NEW i \in 1 .. n PROVE View(n, b)[i] \in made
  <2>1. i = n \/ (i \in 1 .. n - 1 /\ i \in 1 .. Len(traded))
    BY <1>1
  <2> QED BY <1>1, <1>4, <2>1
<1> QED BY <1>4, <1>5

RowType == [ts : Nat, high : Seq(Int), low : Seq(Int), close : Seq(Int), volume : Seq(Int), acc : Seq(Int)]

\* The bar that a row is read as
Parsed(r) ==
  [ts |-> r.ts, high |-> ParseAbsInt(r.high), low |-> ParseAbsInt(r.low),
   close |-> ParseAbsInt(r.close), volume |-> ParseAbsInt(r.volume), acc |-> ParseAbsInt(r.acc)]

\* A number is read as it was, whatever sign the row gives it.
LEMMA NumbersAreRead ==
  ASSUME NEW x \in Nat
  PROVE  ParseAbsInt(<<x>>) = x /\ ParseAbsInt(Signed(x)) = x /\ Signed(x) \in Seq(Int) /\ <<x>> \in Seq(Int)
<1>1. YesterdayClose \in Nat
  BY MinuteDataAssumption
<1>2. Signed(x) = <<x>> \/ Signed(x) = <<-x>>
  BY <1>1 DEF Signed
<1>3. ParseAbsInt(<<x>>) = x /\ ParseAbsInt(<<-x>>) = x
  BY DEF ParseAbsInt
<1>4. <<x>> \in Seq(Int) /\ <<-x>> \in Seq(Int)
  OBVIOUS
<1> QED BY <1>2, <1>3, <1>4

\* So is a bar.
LEMMA BarsAreRead ==
  ASSUME NEW b \in Bars
  PROVE  RowOf(b) \in RowType /\ Parsed(RowOf(b)) = b /\ RowOf(b).ts = b.ts
<1>1. {b.ts, b.high, b.low, b.close, b.volume, b.acc} \subseteq Nat
  BY DEF Bars
<1>2. b = [ts |-> b.ts, high |-> b.high, low |-> b.low, close |-> b.close,
           volume |-> b.volume, acc |-> b.acc]
  BY DEF Bars
<1>3. RowOf(b) \in RowType
  BY <1>1, NumbersAreRead DEF RowOf, RowType
<1>4. Parsed(RowOf(b)) = b
  <2>1. Parsed(RowOf(b)) = [ts |-> b.ts, high |-> ParseAbsInt(Signed(b.high)),
           low |-> ParseAbsInt(Signed(b.low)), close |-> ParseAbsInt(Signed(b.close)),
           volume |-> ParseAbsInt(<<b.volume>>), acc |-> ParseAbsInt(<<b.acc>>)]
    BY DEF Parsed, RowOf
  <2> QED BY <1>1, <1>2, <2>1, NumbersAreRead
<1> QED BY <1>3, <1>4 DEF RowOf

\* How many of a number of rows are asked for
Asked(n) == IF n < BarCount THEN n ELSE BarCount

\* The bars of rows, the oldest first.
LEMMA BarsOfRows ==
  ASSUME NEW rows \in Seq(RowType)
  PROVE  GetMinuteBars(rows)
           = [i \in 1 .. Asked(Len(rows)) |-> Parsed(rows[Asked(Len(rows)) - i + 1])]
<1> DEFINE a == Asked(Len(rows))
           asked == SubSeq(rows, 1, a)
           bars == [i \in DOMAIN asked |-> Parsed(asked[i])]
<1>1. a \in Nat /\ a <= Len(rows)
  BY MinuteDataAssumption DEF Asked
<1>2. GetMinuteBars(rows) = Reverse(bars)
  BY DEF GetMinuteBars, Asked, Parsed
<1>3. asked \in Seq(RowType) /\ Len(asked) = a /\ \A i \in 1 .. a : asked[i] = rows[i]
  <2> HIDE DEF a
  <2>1. \A i \in 1 .. a : rows[i] \in RowType
    BY <1>1
  <2> QED BY <1>1, <2>1, SubSeqProperties
<1> HIDE DEF a, asked
<1>4. DOMAIN asked = 1 .. a
  BY <1>3
<1>5. bars = [i \in 1 .. a |-> Parsed(rows[i])]
  BY <1>3, <1>4
<1>6. Len(bars) = a
  BY <1>1, <1>5
<1> HIDE DEF bars
<1>7. Reverse(bars) = [i \in 1 .. a |-> bars[(a - i) + 1]]
  BY <1>6 DEF Reverse
<1>8. \A i \in 1 .. a : bars[(a - i) + 1] = Parsed(rows[a - i + 1])
  BY <1>1, <1>5
<1> QED BY <1>2, <1>7, <1>8 DEF a

\* The chart: the newest bars of a view of the market, the newest first.
LEMMA ChartIs ==
  ASSUME MarketIsSound, NEW n \in 1 .. Len(traded), NEW b \in Versions(n)
  PROVE  /\ Chart(n, b) \in Seq(RowType) /\ Len(Chart(n, b)) \in 0 .. n
         /\ \A i \in 1 .. Len(Chart(n, b)) : Chart(n, b)[i] = RowOf(View(n, b)[n - i + 1])
<1> DEFINE s == View(n, b)
           l == IF n > BarCount + 1 THEN BarCount + 1 ELSE n
           w == LastN(s, BarCount + 1)
<1>1. s \in Seq(Bars) /\ Len(s) = n /\ n \in Nat /\ BarCount + 1 \in Nat /\ l \in 0 .. n
  <2>1. BarCount \in Nat /\ n \in Nat
    BY MinuteDataAssumption DEF MarketIsSound
  <2>2. l \in 0 .. n
    BY <2>1
  <2> QED BY <2>1, <2>2, ViewIs
<1>2. Chart(n, b) = [i \in DOMAIN Reverse(w) |-> RowOf(Reverse(w)[i])]
  BY DEF Chart
<1> HIDE DEF s
<1>3. w \in Seq(Bars) /\ Len(w) = l /\ \A i \in 1 .. l : w[i] = s[n - l + i]
  BY <1>1, LastIs
<1> HIDE DEF w, l
<1>4. Reverse(w) = [i \in 1 .. l |-> w[(l - i) + 1]]
  BY <1>3 DEF Reverse
<1>5. Chart(n, b) = [i \in 1 .. l |-> RowOf(s[n - i + 1])]
  <2>1. \A i \in 1 .. l : (l - i) + 1 \in 1 .. l /\ n - l + ((l - i) + 1) = n - i + 1
    BY <1>1
  <2>2. ASSUME NEW i \in 1 .. l PROVE Reverse(w)[i] = s[n - i + 1]
    <3>1. Reverse(w)[i] = w[(l - i) + 1]
      BY <1>4
    <3>2. w[(l - i) + 1] = s[n - l + ((l - i) + 1)]
      BY <1>3, <2>1
    <3> QED BY <2>1, <3>1, <3>2
  <2> QED BY <1>2, <1>4, <2>2
<1>6. \A i \in 1 .. l : s[n - i + 1] \in Bars
  BY <1>1
<1>7. \A i \in 1 .. l : RowOf(s[n - i + 1]) \in RowType
  BY <1>6, BarsAreRead
<1>8. Chart(n, b) \in Seq(RowType) /\ Len(Chart(n, b)) = l
  BY <1>1, <1>5, <1>7
<1> QED BY <1>1, <1>5, <1>8 DEF s

-----------------------------------------------------------------------------
(* The rebound                                                              *)

\* A set of numbers that has a member has a least one.
LEMMA LeastNumber ==
  ASSUME NEW T, T \subseteq Nat, T # {}
  PROVE  \E x \in T : \A y \in T : x <= y
<1>1. ASSUME NEW x \in Nat, NEW y \in Nat, y < x PROVE <<y, x>> \in OpToRel(<, Nat)
  <2>1. <<y, x>> \in Nat \X Nat /\ <<y, x>>[1] < <<y, x>>[2]
    BY <1>1
  <2> QED BY <2>1 DEF OpToRel
<1>2. PICK x \in T : \A y \in T : <<y, x>> \notin OpToRel(<, Nat)
  BY NatLessThanWellFounded, WFMin
<1>3. ASSUME NEW y \in T PROVE x <= y
  <2>1. ~(y < x)
    BY <1>1, <1>2
  <2> QED BY <2>1
<1> QED BY <1>3

\* Induction over the numbers up to n, for a set instead of a predicate.
LEMMA Induction ==
  ASSUME NEW n \in Nat, NEW S, 0 \in S, \A i \in 0 .. n - 1 : i \in S => i + 1 \in S
  PROVE  0 .. n \subseteq S
<1> SUFFICES ASSUME (0 .. n) \ S # {} PROVE FALSE
  OBVIOUS
<1>1. PICK x \in (0 .. n) \ S : \A y \in (0 .. n) \ S : x <= y
  <2>1. (0 .. n) \ S \subseteq Nat
    OBVIOUS
  <2> QED BY <2>1, LeastNumber
<1>2. x # 0
  BY <1>1
<1>3. x - 1 \in 0 .. n - 1 /\ x - 1 \notin (0 .. n) \ S
  BY <1>1, <1>2
<1>4. (x - 1) + 1 \in S
  BY <1>3
<1> QED BY <1>1, <1>4

\* The highest of the highs is one of them, or zero.
LEMMA TopIs ==
  ASSUME NEW s \in Seq(Bars)
  PROVE  /\ MaxOf(s, LAMBDA b : b.high) \in Nat
         /\ MaxOf(s, LAMBDA b : b.high) > 0 => \E i \in 1 .. Len(s) : MaxOf(s, LAMBDA b : b.high) = s[i].high
<1> DEFINE highs == {0} \cup {s[i].high : i \in DOMAIN s}
           greatest == {m \in 0 .. Len(s) :
                          \E x \in {0} \cup {s[i].high : i \in 1 .. m} :
                            \A y \in {0} \cup {s[i].high : i \in 1 .. m} : x >= y}
<1>1. Len(s) \in Nat /\ DOMAIN s = 1 .. Len(s) /\ \A i \in 1 .. Len(s) : s[i].high \in Nat
  <2>1. Len(s) \in Nat /\ DOMAIN s = 1 .. Len(s) /\ \A i \in 1 .. Len(s) : s[i] \in Bars
    OBVIOUS
  <2>2. \A b \in Bars : b.high \in Nat
    BY DEF Bars
  <2> QED BY <2>1, <2>2
<1>2. 0 \in greatest
  <2>1. 0 \in 0 .. Len(s) /\ 1 .. 0 = {}
    BY <1>1
  <2>2. {0} \cup {s[i].high : i \in 1 .. 0} = {0}
    BY <2>1
  <2>3. \E x \in {0} : \A y \in {0} : x >= y
    OBVIOUS
  <2>4. \E x \in {0} \cup {s[i].high : i \in 1 .. 0} :
          \A y \in {0} \cup {s[i].high : i \in 1 .. 0} : x >= y
    BY <2>2, <2>3
  <2> QED BY <2>1, <2>4
<1>3. ASSUME NEW m \in 0 .. Len(s) - 1, m \in greatest PROVE m + 1 \in greatest
  <2> DEFINE old == {0} \cup {s[i].high : i \in 1 .. m}
             new == {0} \cup {s[i].high : i \in 1 .. m + 1}
  <2>1. PICK x \in old : \A y \in old : x >= y
    BY <1>3
  <2>2. 1 .. m + 1 = (1 .. m) \cup {m + 1}
    OBVIOUS
  <2>3. new = old \cup {s[m + 1].high}
    BY <2>2
  <2>4. old \subseteq Nat /\ s[m + 1].high \in Nat
    BY <1>1
  <2> HIDE DEF old, new
  <2>5. \E z \in new : \A y \in new : z >= y
    <3>1. CASE x >= s[m + 1].high
      BY <2>1, <2>3, <2>4, <3>1
    <3>2. CASE ~(x >= s[m + 1].high)
      <4>1. \A y \in old : s[m + 1].high >= y
        BY <2>1, <2>4, <3>2
      <4>2. s[m + 1].high >= s[m + 1].high
        BY <2>4
      <4>3. \A y \in new : s[m + 1].high >= y
        BY <2>3, <4>1, <4>2
      <4> QED BY <2>3, <4>3
    <3> QED BY <3>1, <3>2
  <2>6. m + 1 \in 0 .. Len(s)
    BY <1>1
  <2> QED BY <2>5, <2>6 DEF new
<1>4. Len(s) \in greatest
  <2> HIDE DEF greatest
  <2>1. 0 .. Len(s) \subseteq greatest
    BY <1>1, <1>2, <1>3, Induction
  <2> QED BY <1>1, <2>1
<1>5. PICK x \in highs : \A y \in highs : x >= y
  BY <1>1, <1>4
<1> DEFINE peak == MaxOf(s, LAMBDA b : b.high)
<1>6. peak = Max(highs)
  BY DEF MaxOf
<1>7. peak \in highs
  <2> HIDE DEF highs, peak
  <2>1. Max(highs) \in highs
    BY <1>5 DEF Max
  <2> QED BY <1>6, <2>1
<1> HIDE DEF peak
<1>8. peak \in Nat
  BY <1>1, <1>7
<1>9. ASSUME peak > 0 PROVE \E i \in 1 .. Len(s) : peak = s[i].high
  <2>1. peak \in {s[i].high : i \in 1 .. Len(s)}
    BY <1>1, <1>7, <1>9
  <2> QED BY <2>1
<1> QED BY <1>8, <1>9 DEF peak

\* Among some bars, there is a first one of the lowest.
LEMMA LowestIs ==
  ASSUME NEW s \in Seq(Bars), Len(s) > 0
  PROVE  FirstLowest(s) \in 1 .. Len(s)
<1> DEFINE lows == {s[i].low : i \in 1 .. Len(s)}
<1>1. Len(s) \in Nat /\ DOMAIN s = 1 .. Len(s) /\ \A i \in 1 .. Len(s) : s[i].low \in Nat
  <2>1. Len(s) \in Nat /\ DOMAIN s = 1 .. Len(s) /\ \A i \in 1 .. Len(s) : s[i] \in Bars
    OBVIOUS
  <2>2. \A b \in Bars : b.low \in Nat
    BY DEF Bars
  <2> QED BY <2>1, <2>2
<1>2. PICK m \in lows : \A y \in lows : m <= y
  <2>1. lows \subseteq Nat
    BY <1>1
  <2>2. s[1].low \in lows
    BY <1>1
  <2> HIDE DEF lows
  <2> QED BY <2>1, <2>2, LeastNumber
<1> DEFINE places == {i \in 1 .. Len(s) : s[i].low = m}
<1>3. PICK i \in places : \A y \in places : i <= y
  <2>1. places \subseteq Nat /\ places # {}
    BY <1>1, <1>2
  <2> HIDE DEF places
  <2> QED BY <2>1, LeastNumber
<1>4. \A k \in DOMAIN s : s[i].low < s[k].low \/ (s[i].low = s[k].low /\ i <= k)
  <2> SUFFICES ASSUME NEW k \in 1 .. Len(s)
               PROVE  s[i].low < s[k].low \/ (s[i].low = s[k].low /\ i <= k)
    BY <1>1
  <2>1. m <= s[k].low /\ s[i].low = m /\ m \in Nat /\ s[k].low \in Nat
    BY <1>1, <1>2, <1>3
  <2>2. s[k].low = m => i <= k
    BY <1>3
  <2> QED BY <2>1, <2>2
<1> QED BY <1>1, <1>3, <1>4 DEF FirstLowest

\* Rows of the chart, the newest first, become a part of the market.
LEMMA RowsAreWindow ==
  ASSUME MarketIsSound, NEW n \in 1 .. Len(traded), NEW b \in Versions(n),
         NEW rows \in Seq(RowType), Asked(Len(rows)) <= n, MinCount <= Asked(Len(rows)),
         \A i \in 1 .. Asked(Len(rows)) : rows[i] = RowOf(View(n, b)[n - i + 1])
  PROVE  IsWindow(GetMinuteBars(rows))
<1> DEFINE a == Asked(Len(rows))
           s == View(n, b)
           w == LastN(s, a)
           bars == GetMinuteBars(rows)
<1>1. MinCount \in Nat \ {0} /\ BarCount \in Nat
  BY MinuteAssumption, MinuteDataAssumption
<1>2. a \in MinCount .. BarCount /\ a <= n /\ a \in Nat /\ n \in Nat
  <2>1. a \in Nat /\ a <= BarCount
    BY <1>1 DEF Asked
  <2> QED BY <1>1, <2>1
<1>3. s \in Seq(Bars) /\ Len(s) = n
  BY ViewIs
<1>4. bars = [i \in 1 .. a |-> Parsed(rows[a - i + 1])]
  BY BarsOfRows
<1>5. \A i \in 1 .. a : rows[i] = RowOf(s[n - i + 1])
  OBVIOUS
<1> HIDE DEF a, s, bars
<1>6. /\ w \in Seq(Bars) /\ Len(w) = a
      /\ \A i \in 1 .. a : w[i] = s[n - a + i]
  <2>1. (IF Len(s) > a THEN a ELSE Len(s)) = a
    BY <1>2, <1>3
  <2>2. LET l == IF Len(s) > a THEN a ELSE Len(s)
        IN  w \in Seq(Bars) /\ Len(w) = l /\ \A i \in 1 .. l : w[i] = s[Len(s) - l + i]
    BY <1>2, <1>3, LastIs
  <2> HIDE DEF w
  <2> QED BY <1>3, <2>1, <2>2
<1> HIDE DEF w
<1>7. ASSUME NEW i \in 1 .. a PROVE bars[i] = w[i]
  <2>1. a - i + 1 \in 1 .. a /\ n - (a - i + 1) + 1 = n - a + i /\ n - a + i \in 1 .. n
    BY <1>2
  <2>2. s[n - a + i] \in Bars
    BY <1>3, <2>1
  <2>3. rows[a - i + 1] = RowOf(s[n - a + i])
    BY <1>5, <2>1
  <2>4. bars[i] = Parsed(RowOf(s[n - a + i]))
    BY <1>4, <2>3
  <2> QED BY <1>6, <2>2, <2>4, BarsAreRead
<1>8. bars = w
  <2>1. bars \in Seq(Bars) /\ Len(bars) = a
    <3>1. bars = [i \in 1 .. a |-> w[i]]
      BY <1>4, <1>7
    <3> QED BY <1>2, <1>6, <3>1
  <2> QED BY <1>6, <1>7, <2>1, SeqEqual
<1> QED BY <1>2, <1>8 DEF IsWindow, w, s, bars

\* How many bars there are of rows.
LEMMA AsManyBars ==
  ASSUME NEW rows \in Seq(RowType)
  PROVE  Len(GetMinuteBars(rows)) = Asked(Len(rows)) /\ Asked(Len(rows)) \in 0 .. BarCount
<1>1. Len(rows) \in Nat /\ BarCount \in Nat
  BY MinuteDataAssumption
<1>2. Asked(Len(rows)) \in 0 .. BarCount
  BY <1>1 DEF Asked
<1> QED BY <1>1, <1>2, BarsOfRows

\* A row that cannot be read is not a sound bar.
LEMMA DamageShows ==
  ASSUME NEW r, r.high = <<>>, r.low = <<>>
  PROVE  ~Sound(Parsed(r))
<1>1. ParseAbsInt(<<>>) = 0
  BY DEF ParseAbsInt
<1>2. Parsed(r).low = 0
  BY <1>1 DEF Parsed
<1> QED BY <1>2 DEF Sound

\* The ways in which the chart may be sent
Damaged(w)  == [w EXCEPT ![2] = [@ EXCEPT !.high = <<>>, !.low = <<>>]]
Repeated(w) == [w EXCEPT ![Asked(Len(w))] = w[Asked(Len(w)) - 1]]
Cut(w)      == SubSeq(w, 1, Asked(Len(w)) - 1)

LEMMA RowsAre ==
  ASSUME NEW rows \in Rows, rows # <<>>
  PROVE  \E n \in DOMAIN traded : \E b \in Versions(n) :
           \/ rows = Chart(n, b)
           \/ rows = Damaged(Chart(n, b))
           \/ Asked(Len(Chart(n, b))) > 1 /\ rows = Repeated(Chart(n, b))
           \/ rows = Cut(Chart(n, b))
<1>1. PICK w \in Charts :
        \/ rows = w \/ rows = Damaged(w) \/ rows = Cut(w)
        \/ Asked(Len(w)) > 1 /\ rows = Repeated(w)
  BY DEF Rows, Damaged, Repeated, Cut, Asked
<1>2. PICK n \in DOMAIN traded : \E b \in Versions(n) : w = Chart(n, b)
  BY DEF Charts
<1> QED BY <1>1, <1>2

\* A chart that is good enough for an entry is a part of the market, whatever has
\* happened to it: a damaged row is not sound, a repeated one does not ascend.
LEMMA FreshIsWindow ==
  ASSUME MarketIsSound, NEW rows \in Rows, GetMinuteBars(rows) # <<>>,
         Fresh(GetMinuteBars(rows), minute)
  PROVE  IsWindow(GetMinuteBars(rows))
<1> DEFINE bars == GetMinuteBars(rows)
<1>1. /\ Len(bars) >= MinCount /\ \A b \in ToSet(bars) : Sound(b)
      /\ \A i \in 1 .. Len(bars) - 1 : bars[i].ts < bars[i + 1].ts
  BY DEF Fresh, Ascending
<1>2. MinCount \in Nat \ {0} /\ BarCount \in Nat /\ BarCount > 0 /\ MaxLag \in Nat
  <2>1. MinCount \in Nat \ {0}
    BY MinuteAssumption
  <2>2. BarCount \in Nat \ {0} /\ MaxLag \in Nat
    BY MinuteDataAssumption
  <2> QED BY <2>1, <2>2
<1>3. rows # <<>>
  <2>1. ASSUME rows = <<>> PROVE FALSE
    <3>1. <<>> \in Seq(RowType) /\ Len(<<>>) = 0
      OBVIOUS
    <3>2. Len(bars) = 0
      BY <1>2, <2>1, <3>1, AsManyBars DEF Asked
    <3> QED BY <1>1, <1>2, <3>2
  <2> QED BY <2>1
<1>4. PICK m \in 1 .. Len(traded) : \E b \in Versions(m) :
           \/ rows = Chart(m, b)
           \/ rows = Damaged(Chart(m, b))
           \/ Asked(Len(Chart(m, b))) > 1 /\ rows = Repeated(Chart(m, b))
           \/ rows = Cut(Chart(m, b))
  <2>1. DOMAIN traded = 1 .. Len(traded)
    BY DEF MarketIsSound
  <2> QED BY <1>3, <2>1, RowsAre
<1>12. PICK b \in Versions(m) :
           \/ rows = Chart(m, b)
           \/ rows = Damaged(Chart(m, b))
           \/ Asked(Len(Chart(m, b))) > 1 /\ rows = Repeated(Chart(m, b))
           \/ rows = Cut(Chart(m, b))
  BY <1>4
<1> DEFINE w == Chart(m, b)
<1>5. /\ w \in Seq(RowType) /\ Len(w) \in 0 .. m
      /\ \A i \in 1 .. Len(w) : w[i] = RowOf(View(m, b)[m - i + 1])
  BY ChartIs
<1> HIDE DEF w
<1>6. /\ Len(w) \in Nat /\ Asked(Len(w)) \in Nat /\ Asked(Len(w)) <= Len(w) /\ m \in Nat
      /\ Asked(Len(w)) <= BarCount
  BY <1>2, <1>5 DEF Asked, MarketIsSound
<1>7. ASSUME rows \in Seq(RowType), Len(rows) <= Len(w),
             \A i \in 1 .. Asked(Len(rows)) : rows[i] = w[i]
      PROVE  IsWindow(bars)
  <2>1. Asked(Len(rows)) <= Len(w) /\ Asked(Len(rows)) \in Nat
    BY <1>2, <1>6, <1>7 DEF Asked
  <2>2. MinCount <= Asked(Len(rows))
    BY <1>1, <1>7, AsManyBars
  <2>3. Asked(Len(rows)) <= m
    BY <1>5, <1>6, <2>1
  <2>4. \A i \in 1 .. Asked(Len(rows)) : rows[i] = RowOf(View(m, b)[m - i + 1])
    BY <1>5, <1>6, <1>7, <2>1
  <2> QED BY <1>7, <2>2, <2>3, <2>4, RowsAreWindow
<1>8. CASE rows = w
  BY <1>5, <1>6, <1>7, <1>8
<1>9. CASE rows = Damaged(w)
  <2>1. CASE Len(w) < 2
    <3>1. 2 \notin DOMAIN w
      BY <1>5, <2>1
    <3>2. rows = w
      BY <1>5, <1>9, <3>1 DEF Damaged
    <3> QED BY <1>8, <3>2
  <2>2. CASE Len(w) >= 2
    <3>1. w[2] \in RowType /\ DOMAIN w = 1 .. Len(w) /\ 2 \in DOMAIN w
      BY <1>5, <1>6, <2>2
    <3> DEFINE r == [w[2] EXCEPT !.high = <<>>, !.low = <<>>]
    <3>2. r \in RowType /\ r.high = <<>> /\ r.low = <<>>
      <4>1. \A v \in RowType, e \in Seq(Int) :
              LET u == [v EXCEPT !.high = e, !.low = e]
              IN  u \in RowType /\ u.high = e /\ u.low = e
        BY DEF RowType
      <4>2. <<>> \in Seq(Int)
        OBVIOUS
      <4> QED BY <3>1, <4>1, <4>2
    <3>3. rows = [w EXCEPT ![2] = r]
      BY <1>9 DEF Damaged
    <3> HIDE DEF r
    <3>4. /\ rows \in Seq(RowType) /\ Len(rows) = Len(w) /\ rows[2] = r
          /\ \A i \in 1 .. Len(w) : i # 2 => rows[i] = w[i]
      BY <1>5, <3>1, <3>2, <3>3
    <3>5. CASE Asked(Len(w)) < 2
      <4>1. \A i \in 1 .. Asked(Len(rows)) : rows[i] = w[i]
        BY <1>6, <3>4, <3>5
      <4> QED BY <1>6, <1>7, <3>4, <4>1
    <3>6. CASE Asked(Len(w)) >= 2
      <4> DEFINE a == Asked(Len(w))
      <4>1. bars = [i \in 1 .. a |-> Parsed(rows[a - i + 1])]
        BY <3>4, BarsOfRows
      <4>2. a - 1 \in 1 .. a /\ a - (a - 1) + 1 = 2
        BY <1>6, <3>6
      <4> HIDE DEF a, bars
      <4>3. bars[a - 1] = Parsed(r) /\ a - 1 \in DOMAIN bars
        BY <3>4, <4>1, <4>2
      <4>4. Parsed(r) \in ToSet(bars)
        BY <4>3 DEF ToSet
      <4>5. ~Sound(Parsed(r))
        BY <3>2, DamageShows
      <4> QED BY <1>1, <4>4, <4>5
    <3> QED BY <1>6, <3>5, <3>6
  <2> QED BY <1>6, <2>1, <2>2
<1>10. CASE Asked(Len(w)) > 1 /\ rows = Repeated(w)
  <2> DEFINE a == Asked(Len(w))
  <2>1. a \in 2 .. Len(w) /\ a - 1 \in 1 .. Len(w) /\ DOMAIN w = 1 .. Len(w)
    BY <1>5, <1>6, <1>10
  <2>2. w[a - 1] \in RowType
    BY <1>5, <2>1
  <2>3. rows = [w EXCEPT ![a] = w[a - 1]]
    BY <1>10 DEF Repeated
  <2>4. rows \in Seq(RowType) /\ Len(rows) = Len(w)
    BY <1>5, <2>1, <2>2, <2>3
  <2>5. bars = [i \in 1 .. a |-> Parsed(rows[a - i + 1])]
    BY <2>4, BarsOfRows
  <2> HIDE DEF a, bars
  <2>6. rows[a] = w[a - 1] /\ rows[a - 1] = w[a - 1]
    BY <2>1, <2>3
  <2>7. 1 \in 1 .. a /\ 2 \in 1 .. a /\ a - 1 + 1 = a /\ a - 2 + 1 = a - 1
    BY <2>1
  <2>8. bars[1] = Parsed(w[a - 1]) /\ bars[2] = Parsed(w[a - 1]) /\ Len(bars) = a
    <3>1. bars[1] = Parsed(rows[a]) /\ bars[2] = Parsed(rows[a - 1])
      BY <2>5, <2>7
    <3>2. Len(bars) = a
      BY <2>1, <2>5
    <3> QED BY <2>6, <3>1, <3>2
  <2>9. Parsed(w[a - 1]).ts \in Nat
    BY <2>2 DEF Parsed, RowType
  <2>10. bars[1].ts < bars[1 + 1].ts
    <3>1. 1 \in 1 .. Len(bars) - 1
      BY <2>1, <2>8
    <3> QED BY <1>1, <3>1
  <2> QED BY <2>8, <2>9, <2>10
<1>11. CASE rows = Cut(w)
  <2>1. \A i \in 1 .. Asked(Len(w)) - 1 : w[i] \in RowType
    BY <1>5, <1>6
  <2>2. /\ rows \in Seq(RowType)
        /\ Len(rows) = IF 1 <= Asked(Len(w)) - 1 THEN Asked(Len(w)) - 1 - 1 + 1 ELSE 0
        /\ \A i \in 1 .. Asked(Len(w)) - 1 - 1 + 1 : rows[i] = w[1 + i - 1]
    BY <1>6, <1>11, <2>1, SubSeqProperties DEF Cut
  <2>3. Len(rows) <= Len(w) /\ Asked(Len(rows)) <= Len(rows)
    BY <1>2, <1>6, <2>2 DEF Asked
  <2>4. \A i \in 1 .. Asked(Len(rows)) : rows[i] = w[i]
    <3> SUFFICES ASSUME NEW i \in 1 .. Asked(Len(rows)) PROVE rows[i] = w[i]
      OBVIOUS
    <3>1. i \in 1 .. Asked(Len(w)) - 1 - 1 + 1 /\ 1 + i - 1 = i
      BY <1>2, <1>6, <2>2, <2>3 DEF Asked
    <3> QED BY <2>2, <3>1
  <2> QED BY <1>7, <2>2, <2>3, <2>4
<1> QED BY <1>8, <1>9, <1>10, <1>11, <1>12 DEF w

-----------------------------------------------------------------------------
(* The invariant of the minute bars                                         *)

\* No two bars of a minute
OneOfAMinute(w) == \A a, b \in ToSet(w) : a.ts = b.ts => a = b

GoodWindow(w) == IsWindow(w) /\ OneOfAMinute(w)

\* What is cached is a part of the market.
WindowIsCached == cached # <<>> => GoodWindow(cached)

\* The session is made of bars of one day of the market, one of a minute, and has
\* those that are cached.
SessionAgrees ==
  /\ DOMAIN session = {"day", "bars", "other", "outside", "invalid"}
  /\ \A b \in session.bars : b \in made /\ InSession(b, session.day)
  /\ \A a, b \in session.bars : a.ts = b.ts => a = b
  /\ session.invalid = {}
  /\ \A t \in session.other : Day(t) # session.day
  /\ \A b \in ToSet(cached) : InSession(b, session.day) => b \in session.bars

\* The rows of a day, of which some may be torn
RowsRight(rows, d, broken) ==
  /\ \A r \in rows : (r = Torn(r.ts) /\ broken) \/ \E b \in made : r = RowToSave(b) /\ Day(b.ts) = d
  /\ \A q, r \in rows : q.ts = r.ts => q = r

FilesAgree == mishaps \in Nat /\ \A d \in Days : RowsRight(files[d], d, mishaps > 0)

\* If their save has not broken off, the files have the bars that are cached.
CacheIsSaved == whole => \A b \in ToSet(cached) : RowToSave(b) \in files[Day(b.ts)]

\* An answer that is safe is what the cached bars were analysed as.
AnswerAgrees ==
  answer.safe =>
    /\ cached # <<>> /\ Fresh(cached, minute) /\ answer.analysis.known
    /\ \E s : answer.analysis = Analyze(cached, YesterdayClose, s).analysis

\* All but the files
BarsInv ==
  /\ MarketIsSound /\ at \in 1 .. Len(Times)
  /\ WindowIsCached /\ SessionAgrees /\ AnswerAgrees

MinuteInv == BarsInv /\ FilesAgree /\ CacheIsSaved

\* Bars that ascend are of as many minutes.
LEMMA AscendingIsOne ==
  ASSUME NEW w \in Seq(Bars), Ascending(w)
  PROVE  OneOfAMinute(w)
<1>1. Len(w) \in Nat /\ DOMAIN w = 1 .. Len(w) /\ \A i \in 1 .. Len(w) : w[i].ts \in Nat
  <2>1. \A i \in 1 .. Len(w) : w[i] \in Bars
    OBVIOUS
  <2>2. \A b \in Bars : b.ts \in Nat
    BY DEF Bars
  <2> QED BY <2>1, <2>2
<1>2. ASSUME NEW i \in 1 .. Len(w), NEW j \in 1 .. Len(w), i < j PROVE w[i].ts < w[j].ts
  <2> DEFINE notLater == {k \in i + 1 .. Len(w) : w[k].ts <= w[i].ts}
  <2>1. ASSUME notLater # {} PROVE FALSE
    <3>1. notLater \subseteq Nat
      OBVIOUS
    <3>2. PICK x \in notLater : \A y \in notLater : x <= y
      <4> HIDE DEF notLater
      <4> QED BY <2>1, <3>1, LeastNumber
    <3>3. x - 1 \in 1 .. Len(w) - 1 /\ (x - 1) + 1 = x /\ x - 1 \in i .. Len(w) /\ x \in 1 .. Len(w)
      BY <1>1, <3>2
    <3>4. w[x - 1].ts < w[x].ts
      BY <3>3 DEF Ascending
    <3>5. x - 1 = i \/ w[i].ts < w[x - 1].ts
      <4>1. CASE x - 1 \in i + 1 .. Len(w)
        <5>1. x - 1 \notin notLater
          <6>1. ~(x <= x - 1)
            BY <3>3
          <6> HIDE DEF notLater
          <6> QED BY <3>2, <6>1
        <5>2. ~(w[x - 1].ts <= w[i].ts)
          BY <4>1, <5>1
        <5> QED BY <1>1, <3>3, <5>2
      <4> QED BY <3>3, <4>1
    <3>6. w[x].ts <= w[i].ts
      BY <3>2
    <3> QED BY <1>1, <3>3, <3>4, <3>5, <3>6
  <2>2. j \in i + 1 .. Len(w) /\ j \notin notLater
    BY <1>1, <1>2, <2>1
  <2> QED BY <1>1, <2>2
<1> SUFFICES ASSUME NEW a \in ToSet(w), NEW b \in ToSet(w), a.ts = b.ts PROVE a = b
  BY DEF OneOfAMinute
<1>3. PICK i \in 1 .. Len(w) : a = w[i]
  BY <1>1 DEF ToSet
<1>4. PICK j \in 1 .. Len(w) : b = w[j]
  BY <1>1 DEF ToSet
<1>5. ~(i < j) /\ ~(j < i)
  <2>1. ~(w[i].ts < w[j].ts) /\ ~(w[j].ts < w[i].ts)
    BY <1>1, <1>3, <1>4
  <2> QED BY <1>2, <2>1
<1> QED BY <1>1, <1>3, <1>4, <1>5

\* Every bar of a part of the market is one that there has been, and sound, and all
\* but the last are as they have stayed.
LEMMA WindowBars ==
  ASSUME MarketIsSound, NEW w, IsWindow(w)
  PROVE  /\ w \in Seq(Bars) /\ Len(w) > 0
         /\ \A b \in ToSet(w) : b \in made /\ b \in Bars /\ Sound(b) /\ Day(b.ts) \in Days
         /\ \A i \in 1 .. Len(w) - 1 : w[i] \in ToSet(traded)
<1>1. PICK n \in 1 .. Len(traded), k \in MinCount .. BarCount : \E b \in Versions(n) : w = LastN(View(n, b), k)
  BY DEF IsWindow
<1>2. PICK b \in Versions(n) : w = LastN(View(n, b), k)
  BY <1>1
<1>3. k \in Nat /\ k > 0 /\ Len(traded) \in Nat /\ DOMAIN traded = 1 .. Len(traded)
  <2>1. MinCount \in Nat \ {0}
    BY MinuteAssumption
  <2>2. BarCount \in Nat
    BY MinuteDataAssumption
  <2> QED BY <2>1, <2>2 DEF MarketIsSound
<1> DEFINE s == View(n, b)
           l == IF n > k THEN k ELSE n
<1>4. /\ s \in Seq(Bars) /\ Len(s) = n /\ n \in Nat
      /\ \A i \in 1 .. n - 1 : s[i] = traded[i]
      /\ \A i \in 1 .. n : s[i] \in made
  BY <1>3, ViewIs
<1>5. w = LastN(s, k)
  BY <1>2
<1> HIDE DEF s
<1>6. w \in Seq(Bars) /\ Len(w) = l /\ \A i \in 1 .. l : w[i] = s[n - l + i]
  BY <1>3, <1>4, <1>5, LastIs
<1>7. l \in 1 .. n
  BY <1>3, <1>4
<1> HIDE DEF l
<1>8. ASSUME NEW c \in ToSet(w) PROVE c \in made /\ c \in Bars /\ Sound(c) /\ Day(c.ts) \in Days
  <2>1. PICK i \in 1 .. l : c = w[i]
    BY <1>6, <1>8 DEF ToSet
  <2>2. n - l + i \in 1 .. n /\ c = s[n - l + i]
    BY <1>4, <1>6, <1>7, <2>1
  <2> QED BY <1>4, <2>2 DEF MarketIsSound
<1>9. ASSUME NEW i \in 1 .. Len(w) - 1 PROVE w[i] \in ToSet(traded)
  <2>1. n - l + i \in 1 .. n - 1 /\ i \in 1 .. l /\ n - l + i \in 1 .. Len(traded)
    BY <1>3, <1>4, <1>6, <1>7
  <2>2. w[i] = traded[n - l + i]
    BY <1>4, <1>6, <2>1
  <2> QED BY <1>3, <2>1, <2>2 DEF ToSet
<1> QED BY <1>6, <1>7, <1>8, <1>9

\* What an outcome caches, saves and calls safe
OutcomeRight(o) ==
  /\ o.saves => o.bars = o.cache /\ GoodWindow(o.cache)
  /\ ~o.saves => o.cache = cached
  /\ o.safe => o.bars = o.cache /\ o.cache # <<>> /\ Fresh(o.cache, minute)

LEMMA RefusedIsRight ==
  ASSUME NEW bars
  PROVE  OutcomeRight(Refused(bars))
<1>1. Refused(bars).cache = cached /\ ~Refused(bars).saves /\ ~Refused(bars).safe
  BY DEF Refused, Unchanged
<1> QED BY <1>1 DEF OutcomeRight

LEMMA FetchedIsRight ==
  ASSUME NEW bars, bars # <<>> /\ Fresh(bars, minute) => GoodWindow(bars)
  PROVE  OutcomeRight(Fetched(bars))
<1>1. CASE bars # <<>> /\ Fresh(bars, minute) /\ ~Regressed(bars)
  <2>1. /\ Accepted(bars).cache = bars /\ Accepted(bars).bars = bars /\ Accepted(bars).saves
        /\ Fetched(bars) = Accepted(bars)
    BY <1>1 DEF Accepted, Fetched
  <2> QED BY <1>1, <2>1 DEF OutcomeRight
<1>2. CASE ~(bars # <<>> /\ Fresh(bars, minute) /\ ~Regressed(bars))
  <2>1. \E x : Fetched(bars) = Refused(x)
    BY <1>2 DEF Fetched
  <2> QED BY <2>1, RefusedIsRight
<1> QED BY <1>1, <1>2

LEMMA ReusedIsRight == OutcomeRight(Reused)
<1>1. ASSUME NEW safe \in BOOLEAN
      PROVE  /\ Unchanged(cached, safe).cache = cached /\ Unchanged(cached, safe).bars = cached
             /\ ~Unchanged(cached, safe).saves /\ (Unchanged(cached, safe).safe => safe)
  BY DEF Unchanged
<1> DEFINE safe == cached # <<>> /\ Fresh(cached, minute)
<1>2. safe \in BOOLEAN /\ Reused = Unchanged(cached, safe)
  BY DEF Reused, Fresh
<1>3. /\ Reused.cache = cached /\ Reused.bars = cached /\ ~Reused.saves
      /\ Reused.safe => safe
  <2> HIDE DEF safe
  <2> QED BY <1>1, <1>2
<1> QED BY <1>3 DEF OutcomeRight

\* So are the outcomes of all that the broker may answer.
LEMMA AnswersAreRight ==
  ASSUME MarketIsSound, NEW rows \in Rows
  PROVE  OutcomeRight(Fetched(GetMinuteBars(rows)))
<1> DEFINE bars == GetMinuteBars(rows)
<1>1. ASSUME bars # <<>>, Fresh(bars, minute) PROVE GoodWindow(bars)
  <2>1. IsWindow(bars)
    BY <1>1, FreshIsWindow
  <2>2. bars \in Seq(Bars)
    BY <2>1, WindowBars
  <2>3. Ascending(bars)
    BY <1>1 DEF Fresh
  <2> HIDE DEF bars
  <2> QED BY <2>1, <2>2, <2>3, AscendingIsOne DEF GoodWindow
<1> QED BY <1>1, FetchedIsRight

\* A session with other bars and other counts.
LEMMA SessionUpdated ==
  ASSUME NEW s, DOMAIN s = {"day", "bars", "other", "outside", "invalid"},
         NEW bars, NEW other, NEW outside, NEW invalid
  PROVE  LET new == [s EXCEPT !.bars = bars, !.other = other, !.outside = outside, !.invalid = invalid]
         IN  /\ DOMAIN new = DOMAIN s /\ new.day = s.day
             /\ new.bars = bars /\ new.other = other /\ new.invalid = invalid
OBVIOUS

\* A session stays one of the market's when bars of the market are merged into it,
\* and these are in it then, instead of what it had of their minutes.
LEMMA MergedAgrees ==
  ASSUME SessionAgrees, made' = made, NEW bars, NEW day, OneOfAMinute(bars), cached' = bars,
         \A b \in ToSet(bars) : b \in made /\ Sound(b), session' = Merged(bars, day)
  PROVE  SessionAgrees'
<1> DEFINE refused(r) == {b \in ToSet(bars) : Refusal(b, day) = r}
           old == IF StartsAnew(day) THEN [NoSession EXCEPT !.day = day] ELSE [session EXCEPT !.day = day]
<1>1. /\ DOMAIN old = {"day", "bars", "other", "outside", "invalid"} /\ old.day = day
      /\ \A b \in old.bars : b \in made /\ InSession(b, day)
      /\ \A a, b \in old.bars : a.ts = b.ts => a = b
      /\ old.invalid = {} /\ \A t \in old.other : Day(t) # day
  <2>1. CASE StartsAnew(day)
    BY <2>1 DEF NoSession
  <2>2. CASE ~StartsAnew(day)
    <3>1. session.day = day
      BY <2>2 DEF StartsAnew
    <3>2. /\ DOMAIN old = DOMAIN session /\ old.day = day /\ old.bars = session.bars
          /\ old.other = session.other /\ old.invalid = session.invalid
      BY <2>2 DEF SessionAgrees
    <3> HIDE DEF old
    <3> QED BY <3>1, <3>2 DEF SessionAgrees
  <2> QED BY <2>1, <2>2
<1>2. session' = [old EXCEPT
         !.bars    = {b \in @ : \A n \in refused("") : n.ts # b.ts} \cup refused(""),
         !.other   = @ \cup {b.ts : b \in refused("OTHER_DATE")},
         !.outside = @ \cup {b.ts : b \in refused("OUTSIDE_MARKET")},
         !.invalid = @ \cup {b.ts : b \in refused("INVALID_OHLC")}]
  BY DEF Merged
<1>3. refused("INVALID_OHLC") = {}
  BY DEF Refusal
<1>4. /\ \A b \in refused("") : b \in made /\ InSession(b, day)
      /\ \A b \in ToSet(bars) : InSession(b, day) => b \in refused("")
  BY DEF Refusal, InSession
<1>5. \A b \in refused("OTHER_DATE") : Day(b.ts) # day
  BY DEF Refusal
<1>6. \A a, b \in refused("") : a.ts = b.ts => a = b
  BY DEF OneOfAMinute
<1> HIDE DEF old, refused
<1> DEFINE kept == {b \in old.bars : \A n \in refused("") : n.ts # b.ts} \cup refused("")
           other == old.other \cup {b.ts : b \in refused("OTHER_DATE")}
           outside == old.outside \cup {b.ts : b \in refused("OUTSIDE_MARKET")}
           invalid == old.invalid \cup {b.ts : b \in refused("INVALID_OHLC")}
<1>7. /\ DOMAIN session' = {"day", "bars", "other", "outside", "invalid"} /\ session'.day = day
      /\ session'.bars = kept /\ session'.other = other /\ session'.invalid = invalid
  <2>1. session' = [old EXCEPT !.bars = kept, !.other = other, !.outside = outside, !.invalid = invalid]
    BY <1>2
  <2> HIDE DEF kept, other, outside, invalid
  <2> QED BY <1>1, <2>1, SessionUpdated
<1>8. /\ \A b \in kept : b \in made /\ InSession(b, day)
      /\ \A a, b \in kept : a.ts = b.ts => a = b
      /\ \A b \in ToSet(bars) : InSession(b, day) => b \in kept
      /\ invalid = {} /\ \A t \in other : Day(t) # day
  BY <1>1, <1>3, <1>4, <1>5, <1>6
<1> HIDE DEF kept, other, outside, invalid
<1> QED BY <1>7, <1>8 DEF SessionAgrees, InSession, Day

\* What is saved are the bars.
LEMMA RowIsOf ==
  ASSUME NEW b \in Bars
  PROVE  RowToSave(b).ts = b.ts /\ b.ts \in Nat
BY DEF RowToSave, Bars

\* The rows of a day stay right when bars are saved.
LEMMA SavedDayRight ==
  ASSUME MarketIsSound, NEW d \in Days, FilesAgree, NEW bars,
         \A b \in ToSet(bars) : b \in made, OneOfAMinute(bars)
  PROVE  RowsRight(SavedDay(bars, d), d, mishaps > 0)
<1> DEFINE new == NewOf(bars, d)
           rows == {RowToSave(n) : n \in new}
           older == {r \in files[d] : \A n \in new : n.ts # r.ts}
<1>1. /\ \A r \in older : (r = Torn(r.ts) /\ mishaps > 0) \/ \E b \in made : r = RowToSave(b) /\ Day(b.ts) = d
      /\ \A q, r \in older : q.ts = r.ts => q = r
  BY DEF FilesAgree, RowsRight
<1>2. /\ \A n \in new : n \in made /\ Day(n.ts) = d /\ RowToSave(n).ts = n.ts
      /\ \A m, n \in new : m.ts = n.ts => m = n
  BY RowIsOf DEF NewOf, OneOfAMinute, MarketIsSound
<1>3. SavedDay(bars, d) = older \cup rows
  BY DEF SavedDay
<1> HIDE DEF new
<1>4. /\ \A r \in rows : \E b \in made : r = RowToSave(b) /\ Day(b.ts) = d
      /\ \A q, r \in rows : q.ts = r.ts => q = r
      /\ \A q \in older, r \in rows : q.ts # r.ts
  BY <1>2
<1> HIDE DEF older, rows
<1>5. \A q, r \in older \cup rows : q.ts = r.ts => q = r
  BY <1>1, <1>4
<1> QED BY <1>1, <1>3, <1>4, <1>5 DEF RowsRight

\* Days are numbers.
LEMMA DayIsNumber ==
  ASSUME NEW t \in Nat
  PROVE  Day(t) \in Int
<1>1. ASSUME NEW d \in Nat \ {0} PROVE t \div d \in Int
  OBVIOUS
<1>2. DayLength \in Nat \ {0}
  BY MinuteDataAssumption
<1> QED BY <1>1, <1>2 DEF Day

LEMMA DaysAreNumbers == Days \subseteq Int
<1> SUFFICES ASSUME NEW d \in Days PROVE d \in Int
  OBVIOUS
<1>1. PICK t \in ToSet(Times) \cup {b.ts : b \in ToSet(Evening)} : d = Day(t)
  BY DEF Days
<1>2. t \in Nat
  <2>1. CASE t \in ToSet(Times)
    BY <2>1, MinuteDataAssumption DEF ToSet
  <2>2. CASE t \in {b.ts : b \in ToSet(Evening)}
    <3>1. \A b \in ToSet(Evening) : b \in Bars
      BY MinuteDataAssumption DEF ToSet
    <3> QED BY <2>2, <3>1 DEF Bars
  <2> QED BY <1>1, <2>1, <2>2
<1> QED BY <1>1, <1>2, DayIsNumber

\* A save that breaks off leaves right rows and a torn one.
LEMMA BrokenIsRight ==
  ASSUME MarketIsSound, FilesAgree, NEW bars,
         \A b \in ToSet(bars) : b \in made, OneOfAMinute(bars),
         NEW f \in BrokenSaves(bars), NEW e \in Days
  PROVE  RowsRight(f[e], e, TRUE)
<1>1. PICK d \in {Day(b.ts) : b \in ToSet(bars)} : \E t \in CutAt : f \in BrokenAt(bars, d, t)
  BY DEF BrokenSaves
<1>2. PICK t \in CutAt : f \in BrokenAt(bars, d, t)
  BY <1>1
<1>3. d \in Days /\ d \in Int /\ e \in Int /\ t \in Nat
  <2>1. d \in Days
    BY <1>1 DEF MarketIsSound
  <2>2. CutAt \subseteq Nat
    BY MinuteDataAssumption
  <2> QED BY <2>1, <2>2, DaysAreNumbers
<1>4. PICK rest \in Remains(d, t) : f = Broken(bars, d, FirstRows(bars, d, t) \cup rest)
  BY <1>2 DEF BrokenAt
<1>5. PICK torn \in {{}, {Torn(t)}, {Torn(NoTime)}}, old \in SUBSET {r \in files[d] : r.ts = NoTime} :
        rest = old \cup torn
  BY DEF Remains
<1> DEFINE first == {r \in SavedDay(bars, d) : r.ts \in 0 .. t - 1}
           left == first \cup rest
<1>6. f[e] = IF e < d THEN SavedDay(bars, e) ELSE IF e > d THEN files[e] ELSE left
  <2> HIDE DEF left
  <2> QED BY <1>4 DEF Broken, FirstRows, left
<1>7. \A c \in Days : RowsRight(SavedDay(bars, c), c, TRUE) /\ RowsRight(files[c], c, TRUE)
  BY SavedDayRight DEF RowsRight, FilesAgree
<1>8. CASE e < d \/ e > d
  BY <1>3, <1>6, <1>7, <1>8
<1>9. CASE ~(e < d) /\ ~(e > d)
  <2>1. e = d /\ f[e] = first \cup old \cup torn
    BY <1>3, <1>5, <1>6, <1>9
  <2>2. \A r \in old : r.ts = NoTime /\ r = Torn(NoTime)
    <3> SUFFICES ASSUME NEW r \in old PROVE r.ts = NoTime /\ r = Torn(NoTime)
      OBVIOUS
    <3>1. r \in files[d] /\ r.ts = NoTime
      OBVIOUS
    <3>2. r = Torn(r.ts) \/ \E b \in made : r = RowToSave(b)
      BY <1>3, <1>7, <3>1 DEF RowsRight
    <3>3. \A b \in made : RowToSave(b).ts # NoTime
      BY RowIsOf DEF MarketIsSound, NoTime
    <3> QED BY <3>1, <3>2, <3>3
  <2>3. \A r \in torn : r = Torn(r.ts) /\ (r.ts = t \/ r.ts = NoTime) /\ \A q \in torn : q = r
    BY DEF Torn
  <2>4. \A r \in first : r.ts # t /\ r.ts # NoTime
    BY <1>3 DEF NoTime
  <2>5. /\ \A r \in first : r = Torn(r.ts) \/ \E b \in made : r = RowToSave(b) /\ Day(b.ts) = d
        /\ \A q, r \in first : q.ts = r.ts => q = r
    BY <1>3, <1>7 DEF RowsRight
  <2>6. t # NoTime
    BY <1>3 DEF NoTime
  <2> HIDE DEF first
  <2>7. \A q, r \in first \cup old \cup torn : q.ts = r.ts => q = r
    BY <2>2, <2>3, <2>4, <2>5, <2>6
  <2>8. \A r \in first \cup old \cup torn : r = Torn(r.ts) \/ \E b \in made : r = RowToSave(b) /\ Day(b.ts) = d
    BY <2>2, <2>3, <2>5
  <2> QED BY <2>1, <2>7, <2>8 DEF RowsRight
<1> QED BY <1>8, <1>9

\* What a poll remembers, whatever it has found out, keeps all but the files.
LEMMA RememberKeeps ==
  ASSUME BarsInv, NEW o, OutcomeRight(o), Remember(o, Told(o))
  PROVE  BarsInv'
<1>1. /\ MarketIsSound /\ at \in 1 .. Len(Times) /\ WindowIsCached /\ SessionAgrees
      /\ traded' = traded /\ made' = made /\ at' = at /\ minute' = minute
      /\ cached' = o.cache /\ session' = SessionAfter(o.cache)
      /\ answer' = Told(o).asked
  BY DEF BarsInv, Remember, minute
<1>2. MarketIsSound'
  BY <1>1 DEF MarketIsSound, Days, Day
<1>3. o.cache # <<>> => GoodWindow(o.cache)
  BY <1>1 DEF OutcomeRight, WindowIsCached
<1>4. WindowIsCached'
  BY <1>1, <1>3 DEF WindowIsCached, GoodWindow, OneOfAMinute, IsWindow, Versions, View
<1>5. SessionAgrees'
  <2>1. CASE o.cache = <<>>
    <3>1. session' = session /\ ToSet(cached') = {}
      BY <1>1, <2>1 DEF SessionAfter, ToSet
    <3> QED BY <1>1, <3>1 DEF SessionAgrees, InSession, Day
  <2>2. CASE o.cache # <<>>
    <3>1. OneOfAMinute(o.cache) /\ \A b \in ToSet(o.cache) : b \in made /\ Sound(b)
      BY <1>1, <1>3, <2>2, WindowBars DEF GoodWindow
    <3>2. session' = Merged(o.cache, Day(minute))
      BY <1>1, <2>2 DEF SessionAfter
    <3> QED BY <1>1, <3>1, <3>2, MergedAgrees
  <2> QED BY <2>1, <2>2
<1>6. AnswerAgrees'
  <2> SUFFICES ASSUME answer'.safe
               PROVE  /\ cached' # <<>> /\ Fresh(cached', minute) /\ answer'.analysis.known
                      /\ \E s : answer'.analysis = Analyze(cached', YesterdayClose, s).analysis
    BY <1>1 DEF AnswerAgrees
  <2>1. o.bars # <<>>
    <3> SUFFICES ASSUME o.bars = <<>> PROVE FALSE
      OBVIOUS
    <3>1. answer' = [NoAnswer EXCEPT !.asked = TRUE]
      BY <1>1 DEF Told
    <3> QED BY <3>1 DEF NoAnswer
  <2> DEFINE a == Analyze(o.bars, YesterdayClose, said)
  <2>2. answer' = [asked |-> TRUE, safe |-> o.safe /\ a.analysis.known, analysis |-> a.analysis]
    BY <1>1, <2>1 DEF Told, Answered
  <2> HIDE DEF a
  <2>3. answer'.analysis = a.analysis
    BY <2>2
  <2>4. answer'.safe = (o.safe /\ a.analysis.known)
    BY <2>2
  <2>5. o.safe /\ answer'.analysis.known
    BY <2>3, <2>4
  <2>6. o.bars = o.cache /\ o.cache # <<>> /\ Fresh(o.cache, minute)
    BY <2>5 DEF OutcomeRight
  <2>7. answer'.analysis = Analyze(cached', YesterdayClose, said).analysis
    BY <1>1, <2>3, <2>6 DEF a
  <2> QED BY <1>1, <2>5, <2>6, <2>7
<1> QED BY <1>1, <1>2, <1>4, <1>5, <1>6 DEF BarsInv

\* The files stay right while nothing is saved, and the market goes on.
LEMMA FilesStay ==
  ASSUME FilesAgree, made \subseteq made', files' = files, mishaps' \in Nat, mishaps' >= mishaps
  PROVE  FilesAgree'
<1>1. mishaps > 0 => mishaps' > 0
  BY DEF FilesAgree
<1> QED BY <1>1 DEF FilesAgree, RowsRight, Days, Day

\* A poll, whatever it has found out, keeps the invariant.
LEMMA ConcludeKeeps ==
  ASSUME MinuteInv, NEW o, OutcomeRight(o), Conclude(o)
  PROVE  MinuteInv'
<1>1. /\ BarsInv /\ FilesAgree /\ CacheIsSaved /\ MarketIsSound
      /\ made' = made /\ cached' = o.cache /\ mishaps' = mishaps
      /\ files' = IF o.saves THEN SavedRows(o.bars) ELSE files
      /\ whole' = (whole \/ o.saves)
  BY DEF MinuteInv, BarsInv, Conclude, Remember
<1>2. BarsInv'
  BY <1>1, RememberKeeps DEF Conclude
<1>3. CASE o.saves
  <2>1. /\ files' = SavedRows(o.bars) /\ cached' = o.bars /\ IsWindow(o.bars) /\ OneOfAMinute(o.bars)
    BY <1>1, <1>3 DEF OutcomeRight, GoodWindow
  <2>2. \A b \in ToSet(o.bars) : b \in made /\ Day(b.ts) \in Days
    BY <1>1, <2>1, WindowBars
  <2>3. \A d \in Days : files'[d] = SavedDay(o.bars, d)
    BY <2>1 DEF SavedRows
  <2>4. ASSUME NEW d \in Days PROVE RowsRight(files'[d], d, mishaps > 0)
    BY <1>1, <2>1, <2>2, <2>3, SavedDayRight
  <2>5. FilesAgree'
    BY <1>1, <2>4 DEF FilesAgree, RowsRight, Days, Day
  <2>6. ASSUME NEW b \in ToSet(cached') PROVE RowToSave(b) \in files'[Day(b.ts)]
    <3>1. b \in ToSet(o.bars) /\ Day(b.ts) \in Days
      BY <2>1, <2>2, <2>6
    <3>2. RowToSave(b) \in SavedDay(o.bars, Day(b.ts))
      BY <3>1 DEF SavedDay, NewOf
    <3> QED BY <2>3, <3>1, <3>2
  <2>7. CacheIsSaved'
    BY <2>6 DEF CacheIsSaved, Day
  <2> QED BY <1>2, <2>5, <2>7 DEF MinuteInv
<1>4. CASE ~o.saves
  <2>1. files' = files /\ cached' = cached /\ (whole' => whole)
    BY <1>1, <1>4 DEF OutcomeRight, CacheIsSaved
  <2>2. FilesAgree'
    BY <1>1, <2>1 DEF FilesAgree, RowsRight, Days, Day
  <2>3. CacheIsSaved'
    BY <1>1, <2>1 DEF CacheIsSaved, Day
  <2> QED BY <1>2, <2>2, <2>3 DEF MinuteInv
<1> QED BY <1>3, <1>4

\* The files after a save that broke off
LEMMA BrokenKeepsFiles ==
  ASSUME MinuteInv, NEW o, OutcomeRight(o), o.saves, files' \in BrokenSaves(o.bars), made' = made, Mishap
  PROVE  FilesAgree'
<1>1. /\ MarketIsSound /\ FilesAgree /\ mishaps \in Nat /\ mishaps' = mishaps + 1
      /\ IsWindow(o.bars) /\ OneOfAMinute(o.bars)
  BY DEF MinuteInv, BarsInv, FilesAgree, Mishap, OutcomeRight, GoodWindow
<1>2. \A b \in ToSet(o.bars) : b \in made
  BY <1>1, WindowBars
<1>3. \A e \in Days : RowsRight(files'[e], e, TRUE)
  BY <1>1, <1>2, BrokenIsRight
<1>4. mishaps' \in Nat /\ mishaps' > 0
  BY <1>1
<1> QED BY <1>3, <1>4 DEF FilesAgree, RowsRight, Days, Day

\* No answer is not a safe one.
LEMMA NoAnswerAgrees ==
  ASSUME answer' = NoAnswer
  PROVE  AnswerAgrees'
BY DEF NoAnswer, AnswerAgrees

LEMMA SaveFailsKeeps ==
  ASSUME MinuteInv, SaveFails
  PROVE  MinuteInv'
<1>1. PICK o \in Breaking : Remember(o, Told(o)) /\ files' \in BrokenSaves(o.bars)
  BY DEF SaveFails
<1>2. PICK rows \in Rows : o = Fetched(GetMinuteBars(rows))
  BY <1>1 DEF Breaking
<1>3. OutcomeRight(o) /\ o.saves /\ made' = made /\ whole' = FALSE /\ Mishap
  BY <1>1, <1>2, AnswersAreRight DEF MinuteInv, BarsInv, Breaking, Remember, SaveFails
<1>4. BarsInv'
  BY <1>1, <1>3, RememberKeeps DEF MinuteInv
<1>5. FilesAgree'
  BY <1>1, <1>3, BrokenKeepsFiles
<1>6. CacheIsSaved'
  BY <1>3 DEF CacheIsSaved
<1> QED BY <1>4, <1>5, <1>6 DEF MinuteInv

\* The program that has forgotten everything knows nothing wrong.
LEMMA ForgottenKeeps ==
  ASSUME MinuteInv, Forgotten
  PROVE  BarsInv' /\ CacheIsSaved'
<1>1. /\ MarketIsSound /\ at \in 1 .. Len(Times)
      /\ traded' = traded /\ made' = made /\ at' = at
      /\ cached' = <<>> /\ session' = NoSession /\ answer' = NoAnswer
  BY DEF MinuteInv, BarsInv, Forgotten
<1>2. MarketIsSound' /\ WindowIsCached'
  BY <1>1 DEF MarketIsSound, WindowIsCached, Days, Day
<1>3. ToSet(cached') = {}
  BY <1>1 DEF ToSet
<1>4. SessionAgrees' /\ CacheIsSaved'
  BY <1>1, <1>3 DEF SessionAgrees, NoSession, CacheIsSaved
<1> QED BY <1>1, <1>2, <1>4, NoAnswerAgrees DEF BarsInv

LEMMA StartsAgainKeeps ==
  ASSUME MinuteInv, StartsAgain
  PROVE  MinuteInv'
<1>1. BarsInv' /\ CacheIsSaved'
  BY ForgottenKeeps DEF StartsAgain
<1>2. /\ FilesAgree /\ mishaps \in Nat /\ made' = made /\ files' = files /\ mishaps' = mishaps + 1
  BY DEF MinuteInv, FilesAgree, StartsAgain, Forgotten, Mishap
<1>3. FilesAgree'
  BY <1>2, FilesStay
<1> QED BY <1>1, <1>3 DEF MinuteInv

LEMMA KilledWhileSavingKeeps ==
  ASSUME MinuteInv, KilledWhileSaving
  PROVE  MinuteInv'
<1>1. BarsInv' /\ CacheIsSaved'
  BY ForgottenKeeps DEF KilledWhileSaving
<1>2. PICK o \in Breaking : files' \in BrokenSaves(o.bars)
  BY DEF KilledWhileSaving
<1>3. PICK rows \in Rows : o = Fetched(GetMinuteBars(rows))
  BY <1>2 DEF Breaking
<1>4. OutcomeRight(o) /\ o.saves /\ made' = made /\ Mishap
  BY <1>2, <1>3, AnswersAreRight DEF MinuteInv, BarsInv, Breaking, Forgotten, KilledWhileSaving
<1>5. FilesAgree'
  BY <1>2, <1>4, BrokenKeepsFiles
<1> QED BY <1>1, <1>5 DEF MinuteInv

\* The part of the market that was one stays one when the market goes on, with a
\* bar or a trade.
LEMMA WindowStays ==
  ASSUME MarketIsSound, traded' \in Seq(Bars), Len(traded') >= Len(traded), made \subseteq made',
         \A i \in 1 .. Len(traded) - 1 : traded'[i] = traded[i],
         traded'[Len(traded)].ts = traded[Len(traded)].ts,
         NEW w, IsWindow(w)
  PROVE  IsWindow(w)'
<1>1. PICK n \in 1 .. Len(traded), k \in MinCount .. BarCount : \E b \in Versions(n) : w = LastN(View(n, b), k)
  BY DEF IsWindow
<1>2. PICK b \in Versions(n) : w = LastN(View(n, b), k)
  BY <1>1
<1>3. traded \in Seq(Bars) /\ Len(traded) \in Nat /\ Len(traded') \in Nat /\ n \in 1 .. Len(traded')
  BY DEF MarketIsSound
<1>4. SubSeq(traded, 1, n - 1) = SubSeq(traded', 1, n - 1)
  <2>1. n - 1 \in Int /\ \A i \in 1 .. n - 1 : traded[i] \in Bars /\ traded'[i] = traded[i]
    BY <1>1, <1>3
  <2>2. /\ SubSeq(traded, 1, n - 1) \in Seq(Bars) /\ Len(SubSeq(traded, 1, n - 1)) = n - 1
        /\ \A i \in 1 .. n - 1 : SubSeq(traded, 1, n - 1)[i] = traded[i]
    BY <1>3, <2>1, SubSeqProperties
  <2>3. /\ SubSeq(traded', 1, n - 1) \in Seq(Bars) /\ Len(SubSeq(traded', 1, n - 1)) = n - 1
        /\ \A i \in 1 .. n - 1 : SubSeq(traded', 1, n - 1)[i] = traded'[i]
    BY <1>3, <2>1, SubSeqProperties
  <2> QED BY <2>1, <2>2, <2>3, SeqEqual
<1>5. b \in made' /\ b.ts = traded'[n].ts
  <2>1. n = Len(traded) \/ n \in 1 .. Len(traded) - 1
    BY <1>3
  <2> QED BY <1>2, <2>1 DEF Versions
<1>6. b \in Versions(n)' /\ w = LastN(View(n, b)', k)
  BY <1>2, <1>4, <1>5 DEF Versions, View
<1> QED BY <1>3, <1>6 DEF IsWindow

\* The bar of a minute begins as a sound one,
LEMMA BarOfIs ==
  ASSUME MarketIsSound, NEW k \in Kinds, NEW t \in Nat
  PROVE  BarOf(k, t) \in Bars /\ Sound(BarOf(k, t)) /\ BarOf(k, t).ts = t
<1>1. /\ k \in [high : Nat, low : Nat, close : Nat, volume : Nat]
      /\ 0 < k.low /\ k.low <= k.close /\ k.close <= k.high
  BY MinuteDataAssumption
<1>2. Last(traded) \in Bars
  BY DEF MarketIsSound, Last
<1>3. k.volume + (IF Day(Last(traded).ts) = Day(t) THEN Last(traded).acc ELSE 0) \in Nat
  BY <1>1, <1>2 DEF Bars
<1> DEFINE acc == k.volume + (IF Day(Last(traded).ts) = Day(t) THEN Last(traded).acc ELSE 0)
<1>4. BarOf(k, t) = [ts |-> t, high |-> k.high, low |-> k.low, close |-> k.close,
                     volume |-> k.volume, acc |-> acc]
  BY DEF BarOf
<1> HIDE DEF acc
<1>5. acc \in Nat
  BY <1>3 DEF acc
<1> QED BY <1>1, <1>4, <1>5 DEF Bars, Sound

\* and every trade leaves it one.
LEMMA MovedIs ==
  ASSUME NEW b \in Bars, Sound(b), NEW trade \in Trades
  PROVE  Moved(b, trade) \in Bars /\ Sound(Moved(b, trade)) /\ Moved(b, trade).ts = b.ts
<1>1. trade.price \in Nat \ {0} /\ trade.volume \in Nat
  BY MinuteDataAssumption
<1> DEFINE p == trade.price
           h == IF p > b.high THEN p ELSE b.high
           l == IF p < b.low THEN p ELSE b.low
<1>2. /\ {b.ts, b.high, b.low, b.close, b.volume, b.acc} \subseteq Nat
      /\ 0 < b.low /\ b.low <= b.close /\ b.close <= b.high
  BY DEF Bars, Sound
<1>3. Moved(b, trade) = [ts |-> b.ts, high |-> h, low |-> l, close |-> p,
                         volume |-> b.volume + trade.volume, acc |-> b.acc + trade.volume]
  <2> DEFINE m == Moved(b, trade)
  <2>1. m = [b EXCEPT !.high = IF trade.price > @ THEN trade.price ELSE @, !.low = IF trade.price < @ THEN trade.price ELSE @,
                      !.close = trade.price, !.volume = @ + trade.volume, !.acc = @ + trade.volume]
    BY DEF Moved
  <2>2. /\ DOMAIN m = {"ts", "high", "low", "close", "volume", "acc"}
        /\ m.ts = b.ts /\ m.high = h /\ m.low = l /\ m.close = p
        /\ m.volume = b.volume + trade.volume /\ m.acc = b.acc + trade.volume
    BY <2>1 DEF Bars
  <2>3. m = [f \in DOMAIN m |-> m[f]]
    BY <2>1
  <2> HIDE DEF m, h, l, p
  <2>4. m = [ts |-> b.ts, high |-> h, low |-> l, close |-> p,
             volume |-> b.volume + trade.volume, acc |-> b.acc + trade.volume]
    BY <2>2, <2>3
  <2> QED BY <2>4 DEF m
<1>4. h \in Nat /\ l \in Nat /\ 0 < l /\ l <= p /\ p <= h
  BY <1>1, <1>2
<1> HIDE DEF h, l
<1>5. b.volume + trade.volume \in Nat /\ b.acc + trade.volume \in Nat /\ p \in Nat /\ b.ts \in Nat
  BY <1>1, <1>2
<1> QED BY <1>3, <1>4, <1>5 DEF Bars, Sound

\* What is kept stays right when the market has got another bar or version of one.
LEMMA MarketGoesOn ==
  ASSUME MinuteInv, NEW b \in Bars, Sound(b), Day(b.ts) \in Days,
         made' = made \cup {b}, MarketIsSound', at' \in 1 .. Len(Times),
         \A w : IsWindow(w) => IsWindow(w)',
         UNCHANGED <<cached, session, files, whole, mishaps>>, AnswerAgrees'
  PROVE  MinuteInv'
<1>1. /\ WindowIsCached /\ SessionAgrees /\ FilesAgree /\ CacheIsSaved
      /\ cached' = cached /\ session' = session /\ files' = files /\ whole' = whole /\ mishaps' = mishaps
  BY DEF MinuteInv, BarsInv
<1>2. WindowIsCached'
  BY <1>1 DEF WindowIsCached, GoodWindow, OneOfAMinute
<1>3. SessionAgrees'
  BY <1>1 DEF SessionAgrees, InSession, Day
<1>4. FilesAgree'
  BY <1>1, FilesStay DEF FilesAgree
<1>5. CacheIsSaved'
  BY <1>1 DEF CacheIsSaved, Day
<1> QED BY <1>2, <1>3, <1>4, <1>5 DEF MinuteInv, BarsInv

\* A minute of the run is of one of its days.
LEMMA TimesAreOfDays ==
  ASSUME NEW i \in 1 .. Len(Times)
  PROVE  Times[i] \in Nat /\ Day(Times[i]) \in Days
<1>1. Times \in Seq(Nat)
  BY MinuteDataAssumption
<1>2. Times[i] \in ToSet(Times)
  BY <1>1 DEF ToSet
<1> QED BY <1>1, <1>2 DEF Days

LEMMA TickKeepsMinutes ==
  ASSUME MinuteInv, Tick
  PROVE  MinuteInv'
<1>1. /\ MarketIsSound /\ at \in 1 .. Len(Times) /\ Times \in Seq(Nat) /\ at < Len(Times) /\ at' = at + 1
      /\ UNCHANGED <<cached, session, files, whole, mishaps>> /\ answer' = NoAnswer
  BY MinuteDataAssumption DEF MinuteInv, BarsInv, Tick
<1>2. at' \in 1 .. Len(Times) /\ at + 1 \in 1 .. Len(Times) /\ AnswerAgrees'
  BY <1>1, NoAnswerAgrees
<1>3. CASE UNCHANGED <<traded, made>>
  <2>1. MarketIsSound' /\ WindowIsCached'
    BY <1>1, <1>3 DEF MinuteInv, BarsInv, MarketIsSound, WindowIsCached, GoodWindow, OneOfAMinute, IsWindow,
                      Versions, View, Days, Day
  <2>2. SessionAgrees' /\ FilesAgree' /\ CacheIsSaved'
    BY <1>1, <1>3 DEF MinuteInv, BarsInv, SessionAgrees, InSession, FilesAgree, RowsRight, CacheIsSaved, Days, Day
  <2> QED BY <1>2, <2>1, <2>2 DEF MinuteInv, BarsInv
<1>4. CASE \E k \in Kinds : Begin(BarOf(k, Times[at + 1]))
  <2>1. PICK k \in Kinds : Begin(BarOf(k, Times[at + 1]))
    BY <1>4
  <2> DEFINE b == BarOf(k, Times[at + 1])
  <2>2. b \in Bars /\ Sound(b) /\ Day(b.ts) \in Days
    BY <1>1, <1>2, BarOfIs, TimesAreOfDays
  <2>3. traded' = Append(traded, b) /\ made' = made \cup {b}
    BY <2>1 DEF Begin
  <2> HIDE DEF b
  <2>4. traded \in Seq(Bars) /\ Len(traded) \in Nat /\ Len(traded) > 0
    BY <1>1 DEF MarketIsSound
  <2>5. /\ traded' \in Seq(Bars) /\ Len(traded') = Len(traded) + 1 /\ traded'[Len(traded) + 1] = b
        /\ \A i \in 1 .. Len(traded) : traded'[i] = traded[i]
    BY <2>2, <2>3, <2>4
  <2>6. MarketIsSound'
    <3>1. Len(traded') > 0
      BY <2>4, <2>5
    <3>2. ASSUME NEW i \in 1 .. Len(traded') PROVE traded'[i] \in made'
      <4>1. i = Len(traded) + 1 \/ i \in 1 .. Len(traded)
        BY <2>4, <2>5
      <4> QED BY <1>1, <2>3, <2>5, <4>1 DEF MarketIsSound
    <3>3. made' \subseteq Bars /\ \A c \in made' : Sound(c) /\ Day(c.ts) \in Days
      BY <1>1, <2>2, <2>3 DEF MarketIsSound
    <3> QED BY <2>5, <3>1, <3>2, <3>3 DEF MarketIsSound, Days, Day
  <2>7. ASSUME NEW w, IsWindow(w) PROVE IsWindow(w)'
    BY <1>1, <2>3, <2>4, <2>5, <2>7, WindowStays
  <2> QED BY <1>1, <1>2, <2>2, <2>3, <2>6, <2>7, MarketGoesOn
<1> QED BY <1>3, <1>4 DEF Tick

LEMMA TradeKeeps ==
  ASSUME MinuteInv, Trade
  PROVE  MinuteInv'
<1>1. /\ MarketIsSound /\ at' = at /\ at \in 1 .. Len(Times) /\ AnswerAgrees
      /\ UNCHANGED <<cached, session, files, whole, mishaps>> /\ answer' = answer
  BY DEF MinuteInv, BarsInv, Trade
<1>2. PICK trade \in Trades : Replace(Moved(Last(traded), trade))
  BY DEF Trade
<1> DEFINE b == Moved(Last(traded), trade)
<1>3. traded \in Seq(Bars) /\ Len(traded) \in Nat /\ Len(traded) > 0 /\ traded[Len(traded)] \in made
  BY <1>1 DEF MarketIsSound
<1>4. Last(traded) \in Bars /\ Sound(Last(traded)) /\ Last(traded) = traded[Len(traded)] /\ Day(Last(traded).ts) \in Days
  BY <1>1, <1>3 DEF MarketIsSound, Last
<1>5. b \in Bars /\ Sound(b) /\ b.ts = traded[Len(traded)].ts /\ Day(b.ts) \in Days
  BY <1>4, MovedIs
<1>6. traded' = [traded EXCEPT ![Len(traded)] = b] /\ made' = made \cup {b}
  BY <1>2 DEF Replace
<1> HIDE DEF b
<1>7. /\ traded' \in Seq(Bars) /\ Len(traded') = Len(traded) /\ traded'[Len(traded)] = b
      /\ \A i \in 1 .. Len(traded) - 1 : traded'[i] = traded[i]
  BY <1>3, <1>5, <1>6
<1>8. \A i \in 1 .. Len(traded') : traded'[i] \in made'
  <2> SUFFICES ASSUME NEW i \in 1 .. Len(traded) PROVE traded'[i] \in made'
    BY <1>7
  <2>1. i = Len(traded) \/ i \in 1 .. Len(traded) - 1
    BY <1>3
  <2>2. b \in made' /\ traded[i] \in made'
    BY <1>1, <1>6 DEF MarketIsSound
  <2> QED BY <1>7, <2>1, <2>2
<1>9. MarketIsSound'
  BY <1>1, <1>3, <1>5, <1>6, <1>7, <1>8 DEF MarketIsSound, Days, Day
<1>10. ASSUME NEW w, IsWindow(w) PROVE IsWindow(w)'
  <2>1. Len(traded') >= Len(traded)
    BY <1>3, <1>7
  <2>2. made \subseteq made'
    BY <1>6
  <2>3. traded'[Len(traded)].ts = traded[Len(traded)].ts
    BY <1>5, <1>7
  <2> QED BY <1>1, <1>7, <1>10, <2>1, <2>2, <2>3, WindowStays
<1>11. AnswerAgrees'
  BY <1>1 DEF AnswerAgrees, minute
<1> QED BY <1>1, <1>5, <1>6, <1>9, <1>10, <1>11, MarketGoesOn

LEMMA MinuteInvInit == MinuteInit => MinuteInv
<1> SUFFICES ASSUME MinuteInit PROVE MinuteInv
  OBVIOUS
<1>1. /\ traded = Evening /\ made = ToSet(Evening) /\ at = 1 /\ cached = <<>> /\ session = NoSession
      /\ files = [d \in Days |-> {}] /\ answer = NoAnswer /\ mishaps = 0
  BY DEF MinuteInit
<1>2. MarketIsSound
  <2>1. Evening \in Seq(Bars) /\ Len(Evening) > 0 /\ \A i \in DOMAIN Evening : Sound(Evening[i])
    BY MinuteDataAssumption
  <2>2. \A b \in ToSet(Evening) : b \in Bars /\ Sound(b)
    BY <2>1 DEF ToSet
  <2>3. \A i \in 1 .. Len(Evening) : Evening[i] \in ToSet(Evening)
    BY <2>1 DEF ToSet
  <2>4. \A b \in ToSet(Evening) : Day(b.ts) \in Days
    BY DEF Days
  <2> QED BY <1>1, <2>1, <2>2, <2>3, <2>4 DEF MarketIsSound
<1>3. at \in 1 .. Len(Times)
  BY <1>1, MinuteDataAssumption
<1>4. WindowIsCached /\ FilesAgree /\ AnswerAgrees
  BY <1>1 DEF WindowIsCached, FilesAgree, RowsRight, AnswerAgrees, NoAnswer
<1>5. ToSet(cached) = {}
  BY <1>1 DEF ToSet
<1>6. SessionAgrees /\ CacheIsSaved
  BY <1>1, <1>5 DEF SessionAgrees, NoSession, CacheIsSaved
<1> QED BY <1>2, <1>3, <1>4, <1>6 DEF MinuteInv, BarsInv

LEMMA MinuteStepKeeps == MinuteInv /\ [MinuteNext]_minuteVars => MinuteInv'
<1> SUFFICES ASSUME MinuteInv, [MinuteNext]_minuteVars PROVE MinuteInv'
  OBVIOUS
<1>1. CASE PollFetches
  <2>1. PICK rows \in Rows : Conclude(Fetched(GetMinuteBars(rows)))
    BY <1>1 DEF PollFetches
  <2>2. OutcomeRight(Fetched(GetMinuteBars(rows)))
    BY AnswersAreRight DEF MinuteInv, BarsInv
  <2> QED BY <2>1, <2>2, ConcludeKeeps
<1>2. CASE PollReuses
  BY <1>2, ReusedIsRight, ConcludeKeeps DEF PollReuses
<1>3. CASE UNCHANGED minuteVars
  BY <1>3 DEF minuteVars, MinuteInv, BarsInv, MarketIsSound, WindowIsCached, GoodWindow, OneOfAMinute, IsWindow,
              Versions, View, SessionAgrees, InSession, FilesAgree, RowsRight, CacheIsSaved, Days, Day,
              AnswerAgrees, minute
<1> QED BY <1>1, <1>2, <1>3, SaveFailsKeeps, StartsAgainKeeps, KilledWhileSavingKeeps, TickKeepsMinutes, TradeKeeps
     DEF MinuteNext

\* The parts of the invariant hold in every state.
LEMMA MinutesAreRight == MinuteSpec => []MinuteInv
BY MinuteInvInit, MinuteStepKeeps, PTL DEF MinuteSpec

\* An entry rests on bars that the market has really had, none left out, as many as
\* it needs and no older than the code allows, whatever the broker answered.
THEOREM SafeEntriesAreCurrent == MinuteSpec => []SafeEntryIsCurrent
<1>1. MinuteInv => SafeEntryIsCurrent
  <2> SUFFICES ASSUME MinuteInv, answer.safe
               PROVE  /\ IsWindow(cached) /\ minute - Last(cached).ts \in 0 .. MaxAge
                      /\ Len(cached) >= MinCount
    BY DEF SafeEntryIsCurrent, IsWindow
  <2>1. cached # <<>> /\ Fresh(cached, minute) /\ IsWindow(cached)
    BY DEF MinuteInv, BarsInv, AnswerAgrees, WindowIsCached, GoodWindow
  <2> QED BY <2>1 DEF Fresh
<1> QED BY <1>1, MinutesAreRight, PTL

\* A minute is that many minutes after the start of its day.
LEMMA DayAndMinute ==
  ASSUME NEW t \in Nat
  PROVE  t = (Day(t) * DayLength) + (t % DayLength)
<1>1. ASSUME NEW d \in Nat \ {0} PROVE t = (d * (t \div d)) + (t % d) /\ d * (t \div d) = (t \div d) * d
  <2>1. t \div d \in Int
    OBVIOUS
  <2> QED BY <2>1
<1>2. DayLength \in Nat \ {0}
  BY MinuteDataAssumption
<1> QED BY <1>1, <1>2 DEF Day

\* A session that is ready has a bar of the opening.
LEMMA ReadyHasOpened ==
  ASSUME MarketIsSound, SessionAgrees, Ready(session)
  PROVE  \E b \in made : b.ts \in session.day * DayLength + Open .. session.day * DayLength + Open + 1
<1>1. PICK b \in session.bars : b.ts % DayLength \in Open .. Open + 1
  BY DEF Ready
<1>2. b \in made /\ Day(b.ts) = session.day
  BY DEF SessionAgrees, InSession
<1>3. b.ts \in Nat
  <2>1. b \in Bars
    BY <1>2 DEF MarketIsSound
  <2> QED BY <2>1 DEF Bars
<1>4. b.ts = (session.day * DayLength) + (b.ts % DayLength)
  BY <1>2, <1>3, DayAndMinute
<1>5. Open \in Nat /\ session.day * DayLength \in Int
  <2>1. Day(b.ts) \in Int /\ DayLength \in Int /\ Open \in Nat
    BY <1>3, MinuteDataAssumption DEF Day
  <2> QED BY <1>2, <2>1
<1> DEFINE base == session.day * DayLength
           rest == b.ts % DayLength
<1>6. b.ts = base + rest /\ rest \in Open .. Open + 1 /\ base \in Int /\ Open \in Nat
  BY <1>1, <1>4, <1>5
<1> HIDE DEF base, rest
<1>7. b.ts \in base + Open .. base + Open + 1
  BY <1>6
<1> QED BY <1>2, <1>7 DEF base

\* Files and sessions hold bars that there have been only, each under its own day
\* and one of a minute; and what was kept half-made has been replaced by what was
\* accepted last, in the session, and in the files unless their save broke off.
THEOREM RecordsStayRight == MinuteSpec => []RecordsAgree
<1>1. MinuteInv => RecordsAgree
  <2> SUFFICES ASSUME MinuteInv PROVE RecordsAgree
    OBVIOUS
  <2>1. MarketIsSound /\ WindowIsCached /\ SessionAgrees /\ FilesAgree /\ CacheIsSaved
    BY DEF MinuteInv, BarsInv
  <2>2. SessionIsOfADay
    BY <2>1, ReadyHasOpened DEF SessionAgrees, SessionIsOfADay
  <2>3. ASSUME NEW d \in Days PROVE RowsAgree(d)
    BY <2>1 DEF FilesAgree, RowsRight, RowsAgree
  <2>4. ASSUME NEW i \in 1 .. Len(cached) - 1 PROVE cached[i] \in ToSet(traded)
    <3>1. cached # <<>>
      OBVIOUS
    <3> QED BY <2>1, <3>1, WindowBars DEF WindowIsCached, GoodWindow
  <2>5. ASSUME NEW b \in ToSet(cached)
        PROVE  /\ InSession(b, session.day) => b \in session.bars
               /\ whole => RowToSave(b) \in files[Day(b.ts)]
    BY <2>1 DEF SessionAgrees, CacheIsSaved
  <2> QED BY <2>2, <2>3, <2>4, <2>5 DEF RecordsAgree
<1> QED BY <1>1, MinutesAreRight, PTL

-----------------------------------------------------------------------------
(* Entries on the minute bars                                               *)

\* Of four conditions, none to four hold.
LEMMA FourAreCounted ==
  ASSUME NEW x, NEW y, NEW z, NEW v
  PROVE  /\ Count(<<x, y, z, v>>) \in Nat
         /\ IsFiniteSet({i \in DOMAIN <<x, y, z, v>> : <<x, y, z, v>>[i]})
<1> DEFINE S == {i \in DOMAIN <<x, y, z, v>> : <<x, y, z, v>>[i]}
<1>1. DOMAIN <<x, y, z, v>> = 1 .. 4
  OBVIOUS
<1>2. S \in SUBSET (1 .. 4) /\ Count(<<x, y, z, v>>) = Cardinality(S)
  BY <1>1 DEF Count
<1>3. 1 \in Int /\ 4 \in Int
  OBVIOUS
<1>4. IsFiniteSet(1 .. 4)
  BY <1>3, FS_Interval
<1> HIDE DEF S
<1>5. IsFiniteSet(S)
  BY <1>2, <1>4, FS_Subset
<1> QED BY <1>2, <1>5, FS_CardinalityType DEF S

\* If the third holds sooner, no fewer hold.
LEMMA MoreAreCounted ==
  ASSUME NEW x, NEW y, NEW z, NEW u, NEW v, u => v
  PROVE  Count(<<x, y, u, z>>) <= Count(<<x, y, v, z>>)
<1> DEFINE L == {i \in DOMAIN <<x, y, u, z>> : <<x, y, u, z>>[i]}
           H == {i \in DOMAIN <<x, y, v, z>> : <<x, y, v, z>>[i]}
<1>1. L \in SUBSET H
  OBVIOUS
<1>2. IsFiniteSet(H)
  BY FourAreCounted
<1>3. Cardinality(L) <= Cardinality(H)
  BY <1>1, <1>2, FS_Subset
<1> QED BY <1>3 DEF Count

\* With the slow rebound the score is no lower than without it.
LEMMA ScoreGrows ==
  ASSUME NEW d, NEW a
  PROVE  /\ Score(d, a, FALSE) <= Score(d, a, SlowVEnabled)
         /\ Score(d, a, FALSE) \in Nat /\ Score(d, a, SlowVEnabled) \in Nat
<1> DEFINE ofDay == DailyScore(d)
           ofFew == MinuteScore(a, FALSE)
           ofAll == MinuteScore(a, SlowVEnabled)
           without == Score(d, a, FALSE)
           with_ == Score(d, a, SlowVEnabled)
<1>1. ofDay \in Nat
  BY FourAreCounted DEF DailyScore
<1>2. ofFew \in Nat /\ ofAll \in Nat /\ ofFew <= ofAll
  <2>1. CASE a.known
    <3>1. ofFew = Count(<<a.aboveVwap, a.lowRising, VOrPr(a, FALSE), a.spike>>)
      BY <2>1 DEF MinuteScore
    <3>2. ofAll = Count(<<a.aboveVwap, a.lowRising, VOrPr(a, SlowVEnabled), a.spike>>)
      BY <2>1 DEF MinuteScore
    <3>3. VOrPr(a, FALSE) => VOrPr(a, SlowVEnabled)
      BY DEF VOrPr
    <3> HIDE DEF ofFew, ofAll
    <3>4. ofFew \in Nat
      BY <3>1, FourAreCounted
    <3>5. ofAll \in Nat
      BY <3>2, FourAreCounted
    <3>6. ofFew <= ofAll
      BY <3>1, <3>2, <3>3, MoreAreCounted
    <3> QED BY <3>4, <3>5, <3>6
  <2>2. CASE ~a.known
    <3>1. ofFew = 0 /\ ofAll = 0
      BY <2>2 DEF MinuteScore
    <3> HIDE DEF ofFew, ofAll
    <3> QED BY <3>1
  <2> QED BY <2>1, <2>2
<1>3. without = ofDay + ofFew /\ with_ = ofDay + ofAll
  BY DEF Score
<1> HIDE DEF ofDay, ofFew, ofAll, without, with_
<1>4. without <= with_ /\ without \in Nat /\ with_ \in Nat
  BY <1>1, <1>2, <1>3
<1> QED BY <1>4 DEF without, with_

\* An entry is one of the strategy that the regime selects.
LEMMA EntryIsOneOf ==
  ASSUME NEW d, Enters(d)
  PROVE  \/ BreakoutEntry(d, answer.analysis)
         \/ RegimeOf(d, Price, YesterdayClose) = "NEUTRAL" /\ NeutralEntry(d, answer.analysis)
BY DEF Enters, Entry, Wanted

\* Nobody runs after a price: an overheated one is entered with five points only
\* that volume or a pattern confirms, whatever pattern asks for it, and whichever
\* strategy is selected.
THEOREM NobodyEverChases == MinuteSpec => []NobodyChases
<1>1. NobodyChases
  <2> SUFFICES ASSUME NEW d \in Daily, Enters(d), Overheated(d, answer.analysis)
               PROVE  /\ Score(d, answer.analysis, SlowVEnabled) >= 5
                      /\ RequireConfirmation => Confirmed(d, answer.analysis)
    BY DEF NobodyChases
  <2> DEFINE score == Score(d, answer.analysis, SlowVEnabled)
  <2>1. CASE BreakoutEntry(d, answer.analysis)
    <3>1. Waits(d, answer.analysis, score)
      BY DEF Waits, Overheated
    <3>2. /\ score >= 5 \/ ~Waits(d, answer.analysis, score)
          /\ score >= 5 => (RequireConfirmation => Confirmed(d, answer.analysis))
      BY <2>1 DEF BreakoutEntry
    <3> QED BY <3>1, <3>2
  <2>2. CASE NeutralEntry(d, answer.analysis)
    <3> DEFINE without == Score(d, answer.analysis, FALSE)
    <3>1. without >= 5 /\ answer.analysis.known /\ (answer.analysis.v \/ answer.analysis.pr)
      BY <2>2 DEF NeutralEntry
    <3>2. without <= score /\ score \in Nat /\ without \in Nat
      BY ScoreGrows
    <3>3. Confirmed(d, answer.analysis)
      BY <3>1 DEF Confirmed, VOrPr
    <3> HIDE DEF score, without
    <3>4. score >= 5
      BY <3>1, <3>2
    <3> QED BY <3>3, <3>4 DEF score
  <2> QED BY <2>1, <2>2, EntryIsOneOf
<1> QED BY <1>1, PTL

\* A list of checks has been passed only if none of it failed.
LEMMA FoundPasses ==
  ASSUME NEW checks, NEW i \in DOMAIN checks, Found(checks).found
  PROVE  ~checks[i][1]
BY DEF Found

\* A high, the low after it and the last bar of what is looked at
ReboundFrom(bars, p, i, j) ==
  /\ Len(bars) - j \in p.minAge .. p.maxAge
  /\ (bars[i].high - bars[j].low) * 1000 >= p.drop * bars[i].high
  /\ p.rise * bars[j].low <= (Last(bars).close - bars[j].low) * 1000
  /\ (Last(bars).close - bars[j].low) * 1000 <= p.maxRise * bars[j].low

LEMMA ReboundNeeds ==
  ASSUME NEW bars, NEW p, NEW j \in 2 .. Len(bars) - 1, NEW i \in 1 .. j - 1, ReboundFrom(bars, p, i, j)
  PROVE  Rebounded(bars, p)
BY DEF ReboundFrom, Rebounded

\* A low that lacks nothing is as deep and the rise as high as is asked for.
LEMMA NothingLacks ==
  ASSUME NEW bars \in Seq(Bars), Len(bars) > 0, NEW p, {p.drop, p.rise, p.maxRise} \subseteq Nat,
         NEW trend, NEW search, NEW place, NEW bottom \in Nat, NEW peak \in Nat,
         Found(Lacks(bars, p, trend, search, place, bottom, peak)).found
  PROVE  /\ (peak - bottom) * 1000 >= p.drop * peak
         /\ p.rise * bottom <= (Last(bars).close - bottom) * 1000
         /\ (Last(bars).close - bottom) * 1000 <= p.maxRise * bottom
<1> DEFINE checks == Lacks(bars, p, trend, search, place, bottom, peak)
           latest == Last(bars).close
<1>1. DOMAIN checks = 1 .. 7
  BY DEF Lacks
<1> DEFINE flat == (peak - bottom) * 1000 < p.drop * peak
           weak == (latest - bottom) * 1000 < p.rise * bottom
           late == (latest - bottom) * 1000 > p.maxRise * bottom
<1>2. checks[1][1] = flat /\ checks[2][1] = weak /\ checks[3][1] = late
  BY DEF Lacks
<1> HIDE DEF checks, flat, weak, late
<1>3. ~checks[1][1] /\ ~checks[2][1] /\ ~checks[3][1]
  <2>1. 1 \in DOMAIN checks /\ 2 \in DOMAIN checks /\ 3 \in DOMAIN checks
    BY <1>1
  <2>2. Found(checks).found
    BY DEF checks
  <2>3. ~checks[1][1]
    BY <2>1, <2>2, FoundPasses
  <2>4. ~checks[2][1]
    BY <2>1, <2>2, FoundPasses
  <2>5. ~checks[3][1]
    BY <2>1, <2>2, FoundPasses
  <2> QED BY <2>3, <2>4, <2>5
<1>4. latest \in Nat
  <2>1. Last(bars) \in Bars
    BY DEF Last
  <2> QED BY <2>1 DEF Bars
<1> HIDE DEF latest
<1>5. p.drop * peak \in Int /\ p.rise * bottom \in Int /\ p.maxRise * bottom \in Int
  <2>1. p.drop \in Nat /\ p.rise \in Nat /\ p.maxRise \in Nat
    OBVIOUS
  <2> QED BY <2>1
<1> DEFINE least == p.drop * peak
           lower == p.rise * bottom
           upper == p.maxRise * bottom
<1>6. ~((peak - bottom) * 1000 < least) /\ ~((latest - bottom) * 1000 < lower) /\ ~((latest - bottom) * 1000 > upper)
  <2>1. ~flat /\ ~weak /\ ~late
    BY <1>2, <1>3, Zenon
  <2> QED BY <2>1 DEF flat, weak, late
<1>7. least \in Int /\ lower \in Int /\ upper \in Int
  BY <1>5
<1> HIDE DEF least, lower, upper
<1>8. (peak - bottom) * 1000 >= least /\ lower <= (latest - bottom) * 1000 /\ (latest - bottom) * 1000 <= upper
  BY <1>4, <1>6, <1>7
<1> QED BY <1>8 DEF least, lower, upper, latest

\* What is taken for a rebound is one: _detect_v_rebound.
LEMMA FoundIsRebound ==
  ASSUME NEW bars \in Seq(Bars), Len(bars) >= 2,
         NEW p, p.lookback \in Nat, {p.drop, p.rise, p.maxRise} \subseteq Nat,
         NEW trend, NEW before, DetectV(bars, p, trend, before).found
  PROVE  Rebounded(bars, p)
<1> DEFINE n == Len(bars)
           q == IF p.lookback < n - 2 THEN p.lookback ELSE n - 2
           m == n - 1
           search == LastN(SubSeq(bars, 1, n - 1), q)
           off == (n - 1) - q
<1>1. n \in Nat /\ n >= 2 /\ q \in 0 .. n - 2 /\ off \in Nat /\ off + q = n - 1
  <2>1. n \in Nat /\ n >= 2
    OBVIOUS
  <2> HIDE DEF n
  <2>2. q \in 0 .. n - 2
    BY <2>1
  <2> HIDE DEF q
  <2> QED BY <2>1, <2>2
<1>2. search = Searched(bars, p)
  BY DEF Searched, Front
<1>3. search \in Seq(Bars) /\ Len(search) = q /\ \A i \in 1 .. q : search[i] = bars[off + i]
  <2>1. n - 1 \in 0 .. Len(bars) /\ q \in Nat
    BY <1>1
  <2>2. (IF n - 1 > q THEN q ELSE n - 1) = q
    BY <1>1
  <2>3. LET l == IF n - 1 > q THEN q ELSE n - 1
        IN  /\ search \in Seq(Bars) /\ Len(search) = l
            /\ \A i \in 1 .. l : search[i] = bars[n - 1 - l + i]
    <3>1. m \in 0 .. Len(bars) /\ q \in Nat
      BY <2>1
    <3> DEFINE v == LastN(SubSeq(bars, 1, m), q)
    <3> HIDE DEF m, q
    <3>2. LET l == IF m > q THEN q ELSE m
          IN  /\ v \in Seq(Bars) /\ Len(v) = l
              /\ \A i \in 1 .. l : v[i] = bars[m - l + i]
      BY <3>1, LastOfFirst
    <3>3. v = search
      BY DEF m
    <3> HIDE DEF v, search
    <3> QED BY <3>2, <3>3 DEF m
  <2> HIDE DEF search, n, q
  <2> QED BY <2>2, <2>3
<1> DEFINE place == FirstLowest(search)
           bottom == search[place].low
           peak == TopBefore(search, place)
<1> HIDE DEF n, q, m, search, off, place
<1>4. DetectIn(bars, p, trend, before, search).found
  BY <1>2 DEF DetectV
<1>5. ~(Len(search) < 3) /\ DetectLow(bars, p, trend, before, search, place).found
  BY <1>4 DEF DetectIn, NotFound, place
<1>6. place \in 1 .. q
  <2>1. Len(search) > 0
    BY <1>1, <1>3, <1>5
  <2> QED BY <1>3, <2>1, LowestIs DEF place
<1>7. /\ Len(search) - place + 1 \in p.minAge .. p.maxAge /\ place # 1
      /\ ~(bottom <= 0) /\ ~(peak <= bottom)
      /\ Found(Lacks(bars, p, trend, search, place, bottom, peak)).found
  BY <1>5 DEF DetectLow, NotFound
<1> DEFINE earlier == SubSeq(search, 1, place - 1)
<1>8. /\ earlier \in Seq(Bars) /\ Len(earlier) = place - 1
      /\ \A i \in 1 .. place - 1 : earlier[i] = search[i]
  <2>1. place - 1 \in Int /\ 1 \in Int /\ \A i \in 1 .. place - 1 : search[i] \in Bars
    BY <1>1, <1>3, <1>6
  <2> QED BY <1>1, <1>6, <2>1, SubSeqProperties
<1>9. bottom \in Nat /\ bottom > 0
  <2>1. search[place] \in Bars
    BY <1>3, <1>6
  <2>2. bottom \in Nat
    BY <2>1 DEF Bars
  <2> QED BY <1>7, <2>2
<1>10. PICK i \in 1 .. place - 1 : peak = search[i].high
  <2> DEFINE high_ == MaxOf(earlier, LAMBDA b : b.high)
  <2>1. peak = high_
    BY DEF TopBefore
  <2>2. high_ \in Nat
    BY <1>8, TopIs
  <2>3. high_ > 0
    <3> HIDE DEF high_, peak, bottom
    <3> QED BY <1>7, <1>9, <2>1, <2>2
  <2>4. \E i \in 1 .. Len(earlier) : high_ = earlier[i].high
    BY <1>8, <2>3, TopIs
  <2> HIDE DEF high_, peak
  <2> QED BY <1>8, <2>1, <2>4
<1>11. peak \in Nat
  <2>1. search[i] \in Bars
    BY <1>1, <1>3, <1>6, <1>10
  <2>2. search[i].high \in Nat
    BY <2>1 DEF Bars
  <2> HIDE DEF peak
  <2> QED BY <1>10, <2>2
<1> HIDE DEF bottom, peak
<1>12. /\ (peak - bottom) * 1000 >= p.drop * peak
       /\ p.rise * bottom <= (Last(bars).close - bottom) * 1000
       /\ (Last(bars).close - bottom) * 1000 <= p.maxRise * bottom
  <2>1. Len(bars) > 0
    OBVIOUS
  <2> QED BY <1>7, <1>9, <1>11, <2>1, NothingLacks
<1>13. bars[off + place].low = bottom /\ bars[off + i].high = peak
  <2>1. i \in 1 .. q
    BY <1>1, <1>6, <1>10
  <2> QED BY <1>3, <1>6, <1>10, <2>1 DEF bottom
<1>14. off + place \in 2 .. Len(bars) - 1 /\ off + i \in 1 .. (off + place) - 1
       /\ Len(bars) - (off + place) = q - place + 1
  <2>1. n = Len(bars)
    BY DEF n
  <2> QED BY <1>1, <1>6, <1>7, <1>10, <2>1
<1>15. Len(bars) - (off + place) \in p.minAge .. p.maxAge
  BY <1>3, <1>7, <1>14
<1>16. ReboundFrom(bars, p, off + i, off + place)
  BY <1>12, <1>13, <1>15 DEF ReboundFrom
<1> QED BY <1>14, <1>16, ReboundNeeds

\* A rebound in the last bars is one in all of them.
LEMMA ReboundOfAll ==
  ASSUME NEW all \in Seq(Bars), Len(all) > 0, NEW k \in Nat \ {0}, NEW p, Rebounded(LastN(all, k), p)
  PROVE  Last(LastN(all, k)) = Last(all) /\ Rebounded(all, p)
<1> DEFINE n == Len(all)
           w == LastN(all, k)
           l == IF n > k THEN k ELSE n
<1>1. n \in Nat /\ k \in Nat /\ Len(all) = n
  OBVIOUS
<1>2. w \in Seq(Bars) /\ Len(w) = l /\ \A i \in 1 .. l : w[i] = all[n - l + i]
  <2>1. LET m == IF Len(all) > k THEN k ELSE Len(all)
        IN  /\ LastN(all, k) \in Seq(Bars) /\ Len(LastN(all, k)) = m
            /\ \A i \in 1 .. m : LastN(all, k)[i] = all[Len(all) - m + i]
    BY <1>1, LastIs
  <2> QED BY <2>1
<1>3. l \in 1 .. n
  BY <1>1
<1>4. Rebounded(w, p)
  OBVIOUS
<1> HIDE DEF w, l, n
<1>5. Last(w) = Last(all)
  BY <1>1, <1>2, <1>3 DEF Last
<1>6. PICK j \in 2 .. Len(w) - 1 : \E i \in 1 .. j - 1 : ReboundFrom(w, p, i, j)
  BY <1>4 DEF Rebounded, ReboundFrom
<1>7. PICK i \in 1 .. j - 1 : ReboundFrom(w, p, i, j)
  BY <1>6
<1>8. /\ n - l + j \in 2 .. Len(all) - 1 /\ n - l + i \in 1 .. (n - l + j) - 1
      /\ Len(all) - (n - l + j) = Len(w) - j /\ i \in 1 .. l /\ j \in 1 .. l
  BY <1>1, <1>2, <1>3, <1>6, <1>7
<1>9. all[n - l + j] = w[j] /\ all[n - l + i] = w[i]
  BY <1>2, <1>8
<1>10. ReboundFrom(all, p, n - l + i, n - l + j)
  BY <1>5, <1>7, <1>8, <1>9 DEF ReboundFrom
<1>11. Rebounded(all, p)
  BY <1>8, <1>10, ReboundNeeds
<1> QED BY <1>5, <1>11 DEF w

\* An analysis that says something of a rebound has looked for it.
LEMMA AnalysisTells ==
  ASSUME NEW bars \in Seq(Bars), NEW s, NEW analysis, analysis = Analyze(bars, YesterdayClose, s).analysis,
         analysis.known, analysis.v
  PROVE  Len(bars) >= 2 /\ \E trend : DetectV(bars, FastV, trend, s).found
<1> DEFINE dayHigh == MaxOf(bars, LAMBDA b : b.high)
           above == Ma5AboveMa20(ClosesOf(bars))
           trend == Ma5Rising(bars) \/ above
           fast == DetectV(bars, FastV, trend, s)
           slow == DetectSlow(bars, trend, fast)
           few == \/ Len(bars) < LowRisingBars + 1 \/ Last(bars).close <= 0
                  \/ YesterdayClose <= 0 \/ dayHigh = 0
<1>1. analysis = IF few THEN None ELSE ResultOf(bars, YesterdayClose, dayHigh, above, fast, slow)
  BY DEF Analyze
<1>2. ~few
  <2> HIDE DEF few, dayHigh, above, fast, slow
  <2> QED BY <1>1 DEF None
<1>3. ResultOf(bars, YesterdayClose, dayHigh, above, fast, slow).v = fast.found
  <2> HIDE DEF dayHigh, above, fast, slow
  <2> QED BY DEF ResultOf
<1>4. fast.found
  <2> HIDE DEF few, dayHigh, above, fast, slow
  <2> QED BY <1>1, <1>2, <1>3
<1>5. Len(bars) >= 2
  <2>1. LowRisingBars \in Nat \ {0}
    BY MinuteAssumption
  <2>2. ~(Len(bars) < LowRisingBars + 1)
    BY <1>2
  <2> QED BY <2>1, <2>2
<1> QED BY <1>4, <1>5

\* The rebound that an entry rests on has happened in the market.
THEOREM ReboundsAreReal == MinuteSpec => []ReboundIsReal
<1>1. MinuteInv => ReboundIsReal
  <2> SUFFICES ASSUME MinuteInv, answer.safe, answer.analysis.v
               PROVE  \E n \in 1 .. Len(traded) :
                        Last(cached) \in Versions(n) /\ Rebounded(View(n, Last(cached)), FastV)
    BY DEF ReboundIsReal
  <2>1. /\ MarketIsSound /\ IsWindow(cached) /\ answer.analysis.known
        /\ \E s : answer.analysis = Analyze(cached, YesterdayClose, s).analysis
    BY DEF MinuteInv, BarsInv, AnswerAgrees, WindowIsCached, GoodWindow
  <2>2. cached \in Seq(Bars)
    BY <2>1, WindowBars
  <2>3. PICK s : answer.analysis = Analyze(cached, YesterdayClose, s).analysis
    BY <2>1
  <2>4. Len(cached) >= 2 /\ \E trend : DetectV(cached, FastV, trend, s).found
    BY <2>1, <2>2, <2>3, AnalysisTells
  <2>5. Rebounded(cached, FastV)
    <3>1. PICK trend : DetectV(cached, FastV, trend, s).found
      BY <2>4
    <3>2. FastV.lookback \in Nat /\ {FastV.drop, FastV.rise, FastV.maxRise} \subseteq Nat
      BY MinuteAssumption
    <3> QED BY <2>2, <2>4, <3>1, <3>2, FoundIsRebound
  <2>6. PICK n \in 1 .. Len(traded), k \in MinCount .. BarCount : \E b \in Versions(n) : cached = LastN(View(n, b), k)
    BY <2>1 DEF IsWindow
  <2>7. PICK b \in Versions(n) : cached = LastN(View(n, b), k)
    BY <2>6
  <2>8. k \in Nat \ {0}
    <3>1. MinCount \in Nat \ {0}
      BY MinuteAssumption
    <3>2. BarCount \in Nat
      BY MinuteDataAssumption
    <3> QED BY <3>1, <3>2
  <2> DEFINE all == View(n, b)
  <2>9. all \in Seq(Bars) /\ Len(all) = n /\ all[n] = b /\ n > 0
    BY <2>1, ViewIs
  <2> HIDE DEF all
  <2>10. Last(all) = b
    BY <2>9 DEF Last
  <2>11. Last(cached) = Last(all) /\ Rebounded(all, FastV)
    <3>1. cached = LastN(all, k)
      BY <2>7 DEF all
    <3> QED BY <2>5, <2>8, <2>9, <3>1, ReboundOfAll
  <2> QED BY <2>10, <2>11 DEF all
<1> QED BY <1>1, MinutesAreRight, PTL
=============================================================================
