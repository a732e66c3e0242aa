----------------------------- MODULE MinuteData -----------------------------
(***************************************************************************)
(* The minute bars of a symbol: _get_minute_analysis in                      *)
(* domain/service/trading_service.py with its cache, its failures and its     *)
(* back-off, the session that session_metrics.py collects in shadow mode,     *)
(* the files of minute_bar_saver.py, and the entries that rest on them        *)
(* (EntrySignals).  The broker's answers may lag, be cut short, repeat a bar,  *)
(* hold a bar of zeros, be empty or not come at all.                          *)
(* A minute in which nobody trades has no bar.  The bar of a minute is not     *)
(* made before the minute is over: until then every trade changes it, and an   *)
(* answer has it half-made.  A file is written over in place: a kill or a full  *)
(* disk leaves its first lines, the last of them perhaps torn.                 *)
(***************************************************************************)
EXTENDS EntrySignals

CONSTANTS
  BarCount,           \* minute_bar_count
  MinuteRefresh, FetchBackoff,  \* minute_refresh_seconds, minute_fetch_backoff_seconds
  YesterdayClose,
  DayLength, Open, Close,  \* minutes of a day, and when the market is open
  Evening, Times,    \* the bars of the first day; the minutes of the run, in order
  Kinds, Trades,     \* how the bar of a minute may begin, and what may change it
  Daily,             \* what the daily bars may say
  CutAt,             \* the lines of a file at which a save may break off
  MaxLag, MaxMoves, MaxMishaps  \* bounds

\* MinuteBar
Bars == [ts : Nat, high : Nat, low : Nat, close : Nat, volume : Nat, acc : Nat]

\* The settings are refused if an entry needs more bars than are asked for.
ASSUME MinuteDataAssumption ==
  /\ {BarCount, MinuteRefresh, FetchBackoff, YesterdayClose, DayLength} \subseteq Nat \ {0}
  /\ MinCount <= BarCount
  /\ {MaxLag, MaxMoves, MaxMishaps, Open, Close} \subseteq Nat /\ Open <= Close /\ Close < DayLength
  /\ Evening \in Seq(Bars) /\ Len(Evening) > 0 /\ \A i \in DOMAIN Evening : Sound(Evening[i])
  /\ Times \in Seq(Nat) /\ Len(Times) > 0
  /\ Kinds \subseteq [high : Nat, low : Nat, close : Nat, volume : Nat]
  /\ \A k \in Kinds : 0 < k.low /\ k.low <= k.close /\ k.close <= k.high
  /\ Trades \subseteq [price : Nat \ {0}, volume : Nat] /\ CutAt \subseteq Nat

VARIABLES
  traded,    \* the market: a bar for every minute with a trade
  made,      \* the bars there have been, those that were half-made too
  at,        \* the place of the minute in Times
  cached, loaded, failed,  \* cached_minute_bars, and when it was loaded and when that failed
  said,      \* _last_v_fail_reasons of the analyzer
  session,   \* _session_state_by_symbol
  files,     \* the rows of minute_bars/<day>
  whole,     \* the bars that were accepted last have been saved to the end
  answer,    \* what the last poll of this minute was told
  mishaps    \* the restarts and the saves that broke off

minuteVars == <<traded, made, at, cached, loaded, failed, said, session, files, whole, answer, mishaps>>

NoTime == -1
minute   == Times[at]
Day(t) == t \div DayLength
Days  == {Day(t) : t \in ToSet(Times) \cup {b.ts : b \in ToSet(Evening)}}

\* SessionState: the bars of a day, and the minutes of those that were refused
NoSession == [day |-> NoTime, bars |-> {}, other |-> {}, outside |-> {}, invalid |-> {}]
NoAnswer  == [asked |-> FALSE, safe |-> FALSE, analysis |-> None]

MinuteInit ==
  /\ traded = Evening /\ made = ToSet(Evening) /\ at = 1
  /\ cached = <<>> /\ loaded = NoTime /\ failed = NoTime
  /\ said = <<>> /\ session = NoSession
  /\ files = [d \in Days |-> {}] /\ whole = TRUE
  /\ answer = NoAnswer /\ mishaps = 0

-----------------------------------------------------------------------------
(***************************************************************************)
(* The minute chart as the broker's server sends it: the newest row first,    *)
(* more rows than are asked for, a price below yesterday's close with a minus. *)
(* The rows may lag, by minutes or by trades, hold a row that cannot be read    *)
(* or the same row twice, be too few or be none.                              *)
(***************************************************************************)
\* The market up to its n-th bar, this one as it is or once was
Versions(n) == {b \in made : b.ts = traded[n].ts}
View(n, b)  == Append(SubSeq(traded, 1, n - 1), b)

Signed(price) == <<IF price < YesterdayClose THEN -price ELSE price>>

RowOf(b) ==
  [ts |-> b.ts, high |-> Signed(b.high), low |-> Signed(b.low), close |-> Signed(b.close),
   volume |-> <<b.volume>>, acc |-> <<b.acc>>]

Chart(n, b) ==
  LET newest == Reverse(LastN(View(n, b), BarCount + 1))
  IN [i \in DOMAIN newest |-> RowOf(newest[i])]

Charts ==
  UNION {{Chart(n, b) : b \in Versions(n)} : n \in {m \in DOMAIN traded : m >= Len(traded) - MaxLag}}

Rows ==
  LET charts  == Charts
      last(w) == IF Len(w) < BarCount THEN Len(w) ELSE BarCount
  IN charts
       \cup {[w EXCEPT ![2] = [@ EXCEPT !.high = <<>>, !.low = <<>>]] : w \in charts}
       \cup {[w EXCEPT ![last(w)] = w[last(w) - 1]] : w \in {c \in charts : last(c) > 1}}
       \cup {SubSeq(w, 1, last(w) - 1) : w \in charts}
       \cup {<<>>}

(***************************************************************************)
(* get_minute_bars: the rows that were asked for, the oldest first.  What     *)
(* cannot be read is 0.                                                       *)
(***************************************************************************)
ParseAbsInt(field) ==
  IF field = <<>> THEN 0 ELSE IF field[1] < 0 THEN -field[1] ELSE field[1]

GetMinuteBars(rows) ==
  LET parsed(r) == [ts |-> r.ts, high |-> ParseAbsInt(r.high), low |-> ParseAbsInt(r.low),
                    close |-> ParseAbsInt(r.close), volume |-> ParseAbsInt(r.volume),
                    acc |-> ParseAbsInt(r.acc)]
      asked     == SubSeq(rows, 1, IF Len(rows) < BarCount THEN Len(rows) ELSE BarCount)
  IN Reverse([i \in DOMAIN asked |-> parsed(asked[i])])

(***************************************************************************)
(* merge_session_bars: only bars of the day, of the market's hours and sound; *)
(* a bar replaces the one of the same minute.  A new day starts anew, whoever  *)
(* may have forgotten to reset it.                                            *)
(***************************************************************************)
InSession(b, day) == Day(b.ts) = day /\ b.ts % DayLength \in Open .. Close

\* _passes_session_filter, _passes_ohlc_validity: why a bar is refused, if it is
Refusal(b, day) ==
  IF Day(b.ts) # day THEN "OTHER_DATE"
  ELSE IF ~InSession(b, day) THEN "OUTSIDE_MARKET"
  ELSE IF ~Sound(b) THEN "INVALID_OHLC" ELSE ""

\* mutant: the session of an earlier day goes on
StartsOnce(day) == session.day = NoTime
StartsAnew(day) == session.day # day

Merged(bars, day) ==
  LET old      == IF StartsAnew(day) THEN [NoSession EXCEPT !.day = day] ELSE [session EXCEPT !.day = day]
      refused(r) == {b \in ToSet(bars) : Refusal(b, day) = r}
      kept     == refused("")
  IN [old EXCEPT !.bars    = {b \in @ : \A n \in kept : n.ts # b.ts} \cup kept,
                 !.other   = @ \cup {b.ts : b \in refused("OTHER_DATE")},
                 !.outside = @ \cup {b.ts : b \in refused("OUTSIDE_MARKET")},
                 !.invalid = @ \cup {b.ts : b \in refused("INVALID_OHLC")}]

\* _update_session_metrics_shadow
SessionAfter(bars) == IF bars = <<>> THEN session ELSE Merged(bars, Day(minute))

\* build_session_metrics: the session has the bars of the opening
Ready(s) == s.bars # {} /\ \E b \in s.bars : b.ts % DayLength \in Open .. Open + 1

(***************************************************************************)
(* MinuteBarSaver.save: the rows of each day, one for a minute, in the order   *)
(* of the minutes.  A row is the new one's if there is one, and has no acc.     *)
(***************************************************************************)
RowToSave(b) == [ts |-> b.ts, values |-> <<b.high, b.low, b.close, b.volume>>]
Torn(t)      == [ts |-> t, values |-> <<>>]

NewOf(bars, d) == {b \in ToSet(bars) : Day(b.ts) = d}

\* mutant: the first row of a minute stays
SavedFirst(bars, d) ==
  files[d] \cup {r \in {RowToSave(n) : n \in NewOf(bars, d)} : \A old \in files[d] : old.ts # r.ts}
SavedDay(bars, d) ==
  {r \in files[d] : \A n \in NewOf(bars, d) : n.ts # r.ts} \cup {RowToSave(n) : n \in NewOf(bars, d)}

SavedRows(bars) == [d \in Days |-> SavedDay(bars, d)]

\* A save of the day d that breaks off at the line of the minute t, which may be
\* torn in its values or in its minute itself.  A line that has lost its minute in
\* an earlier save stands anywhere between the others.
Broken(bars, d, left) ==
  [e \in Days |-> IF e < d THEN SavedDay(bars, e) ELSE IF e > d THEN files[e] ELSE left]

FirstRows(bars, d, t) == {r \in SavedDay(bars, d) : r.ts \in 0 .. t - 1}
Remains(d, t) ==
  UNION {{old \cup torn : torn \in {{}, {Torn(t)}, {Torn(NoTime)}}} : old \in SUBSET {r \in files[d] : r.ts = NoTime}}

BrokenAt(bars, d, t) == {Broken(bars, d, FirstRows(bars, d, t) \cup rest) : rest \in Remains(d, t)}

BrokenSaves(bars) ==
  UNION {UNION {BrokenAt(bars, d, t) : t \in {r.ts : r \in SavedDay(bars, d)} \cap CutAt}
           : d \in {Day(b.ts) : b \in ToSet(bars)}}

-----------------------------------------------------------------------------
(***************************************************************************)
(* _get_minute_analysis: what is analysed and whether an entry may rest on    *)
(* it, and the cache afterwards.                                              *)
(***************************************************************************)
NeedsRefresh == loaded = NoTime \/ minute - loaded >= MinuteRefresh
BackingOff   == failed # NoTime /\ minute - failed < FetchBackoff
Fetches      == NeedsRefresh /\ ~BackingOff

Unchanged(bars, safe) == [bars |-> bars, safe |-> safe, cache |-> cached, loaded |-> loaded, failed |-> failed, saves |-> FALSE]
Refused(bars) == [Unchanged(bars, FALSE) EXCEPT !.failed = minute]

Accepted(bars) ==
  [bars |-> bars, safe |-> TRUE, cache |-> bars, loaded |-> minute, failed |-> NoTime, saves |-> TRUE]

\* mutant: what is cached is believed to be fresh
Trusted == Unchanged(cached, cached # <<>>)
Reused == Unchanged(cached, cached # <<>> /\ Fresh(cached, minute))

Regressed(bars) == cached # <<>> /\ Last(bars).ts < Last(cached).ts

\* No answer at all is as an empty one
Fetched(bars) ==
  IF bars = <<>> THEN Refused(cached)
  ELSE IF ~Fresh(bars, minute) THEN Refused(IF cached = <<>> THEN bars ELSE cached)
  ELSE IF Regressed(bars) THEN Refused(cached)
  ELSE Accepted(bars)

Answered(outcome, a) ==
  [asked |-> [asked |-> TRUE, safe |-> outcome.safe /\ a.analysis.known, analysis |-> a.analysis], said |-> a.said]

Told(outcome) ==
  IF outcome.bars = <<>> THEN [asked |-> [NoAnswer EXCEPT !.asked = TRUE], said |-> said]
  ELSE Answered(outcome, Analyze(outcome.bars, YesterdayClose, said))

Remember(outcome, told) ==
  /\ cached' = outcome.cache /\ loaded' = outcome.loaded /\ failed' = outcome.failed
  /\ answer' = told.asked /\ said' = told.said
  /\ session' = SessionAfter(outcome.cache)
  /\ UNCHANGED <<traded, made, at>>

Conclude(outcome) ==
  /\ Remember(outcome, Told(outcome)) /\ UNCHANGED mishaps
  /\ files' = IF outcome.saves THEN SavedRows(outcome.bars) ELSE files
  /\ whole' = (whole \/ outcome.saves)

PollFetches ==
  /\ Fetches
  /\ \E outcome \in {Fetched(GetMinuteBars(rows)) : rows \in Rows} : Conclude(outcome)

PollReuses == ~Fetches /\ Conclude(Reused)

Mishap == mishaps < MaxMishaps /\ mishaps' = mishaps + 1

\* Accepted bars whose save breaks off
Breaking ==
  {outcome \in {Fetched(GetMinuteBars(rows)) : rows \in Rows} : outcome.saves}

\* The disk is full: the exception is caught, and the poll goes on.
SaveFails ==
  /\ Fetches /\ Mishap
  /\ \E outcome \in Breaking :
       Remember(outcome, Told(outcome)) /\ files' \in BrokenSaves(outcome.bars)
  /\ whole' = FALSE

\* The program is started again: the files are all that is left
Forgotten ==
  /\ cached' = <<>> /\ loaded' = NoTime /\ failed' = NoTime
  /\ said' = <<>> /\ session' = NoSession /\ answer' = NoAnswer
  /\ UNCHANGED <<traded, made, at>>

StartsAgain == Mishap /\ Forgotten /\ UNCHANGED <<files, whole>>

\* It was killed while it saved.
KilledWhileSaving ==
  /\ Fetches /\ Mishap /\ Forgotten
  /\ \E outcome \in Breaking : files' \in BrokenSaves(outcome.bars)
  /\ UNCHANGED whole

\* The next minute, with a bar or without one
BarOf(k, t) ==
  LET earlier == Last(traded)
  IN [ts |-> t, high |-> k.high, low |-> k.low, close |-> k.close, volume |-> k.volume,
      acc |-> k.volume + (IF Day(earlier.ts) = Day(t) THEN earlier.acc ELSE 0)]

Begin(b) == traded' = Append(traded, b) /\ made' = made \cup {b}

Tick ==
  /\ at < Len(Times) /\ at' = at + 1
  /\ \/ \E k \in Kinds : Begin(BarOf(k, Times[at + 1]))
     \/ UNCHANGED <<traded, made>>
  /\ answer' = NoAnswer
  /\ UNCHANGED <<cached, loaded, failed, said, session, files, whole, mishaps>>

\* A trade changes the bar of the minute
Moved(b, trade) ==
  [b EXCEPT !.high = IF trade.price > @ THEN trade.price ELSE @, !.low = IF trade.price < @ THEN trade.price ELSE @,
            !.close = trade.price, !.volume = @ + trade.volume, !.acc = @ + trade.volume]

Replace(b) == traded' = [traded EXCEPT ![Len(traded)] = b] /\ made' = made \cup {b}

Trade ==
  /\ Last(traded).ts = minute /\ Cardinality(made) < Len(traded) + MaxMoves
  /\ \E trade \in Trades : Replace(Moved(Last(traded), trade))
  /\ UNCHANGED <<at, cached, loaded, failed, said, session, files, whole, answer, mishaps>>

MinuteNext == PollFetches \/ PollReuses \/ SaveFails \/ StartsAgain \/ KilledWhileSaving \/ Tick \/ Trade
MinuteSpec == MinuteInit /\ [][MinuteNext]_minuteVars

-----------------------------------------------------------------------------
Price == Last(traded).close

\* An entry on what the last poll was told, at the market's price
Enters(d) == answer.asked /\ Entry(d, answer.analysis, answer.safe, cached, Price, YesterdayClose, Price)

\* An entry rests on what the market has really been: the bars that were
\* analysed, no fewer than an entry needs, are bars of the market without one
\* left out, the newest as it was at some time of its minute, and it is not older
\* than the code allows, however the broker answered (entry_safe of
\* _get_minute_analysis).
SafeEntryIsCurrent ==
  answer.safe =>
    /\ \E n \in 1 .. Len(traded), k \in MinCount .. BarCount : \E b \in Versions(n) : cached = LastN(View(n, b), k)
    /\ minute - Last(cached).ts \in 0 .. MaxAge
    /\ Len(cached) >= MinCount

\* A row is of a bar that was, whole, of its own day and the only one of its
\* minute, or it was torn when a save broke off.
RowsAgree(d) ==
  /\ \A r \in files[d] :
       \/ r = Torn(r.ts) /\ mishaps > 0
       \/ \E b \in made : r = RowToSave(b) /\ Day(b.ts) = d
  /\ \A q, r \in files[d] : q.ts = r.ts => q = r

\* A session is that of one day and has one bar of a minute; a bar that could not
\* be read never reaches even its filter.
SessionIsOfADay ==
  /\ \A b \in session.bars : b \in made /\ InSession(b, session.day)
  /\ \A a, b \in session.bars : a.ts = b.ts => a = b
  /\ session.invalid = {} /\ \A t \in session.other : Day(t) # session.day
  /\ Ready(session) => \E b \in made : b.ts \in session.day * DayLength + Open .. session.day * DayLength + Open + 1

\* What is kept of the market's bars agrees with the market.  No file and no
\* session holds a bar that never was, or one of another day.  A bar that was kept
\* half-made is replaced: of the bars accepted last only the newest may be
\* half-made, and the session holds them as they are, and so do the files unless
\* their save broke off (MinuteBarSaver, merge_session_bars, _get_minute_analysis).
RecordsAgree ==
  /\ SessionIsOfADay /\ \A d \in Days : RowsAgree(d)
  /\ \A i \in 1 .. Len(cached) - 1 : cached[i] \in ToSet(traded)
  /\ \A b \in ToSet(cached) :
       /\ InSession(b, session.day) => b \in session.bars
       /\ whole => RowToSave(b) \in files[Day(b.ts)]

\* A rebound that an entry rests on has happened: in the market there was a
\* high, after it a low that is deep enough and not too old, and from there the
\* newest bar that was analysed has risen, not too much (_detect_v_rebound).
Rebounded(bars, p) ==
  \E j \in 2 .. Len(bars) - 1 : \E i \in 1 .. j - 1 :
    /\ Len(bars) - j \in p.minAge .. p.maxAge
    /\ (bars[i].high - bars[j].low) * 1000 >= p.drop * bars[i].high
    /\ LET rise == (Last(bars).close - bars[j].low) * 1000
       IN p.rise * bars[j].low <= rise /\ rise <= p.maxRise * bars[j].low

ReboundIsReal ==
  answer.safe /\ answer.analysis.v =>
    \E n \in 1 .. Len(traded) : Last(cached) \in Versions(n) /\ Rebounded(View(n, Last(cached)), FastV)

\* Nobody runs after a price: three percent up with a MACD below its signal, at
\* the upper band, or with nothing left up to the recent high, only an entry of
\* five points that volume or a pattern confirms is made, whatever pattern asks
\* for it and whichever strategy is selected (BreakoutStrategy, NeutralStrategy
\* and the router together).
Overheated(d, a) ==
  Chasing(d, a) \/ NoUpside(a) \/ (d.overBand /\ RegimeOf(d, Price, YesterdayClose) = "BULLISH")

NobodyChases ==
  \A d \in Daily :
    Enters(d) /\ Overheated(d, answer.analysis) =>
      /\ Score(d, answer.analysis, SlowVEnabled) >= 5
      /\ RequireConfirmation => Confirmed(d, answer.analysis)
=============================================================================
