---------------------------- MODULE HeldPosition ----------------------------
(***************************************************************************)
(* One symbol from its purchase to its sale, as _process_symbol of           *)
(* domain/service/trading_service.py watches it: where the price comes from    *)
(* (_get_market_price_with_cache), the regime and so the strategy, the highest *)
(* price, the watch over the first minutes, what bars that are not fresh may   *)
(* decide; the balance outage, in which exits are only observed; state.json     *)
(* and restarts.  Orders are OrderExecution's: here one is sent, and filled at  *)
(* some time, or refused.                                                   *)
(***************************************************************************)
EXTENDS ExitSignals

CONSTANTS
  Prices, PrevClose,      \* of the market; previous_close
  DailyRegimes,           \* what the daily bars may say
  Indicators,             \* of the day, see TrendTurned
  Analyses,               \* of the minute bars: vwap, and whether they are fresh
  Refresh, Backoff,       \* price_refresh_seconds, market_price_retry_backoff_seconds
  Tolerance,              \* new_entry_price_revalidation_tolerance_pct, in thousandths
  MaxPriceAge,            \* exit_candidate_outage_max_price_age_seconds
  MaxTime, MaxUpsets      \* bounds

ASSUME WatchAssumption ==
  /\ Prices \subseteq Nat \ {0} /\ PrevClose \in Nat \ {0} /\ DailyRegimes \subseteq Regimes
  /\ Analyses \subseteq [vwap : {"none", "above", "near", "below"}, safe : BOOLEAN]
  /\ \A m \in Analyses : m.vwap = "none" => ~m.safe
  /\ {Refresh, Backoff, Tolerance, MaxPriceAge, MaxTime, MaxUpsets} \subseteq Nat

VARIABLES
  now, price,     \* the clock and the market
  pos,            \* the account's position: its average price, or 0; the price of a BUY under way, or 0; whether a SELL is
  hidden,         \* _sold_today_qty_snapshot hides the position, and _pending_sell_side_effects wait for its end
  cache, retryAt, \* cached_market_prices and _market_price_fetch_next_retry_at
  daily,          \* cached_regime
  high, streak, entry,  \* _highest_price, vwap_break_streak_by_symbol, entry_time_by_symbol
  bought,         \* _pending_buy_side_effects
  snapshot,       \* _last_observed_positions: the average price, or 0
  outage,         \* of the balance API
  disk,           \* high and entry in state.json
  top, run,       \* history: the highest price since the purchase was decided; looks at its broken VWAP with none between that saw it whole
  upsets          \* the restarts and the answers to a SELL that were lost

market == <<now, price, pos>>
memory == <<hidden, cache, retryAt, daily, high, streak, entry, bought, snapshot, outage>>
vars   == <<market, memory, disk, top, run, upsets>>

Never   == -1
Position(avg) == [avg |-> avg, order |-> 0, sells |-> FALSE]
NoPrice == [price |-> 0, at |-> Never]
NoEntry == Never
Sells   == {"stop", "trailing", "turned", "net", "cut", "vwap", "slow"}
Lower(a, b)  == IF a < b THEN a ELSE b
Higher(a, b) == IF a > b THEN a ELSE b

Init ==
  /\ now = 0 /\ price \in Prices /\ pos = Position(0)
  /\ hidden = FALSE /\ cache = NoPrice /\ retryAt = 0 /\ daily = "UNKNOWN"
  /\ high = 0 /\ streak = 0 /\ entry = NoEntry /\ bought = FALSE /\ snapshot = 0 /\ outage = FALSE
  /\ disk = [high |-> 0, entry |-> NoEntry]
  /\ top = 0 /\ run = 0 /\ upsets = 0

Held    == pos.avg > 0
Visible == Held /\ ~hidden

-----------------------------------------------------------------------------
\* get_market_price: a price, or 0 where the answer holds none that can be read.
Quoted  == {price, 0}
NoQuote == -1     \* the call fails

\* _get_market_price_with_cache, the API answering quote
GetMarketPrice(quote) ==
  LET fallback == IF cache = NoPrice THEN "unavailable" ELSE "cache_after_failure"
  IN CASE cache # NoPrice /\ now - cache.at < Refresh ->
            [source |-> "cache_fresh", cache |-> cache, retryAt |-> retryAt]
       [] (cache = NoPrice \/ now - cache.at >= Refresh) /\ now < retryAt ->
            [source |-> fallback, cache |-> cache, retryAt |-> retryAt]
       [] OTHER ->
            IF quote # NoQuote THEN [source |-> "fetched", cache |-> [price |-> quote, at |-> now], retryAt |-> 0]
            ELSE [source |-> fallback, cache |-> cache, retryAt |-> now + Backoff]

MarketPrices == {GetMarketPrice(quote) : quote \in Quoted \cup {NoQuote}}

\* The price of a holding is asked for at every poll; the cache is what is left.
\* answer: to the first request and, if that fails, to the one of the cache.
Answers == (Quoted \X {NoQuote}) \cup ({NoQuote} \X (Quoted \cup {NoQuote}))

HoldingPrice(answer) ==
  IF answer[1] # NoQuote THEN [source |-> "fetched", cache |-> [price |-> answer[1], at |-> now], retryAt |-> retryAt]
  ELSE GetMarketPrice(answer[2])

HoldingPrices == {HoldingPrice(answer) : answer \in Answers}

\* The daily bars are read once here, if they can be: they are kept for an hour.
DailyRegime == IF daily = "UNKNOWN" THEN DailyRegimes \cup {daily} ELSE {daily}

\* _get_regime_with_cache: a large move of the day overrides the daily bars.
Regime(p, cached) ==
  CASE p > 0 /\ Pnl(PrevClose, p) >= 20 * PrevClose    -> "BULLISH"
    [] p > 0 /\ Pnl(PrevClose, p) <= -(20 * PrevClose) -> "NEUTRAL"
    [] OTHER                                            -> cached

\* Minute bars are looked at in three regimes only; elsewhere nothing waits for them.
MinuteData(regime) == IF Select(regime) = "hold" THEN {[vwap |-> "none", safe |-> TRUE]} ELSE Analyses

\* mutants: every exit waits for fresh bars; none does; bars that are not fresh are watched.
EveryExitWaits(reason, safe) == IF ~safe THEN "hold" ELSE reason
NoExitWaits(reason, safe) == reason

\* Exits that looked at minute bars wait for fresh ones, the others do not.
Permitted(reason, safe) == IF reason \in {"turned", "vwap"} /\ ~safe THEN "hold" ELSE reason

\* state.json; the count of broken VWAPs is not in it.
Saved(h, e) == [high |-> h, entry |-> e]

\* The poll of a position that is seen: what it makes of a price, a regime,
\* minute bars and indicators.
Decision(got, cached, m, day) ==
  LET p      == got.cache.price
      s      == Select(Regime(p, cached))
      h      == Higher(high, p)
      since  == IF bought THEN now ELSE entry
      watch  == IF m.safe THEN m.vwap ELSE "none"
      kept   == IF m.safe THEN streak ELSE 0
      first  == IF since = NoEntry THEN "pass" ELSE EntryWatch(pos.avg, p, now - since, watch, kept)
      reason == IF first # "pass" THEN first ELSE GenerateExit(s, pos.avg, p, h, day, m.vwap)
  IN [strategy |-> s, price |-> p, high |-> h, entry |-> since, does |-> Permitted(reason, m.safe),
      streak |-> IF since = NoEntry THEN kept
                ELSE Lower(StreakAfter(pos.avg, p, now - since, watch, kept), ConfirmCount),  \* as good as any more
      run    |-> IF ~m.safe THEN 0
                ELSE IF since = NoEntry \/ ~VwapLooked(pos.avg, p, now - since, watch) THEN run
                ELSE IF watch = "below" /\ now - since >= Grace THEN Lower(run + 1, ConfirmCount) ELSE 0]

\* An order to sell is sent, if none is under way: it is refused or taken, and then
\* its answer comes or is lost.  state.json is written before an order is sent and
\* at the end of the cycle: a crash between the two is one before the poll.
Act(decision) ==
  /\ high' = decision.high /\ entry' = decision.entry /\ streak' = decision.streak /\ run' = decision.run
  /\ bought' = FALSE
  /\ \/ UNCHANGED <<pos, hidden, upsets>>
     \/ /\ decision.does \in Sells /\ ~pos.sells
        /\ pos' = [pos EXCEPT !.sells = TRUE]
        /\ \/ hidden' = TRUE /\ UNCHANGED upsets
           \/ upsets < MaxUpsets /\ upsets' = upsets + 1 /\ UNCHANGED hidden
  /\ disk' = Saved(high', entry')

Poll ==
  /\ ~outage /\ Visible
  /\ snapshot' = pos.avg
  /\ \E got \in HoldingPrices :
       /\ cache' = got.cache /\ retryAt' = got.retryAt
       /\ IF got.source = "unavailable"
          THEN /\ entry' = (IF bought THEN now ELSE entry) /\ bought' = FALSE
               /\ UNCHANGED <<pos, hidden, daily, high, streak, disk, run, upsets>>
          ELSE \E r \in DailyRegime :
                 /\ daily' = r
                 /\ \E decision \in {Decision(got, r, m, day) :
                                        m \in MinuteData(Regime(got.cache.price, r)), day \in Indicators} :
                      Act(decision)
  /\ UNCHANGED <<now, price, outage, top>>

-----------------------------------------------------------------------------
\* Before an entry the price is asked for again, and that price is kept; the
\* entry waits if it is another one.  A price of 0 buys nothing: it divides the cash.
Revalidated(quote) == [price |-> quote, at |-> now]
MayBuyAt(decided, quote) ==
  decided > 0 /\ Higher(Pnl(decided, quote), Pnl(quote, decided)) <= Tolerance * decided

\* mutant: the highest price is kept for the next position
HighestKept == high

HighestAfterExit == 0

\* A poll that sees no position: its traces go, and it may buy.  The price of
\* the order is the one that was decided on.  The entry time goes with the
\* effects of the SELL (_apply_deferred_sell_side_effects): it stays if they were
\* lost in a restart, or with the answer.
PollWithoutPosition ==
  /\ ~outage /\ ~Visible /\ snapshot' = pos.avg
  /\ entry' = (IF hidden /\ ~Held THEN NoEntry ELSE entry)
  /\ \E got \in MarketPrices, live \in Quoted, r \in DailyRegime :
       IF got.source = "unavailable"
       THEN /\ cache' = cache /\ retryAt' = got.retryAt
            /\ UNCHANGED <<pos, hidden, daily, high, streak, bought, disk, top, run>>
       ELSE /\ retryAt' = got.retryAt /\ daily' = r
            /\ high' = HighestAfterExit /\ streak' = 0
            /\ \/ /\ ~Held /\ pos.order = 0 /\ Select(Regime(got.cache.price, r)) # "hold"
                  /\ MayBuyAt(got.cache.price, live)
                  /\ cache' = Revalidated(live)
                  /\ pos' = [pos EXCEPT !.order = got.cache.price]
                  /\ hidden' = FALSE /\ bought' = TRUE /\ top' = price /\ run' = 0
               \/ /\ cache' \in {got.cache} \cup
                       IF Held \/ Select(Regime(got.cache.price, r)) = "hold" THEN {}
                       ELSE {Revalidated(live)}
                  /\ UNCHANGED <<pos, hidden, bought, top, run>>
            /\ disk' = Saved(high', entry')
  /\ UNCHANGED <<now, price, outage, upsets>>

\* The broker: an order to buy is filled or fails, one to sell is filled.
Buys  == /\ pos.order > 0
         /\ \/ pos' = Position(pos.order) /\ UNCHANGED bought
            \/ pos' = Position(0) /\ bought' = FALSE
         /\ UNCHANGED <<now, price, hidden, cache, retryAt, daily, high, streak, entry, snapshot, outage, disk, top, run, upsets>>
Sold  == /\ pos.sells /\ pos' = Position(0) /\ top' = 0
         /\ UNCHANGED <<now, price, memory, disk, run, upsets>>

Advance ==
  /\ now < MaxTime /\ now' = now + 1 /\ price' \in Prices
  /\ top' = (IF Held \/ pos.order > 0 THEN Higher(top, price') ELSE 0)
  /\ UNCHANGED <<pos, memory, disk, run, upsets>>

-----------------------------------------------------------------------------
BalanceFails  == ~outage /\ outage' = TRUE
                 /\ UNCHANGED <<market, hidden, cache, retryAt, daily, high, streak, entry, bought, snapshot, disk, top, run, upsets>>
BalanceAnswers == outage /\ outage' = FALSE
                 /\ UNCHANGED <<market, hidden, cache, retryAt, daily, high, streak, entry, bought, snapshot, disk, top, run, upsets>>

\* mutant: an unknown regime is no reason to wait
RegimeIsKnownAlways == TRUE
RegimeIsKnown == daily # "UNKNOWN"

\* _observe_exit_candidate_for_symbol: what would be done, without the balance,
\* the move of the day or an order.  It is the position of the last balance.
Observed(got) ==
  LET p == got.cache.price
  IN IF /\ got.source # "unavailable" /\ RegimeIsKnown
        /\ Readiness(p, snapshot, now - got.cache.at, MaxPriceAge) = "ready"
     THEN ExitCandidate(Select(daily), snapshot, p, high) ELSE "deferred"

Observe ==
  /\ outage /\ snapshot > 0
  /\ \E got \in MarketPrices : cache' = got.cache /\ retryAt' = got.retryAt
  /\ UNCHANGED <<market, hidden, daily, high, streak, entry, bought, snapshot, outage, disk, top, run, upsets>>

\* A restart: state.json, put right against the balance (StateReconciler).
Restart ==
  /\ upsets < MaxUpsets /\ upsets' = upsets + 1
  /\ high' = (IF ~Held THEN 0 ELSE IF disk.high = 0 THEN price ELSE disk.high)
  /\ entry' = (IF Held THEN disk.entry ELSE NoEntry) /\ streak' = 0
  /\ hidden' = FALSE /\ bought' = FALSE /\ outage' = FALSE /\ snapshot' = 0
  /\ cache' = NoPrice /\ retryAt' = 0 /\ daily' = "UNKNOWN"
  /\ run' = 0 /\ UNCHANGED <<market, disk, top>>

Next == Poll \/ PollWithoutPosition \/ Buys \/ Sold \/ Advance
        \/ BalanceFails \/ BalanceAnswers \/ Observe \/ Restart
Spec == Init /\ [][Next]_vars

-----------------------------------------------------------------------------
\* The highest price, from which the trailing stop is reckoned, is one of this
\* position's own time: not of an earlier position and not from before the
\* purchase was decided, whatever the cache and state.json hold.
HighestIsOwn == Visible => high <= top

\* Holds of whatever a poll may decide now, and of whether its bars are fresh
EveryDecision(Test(_, _)) ==
  ~outage /\ Visible =>
    \A got \in HoldingPrices : got.source # "unavailable" =>
      \A r \in DailyRegime, day \in Indicators : \A m \in MinuteData(Regime(got.cache.price, r)) :
        Test(Decision(got, r, m, day), m.safe)

\* Bars that are not fresh, and prices that cannot be fetched anew, keep no
\* position from its stop loss or the trailing stop of its strategy.
HardExitsWork(d) ==
  StopHit(pos.avg, d.price) \/ TrailHit(d.strategy, pos.avg, d.price, d.high) => d.does \in Sells

\* An exit that rests on minute bars rests on fresh ones; one for a broken VWAP
\* comes after the grace, from the entry time that the program has, and after that
\* many looks at it, none of which saw it whole, across polls that could not look,
\* and restarts.
IndicatorExitsAreFresh(d, safe) ==
  /\ d.does \in {"turned", "vwap"} => safe
  /\ d.does = "vwap" => d.entry # NoEntry /\ now - d.entry >= Grace /\ d.run >= ConfirmCount

\* Neither what is missing nor what is left over decides an exit: prices and bars
\* that cannot be had stop no hard exit, and an exit that rests on bars has them.
ExitsAreRight == EveryDecision(LAMBDA d, safe : HardExitsWork(d) /\ IndicatorExitsAreFresh(d, safe))

\* What is observed during an outage of the balance is what the strategy would
\* do for the same price, whatever it says of the other exits; the price could
\* be read and is recent, and the regime is known.
ObservationsAgree ==
  outage /\ snapshot > 0 => \A got \in MarketPrices :
    LET row == Observed(got)
    IN row # "deferred" =>
         /\ got.cache.price > 0 /\ now - got.cache.at \in 0 .. MaxPriceAge /\ daily # "UNKNOWN"
         /\ \A day \in Indicators, vwap \in {"none", "above", "near", "below"} :
              LET does == GenerateExit(Select(daily), snapshot, got.cache.price, high, day, vwap)
              IN /\ row \in {does, "hold"}
                 /\ does \in {"stop", "trailing"} => row = does
=============================================================================
