# KIWOOM-AUTO-TRADER: a verification project

The program is an asyncio process that trades Korean stocks through the Kiwoom
REST API. Every few seconds it reads the account balance, brings a per-symbol
position state machine up to date with it, and lets strategies sell or buy.
Real orders are placed, the broker answers late or not at all, the balance
endpoint lags behind the fills, and the process can die at any line. This
project models that order path and what decides, records and reports around it,
checks the models with TLC and proves the safety of most of them with TLAPS.

## 1. Inventory

| Part | State it keeps | Operations | Interacts with | Module |
|---|---|---|---|---|
| Position lifecycle machine, `domain/position/lifecycle.py` | one `SymbolPositionState` per symbol: lifecycle, pending order id, known / base / expected quantity, orphan order, timers | one method per event: request, result, ambiguous placement, balance observation, timeout, operator command; `decide_sell`, `would_block_buy_detail` | called by the trading service only | `PositionLifecycle`, `SellGate` |
| Order path, `domain/service/trading_service.py` | the machine, order intents, deferred effects, sold-quantity snapshots, balance cache | `run_once`, `_process_symbol`, `_try_buy`, `_try_sell`, `_sync_position_state_machine_shadow`, `reconcile_after_market_close`, the two command files | broker, both files | `OrderExecution` |
| Crash recovery, `infra/storage/state_store.py`, `infra/storage/tracked_order_journal.py` | `state.json`, the tracked order journal | save, load, upsert, remove, `_restore_order_recovery_blocks` | order path | `OrderExecution` |
| Sell gates, `lifecycle.py` 683-1113 | reject backoff, forced-sell interval, blocked-since | soft blocks, throttle, escalation | `_try_sell` | `SellGate` |
| Balance outage and main loop, `trading_service.py` 956-1346, `app/main.py` | outage flag, backoff, next attempt, cooldown | enter, tick, exit; the loop and its handlers | everything | `TradingLoop` |
| Daily state, `domain/models.py`, `infra/storage/state_reconciler.py` | counters per day and symbol | roll the day, reconcile at the start | order path, loop | `TradingLoop`, `RiskGate` |
| Risk gates, `domain/risk/risk_manager.py`, `domain/service/pnl_calculator.py` | losses, entries, cool-downs; `trades.csv` | `can_place_order`, the earnings of the day, the effects of a fill | `_try_buy`, reports | `RiskGate`, `TradeAccounting` |
| Strategies and exits, `domain/strategy`, `domain/service/exit_candidate_evaluator.py` | highest price, entry time, count of broken VWAPs, cached prices and regimes | `generate_signal` of three strategies behind `StrategyRouter`, `_check_entry_watch`, the observations of an outage | `_process_symbol` | `ExitSignals`, `EntrySignals`, `HeldPosition` |
| Minute bars, `domain/market_regime` | the bars' cache, the session, the files of bars | fetch, `MinuteAnalyzer.analyze`, merge into the session, save | strategies, entry guards | `MinuteAnalysis`, `MinuteData` |
| End-of-day reports, `trading_service.py` 4703-4943 | days that wait for a final report, follow-ups that failed, retry times | register a day, report, run the analyses, bundle them | main loop | `EndOfDay` |
| Condition search, `infra/websocket/*` | socket, lists of each condition, marks | subscribe, insert, remove, reconnect, stop | `on_symbols_changed` | `ConditionSearch` |
| Watch list, `trading_service.py` 640-720, 2300-2520 | targets, exclusions and their reasons, rechecks | callbacks, cycle over the targets, recheck | condition search, `_process_symbol` | `TargetSelection`, `Watchlist` |
| Broker adapter, `infra/broker/kiwoom_broker.py`, `kiwoom_order_status.py` | tokens, retries of one order | `place_order`, order status query page by page | order path | `KiwoomBroker` |
| Order status evidence, `infra/storage/order_status_observation_store.py` | queue, writer thread, file, markers | record, write, repair at the start, shut down | `_reconcile_tracked_order_status` | `EvidenceLog`, `OrderEvidence` |
| Start and process lock, `app/main.py`, `infra/storage/process_lock.py` | lock file | start, watchers | everything | `TradingLoop` (the start) |
| Notification, logs, offline tools, desktop panel | tokens; CSV and report files; a window | send, append, analyse | nobody's control flow | none |

What is hard here, and what makes each part correct:

* **Order path.** An order whose answer was lost must not be sent again, a symbol
  with a live order must stay blocked through timeouts, restarts and operator
  commands, partial fills must be told from complete ones by a balance that is
  late, and effects on the day's counters must belong to the fill they wait for.
* **Crash recovery.** At every step, what blocks a symbol in memory must be on disk.
* **Broker adapter.** One call puts at most one order on the book, whatever is lost; a
  verdict from lists that were read page by page while the order traded is true.
* **Evidence.** A record that was readable stays readable through failed writes, kills
  and repairs, and whatever is missing has been counted.
* **Outage and main loop.** A balance that has failed is asked for again at the pace of
  its backoff, whichever branch of the loop asks; a cooldown holds in and out of hours
  and ends; a recovery outside market hours sends no order.
* **Sell gates.** A forced exit must get through the soft blocks, at a bounded
  rate, but never through a HARD block; escalation must not be reset by accident.
* **Daily state and risk.** Counters reset exactly once per day, also when a restart or an
  outage spans midnight; no entry goes out past a limit of the day; four programs that
  compute the day's result from the same rows agree.
* **Exits.** The highest price is the position's own; stale or missing data stops no hard
  exit and decides no other; an outage observes what the strategies would do.
* **Entries.** They rest on bars that are recent and of the market, a rebound has happened,
  and no order of the checks lets a weak entry run after a price.
* **Reports.** Final once, never over unresolved orders, packed with analyses of the same
  version, every day in the end.
* **Condition search and watch list.** A reconnect must not lose or resurrect targets; what
  waits for a recheck stays watched and is served; every holding is looked at.

## 2. Plan

In the order of the plan; everything named is done unless it says otherwise.

1. `PositionLifecycle`, `OrderExecution`, `OrderBook`, `OrderSafety`: the order path with
   broker, files and crashes, and the proofs about it.
2. `SellGate`: the timers of the state machine with an explicit clock.
3. `TradingLoop`: the branches of the loop, outage, cooldown, days, restarts, and the proofs.
4. `EndOfDay`: reports, follow-ups, bundle.
5. `TradeAccounting`, `RiskGate`: the day's result and the limits that read it.
6. `ExitSignals`, `HeldPosition`: exits, over the life of a position.
7. `MinuteAnalysis`, `EntrySignals`, `MinuteData`: entries, over a day of bars.
8. `ConditionSearch`, `TargetSelection`, `Watchlist`: what is traded at all.
9. `KiwoomBroker`, `EvidenceLog`, `OrderEvidence`: the adapter and the recorder.
10. Proofs about `ConditionSearch` with `Watchlist`, `OrderEvidence`, `EndOfDay`, `RiskGate`,
    `HeldPosition` with `MinuteData`, and `SellGate`, a module of proofs for each.
11. Left: a proof that the four calculations of a day agree; the status snapshot of the
    recorder; the token of the broker; notification.

How they fit together: `TradingLoop` decides when the cycle that `OrderExecution` details
may run; `SellGate` is the timed version of the choices `TrySell` and `late` that
`OrderExecution` leaves free, and both are built from the operators of
`PositionLifecycle`. `HeldPosition` and `MinuteData` decide what `OrderExecution` takes as a
wish to sell or to buy, `RiskGate` whether the wish is granted, `Watchlist` for which
symbols there can be one, from the lists of `ConditionSearch`. `KiwoomBroker` details one
`place_order` and one status query of `OrderExecution`; `OrderEvidence` composes it with the
recorder. The abstract specification is `OrderBook`.

## 3. Modules

| Module | Role |
|---|---|
| `PositionLifecycle` | the methods of `PositionStateMachine` as operators from a symbol's record to its next record, and the per-symbol part of a poll (`PollSymbol`) as their composition |
| `OrderExecution` | the specification: process, files, broker, crash; one action per step of the program between two points at which something else may happen |
| `OrderBook` | abstract specification: which orders may be outstanding together |
| `OrderSafety` | properties, the refinement `Book`, the inductive invariant `IInv` |
| `OrderClaims` | a statement of a comment that the model refutes |
| `SellGate` | one symbol with its timers: when a SELL may go out, when a PENDING state times out, when a block is escalated |
| `TradingLoop` | the polling loop: outage, cooldown, market hours, day change, restart |
| `EndOfDay` | the reports of the days and what follows them |
| `TradeAccounting` | pure: the four calculations of a day's result from the rows of `trades.csv` |
| `RiskGate` | orders with and without an answer, the counters and limits of a day, `state.json` and restarts |
| `ExitSignals`, `EntrySignals`, `MinuteAnalysis`, `TargetSelection` | pure: exits, entries and their guards, the analysis of minute bars, the choice of targets |
| `HeldPosition` | one symbol from its purchase to its sale, with caches, outage and restart |
| `MinuteData` | minute bars from the server through cache, session and files to an entry |
| `ConditionSearch` | server, connection and watcher of the condition search |
| `Watchlist` | targets, exclusions, rechecks, cycles |
| `KiwoomBroker` | one order and its status queries against an exchange that moves |
| `EvidenceLog` | the recorder: queue, writer thread, file, repair |
| `OrderEvidence` | the two composed: trading thread, writer thread, shutdown, kill, restart |
| `MC*` | the instances TLC runs |
| `OrderSafety_proofs`, `TradingLoop_proofs`, `ConditionSearch_proofs`, `OrderEvidence_proofs`, `EndOfDay_proofs`, `RiskGate_proofs`, `HeldPosition_proofs`, `SellGate_proofs` | lemmas and theorems checked by TLAPS; those about `Watchlist` are in `ConditionSearch_proofs`, those about `MinuteData` and its analysis in `HeldPosition_proofs` |

### State and actions of `OrderExecution`

| Model | Code |
|---|---|
| `psm` | `_position_state_machine._states` |
| `intents` / `savedIntents` | `state.unresolved_order_intents` in memory / in `state.json` |
| `journal` | the tracked order journal, by symbol |
| `buyCtx`, `sellCtx` | keys of `_pending_buy_side_effects`, `_pending_sell_side_effects` |
| `soldQty` | `_sold_today_qty_snapshot` |
| `view`, `cached` | the balance this cycle works with, and whether `cached_balance` still holds it |
| `stage`, `todo` | where `_run_once_with_balance` is: the forced exits, then the loop over symbols, held ones first |
| `caller`, `reply` | the symbol whose `place_order` is running, and what has come back |
| `orders`, `holdings`, `reported` | the broker: its book (and requests on the wire), the true holdings, and what the balance endpoint says |

| Action | Code |
|---|---|
| `RunOnce` | day change, `_get_balance_with_cache`, `_sync_position_state_machine_shadow` with both command files, the order-status query, the deferred effects, the clean-up of journal and intents |
| `ReconcileAfterMarketClose` | `reconcile_after_market_close` |
| `ForceExit`, `ProcessSell`, `ProcessBuy`, `Pass` | one position of `_check_force_exit_overnight`; one `_process_symbol` |
| `HandleAccepted`, `HandleRejected`, `HandleNoAnswer` | the rest of `_try_buy` / `_try_sell_unchecked` once `place_order` has returned or raised |
| `BeginLoop`, `EndCycle` | between the two walks; the save that ends `run_once` |
| `CrashRestart` | death of the process and `TradingService.__init__` with `_restore_order_recovery_blocks` |
| `Accept`, `Refuse`, `Lose`, `Fill`, `Cancel`, `CatchUp` | external: the broker |

`place_order` is a blocking call inside the event loop: no other coroutine of the
process runs between sending and handling the answer, while the broker and a
crash may act. The loop over symbols sleeps between symbols, and the broker acts
there too. Elapsed time is a free choice: any PENDING state may be found timed out
at any poll (`late`).

Two assumptions about the outside world are made and named.

* A person who writes `ack_error_*.json` or `ack_orphan_*.json` has looked at the
  broker: no order of the symbol is alive and the balance endpoint is up to date
  (`LookedUp`). The log lines of the program ask for exactly that. `StaleAcks`
  drops the assumption for a symbol that has left ERROR.
* Nobody trades in the account by hand (`OrderEvidence` allows it: there the rows of
  other orders of the symbol stand among those of the program's).

### State and actions of `SellGate`

| Model | Code |
|---|---|
| `st` | the symbol's `SymbolPositionState` without its timers |
| `gate` | `sell_reject_count`, and the ages of `sell_reject_last_at`, `last_forced_sell_at`, `blocked_since`, and of `partial_fill_since` or else `pending_since` |
| `soldQty`, `justSold` | `_sold_today_qty_snapshot`, `last_sold_at_by_symbol` |
| `order`, `holding` | the broker |
| `verdict` | what the last `decide_sell` or `check_block_escalation` returned |
| `truth` | history: the real rejections, requests and blocks, that no code resets |

| Action | Code |
|---|---|
| `Poll` | `_sync_position_state_machine_shadow` for the symbol: commands, `check_block_escalation`, balance, timeout, the resets of `_reset_transient_block_state` |
| `ForcedExits` | `_check_force_exit_overnight` |
| `ProcessSymbol` | `_process_symbol`: `_try_sell` (`TrySell`) or `_try_buy` (`TryBuy`) |
| `Tick` | time; the code compares timestamps, the model advances ages |
| `Fill`, `Cancel` | external: the broker |

The model shows why two parts of the code that look unrelated need each other: an orphan
that ends FLAT leaves `blocked_since` behind, and only the re-entry cooldown keeps a BUY
of the same cycle, itself a HARD block, from inheriting its age (`ClocksAreOwn`
fails without the cooldown, which is one of its mutants).

### State and actions of `TradingLoop`

| Model | Code |
|---|---|
| `day`, `phase`, `waits` | the clock, and the wait for the market at the start of `trading_loop` |
| `outage` | `_balance_outage_active`, `_balance_retry_interval_seconds`, the time left until `_balance_retry_next_attempt_at` |
| `cooldown` | the time left until `other_api_rate_limit_until` |
| `mem`, `disk` | `_last_reset_date`, `_last_run_date` and the day's counters; `state.json` |
| `unresolved` | `_has_unresolved_orders`, with the days of the orders |
| `did`, `truth` | what the last poll did; history: real failures, rate limits and counts |

| Action | Code |
|---|---|
| `PollInHours`, `PollAfterHours` (`Poll`) | one turn of the `while` loop of `trading_loop` with its exception handlers |
| `SkipForCooldown`, `OutageTick`, `RunOnce`, `ReconcileAfterMarketClose` | its branches |
| `Tick`, `ClockMoves` | time, and the parts of the day |
| `Restart` | death of the process, the reconciliation of `async_main`, the wait for the market |

A cycle (`RunOnceWithBalance`) may end saved, raised, or raised with a 429 of another API
(`Escapes`); in each case it may have counted fills of outstanding orders, saved them, and
sent an order. `Escapes` is TRUE, so that the loop's handlers are checked for every
exception they distinguish; section 7 says what the code below the loop lets out.

### The other modules

| Module | Model | Code |
|---|---|---|
| `EndOfDay` | `generated`, `pending`, `followups`, `wait` | `_report_generated_date`, `_eod_pending_dates`, `_eod_followups_pending`, `_eod_retry_at` |
| | `report`, `made`, `packed` | the files of a day, by version |
| | `RunEndOfDayTasks` | `_run_end_of_day_tasks` with `_run_eod_followups`: every step of it may fail |
| `RiskGate` | `rows` | today's accepted rows of `trades.csv`; a row may be torn |
| | `orders` | the orders under way; `row`: it has an accepted row, `known`: its deferred effects are in memory |
| | `counters`, `consecutive`, `cooling` | the day's counters of `RuntimeState`, `consecutive_losses`, the cool-downs |
| | `saved`, `Save`, `Restart` | `state.json`; the save at the end of a cycle; a kill, `StateStore.load` and `roll_trading_day` |
| | `TryBuy`, `TrySell` | `_try_buy` with `can_place_order` and the earnings of `calculate_daily_realized_pnl`; `_try_sell`; the answer may come, be ambiguous or be an exception |
| | `Fill` | external: the broker fills an order whether or not the program knows of it |
| | `FirstFill`, `Resolve` | the deferred effects of a BUY, of a SELL (`ExitEffects`), which need the context in memory |
| | `Acknowledge` | `ack_orphan` for an order that is over |
| `TradeAccounting` | `DailyRealizedPnl`, `BuildReport`, `BuildTradeAnalysis`, `PairTrades` | the risk manager's sum by events, the report's FIFO match, and the two analyses |
| `HeldPosition` | `pos` | external: the position, a BUY and a SELL under way |
| | `hidden` | `_sold_today_qty_snapshot` with `_pending_sell_side_effects`: set only by a SELL that was answered, lost in a restart |
| | `cache`, `retryAt`, `daily` | the caches of price and regime |
| | `high`, `streak`, `entry`, `bought` | `_highest_price`, `vwap_break_streak_by_symbol`, `entry_time_by_symbol`, `_pending_buy_side_effects` |
| | `Poll`, `PollWithoutPosition`, `Observe` | `_process_symbol` with and without a position; the observation of an outage |
| `MinuteData` | `traded`, `made` | external: the market's bars, and every one there has been, half-made ones too; `Rows` is what the server makes of them |
| | `Tick`, `Trade` | external: a minute begins, with a first trade or without; a trade changes the bar of the minute |
| | `cached`, `loaded`, `failed` | `cached_minute_bars` and its times |
| | `session`, `files` | `_session_state_by_symbol`, the files of `MinuteBarSaver` |
| | `PollFetches`, `PollReuses` | `_get_minute_analysis`, with or without a call |
| | `SaveFails`, `KilledWhileSaving` | the rewriting of a file breaks off: the exception is caught, or the process ends |
| `ConditionSearch` | `meets`, `registered`, `inbox`, `link` | external: server and socket |
| | `confirmed`, `unresolved`, `retried`, `heard` | the watcher's sets, and what the trading service was told |
| | `OnLogin`, `OnList`, `OnRegistered`, `OnError`, `OnEnter`, `OnLeave` | one message each |
| `Watchlist` | `targets`, `excluded`, `unknowns`, `lows`, `since`, `due` | `_dynamic_targets`, `_excluded_symbols`, its counters, the recheck times |
| | `SymbolsChanged`, `BeginCycle`, `Process`, `EndCycle` | `update_targets`; one cycle, symbol by symbol, with the recheck at its end |
| `KiwoomBroker` | `PlaceOrder`, `Send`, `QueryStatus`, `ReadPage`, `Judge`, `QueryFails` | one request each, with every kind of answer; the exchange moves between any two |
| `EvidenceLog` | `lines`, `tail`, `aside` | the file by lines, the bytes after the last newline, the files put aside |
| | `Take`, `WriteLine`, `WriteFails`, `WriteMarker` | `_writer_loop` |
| | `Start`, `Record`, `Stop`, `Join`, `Die` | start with its repair, `record`, `shutdown`, the kill |

## 4. Runs

| Run | Instance | What it shows |
|---|---|---|
| `orders_restart` | 2 symbols, 2 orders of 1-2 shares, 1 position, 1 crash, failing writes | `LiveOrderBlocks`, `BlockIsDurable`, `PositionLimit`; the order path implements `OrderBook`; `EffectsFollowFills`; `FilledOrderUnblocks` under `FairSpec` |
| `sell_gate` | holdings of up to 2 shares, waits in units of 30 s | `SellsAreSpaced`, `ClocksAreOwn`, `NoSellOverALiveOrder`; `WantedSellGoesOut` and `StuckIsReported` under `FairSpec` |
| `trading_loop` | Friday, Saturday, Monday; two restarts; waits in units of 30 s | `BalanceRetriesBackOff`, `CooldownHonoured`, `OrdersOnlyInHours`, `CountersFollowTheDay`; `TradingGoesOn` |
| `end_of_day` | 2 days, 2 analyses and the bundle, 3 failures, 1 restart | `BundleIsFresh`, `LeftoversAreTracked`, `FinalIsFinal`; `DaysAreFinished` |
| `risk_gate` | 2 symbols, 1 position, 2 prices, 4 orders over 2 days, 2 mishaps (restarts, lost answers, acknowledgements) | `EarningsAreKnown`, `LossLimitStopsEntries`, `LossesAreLimited`, `CalculationsAgree` |
| `held_position` | 3 prices, 3 regimes of the daily bars, 5 analyses, 1 restart or lost answer | `HighestIsOwn`, `ExitsAreRight`, `ObservationsAgree` |
| `minute_data` | 6 bars of an evening, 4 minutes, 3 kinds of bars and a trade that changes one, 6 kinds of days, a lag of 1, 1 mishap (restart or broken save) | `SafeEntryIsCurrent`, `RecordsAgree`, `ReboundIsReal`, `NobodyChases` |
| `condition_search` | 2 conditions, 1 symbol with 3 moves, 3 drops, 1 refusal, 3 messages on their way | `CopyIsCurrent`, `ListsAreRight`; `EveryConditionIsAnswered` |
| `watchlist` | 2 symbols, 1 watched at a time, 10 cycles with a change of day | `RechecksAreServed`, `WaitingStaysWatched`, `HoldingsAreVisited` |
| `evidence` | 1 order of 2 shares, 2 others, pages of 1 row, 2 queries, 2 faults, 2 processes | `OneOrderPerRequest`, `VerdictIsTrue`, `EvidenceIsKept` |
| `claim_ack_error`, `claim_cut_line` | small | one refuted statement each, see section 7 |

Why the bounds are enough.

* Orders: a BUY of two shares has a partial fill; two orders are a BUY and a SELL of one
  symbol, or one of each symbol, which is what an overlap, a lagging balance or a stale
  effect needs; two symbols are the fewest for the account-wide rule; one crash can fall
  at any of the steps, and a second one finds what the first left, since everything but
  the disk and the broker is forgotten. The safety properties are proved for all bounds.
* Sell gates: two shares allow a partial fill and a top-up. `ShortBackoff` has three waits
  for the code's five and shortens the long ones, but keeps their order among each other
  and with the decay; the comparisons of the code see nothing else of them. `MaxRejects` is
  above `MaxRetry`, so the counter reaches its limit and passes it.
* Loop: three days hold a midnight into a day without a market and one into a day with it.
  The backoff of 30, 60, 120, 180 seconds becomes 1, 2, 3, 3 units: it doubles, meets its
  maximum between two doublings and stays there. The cooldown is as long as the longest
  wait, as in the code. Two restarts: the second may fall on a later day than the first and
  find a file that the first one wrote and nothing has updated since. The proofs of section
  5 hold for any number.
* End of day: a second day is what displaces the first one's report; a run of the tasks may
  take as long as the backoff, so that the next is due at once.
* Risk: `OrderCash` buys one share or two; the limits are met by two losses. `TrailThreshold`
  is 1, as in `settings.yaml`. `OrdersBeforeNight` bounds what the first day sends before the
  reset; a position carried over by hand (`Carried`) stands for what was bought before.
  Orders fill at the price of the order. Exits are of the reason `trail`, the one with most
  effects; an exit of another reason differs in its cool-down and in `blocked` only. Two mishaps
  hide a loss twice, or hide one and then lose the counter of another. A save matters only as
  long as a restart may still read it, which is its guard. A request that is refused changes
  nothing but the file, which is `Save`.
* Held position: the three prices are a stop, a gain that starts both trailing stops and one
  that meets the safety net; in time, the grace, the watch, a refresh and a backoff fit.
  One upset is a restart or a lost answer to a SELL: either leaves the entry time behind.
  Prices and gains are per-mille integers for the code's floats. The count of broken VWAPs
  is capped where it confirms.
* Minute data: the bars of the evening end the day before, so the chart of the morning mixes
  two days; the three kinds make a plateau, a fall deep enough for a rebound and a rise. A
  unit of time is a minute. `MCDaily` has one kind of day for each branch of the regime and
  of the scores. A slow rebound looks back 6 bars for the code's 60. One trade that changes a
  bar (`MaxMoves`) gives that bar a half-made version, which an answer, the cache, the session
  and a file may have or not; `price` of `MCTrades` turns a rise into a fall. `CutAt` has a
  line of the evening's file and one of the morning's; the line at which a save breaks off may
  be complete, torn in its values or torn in its minute, and what was torn before may stay or
  go. All of this is proved for any cut and any number of trades and mishaps.
* Condition search: symbols do not interact in the watcher, which is why one is enough; two
  conditions are what a message without a condition confuses. Three drops let a registration
  survive one connection, be released in the next and be refused in the third.
* Watch list: with two symbols and one place, one waits for the other's recheck
  (`max_per_cycle` is 1). `InARow` is 2 for the code's 3. The mode is `enforce`: in `off`,
  the default, nothing is rechecked, and `shadow` releases nobody.
* Evidence: a list of up to three rows over two pages (the code allows 20) is cut by
  `MaxPages`; a row moves between the pages when an order is entered or ends. A queue of one
  record overflows. The second process finds what the first one left.

Fairness. `OrderExecution`: the trading loop polls again and again (`RunOnce`), a cycle
visits its symbols and ends (`Pass`, `BeginLoop`, `EndCycle`), `place_order` returns
because its HTTP request has a timeout (`Returned`), and the balance endpoint
catches up (`CatchUp`). Nothing is assumed of fills, of cancellations or of a person.
In `SellGate` time passes (`Tick`), polls come (`Poll`) and each cycle ends; the fairness of
`Tick` and `Poll` is strong because both need an idle stage that the cycle leaves and
returns to. In `TradingLoop` time passes, and a poll that may run a cycle runs one at last,
which is to say that the balance API, asked again and again, answers one day; nothing is
assumed of the other APIs. In `EndOfDay` the loop polls and the orders are resolved one day;
the failures are bounded. In `ConditionSearch` the loop of `start()` connects again
(`Connect`), requests go out and messages are taken, and a stopped program is started
again; drops and refusals are bounded, as the property speaks of a connection that lasts.

Deadlock is checked in the runs of the order path, the sell gates and the loop, because
these poll for ever. In the others a bound on time, orders or processes ends the behaviour
(`CHECK_DEADLOCK FALSE`).

## 5. Proofs

About the order path, everything below holds for every finite set of symbols (that does not contain the
value `None`), all order sizes and all bounds.

* `TypeCorrect` (`OrderSafety_proofs`): `Spec => []TypeOK`. `TypeOK` is inductive by
  itself, because the broker sells nothing that is not held. It rests on the lemmas about
  `PositionLifecycle` the module begins with: every transition of the machine keeps its type.
* `InvariantHolds` (`OrderSafety_proofs`): `~StaleAcks => (Spec => []IInv)`.
* From `IInv`: `OrdersNeverOverlap` (`NoOverlap`), `LiveOrdersAreBlocked`
  (`LiveOrderBlocks`), `BlocksAreDurable` (`BlockIsDurable`), `PositionsAreLimited`
  (`PositionLimit`) and `RefinesOrderBook` (`Spec` implements `OrderBook`).

`~StaleAcks` is the assumption on operators of section 3; `claim_ack_error` shows what
happens without it.

Why `IInv` is needed: none of the properties is inductive. That a symbol with a live
order is blocked says nothing of how the block will end, and a restart replaces the
block in memory by whatever the disk holds. `IInv` therefore says, for each symbol,

* how its lifecycle agrees with the broker: what a PENDING record expects is what the
  order's remaining shares and the true holding add up to, and an orphan's target can be
  reached only when the order is done;
* that whatever blocks it in memory is covered by an intent or a journal record on disk;
* `CallIsOpen`: while `place_order` runs, its order is the only one of its symbol on
  the wire, and has its intent on disk;
* `ViewIsCurrent`: a balance that still shows an earlier holding belongs to a symbol
  that is blocked, so no entry or exit is decided on it.

The proof has one lemma per action (`RunOnceSafe`, `SubmitSafe`, `AcceptedSafe`,
`FillSafe`, `RestartSafe` ...), over lemmas on the machine's answers to one balance
(`BuyArrived`, `SellArrived`, `PollAgrees`, `CommandsAgree`).

`EffectsFollow` (`EffectsFollowFills`, also under `~StaleAcks`) needs a second invariant beside
`IInv`, `EffectsInv`: `buyCtx` and `sellCtx` only name the symbols whose effects wait, while the
judgement is made on `base`, `expected` and `known` of the lifecycle record. `EffectsInv` says
that this record still belongs to the order that waits: its base is the holding from before the
order (`BasesAreRight`), no share of a BUY has been seen and the position of a SELL is not known
to be gone (`EntryWaits`, `ExitWaits`), through partial fills, timeouts and orphans; and that the
order whose `place_order` is still running has no effects yet (`CallerHasNone`). A poll then
either leaves them waiting or has seen the fill (`PollJudges`).

About the sell gates (`SellGate_proofs`), for any waits that grow up to the decay time, any
timeouts, intervals and quantities: `NoSellOverALiveOrderHolds`, `SellsAreSpacedHolds` and
`ClocksAreOwnHolds`, from `GateInv` (`GateHolds`). The three are action properties that compare
a timer with the history, so `GateInv` says how far each timer may be from what it stands for:

* `pending_since` is no older than the request (`PendingClock`); `last_forced_sell_at` is the
  history's, although it is reset, since a reset comes only when no history of the position is
  left (`ForcedClock`, `HistoryOfPosition`);
* while rejections follow one another, none is forgotten; the decay begins only where the
  history's run ends (`RejectClock`);
* `blocked_since` may outlive its block: an orphan that ends resets nothing. `BlockClock` says
  that it is then set anew before the next block can begin: by the next poll, by `decide_sell`
  for a holding that is seen, or, for a BUY, behind the re-entry cooldown. That the holding is
  seen after an orphan BUY needs the snapshot of the last SELL gone by then (`MachineIsSound`);
* an order that is alive is waited for with the right target, or the symbol is in ERROR
  (`OrderIsTracked`).

What a poll makes of a symbol is one lemma (`Polled`) with five outcomes; the step `Poll` is
proved from these alone.

About the loop (`TradingLoop_proofs`), for every number of days and restarts, any set of
days without a market and waits of any length: `LoopInvariant` (`IInv`), and from it
`WaitsNeverOverlap`, `CooldownIsHonoured` (`CooldownHonoured`), `OrdersStayInHours`
(`OrdersOnlyInHours`), `CountersStayFresh` and `CountsAreKept`, and from the last two
`CountersAreRight` (`CountersFollowTheDay`), for all constants. `CountersAreFresh` is not
inductive: it speaks of the moment of a cycle, while a midnight, a reconciliation before
the daily reset or a restart may leave yesterday's counters in memory or events of today
under yesterday's date on disk. `IInv` says what is true in between: under today's date
only today's events are found, memory is never behind the disk, and an outstanding order
was sent under a date that its intent has put on disk. The last part is needed because a
state without a date is never reset (`roll_trading_day` keeps it): a process that could
have fills to count before it ever saved a date would carry them into another day. That
an intent is saved before its order is sent rules it out. The proof has one lemma for what
a poll may have made of the memory (`CycleReached`, `ReconcileReached`), one for saving it
or not (`SaveKeeps`), and one per action (`PollKeeps`, `TickKeeps`, `ClockKeeps`, `RestartKeeps`).
`RetriesBackOff` (`BalanceRetriesBackOff`) needs no more than `OutageAgrees`, which compares the
outage of the memory with the history of failed calls; the work is in the wait itself, a power
of two in the code and the recursive function `Doubled` in the model: that such a function
exists, grows and is what the wait is capped from (`WaitsExist`, `DoubledGrows`, `WaitsValue`).

About the condition search (`ConditionSearch_proofs`), for any conditions, symbols and bounds:

* `CopyStaysCurrent` (`CopyIsCurrent`). `ListInv` adds to it that the table has one entry for
  each condition and that the copy is right while the process is stopped, too. The two
  handlers that may stay silent do so only when nothing changes (`KnownMarkChangesNothing`,
  `UnknownLeavesNothing`).
* `ListsStayRight` (`ListsAreRight`). The property speaks of a moment at which nothing is on
  its way, so `SearchInv` says what is on its way: a list that has not been taken is what the
  server knew when it sent it, and whatever has come or gone since is told by a later
  message (`ListsAreTrue`); so is what the watcher made of the lists it has taken
  (`AnsweredAreTrue`). A list would be overtaken if its condition were released meanwhile.
  It is not, because no condition has two answers in a connection and only one without an
  answer is released (`LoginIsFirst`, `AskedOnce`, `AnsweredOnce`).

About the watch list (also `ConditionSearch_proofs`), for any symbols, callbacks and sizes:

* `EveryRecheckIsServed` (`RechecksAreServed`). One recheck ends a cycle, and the oldest
  exclusion of those that are due goes first. `ServedSoon` therefore counts, for a symbol that
  waits, the others that may still go before it (`Ahead`): when its recheck is due, no more
  cycles can pass than these are. A recheck that ends moves the next one of that symbol at
  least `Cooldown` away, and all symbols fit in a cooldown (assumed in `WatchlistAssumption`,
  as the code's configuration has it); outside the hours of rechecks nothing is claimed.
* `WaitingOnesStay` (`WaitingStaysWatched`) and `EveryHoldingIsVisited` (`HoldingsAreVisited`),
  with `HoldingsAreDue`: what a cycle began with was looked at or is still to come. Both rest
  on lemmas about the lists: sorting and filtering leave out nothing that they are to keep
  (`ByCodeHasAll`, `LeavingOutHasAll`, `JoinedHasAll`), whatever the condition search has
  cut off or banned.

About the recorder and the adapter (`OrderEvidence_proofs`), for any bounds, queue and pages:

* `EvidenceKept` (`EvidenceIsKept`). `LogInv` says that a writer that is healthy has no
  unfinished line before it (`CleanEnd`), what is left when the writer or the process has
  ended (`EndedIsEmpty`), and, since a record may at any moment wait in the queue or be in
  the writer's hands, that those which neither wait nor can be read are no more than the
  count of dropped ones (`MissingIsDropped`).
* `OneOrder` (`OneOrderPerRequest`), with `OrderInv`: until the call is over nothing is
  registered, because the only answer that makes the program send again is a refusal.
* `VerdictHolds` (`VerdictIsTrue`), with `VerdictInv`. No fill is missed although the pages
  of a list are read one by one while the order trades: the list of the fills only grows,
  and grows at its head, so an order goes to later pages and never to earlier ones
  (`PlacesMoveOn`). One that had traded when the reading began, and was not met yet, is
  `Ahead` of the page read last (`AfterThePage`); and only an explicit N ends the list, so
  there is nothing ahead when the query judges. This needs the exchange's order of the
  list, newest first, which is what the model assumes of it.

About the reports (`EndOfDay_proofs`), for any days, analyses and number of failures:
`BundlesAreFresh`, `LeftoversStay` and `FinalStaysFinal` (`BundleIsFresh`,
`LeftoversAreTracked`, `FinalIsFinal`) from `EodInv`. Beside the types it says that a day
that is final is not registered again (`FinalsAreDone`), that the provisional report of a
process waits (`ProvisionalsWait`), and that the analyses which a day with work left has
behind it were made after its report (`MadeIsCurrent`): the bundle takes them as they are.

About the risk gates (`RiskGate_proofs`), for any symbols, prices, limits and number of
orders and mishaps: `LossLimitsHold` (`LossesAreLimited`). A loss is counted only when a
reconciliation sees that the SELL was filled, if the context of the SELL is still in memory
then, and it lasts only once it is saved. `LossInv` therefore says that the losses of a day
are what the counter says and what is hidden, but for one that is still unseen
(`LossesAreCounted`), and that a SELL under way is for all the shares there are
(`SellsAreCovered`), so that the symbol cannot lose twice before the first loss is seen. Of
`state.json` it says that it lacks at most one loss of a symbol and none of a symbol with an
order (`FileIsBehind`, because every order is preceded by a save), and that its losses in a
row are of different symbols as well (`FileIsSpread`). So a restart forgets one loss of a
symbol, or the effects of one order, never both: each mishap hides at most one
(`HiddenBounded`).

`EarningsStayKnown` (`EarningsAreKnown`) and `LimitStopsEntries` (`LossLimitStopsEntries`) are about
the sum that the risk manager computes anew from all rows of the day, so `EarnInv` says what
the computation would have come to after each row: the lots left are the shares held of what
was bought today, what was carried over is met by the first sale of its symbol, and the
results so far are what the account has earned, but for the sales still open (`Pending`) and
those without a row (`unseen`). Orders without an answer leave no row. A BUY of that kind has
its shares counted as carried over when they are sold, at the average price of the SELL's row,
which is right unless the symbol was sold before on the day; after a SELL of that kind the rows
hold shares that are gone. Such symbols are `missed`, and the invariant is about the states
without an order of one that has a row (`Traceable`); an order of one that fills ends `exact`.
A row that is appended is one more `Event`;
that folding one row more is the fold followed by that event is a lemma of its own.

About a held position (`HeldPosition_proofs`), for any prices, regimes, bars and times:

* `HighestStaysOwn` (`HighestIsOwn`) from `OwnSinceBought`: the same of all that the highest
  price may be made of, the price, the cached price and the copy on disk, from the moment the
  BUY is sent.
* `ExitsStayRight` (`ExitsAreRight`): every decision of a poll, taken through the tables of
  exits in their order (`FirstIsTaken`, `NoneIsTaken`). `StreakIsRun` says that
  the stored count of broken VWAPs is no more than the looks in a row.
* `ObservationsStayRight` (`ObservationsAgree`).

About the minute bars (also `HeldPosition_proofs`), for any market, kinds of bars, answers of
the broker, settings and parameters of the rebounds, from `MinuteInv` (`MinutesAreRight`):

* `SafeEntriesAreCurrent` (`SafeEntryIsCurrent`). What is cached is a window of the market: the
  last bars up to some bar, this one as it is or once was, none left out and one of a minute
  (`WindowIsCached`, `GoodWindow`). It stays one while the market goes on, since a bar that
  changes keeps what it was among `made` (`MarketIsSound`, `WindowStays`). The argument
  is about each thing the broker may do to its rows: a row that cannot be read becomes a
  bar of zeros and is not sound, one that is repeated does not ascend, a chart that is
  cut or late is still a window (`FreshIsWindow`, over `ChartIs` and `RowsAreWindow`).
  That enough bars are asked for (`MinCount <= BarCount`) is assumed, as the settings
  are refused otherwise.
* `RecordsStayRight` (`RecordsAgree`) from `SessionAgrees`, from `FilesAgree` (the rows of a day
  are of bars that were, or torn by a mishap, and one of a minute; a save that breaks off keeps
  this, wherever it does) and from `CacheIsSaved`: until a save breaks off, and after the next
  one that does not, the files hold the cached bars as they are.
* `ReboundsAreReal` (`ReboundIsReal`). `AnswerAgrees` says that a safe answer is what the cached
  window was analysed as; `FoundIsRebound` follows `_detect_v_rebound` from the bars that are
  searched to the first lowest low and the highest high before it, and `ReboundOfAll` finds
  the same places in the market.
* `NobodyEverChases` (`NobodyChases`): an argument about the strategies' decisions alone, over
  all features; the one of `NeutralStrategy` counts no slow rebound, and its score is no higher
  than the one that the statement counts (`ScoreGrows`). The statement has both halves: what is
  too late (far up with a weak MACD, at the upper band of a bull market, no room left up to the
  recent high), and what is asked for then (five points and, if the settings ask for it, a
  confirmation by volume or by a pattern).

Sums, doublings and highest values are recursive by nature. The library's theorems on
induction take an operator and cannot be used, but the one on the least element of a
well-founded set (`WFMin`) takes a set: from it come `LeastNumber` and `Induction`, with which
such a value is followed from one place to the next where it matters.

Out of the prover's reach: liveness, and what goes through `SelectSeq`, which the prover knows
nothing of. `CalculationsAgree` is built of it and of sums over the symbols in an order that is
left open; it stays with TLC.

## 6. Only model-checked, and not modelled

Only model-checked: the liveness properties `FilledOrderUnblocks`, `WantedSellGoesOut`,
`StuckIsReported`, `TradingGoesOn`, `DaysAreFinished` and `EveryConditionIsAnswered`, and
`CalculationsAgree` of the risk gates. The invariants `IInv` and `NoOverlap` and the theorem
`WaitsNeverOverlap` are proved and need no run.

Abstractions worth knowing when a property is read:

* `OrderExecution` takes the wish to sell or to buy as a free choice; the other modules say
  when there is one. Only the risk limits that bound positions are in both.
* Every module relies on the one process that the operating system's lock gives.
* Daily bars are given by what is asked of them (`MCDaily`), and the regime of a symbol by
  the daily bars or the move of the day; the cache of daily bars is "any bars, read once".
  The arithmetic of ATR, ADX, Bollinger bands, RSI and MACD is not modelled.
* The lists of the broker come newest first, one row for an order; that is assumed.
* Some histories mean to be read together with the properties: `exact` (every answered order
  of the day was filled in full, and none was of a symbol in `missed`), `unseen` (what sales
  without a row earned), `missed` (symbols whose shares are not what the rows say), `hidden`
  (losses that no counter knows), `whole` (the last save did not break off) and `repaired` (the
  start could repair the file). Section 7 says what happens otherwise.
* `ack_orphan` and `ack_error` are actions of `OrderExecution`; `RiskGate` has the first for an
  order that is over, and `HeldPosition` has neither.
* The server of `ConditionSearch` honours every request to release a condition (CNSRCLR). The
  answer 900003 therefore comes at most once for a condition in a connection, and the branch
  for a second one (`condition_watcher.py` 332-337) is never taken.
* A fill that is first seen after midnight is counted for the new day (`CountersFollowTheDay`
  speaks of the day of the count, not of the order).

Not modelled: Kakao notification, the desktop panel, the logs, the replay and the offline
tools, which decide nothing; `BottomStrategy`, which the router never selects; the history
of entry-watch evaluations, the coverage figures and the snapshot of the recorder, which are
observations only; the parsing of the balance; a `state.json` that cannot be read or has no
date; the stop request of the control panel and the mock broker's trading outside market
hours; the retries of a refused login at the start.

## 7. Disagreements found

Two statements of comments have a run that refutes them; `findings` in PROJECT.json quotes
the comments.

* `claim_ack_error`: an `ack_error` file for a symbol that is no longer in ERROR makes a
  PENDING symbol OPEN or FLAT while its order is alive; the symbol is free and a second
  order of it can go out.
* `claim_cut_line`: a record that a kill cuts inside a Korean character raises
  `UnicodeDecodeError` out of the recorder's `start()`; the recorder is off for this start
  and, since the file stays as it is, for every later one.

What else was seen while the modules were written. Each is what the code does and what the
modules therefore do; where a property had to be stated around it, the property says so.

Orders.

* The quantity snapshot of an accepted SELL outlives the SELL. When it was cancelled and
  acknowledged, the holding still equals the snapshot and is skipped.
* `ack_error` leaves the deferred effects of the symbol behind.
* A BUY that times out with nothing filled becomes an orphan and `blocked_since` is
  cleared: a block that has lasted longer than the limit is not escalated, its clock starts
  over (once; `StuckIsReported` still holds).
* After the timeout of a SELL the rest cannot be sold again; the orphan blocks it until it
  is gone or a person acknowledges it.
* An order whose answer is ambiguous or lost in an exception has no accepted row, although it
  may be filled. What a SELL of that kind loses is not in the sum that the daily loss limit
  reads (`realised - unseen` in `EarningsAreKnown` and `LossLimitStopsEntries`), and its
  effects are never applied: no counter, no cool-down.
* The effects of an exit wait in memory. A restart or an `ack_orphan` before the exit is seen
  drops them, so a third loss of a symbol becomes possible; `TwoLossesADay` allows as many
  more as are `hidden`, and no more than there were mishaps.
* `_last_buy_signal_at` is not in `state.json`: a restart ends the cool-down after a BUY signal.

Loop and reports.

* Every call of another API inside a cycle sits under a handler that swallows its 429, so
  the cooldown of `trading_loop` never starts.
* The report and the risk manager differ on a day on which a position carried over is sold,
  bought again and sold (`CarriedAgain` in `CalculationsAgree`).
* The counts of unknown regimes and of low trading value are not reset with the day.

Prices and strategies.

* A price that cannot be read is 0 (`get_market_price`, `parse_abs_int`), and 0 is below
  every stop loss: the normal cycle sells. The observations of an outage refuse it
  (`classify_exit_observation_readiness`), and so does an entry.
* While its trailing stop is active the neutral strategy never looks at the safety net,
  which README.md:233 promises to every position.
* The time of an entry is forgotten with the effects of the SELL. Where these were lost, in a
  restart or with the answer, the time stays; if after a further restart the next BUY is seen
  as a position without its own context, the grace and the watch count from the old time.
* The newest bar is cached, saved and shown to the session while its minute still runs. It is
  replaced by the next answer that has it (`merge_session_bars`, `MinuteBarSaver.save`); until
  then, and for ever if none comes, what is kept of it is half-made.
* `MinuteBarSaver` writes the CSV of the day over in place. A kill or a full disk leaves the
  lines written so far, the last one perhaps torn; what was cut off comes back only as far as
  the next answer reaches, and a line whose minute was cut stays in the file.
* An entry is "safe" on cached bars within their age although the last call failed; the
  docstring of `MinuteDataResult` reads otherwise. `v_fail_reason` may be that of an
  earlier window.

Condition search and watch list.

* The `reliable` flag does not see a condition whose REAL I arrived between two answers, and
  the marks of a symbol stay after the lists were asked for again.
* A login that the server refuses is not tried again in the connection.
* The requests of `stop()` come after the socket is closed: the server never gets them.
* A symbol that a recheck brings back after its condition has dropped it is not watched.

Recorder.

* A start that cannot read the file repairs nothing and writes on: the next record is glued
  to what is left. The properties are conditional on `repaired`.
* The shutdown marker is appended even when the file is known to be damaged.
