----------------------------- MODULE RiskGate -----------------------------
(***************************************************************************)
(* What must hold before an entry is ordered (_try_buy in                  *)
(* domain/service/trading_service.py, can_place_order in                   *)
(* domain/risk/risk_manager.py), and what fills and exits do to the        *)
(* counters it looks at.  The account is the truth; trades.csv, the        *)
(* counters and the cool-downs are what the program believes.  An order is *)
(* filled at its price, in full or in part; the rest of a part is          *)
(* cancelled.  The answer to an order may be lost: the order then has no   *)
(* accepted row, although it may be filled.  What follows of an exit is    *)
(* kept in memory only: a lost answer, a restart or an ack_orphan file     *)
(* hides it.  state.json is what the last save wrote.                      *)
(***************************************************************************)
EXTENDS TradeAccounting

CONSTANTS Symbols, Prices,
          Reasons,          \* of an exit; "neutral" is a stop loss of the NEUTRAL strategy
          OrderCash,        \* order_cash_per_trade
          StartCash, MinCashBuffer, MaxOrderAmount,
          MaxPositions, MaxEntries, MaxDailyLoss, MaxConsecutiveLosses,
          TrailThreshold,   \* trail_loss_cooldown_count
          Carried,          \* what may be held in the first morning
          MaxOrders, OrdersBeforeNight, LastDay, MaxMishaps   \* bounds; a mishap is a restart, a lost answer or an acknowledgement

ASSUME RiskAssumption ==
  /\ IsFiniteSet(Symbols) /\ Prices \subseteq Nat \ {0}
  /\ Carried \subseteq [qty : Nat \ {0}, price : Nat \ {0}]
  /\ {OrderCash, MaxPositions, MaxEntries, MaxDailyLoss, TrailThreshold} \subseteq Nat \ {0}
  /\ {StartCash, MinCashBuffer, MaxOrderAmount, MaxConsecutiveLosses, MaxOrders, OrdersBeforeNight, LastDay, MaxMishaps} \subseteq Nat

VARIABLES
  held, cash, realised, lostToday,  \* the account: shares and their price, cash, what was really earned, exits with a loss
  orders,       \* the order of each symbol that is not reconciled
  rows,         \* today's accepted rows of trades.csv
  counters,     \* entries, losses, blocked (NEUTRAL stop loss) and trail losses of each symbol
  consecutive,  \* consecutive_losses
  cooling,      \* the cool-downs of each symbol that still run
  saved,        \* state.json: counters, consecutive and cooling, and the day they are of
  exact,        \* history: every order in rows was filled in full, and none was of a missed symbol
  unseen,       \* history: what was earned today by sales that have no row
  missed,       \* history: symbols whose shares are not what the rows of today say
  hidden,       \* history: exits with a loss of each symbol that no counter knows
  sent, mishaps, day,   \* orders and mishaps so far
  entering      \* history: the symbol whose entry the last step ordered, or "none"

account == <<held, cash, realised, lostToday>>
beliefs == <<counters, consecutive, cooling>>
history == <<exact, unseen, missed, hidden>>
bounds  == <<sent, mishaps, day>>
vars    == <<account, orders, rows, beliefs, saved, history, bounds, entering>>

None    == [qty |-> 0, price |-> 0]
NoOrder == [side |-> "none"]
FreshCounters == [s \in Symbols |-> [entries |-> 0, losses |-> 0, blocked |-> FALSE, trails |-> 0]]
Fresh(d) == [day |-> d, counters |-> FreshCounters, consecutive |-> 0, cooling |-> [s \in Symbols |-> {}]]

Init ==
  /\ held \in [Symbols -> {None} \cup Carried] /\ cash = StartCash
  /\ realised = 0 /\ lostToday = [s \in Symbols |-> 0]
  /\ orders = [s \in Symbols |-> NoOrder]
  /\ rows = <<>>
  /\ counters = FreshCounters /\ consecutive = 0
  /\ cooling = [s \in Symbols |-> {}] /\ saved = Fresh(0)
  /\ exact = TRUE /\ unseen = 0 /\ missed = {} /\ hidden = [s \in Symbols |-> 0]
  /\ sent = 0 /\ mishaps = 0 /\ day = 0 /\ entering = "none"

Row(s, side, qty, price, avg) ==
  [sym |-> s, side |-> side, qty |-> qty, price |-> price, avg |-> avg, damaged |-> FALSE]
HeldSymbols == {s \in Symbols : held[s].qty > 0}

-----------------------------------------------------------------------------
\* ACCOUNT_ORDER_UNRESOLVED: the balance may not show an order that is not reconciled.
NothingUnresolved == \A s \in Symbols : orders[s] = NoOrder

\* The daily loss limit; a day that cannot be computed is refused.
WithinLossLimit == LET p == DailyRealizedPnl(rows) IN p.ok /\ p.pnl + p.carry > -MaxDailyLoss

Quantity(price) == LET q == OrderCash \div price IN IF q > 1 THEN q ELSE 1

\* RiskManager.can_place_order.
CanPlaceOrder(s, amount) ==
  /\ s \in HeldSymbols \/ Cardinality(HeldSymbols) < MaxPositions
  /\ cash - amount >= MinCashBuffer
  /\ amount <= MaxOrderAmount
  /\ WithinLossLimit
  /\ MaxConsecutiveLosses > 0 => consecutive < MaxConsecutiveLosses

\* The limits of _try_buy for one symbol: its entries, its cool-downs, its losses.
SymbolMayEnter(s) ==
  /\ counters[s].entries < MaxEntries
  /\ ~counters[s].blocked
  /\ counters[s].losses < 2
  /\ cooling[s] \cap {"signal", "reentry", "stoploss"} = {}
  /\ "trail" \in cooling[s] => counters[s].trails < TrailThreshold

\* What state.json holds after a save; the time of the last BUY signal is not in it.
StateJson == [day |-> day, counters |-> counters, consecutive |-> consecutive,
              cooling |-> [s \in Symbols |-> cooling[s] \ {"signal"}]]

Mishap == mishaps < MaxMishaps /\ mishaps' = mishaps + 1

\* _begin_order_intent writes the state, and the order is sent.  With an answer it has an
\* accepted row and what is needed for its effects; without one (is_ambiguous, or an
\* exception) it has neither.
Send(s, order, answered) ==
  /\ orders[s] = NoOrder /\ sent < MaxOrders /\ sent' = sent + 1
  /\ IF answered THEN mishaps' = mishaps ELSE Mishap
  /\ saved' = StateJson
  /\ orders' = [orders EXCEPT ![s] = order]

\* A BUY signal comes only for a symbol that is not held.
TryBuy(s, price, answered) ==
  LET qty == Quantity(price)
  IN /\ held[s].qty = 0 /\ NothingUnresolved
     /\ SymbolMayEnter(s)
     /\ Cardinality(HeldSymbols) < MaxPositions
     /\ CanPlaceOrder(s, qty * price)
     /\ Send(s, [side |-> "BUY", qty |-> qty, price |-> price, filled |-> 0, counted |-> FALSE,
                 open |-> TRUE, row |-> answered, known |-> answered], answered)
     /\ rows' = IF answered THEN Append(rows, Row(s, "BUY", qty, price, 0)) ELSE rows
     /\ entering' = s
     /\ UNCHANGED <<account, beliefs, history, day>>

\* An exit sells all shares that are held; neither limits nor losses stop it.
TrySell(s, price, reason, answered) ==
  /\ held[s].qty > 0
  /\ Send(s, [side |-> "SELL", qty |-> held[s].qty, price |-> price, reason |-> reason,
              avg |-> held[s].price, open |-> TRUE, row |-> answered, known |-> answered], answered)
  /\ rows' = IF answered THEN Append(rows, Row(s, "SELL", held[s].qty, price, held[s].price)) ELSE rows
  /\ entering' = "none"
  /\ UNCHANGED <<account, beliefs, history, day>>

-----------------------------------------------------------------------------
SoldToday(s) == \E i \in DOMAIN rows : rows[i].sym = s /\ rows[i].side = "SELL"

\* The broker fills n shares of an order and cancels the rest; an order that never reached
\* it is one of which nothing is filled.  Shares bought without a row are taken for carried
\* over when they are sold, unless the symbol was sold before today.
Fill(s, n) ==
  LET o == orders[s]
  IN /\ o # NoOrder /\ o.open /\ n \in 0..o.qty
     /\ exact' = (exact /\ (o.row => n = o.qty /\ s \notin missed))
     /\ missed' = IF ~o.row /\ n > 0 /\ (o.side = "SELL" \/ SoldToday(s)) THEN missed \cup {s} ELSE missed
     /\ \/ /\ o.side = "BUY"
           /\ held' = [held EXCEPT ![s] = IF n = 0 THEN None ELSE [qty |-> n, price |-> o.price]]
           /\ cash' = cash - n * o.price
           /\ orders' = [orders EXCEPT ![s].open = FALSE, ![s].filled = n]
           /\ UNCHANGED <<realised, unseen, lostToday>>
        \/ /\ o.side = "SELL"
           /\ held' = IF n = o.qty THEN [held EXCEPT ![s] = None] ELSE [held EXCEPT ![s].qty = @ - n]
           /\ cash' = cash + n * o.price
           /\ realised' = realised + n * (o.price - o.avg)
           /\ unseen' = IF o.row THEN unseen ELSE unseen + n * (o.price - o.avg)
           /\ lostToday' = IF n = o.qty /\ o.price < o.avg THEN [lostToday EXCEPT ![s] = @ + 1] ELSE lostToday
           /\ orders' = [orders EXCEPT ![s].open = FALSE]
     /\ entering' = "none"
     /\ UNCHANGED <<rows, beliefs, saved, hidden, bounds>>

\* _apply_first_fill_buy_side_effects: an entry counts once something of it is seen.
FirstFill(s) ==
  /\ orders[s].side = "BUY" /\ orders[s].known /\ orders[s].filled > 0 /\ ~orders[s].counted
  /\ orders' = [orders EXCEPT ![s].counted = TRUE]
  /\ counters' = [counters EXCEPT ![s].entries = @ + 1]
  /\ cooling' = [cooling EXCEPT ![s] = @ \cup {"signal"}]
  /\ entering' = "none"
  /\ UNCHANGED <<account, rows, consecutive, saved, history, bounds>>

\* The losses in a row of the account: only the first of a symbol counts.
AccountLoss(s) == IF counters[s].losses = 0 THEN consecutive + 1 ELSE consecutive

\* _apply_deferred_sell_side_effects, once the symbol is seen to be flat; the price is
\* that of the order.
ExitEffects(s) ==
  LET o    == orders[s]
      loss == o.price < o.avg
  IN /\ counters' = [counters EXCEPT
          ![s].losses  = IF loss THEN @ + 1 ELSE @,
          ![s].blocked = @ \/ o.reason = "neutral",
          ![s].trails  = IF loss /\ o.reason = "trail" THEN (IF "trail" \in cooling[s] THEN @ + 1 ELSE 1) ELSE @]
     /\ consecutive' = IF loss THEN AccountLoss(s) ELSE 0
     /\ cooling' = [cooling EXCEPT ![s] = @ \cup {"reentry"}
          \cup (IF o.reason \in {"stoploss", "neutral"} THEN {"stoploss"} ELSE {})
          \cup (IF loss /\ o.reason = "trail" THEN {"trail"} ELSE {})]

\* A person acknowledges an order that is over (ack_orphan): its effects are dropped.
Acknowledge(s) ==
  /\ orders[s] # NoOrder /\ ~orders[s].open /\ orders[s].known
  /\ Mishap
  /\ orders' = [orders EXCEPT ![s].known = FALSE]
  /\ entering' = "none"
  /\ UNCHANGED <<account, rows, beliefs, saved, history, sent, day>>

\* The reconciliation sees the end of an order, or a person has acknowledged one that is
\* over; without its context an exit has no effects.
Resolve(s) ==
  LET o == orders[s]
      left == o.side = "SELL" /\ held[s].qty = 0
  IN /\ o # NoOrder /\ ~o.open
     /\ o.side = "BUY" /\ o.known => o.counted \/ o.filled = 0
     /\ orders' = [orders EXCEPT ![s] = NoOrder]
     /\ IF left /\ o.known THEN ExitEffects(s) ELSE UNCHANGED beliefs
     /\ hidden' = IF left /\ ~o.known /\ o.price < o.avg THEN [hidden EXCEPT ![s] = @ + 1] ELSE hidden
     /\ entering' = "none"
     /\ UNCHANGED <<account, rows, saved, exact, unseen, missed, bounds>>

-----------------------------------------------------------------------------
\* The state is saved at the end of a cycle (run_once); a write that fails, or a kill, leaves
\* what the file had.  The file matters until the last restart.
Save ==
  /\ mishaps < MaxMishaps
  /\ saved # StateJson /\ saved' = StateJson
  /\ entering' = "none"
  /\ UNCHANGED <<account, orders, rows, beliefs, history, bounds>>

\* Time passes with no order under way: 10 minutes end the first cool-downs, 30 the next,
\* and an hour the last.
Elapse ==
  /\ NothingUnresolved /\ \E s \in Symbols : cooling[s] # {}
  /\ \E over \in {{"signal", "reentry"}, {"signal", "reentry", "stoploss"}, {"signal", "reentry", "stoploss", "trail"}} :
       /\ cooling' = [s \in Symbols |-> cooling[s] \ over]
       /\ saved' = [saved EXCEPT !.cooling = [s \in Symbols |-> @[s] \ over]]
  /\ entering' = "none"
  /\ UNCHANGED <<account, orders, rows, counters, consecutive, history, bounds>>

\* mutant: a restart starts the day anew.
LoadFresh(file) == Fresh(day)

\* StateStore.load and roll_trading_day: the file keeps the limits of its day.
Load(file) == IF file.day = day THEN file ELSE Fresh(day)

LossesOnFile(s) == IF saved.day = day THEN saved.counters[s].losses ELSE 0

\* The process is killed and started again: what it knew of the orders under way is lost,
\* and what was not saved; the state that was read is saved.
Restart ==
  /\ Mishap
  /\ LET file == Load(saved)
     IN /\ counters' = file.counters /\ consecutive' = file.consecutive /\ cooling' = file.cooling
        /\ saved' = file
  /\ orders' = [s \in Symbols |-> IF orders[s] = NoOrder THEN NoOrder ELSE [orders[s] EXCEPT !.known = FALSE]]
  /\ hidden' = [s \in Symbols |-> hidden[s] + (counters[s].losses - LossesOnFile(s))]
  /\ entering' = "none"
  /\ UNCHANGED <<account, rows, exact, unseen, missed, sent, day>>

\* reset_daily_loss_counts, without a save; the rows of the days before are not today's, and
\* a sale ends its cool-down overnight.
NewDay ==
  /\ sent \in 1..OrdersBeforeNight /\ day < LastDay /\ day' = day + 1
  /\ counters' = FreshCounters /\ consecutive' = 0
  /\ cooling' = [s \in Symbols |-> {}]
  /\ rows' = <<>> /\ realised' = 0 /\ lostToday' = [s \in Symbols |-> 0]
  /\ exact' = \A s \in Symbols : orders[s] = NoOrder \/ ~orders[s].open \/ ~orders[s].row
  /\ unseen' = 0 /\ missed' = {} /\ hidden' = [s \in Symbols |-> 0]
  /\ entering' = "none"
  /\ UNCHANGED <<held, cash, orders, saved, sent, mishaps>>

\* The row that was written last is damaged.
TearRow ==
  /\ NothingUnresolved /\ rows # <<>> /\ \A i \in DOMAIN rows : ~rows[i].damaged
  /\ rows' = [rows EXCEPT ![Len(rows)].damaged = TRUE]
  /\ entering' = "none"
  /\ UNCHANGED <<account, orders, beliefs, saved, history, bounds>>

Next ==
  \/ \E s \in Symbols, p \in Prices, answered \in BOOLEAN :
       TryBuy(s, p, answered) \/ \E r \in Reasons : TrySell(s, p, r, answered)
  \/ \E s \in Symbols, n \in 0..OrderCash : Fill(s, n)
  \/ \E s \in Symbols : FirstFill(s) \/ Acknowledge(s) \/ Resolve(s)
  \/ Save \/ Elapse \/ TearRow \/ NewDay \/ Restart

Spec == Init /\ [][Next]_vars

-----------------------------------------------------------------------------
\* What the risk manager computes from the orders is what the account has really earned but
\* for sales without an answer, if every order that was answered was filled in full: it is
\* neither wrong nor refused then, whatever was carried over, sold and bought again, and
\* whatever was bought without an answer.
Settled == NothingUnresolved /\ exact /\ \A i \in DOMAIN rows : ~rows[i].damaged
EarningsAreKnown ==
  Settled => LET p == DailyRealizedPnl(rows) IN p.ok /\ p.pnl + p.carry = realised - unseen

\* No entry is ordered on a day whose sales that were answered have really lost the limit, if
\* those orders were filled in full; a damaged file, a restart or a BUY without an answer does
\* not hide the loss.
LossLimitStopsEntries ==
  (entering # "none" /\ exact) => realised - unseen > -MaxDailyLoss

\* A symbol that was left twice with a loss today is not entered again, across orders of the
\* day before and exits in parts.  Only losses that are hidden are not counted, and a restart,
\* a lost answer or an acknowledgement hides one loss of a symbol at most.
TwoLossesADay ==
  /\ entering # "none" => lostToday[entering] < 2 + hidden[entering]
  /\ \A s \in Symbols : hidden[s] <= mishaps

\* The losses in a row of the account are of different symbols.
AccountLossesAreSpread ==
  consecutive <= Cardinality({s \in Symbols : counters[s].losses > 0})

\* What the account has lost is what its limits count.
LossesAreLimited == TwoLossesADay /\ AccountLossesAreSpread

\* Four calculations of one day agree on its trades and on what was carried over, if all
\* orders were filled in full and no symbol was bought again that was sold from the day before.
CarriedAgain == \E i, j \in DOMAIN rows :
  /\ i < j /\ rows[i].sym = rows[j].sym /\ rows[i].side = "SELL" /\ rows[j].side = "BUY"
  /\ ~\E k \in 1..(i - 1) : rows[k].sym = rows[i].sym
CalculationsAgree ==
  Settled =>
    LET p == DailyRealizedPnl(rows)
        rep == BuildReport(rows)
    IN /\ PairTrades(rows).pnl = p.pnl
       /\ ~CarriedAgain =>
            /\ rep.pnl = p.pnl /\ rep.carry = p.carry
            /\ GroupedLegacy(rows) = p.pnl + p.carry
            /\ BuildTradeAnalysis(rows) = [pnl |-> rep.pnl, outcomes |-> rep.outcomes]
            /\ PairTrades(rows) = BuildTradeAnalysis(rows)
=============================================================================
