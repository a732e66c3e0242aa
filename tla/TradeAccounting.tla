-------------------------- MODULE TradeAccounting --------------------------
(***************************************************************************)
(* The realised profit of a day, as the four places compute it that read     *)
(* trades.csv: the risk manager (pnl_calculator.calculate_realized_pnl_by_   *)
(* events), the summary and the trade analysis of the daily report           *)
(* (daily_reporter._build_report, _build_trade_analysis) and the analysis    *)
(* script (analyze_trades.pair_trades).  A row is an accepted order, written *)
(* when it is accepted; rows are in the order of their time.                 *)
(* A lot of q shares bought at p is q entries p in a queue of shares.        *)
(***************************************************************************)
EXTENDS Integers, Sequences, FiniteSets, SequencesExt

Lot(row)  == [i \in 1..row.qty |-> row.price]
Cost(lot) == FoldLeft(+, 0, lot)
TakenQty(lots, qty) == IF qty < Len(lots) THEN qty ELSE Len(lots)

\* What a sale of qty shares takes from the front of the queue.
Take(lots, qty) ==
  LET n == TakenQty(lots, qty)
  IN [n |-> n, cost |-> Cost(SubSeq(lots, 1, n)), left |-> SubSeq(lots, n + 1, Len(lots))]

Refused == [ok |-> FALSE, pnl |-> 0, carry |-> 0]

\* mutant: what exceeds the lots is dropped.
SellDropping(acc, row) ==
  LET t == Take(acc.lots[row.sym], row.qty)
  IN [acc EXCEPT !.lots[row.sym] = t.left, !.pnl = @ + row.price * t.n - t.cost]

\* One sale of the risk manager's computation.  What exceeds the lots has been carried
\* over, at the average price of the row, if it is the first such sale of the symbol and
\* no lot was left before it; otherwise the day cannot be computed.
SellEvent(acc, row) ==
  LET t    == Take(acc.lots[row.sym], row.qty)
      rest == row.qty - t.n
      carries == acc.lots[row.sym] = <<>> /\ row.avg > 0 /\ row.sym \notin acc.carried
      sold == [acc EXCEPT !.lots[row.sym] = t.left, !.pnl = @ + row.price * t.n - t.cost]
  IN IF rest = 0 THEN sold
     ELSE IF carries
     THEN [sold EXCEPT !.carry = @ + (row.price - row.avg) * rest, !.carried = @ \cup {row.sym}]
     ELSE [acc EXCEPT !.ok = FALSE]

BuyEvent(acc, row) == [acc EXCEPT !.lots[row.sym] = @ \o Lot(row)]

SymbolsOf(rows) == {rows[i].sym : i \in DOMAIN rows}

Event(acc, row) ==
  IF ~acc.ok THEN acc ELSE IF row.side = "BUY" THEN BuyEvent(acc, row) ELSE SellEvent(acc, row)

\* calculate_realized_pnl_by_events with strict=True: of today's trades (pnl) and of what
\* was carried over (carry), which the code adds up.
NoEvents(rows) ==
  [ok |-> TRUE, pnl |-> 0, carry |-> 0, carried |-> {}, lots |-> [s \in SymbolsOf(rows) |-> <<>>]]
ByEvents(rows) ==
  LET last == FoldLeft(Event, NoEvents(rows), rows)
  IN IF last.ok THEN [ok |-> TRUE, pnl |-> last.pnl, carry |-> last.carry] ELSE Refused

\* mutant: rows that are damaged are skipped.
PnlSkippingDamage(rows) == ByEvents(SelectSeq(rows, LAMBDA r : ~r.damaged))

\* RiskManager._calc_daily_realized_pnl: one damaged row of the day and nothing is known.
DailyRealizedPnl(rows) ==
  IF \E i \in DOMAIN rows : rows[i].damaged THEN Refused ELSE ByEvents(rows)

-----------------------------------------------------------------------------
Of(rows, s, side) == SelectSeq(rows, LAMBDA r : r.sym = s /\ r.side = side)
Bought(rows)      == {s \in SymbolsOf(rows) : Of(rows, s, "BUY") # <<>>}
SumOver(S, f(_))  == FoldLeft(LAMBDA a, s : a + f(s), 0, SetToSeq(S))
AllLots(buys)     == FoldLeft(LAMBDA q, r : q \o Lot(r), <<>>, buys)

\* daily_reporter._fifo_match: all purchases of a symbol come before all of its sales, and
\* what exceeds them is dropped.  One match for each sale that found a lot.
FifoMatch(buys, sells) ==
  FoldLeft(LAMBDA acc, r :
             LET t == Take(acc.lots, r.qty)
             IN IF t.n = 0 THEN acc
                ELSE [lots |-> t.left, matches |-> Append(acc.matches, r.price * t.n - t.cost)],
           [lots |-> AllLots(buys), matches |-> <<>>], sells).matches

\* calculate_realized_pnl_grouped_legacy(strict=True) for one symbol: the same, with what
\* exceeds the purchases taken as carried over at the average price of each row.
FifoMatchCarrying(buys, sells) ==
  FoldLeft(LAMBDA acc, r :
             LET t == Take(acc.lots, r.qty)
             IN [lots |-> t.left, pnl |-> acc.pnl + r.price * t.n - t.cost
                                          + (r.price - r.avg) * (r.qty - t.n)],
           [lots |-> AllLots(buys), pnl |-> 0], sells).pnl
GroupedLegacy(rows) ==
  SumOver(SymbolsOf(rows), LAMBDA s : FifoMatchCarrying(Of(rows, s, "BUY"), Of(rows, s, "SELL")))

\* daily_reporter._build_report, before its costs: the symbols that were bought today, the
\* sales of those that were not, and the trades won, lost and even (classify_outcome).
Count(seq, Test(_)) == Len(SelectSeq(seq, Test))
Outcomes(results) ==
  [win |-> Count(results, LAMBDA x : x > 0), loss |-> Count(results, LAMBDA x : x < 0),
   even |-> Count(results, LAMBDA x : x = 0)]
BuildReport(rows) ==
  LET matches(s) == FifoMatch(Of(rows, s, "BUY"), Of(rows, s, "SELL"))
      results == FoldLeft(LAMBDA q, s : q \o matches(s), <<>>, SetToSeq(Bought(rows)))
  IN [pnl |-> FoldLeft(+, 0, results),
      carry |-> SumOver(SymbolsOf(rows) \ Bought(rows),
                  LAMBDA s : FoldLeft(LAMBDA a, r : a + (r.price - r.avg) * r.qty, 0, Of(rows, s, "SELL"))),
      outcomes |-> Outcomes(results)]

\* mutant: a trade that ends even counts as won in the second section.
EvenIsWon(rows) ==
  LET pairs == BuildReport(rows)
  IN [pnl |-> pairs.pnl, outcomes |-> [pairs.outcomes EXCEPT !.win = @ + pairs.outcomes.even, !.even = 0]]

\* daily_reporter._build_trade_analysis: every sale of a symbol takes the next purchase.
BuildTradeAnalysis(rows) ==
  LET shortest(s) == LET b == Len(Of(rows, s, "BUY")) n == Len(Of(rows, s, "SELL")) IN IF b < n THEN b ELSE n
      pairs(s) == [i \in 1..shortest(s) |->
                     (Of(rows, s, "SELL")[i].price - Of(rows, s, "BUY")[i].price) * Of(rows, s, "SELL")[i].qty]
      results == FoldLeft(LAMBDA q, s : q \o pairs(s), <<>>, SetToSeq(SymbolsOf(rows)))
  IN [pnl |-> FoldLeft(+, 0, results), outcomes |-> Outcomes(results)]

\* analyze_trades.pair_trades: the same in the order of time, and a pair counts only if both
\* quantities are equal.
PairTrades(rows) ==
  LET event(acc, r) ==
        IF r.side = "BUY" THEN [acc EXCEPT !.buys[r.sym] = Append(@, r)]
        ELSE IF acc.buys[r.sym] = <<>> THEN acc
        ELSE LET b == Head(acc.buys[r.sym])
             IN [acc EXCEPT !.buys[r.sym] = Tail(@),
                            !.results = IF b.qty = r.qty THEN Append(@, (r.price - b.price) * r.qty) ELSE @]
      results == FoldLeft(event, [buys |-> [s \in SymbolsOf(rows) |-> <<>>], results |-> <<>>], rows).results
  IN [pnl |-> FoldLeft(+, 0, results), outcomes |-> Outcomes(results)]
=============================================================================
