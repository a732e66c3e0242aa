--------------------------- MODULE RiskGate_proofs ---------------------------
(***************************************************************************)
(* The limits on losses, for any symbols, prices, limits and bounds: what    *)
(* the account has really lost is what _try_buy and the risk manager count,   *)
(* although a loss is counted only when the symbol is seen to be flat, after   *)
(* the order was filled, and restarts and lost answers hide a loss each at      *)
(* most; and what the risk manager computes from the orders that were            *)
(* accepted is what the account has earned with them, as long as they are        *)
(* filled in full.                                                           *)
(***************************************************************************)
EXTENDS RiskGate, FiniteSetTheorems, SequenceTheorems, WellFoundedInduction, TLAPS

-----------------------------------------------------------------------------
(* The invariant                                                            *)

Shares   == [qty : Nat, price : Nat]
Buying   == [side : {"BUY"}, qty : Nat, price : Nat, filled : Nat, counted : BOOLEAN,
             open : BOOLEAN, row : BOOLEAN, known : BOOLEAN]
Selling  == [side : {"SELL"}, qty : Nat, price : Nat, reason : Reasons, avg : Nat,
             open : BOOLEAN, row : BOOLEAN, known : BOOLEAN]
Counters == [entries : Nat, losses : Nat, blocked : BOOLEAN, trails : Nat]
Cooling  == [Symbols -> SUBSET {"signal", "reentry", "stoploss", "trail"}]
File     == [day : Nat, counters : [Symbols -> Counters], consecutive : Nat, cooling : Cooling]

AccountTyped  == held \in [Symbols -> Shares] /\ lostToday \in [Symbols -> Nat]
OrdersTyped   == orders \in [Symbols -> {NoOrder} \cup Buying \cup Selling]
CountersTyped == counters \in [Symbols -> Counters] /\ consecutive \in Nat /\ cooling \in Cooling
HistoryTyped  == hidden \in [Symbols -> Nat] /\ mishaps \in Nat
FileTyped     == saved \in File /\ day \in Nat /\ saved.day <= day

Typed == AccountTyped /\ OrdersTyped /\ CountersTyped /\ HistoryTyped /\ FileTyped

\* A SELL that may still be filled is for all the shares there are.
SellsAreCovered ==
  \A s \in Symbols : orders[s].side = "SELL" /\ orders[s].open => orders[s].qty = held[s].qty

\* A loss that has happened and is not counted yet: the SELL was filled in full,
\* and the reconciliation has not seen it.
LossUnseen(s) ==
  /\ orders[s].side = "SELL" /\ ~orders[s].open
  /\ orders[s].price < orders[s].avg /\ held[s].qty = 0

LossesAreCounted ==
  \A s \in Symbols : lostToday[s] <= counters[s].losses + hidden[s] + (IF LossUnseen(s) THEN 1 ELSE 0)

\* state.json lacks one loss of a symbol at most, and none of a symbol with an order.
FileIsBehind ==
  \A s \in Symbols : /\ LossesOnFile(s) <= counters[s].losses /\ counters[s].losses <= LossesOnFile(s) + 1
                     /\ orders[s] # NoOrder => counters[s].losses = LossesOnFile(s)

\* The losses in a row that a restart would read are of different symbols.
FileIsSpread ==
  saved.day = day => saved.consecutive <= Cardinality({s \in Symbols : saved.counters[s].losses > 0})

\* An order whose end will tell the program nothing.
Unknown(s) == IF orders[s] # NoOrder /\ ~orders[s].known THEN 1 ELSE 0

\* Each mishap hides one loss of a symbol at most.
HiddenBounded == \A s \in Symbols : hidden[s] + Unknown(s) <= mishaps

FileInv == FileIsBehind /\ FileIsSpread /\ HiddenBounded

LossInv == Typed /\ SellsAreCovered /\ LossesAreCounted /\ FileInv /\ LossesAreLimited

-----------------------------------------------------------------------------
(* What keeps the counts                                                    *)

\* The symbols with a loss today, of which the losses in a row are.
Losers == {s \in Symbols : counters[s].losses > 0}

LEMMA LosersFinite == IsFiniteSet(Losers) /\ Cardinality(Losers) \in Nat
<1>1. Losers \subseteq Symbols /\ IsFiniteSet(Symbols)
  BY RiskAssumption DEF Losers
<1>2. IsFiniteSet(Losers)
  BY <1>1, FS_Subset
<1> QED
  BY <1>2, FS_CardinalityType

\* Nothing that leaves the counters of losses alone disturbs their spread.
LEMMA SpreadKept ==
  ASSUME CountersTyped, counters' \in [Symbols -> Counters], AccountLossesAreSpread,
         consecutive' = consecutive,
         \A s \in Symbols : counters'[s].losses = counters[s].losses
  PROVE  AccountLossesAreSpread'
<1>1. {s \in Symbols : counters'[s].losses > 0} = {s \in Symbols : counters[s].losses > 0}
  OBVIOUS
<1> QED
  BY <1>1 DEF AccountLossesAreSpread

LEMMA LossesTyped ==
  ASSUME Typed, NEW s \in Symbols
  PROVE  /\ counters[s].losses \in Nat /\ LossesOnFile(s) \in Nat /\ hidden[s] \in Nat /\ lostToday[s] \in Nat
         /\ Unknown(s) \in {0, 1} /\ mishaps \in Nat
BY DEF Typed, CountersTyped, HistoryTyped, AccountTyped, FileTyped, File, Counters, LossesOnFile, Unknown

LEMMA FreshTyped ==
  ASSUME NEW d \in Nat
  PROVE  /\ Fresh(d) \in File /\ FreshCounters \in [Symbols -> Counters]
         /\ \A s \in Symbols : FreshCounters[s].losses = 0
<1>1. FreshCounters \in [Symbols -> Counters] /\ \A s \in Symbols : FreshCounters[s].losses = 0
  BY DEF FreshCounters, Counters
<1>2. [s \in Symbols |-> {}] \in Cooling
  BY DEF Cooling
<1> QED
  BY <1>1, <1>2 DEF Fresh, File

LEMMA StateJsonTyped ==
  ASSUME Typed
  PROVE  /\ StateJson \in File /\ StateJson.day = day
         /\ StateJson.counters = counters /\ StateJson.consecutive = consecutive
<1>1. [s \in Symbols |-> cooling[s] \ {"signal"}] \in Cooling
  BY DEF Typed, CountersTyped, Cooling
<1> QED
  BY <1>1 DEF StateJson, File, Typed, CountersTyped, FileTyped

LEMMA HiddenLimited ==
  ASSUME Typed', HiddenBounded'
  PROVE  \A s \in Symbols : hidden'[s] <= mishaps'
<1> SUFFICES ASSUME NEW s \in Symbols PROVE hidden'[s] <= mishaps'
  OBVIOUS
<1>1. hidden'[s] + Unknown(s)' <= mishaps'
  BY DEF HiddenBounded
<1>2. hidden'[s] \in Nat /\ Unknown(s)' \in {0, 1} /\ mishaps' \in Nat
  BY DEF Typed, HistoryTyped, Unknown
<1> QED
  BY <1>1, <1>2

\* What a step that orders no entry has to keep.
LEMMA NoEntryKeeps ==
  ASSUME Typed', SellsAreCovered', LossesAreCounted', FileInv', AccountLossesAreSpread', entering' = "none"
  PROVE  LossInv'
<1>1. \A s \in Symbols : hidden'[s] <= mishaps'
  BY HiddenLimited DEF FileInv
<1>2. TwoLossesADay'
  BY <1>1 DEF TwoLossesADay
<1> QED
  BY <1>2 DEF LossInv, LossesAreLimited

\* A step that leaves state.json, the losses and the bounds alone keeps what the file lacks.
LEMMA FileKept ==
  ASSUME LossInv, Typed', UNCHANGED <<saved, day, mishaps>>,
         \A t \in Symbols : /\ counters'[t].losses = counters[t].losses
                            /\ orders'[t] # NoOrder => orders[t] # NoOrder
                            /\ hidden'[t] + Unknown(t)' <= hidden[t] + Unknown(t)
  PROVE  FileInv'
<1>1. FileIsBehind'
  BY DEF LossInv, FileInv, FileIsBehind, LossesOnFile
<1>2. FileIsSpread'
  BY DEF LossInv, FileInv, FileIsSpread
<1>3. HiddenBounded'
  <2> SUFFICES ASSUME NEW t \in Symbols PROVE (hidden[t] + Unknown(t) <= mishaps)'
    BY DEF HiddenBounded
  <2>1. hidden[t] + Unknown(t) <= mishaps
    BY DEF LossInv, FileInv, HiddenBounded
  <2>2. hidden[t] \in Nat /\ Unknown(t) \in {0, 1} /\ mishaps \in Nat
    BY LossesTyped DEF LossInv
  <2>3. hidden'[t] \in Nat /\ Unknown(t)' \in {0, 1}
    BY DEF Typed, HistoryTyped, Unknown
  <2> QED
    BY <2>1, <2>2, <2>3
<1> QED
  BY <1>1, <1>2, <1>3 DEF FileInv

\* After a save nothing is missing in the file.
LEMMA FileSaved ==
  ASSUME LossInv, saved' = StateJson, UNCHANGED <<counters, consecutive, day>>
  PROVE  FileIsBehind' /\ FileIsSpread'
<1>1. /\ saved'.day = day /\ saved'.counters = counters /\ saved'.consecutive = consecutive
  BY StateJsonTyped DEF LossInv
<1>2. ASSUME NEW t \in Symbols PROVE LossesOnFile(t)' = counters[t].losses /\ counters[t].losses \in Nat
  BY <1>1, LossesTyped DEF LossesOnFile, LossInv
<1>3. FileIsBehind'
  BY <1>2 DEF FileIsBehind
<1>4. FileIsSpread'
  BY <1>1 DEF FileIsSpread, LossInv, LossesAreLimited, AccountLossesAreSpread
<1> QED
  BY <1>3, <1>4

-----------------------------------------------------------------------------
(* The orders                                                               *)

\* Whatever is ordered: its symbol had no order, and the file has all losses.
LEMMA SendKeeps ==
  ASSUME LossInv, NEW s \in Symbols, NEW answered \in BOOLEAN, NEW o \in Buying \cup Selling,
         o.known = answered, Send(s, o, answered),
         UNCHANGED <<held, lostToday, counters, consecutive, cooling, hidden, day>>
  PROVE  Typed' /\ FileInv' /\ LossesAreCounted'
<1>1. /\ orders[s] = NoOrder /\ orders' = [orders EXCEPT ![s] = o] /\ saved' = StateJson
      /\ mishaps' = IF answered THEN mishaps ELSE mishaps + 1
  BY DEF Send, Mishap
<1>2. orders'[s] = o /\ \A t \in Symbols : t # s => orders'[t] = orders[t]
  BY <1>1 DEF LossInv, Typed, OrdersTyped
<1>3. AccountTyped' /\ CountersTyped'
  BY DEF LossInv, Typed, AccountTyped, CountersTyped
<1>4. OrdersTyped'
  BY <1>1 DEF LossInv, Typed, OrdersTyped
<1>5. HistoryTyped'
  BY <1>1 DEF LossInv, Typed, HistoryTyped
<1>6. FileTyped'
  BY <1>1, StateJsonTyped DEF LossInv, Typed, FileTyped
<1>7. Typed'
  BY <1>3, <1>4, <1>5, <1>6 DEF Typed
<1>8. FileIsBehind' /\ FileIsSpread'
  BY <1>1, FileSaved
<1>9. HiddenBounded'
  <2> SUFFICES ASSUME NEW t \in Symbols PROVE (hidden[t] + Unknown(t) <= mishaps)'
    BY DEF HiddenBounded
  <2>1. hidden[t] + Unknown(t) <= mishaps
    BY DEF LossInv, FileInv, HiddenBounded
  <2>2. /\ hidden[t] \in Nat /\ Unknown(t) \in {0, 1} /\ mishaps \in Nat
        /\ hidden'[t] = hidden[t]
    BY LossesTyped DEF LossInv
  <2>3. CASE t = s
    <3>1. Unknown(s) = 0
      BY <1>1 DEF Unknown
    <3>2. Unknown(s)' = IF answered THEN 0 ELSE 1
      BY <1>2 DEF Unknown, NoOrder, Buying, Selling
    <3> QED
      BY <1>1, <2>1, <2>2, <2>3, <3>1, <3>2
  <2>4. CASE t # s
    <3>1. Unknown(t)' = Unknown(t)
      BY <1>2, <2>4 DEF Unknown
    <3> QED
      BY <1>1, <2>1, <2>2, <3>1
  <2> QED
    BY <2>3, <2>4
<1>10. LossesAreCounted'
  <2> SUFFICES ASSUME NEW t \in Symbols
               PROVE  (lostToday[t] <= counters[t].losses + hidden[t] + (IF LossUnseen(t) THEN 1 ELSE 0))'
    BY DEF LossesAreCounted
  <2>1. lostToday[t] <= counters[t].losses + hidden[t] + (IF LossUnseen(t) THEN 1 ELSE 0)
    BY DEF LossInv, LossesAreCounted
  <2>2. LossUnseen(t) => t # s
    BY <1>1 DEF LossUnseen, NoOrder
  <2>3. LossUnseen(t) => LossUnseen(t)'
    BY <1>2, <2>2 DEF LossUnseen
  <2>4. lostToday[t] \in Nat /\ counters[t].losses \in Nat /\ hidden[t] \in Nat
    BY LossesTyped DEF LossInv
  <2> QED
    BY <2>1, <2>3, <2>4
<1> QED
  BY <1>7, <1>8, <1>9, <1>10 DEF FileInv

\* An entry is for a symbol whose losses have all been counted: it has no order.
LEMMA TryBuyKeeps ==
  ASSUME LossInv, NEW s \in Symbols, NEW p \in Prices, NEW answered \in BOOLEAN, TryBuy(s, p, answered)
  PROVE  LossInv'
<1> DEFINE new == [side |-> "BUY", qty |-> Quantity(p), price |-> p, filled |-> 0,
                   counted |-> FALSE, open |-> TRUE, row |-> answered, known |-> answered]
<1>1. /\ SymbolMayEnter(s) /\ Send(s, new, answered)
      /\ UNCHANGED <<held, lostToday, counters, consecutive, cooling, hidden, day>> /\ entering' = s
  BY DEF TryBuy, account, beliefs, history
<1>2. Quantity(p) \in Nat /\ p \in Nat
  BY RiskAssumption DEF Quantity
<1>3. new \in Buying /\ new.known = answered
  BY <1>2 DEF Buying
<1>4. Typed' /\ FileInv' /\ LossesAreCounted'
  BY <1>1, <1>3, SendKeeps
<1>5. orders[s] = NoOrder /\ orders' = [orders EXCEPT ![s] = new]
  BY <1>1 DEF Send
<1>6. SellsAreCovered'
  BY <1>1, <1>5 DEF LossInv, SellsAreCovered, Typed, OrdersTyped
<1>7. \A t \in Symbols : hidden'[t] <= mishaps'
  BY <1>4, HiddenLimited DEF FileInv
<1>8. TwoLossesADay'
  <2>1. ~LossUnseen(s)
    BY <1>5 DEF LossUnseen, NoOrder
  <2>2. lostToday[s] <= counters[s].losses + hidden[s]
    BY <2>1, LossesTyped DEF LossInv, LossesAreCounted
  <2>3. counters[s].losses < 2
    BY <1>1 DEF SymbolMayEnter
  <2>4. lostToday[s] \in Nat /\ counters[s].losses \in Nat /\ hidden[s] \in Nat
    BY LossesTyped DEF LossInv
  <2>5. lostToday[s] < 2 + hidden[s]
    BY <2>2, <2>3, <2>4
  <2> QED
    BY <1>1, <1>7, <2>5 DEF TwoLossesADay
<1>9. AccountLossesAreSpread'
  BY <1>1, <1>4, SpreadKept DEF LossInv, Typed, LossesAreLimited, CountersTyped
<1> QED
  BY <1>4, <1>6, <1>8, <1>9 DEF LossInv, LossesAreLimited

LEMMA TrySellKeeps ==
  ASSUME LossInv, NEW s \in Symbols, NEW p \in Prices, NEW r \in Reasons, NEW answered \in BOOLEAN,
         TrySell(s, p, r, answered)
  PROVE  LossInv'
<1> DEFINE new == [side |-> "SELL", qty |-> held[s].qty, price |-> p, reason |-> r,
                   avg |-> held[s].price, open |-> TRUE, row |-> answered, known |-> answered]
<1>1. /\ Send(s, new, answered) /\ entering' = "none"
      /\ UNCHANGED <<held, lostToday, counters, consecutive, cooling, hidden, day>>
  BY DEF TrySell, account, beliefs, history
<1>2. held[s].qty \in Nat /\ held[s].price \in Nat /\ p \in Nat
  BY RiskAssumption DEF LossInv, Typed, AccountTyped, Shares
<1>3. new \in Selling /\ new.known = answered
  BY <1>2 DEF Selling
<1>4. Typed' /\ FileInv' /\ LossesAreCounted'
  BY <1>1, <1>3, SendKeeps
<1>5. orders' = [orders EXCEPT ![s] = new]
  BY <1>1 DEF Send
<1>6. SellsAreCovered'
  BY <1>1, <1>5 DEF LossInv, SellsAreCovered, Typed, OrdersTyped
<1>7. AccountLossesAreSpread'
  BY <1>1, <1>4, SpreadKept DEF LossInv, Typed, LossesAreLimited, CountersTyped
<1> QED
  BY <1>1, <1>4, <1>6, <1>7, NoEntryKeeps

\* The broker fills a BUY: no loss comes of it.
LEMMA FillBuyKeeps ==
  ASSUME LossInv, NEW s \in Symbols, NEW n \in 0..OrderCash, Fill(s, n), orders[s].side = "BUY"
  PROVE  LossInv'
<1> DEFINE o == orders[s]
<1>1. /\ o # NoOrder /\ orders' = [orders EXCEPT ![s].open = FALSE, ![s].filled = n]
      /\ held' = [held EXCEPT ![s] = IF n = 0 THEN None ELSE [qty |-> n, price |-> o.price]]
      /\ UNCHANGED <<lostToday, counters, consecutive, cooling, saved, hidden, mishaps, day>>
      /\ entering' = "none"
  BY DEF Fill, beliefs, bounds
<1>2. n \in Nat /\ o \in Buying
  BY RiskAssumption DEF LossInv, Typed, OrdersTyped, NoOrder, Selling
<1> DEFINE new == [o EXCEPT !.open = FALSE, !.filled = n]
<1>3. new \in Buying /\ new.known = o.known /\ orders' = [orders EXCEPT ![s] = new]
  BY <1>1, <1>2 DEF LossInv, Typed, OrdersTyped, Buying
<1>4. /\ \A t \in Symbols : t # s => orders'[t] = orders[t] /\ held'[t] = held[t]
      /\ orders'[s] = new /\ new.side = "BUY"
  BY <1>1, <1>2, <1>3 DEF LossInv, Typed, OrdersTyped, AccountTyped, Buying
<1> HIDE DEF new
<1>5. Typed'
  <2>1. AccountTyped'
    BY <1>1, <1>2 DEF LossInv, Typed, AccountTyped, Shares, None, Buying
  <2>2. OrdersTyped'
    BY <1>3 DEF LossInv, Typed, OrdersTyped
  <2>3. CountersTyped' /\ HistoryTyped' /\ FileTyped'
    BY <1>1 DEF LossInv, Typed, CountersTyped, HistoryTyped, FileTyped
  <2> QED
    BY <2>1, <2>2, <2>3 DEF Typed
<1>6. SellsAreCovered'
  BY <1>4 DEF LossInv, SellsAreCovered
<1>7. FileInv'
  <2>1. ASSUME NEW t \in Symbols
        PROVE  (orders'[t] # NoOrder => orders[t] # NoOrder) /\ Unknown(t)' = Unknown(t)
    <3>1. CASE t = s
      <4>1. new # NoOrder /\ orders[s] # NoOrder /\ orders'[s] = new /\ new.known = orders[s].known
        BY <1>1, <1>3, <1>4 DEF NoOrder
      <4> QED
        BY <3>1, <4>1 DEF Unknown
    <3>2. CASE t # s
      BY <1>4, <3>2 DEF Unknown
    <3> QED
      BY <3>1, <3>2
  <2>2. \A t \in Symbols : hidden'[t] + Unknown(t)' <= hidden[t] + Unknown(t)
    BY <1>1, <2>1, LossesTyped DEF LossInv
  <2> QED
    BY <1>1, <1>5, <2>1, <2>2, FileKept
<1>8. LossesAreCounted'
  <2> SUFFICES ASSUME NEW t \in Symbols
               PROVE  (lostToday[t] <= counters[t].losses + hidden[t] + (IF LossUnseen(t) THEN 1 ELSE 0))'
    BY DEF LossesAreCounted
  <2>1. LossUnseen(t)' <=> LossUnseen(t)
    BY <1>4 DEF LossUnseen
  <2> QED
    BY <1>1, <2>1 DEF LossInv, LossesAreCounted
<1>9. AccountLossesAreSpread'
  BY <1>1, <1>5, SpreadKept DEF LossInv, Typed, LossesAreLimited, CountersTyped
<1> QED
  BY <1>1, <1>5, <1>6, <1>7, <1>8, <1>9, NoEntryKeeps

\* A SELL that is filled in full below the price of its shares is a loss of the
\* account before it is one of the counters.
LEMMA FillSellKeeps ==
  ASSUME LossInv, NEW s \in Symbols, NEW n \in 0..OrderCash, Fill(s, n), orders[s].side = "SELL"
  PROVE  LossInv'
<1> DEFINE o == orders[s]
           lost == n = o.qty /\ o.price < o.avg
<1>1. /\ o # NoOrder /\ o.open /\ n \in 0..o.qty
      /\ orders' = [orders EXCEPT ![s].open = FALSE]
      /\ n = o.qty => held' = [held EXCEPT ![s] = None]
      /\ n # o.qty => held' = [held EXCEPT ![s].qty = @ - n]
      /\ lostToday' = IF lost THEN [lostToday EXCEPT ![s] = @ + 1] ELSE lostToday
      /\ UNCHANGED <<counters, consecutive, cooling, saved, hidden, mishaps, day>>
      /\ entering' = "none"
  BY DEF Fill, beliefs, bounds
<1>2. o \in Selling
  BY DEF LossInv, Typed, OrdersTyped, NoOrder, Buying
<1>3. n \in Nat /\ o.qty = held[s].qty /\ held[s].qty - n \in Nat /\ held[s] \in Shares
  <2>1. o.qty = held[s].qty /\ held[s] \in Shares
    BY <1>1 DEF LossInv, SellsAreCovered, Typed, AccountTyped
  <2>2. n \in Nat /\ n <= o.qty /\ o.qty \in Nat
    BY <1>1, <1>2 DEF Selling
  <2> QED
    BY <2>1, <2>2
<1>4. AccountTyped'
  <2>1. (IF n = o.qty THEN None ELSE [held[s] EXCEPT !.qty = @ - n]) \in Shares
    BY <1>3 DEF Shares, None
  <2>2. held \in [Symbols -> Shares]
    BY DEF LossInv, Typed, AccountTyped
  <2>3. held' \in [Symbols -> Shares]
    <3>1. CASE n = o.qty
      BY <1>1, <2>1, <2>2, <3>1
    <3>2. CASE n # o.qty
      <4> DEFINE rest == [held[s] EXCEPT !.qty = @ - n]
      <4>1. rest \in Shares
        BY <2>1, <3>2
      <4>2. held' = [held EXCEPT ![s] = rest]
        BY <1>1, <2>2, <3>2
      <4> HIDE DEF rest
      <4> QED
        BY <2>2, <4>1, <4>2
    <3> QED
      BY <3>1, <3>2
  <2>4. lostToday' \in [Symbols -> Nat]
    BY <1>1 DEF LossInv, Typed, AccountTyped
  <2> QED
    BY <2>3, <2>4 DEF AccountTyped
<1> DEFINE new == [o EXCEPT !.open = FALSE]
<1>5. new \in Selling /\ new.known = o.known /\ new.open = FALSE /\ new.price = o.price /\ new.avg = o.avg
  BY <1>2 DEF Selling
<1>6. orders' = [orders EXCEPT ![s] = new]
  BY <1>1 DEF LossInv, Typed, OrdersTyped
<1>7. /\ \A t \in Symbols : t # s => orders'[t] = orders[t] /\ held'[t] = held[t] /\ lostToday'[t] = lostToday[t]
      /\ orders'[s] = new /\ new.side = "SELL"
  BY <1>1, <1>5, <1>6 DEF LossInv, Typed, OrdersTyped, AccountTyped, Selling
<1> HIDE DEF new
<1>8. Typed'
  <2>1. OrdersTyped'
    BY <1>5, <1>6 DEF LossInv, Typed, OrdersTyped
  <2>2. CountersTyped' /\ HistoryTyped' /\ FileTyped'
    BY <1>1 DEF LossInv, Typed, CountersTyped, HistoryTyped, FileTyped
  <2> QED
    BY <1>4, <2>1, <2>2 DEF Typed
<1>9. SellsAreCovered'
  BY <1>5, <1>7 DEF LossInv, SellsAreCovered
<1>10. FileInv'
  <2>1. \A t \in Symbols : (orders'[t] # NoOrder => orders[t] # NoOrder) /\ Unknown(t)' = Unknown(t)
    BY <1>1, <1>5, <1>7 DEF Unknown, NoOrder, Selling
  <2>2. \A t \in Symbols : hidden'[t] + Unknown(t)' <= hidden[t] + Unknown(t)
    BY <1>1, <2>1, LossesTyped DEF LossInv
  <2> QED
    BY <1>1, <1>8, <2>1, <2>2, FileKept
<1>11. LossesAreCounted'
  <2> SUFFICES ASSUME NEW t \in Symbols
               PROVE  (lostToday[t] <= counters[t].losses + hidden[t] + (IF LossUnseen(t) THEN 1 ELSE 0))'
    BY DEF LossesAreCounted
  <2>1. CASE t # s
    <3>1. LossUnseen(t)' <=> LossUnseen(t)
      BY <1>7, <2>1 DEF LossUnseen
    <3> QED
      BY <1>1, <1>7, <2>1, <3>1 DEF LossInv, LossesAreCounted
  <2>2. CASE t = s
    <3>1. ~LossUnseen(s)
      BY <1>1 DEF LossUnseen
    <3>2. /\ lostToday[s] <= counters[s].losses + hidden[s]
          /\ lostToday[s] \in Nat /\ counters[s].losses \in Nat /\ hidden[s] \in Nat
      BY <3>1, LossesTyped DEF LossInv, LossesAreCounted
    <3>3. counters'[s].losses = counters[s].losses /\ hidden'[s] = hidden[s]
      BY <1>1
    <3>4. CASE lost
      <4>1. held'[s].qty = 0
        BY <1>1, <3>4 DEF LossInv, Typed, AccountTyped, None
      <4>2. orders'[s].side = "SELL" /\ ~orders'[s].open /\ orders'[s].price < orders'[s].avg
        BY <1>5, <1>7, <3>4
      <4>3. LossUnseen(s)'
        BY <4>1, <4>2 DEF LossUnseen
      <4>4. lostToday'[s] = lostToday[s] + 1
        BY <1>1, <3>4 DEF LossInv, Typed, AccountTyped
      <4> QED
        BY <2>2, <3>2, <3>3, <4>3, <4>4
    <3>5. CASE ~lost
      <4>1. lostToday'[s] = lostToday[s]
        BY <1>1, <3>5
      <4> QED
        BY <2>2, <3>2, <3>3, <4>1
    <3> QED
      BY <3>4, <3>5
  <2> QED
    BY <2>1, <2>2
<1>12. AccountLossesAreSpread'
  BY <1>1, <1>8, SpreadKept DEF LossInv, Typed, LossesAreLimited, CountersTyped
<1> QED
  BY <1>1, <1>8, <1>9, <1>10, <1>11, <1>12, NoEntryKeeps

LEMMA FirstFillKeeps ==
  ASSUME LossInv, NEW s \in Symbols, FirstFill(s)
  PROVE  LossInv'
<1> DEFINE new == [orders[s] EXCEPT !.counted = TRUE]
<1>1. /\ orders[s].side = "BUY"
      /\ orders' = [orders EXCEPT ![s].counted = TRUE]
      /\ counters' = [counters EXCEPT ![s].entries = @ + 1]
      /\ cooling' = [cooling EXCEPT ![s] = @ \cup {"signal"}]
      /\ UNCHANGED <<held, lostToday, consecutive, saved, hidden, mishaps, day>>
      /\ entering' = "none"
  BY DEF FirstFill, account, history, bounds
<1>2. orders[s] \in Buying
  BY <1>1 DEF LossInv, Typed, OrdersTyped, NoOrder, Selling
<1>3. new \in Buying /\ new.known = orders[s].known /\ orders' = [orders EXCEPT ![s] = new]
  BY <1>1, <1>2 DEF LossInv, Typed, OrdersTyped, Buying
<1>4. /\ \A t \in Symbols : t # s => orders'[t] = orders[t]
      /\ orders'[s] = new /\ new.side = "BUY"
  BY <1>3 DEF LossInv, Typed, OrdersTyped, Buying
<1> HIDE DEF new
<1>5. CountersTyped' /\ \A t \in Symbols : counters'[t].losses = counters[t].losses
  <2>1. counters' \in [Symbols -> Counters] /\ \A t \in Symbols : counters'[t].losses = counters[t].losses
    BY <1>1 DEF LossInv, Typed, CountersTyped, Counters
  <2>2. cooling' \in Cooling
    BY <1>1 DEF LossInv, Typed, CountersTyped, Cooling
  <2> QED
    BY <1>1, <2>1, <2>2 DEF LossInv, Typed, CountersTyped
<1>6. Typed'
  <2>1. OrdersTyped'
    BY <1>3 DEF LossInv, Typed, OrdersTyped
  <2>2. AccountTyped' /\ HistoryTyped' /\ FileTyped'
    BY <1>1 DEF LossInv, Typed, AccountTyped, HistoryTyped, FileTyped
  <2> QED
    BY <1>5, <2>1, <2>2 DEF Typed
<1>7. SellsAreCovered'
  BY <1>1, <1>4 DEF LossInv, SellsAreCovered
<1>8. FileInv'
  <2>1. \A t \in Symbols : (orders'[t] # NoOrder => orders[t] # NoOrder) /\ Unknown(t)' = Unknown(t)
    <3>1. orders[s] # NoOrder
      BY <1>1 DEF NoOrder
    <3> QED
      BY <1>1, <1>3, <1>4, <3>1 DEF Unknown, NoOrder, Buying
  <2>2. \A t \in Symbols : hidden'[t] + Unknown(t)' <= hidden[t] + Unknown(t)
    BY <1>1, <2>1, LossesTyped DEF LossInv
  <2> QED
    BY <1>1, <1>5, <1>6, <2>1, <2>2, FileKept
<1>9. LossesAreCounted'
  <2> SUFFICES ASSUME NEW t \in Symbols
               PROVE  (lostToday[t] <= counters[t].losses + hidden[t] + (IF LossUnseen(t) THEN 1 ELSE 0))'
    BY DEF LossesAreCounted
  <2>1. LossUnseen(t)' <=> LossUnseen(t)
    BY <1>1, <1>4 DEF LossUnseen
  <2> QED
    BY <1>1, <1>5, <2>1 DEF LossInv, LossesAreCounted
<1>10. AccountLossesAreSpread'
  BY <1>1, <1>5, SpreadKept DEF LossInv, Typed, LossesAreLimited, CountersTyped
<1> QED
  BY <1>1, <1>6, <1>7, <1>8, <1>9, <1>10, NoEntryKeeps

-----------------------------------------------------------------------------
(* The end of an order, and time                                            *)

\* What follows of an order whose end is seen, for the counters: the losses of its
\* symbol, and the losses in a row.
LEMMA ExitCounts ==
  ASSUME LossInv, NEW s \in Symbols, ExitEffects(s)
  PROVE  LET loss == orders[s].price < orders[s].avg
         IN  /\ cooling' \in Cooling
             /\ counters' \in [Symbols -> Counters]
             /\ \A t \in Symbols \ {s} : counters'[t].losses = counters[t].losses
             /\ counters'[s].losses = IF loss THEN counters[s].losses + 1 ELSE counters[s].losses
             /\ consecutive' = IF loss THEN AccountLoss(s) ELSE 0
<1> DEFINE o == orders[s]
           loss == o.price < o.avg
           c == [counters[s] EXCEPT
                  !.losses  = IF loss THEN @ + 1 ELSE @,
                  !.blocked = @ \/ o.reason = "neutral",
                  !.trails  = IF loss /\ o.reason = "trail" THEN (IF "trail" \in cooling[s] THEN @ + 1 ELSE 1) ELSE @]
<1>1. counters \in [Symbols -> Counters] /\ counters[s] \in Counters
  BY DEF LossInv, Typed, CountersTyped
<1>2. counters' = [counters EXCEPT ![s] = c]
  BY <1>1 DEF ExitEffects
<1> DEFINE losses  == IF loss THEN counters[s].losses + 1 ELSE counters[s].losses
           blocked == counters[s].blocked \/ o.reason = "neutral"
           trails  == IF loss /\ o.reason = "trail"
                      THEN (IF "trail" \in cooling[s] THEN counters[s].trails + 1 ELSE 1)
                      ELSE counters[s].trails
<1>3. c \in Counters /\ c.losses = losses
  <2>1. losses \in Nat /\ trails \in Nat /\ blocked \in BOOLEAN
    BY <1>1 DEF Counters
  <2>2. c = [counters[s] EXCEPT !.losses = losses, !.blocked = blocked, !.trails = trails]
    OBVIOUS
  <2> HIDE DEF losses, blocked, trails, c
  <2> QED
    BY <1>1, <2>1, <2>2 DEF Counters
<1>4. consecutive' = IF loss THEN AccountLoss(s) ELSE 0
  BY DEF ExitEffects
<1>5. cooling' \in Cooling
  BY DEF ExitEffects, LossInv, Typed, CountersTyped, Cooling
<1> HIDE DEF c
<1> QED
  BY <1>1, <1>2, <1>3, <1>4, <1>5

\* A loss in a row more is one of a symbol that had none today.
LEMMA ExitKeepsSpread ==
  ASSUME LossInv, NEW s \in Symbols, ExitEffects(s)
  PROVE  CountersTyped' /\ AccountLossesAreSpread'
<1> DEFINE loss == orders[s].price < orders[s].avg
           After == {t \in Symbols : counters'[t].losses > 0}
<1>1. /\ counters' \in [Symbols -> Counters] /\ cooling' \in Cooling
      /\ \A t \in Symbols \ {s} : counters'[t].losses = counters[t].losses
      /\ counters'[s].losses = IF loss THEN counters[s].losses + 1 ELSE counters[s].losses
      /\ consecutive' = IF loss THEN AccountLoss(s) ELSE 0
  BY ExitCounts
<1>2. /\ counters \in [Symbols -> Counters] /\ consecutive \in Nat
      /\ counters[s].losses \in Nat /\ consecutive <= Cardinality(Losers)
  BY DEF LossInv, Typed, CountersTyped, Counters, LossesAreLimited, AccountLossesAreSpread, Losers
<1>3. CountersTyped'
  BY <1>1, <1>2 DEF CountersTyped, AccountLoss
<1>4. IsFiniteSet(After) /\ Cardinality(After) \in Nat
  <2>1. After \subseteq Symbols /\ IsFiniteSet(Symbols)
    BY RiskAssumption
  <2>2. IsFiniteSet(After)
    BY <2>1, FS_Subset
  <2> QED
    BY <2>2, FS_CardinalityType
<1>5. consecutive' <= Cardinality(After)
  <2>1. CASE ~loss
    BY <1>1, <1>4, <2>1
  <2>2. CASE loss /\ counters[s].losses = 0
    <3>1. s \notin Losers
      BY <2>2 DEF Losers
    <3>2. counters'[s].losses = 1
      BY <1>1, <2>2
    <3>3. After = Losers \cup {s}
      BY <1>1, <3>2 DEF Losers
    <3>4. Cardinality(Losers \cup {s}) = Cardinality(Losers) + 1
      BY <3>1, LosersFinite, FS_AddElement
    <3>5. consecutive' = consecutive + 1
      BY <1>1, <2>2 DEF AccountLoss
    <3> HIDE DEF After
    <3> QED
      BY <1>2, <3>3, <3>4, <3>5, LosersFinite
  <2>3. CASE loss /\ counters[s].losses # 0
    <3>1. counters'[s].losses > 0 /\ counters[s].losses > 0
      BY <1>1, <1>2, <2>3
    <3>2. After = Losers
      BY <1>1, <3>1 DEF Losers
    <3>3. consecutive' = consecutive
      BY <1>1, <2>3 DEF AccountLoss
    <3> QED
      BY <1>2, <3>2, <3>3
  <2> QED
    BY <2>1, <2>2, <2>3
<1> QED
  BY <1>3, <1>5 DEF AccountLossesAreSpread

\* The reconciliation counts the loss that has happened, once; of an order whose answer
\* or owner is lost it stays hidden.
LEMMA ResolveKeeps ==
  ASSUME LossInv, NEW s \in Symbols, Resolve(s)
  PROVE  LossInv'
<1> DEFINE o == orders[s]
           left == o.side = "SELL" /\ held[s].qty = 0
           loss == o.price < o.avg
<1>1. /\ o # NoOrder /\ ~o.open /\ orders' = [orders EXCEPT ![s] = NoOrder]
      /\ IF left /\ o.known THEN ExitEffects(s) ELSE UNCHANGED <<counters, consecutive, cooling>>
      /\ hidden' = IF left /\ ~o.known /\ loss THEN [hidden EXCEPT ![s] = @ + 1] ELSE hidden
      /\ UNCHANGED <<held, lostToday, saved, mishaps, day>> /\ entering' = "none"
  BY DEF Resolve, account, beliefs, bounds
<1>2. /\ \A t \in Symbols : t # s => orders'[t] = orders[t]
      /\ orders'[s] = NoOrder
  BY <1>1 DEF LossInv, Typed, OrdersTyped
<1>3. ~LossUnseen(s)' /\ \A t \in Symbols : t # s => (LossUnseen(t)' <=> LossUnseen(t))
  BY <1>1, <1>2 DEF LossUnseen, NoOrder
<1>4. SellsAreCovered'
  BY <1>1, <1>2 DEF LossInv, SellsAreCovered, NoOrder
<1>5. LossUnseen(s) <=> left /\ loss
  BY <1>1 DEF LossUnseen
<1>6. o.known \in BOOLEAN
  BY <1>1 DEF LossInv, Typed, OrdersTyped, Buying, Selling
<1>7. /\ CountersTyped' /\ AccountLossesAreSpread'
      /\ \A t \in Symbols : t # s => counters'[t].losses = counters[t].losses
      /\ counters'[s].losses = IF left /\ o.known /\ loss THEN counters[s].losses + 1 ELSE counters[s].losses
  <2>1. CASE left /\ o.known
    BY <1>1, <2>1, ExitKeepsSpread, ExitCounts
  <2>2. CASE ~(left /\ o.known)
    <3>1. UNCHANGED <<counters, consecutive, cooling>>
      BY <1>1, <2>2
    <3>2. CountersTyped'
      BY <3>1 DEF LossInv, Typed, CountersTyped
    <3>3. AccountLossesAreSpread'
      BY <3>1, <3>2, SpreadKept DEF LossInv, Typed, LossesAreLimited, CountersTyped
    <3> QED
      BY <2>2, <3>1, <3>2, <3>3
  <2> QED
    BY <2>1, <2>2
<1>8. /\ hidden' \in [Symbols -> Nat]
      /\ \A t \in Symbols : t # s => hidden'[t] = hidden[t]
      /\ hidden'[s] = IF left /\ ~o.known /\ loss THEN hidden[s] + 1 ELSE hidden[s]
  BY <1>1 DEF LossInv, Typed, HistoryTyped
<1>9. Typed'
  <2>1. AccountTyped' /\ FileTyped'
    BY <1>1 DEF LossInv, Typed, AccountTyped, FileTyped
  <2>2. OrdersTyped'
    BY <1>1 DEF LossInv, Typed, OrdersTyped
  <2>3. HistoryTyped'
    BY <1>1, <1>8 DEF LossInv, Typed, HistoryTyped
  <2> QED
    BY <1>7, <2>1, <2>2, <2>3 DEF Typed
<1>10. LossesAreCounted'
  <2> SUFFICES ASSUME NEW t \in Symbols
               PROVE  (lostToday[t] <= counters[t].losses + hidden[t] + (IF LossUnseen(t) THEN 1 ELSE 0))'
    BY DEF LossesAreCounted
  <2>1. /\ lostToday[t] <= counters[t].losses + hidden[t] + (IF LossUnseen(t) THEN 1 ELSE 0)
        /\ lostToday[t] \in Nat /\ counters[t].losses \in Nat /\ hidden[t] \in Nat /\ lostToday'[t] = lostToday[t]
    BY <1>1, LossesTyped DEF LossInv, LossesAreCounted
  <2>2. CASE t # s
    BY <1>3, <1>7, <1>8, <2>1, <2>2
  <2>3. CASE t = s
    BY <1>3, <1>5, <1>6, <1>7, <1>8, <2>1, <2>3
  <2> QED
    BY <2>2, <2>3
<1>11. FileIsBehind'
  <2> SUFFICES ASSUME NEW t \in Symbols
               PROVE  (/\ LossesOnFile(t) <= counters[t].losses /\ counters[t].losses <= LossesOnFile(t) + 1
                       /\ orders[t] # NoOrder => counters[t].losses = LossesOnFile(t))'
    BY DEF FileIsBehind
  <2>1. /\ LossesOnFile(t) <= counters[t].losses /\ counters[t].losses <= LossesOnFile(t) + 1
        /\ orders[t] # NoOrder => counters[t].losses = LossesOnFile(t)
        /\ LossesOnFile(t) \in Nat /\ counters[t].losses \in Nat
    BY LossesTyped DEF LossInv, FileInv, FileIsBehind
  <2>2. LossesOnFile(t)' = LossesOnFile(t)
    BY <1>1 DEF LossesOnFile
  <2>3. CASE t # s
    BY <1>2, <1>7, <2>1, <2>2, <2>3
  <2>4. CASE t = s
    BY <1>1, <1>2, <1>7, <2>1, <2>2, <2>4
  <2> QED
    BY <2>3, <2>4
<1>12. FileIsSpread'
  BY <1>1 DEF LossInv, FileInv, FileIsSpread
<1>13. HiddenBounded'
  <2> SUFFICES ASSUME NEW t \in Symbols PROVE (hidden[t] + Unknown(t) <= mishaps)'
    BY DEF HiddenBounded
  <2>1. /\ hidden[t] + Unknown(t) <= mishaps
        /\ hidden[t] \in Nat /\ Unknown(t) \in {0, 1} /\ mishaps \in Nat
    BY LossesTyped DEF LossInv, FileInv, HiddenBounded
  <2>2. CASE t # s
    BY <1>1, <1>2, <1>8, <2>1, <2>2 DEF Unknown
  <2>3. CASE t = s
    <3>1. Unknown(s)' = 0 /\ Unknown(s) = IF o.known THEN 0 ELSE 1
      BY <1>1, <1>2 DEF Unknown
    <3> QED
      BY <1>1, <1>8, <2>1, <2>3, <3>1
  <2> QED
    BY <2>2, <2>3
<1> QED
  BY <1>1, <1>4, <1>7, <1>9, <1>10, <1>11, <1>12, <1>13, NoEntryKeeps DEF FileInv

\* An acknowledgement makes the order one whose end tells the program nothing.
LEMMA AcknowledgeKeeps ==
  ASSUME LossInv, NEW s \in Symbols, Acknowledge(s)
  PROVE  LossInv'
<1> DEFINE new == [orders[s] EXCEPT !.known = FALSE]
<1>1. /\ orders[s] # NoOrder /\ orders[s].known /\ ~orders[s].open
      /\ orders' = [orders EXCEPT ![s].known = FALSE] /\ mishaps' = mishaps + 1
      /\ UNCHANGED <<held, lostToday, counters, consecutive, cooling, saved, hidden, day>>
      /\ entering' = "none"
  BY DEF Acknowledge, Mishap, account, beliefs, history
<1>2. orders' = [orders EXCEPT ![s] = new]
  BY <1>1 DEF LossInv, Typed, OrdersTyped
<1>3. /\ new \in Buying \cup Selling /\ new.side = orders[s].side /\ new.open = orders[s].open
      /\ orders[s].side = "SELL" => new.price = orders[s].price /\ new.avg = orders[s].avg
  <2>1. orders[s] \in Buying \/ orders[s] \in Selling
    BY <1>1 DEF LossInv, Typed, OrdersTyped
  <2>2. CASE orders[s] \in Buying
    BY <2>2 DEF Buying
  <2>3. CASE orders[s] \in Selling
    BY <2>3 DEF Selling
  <2> QED
    BY <2>1, <2>2, <2>3
<1>4. orders'[s] = new /\ \A t \in Symbols : t # s => orders'[t] = orders[t]
  BY <1>2 DEF LossInv, Typed, OrdersTyped
<1> HIDE DEF new
<1>5. Typed'
  <2>1. OrdersTyped'
    BY <1>2, <1>3 DEF LossInv, Typed, OrdersTyped
  <2>2. AccountTyped' /\ CountersTyped' /\ HistoryTyped' /\ FileTyped'
    BY <1>1 DEF LossInv, Typed, AccountTyped, CountersTyped, HistoryTyped, FileTyped
  <2> QED
    BY <2>1, <2>2 DEF Typed
<1>6. SellsAreCovered'
  BY <1>1, <1>3, <1>4 DEF LossInv, SellsAreCovered
<1>7. LossesAreCounted'
  <2> SUFFICES ASSUME NEW t \in Symbols
               PROVE  (lostToday[t] <= counters[t].losses + hidden[t] + (IF LossUnseen(t) THEN 1 ELSE 0))'
    BY DEF LossesAreCounted
  <2>1. LossUnseen(t)' <=> LossUnseen(t)
    BY <1>1, <1>3, <1>4 DEF LossUnseen
  <2> QED
    BY <1>1, <2>1 DEF LossInv, LossesAreCounted
<1>8. FileIsBehind' /\ FileIsSpread'
  BY <1>1, <1>4 DEF LossInv, FileInv, FileIsBehind, FileIsSpread, LossesOnFile
<1>9. HiddenBounded'
  <2> SUFFICES ASSUME NEW t \in Symbols PROVE (hidden[t] + Unknown(t) <= mishaps)'
    BY DEF HiddenBounded
  <2>1. /\ hidden[t] + Unknown(t) <= mishaps /\ hidden[t] \in Nat
        /\ Unknown(t) \in {0, 1} /\ mishaps \in Nat
    BY LossesTyped DEF LossInv, FileInv, HiddenBounded
  <2>2. t # s => Unknown(t)' = Unknown(t)
    BY <1>4 DEF Unknown
  <2>3. t = s => Unknown(t) = 0 /\ Unknown(t)' \in {0, 1}
    BY <1>1 DEF Unknown
  <2> QED
    BY <1>1, <2>1, <2>2, <2>3
<1>10. AccountLossesAreSpread'
  BY <1>1 DEF LossInv, LossesAreLimited, AccountLossesAreSpread
<1> QED
  BY <1>1, <1>5, <1>6, <1>7, <1>8, <1>9, <1>10, NoEntryKeeps DEF FileInv

\* A save changes the file only.
LEMMA SaveKeeps ==
  ASSUME LossInv, Save
  PROVE  LossInv'
<1>1. /\ saved' = StateJson /\ entering' = "none"
      /\ UNCHANGED <<held, lostToday, orders, counters, consecutive, cooling, hidden, mishaps, day>>
  BY DEF Save, account, beliefs, history, bounds
<1>2. Typed'
  <2>1. FileTyped'
    BY <1>1, StateJsonTyped DEF LossInv, Typed, FileTyped
  <2> QED
    BY <1>1, <2>1 DEF LossInv, Typed, AccountTyped, OrdersTyped, CountersTyped, HistoryTyped
<1>3. SellsAreCovered' /\ LossesAreCounted'
  BY <1>1 DEF LossInv, SellsAreCovered, LossesAreCounted, LossUnseen
<1>4. FileIsBehind' /\ FileIsSpread'
  BY <1>1, FileSaved
<1>5. HiddenBounded'
  BY <1>1 DEF LossInv, FileInv, HiddenBounded, Unknown
<1>6. AccountLossesAreSpread'
  BY <1>1 DEF LossInv, LossesAreLimited, AccountLossesAreSpread
<1> QED
  BY <1>1, <1>2, <1>3, <1>4, <1>5, <1>6, NoEntryKeeps DEF FileInv

\* Time ends cool-downs, of the file too.
LEMMA ElapseKeeps ==
  ASSUME LossInv, Elapse
  PROVE  LossInv'
<1>1. PICK over : /\ cooling' = [s \in Symbols |-> cooling[s] \ over]
                  /\ saved' = [saved EXCEPT !.cooling = [s \in Symbols |-> @[s] \ over]]
  BY DEF Elapse
<1>2. /\ UNCHANGED <<held, lostToday, orders, counters, consecutive, hidden, mishaps, day>>
      /\ entering' = "none"
  BY DEF Elapse, account, history, bounds
<1>3. /\ saved' \in File /\ saved'.day = saved.day /\ saved'.counters = saved.counters
      /\ saved'.consecutive = saved.consecutive
  <2>1. [s \in Symbols |-> saved.cooling[s] \ over] \in Cooling
    BY DEF LossInv, Typed, FileTyped, File, Cooling
  <2> QED
    BY <1>1, <2>1 DEF LossInv, Typed, FileTyped, File
<1>4. Typed'
  <2>1. cooling' \in Cooling
    BY <1>1 DEF LossInv, Typed, CountersTyped, Cooling
  <2>2. CountersTyped' /\ FileTyped'
    BY <1>2, <1>3, <2>1 DEF LossInv, Typed, CountersTyped, FileTyped
  <2> QED
    BY <1>2, <2>2 DEF LossInv, Typed, AccountTyped, OrdersTyped, HistoryTyped
<1>5. SellsAreCovered' /\ LossesAreCounted'
  BY <1>2 DEF LossInv, SellsAreCovered, LossesAreCounted, LossUnseen
<1>6. FileInv'
  BY <1>2, <1>3 DEF LossInv, FileInv, FileIsBehind, FileIsSpread, HiddenBounded, LossesOnFile, Unknown
<1>7. AccountLossesAreSpread'
  BY <1>2 DEF LossInv, LossesAreLimited, AccountLossesAreSpread
<1> QED
  BY <1>2, <1>4, <1>5, <1>6, <1>7, NoEntryKeeps

\* A restart: what the file lacks is hidden from then on, of one loss of a symbol at most,
\* and so is what the orders under way will bring.
LEMMA RestartKeeps ==
  ASSUME LossInv, Restart
  PROVE  LossInv'
<1> DEFINE file == Load(saved)
<1>1. /\ mishaps' = mishaps + 1 /\ entering' = "none"
      /\ counters' = file.counters /\ consecutive' = file.consecutive /\ cooling' = file.cooling /\ saved' = file
      /\ orders' = [s \in Symbols |-> IF orders[s] = NoOrder THEN NoOrder ELSE [orders[s] EXCEPT !.known = FALSE]]
      /\ hidden' = [s \in Symbols |-> hidden[s] + (counters[s].losses - LossesOnFile(s))]
      /\ UNCHANGED <<held, lostToday, day>>
  BY DEF Restart, Mishap, account
<1>2. saved \in File /\ day \in Nat
  BY DEF LossInv, Typed, FileTyped
<1>3. file \in File /\ file.day = day
  BY <1>2, FreshTyped DEF Load, Fresh
<1>4. ASSUME NEW s \in Symbols
      PROVE  counters'[s].losses = LossesOnFile(s) /\ LossesOnFile(s)' = LossesOnFile(s)
  <2>1. file.counters[s].losses = LossesOnFile(s)
    BY <1>2, FreshTyped DEF Load, LossesOnFile, Fresh
  <2> QED
    BY <1>1, <1>3, <2>1 DEF LossesOnFile
<1>5. ASSUME NEW s \in Symbols
      PROVE  /\ LossesOnFile(s) \in Nat /\ counters[s].losses \in Nat /\ hidden[s] \in Nat /\ lostToday[s] \in Nat
             /\ LossesOnFile(s) <= counters[s].losses /\ counters[s].losses <= LossesOnFile(s) + 1
             /\ orders[s] # NoOrder => counters[s].losses = LossesOnFile(s)
             /\ hidden'[s] = hidden[s] + (counters[s].losses - LossesOnFile(s))
  BY <1>1, LossesTyped DEF LossInv, FileInv, FileIsBehind
<1>6. ASSUME NEW s \in Symbols
      PROVE  /\ orders'[s] \in {NoOrder} \cup Buying \cup Selling
             /\ orders'[s].side = orders[s].side
             /\ orders[s] = NoOrder => orders'[s] = NoOrder
             /\ orders[s] # NoOrder =>
                  /\ orders'[s].open = orders[s].open /\ orders'[s].qty = orders[s].qty
                  /\ orders'[s].price = orders[s].price
                  /\ orders[s].side = "SELL" => orders'[s].avg = orders[s].avg
                  /\ Unknown(s)' = 1
  <2>1. orders[s] \in {NoOrder} \cup Buying \cup Selling
    BY DEF LossInv, Typed, OrdersTyped
  <2>2. CASE orders[s] = NoOrder
    BY <1>1, <2>2
  <2>3. CASE orders[s] # NoOrder
    <3> DEFINE new == [orders[s] EXCEPT !.known = FALSE]
    <3>1. orders'[s] = new
      BY <1>1, <2>3
    <3>2. CASE orders[s] \in Buying
      <4>1. /\ new \in Buying /\ new.side = "BUY" /\ orders[s].side = "BUY" /\ new.known = FALSE
            /\ new.open = orders[s].open /\ new.qty = orders[s].qty /\ new.price = orders[s].price
        BY <3>2 DEF Buying
      <4> HIDE DEF new
      <4> QED
        BY <2>3, <3>1, <4>1 DEF Unknown, NoOrder
    <3>3. CASE orders[s] \in Selling
      <4>1. /\ new \in Selling /\ new.side = "SELL" /\ orders[s].side = "SELL" /\ new.known = FALSE
            /\ new.open = orders[s].open /\ new.qty = orders[s].qty /\ new.price = orders[s].price
            /\ new.avg = orders[s].avg
        BY <3>3 DEF Selling
      <4> HIDE DEF new
      <4> QED
        BY <2>3, <3>1, <4>1 DEF Unknown, NoOrder
    <3> QED
      BY <2>1, <2>3, <3>2, <3>3
  <2> QED
    BY <2>2, <2>3
<1>7. Typed'
  <2>1. AccountTyped'
    BY <1>1 DEF LossInv, Typed, AccountTyped
  <2>2. OrdersTyped'
    BY <1>1, <1>6 DEF OrdersTyped
  <2>3. CountersTyped' /\ FileTyped'
    BY <1>1, <1>2, <1>3 DEF CountersTyped, FileTyped, File
  <2>4. HistoryTyped'
    BY <1>1, <1>5 DEF LossInv, Typed, HistoryTyped
  <2> QED
    BY <2>1, <2>2, <2>3, <2>4 DEF Typed
<1>8. SellsAreCovered'
  <2> SUFFICES ASSUME NEW s \in Symbols, orders'[s].side = "SELL", orders'[s].open
               PROVE  orders'[s].qty = held[s].qty
    BY <1>1 DEF SellsAreCovered
  <2>1. orders[s].side = "SELL" /\ orders[s] # NoOrder
    BY <1>6 DEF NoOrder
  <2> QED
    BY <1>6, <2>1 DEF LossInv, SellsAreCovered
<1>9. LossesAreCounted'
  <2> SUFFICES ASSUME NEW s \in Symbols
               PROVE  (lostToday[s] <= counters[s].losses + hidden[s] + (IF LossUnseen(s) THEN 1 ELSE 0))'
    BY DEF LossesAreCounted
  <2>1. LossUnseen(s) => LossUnseen(s)'
    <3>1. LossUnseen(s) => orders[s] # NoOrder
      BY DEF LossUnseen, NoOrder
    <3> QED
      BY <1>1, <1>6, <3>1 DEF LossUnseen
  <2>2. lostToday[s] <= counters[s].losses + hidden[s] + (IF LossUnseen(s) THEN 1 ELSE 0)
    BY DEF LossInv, LossesAreCounted
  <2> QED
    BY <1>1, <1>4, <1>5, <2>1, <2>2
<1>10. FileIsBehind'
  BY <1>4, <1>5 DEF FileIsBehind
<1>11. FileIsSpread' /\ AccountLossesAreSpread'
  <2>1. file.consecutive <= Cardinality({s \in Symbols : file.counters[s].losses > 0})
    <3>1. CASE saved.day = day
      BY <3>1 DEF Load, LossInv, FileInv, FileIsSpread
    <3>2. CASE saved.day # day
      <4>1. file = Fresh(day)
        BY <3>2 DEF Load
      <4>2. file.consecutive = 0 /\ file.counters = FreshCounters
        BY <4>1 DEF Fresh
      <4>3. {s \in Symbols : FreshCounters[s].losses > 0} = {}
        BY <1>2, FreshTyped
      <4> HIDE DEF file
      <4> QED
        BY <4>2, <4>3, FS_EmptySet
    <3> QED
      BY <3>1, <3>2
  <2> QED
    BY <1>1, <2>1 DEF FileIsSpread, AccountLossesAreSpread
<1>12. HiddenBounded'
  <2> SUFFICES ASSUME NEW s \in Symbols PROVE (hidden[s] + Unknown(s) <= mishaps)'
    BY DEF HiddenBounded
  <2>1. /\ hidden[s] + Unknown(s) <= mishaps
        /\ Unknown(s) \in {0, 1} /\ mishaps \in Nat
    BY LossesTyped DEF LossInv, FileInv, HiddenBounded
  <2>2. CASE orders[s] = NoOrder
    <3>1. Unknown(s)' = 0 /\ Unknown(s) = 0
      BY <1>6, <2>2 DEF Unknown
    <3> QED
      BY <1>1, <1>5, <2>1, <3>1
  <2>3. CASE orders[s] # NoOrder
    BY <1>1, <1>5, <1>6, <2>1, <2>3
  <2> QED
    BY <2>2, <2>3
<1> QED
  BY <1>1, <1>7, <1>8, <1>9, <1>10, <1>11, <1>12, NoEntryKeeps DEF FileInv

\* A night forgets what was lost and what was counted; a loss that is seen after it
\* is counted on the new day, which only makes the limits stricter, and so is one that
\* stays hidden.
LEMMA NewDayKeeps ==
  ASSUME LossInv, NewDay
  PROVE  LossInv'
<1>1. /\ counters' = FreshCounters /\ consecutive' = 0 /\ cooling' = [s \in Symbols |-> {}]
      /\ lostToday' = [s \in Symbols |-> 0] /\ hidden' = [s \in Symbols |-> 0] /\ day' = day + 1
      /\ UNCHANGED <<held, orders, saved, mishaps>> /\ entering' = "none"
  BY DEF NewDay
<1>2. saved \in File /\ day \in Nat /\ saved.day \in Nat /\ saved.day <= day
  BY DEF LossInv, Typed, FileTyped, File
<1>3. Typed'
  <2>1. AccountTyped' /\ OrdersTyped' /\ HistoryTyped'
    BY <1>1 DEF LossInv, Typed, AccountTyped, OrdersTyped, HistoryTyped
  <2>2. CountersTyped'
    BY <1>1, <1>2, FreshTyped DEF CountersTyped, Cooling
  <2>3. FileTyped'
    BY <1>1, <1>2 DEF FileTyped
  <2> QED
    BY <2>1, <2>2, <2>3 DEF Typed
<1>4. SellsAreCovered'
  BY <1>1 DEF LossInv, SellsAreCovered
<1>5. \A s \in Symbols : counters'[s].losses = 0 /\ lostToday'[s] = 0 /\ hidden'[s] = 0
  BY <1>1, <1>2, FreshTyped
<1>6. LossesAreCounted'
  BY <1>5 DEF LossesAreCounted
<1>7. FileIsBehind' /\ FileIsSpread'
  <2>1. saved'.day # day'
    BY <1>1, <1>2
  <2>2. \A s \in Symbols : LossesOnFile(s)' = 0
    BY <2>1 DEF LossesOnFile
  <2> QED
    BY <1>5, <2>1, <2>2 DEF FileIsBehind, FileIsSpread
<1>8. HiddenBounded'
  <2> SUFFICES ASSUME NEW s \in Symbols PROVE (hidden[s] + Unknown(s) <= mishaps)'
    BY DEF HiddenBounded
  <2>1. /\ hidden[s] + Unknown(s) <= mishaps /\ hidden[s] \in Nat
        /\ Unknown(s) \in {0, 1} /\ mishaps \in Nat
    BY LossesTyped DEF LossInv, FileInv, HiddenBounded
  <2>2. Unknown(s)' = Unknown(s)
    BY <1>1 DEF Unknown
  <2> QED
    BY <1>1, <1>5, <2>1, <2>2
<1>9. {s \in Symbols : counters'[s].losses > 0} = {}
  BY <1>5
<1>10. AccountLossesAreSpread'
  BY <1>1, <1>9, FS_EmptySet DEF AccountLossesAreSpread
<1> QED
  BY <1>1, <1>3, <1>4, <1>6, <1>7, <1>8, <1>10, NoEntryKeeps DEF FileInv

\* A damaged row touches none of this.
LEMMA OtherStepKeeps ==
  ASSUME LossInv, UNCHANGED <<held, lostToday, orders, counters, consecutive, cooling, saved,
                              hidden, mishaps, day>>,
         entering' = "none" \/ entering' = entering
  PROVE  LossInv'
<1>1. Typed'
  BY DEF LossInv, Typed, AccountTyped, OrdersTyped, CountersTyped, HistoryTyped, FileTyped
<1>2. SellsAreCovered' /\ LossesAreCounted'
  BY DEF LossInv, SellsAreCovered, LossesAreCounted, LossUnseen
<1>3. FileInv'
  BY DEF LossInv, FileInv, FileIsBehind, FileIsSpread, HiddenBounded, LossesOnFile, Unknown
<1>4. TwoLossesADay'
  BY DEF LossInv, LossesAreLimited, TwoLossesADay
<1>5. AccountLossesAreSpread'
  BY DEF LossInv, LossesAreLimited, AccountLossesAreSpread
<1> QED
  BY <1>1, <1>2, <1>3, <1>4, <1>5 DEF LossInv, LossesAreLimited

LEMMA NextKeepsLossInv == LossInv /\ [Next]_vars => LossInv'
<1> SUFFICES ASSUME LossInv, [Next]_vars PROVE LossInv'
  OBVIOUS
<1>1. ASSUME NEW s \in Symbols, NEW p \in Prices, NEW a \in BOOLEAN, TryBuy(s, p, a) PROVE LossInv'
  BY <1>1, TryBuyKeeps
<1>2. ASSUME NEW s \in Symbols, NEW p \in Prices, NEW a \in BOOLEAN, NEW r \in Reasons, TrySell(s, p, r, a)
      PROVE  LossInv'
  BY <1>2, TrySellKeeps
<1>3. ASSUME NEW s \in Symbols, NEW n \in 0..OrderCash, Fill(s, n) PROVE LossInv'
  <2>1. orders[s].side \in {"BUY", "SELL"}
    BY <1>3 DEF Fill
  <2> QED
    BY <1>3, <2>1, FillBuyKeeps, FillSellKeeps
<1>4. ASSUME NEW s \in Symbols, FirstFill(s) PROVE LossInv'
  BY <1>4, FirstFillKeeps
<1>5. ASSUME NEW s \in Symbols, Resolve(s) PROVE LossInv'
  BY <1>5, ResolveKeeps
<1>6. CASE Save
  BY <1>6, SaveKeeps
<1>7. CASE Elapse
  BY <1>7, ElapseKeeps
<1>8. CASE TearRow
  BY <1>8, OtherStepKeeps DEF TearRow, account, beliefs, history, bounds
<1>9. CASE NewDay
  BY <1>9, NewDayKeeps
<1>10. CASE Restart
  BY <1>10, RestartKeeps
<1>11. CASE UNCHANGED vars
  BY <1>11, OtherStepKeeps DEF vars, account, beliefs, history, bounds
<1>12. ASSUME NEW s \in Symbols, Acknowledge(s) PROVE LossInv'
  BY <1>12, AcknowledgeKeeps
<1> QED
  BY <1>1, <1>2, <1>3, <1>4, <1>5, <1>6, <1>7, <1>8, <1>9, <1>10, <1>11, <1>12 DEF Next

LEMMA LossInvInit == Init => LossInv
<1> SUFFICES ASSUME Init PROVE LossInv
  OBVIOUS
<1>1. AccountTyped
  <2>1. None \in Shares
    BY DEF None, Shares
  <2>2. Carried \subseteq Shares
    BY RiskAssumption DEF Shares
  <2>3. held \in [Symbols -> Shares]
    BY <2>1, <2>2 DEF Init
  <2>4. lostToday \in [Symbols -> Nat]
    BY DEF Init
  <2> QED
    BY <2>3, <2>4 DEF AccountTyped
<1>2. /\ counters = FreshCounters /\ consecutive = 0 /\ cooling = [s \in Symbols |-> {}] /\ saved = Fresh(0)
      /\ day = 0 /\ mishaps = 0 /\ entering = "none"
      /\ \A s \in Symbols : orders[s] = NoOrder /\ hidden[s] = 0 /\ lostToday[s] = 0
  BY DEF Init
<1>3. Typed
  <2>1. OrdersTyped /\ HistoryTyped
    BY DEF Init, OrdersTyped, HistoryTyped
  <2>2. CountersTyped
    BY <1>2, FreshTyped DEF CountersTyped, Cooling
  <2>3. FileTyped
    BY <1>2, FreshTyped DEF FileTyped, Fresh
  <2> QED
    BY <1>1, <2>1, <2>2, <2>3 DEF Typed
<1>4. SellsAreCovered
  BY <1>2 DEF SellsAreCovered, NoOrder
<1>5. \A s \in Symbols : counters[s].losses = 0 /\ LossesOnFile(s) = 0 /\ Unknown(s) = 0
  BY <1>2, FreshTyped DEF LossesOnFile, Unknown, Fresh
<1>6. LossesAreCounted
  BY <1>2, <1>5 DEF LossesAreCounted
<1>7. {s \in Symbols : counters[s].losses > 0} = {}
  BY <1>5
<1>8. FileInv
  <2>1. FileIsBehind
    BY <1>5 DEF FileIsBehind
  <2>2. FileIsSpread
    <3>1. saved.consecutive = 0 /\ saved.counters = counters
      BY <1>2 DEF Fresh
    <3> QED
      BY <1>7, <3>1, FS_EmptySet DEF FileIsSpread
  <2>3. HiddenBounded
    BY <1>2, <1>5 DEF HiddenBounded
  <2> QED
    BY <2>1, <2>2, <2>3 DEF FileInv
<1>9. LossesAreLimited
  BY <1>2, <1>7, FS_EmptySet DEF LossesAreLimited, TwoLossesADay, AccountLossesAreSpread
<1> QED
  BY <1>3, <1>4, <1>6, <1>8, <1>9 DEF LossInv

-----------------------------------------------------------------------------
\* However fills, reconciliations, nights, restarts, lost answers and acknowledgements fall between them: a
\* symbol that was left twice with a loss today is not entered again but for losses that are
\* hidden, one of a symbol by each restart, lost answer or acknowledgement at most, and the losses in a
\* row of the account are of different symbols (_try_buy, can_place_order,
\* _apply_deferred_sell_side_effects, StateStore.load).
THEOREM LossLimitsHold == Spec => []LossesAreLimited
<1>1. LossInv => LossesAreLimited
  BY DEF LossInv
<1> QED
  BY <1>1, LossInvInit, NextKeepsLossInv, PTL DEF Spec

-----------------------------------------------------------------------------
(* Induction over the numbers up to n, and the folds that FoldLeft stands for *)

\* A set of numbers has a least one.
LEMMA LeastNumber ==
  ASSUME NEW T, T \subseteq Nat, T # {}
  PROVE  \E x \in T : \A y \in T : x <= y
<1>1. ASSUME NEW x \in Nat, NEW y \in Nat, y < x PROVE <<y, x>> \in OpToRel(<, Nat)
  <2>1. <<y, x>> \in Nat \X Nat /\ <<y, x>>[1] < <<y, x>>[2]
    BY <1>1
  <2> QED
    BY <2>1 DEF OpToRel
<1>2. PICK x \in T : \A y \in T : <<y, x>> \notin OpToRel(<, Nat)
  BY NatLessThanWellFounded, WFMin
<1>3. ASSUME NEW y \in T PROVE x <= y
  <2>1. ~(y < x)
    BY <1>1, <1>2
  <2> QED
    BY <2>1
<1> QED
  BY <1>3

\* Induction, for a set instead of a predicate.
LEMMA Induction ==
  ASSUME NEW n \in Nat, NEW S, 0 \in S, \A i \in 0 .. n - 1 : i \in S => i + 1 \in S
  PROVE  0 .. n \subseteq S
<1> SUFFICES ASSUME (0 .. n) \ S # {} PROVE FALSE
  OBVIOUS
<1>1. PICK x \in (0 .. n) \ S : \A y \in (0 .. n) \ S : x <= y
  <2>1. (0 .. n) \ S \subseteq Nat
    OBVIOUS
  <2> QED
    BY <2>1, LeastNumber
<1>2. x # 0
  BY <1>1
<1>3. x - 1 \in 0 .. n - 1 /\ x - 1 \notin (0 .. n) \ S
  BY <1>1, <1>2
<1>4. (x - 1) + 1 \in S
  BY <1>3
<1> QED
  BY <1>1, <1>4

LEMMA MaxOfPrefix ==
  ASSUME NEW n \in Nat, NEW s \in SUBSET (1 .. n + 1), n + 1 \in s
  PROVE  Max(s) = n + 1
<1>1. \A y \in s : n + 1 >= y
  OBVIOUS
<1>2. \A x \in s : (\A y \in s : x >= y) => x = n + 1
  OBVIOUS
<1> QED
  BY <1>1, <1>2 DEF Max

\* The function on the sets of places that FoldLeft is defined by.
IsEventFold(it, base, q, n) ==
  it = [s \in SUBSET (1 .. n) |-> IF s = {} THEN base ELSE Event(it[s \ {Max(s)}], q[Max(s)])]

\* There is such a function, so FoldLeft is not an arbitrary value.
LEMMA EventFoldExists ==
  ASSUME NEW base, NEW q, NEW n \in Nat
  PROVE  \E it : IsEventFold(it, base, q, n)
<1> DEFINE G(it, s) == IF s = {} THEN base ELSE Event(it[s \ {Max(s)}], q[Max(s)])
           S == {k \in 0 .. n : \E it : it = [s \in SUBSET (1 .. k) |-> G(it, s)]}
<1>1. 0 \in S
  <2> DEFINE it == [s \in SUBSET (1 .. 0) |-> base]
  <2>1. SUBSET (1 .. 0) = {{}}
    OBVIOUS
  <2>2. it = [s \in SUBSET (1 .. 0) |-> G(it, s)]
    BY <2>1
  <2> HIDE DEF it, G
  <2> QED
    BY <2>2
<1>2. ASSUME NEW k \in 0 .. n - 1, k \in S PROVE k + 1 \in S
  <2>1. PICK f : f = [s \in SUBSET (1 .. k) |-> G(f, s)]
    BY <1>2
  <2> DEFINE it == [s \in SUBSET (1 .. k + 1) |->
                     IF k + 1 \in s THEN Event(f[s \ {k + 1}], q[k + 1]) ELSE f[s]]
  <2>2. ASSUME NEW s \in SUBSET (1 .. k + 1) PROVE it[s] = G(it, s)
    <3>1. CASE k + 1 \in s
      <4>1. Max(s) = k + 1
        BY <3>1, MaxOfPrefix
      <4>2. s \ {k + 1} \in SUBSET (1 .. k + 1) /\ k + 1 \notin s \ {k + 1}
        OBVIOUS
      <4>3. it[s \ {k + 1}] = f[s \ {k + 1}]
        BY <4>2
      <4>4. it[s] = Event(f[s \ {k + 1}], q[k + 1])
        BY <3>1
      <4> HIDE DEF it
      <4> QED
        BY <3>1, <4>1, <4>3, <4>4
    <3>2. CASE k + 1 \notin s
      <4>1. s \in SUBSET (1 .. k)
        BY <3>2
      <4>2. it[s] = f[s]
        BY <3>2
      <4>3. f[s] = G(f, s)
        BY <2>1, <4>1
      <4>4. s # {} => it[s \ {Max(s)}] = f[s \ {Max(s)}]
        <5>1. s \ {Max(s)} \in SUBSET (1 .. k + 1) /\ k + 1 \notin s \ {Max(s)}
          BY <3>2
        <5> QED
          BY <5>1
      <4> HIDE DEF it
      <4> QED
        BY <4>2, <4>3, <4>4
    <3> QED
      BY <3>1, <3>2
  <2>3. it = [s \in SUBSET (1 .. k + 1) |-> G(it, s)]
    <3>1. it = [s \in SUBSET (1 .. k + 1) |-> it[s]]
      OBVIOUS
    <3> HIDE DEF it, G
    <3> QED
      BY <2>2, <3>1
  <2> HIDE DEF it, G
  <2> QED
    BY <2>3
<1>3. n \in S
  <2> HIDE DEF S
  <2>1. \A i \in 0 .. n - 1 : i \in S => i + 1 \in S
    BY <1>2
  <2>2. 0 .. n \subseteq S
    BY <1>1, <2>1, Induction
  <2> QED
    BY <2>2
<1> QED
  BY <1>3 DEF IsEventFold

\* What a fold computes is what the last of its steps has left.
LEMMA EventsRun ==
  ASSUME NEW base, NEW q, NEW n \in Nat, DOMAIN q = 1 .. n,
         NEW t, t[0] = base, \A i \in 1 .. n : t[i] = Event(t[i - 1], q[i])
  PROVE  FoldLeft(Event, base, q) = t[n]
<1> DEFINE G(it, s) == IF s = {} THEN base ELSE Event(it[s \ {Max(s)}], q[Max(s)])
           it == CHOOSE f : IsEventFold(f, base, q, n)
           S == {k \in 0 .. n : it[1 .. k] = t[k]}
<1>1. FoldLeft(Event, base, q) = it[1 .. n]
  BY DEF FoldLeft, MapThenFoldSet, IsEventFold
<1>2. it = [s \in SUBSET (1 .. n) |-> G(it, s)]
  <2>1. \E f : IsEventFold(f, base, q, n)
    BY EventFoldExists
  <2>2. IsEventFold(it, base, q, n)
    BY <2>1
  <2> QED
    BY <2>2 DEF IsEventFold
<1> HIDE DEF it
<1>3. 0 \in S
  <2>1. 1 .. 0 = {} /\ {} \in SUBSET (1 .. n)
    OBVIOUS
  <2>2. it[{}] = G(it, {})
    BY <1>2, <2>1
  <2> QED
    BY <2>1, <2>2
<1>4. ASSUME NEW k \in 0 .. n - 1, k \in S PROVE k + 1 \in S
  <2>1. 1 .. k + 1 \in SUBSET (1 .. n) /\ 1 .. k + 1 # {} /\ k + 1 \in 1 .. k + 1
    OBVIOUS
  <2>2. Max(1 .. k + 1) = k + 1
    BY <2>1, MaxOfPrefix
  <2>3. (1 .. k + 1) \ {k + 1} = 1 .. k
    OBVIOUS
  <2>4. it[1 .. k + 1] = G(it, 1 .. k + 1)
    BY <1>2, <2>1
  <2>5. it[1 .. k + 1] = Event(it[1 .. k], q[k + 1])
    BY <2>1, <2>2, <2>3, <2>4
  <2>6. it[1 .. k] = t[k]
    BY <1>4
  <2>7. t[k + 1] = Event(t[(k + 1) - 1], q[k + 1]) /\ (k + 1) - 1 = k
    OBVIOUS
  <2> QED
    BY <2>5, <2>6, <2>7
<1> HIDE DEF S
<1>5. \A i \in 0 .. n - 1 : i \in S => i + 1 \in S
  BY <1>4
<1>6. 0 .. n \subseteq S
  BY <1>3, <1>5, Induction
<1> QED
  BY <1>1, <1>6 DEF S

LEMMA MaxIsIn ==
  ASSUME NEW n \in Nat, NEW s \in SUBSET (1 .. n), s # {}
  PROVE  Max(s) \in s
<1> DEFINE T == {n - x : x \in s}
<1>1. T \subseteq Nat /\ T # {}
  <2>1. \A x \in s : n - x \in Nat
    OBVIOUS
  <2> QED
    BY <2>1
<1>2. PICK y \in T : \A z \in T : y <= z
  BY <1>1, LeastNumber
<1>3. PICK x \in s : y = n - x
  BY <1>2
<1>4. \A z \in s : x >= z
  <2> TAKE z \in s
  <2>1. n - z \in T
    OBVIOUS
  <2>2. y <= n - z
    BY <1>2, <2>1
  <2> QED
    BY <1>3, <2>2
<1> QED
  BY <1>4 DEF Max

\* What n shares at one price have cost.
IsCostFold(it, q, n) ==
  it = [s \in SUBSET (1 .. n) |-> IF s = {} THEN 0 ELSE it[s \ {Max(s)}] + q[Max(s)]]

LEMMA CostOfEqualShares ==
  ASSUME NEW n \in Nat, NEW p \in Nat
  PROVE  Cost([i \in 1 .. n |-> p]) = n * p
<1> DEFINE q == [i \in 1 .. n |-> p]
           it == CHOOSE f : IsCostFold(f, q, n)
           S == {k \in 0 .. n : it[1 .. k] = k * p}
<1>1. Cost(q) = it[1 .. n]
  <2>1. DOMAIN q = 1 .. n
    OBVIOUS
  <2> QED
    BY <2>1 DEF Cost, FoldLeft, MapThenFoldSet, IsCostFold
<1>2. \E f : IsCostFold(f, q, n)
  <2> DEFINE w == [s \in SUBSET (1 .. n) |-> Cardinality(s) * p]
  <2>1. ASSUME NEW s \in SUBSET (1 .. n)
        PROVE  w[s] = IF s = {} THEN 0 ELSE w[s \ {Max(s)}] + q[Max(s)]
    <3>1. CASE s = {}
      BY <3>1, FS_EmptySet
    <3>2. CASE s # {}
      <4>1. Max(s) \in s
        BY <3>2, MaxIsIn
      <4>2. IsFiniteSet(s)
        <5>1. IsFiniteSet(1 .. n)
          BY FS_Interval
        <5> QED
          BY <5>1, FS_Subset
      <4>3. Cardinality(s \ {Max(s)}) = Cardinality(s) - 1 /\ Cardinality(s) \in Nat
        BY <4>1, <4>2, FS_RemoveElement, FS_CardinalityType
      <4>4. w[s \ {Max(s)}] = (Cardinality(s) - 1) * p /\ w[s] = Cardinality(s) * p /\ q[Max(s)] = p
        BY <4>1, <4>3
      <4>5. Cardinality(s) * p = (Cardinality(s) - 1) * p + p
        BY <4>3
      <4> HIDE DEF w, q
      <4> QED
        BY <3>2, <4>4, <4>5
    <3> QED
      BY <3>1, <3>2
  <2>2. w = [s \in SUBSET (1 .. n) |-> w[s]]
    OBVIOUS
  <2> HIDE DEF w, q
  <2>3. w = [s \in SUBSET (1 .. n) |-> IF s = {} THEN 0 ELSE w[s \ {Max(s)}] + q[Max(s)]]
    BY <2>1, <2>2
  <2> QED
    BY <2>3 DEF IsCostFold
<1>3. it = [s \in SUBSET (1 .. n) |-> IF s = {} THEN 0 ELSE it[s \ {Max(s)}] + q[Max(s)]]
  <2>1. IsCostFold(it, q, n)
    BY <1>2
  <2> QED
    BY <2>1 DEF IsCostFold
<1> HIDE DEF it
<1>4. 0 \in S
  <2>1. 1 .. 0 = {} /\ {} \in SUBSET (1 .. n)
    OBVIOUS
  <2>2. it[{}] = 0
    BY <1>3, <2>1
  <2> QED
    BY <2>1, <2>2
<1>5. ASSUME NEW k \in 0 .. n - 1, k \in S PROVE k + 1 \in S
  <2>1. 1 .. k + 1 \in SUBSET (1 .. n) /\ 1 .. k + 1 # {} /\ k + 1 \in 1 .. k + 1 /\ k + 1 \in 1 .. n
    OBVIOUS
  <2>2. Max(1 .. k + 1) = k + 1
    BY <2>1, MaxOfPrefix
  <2>3. (1 .. k + 1) \ {k + 1} = 1 .. k
    OBVIOUS
  <2>4. it[1 .. k + 1] = it[1 .. k] + q[k + 1]
    BY <1>3, <2>1, <2>2, <2>3
  <2>5. it[1 .. k] = k * p /\ q[k + 1] = p
    BY <1>5, <2>1
  <2>6. k * p + p = (k + 1) * p
    OBVIOUS
  <2> HIDE DEF q
  <2> QED
    BY <2>4, <2>5, <2>6
<1> HIDE DEF S
<1>6. \A i \in 0 .. n - 1 : i \in S => i + 1 \in S
  BY <1>5
<1>7. 0 .. n \subseteq S
  BY <1>4, <1>6, Induction
<1> QED
  BY <1>1, <1>7 DEF S

-----------------------------------------------------------------------------
(* The books of a day: what the computation has found after some of its rows, as *)
(* long as a sale is of the whole lot of its symbol or of shares carried over.    *)

Books == [pnl : Int, carry : Int, carried : SUBSET Symbols, lots : [Symbols -> Shares]]
NoTrades == [pnl |-> 0, carry |-> 0, carried |-> {}, lots |-> [s \in Symbols |-> None]]
TradeRows == [sym : Symbols, side : {"BUY", "SELL"}, qty : Nat \ {0}, price : Nat \ {0}, avg : Nat, damaged : BOOLEAN]

Entered(b, r) == [b EXCEPT !.lots = [@ EXCEPT ![r.sym] = [qty |-> r.qty, price |-> r.price]]]
Left(b, r) ==
  [b EXCEPT !.pnl = @ + r.qty * (r.price - b.lots[r.sym].price), !.lots = [@ EXCEPT ![r.sym] = None]]
CarriedOver(b, r) ==
  [b EXCEPT !.carry = @ + r.qty * (r.price - r.avg), !.carried = @ \cup {r.sym}]

\* The row r takes the books from b to c.
Booked(b, r, c) ==
  LET lot == b.lots[r.sym]
  IN \/ r.side = "BUY" /\ lot.qty = 0 /\ c = Entered(b, r)
     \/ r.side = "SELL" /\ lot.qty = r.qty /\ c = Left(b, r)
     \/ r.side = "SELL" /\ lot.qty = 0 /\ r.avg > 0 /\ r.sym \notin b.carried /\ c = CarriedOver(b, r)

\* What the computation has found where nothing was refused.
Account(o, p, y, d, l) == [ok |-> o, pnl |-> p, carry |-> y, carried |-> d, lots |-> l]
Known(p, y, d, l) == Account(TRUE, p, y, d, l)
AccOf(b, D) == Known(b.pnl, b.carry, b.carried, [s \in D |-> Lot(b.lots[s])])

LEMMA BookedTyped ==
  ASSUME NEW b \in Books, NEW r \in TradeRows, NEW c, Booked(b, r, c)
  PROVE  c \in Books
<1>1. /\ b.pnl \in Int /\ b.carry \in Int /\ b.carried \in SUBSET Symbols /\ b.lots \in [Symbols -> Shares]
      /\ b.lots[r.sym].price \in Nat /\ r.sym \in Symbols /\ r.qty \in Nat /\ r.price \in Nat /\ r.avg \in Nat
  BY DEF Books, TradeRows, Shares
<1>2. [qty |-> r.qty, price |-> r.price] \in Shares /\ None \in Shares
  BY <1>1 DEF Shares, None
<1>3. r.qty * (r.price - b.lots[r.sym].price) \in Int /\ r.qty * (r.price - r.avg) \in Int
  BY <1>1
<1>4. Entered(b, r) \in Books
  BY <1>1, <1>2 DEF Entered, Books
<1>5. Left(b, r) \in Books
  <2>1. b.pnl + r.qty * (r.price - b.lots[r.sym].price) \in Int
    BY <1>1, <1>3
  <2>2. [b.lots EXCEPT ![r.sym] = None] \in [Symbols -> Shares]
    BY <1>1, <1>2
  <2> QED
    BY <1>1, <2>1, <2>2 DEF Left, Books
<1>6. CarriedOver(b, r) \in Books
  <2>1. b.carry + r.qty * (r.price - r.avg) \in Int
    BY <1>1, <1>3
  <2> QED
    BY <1>1, <2>1 DEF CarriedOver, Books
<1> QED
  BY <1>4, <1>5, <1>6 DEF Booked

LEMMA LotFacts ==
  ASSUME NEW h \in Shares
  PROVE  /\ Lot(h) \in Seq(Nat) /\ Len(Lot(h)) = h.qty
         /\ h.qty = 0 => Lot(h) = <<>>
         /\ Cost(Lot(h)) = h.qty * h.price
         /\ SubSeq(Lot(h), 1, h.qty) = Lot(h) /\ SubSeq(Lot(h), h.qty + 1, h.qty) = <<>>
<1>1. h.qty \in Nat /\ h.price \in Nat
  BY DEF Shares
<1>2. Lot(h) \in Seq(Nat) /\ Len(Lot(h)) = h.qty
  BY <1>1 DEF Lot
<1>3. h.qty = 0 => Lot(h) = <<>>
  BY <1>2, EmptySeq
<1>4. Cost(Lot(h)) = h.qty * h.price
  BY <1>1, CostOfEqualShares DEF Lot
<1>5. SubSeq(Lot(h), 1, h.qty) = Lot(h) /\ SubSeq(Lot(h), h.qty + 1, h.qty) = <<>>
  BY <1>1, <1>2
<1> QED
  BY <1>2, <1>3, <1>4, <1>5

\* One field of an account at a time.
LEMMA KnownLots ==
  ASSUME NEW p, NEW y, NEW d, NEW l, NEW z
  PROVE  [Known(p, y, d, l) EXCEPT !.lots = z] = Known(p, y, d, z)
<1>1. \A o : [Account(o, p, y, d, l) EXCEPT !.lots = z] = Account(o, p, y, d, z)
  BY DEF Account
<1> QED
  BY <1>1, Zenon DEF Known
LEMMA KnownPnl ==
  ASSUME NEW p, NEW y, NEW d, NEW l, NEW z
  PROVE  [Known(p, y, d, l) EXCEPT !.pnl = z] = Known(z, y, d, l)
<1>1. \A o : [Account(o, p, y, d, l) EXCEPT !.pnl = z] = Account(o, z, y, d, l)
  BY DEF Account
<1> QED
  BY <1>1, Zenon DEF Known
LEMMA KnownCarry ==
  ASSUME NEW p, NEW y, NEW d, NEW l, NEW z
  PROVE  [Known(p, y, d, l) EXCEPT !.carry = z] = Known(p, z, d, l)
<1>1. \A o : [Account(o, p, y, d, l) EXCEPT !.carry = z] = Account(o, p, z, d, l)
  BY DEF Account
<1> QED
  BY <1>1, Zenon DEF Known
LEMMA KnownCarried ==
  ASSUME NEW p, NEW y, NEW d, NEW l, NEW z
  PROVE  [Known(p, y, d, l) EXCEPT !.carried = z] = Known(p, y, z, l)
<1>1. \A o : [Account(o, p, y, d, l) EXCEPT !.carried = z] = Account(o, p, y, z, l)
  BY DEF Account
<1> QED
  BY <1>1, Zenon DEF Known
LEMMA LotUpdated ==
  ASSUME NEW acc, NEW l, acc.lots = l, NEW s, NEW x, NEW z
  PROVE  /\ [acc EXCEPT !.lots[s] = x] = [acc EXCEPT !.lots = [l EXCEPT ![s] = x]]
         /\ [acc EXCEPT !.lots[s] = x, !.pnl = z] = [[acc EXCEPT !.lots = [l EXCEPT ![s] = x]] EXCEPT !.pnl = z]
OBVIOUS

\* A step of the books is a step of the computation.
LEMMA BookedIsEvent ==
  ASSUME NEW b \in Books, NEW r \in TradeRows, NEW c, Booked(b, r, c),
         NEW D \in SUBSET Symbols, r.sym \in D
  PROVE  Event(AccOf(b, D), r) = AccOf(c, D)
<1> DEFINE s0 == r.sym
           h == b.lots[s0]
           acc == AccOf(b, D)
           L == [s \in D |-> Lot(b.lots[s])]
<1>1. /\ b.pnl \in Int /\ b.carry \in Int /\ b.carried \in SUBSET Symbols /\ b.lots \in [Symbols -> Shares]
      /\ h \in Shares /\ s0 \in Symbols /\ r.qty \in Nat \ {0} /\ r.price \in Nat /\ r.avg \in Nat
  BY DEF Books, TradeRows
<1>q. h.qty \in Nat /\ h.price \in Nat
  BY <1>1 DEF Shares
<1>2. acc = Known(b.pnl, b.carry, b.carried, L) /\ acc.lots[s0] = Lot(h) /\ acc.ok = TRUE
      /\ acc.lots = L /\ acc.pnl = b.pnl /\ acc.carry = b.carry /\ acc.carried = b.carried
  BY <1>1 DEF AccOf, Known, Account
<1>l. /\ Lot(h) \in Seq(Nat) /\ Len(Lot(h)) = h.qty /\ (h.qty = 0 => Lot(h) = <<>>)
      /\ Cost(Lot(h)) = h.qty * h.price
      /\ SubSeq(Lot(h), 1, h.qty) = Lot(h) /\ SubSeq(Lot(h), h.qty + 1, h.qty) = <<>>
  BY <1>1, LotFacts
<1>d. s0 \in D
  OBVIOUS
<1>3. CASE r.side = "BUY" /\ h.qty = 0 /\ c = Entered(b, r)
  <2>1. Event(acc, r) = [acc EXCEPT !.lots[s0] = @ \o Lot(r)]
    BY <1>2, <1>3 DEF Event, BuyEvent
  <2>2. acc.lots[s0] \o Lot(r) = Lot(r)
    <3>1. Lot(r) \in Seq(Nat)
      BY <1>1 DEF Lot
    <3>2. acc.lots[s0] = <<>>
      BY <1>2, <1>3, <1>l
    <3> QED
      BY <3>1, <3>2
  <2>3. Event(acc, r) = Known(b.pnl, b.carry, b.carried, [L EXCEPT ![s0] = Lot(r)])
    <3>1. acc.lots = L
      BY <1>2
    <3> HIDE DEF L, acc
    <3>2. [acc EXCEPT !.lots[s0] = @ \o Lot(r)] = [acc EXCEPT !.lots[s0] = Lot(r)]
      BY <2>2
    <3> DEFINE M == [L EXCEPT ![s0] = Lot(r)]
    <3>3. [acc EXCEPT !.lots[s0] = Lot(r)] = [acc EXCEPT !.lots = M]
      BY <3>1, LotUpdated
    <3> HIDE DEF M
    <3>4. [acc EXCEPT !.lots = M] = Known(b.pnl, b.carry, b.carried, M)
      BY <1>2, KnownLots
    <3> QED
      BY <2>1, <3>2, <3>3, <3>4 DEF M
  <2>4. [L EXCEPT ![s0] = Lot(r)] = [s \in D |-> Lot(c.lots[s])]
    <3>1. c.lots = [b.lots EXCEPT ![s0] = [qty |-> r.qty, price |-> r.price]]
      BY <1>1, <1>3 DEF Entered, Books
    <3>2. Lot(c.lots[s0]) = Lot(r)
      BY <1>1, <3>1 DEF Lot
    <3> QED
      BY <1>1, <3>1, <3>2
  <2>5. c.pnl = b.pnl /\ c.carry = b.carry /\ c.carried = b.carried
    BY <1>3 DEF Entered, Books
  <2> HIDE DEF L
  <2> QED
    BY <2>3, <2>4, <2>5 DEF AccOf
<1>4. CASE r.side = "SELL" /\ h.qty = r.qty /\ c = Left(b, r)
  <2>1. Take(acc.lots[s0], r.qty) = [n |-> r.qty, cost |-> r.qty * h.price, left |-> <<>>]
    <3>1. TakenQty(Lot(h), r.qty) = r.qty
      BY <1>1, <1>l, <1>4 DEF TakenQty
    <3> QED
      BY <1>2, <1>l, <1>4, <3>1 DEF Take
  <2>2. Event(acc, r) = [acc EXCEPT !.lots[s0] = <<>>, !.pnl = @ + r.price * r.qty - r.qty * h.price]
    <3>1. r.qty - r.qty = 0 /\ r.side # "BUY"
      BY <1>1, <1>4
    <3> DEFINE t == Take(acc.lots[s0], r.qty)
    <3>2. t.n = r.qty /\ t.cost = r.qty * h.price /\ t.left = <<>>
      BY <2>1
    <3>3. Event(acc, r) = SellEvent(acc, r)
      BY <1>2, <3>1 DEF Event
    <3>4. SellEvent(acc, r) = [acc EXCEPT !.lots[r.sym] = t.left, !.pnl = @ + r.price * t.n - t.cost]
      <4>1. r.qty - t.n = 0
        BY <3>1, <3>2
      <4> HIDE DEF acc
      <4> QED
        BY <4>1 DEF SellEvent
    <3> HIDE DEF t, acc
    <3> QED
      BY <3>2, <3>3, <3>4
  <2>3. Event(acc, r) = Known(b.pnl + r.price * r.qty - r.qty * h.price, b.carry, b.carried, [L EXCEPT ![s0] = <<>>])
    <3>1. acc.lots = L /\ acc.pnl = b.pnl
      BY <1>2
    <3> DEFINE z == b.pnl + r.price * r.qty - r.qty * h.price
               M == [L EXCEPT ![s0] = <<>>]
    <3>2. Event(acc, r) = [acc EXCEPT !.lots[s0] = <<>>, !.pnl = z]
      <4> HIDE DEF acc, h
      <4> QED
        BY <2>2, <3>1
    <3> HIDE DEF L, acc, h, z
    <3>3. Event(acc, r) = [[acc EXCEPT !.lots = M] EXCEPT !.pnl = z]
      BY <3>1, <3>2, LotUpdated
    <3> HIDE DEF M
    <3>4. [[acc EXCEPT !.lots = M] EXCEPT !.pnl = z] = Known(z, b.carry, b.carried, M)
      <4>1. [acc EXCEPT !.lots = M] = Known(b.pnl, b.carry, b.carried, M)
        BY <1>2, KnownLots
      <4>2. [Known(b.pnl, b.carry, b.carried, M) EXCEPT !.pnl = z] = Known(z, b.carry, b.carried, M)
        BY KnownPnl
      <4> QED
        BY <4>1, <4>2
    <3> QED
      BY <3>3, <3>4 DEF z, M
  <2>4. [L EXCEPT ![s0] = <<>>] = [s \in D |-> Lot(c.lots[s])]
    <3>1. c.lots = [b.lots EXCEPT ![s0] = None]
      BY <1>1, <1>4 DEF Left, Books
    <3>2. Lot(c.lots[s0]) = <<>>
      <4>1. None \in Shares /\ None.qty = 0
        BY DEF None, Shares
      <4>2. c.lots[s0] = None
        BY <1>1, <3>1
      <4> QED
        BY <4>1, <4>2, LotFacts
    <3> QED
      BY <1>1, <3>1, <3>2
  <2>5. c.pnl = b.pnl + r.qty * (r.price - h.price) /\ c.carry = b.carry /\ c.carried = b.carried
    BY <1>4 DEF Left, Books
  <2>6. b.pnl + r.price * r.qty - r.qty * h.price = c.pnl
    <3>1. r.qty * (r.price - h.price) = r.price * r.qty - r.qty * h.price
      BY <1>1, <1>q
    <3>2. r.price * r.qty \in Int /\ r.qty * h.price \in Int
      BY <1>1, <1>q
    <3> QED
      BY <1>1, <2>5, <3>1, <3>2
  <2>7. AccOf(c, D) = Known(c.pnl, c.carry, c.carried, [s \in D |-> Lot(c.lots[s])])
    BY DEF AccOf
  <2> HIDE DEF L
  <2> QED
    BY <2>3, <2>4, <2>5, <2>6, <2>7
<1>5. CASE r.side = "SELL" /\ h.qty = 0 /\ r.avg > 0 /\ s0 \notin b.carried /\ c = CarriedOver(b, r)
  <2>e. Lot(h) = <<>> /\ acc.lots[s0] = <<>>
    BY <1>2, <1>5, <1>l
  <2>1. Take(acc.lots[s0], r.qty) = [n |-> 0, cost |-> 0, left |-> <<>>]
    <3>1. TakenQty(Lot(h), r.qty) = 0 /\ Len(Lot(h)) = 0
      BY <1>1, <1>l, <1>5 DEF TakenQty
    <3>2. SubSeq(Lot(h), 1, 0) = <<>> /\ SubSeq(Lot(h), 1, Len(Lot(h))) = <<>> /\ 0 + 1 = 1
      BY <1>l, <1>5, <3>1, <2>e
    <3>3. Cost(<<>>) = 0
      <4>1. 0 * h.price = 0
        BY <1>q
      <4> QED
        BY <1>l, <1>5, <4>1, <2>e
    <3> QED
      BY <1>2, <3>1, <3>2, <3>3 DEF Take
  <2>2. Event(acc, r) = [acc EXCEPT !.lots[s0] = <<>>, !.pnl = @ + r.price * 0 - 0,
                                    !.carry = @ + (r.price - r.avg) * r.qty, !.carried = @ \cup {s0}]
    <3> DEFINE t == Take(acc.lots[s0], r.qty)
               sold == [acc EXCEPT !.lots[r.sym] = t.left, !.pnl = @ + r.price * t.n - t.cost]
    <3>1. t.n = 0 /\ t.cost = 0 /\ t.left = <<>>
      BY <2>1
    <3>2. r.qty - t.n = r.qty /\ r.qty # 0 /\ r.side # "BUY"
      BY <1>1, <1>5, <3>1
    <3>3. Event(acc, r) = SellEvent(acc, r)
      BY <1>2, <3>2 DEF Event
    <3>4. acc.lots[r.sym] = <<>> /\ r.avg > 0 /\ r.sym \notin acc.carried
      BY <1>2, <1>5, <2>e
    <3>5. SellEvent(acc, r) = [sold EXCEPT !.carry = @ + (r.price - r.avg) * r.qty, !.carried = @ \cup {r.sym}]
      <4> HIDE DEF acc
      <4> QED
        BY <3>2, <3>4 DEF SellEvent
    <3> HIDE DEF t, acc
    <3> QED
      BY <3>1, <3>3, <3>5
  <2>3. Event(acc, r) = Known(b.pnl + r.price * 0 - 0, b.carry + (r.price - r.avg) * r.qty, b.carried \cup {s0},
                          [L EXCEPT ![s0] = <<>>])
    <3>1. acc.lots = L /\ acc.pnl = b.pnl /\ acc.carry = b.carry /\ acc.carried = b.carried
      BY <1>2
    <3> DEFINE z == b.pnl + r.price * 0 - 0
               u == b.carry + (r.price - r.avg) * r.qty
               w == b.carried \cup {s0}
               M == [L EXCEPT ![s0] = <<>>]
    <3> HIDE DEF L, acc, h
    <3>2. Event(acc, r) = [[[acc EXCEPT !.lots[s0] = <<>>, !.pnl = z] EXCEPT !.carry = u] EXCEPT !.carried = w]
      BY <2>2, <3>1
    <3> HIDE DEF z, u, w
    <3>3. [acc EXCEPT !.lots[s0] = <<>>, !.pnl = z] = [[acc EXCEPT !.lots = M] EXCEPT !.pnl = z]
      BY <3>1, LotUpdated
    <3> HIDE DEF M
    <3>4. [[[[acc EXCEPT !.lots = M] EXCEPT !.pnl = z] EXCEPT !.carry = u] EXCEPT !.carried = w] = Known(z, u, w, M)
      <4>1. [acc EXCEPT !.lots = M] = Known(b.pnl, b.carry, b.carried, M)
        BY <1>2, KnownLots
      <4>2. [Known(b.pnl, b.carry, b.carried, M) EXCEPT !.pnl = z] = Known(z, b.carry, b.carried, M)
        BY KnownPnl
      <4>3. [Known(z, b.carry, b.carried, M) EXCEPT !.carry = u] = Known(z, u, b.carried, M)
        BY KnownCarry
      <4>4. [Known(z, u, b.carried, M) EXCEPT !.carried = w] = Known(z, u, w, M)
        BY KnownCarried
      <4> QED
        BY <4>1, <4>2, <4>3, <4>4
    <3> QED
      BY <3>2, <3>3, <3>4 DEF z, u, w, M
  <2>4. [L EXCEPT ![s0] = <<>>] = [s \in D |-> Lot(c.lots[s])]
    <3>1. c.lots = b.lots
      BY <1>5 DEF CarriedOver, Books
    <3>2. L[s0] = <<>>
      BY <2>e
    <3> QED
      BY <3>1, <3>2
  <2>5. c.pnl = b.pnl /\ c.carry = b.carry + r.qty * (r.price - r.avg) /\ c.carried = b.carried \cup {s0}
    BY <1>5 DEF CarriedOver, Books
  <2>6. b.pnl + r.price * 0 - 0 = c.pnl /\ b.carry + (r.price - r.avg) * r.qty = c.carry
    <3>1. r.qty * (r.price - r.avg) = (r.price - r.avg) * r.qty /\ r.price * 0 = 0
      BY <1>1
    <3> QED
      BY <1>1, <2>5, <3>1
  <2>7. AccOf(c, D) = Known(c.pnl, c.carry, c.carried, [s \in D |-> Lot(c.lots[s])])
    BY DEF AccOf
  <2> HIDE DEF L
  <2> QED
    BY <2>3, <2>4, <2>5, <2>6, <2>7
<1> QED
  BY <1>3, <1>4, <1>5 DEF Booked

-----------------------------------------------------------------------------
(* The books after the rows of a day *)

Run(q, b) ==
  \E t \in [0 .. Len(q) -> Books] :
    t[0] = NoTrades /\ t[Len(q)] = b /\ \A i \in 1 .. Len(q) : Booked(t[i - 1], q[i], t[i])

LEMMA NoTradesTyped == NoTrades \in Books
<1>1. None \in Shares
  BY DEF None, Shares
<1> QED
  BY <1>1 DEF NoTrades, Books

LEMMA RunOfNothing == Run(<<>>, NoTrades)
<1> DEFINE t == [i \in 0 .. 0 |-> NoTrades]
<1>1. t \in [0 .. Len(<<>>) -> Books] /\ t[0] = NoTrades
  BY NoTradesTyped
<1>2. Len(<<>>) = 0 /\ \A i \in 1 .. 0 : Booked(t[i - 1], <<>>[i], t[i])
  OBVIOUS
<1> HIDE DEF t
<1> QED
  BY <1>1, <1>2 DEF Run

LEMMA RunGoesOn ==
  ASSUME NEW q \in Seq(TradeRows), NEW b \in Books, Run(q, b), NEW r \in TradeRows, NEW c, Booked(b, r, c)
  PROVE  Run(Append(q, r), c)
<1> DEFINE n == Len(q)
<1>0. n \in Nat /\ c \in Books
  BY BookedTyped
<1>1. PICK t \in [0 .. n -> Books] : t[0] = NoTrades /\ t[n] = b /\ \A i \in 1 .. n : Booked(t[i - 1], q[i], t[i])
  BY DEF Run
<1> DEFINE u == [i \in 0 .. n + 1 |-> IF i = n + 1 THEN c ELSE t[i]]
           p == Append(q, r)
<1>2. Len(p) = n + 1 /\ p[n + 1] = r /\ \A i \in 1 .. n : p[i] = q[i]
  OBVIOUS
<1>3. u \in [0 .. n + 1 -> Books]
  BY <1>0
<1>4. u[0] = NoTrades /\ u[n + 1] = c
  BY <1>0, <1>1
<1>5. ASSUME NEW i \in 1 .. n + 1 PROVE Booked(u[i - 1], p[i], u[i])
  <2>1. CASE i = n + 1
    <3>1. u[i - 1] = b /\ u[i] = c /\ p[i] = r
      BY <1>0, <1>1, <1>2, <2>1
    <3> QED
      BY <3>1
  <2>2. CASE i # n + 1
    <3>1. i \in 1 .. n /\ i - 1 \in 0 .. n /\ i - 1 # n + 1
      BY <1>0, <2>2
    <3>2. u[i - 1] = t[i - 1] /\ u[i] = t[i] /\ p[i] = q[i]
      BY <1>0, <1>2, <2>2, <3>1
    <3> QED
      BY <1>1, <3>1, <3>2
  <2> QED
    BY <2>1, <2>2
<1> HIDE DEF u, p, n
<1>6. u \in [0 .. Len(p) -> Books] /\ u[Len(p)] = c /\ \A i \in 1 .. Len(p) : Booked(u[i - 1], p[i], u[i])
  BY <1>2, <1>3, <1>4, <1>5
<1>7. Run(p, c)
  BY <1>4, <1>6 DEF Run
<1> QED
  BY <1>7 DEF p

\* Damage does not change what was booked.
LEMMA RunOfDamaged ==
  ASSUME NEW q \in Seq(TradeRows), NEW b, Run(q, b), q # <<>>
  PROVE  /\ [q EXCEPT ![Len(q)].damaged = TRUE] \in Seq(TradeRows)
         /\ Run([q EXCEPT ![Len(q)].damaged = TRUE], b)
<1> DEFINE n == Len(q)
           p == [q EXCEPT ![n].damaged = TRUE]
<1>0. n \in Nat \ {0} /\ n \in 1 .. n /\ q[n] \in TradeRows
  BY EmptySeq
<1>1. PICK t \in [0 .. n -> Books] : t[0] = NoTrades /\ t[n] = b /\ \A i \in 1 .. n : Booked(t[i - 1], q[i], t[i])
  BY DEF Run
<1>2. p = [q EXCEPT ![n] = [q[n] EXCEPT !.damaged = TRUE]]
  OBVIOUS
<1>d. [q[n] EXCEPT !.damaged = TRUE] \in TradeRows
  BY <1>0 DEF TradeRows
<1>3. p \in Seq(TradeRows) /\ Len(p) = n
  BY <1>0, <1>2, <1>d
<1>4. ASSUME NEW i \in 1 .. n
      PROVE  /\ p[i].sym = q[i].sym /\ p[i].side = q[i].side /\ p[i].qty = q[i].qty
             /\ p[i].price = q[i].price /\ p[i].avg = q[i].avg
  <2>1. CASE i = n
    <3>1. p[i] = [q[n] EXCEPT !.damaged = TRUE]
      BY <1>0, <1>2, <2>1
    <3> QED
      BY <1>0, <2>1, <3>1 DEF TradeRows
  <2>2. CASE i # n
    BY <1>2, <2>2
  <2> QED
    BY <2>1, <2>2
<1> HIDE DEF p
<1>5. ASSUME NEW i \in 1 .. n PROVE Booked(t[i - 1], p[i], t[i])
  <2>1. Booked(t[i - 1], q[i], t[i])
    BY <1>1
  <2> QED
    BY <1>4, <2>1 DEF Booked, Entered, Left, CarriedOver
<1>6. Run(p, b)
  BY <1>1, <1>3, <1>5 DEF Run
<1> QED
  BY <1>3, <1>6 DEF p

\* The computation of a day whose rows were booked is not refused and finds what was booked.
LEMMA RunIsComputed ==
  ASSUME NEW q \in Seq(TradeRows), NEW b, Run(q, b)
  PROVE  ByEvents(q).ok /\ ByEvents(q).pnl = b.pnl /\ ByEvents(q).carry = b.carry
<1> DEFINE n == Len(q)
           D == SymbolsOf(q)
<1>0. n \in Nat /\ DOMAIN q = 1 .. n /\ D \in SUBSET Symbols
  <2>1. \A i \in DOMAIN q : q[i] \in TradeRows
    OBVIOUS
  <2>2. \A i \in DOMAIN q : q[i].sym \in Symbols
    BY <2>1 DEF TradeRows
  <2> QED
    BY <2>2 DEF SymbolsOf
<1>1. PICK t \in [0 .. n -> Books] : t[0] = NoTrades /\ t[n] = b /\ \A i \in 1 .. n : Booked(t[i - 1], q[i], t[i])
  BY DEF Run
<1> DEFINE a == [i \in 0 .. n |-> AccOf(t[i], D)]
<1>2. NoEvents(q) = AccOf(NoTrades, D)
  <2>1. Lot(None) = <<>>
    <3>1. None \in Shares /\ None.qty = 0
      BY DEF None, Shares
    <3> QED
      BY <3>1, LotFacts
  <2>2. [s \in D |-> Lot(NoTrades.lots[s])] = [s \in D |-> <<>>]
    BY <1>0, <2>1 DEF NoTrades
  <2>3. NoTrades.pnl = 0 /\ NoTrades.carry = 0 /\ NoTrades.carried = {}
    BY DEF NoTrades
  <2>4. NoEvents(q) = Known(0, 0, {}, [s \in D |-> <<>>])
    BY DEF NoEvents, Known, Account
  <2>5. AccOf(NoTrades, D) = Known(NoTrades.pnl, NoTrades.carry, NoTrades.carried, [s \in D |-> Lot(NoTrades.lots[s])])
    BY DEF AccOf
  <2> HIDE DEF D
  <2> QED
    BY <2>2, <2>3, <2>4, <2>5
<1>3. a[0] = NoEvents(q) /\ a[n] = AccOf(b, D)
  BY <1>0, <1>1, <1>2
<1>4. ASSUME NEW i \in 1 .. n PROVE a[i] = Event(a[i - 1], q[i])
  <2>1. q[i] \in TradeRows /\ q[i].sym \in D /\ t[i - 1] \in Books
    BY <1>0 DEF SymbolsOf
  <2>2. Event(AccOf(t[i - 1], D), q[i]) = AccOf(t[i], D)
    <3> HIDE DEF D
    <3> QED
      BY <1>0, <1>1, <2>1, BookedIsEvent
  <2> QED
    BY <2>2
<1> HIDE DEF a, D
<1>5. FoldLeft(Event, NoEvents(q), q) = AccOf(b, D)
  <2>1. FoldLeft(Event, NoEvents(q), q) = a[n]
    BY <1>0, <1>3, <1>4, EventsRun
  <2> QED
    BY <1>3, <2>1
<1>6. AccOf(b, D).ok = TRUE /\ AccOf(b, D).pnl = b.pnl /\ AccOf(b, D).carry = b.carry
  BY DEF AccOf, Known, Account
<1>7. ByEvents(q) = [ok |-> TRUE, pnl |-> b.pnl, carry |-> b.carry]
  BY <1>5, <1>6 DEF ByEvents
<1> QED
  BY <1>7

-----------------------------------------------------------------------------
(* Sums over the symbols, in the order of some enumeration of them *)

Places == Cardinality(Symbols)
Place  == CHOOSE e : e \in Bijection(1 .. Places, Symbols)

IsSum(g, x) ==
  \E p \in [0 .. Places -> Int] :
    p[0] = 0 /\ p[Places] = x /\ \A i \in 1 .. Places : p[i] = p[i - 1] + g[Place[i]]

LEMMA PlaceFacts ==
  /\ Places \in Nat
  /\ \A i \in 1 .. Places : Place[i] \in Symbols
  /\ \A i, j \in 1 .. Places : Place[i] = Place[j] => i = j
  /\ \A s \in Symbols : \E i \in 1 .. Places : Place[i] = s
<1>1. Places \in Nat /\ ExistsBijection(1 .. Places, Symbols)
  BY RiskAssumption, FS_CardinalityType DEF Places
<1>2. \E e : e \in Bijection(1 .. Places, Symbols)
  BY <1>1 DEF ExistsBijection
<1>3. Place \in Bijection(1 .. Places, Symbols)
  BY <1>2 DEF Place
<1> HIDE DEF Place
<1> QED
  BY <1>1, <1>3 DEF Bijection, Injection, Surjection, IsInjective

LEMMA SumOfZeros ==
  ASSUME NEW g, \A s \in Symbols : g[s] = 0, NEW x
  PROVE  IsSum(g, x) <=> x = 0
<1>0. Places \in Nat /\ \A i \in 1 .. Places : g[Place[i]] = 0
  BY PlaceFacts
<1>1. IsSum(g, 0)
  <2> DEFINE p == [i \in 0 .. Places |-> 0]
  <2>1. p \in [0 .. Places -> Int] /\ p[0] = 0 /\ p[Places] = 0
    BY <1>0
  <2>2. \A i \in 1 .. Places : p[i] = p[i - 1] + g[Place[i]]
    <3> TAKE i \in 1 .. Places
    <3>1. p[i] = 0 /\ p[i - 1] = 0 /\ g[Place[i]] = 0
      BY <1>0
    <3> QED
      BY <3>1
  <2> HIDE DEF p
  <2> QED
    BY <2>1, <2>2 DEF IsSum
<1>2. ASSUME IsSum(g, x) PROVE x = 0
  <2>1. PICK p \in [0 .. Places -> Int] :
               p[0] = 0 /\ p[Places] = x /\ \A i \in 1 .. Places : p[i] = p[i - 1] + g[Place[i]]
    BY <1>2 DEF IsSum
  <2> DEFINE Z == {i \in 0 .. Places : p[i] = 0}
  <2>2. 0 \in Z
    BY <1>0, <2>1
  <2>3. ASSUME NEW i \in 0 .. Places - 1, i \in Z PROVE i + 1 \in Z
    <3>1. i + 1 \in 1 .. Places /\ (i + 1) - 1 = i /\ p[i] = 0
      BY <1>0, <2>3
    <3>2. p[i + 1] = p[i] + g[Place[i + 1]]
      BY <2>1, <3>1
    <3> QED
      BY <1>0, <3>1, <3>2
  <2> HIDE DEF Z
  <2>4. 0 .. Places \subseteq Z
    <3>1. \A i \in 0 .. Places - 1 : i \in Z => i + 1 \in Z
      BY <2>3
    <3> QED
      BY <1>0, <2>2, <3>1, Induction
  <2> QED
    BY <1>0, <2>1, <2>4 DEF Z
<1> QED
  BY <1>1, <1>2

\* A sum changes by what one of its members changes.
LEMMA SumChanges ==
  ASSUME NEW g \in [Symbols -> Int], NEW s \in Symbols, NEW d \in Int, NEW x \in Int, IsSum(g, x),
         NEW h, \A t \in Symbols : h[t] = IF t = s THEN g[t] + d ELSE g[t]
  PROVE  IsSum(h, x + d)
<1>1. PICK p \in [0 .. Places -> Int] :
             p[0] = 0 /\ p[Places] = x /\ \A i \in 1 .. Places : p[i] = p[i - 1] + g[Place[i]]
  BY DEF IsSum
<1>2. PICK k \in 1 .. Places : Place[k] = s
  BY PlaceFacts
<1> DEFINE q == [i \in 0 .. Places |-> IF i < k THEN p[i] ELSE p[i] + d]
<1>3. Places \in Nat
  BY PlaceFacts
<1>4. q \in [0 .. Places -> Int] /\ q[0] = 0 /\ q[Places] = x + d
  BY <1>1, <1>3
<1>5. ASSUME NEW i \in 1 .. Places PROVE q[i] = q[i - 1] + h[Place[i]]
  <2>1. p[i] = p[i - 1] + g[Place[i]] /\ i \in Int /\ i - 1 \in 0 .. Places /\ i \in 0 .. Places
    BY <1>1, <1>3
  <2>2. Place[i] \in Symbols /\ g[Place[i]] \in Int /\ p[i - 1] \in Int
    BY <1>1, <2>1, PlaceFacts
  <2>3. h[Place[i]] = IF i = k THEN g[Place[i]] + d ELSE g[Place[i]]
    <3>1. Place[i] = s <=> i = k
      BY <1>2, PlaceFacts
    <3> QED
      BY <2>2, <3>1
  <2>4. q[i] = (IF i < k THEN p[i] ELSE p[i] + d) /\ q[i - 1] = (IF i - 1 < k THEN p[i - 1] ELSE p[i - 1] + d)
    BY <2>1
  <2> HIDE DEF q
  <2> QED
    BY <1>2, <2>1, <2>2, <2>3, <2>4
<1> HIDE DEF q
<1> QED
  BY <1>4, <1>5 DEF IsSum

-----------------------------------------------------------------------------
(* What the account has earned and what its rows say *)

\* What is under way and has a row.
OpenBuy(s)  == orders[s].side = "BUY" /\ orders[s].open /\ orders[s].row
OpenSell(s) == orders[s].side = "SELL" /\ orders[s].open /\ orders[s].row

\* What a SELL will have earned once it is filled: its row says so already.
Pending == [s \in Symbols |-> IF OpenSell(s) THEN orders[s].qty * (orders[s].price - orders[s].avg) ELSE 0]

\* What was earned by sales that have a row.
Seen == realised - unseen

OrderFits(s) ==
  /\ held[s].qty > 0 => held[s].price > 0
  /\ orders[s].side = "BUY" /\ orders[s].open => held[s].qty = 0 /\ orders[s].qty > 0 /\ orders[s].price > 0
  /\ orders[s].side = "SELL" /\ orders[s].open =>
       held[s].qty > 0 /\ orders[s].qty = held[s].qty /\ orders[s].avg = held[s].price

\* The lot of a symbol is what the account has of it, or will have once a BUY is filled;
\* what was carried over, or bought without a row, has no lot, and none of it has been sold
\* before.  Nothing is known of the lots of a symbol that was missed.
LotFits(b, s) ==
  s \notin missed =>
    /\ OpenBuy(s) => b.lots[s] = [qty |-> orders[s].qty, price |-> orders[s].price]
    /\ OpenSell(s) => b.lots[s].qty = 0
    /\ ~OpenBuy(s) /\ ~OpenSell(s) =>
         \/ b.lots[s] = held[s] /\ held[s].qty > 0
         \/ b.lots[s].qty = 0 /\ (held[s].qty > 0 => s \notin b.carried)

BooksFit(b) ==
  /\ Run(rows, b)
  /\ \A s \in Symbols : LotFits(b, s) /\ (s \in b.carried => SoldToday(s))
  /\ IsSum(Pending, b.pnl + b.carry - Seen)

\* No order under way has a row that the books cannot follow; when it is over, exact is FALSE.
Traceable == \A s \in Symbols : s \in missed => ~OpenBuy(s) /\ ~OpenSell(s)

EarnInv ==
  /\ rows \in Seq(TradeRows) /\ realised \in Int /\ unseen \in Int
  /\ \A s \in Symbols : OrderFits(s)
  /\ exact /\ Traceable => \E b \in Books : BooksFit(b)

-----------------------------------------------------------------------------
LEMMA PendingTyped ==
  ASSUME LossInv
  PROVE  Pending \in [Symbols -> Int]
<1>1. ASSUME NEW s \in Symbols, OpenSell(s)
      PROVE  orders[s].qty * (orders[s].price - orders[s].avg) \in Int
  <2>1. orders[s] \in Selling
    BY <1>1 DEF LossInv, Typed, OrdersTyped, OpenSell, NoOrder, Buying
  <2> QED
    BY <2>1 DEF Selling
<1> QED
  BY <1>1 DEF Pending

LEMMA LotFitsKept ==
  ASSUME NEW b, NEW c, NEW t \in Symbols, LotFits(b, t), c.lots[t] = b.lots[t],
         t \in c.carried <=> t \in b.carried, orders'[t] = orders[t], held'[t] = held[t],
         t \in missed => t \in missed'
  PROVE  LotFits(c, t)'
BY DEF LotFits, OpenBuy, OpenSell

LEMMA OrderFitsKept ==
  ASSUME NEW t \in Symbols, OrderFits(t), orders'[t] = orders[t], held'[t] = held[t]
  PROVE  OrderFits(t)'
BY DEF OrderFits

\* Rows are only added on a day.
LEMMA SoldStays ==
  ASSUME NEW s, NEW r \in TradeRows, rows \in Seq(TradeRows), rows' = Append(rows, r)
  PROVE  /\ SoldToday(s) => SoldToday(s)'
         /\ r.sym = s /\ r.side = "SELL" => SoldToday(s)'
<1>1. /\ Len(rows) \in Nat /\ DOMAIN rows = 1 .. Len(rows) /\ DOMAIN rows' = 1 .. Len(rows) + 1
      /\ rows'[Len(rows) + 1] = r /\ \A i \in 1 .. Len(rows) : rows'[i] = rows[i]
  OBVIOUS
<1> QED
  BY <1>1 DEF SoldToday

LEMMA EarnInvInit == Init => EarnInv
<1> SUFFICES ASSUME Init PROVE EarnInv
  OBVIOUS
<1>1. \A s \in Symbols : orders[s] = NoOrder /\ ~OpenBuy(s) /\ ~OpenSell(s)
  BY DEF Init, NoOrder, OpenBuy, OpenSell
<1>2. ASSUME NEW s \in Symbols PROVE OrderFits(s) /\ LotFits(NoTrades, s) /\ s \notin NoTrades.carried
  <2>1. held[s] = None \/ held[s].price \in Nat \ {0}
    BY RiskAssumption DEF Init
  <2>2. held[s].qty > 0 => held[s].price > 0
    BY <2>1 DEF None
  <2>3. NoTrades.lots[s].qty = 0 /\ s \notin NoTrades.carried
    BY DEF NoTrades, None
  <2>4. OrderFits(s)
    BY <1>1, <2>2 DEF OrderFits, NoOrder
  <2> QED
    BY <1>1, <2>3, <2>4 DEF LotFits
<1>3. BooksFit(NoTrades)
  <2>1. NoTrades.pnl + NoTrades.carry - Seen = 0
    BY DEF Init, NoTrades, Seen
  <2>2. IsSum(Pending, 0)
    <3>1. \A s \in Symbols : Pending[s] = 0
      BY <1>1 DEF Pending
    <3> QED
      BY <3>1, SumOfZeros
  <2>3. Run(rows, NoTrades)
    BY RunOfNothing DEF Init
  <2> QED
    BY <1>2, <2>1, <2>2, <2>3 DEF BooksFit
<1>4. rows \in Seq(TradeRows) /\ realised \in Int /\ unseen \in Int
  BY DEF Init
<1> QED
  BY <1>2, <1>3, <1>4, NoTradesTyped DEF EarnInv

\* What has a row and is under way stays: nothing is earned and nothing is said.
LEMMA NothingMoves ==
  ASSUME EarnInv, UNCHANGED <<held, rows, realised, unseen, exact, missed>>,
         \A s \in Symbols : OrderFits(s)',
         \A s \in Symbols : (OpenBuy(s)' <=> OpenBuy(s)) /\ (OpenSell(s)' <=> OpenSell(s)),
         \A s \in Symbols : OpenBuy(s) \/ OpenSell(s) =>
           /\ orders'[s].qty = orders[s].qty /\ orders'[s].price = orders[s].price
           /\ OpenSell(s) => orders'[s].avg = orders[s].avg
  PROVE  EarnInv'
<1>1. ASSUME NEW b \in Books, BooksFit(b) PROVE BooksFit(b)'
  <2>1. \A s \in Symbols : LotFits(b, s)'
    BY <1>1 DEF BooksFit, LotFits
  <2>2. Pending' = Pending
    BY DEF Pending
  <2>3. IsSum(Pending, b.pnl + b.carry - Seen)'
    BY <1>1, <2>2 DEF BooksFit, IsSum, Seen
  <2>4. Run(rows, b)'
    BY <1>1 DEF BooksFit, Run
  <2>5. \A s \in Symbols : s \in b.carried => SoldToday(s)'
    BY <1>1 DEF BooksFit, SoldToday
  <2> QED
    BY <2>1, <2>3, <2>4, <2>5 DEF BooksFit
<1>2. Traceable' => Traceable
  BY DEF Traceable
<1> QED
  BY <1>1, <1>2 DEF EarnInv

-----------------------------------------------------------------------------
\* An entry: the symbol has no lot.
LEMMA TryBuyEarns ==
  ASSUME LossInv, EarnInv, NEW s \in Symbols, NEW p \in Prices, NEW answered \in BOOLEAN,
         TryBuy(s, p, answered)
  PROVE  EarnInv'
<1> DEFINE n == Quantity(p)
           r == Row(s, "BUY", n, p, 0)
           o == [side |-> "BUY", qty |-> n, price |-> p, filled |-> 0, counted |-> FALSE,
                 open |-> TRUE, row |-> answered, known |-> answered]
<1>1. /\ orders[s] = NoOrder /\ held[s].qty = 0
      /\ orders' = [orders EXCEPT ![s] = o] /\ rows' = IF answered THEN Append(rows, r) ELSE rows
      /\ UNCHANGED <<held, realised, unseen, exact, missed>>
  BY DEF TryBuy, Send, account, history
<1>2. n \in Nat \ {0} /\ p \in Nat \ {0}
  BY RiskAssumption DEF Quantity
<1>3. r \in TradeRows /\ r.sym = s /\ r.side = "BUY" /\ r.qty = n /\ r.price = p
  BY <1>2 DEF Row, TradeRows
<1>4. orders'[s] = o /\ \A t \in Symbols : t # s => orders'[t] = orders[t]
  BY <1>1 DEF LossInv, Typed, OrdersTyped
<1>5. /\ ~OpenBuy(s) /\ ~OpenSell(s) /\ (OpenBuy(s)' <=> answered) /\ ~OpenSell(s)'
      /\ orders'[s].qty = n /\ orders'[s].price = p /\ orders'[s].side = "BUY"
  BY <1>1, <1>4 DEF OpenBuy, OpenSell, NoOrder
<1>6. rows' \in Seq(TradeRows) /\ realised' \in Int /\ unseen' \in Int
  BY <1>1, <1>3 DEF EarnInv
<1>7. \A t \in Symbols : OrderFits(t)'
  <2> TAKE t \in Symbols
  <2>1. CASE t = s
    BY <1>1, <1>2, <1>5, <2>1 DEF OrderFits
  <2>2. CASE t # s
    BY <1>1, <1>4, <2>2, OrderFitsKept DEF EarnInv
  <2> QED
    BY <2>1, <2>2
<1>8. ASSUME NEW b \in Books, BooksFit(b), answered, s \notin missed PROVE \E c \in Books : BooksFit(c)'
  <2> DEFINE c == Entered(b, r)
  <2>1. b.lots[s].qty = 0
    BY <1>1, <1>5, <1>8 DEF BooksFit, LotFits
  <2>2. Booked(b, r, c)
    BY <1>3, <2>1 DEF Booked
  <2>3. c \in Books
    BY <1>3, <2>2, BookedTyped
  <2>4. Run(rows, c)'
    <3>1. Run(Append(rows, r), c)
      BY <1>3, <1>8, <2>2, RunGoesOn DEF EarnInv, BooksFit
    <3> QED
      BY <1>1, <1>8, <3>1 DEF Run
  <2>5. /\ c.lots[s] = [qty |-> n, price |-> p] /\ c.pnl = b.pnl /\ c.carry = b.carry /\ c.carried = b.carried
        /\ \A t \in Symbols : t # s => c.lots[t] = b.lots[t]
    BY <1>3 DEF Entered, Books
  <2> HIDE DEF c
  <2>6. ASSUME NEW t \in Symbols PROVE LotFits(c, t)'
    <3>1. CASE t = s
      BY <1>5, <1>8, <2>5, <3>1 DEF LotFits
    <3>2. CASE t # s
      BY <1>1, <1>4, <1>8, <2>5, <3>2, LotFitsKept DEF BooksFit
    <3> QED
      BY <3>1, <3>2
  <2>7. Pending' = Pending
    <3>1. \A t \in Symbols : t # s => (OpenSell(t)' <=> OpenSell(t)) /\ orders'[t] = orders[t]
      BY <1>4 DEF OpenSell
    <3> QED
      BY <1>5, <3>1 DEF Pending
  <2>8. IsSum(Pending, c.pnl + c.carry - Seen)'
    <3>1. IsSum(Pending, c.pnl + c.carry - Seen)
      BY <1>8, <2>5 DEF BooksFit
    <3> QED
      BY <1>1, <2>7, <3>1 DEF IsSum, Seen
  <2>9. \A t \in Symbols : t \in c.carried => SoldToday(t)'
    BY <1>1, <1>3, <1>8, <2>5, SoldStays DEF BooksFit, EarnInv
  <2> QED
    BY <2>3, <2>4, <2>6, <2>8, <2>9 DEF BooksFit
<1>9. CASE answered
  <2>1. Traceable' => s \notin missed /\ Traceable
    BY <1>1, <1>4, <1>5, <1>9 DEF Traceable, OpenBuy, OpenSell
  <2> QED
    BY <1>1, <1>6, <1>7, <1>8, <1>9, <2>1 DEF EarnInv
<1>10. CASE ~answered
  <2>1. \A t \in Symbols : (OpenBuy(t)' <=> OpenBuy(t)) /\ (OpenSell(t)' <=> OpenSell(t))
    BY <1>4, <1>5, <1>10 DEF OpenBuy, OpenSell
  <2> QED
    BY <1>1, <1>4, <1>5, <1>7, <1>10, <2>1, NothingMoves
<1> QED
  BY <1>9, <1>10

\* An exit: what it will earn is what its row says, whether the shares were bought
\* today or carried over.
LEMMA TrySellEarns ==
  ASSUME LossInv, EarnInv, NEW s \in Symbols, NEW p \in Prices, NEW why \in Reasons,
         NEW answered \in BOOLEAN, TrySell(s, p, why, answered)
  PROVE  EarnInv'
<1> DEFINE n == held[s].qty
           a == held[s].price
           r == Row(s, "SELL", n, p, a)
           o == [side |-> "SELL", qty |-> n, price |-> p, reason |-> why, avg |-> a,
                 open |-> TRUE, row |-> answered, known |-> answered]
           d == n * (p - a)
<1>1. /\ orders[s] = NoOrder /\ n > 0
      /\ orders' = [orders EXCEPT ![s] = o] /\ rows' = IF answered THEN Append(rows, r) ELSE rows
      /\ UNCHANGED <<held, realised, unseen, exact, missed>>
  BY DEF TrySell, Send, account, history
<1>2. n \in Nat \ {0} /\ a \in Nat \ {0} /\ p \in Nat \ {0} /\ d \in Int
  <2>1. n \in Nat /\ a \in Nat /\ a > 0
    BY <1>1 DEF LossInv, Typed, AccountTyped, Shares, EarnInv, OrderFits
  <2>2. p \in Nat \ {0}
    BY RiskAssumption
  <2> QED
    BY <1>1, <2>1, <2>2
<1>3. r \in TradeRows /\ r.sym = s /\ r.side = "SELL" /\ r.qty = n /\ r.price = p /\ r.avg = a
  BY <1>2 DEF Row, TradeRows
<1>4. orders'[s] = o /\ \A t \in Symbols : t # s => orders'[t] = orders[t]
  BY <1>1 DEF LossInv, Typed, OrdersTyped
<1>5. /\ ~OpenBuy(s) /\ ~OpenSell(s) /\ ~OpenBuy(s)' /\ (OpenSell(s)' <=> answered)
      /\ orders'[s].qty = n /\ orders'[s].price = p /\ orders'[s].avg = a /\ orders'[s].side = "SELL"
  BY <1>1, <1>4 DEF OpenBuy, OpenSell, NoOrder
<1>6. rows' \in Seq(TradeRows) /\ realised' \in Int /\ unseen' \in Int
  BY <1>1, <1>3 DEF EarnInv
<1>7. \A t \in Symbols : OrderFits(t)'
  <2> TAKE t \in Symbols
  <2>1. CASE t = s
    BY <1>1, <1>2, <1>5, <2>1 DEF OrderFits
  <2>2. CASE t # s
    BY <1>1, <1>4, <2>2, OrderFitsKept DEF EarnInv
  <2> QED
    BY <2>1, <2>2
<1>8. ASSUME NEW b \in Books, BooksFit(b), answered, s \notin missed PROVE \E c \in Books : BooksFit(c)'
  <2>0. b.pnl \in Int /\ b.carry \in Int
    BY DEF Books
  <2>1. \E c : /\ Booked(b, r, c) /\ c.lots[s].qty = 0
               /\ c.pnl + c.carry = (b.pnl + b.carry) + d
               /\ \A t \in Symbols : t # s => c.lots[t] = b.lots[t] /\ (t \in c.carried <=> t \in b.carried)
    <3>1. CASE b.lots[s] = held[s]
      <4> DEFINE c == Left(b, r)
      <4>1. Booked(b, r, c)
        BY <1>3, <3>1 DEF Booked
      <4>2. c.lots[s].qty = 0 /\ c.carried = b.carried /\ \A t \in Symbols : t # s => c.lots[t] = b.lots[t]
        BY <1>3 DEF Left, Books, None
      <4>3. c.pnl = b.pnl + d /\ c.carry = b.carry
        BY <1>3, <3>1 DEF Left, Books
      <4>4. c.pnl + c.carry = (b.pnl + b.carry) + d
        <5> HIDE DEF c, d
        <5> QED
          BY <1>2, <2>0, <4>3
      <4> QED
        BY <4>1, <4>2, <4>4
    <3>2. CASE b.lots[s].qty = 0 /\ s \notin b.carried
      <4> DEFINE c == CarriedOver(b, r)
      <4>1. Booked(b, r, c)
        BY <1>2, <1>3, <3>2 DEF Booked
      <4>2. /\ c.lots[s].qty = 0 /\ \A t \in Symbols : t # s => c.lots[t] = b.lots[t]
            /\ \A t \in Symbols : t # s => (t \in c.carried <=> t \in b.carried)
        BY <1>3, <3>2 DEF CarriedOver, Books
      <4>3. c.pnl = b.pnl /\ c.carry = b.carry + d
        BY <1>3 DEF CarriedOver, Books
      <4>4. c.pnl + c.carry = (b.pnl + b.carry) + d
        <5> HIDE DEF c, d
        <5> QED
          BY <1>2, <2>0, <4>3
      <4> QED
        BY <4>1, <4>2, <4>4
    <3> QED
      BY <1>1, <1>5, <1>8, <3>1, <3>2 DEF BooksFit, LotFits
  <2>2. PICK c : /\ Booked(b, r, c) /\ c.lots[s].qty = 0
                 /\ c.pnl + c.carry = (b.pnl + b.carry) + d
                 /\ \A t \in Symbols : t # s => c.lots[t] = b.lots[t] /\ (t \in c.carried <=> t \in b.carried)
    BY <2>1
  <2>3. c \in Books
    BY <1>3, <2>2, BookedTyped
  <2>4. Run(rows, c)'
    <3>1. Run(Append(rows, r), c)
      BY <1>3, <1>8, <2>2, RunGoesOn DEF EarnInv, BooksFit
    <3> QED
      BY <1>1, <1>8, <3>1 DEF Run
  <2>6. ASSUME NEW t \in Symbols PROVE LotFits(c, t)'
    <3>1. CASE t = s
      BY <1>5, <1>8, <2>2, <3>1 DEF LotFits
    <3>2. CASE t # s
      BY <1>1, <1>4, <1>8, <2>2, <3>2, LotFitsKept DEF BooksFit
    <3> QED
      BY <3>1, <3>2
  <2>7. \A t \in Symbols : Pending'[t] = IF t = s THEN Pending[t] + d ELSE Pending[t]
    <3> TAKE t \in Symbols
    <3>1. CASE t = s
      <4>1. Pending[s] = 0 /\ Pending'[s] = d
        BY <1>5, <1>8 DEF Pending
      <4> HIDE DEF d
      <4> QED
        BY <1>2, <3>1, <4>1
    <3>2. CASE t # s
      BY <1>4, <3>2 DEF Pending, OpenSell
    <3> QED
      BY <3>1, <3>2
  <2>8. IsSum(Pending, c.pnl + c.carry - Seen)'
    <3> DEFINE x == b.pnl + b.carry - Seen
    <3>1. x \in Int /\ IsSum(Pending, x)
      BY <1>8, <2>0 DEF BooksFit, EarnInv, Seen
    <3> HIDE DEF x, d
    <3>2. IsSum(Pending', x + d)
      BY <1>2, <2>7, <3>1, PendingTyped, SumChanges
    <3>3. c.pnl + c.carry - Seen' = x + d
      <4>1. c.pnl \in Int /\ c.carry \in Int
        BY <2>3 DEF Books, EarnInv
      <4>2. c.pnl + c.carry = (b.pnl + b.carry) + d
        BY <2>2
      <4>3. Seen' = Seen /\ Seen \in Int
        BY <1>1 DEF EarnInv, Seen
      <4>4. d \in Int
        BY <1>2
      <4> QED
        BY <2>0, <4>1, <4>2, <4>3, <4>4 DEF x
    <3> QED
      BY <3>2, <3>3 DEF IsSum
  <2>9. \A t \in Symbols : t \in c.carried => SoldToday(t)'
    BY <1>1, <1>3, <1>8, <2>2, SoldStays DEF BooksFit, EarnInv
  <2> QED
    BY <2>3, <2>4, <2>6, <2>8, <2>9 DEF BooksFit
<1>9. CASE answered
  <2>1. Traceable' => s \notin missed /\ Traceable
    BY <1>1, <1>4, <1>5, <1>9 DEF Traceable, OpenBuy, OpenSell
  <2> QED
    BY <1>1, <1>6, <1>7, <1>8, <1>9, <2>1 DEF EarnInv
<1>10. CASE ~answered
  <2>1. \A t \in Symbols : (OpenBuy(t)' <=> OpenBuy(t)) /\ (OpenSell(t)' <=> OpenSell(t))
    BY <1>4, <1>5, <1>10 DEF OpenBuy, OpenSell
  <2> QED
    BY <1>1, <1>4, <1>5, <1>7, <1>10, <2>1, NothingMoves
<1> QED
  BY <1>9, <1>10

\* A BUY that is filled in full: its lot is what the account has now.
LEMMA FillBuyEarns ==
  ASSUME LossInv, EarnInv, NEW s \in Symbols, NEW n \in 0..OrderCash, Fill(s, n), orders[s].side = "BUY",
         orders[s].row
  PROVE  EarnInv'
<1> DEFINE o == orders[s]
<1>1. /\ o.open /\ n \in 0..o.qty /\ (exact' => exact /\ n = o.qty /\ s \notin missed)
      /\ orders' = [orders EXCEPT ![s].open = FALSE, ![s].filled = n]
      /\ held' = [held EXCEPT ![s] = IF n = 0 THEN None ELSE [qty |-> n, price |-> o.price]]
      /\ UNCHANGED <<realised, unseen, missed, rows>>
  BY DEF Fill
<1>2. o \in Buying /\ o.qty \in Nat /\ n \in Nat
  BY <1>1 DEF LossInv, Typed, OrdersTyped, NoOrder, Selling, Buying
<1>3. OpenBuy(s) /\ ~OpenSell(s) /\ o.price > 0 /\ o.qty > 0
  BY <1>1 DEF OpenBuy, OpenSell, EarnInv, OrderFits
<1>4. /\ \A t \in Symbols : t # s => orders'[t] = orders[t] /\ held'[t] = held[t]
      /\ held'[s] = IF n = 0 THEN None ELSE [qty |-> n, price |-> o.price]
  BY <1>1 DEF LossInv, Typed, OrdersTyped, AccountTyped
<1>5. ~OpenBuy(s)' /\ ~OpenSell(s)' /\ orders'[s].open = FALSE
  <2>1. orders'[s] = [o EXCEPT !.open = FALSE, !.filled = n]
    BY <1>1 DEF LossInv, Typed, OrdersTyped
  <2> QED
    BY <1>2, <2>1 DEF OpenBuy, OpenSell, Buying
<1>6. rows' \in Seq(TradeRows) /\ realised' \in Int /\ unseen' \in Int
  BY <1>1 DEF EarnInv
<1>7. \A t \in Symbols : OrderFits(t)'
  <2> TAKE t \in Symbols
  <2>1. CASE t = s
    <3>1. held'[s].qty > 0 => held'[s].price > 0
      BY <1>2, <1>3, <1>4 DEF None
    <3> QED
      BY <1>5, <2>1, <3>1 DEF OrderFits
  <2>2. CASE t # s
    BY <1>4, <2>2, OrderFitsKept DEF EarnInv
  <2> QED
    BY <2>1, <2>2
<1>8. ASSUME NEW b \in Books, BooksFit(b), n = o.qty, s \notin missed PROVE BooksFit(b)'
  <2>1. b.lots[s] = [qty |-> n, price |-> o.price] /\ n > 0
    BY <1>3, <1>8 DEF BooksFit, LotFits
  <2>2. ASSUME NEW t \in Symbols PROVE LotFits(b, t)'
    <3>1. CASE t = s
      <4>1. held'[s] = b.lots[s] /\ held'[s].qty > 0
        BY <1>2, <1>4, <2>1
      <4> QED
        BY <1>5, <3>1, <4>1 DEF LotFits
    <3>2. CASE t # s
      BY <1>1, <1>4, <1>8, <3>2, LotFitsKept DEF BooksFit
    <3> QED
      BY <3>1, <3>2
  <2>3. Pending' = Pending
    <3>1. \A t \in Symbols : t # s => (OpenSell(t)' <=> OpenSell(t)) /\ orders'[t] = orders[t]
      BY <1>4 DEF OpenSell
    <3> QED
      BY <1>3, <1>5, <3>1 DEF Pending
  <2>4. IsSum(Pending, b.pnl + b.carry - Seen) /\ Run(rows, b)
    BY <1>8 DEF BooksFit
  <2>5. IsSum(Pending, b.pnl + b.carry - Seen)'
    BY <1>1, <2>3, <2>4 DEF IsSum, Seen
  <2>6. Run(rows, b)'
    BY <1>1, <2>4 DEF Run
  <2>7. \A t \in Symbols : t \in b.carried => SoldToday(t)'
    BY <1>1, <1>8 DEF BooksFit, SoldToday
  <2> QED
    BY <2>2, <2>5, <2>6, <2>7 DEF BooksFit
<1>9. exact' /\ Traceable' => \E b \in Books : BooksFit(b)'
  <2>1. exact' /\ Traceable' => Traceable
    BY <1>1, <1>4 DEF Traceable, OpenBuy, OpenSell
  <2> QED
    BY <1>1, <1>8, <2>1 DEF EarnInv
<1> QED
  BY <1>6, <1>7, <1>9 DEF EarnInv

\* A SELL that is filled in full: what was to be earned has been.
LEMMA FillSellEarns ==
  ASSUME LossInv, EarnInv, NEW s \in Symbols, NEW n \in 0..OrderCash, Fill(s, n), orders[s].side = "SELL",
         orders[s].row
  PROVE  EarnInv'
<1> DEFINE o == orders[s]
           d == o.qty * (o.price - o.avg)
<1>1. /\ o.open /\ n \in 0..o.qty /\ (exact' => exact /\ n = o.qty /\ s \notin missed)
      /\ orders' = [orders EXCEPT ![s].open = FALSE]
      /\ n = o.qty => held' = [held EXCEPT ![s] = None]
      /\ n # o.qty => held' = [held EXCEPT ![s].qty = @ - n]
      /\ realised' = realised + n * (o.price - o.avg)
      /\ UNCHANGED <<unseen, missed, rows>>
  BY DEF Fill
<1>2. o \in Selling /\ o.qty \in Nat /\ o.price \in Nat /\ o.avg \in Nat /\ n \in Nat
  BY <1>1 DEF LossInv, Typed, OrdersTyped, NoOrder, Selling, Buying
<1>3. OpenSell(s) /\ ~OpenBuy(s)
  BY <1>1 DEF OpenBuy, OpenSell
<1>4. \A t \in Symbols : t # s => orders'[t] = orders[t] /\ held'[t] = held[t]
  BY <1>1 DEF LossInv, Typed, OrdersTyped, AccountTyped
<1>5. ~OpenBuy(s)' /\ ~OpenSell(s)' /\ orders'[s].open = FALSE
  <2>1. orders'[s] = [o EXCEPT !.open = FALSE]
    BY <1>1 DEF LossInv, Typed, OrdersTyped
  <2> QED
    BY <1>2, <2>1 DEF OpenBuy, OpenSell, Selling
<1>6. rows' \in Seq(TradeRows) /\ realised' \in Int /\ unseen' \in Int
  <2>1. n * (o.price - o.avg) \in Int
    BY <1>2
  <2> QED
    BY <1>1, <2>1 DEF EarnInv
<1>7. \A t \in Symbols : OrderFits(t)'
  <2> TAKE t \in Symbols
  <2>1. CASE t = s
    <3>1. held'[s].price = held[s].price \/ held'[s] = None
      BY <1>1 DEF LossInv, Typed, AccountTyped, Shares
    <3>2. held[s].price > 0
      BY <1>1 DEF EarnInv, OrderFits
    <3>3. held'[s].qty > 0 => held'[s].price > 0
      BY <3>1, <3>2 DEF None
    <3> QED
      BY <1>5, <2>1, <3>3 DEF OrderFits
  <2>2. CASE t # s
    BY <1>4, <2>2, OrderFitsKept DEF EarnInv
  <2> QED
    BY <2>1, <2>2
<1>8. ASSUME NEW b \in Books, BooksFit(b), n = o.qty, s \notin missed PROVE BooksFit(b)'
  <2>1. b.lots[s].qty = 0 /\ held'[s].qty = 0
    <3>1. held'[s] = None
      BY <1>1, <1>8 DEF LossInv, Typed, AccountTyped
    <3>2. LotFits(b, s)
      BY <1>8 DEF BooksFit
    <3>3. b.lots[s].qty = 0
      BY <1>3, <1>8, <3>2 DEF LotFits
    <3> QED
      BY <3>1, <3>3 DEF None
  <2>2. ASSUME NEW t \in Symbols PROVE LotFits(b, t)'
    <3>1. CASE t = s
      BY <1>5, <2>1, <3>1 DEF LotFits
    <3>2. CASE t # s
      BY <1>1, <1>4, <1>8, <3>2, LotFitsKept DEF BooksFit
    <3> QED
      BY <3>1, <3>2
  <2>d. d \in Int
    BY <1>2
  <2>3. \A t \in Symbols : Pending'[t] = IF t = s THEN Pending[t] + (-d) ELSE Pending[t]
    <3> TAKE t \in Symbols
    <3>1. CASE t = s
      <4>1. Pending[s] = d /\ Pending'[s] = 0
        BY <1>3, <1>5 DEF Pending
      <4> HIDE DEF d
      <4> QED
        BY <2>d, <3>1, <4>1
    <3>2. CASE t # s
      BY <1>4, <3>2 DEF Pending, OpenSell
    <3> QED
      BY <3>1, <3>2
  <2>4. IsSum(Pending, b.pnl + b.carry - Seen)'
    <3> DEFINE x == b.pnl + b.carry - Seen
    <3>0. b.pnl \in Int /\ b.carry \in Int /\ realised \in Int /\ unseen \in Int
      BY DEF Books, EarnInv
    <3>1. x \in Int /\ IsSum(Pending, x)
      BY <1>8, <3>0 DEF BooksFit, Seen
    <3>5. realised' = realised + d
      BY <1>1, <1>8
    <3> HIDE DEF x, d
    <3>2. IsSum(Pending', x + (-d))
      <4>1. -d \in Int
        BY <2>d
      <4> QED
        BY <2>3, <3>1, <4>1, PendingTyped, SumChanges
    <3>3. b.pnl + b.carry - Seen' = x + (-d)
      BY <1>1, <2>d, <3>0, <3>5 DEF x, Seen
    <3> QED
      BY <3>2, <3>3 DEF IsSum
  <2>5. Run(rows, b)'
    BY <1>1, <1>8 DEF Run, BooksFit
  <2>6. \A t \in Symbols : t \in b.carried => SoldToday(t)'
    BY <1>1, <1>8 DEF BooksFit, SoldToday
  <2> QED
    BY <2>2, <2>4, <2>5, <2>6 DEF BooksFit
<1>9. exact' /\ Traceable' => \E b \in Books : BooksFit(b)'
  <2>1. exact' /\ Traceable' => Traceable
    BY <1>1, <1>4 DEF Traceable, OpenBuy, OpenSell
  <2> QED
    BY <1>1, <1>8, <2>1 DEF EarnInv
<1> QED
  BY <1>6, <1>7, <1>9 DEF EarnInv

\* An order without a row is filled: its shares count as carried over, or its symbol is missed,
\* and what it earns is not seen.
LEMMA FillUnansweredEarns ==
  ASSUME LossInv, EarnInv, NEW s \in Symbols, NEW n \in 0..OrderCash, Fill(s, n), ~orders[s].row
  PROVE  EarnInv'
<1> DEFINE o == orders[s]
<1>1. /\ o # NoOrder /\ o.open /\ n \in 0..o.qty /\ (exact' => exact) /\ UNCHANGED rows
      /\ missed' = IF n > 0 /\ (o.side = "SELL" \/ SoldToday(s)) THEN missed \cup {s} ELSE missed
  BY DEF Fill
<1>2. \/ /\ o \in Buying /\ o.side = "BUY" /\ UNCHANGED <<realised, unseen>>
         /\ held' = [held EXCEPT ![s] = IF n = 0 THEN None ELSE [qty |-> n, price |-> o.price]]
         /\ orders' = [orders EXCEPT ![s].open = FALSE, ![s].filled = n]
      \/ /\ o \in Selling /\ o.side = "SELL"
         /\ realised' = realised + n * (o.price - o.avg) /\ unseen' = unseen + n * (o.price - o.avg)
         /\ n = o.qty => held' = [held EXCEPT ![s] = None]
         /\ n # o.qty => held' = [held EXCEPT ![s].qty = @ - n]
         /\ orders' = [orders EXCEPT ![s].open = FALSE]
  BY DEF Fill, LossInv, Typed, OrdersTyped, NoOrder, Buying, Selling
<1>3. n \in Nat /\ held[s] \in Shares
  BY RiskAssumption DEF LossInv, Typed, AccountTyped
<1>4. \A t \in Symbols : t # s => orders'[t] = orders[t] /\ held'[t] = held[t]
  BY <1>1, <1>2 DEF LossInv, Typed, OrdersTyped, AccountTyped
<1>5. orders'[s].open = FALSE
  <2>1. CASE o \in Buying /\ orders' = [orders EXCEPT ![s].open = FALSE, ![s].filled = n]
    <3>1. orders'[s] = [o EXCEPT !.open = FALSE, !.filled = n]
      BY <2>1 DEF LossInv, Typed, OrdersTyped
    <3> QED
      BY <2>1, <3>1 DEF Buying
  <2>2. CASE o \in Selling /\ orders' = [orders EXCEPT ![s].open = FALSE]
    <3>1. orders'[s] = [o EXCEPT !.open = FALSE]
      BY <2>2 DEF LossInv, Typed, OrdersTyped
    <3> QED
      BY <2>2, <3>1 DEF Selling
  <2> QED
    BY <1>2, <2>1, <2>2
<1>6. ~OpenBuy(s) /\ ~OpenSell(s) /\ ~OpenBuy(s)' /\ ~OpenSell(s)'
  BY <1>5 DEF OpenBuy, OpenSell
<1>7. realised' \in Int /\ unseen' \in Int /\ Seen' = Seen
  <2>1. CASE UNCHANGED <<realised, unseen>>
    BY <2>1 DEF EarnInv, Seen
  <2>2. CASE o \in Selling /\ realised' = realised + n * (o.price - o.avg) /\ unseen' = unseen + n * (o.price - o.avg)
    <3> DEFINE d == n * (o.price - o.avg)
    <3>1. d \in Int
      BY <1>3, <2>2 DEF Selling
    <3>2. realised' = realised + d /\ unseen' = unseen + d
      BY <2>2
    <3> HIDE DEF d
    <3> QED
      BY <3>1, <3>2 DEF EarnInv, Seen
  <2> QED
    BY <1>2, <2>1, <2>2
<1>8. held'[s].qty > 0 => held'[s].price > 0
  <2>1. CASE o \in Buying /\ o.side = "BUY" /\ held' = [held EXCEPT ![s] = IF n = 0 THEN None ELSE [qty |-> n, price |-> o.price]]
    <3>1. held'[s] = (IF n = 0 THEN None ELSE [qty |-> n, price |-> o.price]) /\ o.price > 0
      BY <1>1, <2>1 DEF LossInv, Typed, AccountTyped, EarnInv, OrderFits
    <3> QED
      BY <3>1 DEF None
  <2>2. CASE o.side = "SELL" /\ (n = o.qty => held' = [held EXCEPT ![s] = None])
                             /\ (n # o.qty => held' = [held EXCEPT ![s].qty = @ - n])
    <3>1. held'[s].price = held[s].price \/ held'[s] = None
      BY <2>2 DEF LossInv, Typed, AccountTyped, Shares
    <3>2. held[s].price > 0
      BY <1>1, <2>2 DEF EarnInv, OrderFits
    <3> QED
      BY <3>1, <3>2 DEF None
  <2> QED
    BY <1>2, <2>1, <2>2
<1>9. \A t \in Symbols : OrderFits(t)'
  <2> TAKE t \in Symbols
  <2>1. CASE t = s
    BY <1>5, <1>8, <2>1 DEF OrderFits
  <2>2. CASE t # s
    BY <1>4, <2>2, OrderFitsKept DEF EarnInv
  <2> QED
    BY <2>1, <2>2
<1>10. ASSUME NEW b \in Books, BooksFit(b) PROVE BooksFit(b)'
  <2>1. LotFits(b, s)'
    <3> SUFFICES ASSUME s \notin missed'
                 PROVE  \/ b.lots[s] = held'[s] /\ held'[s].qty > 0
                        \/ b.lots[s].qty = 0 /\ (held'[s].qty > 0 => s \notin b.carried)
      BY <1>6 DEF LotFits
    <3>1. s \notin missed /\ (n = 0 \/ (o.side # "SELL" /\ ~SoldToday(s)))
      BY <1>1, <1>3
    <3>2. \/ b.lots[s] = held[s] /\ held[s].qty > 0
          \/ b.lots[s].qty = 0 /\ (held[s].qty > 0 => s \notin b.carried)
      BY <1>6, <1>10, <3>1 DEF BooksFit, LotFits
    <3>3. CASE o \in Buying /\ o.side = "BUY" /\ held' = [held EXCEPT ![s] = IF n = 0 THEN None ELSE [qty |-> n, price |-> o.price]]
      <4>1. held[s].qty = 0
        BY <1>1, <3>3 DEF EarnInv, OrderFits
      <4>2. held'[s] = IF n = 0 THEN None ELSE [qty |-> n, price |-> o.price]
        BY <3>3 DEF LossInv, Typed, AccountTyped
      <4>3. s \in b.carried => SoldToday(s)
        BY <1>10 DEF BooksFit
      <4> QED
        BY <3>1, <3>2, <4>1, <4>2, <4>3 DEF None
    <3>4. CASE o.side = "SELL" /\ (n # o.qty => held' = [held EXCEPT ![s].qty = @ - n])
      <4>1. n = 0 /\ o.qty > 0
        BY <1>1, <3>1, <3>4 DEF EarnInv, OrderFits
      <4>2. held'[s] = held[s]
        BY <1>3, <3>4, <4>1 DEF LossInv, Typed, AccountTyped, Shares
      <4> QED
        BY <3>2, <4>2
    <3> QED
      BY <1>2, <3>3, <3>4
  <2>2. ASSUME NEW t \in Symbols PROVE LotFits(b, t)'
    <3>1. CASE t = s
      BY <2>1, <3>1
    <3>2. CASE t # s
      BY <1>1, <1>4, <1>10, <3>2, LotFitsKept DEF BooksFit
    <3> QED
      BY <3>1, <3>2
  <2>3. Pending' = Pending
    <3>1. \A t \in Symbols : t # s => (OpenSell(t)' <=> OpenSell(t)) /\ orders'[t] = orders[t]
      BY <1>4 DEF OpenSell
    <3> QED
      BY <1>6, <3>1 DEF Pending
  <2>4. IsSum(Pending, b.pnl + b.carry - Seen)'
    BY <1>7, <1>10, <2>3 DEF BooksFit, IsSum
  <2>5. Run(rows, b)'
    BY <1>1, <1>10 DEF BooksFit, Run
  <2>6. \A t \in Symbols : t \in b.carried => SoldToday(t)'
    BY <1>1, <1>10 DEF BooksFit, SoldToday
  <2> QED
    BY <2>2, <2>4, <2>5, <2>6 DEF BooksFit
<1>11. Traceable' => Traceable
  BY <1>1, <1>4, <1>6 DEF Traceable, OpenBuy, OpenSell
<1> QED
  BY <1>1, <1>7, <1>9, <1>10, <1>11 DEF EarnInv

LEMMA FirstFillEarns ==
  ASSUME LossInv, EarnInv, NEW s \in Symbols, FirstFill(s)
  PROVE  EarnInv'
<1>1. /\ orders[s].side = "BUY" /\ orders' = [orders EXCEPT ![s].counted = TRUE]
      /\ UNCHANGED <<held, rows, realised, unseen, exact, missed>>
  BY DEF FirstFill, account, history
<1>2. orders[s] \in Buying
  BY <1>1 DEF LossInv, Typed, OrdersTyped, NoOrder, Selling
<1>3. \A t \in Symbols : t # s => orders'[t] = orders[t]
  BY <1>1 DEF LossInv, Typed, OrdersTyped
<1>4. /\ orders'[s].side = orders[s].side /\ (orders'[s].open <=> orders[s].open)
      /\ (orders'[s].row <=> orders[s].row)
      /\ orders'[s].qty = orders[s].qty /\ orders'[s].price = orders[s].price
  BY <1>1, <1>2 DEF LossInv, Typed, OrdersTyped, Buying
<1>5. ~OpenSell(s)
  BY <1>1 DEF OpenSell
<1>6. \A t \in Symbols : (OpenBuy(t)' <=> OpenBuy(t)) /\ (OpenSell(t)' <=> OpenSell(t))
  BY <1>3, <1>4 DEF OpenBuy, OpenSell
<1>7. \A t \in Symbols : OrderFits(t)'
  BY <1>1, <1>3, <1>4 DEF EarnInv, OrderFits
<1> QED
  BY <1>1, <1>3, <1>4, <1>5, <1>6, <1>7, NothingMoves

LEMMA ResolveEarns ==
  ASSUME LossInv, EarnInv, NEW s \in Symbols, Resolve(s)
  PROVE  EarnInv'
<1>1. /\ ~orders[s].open /\ orders' = [orders EXCEPT ![s] = NoOrder]
      /\ UNCHANGED <<held, rows, realised, unseen, exact, missed>>
  BY DEF Resolve, account
<1>2. orders'[s] = NoOrder /\ \A t \in Symbols : t # s => orders'[t] = orders[t]
  BY <1>1 DEF LossInv, Typed, OrdersTyped
<1>3. ~OpenBuy(s) /\ ~OpenSell(s) /\ ~OpenBuy(s)' /\ ~OpenSell(s)'
  BY <1>1, <1>2 DEF OpenBuy, OpenSell, NoOrder
<1>4. \A t \in Symbols : (OpenBuy(t)' <=> OpenBuy(t)) /\ (OpenSell(t)' <=> OpenSell(t))
  BY <1>2, <1>3 DEF OpenBuy, OpenSell
<1>5. \A t \in Symbols : OrderFits(t)'
  BY <1>1, <1>2 DEF EarnInv, OrderFits, NoOrder
<1> QED
  BY <1>1, <1>2, <1>3, <1>4, <1>5, NothingMoves

\* An acknowledgement changes nothing of an order but what is known of it.
LEMMA AcknowledgeEarns ==
  ASSUME LossInv, EarnInv, NEW s \in Symbols, Acknowledge(s)
  PROVE  EarnInv'
<1>1. /\ ~orders[s].open /\ orders[s] # NoOrder /\ orders' = [orders EXCEPT ![s].known = FALSE]
      /\ UNCHANGED <<held, rows, realised, unseen, exact, missed>>
  BY DEF Acknowledge, account, history
<1>2. \A t \in Symbols : t # s => orders'[t] = orders[t]
  BY <1>1 DEF LossInv, Typed, OrdersTyped
<1>3. ~orders'[s].open
  <2>1. orders'[s] = [orders[s] EXCEPT !.known = FALSE] /\ orders[s] \in Buying \cup Selling
    BY <1>1 DEF LossInv, Typed, OrdersTyped
  <2> QED
    BY <1>1, <2>1 DEF Buying, Selling
<1>4. ~OpenBuy(s) /\ ~OpenSell(s) /\ ~OpenBuy(s)' /\ ~OpenSell(s)'
  BY <1>1, <1>3 DEF OpenBuy, OpenSell
<1>5. \A t \in Symbols : (OpenBuy(t)' <=> OpenBuy(t)) /\ (OpenSell(t)' <=> OpenSell(t))
  BY <1>2, <1>4 DEF OpenBuy, OpenSell
<1>6. \A t \in Symbols : OrderFits(t)'
  BY <1>1, <1>2, <1>3 DEF EarnInv, OrderFits
<1> QED
  BY <1>1, <1>2, <1>4, <1>5, <1>6, NothingMoves

\* A restart changes nothing of an order but what is known of it.
LEMMA RestartEarns ==
  ASSUME LossInv, EarnInv, Restart
  PROVE  EarnInv'
<1>1. /\ orders' = [s \in Symbols |-> IF orders[s] = NoOrder THEN NoOrder ELSE [orders[s] EXCEPT !.known = FALSE]]
      /\ UNCHANGED <<held, rows, realised, unseen, exact, missed>>
  BY DEF Restart, account
<1>2. ASSUME NEW s \in Symbols
      PROVE  /\ orders'[s].side = orders[s].side
             /\ orders[s].side \in {"BUY", "SELL"} =>
                  /\ (orders'[s].open <=> orders[s].open) /\ (orders'[s].row <=> orders[s].row)
                  /\ orders'[s].qty = orders[s].qty /\ orders'[s].price = orders[s].price
             /\ orders[s].side = "SELL" => orders'[s].avg = orders[s].avg
  <2>1. orders[s] \in {NoOrder} \cup Buying \cup Selling
    BY DEF LossInv, Typed, OrdersTyped
  <2>2. CASE orders[s] = NoOrder
    BY <1>1, <2>2 DEF NoOrder
  <2>3. CASE orders[s] # NoOrder /\ orders[s] \in Buying
    <3>1. orders'[s] = [orders[s] EXCEPT !.known = FALSE]
      BY <1>1, <2>3
    <3> QED
      BY <2>3, <3>1 DEF Buying
  <2>4. CASE orders[s] # NoOrder /\ orders[s] \in Selling
    <3>1. orders'[s] = [orders[s] EXCEPT !.known = FALSE]
      BY <1>1, <2>4
    <3> QED
      BY <2>4, <3>1 DEF Selling
  <2> QED
    BY <2>1, <2>2, <2>3, <2>4
<1>3. \A s \in Symbols : (OpenBuy(s)' <=> OpenBuy(s)) /\ (OpenSell(s)' <=> OpenSell(s))
  BY <1>2 DEF OpenBuy, OpenSell
<1>4. \A s \in Symbols : OrderFits(s)'
  BY <1>1, <1>2 DEF EarnInv, OrderFits
<1>5. \A s \in Symbols : OpenBuy(s) \/ OpenSell(s) =>
           /\ orders'[s].qty = orders[s].qty /\ orders'[s].price = orders[s].price
           /\ OpenSell(s) => orders'[s].avg = orders[s].avg
  BY <1>2 DEF OpenBuy, OpenSell
<1> QED
  BY <1>1, <1>3, <1>4, <1>5, NothingMoves

\* A new day whose orders are all over begins with empty books; what is held was carried over.
LEMMA NewDayEarns ==
  ASSUME EarnInv, NewDay
  PROVE  EarnInv'
<1>1. /\ UNCHANGED <<held, orders>> /\ rows' = <<>> /\ realised' = 0 /\ unseen' = 0 /\ missed' = {}
      /\ exact' = \A s \in Symbols : orders[s] = NoOrder \/ ~orders[s].open \/ ~orders[s].row
  BY DEF NewDay
<1>2. \A s \in Symbols : OrderFits(s)'
  BY <1>1, OrderFitsKept DEF EarnInv
<1>3. ASSUME exact' PROVE BooksFit(NoTrades)'
  <2>0. \A s \in Symbols : orders[s] = NoOrder \/ ~orders[s].open \/ ~orders[s].row
    BY <1>1, <1>3, Zenon
  <2>1. \A s \in Symbols : ~OpenBuy(s)' /\ ~OpenSell(s)'
    <3> TAKE s \in Symbols
    <3>1. orders'[s] = orders[s]
      BY <1>1
    <3>2. CASE orders[s] = NoOrder
      BY <3>1, <3>2 DEF OpenBuy, OpenSell, NoOrder
    <3>3. CASE ~orders[s].open
      BY <3>1, <3>3, Zenon DEF OpenBuy, OpenSell
    <3>4. CASE ~orders[s].row
      BY <3>1, <3>4, Zenon DEF OpenBuy, OpenSell
    <3> QED
      BY <2>0, <3>2, <3>3, <3>4
  <2>2. \A s \in Symbols : LotFits(NoTrades, s)'
    BY <2>1 DEF LotFits, NoTrades, None
  <2>3. IsSum(Pending', 0)
    <3>1. \A s \in Symbols : Pending'[s] = 0
      BY <2>1 DEF Pending
    <3> QED
      BY <3>1, SumOfZeros
  <2>4. NoTrades.pnl + NoTrades.carry - Seen' = 0
    BY <1>1 DEF NoTrades, Seen
  <2>5. Run(rows', NoTrades)
    BY <1>1, RunOfNothing
  <2>6. IsSum(Pending, NoTrades.pnl + NoTrades.carry - Seen)'
    <3>1. (NoTrades.pnl + NoTrades.carry - Seen)' = NoTrades.pnl + NoTrades.carry - Seen'
      BY DEF NoTrades
    <3> QED
      BY <2>3, <2>4, <3>1 DEF IsSum, NoTrades
  <2>7. Run(rows, NoTrades)'
    BY <2>5 DEF Run, NoTrades
  <2>8. \A s \in Symbols : s \notin NoTrades.carried
    BY DEF NoTrades
  <2> QED
    BY <2>2, <2>6, <2>7, <2>8 DEF BooksFit, NoTrades
<1>4. rows' \in Seq(TradeRows) /\ realised' \in Int /\ unseen' \in Int
  BY <1>1
<1> QED
  BY <1>2, <1>3, <1>4, NoTradesTyped DEF EarnInv

\* A damaged row is what it was for the books.
LEMMA TearRowEarns ==
  ASSUME EarnInv, TearRow
  PROVE  EarnInv'
<1>1. /\ rows # <<>> /\ rows' = [rows EXCEPT ![Len(rows)].damaged = TRUE]
      /\ UNCHANGED <<held, orders, realised, unseen, exact, missed>>
  BY DEF TearRow, account, history
<1>2. \A s \in Symbols : OrderFits(s)'
  BY <1>1, OrderFitsKept DEF EarnInv
<1>3. ASSUME NEW b \in Books, BooksFit(b) PROVE BooksFit(b)'
  <2>1. \A s \in Symbols : LotFits(b, s)'
    BY <1>1, <1>3, LotFitsKept DEF BooksFit
  <2>2. IsSum(Pending, b.pnl + b.carry - Seen)'
    <3>1. Pending' = Pending
      BY <1>1 DEF Pending, OpenSell
    <3> QED
      BY <1>1, <1>3, <3>1 DEF BooksFit, IsSum, Seen
  <2>3. Run(rows', b)
    BY <1>1, <1>3, RunOfDamaged DEF BooksFit, EarnInv
  <2>4. Run(rows, b)'
    BY <2>3 DEF Run
  <2>5. \A s : SoldToday(s) => SoldToday(s)'
    <3>1. rows \in Seq(TradeRows) /\ Len(rows) \in DOMAIN rows
      BY <1>1, EmptySeq DEF EarnInv
    <3>2. \A i \in DOMAIN rows : rows'[i].sym = rows[i].sym /\ rows'[i].side = rows[i].side
      BY <1>1, <3>1 DEF TradeRows
    <3>3. DOMAIN rows' = DOMAIN rows
      BY <1>1, <3>1
    <3> QED
      BY <3>2, <3>3 DEF SoldToday
  <2> QED
    BY <1>3, <2>1, <2>2, <2>4, <2>5 DEF BooksFit
<1>4. rows' \in Seq(TradeRows) /\ realised' \in Int /\ unseen' \in Int
  <2>1. exact \/ ~exact
    OBVIOUS
  <2>2. rows \in Seq(TradeRows) /\ Len(rows) \in 1 .. Len(rows) /\ rows[Len(rows)] \in TradeRows
    BY <1>1, EmptySeq DEF EarnInv
  <2>3. [rows[Len(rows)] EXCEPT !.damaged = TRUE] \in TradeRows
    BY <2>2 DEF TradeRows
  <2>4. rows' = [rows EXCEPT ![Len(rows)] = [rows[Len(rows)] EXCEPT !.damaged = TRUE]]
    BY <1>1
  <2> QED
    BY <1>1, <2>2, <2>3, <2>4 DEF EarnInv
<1>5. Traceable' => Traceable
  BY <1>1 DEF Traceable, OpenBuy, OpenSell
<1> QED
  BY <1>1, <1>2, <1>3, <1>4, <1>5 DEF EarnInv

LEMMA NextKeepsEarnInv == LossInv /\ EarnInv /\ [Next]_vars => EarnInv'
<1> SUFFICES ASSUME LossInv, EarnInv, [Next]_vars PROVE EarnInv'
  OBVIOUS
<1>1. ASSUME NEW s \in Symbols, NEW p \in Prices, NEW a \in BOOLEAN, TryBuy(s, p, a) PROVE EarnInv'
  BY <1>1, TryBuyEarns
<1>2. ASSUME NEW s \in Symbols, NEW p \in Prices, NEW a \in BOOLEAN, NEW r \in Reasons, TrySell(s, p, r, a)
      PROVE  EarnInv'
  BY <1>2, TrySellEarns
<1>3. ASSUME NEW s \in Symbols, NEW n \in 0..OrderCash, Fill(s, n) PROVE EarnInv'
  <2>1. orders[s].side \in {"BUY", "SELL"}
    BY <1>3 DEF Fill
  <2>2. CASE ~orders[s].row
    BY <1>3, <2>2, FillUnansweredEarns
  <2>3. CASE orders[s].row
    BY <1>3, <2>1, <2>3, FillBuyEarns, FillSellEarns
  <2> QED
    BY <2>2, <2>3
<1>4. ASSUME NEW s \in Symbols, FirstFill(s) PROVE EarnInv'
  BY <1>4, FirstFillEarns
<1>5. ASSUME NEW s \in Symbols, Resolve(s) PROVE EarnInv'
  BY <1>5, ResolveEarns
<1>6. ASSUME UNCHANGED <<held, rows, realised, unseen, exact, missed, orders>> PROVE EarnInv'
  <2>1. \A s \in Symbols : OrderFits(s)'
    BY <1>6, OrderFitsKept DEF EarnInv
  <2> QED
    BY <1>6, <2>1, NothingMoves DEF OpenBuy, OpenSell
<1>7. CASE Elapse
  BY <1>6, <1>7 DEF Elapse, account, history
<1>8. CASE Restart
  BY <1>8, RestartEarns
<1>9. CASE UNCHANGED vars
  BY <1>6, <1>9 DEF vars, account, history
<1>10. CASE TearRow
  BY <1>10, TearRowEarns
<1>11. CASE NewDay
  BY <1>11, NewDayEarns
<1>12. CASE Save
  BY <1>6, <1>12 DEF Save, account, history
<1>13. ASSUME NEW s \in Symbols, Acknowledge(s) PROVE EarnInv'
  BY <1>13, AcknowledgeEarns
<1> QED
  BY <1>1, <1>2, <1>3, <1>4, <1>5, <1>7, <1>8, <1>9, <1>10, <1>11, <1>12, <1>13 DEF Next

-----------------------------------------------------------------------------
\* Once nothing is under way, nothing is still to be earned.
LEMMA SettledBooks ==
  ASSUME EarnInv, NothingUnresolved, exact, \A i \in DOMAIN rows : ~rows[i].damaged
  PROVE  LET p == DailyRealizedPnl(rows) IN p.ok /\ p.pnl + p.carry = realised - unseen
<1>1. PICK b \in Books : BooksFit(b)
  <2>1. Traceable
    BY DEF Traceable, OpenBuy, OpenSell, NothingUnresolved, NoOrder
  <2> QED
    BY <2>1 DEF EarnInv
<1>2. b.pnl + b.carry - Seen = 0
  <2>1. \A s \in Symbols : Pending[s] = 0
    BY DEF Pending, OpenSell, NothingUnresolved, NoOrder
  <2> QED
    BY <1>1, <2>1, SumOfZeros DEF BooksFit
<1>3. b.pnl \in Int /\ b.carry \in Int /\ realised \in Int /\ unseen \in Int
  BY DEF Books, EarnInv
<1>4. ByEvents(rows).ok /\ ByEvents(rows).pnl = b.pnl /\ ByEvents(rows).carry = b.carry
  BY <1>1, RunIsComputed DEF BooksFit, EarnInv
<1>5. DailyRealizedPnl(rows) = ByEvents(rows)
  BY DEF DailyRealizedPnl
<1> QED
  BY <1>2, <1>3, <1>4, <1>5 DEF Seen

LEMMA LimitStops ==
  ASSUME EarnInv, LossLimitStopsEntries, [Next]_vars
  PROVE  LossLimitStopsEntries'
<1>1. ASSUME NEW s \in Symbols, NEW p \in Prices, NEW a \in BOOLEAN, TryBuy(s, p, a) PROVE LossLimitStopsEntries'
  <2>1. NothingUnresolved /\ WithinLossLimit /\ UNCHANGED <<realised, unseen, exact>>
    BY <1>1 DEF TryBuy, CanPlaceOrder, account, history
  <2>2. \A i \in DOMAIN rows : ~rows[i].damaged
    BY <2>1 DEF WithinLossLimit, DailyRealizedPnl, Refused
  <2>3. exact => realised - unseen > -MaxDailyLoss
    BY <2>1, <2>2, SettledBooks DEF WithinLossLimit
  <2> QED
    BY <2>1, <2>3 DEF LossLimitStopsEntries
<1>2. ASSUME entering' = "none" PROVE LossLimitStopsEntries'
  BY <1>2 DEF LossLimitStopsEntries
<1>3. CASE UNCHANGED vars
  BY <1>3 DEF vars, account, history, LossLimitStopsEntries
<1>4. ASSUME NEW s \in Symbols, NEW p \in Prices, NEW a \in BOOLEAN, NEW r \in Reasons, TrySell(s, p, r, a)
      PROVE  entering' = "none"
  BY <1>4 DEF TrySell
<1>5. ASSUME NEW s \in Symbols, NEW n \in 0..OrderCash, Fill(s, n) PROVE entering' = "none"
  BY <1>5 DEF Fill
<1>6. ASSUME NEW s \in Symbols, FirstFill(s) \/ Acknowledge(s) \/ Resolve(s) PROVE entering' = "none"
  BY <1>6 DEF FirstFill, Acknowledge, Resolve
<1>7. ASSUME Save \/ Elapse \/ TearRow \/ NewDay \/ Restart PROVE entering' = "none"
  BY <1>7 DEF Save, Elapse, TearRow, NewDay, Restart
<1> QED
  BY <1>1, <1>2, <1>3, <1>4, <1>5, <1>6, <1>7 DEF Next

\* If every order of the day that was answered was filled in full, the risk manager's
\* computation from the orders is neither wrong nor refused once nothing is under way: it is
\* what was earned but for sales whose answer was lost, whatever was carried over, bought
\* without an answer, sold and bought again (_calc_daily_realized_pnl,
\* calculate_realized_pnl_by_events).
THEOREM EarningsStayKnown == Spec => []EarningsAreKnown
<1>1. EarnInv => EarningsAreKnown
  <2> SUFFICES ASSUME EarnInv PROVE EarningsAreKnown
    OBVIOUS
  <2> QED
    BY SettledBooks DEF EarningsAreKnown, Settled
<1> QED
  BY <1>1, LossInvInit, EarnInvInit, NextKeepsLossInv, NextKeepsEarnInv, PTL DEF Spec

\* So no entry is ordered on a day whose sales that were answered have really lost the
\* limit, and neither a damaged file, nor a restart, nor a BUY whose answer was lost hides
\* the loss (can_place_order).
THEOREM LimitStopsEntries == Spec => []LossLimitStopsEntries
<1>1. Init => LossLimitStopsEntries
  BY DEF Init, LossLimitStopsEntries
<1>2. EarnInv /\ LossLimitStopsEntries /\ [Next]_vars => LossLimitStopsEntries'
  BY LimitStops
<1> QED
  BY <1>1, <1>2, LossInvInit, EarnInvInit, NextKeepsLossInv, NextKeepsEarnInv, PTL DEF Spec
=============================================================================
