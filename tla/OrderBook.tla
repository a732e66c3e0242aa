----------------------------- MODULE OrderBook -----------------------------
(***************************************************************************)
(* What the trading service promises about the orders it has outstanding    *)
(* at the broker, with nothing said about how it knows.  An order is in the *)
(* book from the moment it is sent until the broker is done with it, also   *)
(* when the answer was lost or the process has been restarted since.        *)
(*                                                                         *)
(*  - A BUY is sent only when the account has no order outstanding at all   *)
(*    (the ACCOUNT_ORDER_UNRESOLVED rule of _try_buy).                      *)
(*  - A SELL is sent only when its own symbol has none (the HARD block of   *)
(*    decide_sell): an exit is never held back by another symbol's order.   *)
(***************************************************************************)
CONSTANTS Symbols, Ids

VARIABLE book

Sides == {"BUY", "SELL"}

Orders == [id : Ids, sym : Symbols, side : Sides]

TypeOK == book \subseteq Orders

Init == book = {}

Send(o) == o \notin book /\ book' = book \cup {o}

Buy  == /\ book = {}
        /\ \E i \in Ids, s \in Symbols : Send([id |-> i, sym |-> s, side |-> "BUY"])

Sell == \E i \in Ids, s \in Symbols :
          /\ \A o \in book : o.sym # s
          /\ Send([id |-> i, sym |-> s, side |-> "SELL"])

Finish == \E o \in book : book' = book \ {o}

Next == Buy \/ Sell \/ Finish

Spec == Init /\ [][Next]_book
=============================================================================
