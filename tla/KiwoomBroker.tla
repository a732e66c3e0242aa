---------------------------- MODULE KiwoomBroker ----------------------------
(***************************************************************************)
(* infra/broker/kiwoom_broker.py and kiwoom_order_status.py: one order     *)
(* sent with place_order, and the read-only queries that ask afterwards    *)
(* what became of it (get_order_status_evidence).  Each request is one     *)
(* action; the exchange moves between any two of them, so the pages of a   *)
(* list, and the two lists of a query, show different moments.             *)
(*                                                                         *)
(* Order numbers are compared without leading zeros in the code; here they *)
(* are numbers.  A row shows its state and the three quantities the        *)
(* judgement reads.                                                        *)
(***************************************************************************)
EXTENDS Integers, Sequences, FiniteSets

CONSTANTS
  MaxQty,      \* shares of the order
  MaxOthers,   \* orders of the same symbol entered by hand
  PageSize,    \* rows the server puts on a page
  MaxPages,    \* ORDER_QUERY_MAX_CONTINUATION_PAGES
  MaxRetries   \* PLACE_ORDER_RATE_LIMIT_MAX_RETRIES

ASSUME BrokerAssumption ==
  /\ MaxQty \in Nat \ {0} /\ PageSize \in Nat \ {0} /\ MaxPages \in Nat \ {0}
  /\ MaxOthers \in Nat /\ MaxRetries \in Nat

VARIABLES
  book,      \* the exchange: every order ever registered, oldest first
  own,       \* the orders of it that place_order has registered (history)
  stage,     \* where the program is: new, send, idle, or the list it is reading
  retries,   \* refusals for the rate limit that were retried
  result,    \* the OrderResult of place_order
  tracked,   \* the order number it returned, 0 if none
  page,      \* the page to be asked for next
  found,     \* what the row of the order on each list is worth, as read so far
  traded,    \* whether the order had a fill when the reading of the fills began (history)
  verdict    \* what the last query says of the order

exchange == <<book, own>>
call     == <<stage, retries, result, tracked>>
query    == <<page, found, traded, verdict>>
brokerVars == <<exchange, call, query>>

NoRow == "none"
NoQty == -1          \* a quantity that cannot be parsed
Nothing == [oso |-> NoRow, cntr |-> NoRow]

-----------------------------------------------------------------------------
(* The exchange.  External.                                                  *)

NewOrder(qty) == [qty |-> qty, filled |-> 0, live |-> TRUE]

\* One share of an order trades; the last one ends it.
Fill(i) ==
  /\ book[i].live
  /\ book' = [book EXCEPT ![i].filled = @ + 1, ![i].live = book[i].filled + 1 < book[i].qty]
  /\ UNCHANGED <<own, call, query>>

\* What is left of an order is cancelled.
Cancel(i) ==
  /\ book[i].live
  /\ book' = [book EXCEPT ![i].live = FALSE]
  /\ UNCHANGED <<own, call, query>>

\* Somebody trades the same symbol by hand.
OtherOrder ==
  /\ Len(book) - Cardinality(own) < MaxOthers
  /\ book' = Append(book, NewOrder(1))
  /\ UNCHANGED <<own, call, query>>

Exchange == OtherOrder \/ \E i \in DOMAIN book : Fill(i) \/ Cancel(i)

-----------------------------------------------------------------------------
(* place_order                                                               *)

PlaceOrder ==
  /\ stage = "new" /\ stage' = "send"
  /\ UNCHANGED <<exchange, retries, result, tracked, query>>

(***************************************************************************)
(* What a request can come back with.  The exchange has registered the order  *)
(* if the answer says so, has not if it refuses for a stated reason or for    *)
(* the rate limit (429 with code 1700), and may have otherwise: no answer,    *)
(* another HTTP status, a body without an integer return_code.                *)
(***************************************************************************)
Replies == {"ok", "refused", "limit", "http", "lost", "malformed"}
Registers(r) ==
  CASE r = "ok" -> {TRUE} [] r \in {"refused", "limit"} -> {FALSE} [] OTHER -> BOOLEAN

\* mutant: an answer that never came is retried like a refusal
RetriedUnheard(r) == r \in {"limit", "lost"}

\* _is_confirmed_rate_limit_reject: the one failure that is sent again
Retried(r) == r = "limit"

\* What place_order makes of an answer it does not retry.
Outcome(r) ==
  CASE r = "ok" -> "accepted"
    [] r \in {"refused", "limit"} -> "rejected"
    [] OTHER -> "ambiguous"

Send ==
  /\ stage = "send"
  /\ \E r \in Replies, numbered \in BOOLEAN : \E yes \in Registers(r) :
       /\ numbered => r = "ok"
       /\ book' = IF yes THEN Append(book, NewOrder(MaxQty)) ELSE book
       /\ own' = IF yes THEN own \cup {Len(book) + 1} ELSE own
       /\ IF Retried(r) /\ retries < MaxRetries
          THEN /\ retries' = retries + 1
               /\ UNCHANGED <<stage, result, tracked>>
          ELSE /\ stage' = "idle" /\ result' = Outcome(r)
               /\ tracked' = IF numbered THEN Len(book) + 1 ELSE 0
               /\ retries' = 0
  /\ UNCHANGED query

-----------------------------------------------------------------------------
(* The lists: ka10075 shows the orders that are open, ka10076 those with a    *)
(* fill; newest first.                                                       *)

Shown(l) == {i \in DOMAIN book : IF l = "oso" THEN book[i].live ELSE book[i].filled > 0}

\* The place of an order on its list: the orders on it that are not older.
Place(l, i) == Cardinality({j \in Shown(l) : j >= i})

Row(i) == [ord |-> book[i].qty, cntr |-> book[i].filled,
           oso |-> IF book[i].live THEN book[i].qty - book[i].filled ELSE 0]

\* mutant: what cannot be understood is zero, as in parse_abs_int
ParsedAsZero(q) == IF q = NoQty THEN 0 ELSE q

\* _parse_optional_qty: what cannot be understood is not taken for zero
Parsed(q) == q

\* A row as the server sends it: any quantity of it may be unreadable, and its
\* state (ord_stt) may be that of a placed or a traded order, or one never observed.
Sent(i) == [stt : {"placed", "traded", "other"}, ord : {Row(i).ord, NoQty},
            cntr : {Row(i).cntr, NoQty}, oso : {Row(i).oso, NoQty}]

\* derive_broker_order_status: a row of the fill list decides alone
Understood(row) == \A q \in {row.ord, row.cntr, row.oso} : Parsed(q) # NoQty
FullFill(row) == /\ row.stt = "traded" /\ Understood(row)
                 /\ Parsed(row.ord) = Parsed(row.cntr) /\ Parsed(row.oso) = 0
Unfilled(row) == /\ row.stt = "placed" /\ Understood(row)
                 /\ Parsed(row.cntr) = 0 /\ Parsed(row.oso) = Parsed(row.ord)

\* What a row is worth, on its list
Worth(l, row) ==
  IF l = "cntr" /\ FullFill(row) THEN "full" ELSE IF l = "oso" /\ Unfilled(row) THEN "unfilled" ELSE "unclear"

Derive(f) ==
  CASE f.cntr = "full"                        -> "FILLED"
    [] f.cntr = NoRow /\ f.oso = "unfilled"  -> "OPEN"
    [] OTHER                                  -> "UNKNOWN"

-----------------------------------------------------------------------------
(* get_order_status_evidence: the open list, then the fill list, each page    *)
(* by page (_fetch_paginated_rows)                                            *)

\* What the page says of the pages after it: none, one more with its key, or
\* an answer that leaves it open (no key, another cont-yn, no list, an error).
Conts(more) == {IF more THEN "Y" ELSE "N", "unclear"}

\* mutant: whatever is not Y ends the list
ListEndsUnlessMore(cont) == cont # "Y"

\* Only an explicit N ends a list; the last page allowed must carry it.
ListEnds(cont) == cont = "N"
ListGoesOn(cont) == cont = "Y" /\ page < MaxPages

QueryStatus ==
  /\ stage = "idle" /\ tracked # 0
  /\ stage' = "oso" /\ page' = 1 /\ verdict' = "none"
  /\ traded' = FALSE
  /\ UNCHANGED <<exchange, retries, result, tracked, found>>

\* The page that is asked for, from the list as it is now.
PageRows(l) == {i \in Shown(l) : Place(l, i) \in (page - 1) * PageSize + 1 .. page * PageSize}
More(l) == Cardinality(Shown(l)) > page * PageSize

\* The first row of the order that is met on the list is kept.
Seen(l) ==
  IF tracked \in PageRows(l) /\ found[l] = NoRow
  THEN {[found EXCEPT ![l] = Worth(l, r)] : r \in Sent(tracked)}
  ELSE {found}

\* What had become of the order when the first page of the fills was read.
TradedBefore == IF stage = "cntr" /\ page = 1 THEN book[tracked].filled > 0 ELSE traded

\* A page that lets the query go on.
ReadPage ==
  /\ stage \in {"oso", "cntr"}
  /\ \E cont \in Conts(More(stage)) :
       /\ found' \in Seen(stage)
       /\ \/ /\ ListGoesOn(cont)
             /\ page' = page + 1 /\ UNCHANGED stage
          \/ /\ ListEnds(cont) /\ stage = "oso"
             /\ stage' = "cntr" /\ page' = 1
  /\ traded' = TradedBefore
  /\ UNCHANGED <<exchange, retries, result, tracked, verdict>>

\* The last page of the fill list: the judgement.
Judge ==
  /\ stage = "cntr"
  /\ \E cont \in Conts(More(stage)) : ListEnds(cont)
  /\ \E seen \in Seen(stage) : verdict' = Derive(seen)
  /\ stage' = "idle" /\ page' = 1 /\ found' = Nothing
  /\ traded' = TradedBefore
  /\ UNCHANGED <<exchange, retries, result, tracked>>

\* The query fails: nothing is judged, though the open list may have been read.
QueryFails ==
  /\ stage \in {"oso", "cntr"}
  /\ \E cont \in Conts(More(stage)) : ~ListEnds(cont) /\ ~ListGoesOn(cont)
  /\ stage' = "idle" /\ page' = 1 /\ found' = Nothing
  /\ UNCHANGED <<exchange, retries, result, tracked, traded, verdict>>

QueryEnds == Judge \/ QueryFails

-----------------------------------------------------------------------------
BrokerInit ==
  /\ book = <<>> /\ own = {}
  /\ stage = "new" /\ retries = 0 /\ result = "none" /\ tracked = 0
  /\ page = 1 /\ found = Nothing /\ traded = FALSE /\ verdict = "none"

\* The process dies in the middle of whatever it was doing.
BrokerDies ==
  /\ stage' = IF stage = "new" THEN "new" ELSE "idle"
  /\ retries' = 0 /\ page' = 1 /\ found' = Nothing /\ traded' = FALSE /\ verdict' = "none"
  /\ UNCHANGED <<exchange, result, tracked>>

-----------------------------------------------------------------------------
(* Properties                                                                *)

\* One call of place_order puts at most one order on the book, however often
\* it sends the request again; "rejected" is said only when there is none, and
\* "accepted" only when there is one.
OneOrderPerRequest ==
  /\ Cardinality(own) <= 1
  /\ result = "rejected" => own = {}
  /\ result = "accepted" => own # {}

\* The judgement is true of the order though the lists were read page by page
\* while it traded: FILLED is an order filled completely, OPEN one that had
\* not traded a share when the reading of the fills began.
VerdictIsTrue ==
  /\ verdict = "FILLED" => book[tracked].filled = book[tracked].qty
  /\ verdict = "OPEN" => ~traded
=============================================================================
