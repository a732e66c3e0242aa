---------------------------- MODULE OrderSafety ----------------------------
(***************************************************************************)
(* What the order path of OrderExecution must guarantee, and the inductive   *)
(* invariant from which it follows.                                          *)
(***************************************************************************)
EXTENDS OrderExecution

\* The handlers never have two orders of one symbol outstanding at the broker,
\* whatever was lost, delayed, retried or restarted (_try_buy, _try_sell).
NoOverlap == \A o, p \in orders : o.sym = p.sym => o = p

\* As long as an order can still be filled its symbol is under a HARD block,
\* so that neither decide_sell nor would_block_buy_detail lets another out.
LiveOrderBlocks == \A o \in orders : HardBlock(psm[o.sym])

\* A HARD block is never only in memory: one of the two files that
\* _restore_order_recovery_blocks reads names its symbol at every moment.
BlockIsDurable ==
  \A s \in Symbols : HardBlock(psm[s]) => s \in savedIntents \/ journal[s] # NoOrder

\* Symbols that are held or about to be bought
Taken == {s \in Symbols : holdings[s] > 0 \/ \E o \in OrdersOf(s) : o.side = "BUY"}

\* They stay within max_positions, although _try_buy counts the positions in a
\* balance that lags behind the fills.
PositionLimit == Cardinality(Taken) <= MaxPositions

OrphanAcknowledged(s) == HasOrphan(psm[s]) /\ ~HasOrphan(psm'[s])

\* The entry effects (_apply_first_fill_buy_side_effects) run only when shares
\* were really bought: an accepted BUY that filled nothing consumes no entry.
EntryNeedsAFill ==
  [][\A s \in buyCtx \ buyCtx' :
       holdings[s] > psm[s].base \/ OrphanAcknowledged(s) \/ crashes' # crashes]_vars

\* The exit effects (_apply_deferred_sell_side_effects) run only when the
\* position is really gone and its SELL can fill no more.
ExitNeedsNoShares ==
  [][\A s \in sellCtx \ sellCtx' :
       \/ holdings[s] = 0 /\ OrdersOf(s) = {}
       \/ OrphanAcknowledged(s) \/ crashes' # crashes]_vars

\* The effects of an order follow its fill, not its acceptance or its first part.
EffectsFollowFills == EntryNeedsAFill /\ ExitNeedsNoShares

\* What the abstract book sees of an order: not how much is left of it.
Shown(o) == [id |-> o.id, sym |-> o.sym, side |-> o.side]
ShownOrders == {Shown(o) : o \in orders}

Book == INSTANCE OrderBook WITH Ids <- 1 .. MaxOrders, book <- ShownOrders

\* The order path implements the abstract order book: BUYs go out alone,
\* SELLs alone on their symbol, across lost answers and restarts.
ImplementsOrderBook == Book!Spec

\* An order that has been filled completely frees its symbol in the end, if the
\* process keeps running: nobody has to acknowledge it.
BoughtOut(s) == psm[s].lifecycle = "BUY_PENDING" /\ holdings[s] = psm[s].expected
SoldOut(s)   == psm[s].lifecycle = "SELL_PENDING" /\ holdings[s] = 0

FilledOrderUnblocks ==
  \A s \in Symbols, n \in 0 .. MaxCrashes :
    crashes = n /\ caller # s /\ (BoughtOut(s) \/ SoldOut(s))
      ~> ~HardBlock(psm[s]) \/ crashes # n

-----------------------------------------------------------------------------
(***************************************************************************)
(* The inductive invariant, one conjunct per idea.  It holds as long as       *)
(* command files only name symbols that need them (StaleAcks = FALSE).       *)
(***************************************************************************)

Free(s) == ~HardBlock(psm[s])

\* No order of the symbol is left, and the balance endpoint shows what is held.
SettledFor(s) == OrdersOf(s) = {} /\ reported[s] = holdings[s]

\* A BUY that may still fill moves the holding up to its fixed target,
\* and what is reported is never ahead of what is held.
BuyHeadsFor(s, target) ==
  /\ reported[s] <= holdings[s] /\ holdings[s] <= target
  /\ \A o \in OrdersOf(s) : o.side = "BUY" /\ holdings[s] + o.left = target

\* A SELL is always of everything, and what is reported is never behind.
SellHeadsFor(s) ==
  /\ holdings[s] <= reported[s]
  /\ \A o \in OrdersOf(s) : o.side = "SELL" /\ o.left = holdings[s]

(***************************************************************************)
(* What the lifecycle st of a symbol says about the broker: a free symbol is  *)
(* settled (and its quantity known, once it has been polled), a blocked one   *)
(* knows in which direction its order can still move the holding.            *)
(***************************************************************************)
Agrees(s, st, polled) ==
  /\ ~HardBlock(st) => SettledFor(s) /\ (polled => st.known = holdings[s])
  /\ st.lifecycle = "BUY_PENDING" => BuyHeadsFor(s, st.expected)
  /\ st.lifecycle = "SELL_PENDING" => SellHeadsFor(s)
  /\ st.lifecycle \in Pendings => st.pending # NoOrder
  /\ st.lifecycle \in Pendings \cup {"ERROR"} => ~HasOrphan(st)
  /\ HasOrphan(st) =>
       \/ st.delta > 0 /\ BuyHeadsFor(s, st.expected)
       \/ st.delta < 0 /\ SellHeadsFor(s)

LifecyclesAgree == \A s \in Symbols : Agrees(s, psm[s], initialized)

\* A symbol without an intent has nothing outstanding; if it is blocked, it is
\* because a journal record, not yet removed, was found at a restart.
NothingToForget(s, st) ==
  /\ SettledFor(s) /\ ~HasOrphan(st)
  /\ HardBlock(st) => st.lifecycle = "ERROR" /\ journal[s] # NoOrder

IntentCovers(set) == \A s \in Symbols \ set : NothingToForget(s, psm[s])

Unanswered(s) == caller = s /\ reply # "accepted"

\* While place_order runs, the broker and the lifecycle are at most this far apart.
CallIsOpen ==
  /\ \A o \in orders : o.id <= lastId
  /\ caller # None =>
       /\ stage # "idle" /\ psm[caller].lifecycle \in Pendings
       /\ \A o \in orders : o.id = lastId <=> o.sym = caller
       /\ reply # "accepted" => reported[caller] = holdings[caller]
       /\ reply # "accepted" => psm[caller].known = holdings[caller]
       /\ \A o \in OrdersOf(caller) : o.place = "wire" <=> reply = "waiting"
       /\ reply = "rejected" => OrdersOf(caller) = {}

\* The balance a cycle works with is still right where an order may be sent.
ViewIsCurrent ==
  /\ stage # "idle" \/ cached => \A s \in Symbols \ intents : view[s] = reported[s]
  /\ stage # "idle" =>
       \A s \in Symbols : Free(s) \/ Unanswered(s) => view[s] = reported[s]

NotYetInitialized ==
  ~initialized =>
    /\ stage = "idle" /\ ~cached /\ caller = None
    /\ \A s \in Symbols : psm[s].known = 0

IInv ==
  /\ TypeOK /\ NoOverlap /\ LifecyclesAgree
  /\ IntentCovers(intents) /\ IntentCovers(savedIntents)
  /\ CallIsOpen /\ ViewIsCurrent /\ NotYetInitialized
=============================================================================
