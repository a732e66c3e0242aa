--------------------------- MODULE OrderExecution ---------------------------
(***************************************************************************)
(* The order path of domain/service/trading_service.py: a polling cycle      *)
(* reads the account balance, brings every symbol's lifecycle up to date     *)
(* with it (PositionLifecycle), and then walks the symbols and may sell or   *)
(* buy each.  Around it: the broker, which answers, loses, fills and cancels *)
(* orders on its own and whose balance endpoint lags behind the fills; the   *)
(* two files the process leaves behind (state.json with the order intents,   *)
(* the tracked order journal); and crashes.                                  *)
(*                                                                         *)
(* Abstractions.  Prices, cash, the strategy's signals and the entry         *)
(* cooldowns decide whether the code WANTS an order: here any symbol may be   *)
(* passed over or ordered at any turn.  A quantity is a small number of      *)
(* shares.  place_order blocks the event loop, so between sending an order   *)
(* and handling its answer the process takes no other step but to crash.     *)
(***************************************************************************)
EXTENDS PositionLifecycle, FiniteSets

CONSTANTS
  Symbols,       \* the watched symbols
  MaxQty,        \* the most shares one BUY asks for
  MaxPositions,  \* settings.trading.max_positions
  MaxOrders,     \* bound: orders sent in a behaviour
  MaxCrashes,    \* bound: crashes (or restarts) in a behaviour
  DiskMayFail,   \* may a write of state.json or of the journal fail?
  StaleAcks      \* may an ack_error command find a symbol not in ERROR?

None == "none"

ASSUME SymbolsAssumption == IsFiniteSet(Symbols) /\ None \notin Symbols
ASSUME BoundsAssumption ==
  /\ MaxQty \in Nat /\ MaxPositions \in Nat
  /\ MaxOrders \in Nat /\ MaxCrashes \in Nat
ASSUME SwitchesAssumption == DiskMayFail \in BOOLEAN /\ StaleAcks \in BOOLEAN

VARIABLES
  \* the process's memory
  psm,             \* _position_state_machine: Symbols -> SymbolState
  intents,         \* state.unresolved_order_intents: the symbols in it
  buyCtx,          \* keys of _pending_buy_side_effects
  sellCtx,         \* keys of _pending_sell_side_effects
  soldQty,         \* _sold_today_qty_snapshot (0: no entry)
  recoveryFailed,  \* _journal_recovery_failed
  initialized,     \* _position_state_machine_initialized
  view,            \* the balance the last fetch returned
  cached,          \* is it still cached_balance?
  stage,           \* where run_once is: "idle", "exit" (forced exits), "loop"
  todo,            \* the symbols this stage has still to visit
  caller,          \* the symbol whose place_order call is running, or None
  reply,           \* what the broker has answered to that call
  \* the disk
  savedIntents,    \* unresolved_order_intents in state.json
  journal,         \* tracked order journal: Symbols -> order id (NoOrder: none)
  \* the broker
  orders,          \* orders on their way to it or in its book
  lastId,          \* the last order number
  holdings,        \* shares really held
  reported,        \* shares the balance endpoint reports
  crashes

memory == <<psm, intents, buyCtx, sellCtx, soldQty, recoveryFailed, initialized,
            view, cached, stage, todo, caller, reply>>
disk   == <<savedIntents, journal>>
broker == <<orders, lastId, holdings, reported>>
vars   == <<memory, disk, broker, crashes>>

Sides   == {"BUY", "SELL"}
Replies == {"waiting", "accepted", "rejected"}
Stages  == {"idle", "exit", "loop"}

OrderRecords == [id : 1 .. MaxOrders, sym : Symbols, side : Sides,
                 left : Nat \ {0}, place : {"wire", "book"}]

\* The types of the state.
TypeOK ==
  /\ psm \in [Symbols -> SymbolState]
  /\ intents \subseteq Symbols /\ savedIntents \subseteq Symbols
  /\ buyCtx \subseteq Symbols /\ sellCtx \subseteq Symbols
  /\ soldQty \in [Symbols -> Nat] /\ view \in [Symbols -> Nat]
  /\ recoveryFailed \in BOOLEAN /\ initialized \in BOOLEAN /\ cached \in BOOLEAN
  /\ stage \in Stages /\ todo \subseteq Symbols
  /\ caller \in Symbols \cup {None} /\ reply \in Replies
  /\ journal \in [Symbols -> 0 .. MaxOrders]
  /\ orders \subseteq OrderRecords
  /\ lastId \in 0 .. MaxOrders
  /\ holdings \in [Symbols -> Nat] /\ reported \in [Symbols -> Nat]
  /\ crashes \in 0 .. MaxCrashes

Nothing == [s \in Symbols |-> 0]

Init ==
  /\ psm = [s \in Symbols |-> Blank]
  /\ intents = {} /\ buyCtx = {} /\ sellCtx = {}
  /\ soldQty = Nothing /\ recoveryFailed = FALSE /\ initialized = FALSE
  /\ view = Nothing /\ cached = FALSE
  /\ stage = "idle" /\ todo = {} /\ caller = None /\ reply = "waiting"
  /\ savedIntents = {} /\ journal = [s \in Symbols |-> NoOrder]
  /\ orders = {} /\ lastId = 0
  /\ holdings = Nothing /\ reported = Nothing
  /\ crashes = 0

OrdersOf(s) == {o \in orders : o.sym = s}

-----------------------------------------------------------------------------
(* Observing the account: _sync_position_state_machine_shadow               *)

\* _has_unresolved_orders: ERROR alone does not count.
HasUnresolvedOrders ==
  \/ intents # {}
  \/ \E s \in Symbols : psm[s].lifecycle \in Pendings \/ HasOrphan(psm[s])

(***************************************************************************)
(* The person who writes a command file has looked at the broker: the order  *)
(* has ended, the balance is final, and it is the balance that is written.   *)
(* StaleAcks adds the file that arrives when its symbol is not in ERROR.     *)
(***************************************************************************)
LookedUp(s) == OrdersOf(s) = {} /\ reported[s] = holdings[s]

MayAckError(s) ==
  IF psm[s].lifecycle = "ERROR" THEN LookedUp(s) ELSE StaleAcks

MayAckOrphan(s) == HasOrphan(psm[s]) /\ LookedUp(s)

\* The lifecycles after the command files have been processed.
AfterCommands(errors, orphans) ==
  [s \in Symbols |->
     IF s \in errors THEN AcknowledgeError(psm[s], reported[s])
     ELSE IF s \in orphans THEN ClearOrphan(psm[s]) ELSE psm[s]]

\* The one symbol whose order may be found FILLED by this poll's query.
FilledAnswers(after) ==
  {{}} \cup
  {{s} : s \in {t \in Symbols :
     LET id == IF after[t].lifecycle \in Pendings THEN after[t].pending
               ELSE after[t].orphan
     IN  IsTrackable(id) /\ \A o \in orders : o.id # id}}

\* _clear_resolved_order_intent
DropsIntent(st) == NothingOutstanding(st) /\ st.pending = NoOrder

\* _maintain_tracked_order_journal
DropsRecord(st) == NothingOutstanding(st) /\ ~IsTrackable(st.pending)

(***************************************************************************)
(* TrackedOrderJournalStore: one record per symbol, in one file that is read, *)
(* changed and moved into place as a whole, so that upsert and remove change   *)
(* the record of their symbol or, when they raise, nothing.                   *)
(***************************************************************************)
Upserted(s, id) == [journal EXCEPT ![s] = id]

Removed(gone) == [s \in Symbols |-> IF s \in gone THEN NoOrder ELSE journal[s]]

\* _create_tracked_order_journal_entry: an id that can be asked about is
\* recorded; a failed write is only logged.
CreateJournalEntry(s, id) ==
  \/ IsTrackable(id) /\ journal' = Upserted(s, id)
  \/ (~IsTrackable(id) \/ DiskMayFail) /\ UNCHANGED journal

\* _maintain_tracked_order_journal at the end of a poll, for every symbol.
MaintainJournal ==
  \E stuck \in IF DiskMayFail THEN SUBSET Symbols ELSE {{}} :
    journal' = Removed({s \in Symbols \ stuck : DropsRecord(psm'[s])})

\* load_all: the records, or an error that must not be taken for no records
LoadAll ==
  {[failed |-> FALSE, records |-> journal]} \cup
  IF DiskMayFail THEN {[failed |-> TRUE, records |-> [s \in Symbols |-> NoOrder]]} ELSE {}

\* _process_pending_ack_orphan_commands discards the order's deferred effects.
EffectsAfterAck(ctx, orphans) == ctx \ orphans

\* First real fill of a BUY
FirstFill(st) == st.known > st.base

\* The SELL is done as soon as it is no longer pending
SoldUpAnyEnd(before, after) ==
  before.lifecycle = "SELL_PENDING" /\ after.lifecycle # "SELL_PENDING"

\* The symbol became FLAT in this poll
SoldUp(before, after) == after.lifecycle = "FLAT" /\ before.lifecycle # "FLAT"

(***************************************************************************)
(* One call with balance q: the command files first; on the first call after *)
(* a start only the held symbols are synchronised and the call returns.      *)
(* Otherwise every symbol is polled, the deferred effects of its order run,   *)
(* and its durable traces are dropped when nothing is outstanding.           *)
(***************************************************************************)
Sync(q) ==
  \E errors \in SUBSET {s \in Symbols : MayAckError(s)},
     orphans \in SUBSET {s \in Symbols : MayAckOrphan(s)} :
    LET after == AfterCommands(errors, orphans) IN
    IF ~initialized
    THEN /\ psm' = [s \in Symbols |->
                      IF q[s] > 0 THEN SyncFromBroker(after[s], q[s]) ELSE after[s]]
         /\ initialized' = TRUE
         /\ buyCtx' = EffectsAfterAck(buyCtx, orphans)
         /\ sellCtx' = EffectsAfterAck(sellCtx, orphans)
         /\ UNCHANGED <<intents, journal>>
    ELSE /\ \E late \in SUBSET {s \in Symbols : after[s].lifecycle \in Pendings},
               filled \in FilledAnswers(after) :
              psm' = [s \in Symbols |->
                        PollSymbol(after[s], q[s], s \in late, s \in filled)]
         /\ buyCtx' = {s \in EffectsAfterAck(buyCtx, orphans) : ~FirstFill(psm'[s])}
         /\ sellCtx' = {s \in EffectsAfterAck(sellCtx, orphans) : ~SoldUp(after[s], psm'[s])}
         /\ intents' = {s \in intents : ~DropsIntent(psm'[s])}
         /\ MaintainJournal
         /\ UNCHANGED initialized

\* state_store.save of the intents; a failure is an exception or is logged.
SaveIntents ==
  \/ savedIntents' = intents'
  \/ DiskMayFail /\ UNCHANGED savedIntents

(***************************************************************************)
(* run_once up to the forced exits: a new day clears the sold snapshots, the *)
(* balance is fetched (or taken from the cache while nothing is unresolved), *)
(* and the lifecycles are synchronised with it.                              *)
(***************************************************************************)
RunOnce ==
  /\ stage = "idle"
  /\ \/ view' = reported
     \/ cached /\ ~HasUnresolvedOrders /\ view' = view
  /\ cached' = TRUE
  /\ soldQty' \in {soldQty, Nothing}
  /\ Sync(view')
  /\ stage' = "exit" /\ todo' = {s \in Symbols : view'[s] > 0}
  /\ UNCHANGED <<recoveryFailed, caller, reply, savedIntents, broker, crashes>>

\* reconcile_after_market_close: the same observation, no orders, and a save.
ReconcileAfterMarketClose ==
  /\ stage = "idle" /\ HasUnresolvedOrders
  /\ view' = reported /\ cached' = TRUE
  /\ Sync(view')
  /\ SaveIntents
  /\ UNCHANGED <<soldQty, recoveryFailed, stage, todo, caller, reply, broker, crashes>>

-----------------------------------------------------------------------------
(* Sending an order                                                          *)

\* An intent that is only put in memory before the order is sent
WritesIntentLate(s) == UNCHANGED savedIntents

\* The write of _begin_order_intent, when it succeeds
WritesIntent(s) == savedIntents' = intents \cup {s}

(***************************************************************************)
(* _begin_order_intent and the submission.  The intent is durable before     *)
(* anything is sent; if it cannot be written nothing is sent, now or until   *)
(* a restart.                                                                *)
(***************************************************************************)
Submit(s, side, qty, requested) ==
  /\ caller = None /\ ~recoveryFailed /\ lastId < MaxOrders
  /\ todo' = todo \ {s} /\ intents' = intents \cup {s}
  /\ \/ /\ WritesIntent(s)
        /\ psm' = [psm EXCEPT ![s] = requested]
        /\ caller' = s /\ reply' = "waiting" /\ lastId' = lastId + 1
        /\ orders' = orders \cup {[id |-> lastId + 1, sym |-> s, side |-> side,
                                   left |-> qty, place |-> "wire"]}
        /\ UNCHANGED recoveryFailed
     \/ /\ DiskMayFail
        /\ recoveryFailed' = TRUE
        /\ UNCHANGED <<savedIntents, psm, caller, reply, lastId, orders>>
  /\ UNCHANGED <<buyCtx, sellCtx, soldQty, initialized, view, cached, stage,
                 journal, holdings, reported, crashes>>

\* The program sells what this cycle's balance shows, all of it.
TrySell(s) ==
  /\ ~HardBlock(psm[s])
  /\ Submit(s, "SELL", view[s], OnSellRequested(psm[s]))

\* would_block_buy_detail of the symbol itself only
AccountSettledForOwn(s) == ~HardBlock(psm[s])

\* _try_buy's two lifecycle guards: its own, and ACCOUNT_ORDER_UNRESOLVED
AccountSettledFor(s) == \A t \in Symbols : ~HardBlock(psm[t])

\* max_positions, against a balance fetched for this purpose
HasFreeSlot == Cardinality({t \in Symbols : reported[t] > 0}) < MaxPositions

TryBuy(s) ==
  /\ AccountSettledFor(s)
  /\ HasFreeSlot
  /\ \E qty \in 1 .. MaxQty : Submit(s, "BUY", qty, OnBuyRequested(psm[s], qty))

(***************************************************************************)
(* A holding that equals the quantity of the last accepted SELL is taken for *)
(* one the balance endpoint has not yet removed, and is treated as absent.   *)
(***************************************************************************)
Seen(s) == view[s] > 0 /\ view[s] # soldQty[s]

\* _check_force_exit_overnight, one position
ForceExit(s) == stage = "exit" /\ s \in todo /\ Seen(s) /\ TrySell(s)

\* The forced exits are over; the symbols are visited, held ones first.
BeginLoop ==
  /\ stage = "exit" /\ todo = {} /\ caller = None
  /\ stage' = "loop" /\ todo' = Symbols
  /\ UNCHANGED <<psm, intents, buyCtx, sellCtx, soldQty, recoveryFailed, initialized,
                 view, cached, caller, reply, disk, broker, crashes>>

Turn(s) ==
  /\ s \in todo
  /\ view[s] > 0 \/ \A t \in todo : view[t] = 0

\* _process_symbol, when the decision is SELL and when it is BUY
ProcessSell(s) == stage = "loop" /\ Turn(s) /\ Seen(s) /\ TrySell(s)
ProcessBuy(s)  == stage = "loop" /\ Turn(s) /\ ~Seen(s) /\ TryBuy(s)

\* No order for this symbol at this turn: HOLD, a guard, or an exception.
Pass(s) ==
  /\ caller = None
  /\ \/ stage = "exit" /\ s \in todo
     \/ stage = "loop" /\ Turn(s)
  /\ todo' = todo \ {s}
  /\ UNCHANGED <<psm, intents, buyCtx, sellCtx, soldQty, recoveryFailed, initialized,
                 view, cached, stage, caller, reply, disk, broker, crashes>>

\* run_once ends by saving the state.
EndCycle ==
  /\ stage = "loop" /\ todo = {} /\ caller = None
  /\ stage' = "idle"
  /\ UNCHANGED <<psm, intents, buyCtx, sellCtx, soldQty, recoveryFailed, initialized,
                 view, cached, todo, caller, reply, journal, broker, crashes>>
  /\ SaveIntents

-----------------------------------------------------------------------------
(* What place_order came back with                                           *)

Resume == UNCHANGED <<stage, todo>>

\* An exception leaves _check_force_exit_overnight and ends the cycle;
\* _process_symbol swallows it and the cycle goes on.
Raise == IF stage = "exit" THEN stage' = "idle" /\ todo' = {} ELSE Resume

\* _sold_today_qty_snapshot: a BUY forgets the entry, a SELL records its own.
SnapshotAfter(s) ==
  [soldQty EXCEPT ![s] = IF psm[s].lifecycle = "BUY_PENDING" THEN 0 ELSE view[s]]

(***************************************************************************)
(* accepted: the order number, when there is one, replaces the placeholder   *)
(* and goes to the journal (a failed write is only logged); the effects on   *)
(* the entry and loss counters wait until the fill is seen.                  *)
(***************************************************************************)
HandleAccepted ==
  /\ caller # None /\ reply = "accepted"
  /\ LET s == caller IN
     /\ \E id \in {lastId, NoOrder} :
          /\ psm' = [psm EXCEPT ![s] = ConfirmPendingOrderId(@, id)]
          /\ CreateJournalEntry(s, id)
     /\ buyCtx'  = IF psm[s].lifecycle = "BUY_PENDING" THEN buyCtx \cup {s} ELSE buyCtx
     /\ sellCtx' = IF psm[s].lifecycle = "SELL_PENDING" THEN sellCtx \cup {s} ELSE sellCtx
     /\ soldQty' = SnapshotAfter(s)
  /\ cached' = FALSE /\ caller' = None
  /\ Resume
  /\ UNCHANGED <<intents, recoveryFailed, initialized, view, reply, savedIntents,
                 broker, crashes>>

\* An explicit refusal: the lifecycle and the intent are rolled back and saved.
HandleRejected ==
  /\ caller # None /\ reply = "rejected"
  /\ LET s == caller IN
     /\ psm' = [psm EXCEPT ![s] = IF @.lifecycle = "BUY_PENDING"
                                  THEN OnBuyRejected(@) ELSE OnSellRejected(@)]
     /\ intents' = IF DropsIntent(psm'[s]) THEN intents \ {s} ELSE intents
  /\ \/ savedIntents' = intents' /\ Resume
     \/ DiskMayFail /\ UNCHANGED savedIntents /\ Raise
  /\ caller' = None
  /\ UNCHANGED <<buyCtx, sellCtx, soldQty, recoveryFailed, initialized, view, cached,
                 reply, journal, broker, crashes>>

(***************************************************************************)
(* The answer was lost (is_ambiguous) or place_order raised: whether the     *)
(* order exists is unknown, and the symbol waits for a person.               *)
(***************************************************************************)
HandleNoAnswer ==
  /\ caller # None
  /\ psm' = [psm EXCEPT ![caller] = OnPlacementAmbiguous(@)]
  /\ caller' = None
  /\ Resume \/ Raise
  /\ UNCHANGED <<intents, buyCtx, sellCtx, soldQty, recoveryFailed, initialized, view,
                 cached, reply, disk, broker, crashes>>

-----------------------------------------------------------------------------
(* The broker.  External: what the code relies on it to do.                  *)

brokerSees == <<psm, intents, buyCtx, sellCtx, soldQty, recoveryFailed, initialized,
                view, cached, stage, todo, caller, disk, lastId, crashes>>

\* The call that is waiting for the answer to order o, if any, gets it.
Answer(o, r) ==
  reply' = IF caller # None /\ o.id = lastId THEN r ELSE reply

\* The broker takes an order: no more shares may be sold than are held.
Accept(o) ==
  /\ o.place = "wire" /\ (o.side = "SELL" => o.left <= holdings[o.sym])
  /\ orders' = (orders \ {o}) \cup {[o EXCEPT !.place = "book"]}
  /\ Answer(o, "accepted")
  /\ UNCHANGED <<brokerSees, holdings, reported>>

Refuse(o) ==
  /\ o.place = "wire"
  /\ orders' = orders \ {o} /\ Answer(o, "rejected")
  /\ UNCHANGED <<brokerSees, holdings, reported>>

\* A request that never arrives.
Lose(o) ==
  /\ o.place = "wire"
  /\ orders' = orders \ {o}
  /\ UNCHANGED <<brokerSees, reply, holdings, reported>>

\* One share is bought or sold; nothing is sold that is not held.
Fill(o) ==
  /\ o.place = "book" /\ (o.side = "SELL" => holdings[o.sym] > 0)
  /\ orders' = (orders \ {o}) \cup
                 (IF o.left = 1 THEN {} ELSE {[o EXCEPT !.left = o.left - 1]})
  /\ holdings' = [holdings EXCEPT ![o.sym] = IF o.side = "BUY" THEN @ + 1 ELSE @ - 1]
  /\ UNCHANGED <<brokerSees, reply, reported>>

\* The rest of an order lapses: cancelled by hand, or at the end of the day.
Cancel(o) ==
  /\ o.place = "book"
  /\ orders' = orders \ {o}
  /\ UNCHANGED <<brokerSees, reply, holdings, reported>>

\* The balance endpoint catches up with the fills.
CatchUp(s) ==
  /\ reported[s] # holdings[s]
  /\ reported' = [reported EXCEPT ![s] = holdings[s]]
  /\ UNCHANGED <<brokerSees, reply, orders, holdings>>

Broker ==
  \/ \E o \in orders : Accept(o) \/ Refuse(o) \/ Lose(o) \/ Fill(o) \/ Cancel(o)
  \/ \E s \in Symbols : CatchUp(s)

-----------------------------------------------------------------------------
(* Crash and restart                                                         *)

\* _restore_order_recovery_blocks reading the journal alone
RestoredFromJournal(s, records) ==
  IF records[s] # NoOrder
  THEN OnPlacementAmbiguous([Blank EXCEPT !.pending = records[s]])
  ELSE Blank

\* _restore_order_recovery_blocks: the intents, completed by the journal.
Restored(s, records) ==
  IF s \in savedIntents \/ records[s] # NoOrder
  THEN OnPlacementAmbiguous(
         [Blank EXCEPT !.pending = IF records[s] # NoOrder THEN records[s] ELSE UnknownId])
  ELSE Blank

(***************************************************************************)
(* The process ends at any point and is started again.  A journal that       *)
(* cannot be read stops all automatic orders.                                *)
(***************************************************************************)
CrashRestart ==
  /\ crashes < MaxCrashes /\ crashes' = crashes + 1
  /\ \E read \in LoadAll :
       /\ recoveryFailed' = read.failed
       /\ psm' = [s \in Symbols |-> Restored(s, read.records)]
  /\ intents' = savedIntents
  /\ buyCtx' = {} /\ sellCtx' = {} /\ soldQty' = Nothing
  /\ initialized' = FALSE /\ view' = Nothing /\ cached' = FALSE
  /\ stage' = "idle" /\ todo' = {} /\ caller' = None /\ reply' = "waiting"
  /\ UNCHANGED <<disk, broker>>

-----------------------------------------------------------------------------
Cycle ==
  \/ RunOnce \/ BeginLoop \/ EndCycle
  \/ \E s \in Symbols : Pass(s) \/ ForceExit(s) \/ ProcessSell(s) \/ ProcessBuy(s)

Returned == HandleAccepted \/ HandleRejected \/ HandleNoAnswer

Next == Cycle \/ ReconcileAfterMarketClose \/ Returned \/ Broker \/ CrashRestart

Spec == Init /\ [][Next]_vars

(***************************************************************************)
(* Fairness: the trading loop keeps polling, a cycle visits every symbol and *)
(* ends, place_order returns or times out, and the balance endpoint catches  *)
(* up.  Nothing is assumed of fills, cancellations or a person's commands.   *)
(***************************************************************************)
Fairness ==
  /\ WF_vars(RunOnce) /\ WF_vars(BeginLoop) /\ WF_vars(EndCycle)
  /\ WF_vars(\E s \in Symbols : Pass(s))
  /\ WF_vars(Returned)
  /\ \A s \in Symbols : WF_vars(CatchUp(s))

FairSpec == Spec /\ Fairness
=============================================================================
