------------------------- MODULE PositionLifecycle -------------------------
(***************************************************************************)
(* The per-symbol position state machine of domain/position/lifecycle.py   *)
(* (class PositionStateMachine over SymbolPositionState).  The Python class *)
(* mutates one dataclass per symbol; here each method is an operator from  *)
(* the symbol's record to its next record, so that a handler that calls    *)
(* several methods in a row is the composition of their operators.         *)
(*                                                                         *)
(* Abstractions.                                                           *)
(*  - Order ids are integers: NoOrder is None, the two sentinels are        *)
(*    negative, and every broker order number is positive.                 *)
(*  - The wall clock is not here: a timer that has or has not expired is    *)
(*    the Boolean argument "late" of ResolveStalePending.  SellGate models  *)
(*    the fields that are only timers and counters (sell_reject_*,          *)
(*    blocked_*, last_forced_sell_at) with an explicit clock.               *)
(*  - Fields that are only logged (observed_quantity, requested_quantity,   *)
(*    last_error, last_filled_at) are left out.                             *)
(***************************************************************************)
EXTENDS Integers

NoOrder     == 0     \* pending_order_id / orphan_order_id is None
Placeholder == -1    \* "pending": requested, the broker has not answered
UnknownId   == -2    \* "UNKNOWN_ORDER_ID": accepted without an order number

OrderIds == Int

\* is_trackable_order_id: can get_order_status() be asked about this id?
IsTrackable(id) == id > 0

Pendings   == {"BUY_PENDING", "SELL_PENDING"}
Lifecycles == {"FLAT", "OPEN", "ERROR"} \cup Pendings

(***************************************************************************)
(* SymbolPositionState.  base and expected describe the last BUY           *)
(* (base_quantity_before_order, expected_final_quantity), sellBase the last *)
(* SELL (sell_base_quantity); orphan and delta describe an order that       *)
(* outlived its PENDING state (orphan_order_id, orphan_expected_delta).     *)
(***************************************************************************)
SymbolState ==
  [lifecycle : Lifecycles, pending : OrderIds, known : Nat,
   base : Nat, expected : Nat, sellBase : Nat,
   orphan : OrderIds, delta : Int]

Blank ==
  [lifecycle |-> "FLAT", pending |-> NoOrder, known |-> 0,
   base |-> 0, expected |-> 0, sellBase |-> 0,
   orphan |-> NoOrder, delta |-> 0]

Settled(q) == IF q > 0 THEN "OPEN" ELSE "FLAT"

HasOrphan(st) == st.orphan # NoOrder

ClearOrphan(st) == [st EXCEPT !.orphan = NoOrder, !.delta = 0]

(***************************************************************************)
(* The HARD block shared by would_block_buy_detail and                      *)
(* _evaluate_hard_sell_blocks: the same four conditions in both.  No caller *)
(* may submit an order for a symbol that is blocked, forced exit or not.    *)
(***************************************************************************)
HardBlockNoOrphan(st) == st.lifecycle \in Pendings \cup {"ERROR"}

HardBlock(st) == st.lifecycle \in Pendings \cup {"ERROR"} \/ HasOrphan(st)

-----------------------------------------------------------------------------
(* Requests and their answers *)

\* on_buy_requested: ERROR is sticky, anything else becomes BUY_PENDING.
OnBuyRequested(st, q) ==
  IF st.lifecycle = "ERROR" THEN st
  ELSE [st EXCEPT !.lifecycle = "BUY_PENDING", !.pending = Placeholder,
                  !.base = st.known, !.expected = st.known + q]

\* on_buy_result(accepted=False); accepted=True changes nothing.
OnBuyRejected(st) ==
  [st EXCEPT !.lifecycle = Settled(st.known), !.pending = NoOrder]

\* on_sell_requested: base and expected keep the values of the last BUY.
OnSellRequested(st) ==
  [st EXCEPT !.lifecycle = "SELL_PENDING", !.pending = Placeholder,
             !.sellBase = st.known]

\* on_sell_result(accepted=False)
OnSellRejected(st) == [st EXCEPT !.lifecycle = "OPEN", !.pending = NoOrder]

\* confirm_pending_order_id; an accepted order without a number is NoOrder.
ConfirmPendingOrderId(st, id) ==
  IF st.pending = NoOrder THEN st
  ELSE [st EXCEPT !.pending = IF id = NoOrder THEN UnknownId ELSE id]

\* A lost answer taken for a refusal: the state is rolled back.
OnPlacementRolledBack(st) ==
  [st EXCEPT !.lifecycle = Settled(st.known), !.pending = NoOrder]

\* on_placement_ambiguous: the answer was lost.  The id is kept as evidence.
OnPlacementAmbiguous(st) == [st EXCEPT !.lifecycle = "ERROR"]

-----------------------------------------------------------------------------
(* Observing the account balance at a poll: q is the holding the broker     *)
(* reports for this symbol.                                                 *)

SyncFromBroker(st, q) ==
  IF HardBlockNoOrphan(st) THEN [st EXCEPT !.known = q]
  ELSE [st EXCEPT !.known = q, !.lifecycle = Settled(q)]

(***************************************************************************)
(* confirm_buy_from_broker: only the exact target confirms; a holding       *)
(* outside base .. expected is an anomaly that a person must look at; a      *)
(* partial fill is recorded and stays pending.                              *)
(***************************************************************************)
ConfirmBuyFromBroker(st, q) ==
  CASE st.lifecycle # "BUY_PENDING" -> st
    [] st.lifecycle = "BUY_PENDING" /\ q = st.expected ->
         LET opened == [st EXCEPT !.lifecycle = "OPEN", !.known = q,
                                  !.pending = NoOrder]
         IN  IF st.base = 0 THEN ClearOrphan(opened) ELSE opened
    [] st.lifecycle = "BUY_PENDING" /\ q # st.expected
         /\ (q > st.expected \/ q < st.base) ->
         [st EXCEPT !.lifecycle = "ERROR", !.known = q]
    [] st.lifecycle = "BUY_PENDING" /\ st.base < q /\ q < st.expected ->
         [st EXCEPT !.known = q]
    [] OTHER -> st

(***************************************************************************)
(* on_sell_result(accepted=True): only a holding of zero confirms, because   *)
(* the program always sells the whole position.                             *)
(***************************************************************************)
OnSellResult(st, q) ==
  LET sold == IF st.sellBase # 0 THEN st.sellBase ELSE st.known
  IN  CASE q = 0 ->
             ClearOrphan([st EXCEPT !.lifecycle = "FLAT", !.known = 0,
                                    !.sellBase = 0, !.pending = NoOrder])
        [] q > 0 /\ q < sold -> [st EXCEPT !.known = q]
        [] q > 0 /\ q > sold -> [st EXCEPT !.lifecycle = "ERROR", !.known = q]
        [] OTHER -> st

\* observe_for_orphan for an orphan SELL only
ObserveForOrphanSell(st, q) ==
  IF HasOrphan(st) /\ st.delta < 0 /\ q = 0 THEN ClearOrphan(st) ELSE st

\* observe_for_orphan: only reaching the target exactly ends an orphan.
ObserveForOrphan(st, q) ==
  IF /\ HasOrphan(st)
     /\ \/ st.delta < 0 /\ q = 0
        \/ st.delta > 0 /\ q = st.expected
  THEN ClearOrphan(st) ELSE st

\* resolve_stale_pending whose FLAT reset also wipes the orphan just made.
ResolveStalePendingForgetful(st, q, late) ==
  IF late /\ st.lifecycle \in Pendings
  THEN [st EXCEPT !.lifecycle = Settled(q), !.known = q, !.pending = NoOrder]
  ELSE st

(***************************************************************************)
(* resolve_stale_pending: after the timeout the PENDING state ends at the    *)
(* observed holding, and the order, whose fate is unknown, becomes an        *)
(* orphan that keeps the symbol blocked.  A SELL that left nothing is done.  *)
(***************************************************************************)
ResolveStalePending(st, q, late) ==
  LET ended == [st EXCEPT !.lifecycle = Settled(q), !.known = q,
                          !.pending = NoOrder]
      orphaned(d) == IF st.pending = NoOrder THEN ended
                     ELSE [ended EXCEPT !.orphan = st.pending, !.delta = d]
  IN  CASE late /\ st.lifecycle = "SELL_PENDING" /\ q > 0 -> orphaned(-q)
        [] late /\ st.lifecycle = "SELL_PENDING" /\ q = 0 -> ClearOrphan(ended)
        [] late /\ st.lifecycle = "BUY_PENDING" ->
             LET missing == st.expected - q
             IN  orphaned(IF missing > 0 THEN missing ELSE 0)
        [] OTHER -> st

-----------------------------------------------------------------------------
(* Operator commands *)

(***************************************************************************)
(* acknowledge_error.  On a symbol that is not in ERROR it still overwrites  *)
(* known and lifecycle, but leaves pending_order_id alone.                   *)
(***************************************************************************)
AcknowledgeError(st, q) ==
  [st EXCEPT !.known = q, !.lifecycle = Settled(q),
             !.pending = IF st.lifecycle = "ERROR" THEN NoOrder ELSE st.pending]

-----------------------------------------------------------------------------
(* The part of a poll that concerns one symbol                              *)

(***************************************************************************)
(* _reconcile_tracked_order_status once the broker answered FILLED: the      *)
(* same transition methods, called only when the holding agrees as well.     *)
(***************************************************************************)
ReconcileFilled(st, q) ==
  CASE st.lifecycle = "BUY_PENDING" /\ q = st.expected -> ConfirmBuyFromBroker(st, q)
    [] st.lifecycle = "SELL_PENDING" /\ q = 0          -> OnSellResult(st, q)
    [] st.lifecycle \notin Pendings                    -> ObserveForOrphan(st, q)
    [] OTHER                                           -> st

\* The if/elif/else of the sync loop, by the lifecycle the symbol is in now.
SettleByBalance(st, q, late) ==
  CASE st.lifecycle = "SELL_PENDING" ->
         ResolveStalePending(OnSellResult(st, q), q, late)
    [] st.lifecycle = "BUY_PENDING" ->
         ResolveStalePending(ConfirmBuyFromBroker(st, q), q, late)
    [] OTHER -> SyncFromBroker(st, q)

\* One symbol in _sync_position_state_machine_shadow; filled says that this
\* poll's order-status query was about this symbol and answered FILLED.
PollSymbol(st, q, late, filled) ==
  LET seen == ObserveForOrphan(st, q)
  IN  SettleByBalance(IF filled THEN ReconcileFilled(seen, q) ELSE seen, q, late)

\* The condition under which a symbol's durable traces may be dropped.
NothingOutstanding(st) ==
  st.lifecycle \in {"OPEN", "FLAT"} /\ ~HasOrphan(st)
=============================================================================
