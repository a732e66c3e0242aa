------------------------------ MODULE SellGate ------------------------------
(***************************************************************************)
(* When a SELL may leave the program: PositionStateMachine.decide_sell and    *)
(* the timers it rests on, for one symbol.  OrderExecution leaves time out    *)
(* (any PENDING state may be late) and lets any free symbol be sold; here     *)
(* the timestamps of SymbolPositionState are ages that a clock advances, and  *)
(* the backoff after rejections, the interval of forced exits, the timeouts   *)
(* of PENDING states and the escalation of HARD blocks are as in the code.    *)
(*                                                                         *)
(* Abstractions.  place_order answers at once (what can happen while it runs  *)
(* is the subject of OrderExecution), and a balance that lags behind a fill   *)
(* is a fill that comes later.  An age stops growing where no comparison of   *)
(* the code can tell it apart any more.  The symbol's only order number is 1. *)
(* A restart is a new behaviour: Init allows what it leaves.                 *)
(***************************************************************************)
EXTENDS PositionLifecycle, FiniteSetsExt

CONSTANTS
  Backoff,         \* SELL_RETRY_BACKOFF_SECONDS, from 0
  MaxRetry,        \* SELL_REJECT_MAX_RETRY
  RejectDecay,     \* SELL_REJECT_DECAY_SEC
  SellTimeout,     \* SELL_PENDING_TIMEOUT_SEC
  BuyTimeout,      \* BUY_PENDING_TIMEOUT_SEC
  MaxBlock,        \* MAX_BLOCK_DURATION_SEC
  ForcedInterval,  \* FORCED_SELL_MIN_INTERVAL_SEC
  Says,            \* what the strategy may say of a holding: HOLD, SELL, FORCED
  MaxQty,          \* bound: shares the program ever holds
  MaxRejects       \* bound: the broker refuses no SELL at this many rejections

ASSUME BackoffAssumption ==
  /\ MaxRetry \in Nat \ {0}
  /\ Backoff \in [0 .. MaxRetry - 1 -> Nat]
  /\ \A i, j \in DOMAIN Backoff : i <= j => Backoff[i] <= Backoff[j]
  /\ RejectDecay \in Nat /\ \A i \in DOMAIN Backoff : Backoff[i] <= RejectDecay
ASSUME DurationsAssumption ==
  {SellTimeout, BuyTimeout, MaxBlock, ForcedInterval} \subseteq Nat \ {0}
ASSUME SaysAssumption == Says # {} /\ Says \subseteq {"HOLD", "SELL", "FORCED"}
ASSUME QuantitiesAssumption == MaxQty \in Nat \ {0} /\ MaxRejects \in Nat

VARIABLES
  st,       \* the symbol's SymbolPositionState, without the timers
  gate,     \* its timers and counters
  soldQty,  \* its entry in _sold_today_qty_snapshot (0: none)
  justSold, \* last_sold_at_by_symbol was set by this cycle's poll
  order,    \* the order alive at the broker, or NoneAlive
  holding,  \* shares held
  stage,    \* where the cycle is: "idle", "exit" (forced exits), "loop"
  verdict,  \* what the last decide_sell or check_block_escalation returned; or "hold"
  truth     \* history: what really happened, for the properties only

vars == <<st, gate, soldQty, justSold, order, holding, stage, verdict, truth>>

Unset     == -1
NoneAlive == [side |-> "none", left |-> 0]
Verdicts  == {"none", "hold", "ALLOW", "ALLOW_FORCED", "BLOCKED", "THROTTLED",
              "RECONCILIATION_REQUIRED"}
Ages      == Nat \cup {Unset}
PendingCap == Max({SellTimeout, BuyTimeout})

(***************************************************************************)
(* The ages of sell_reject_last_at, last_forced_sell_at, blocked_since, and  *)
(* of partial_fill_since or else pending_since; partial: the former is set.  *)
(***************************************************************************)
Gates ==
  [rejects : Nat, rejectFor : Ages, forcedFor : Ages, blockedFor : Ages,
   pendingFor : Ages, partial : BOOLEAN]

FreshGate ==
  [rejects |-> 0, rejectFor |-> Unset, forcedFor |-> Unset,
   blockedFor |-> Unset, pendingFor |-> Unset, partial |-> FALSE]

(***************************************************************************)
(* History.  Of the present position: how many rejections of its SELL have    *)
(* followed one another within RejectDecay, and how long ago the last one     *)
(* was; how long ago a forced SELL was let through.  Of the present run of    *)
(* polls that all found a HARD block: the time since the first one.  Of the   *)
(* last order: the time since its request.                                  *)
(***************************************************************************)
Truths ==
  [rejections : 0 .. MaxRetry, rejectedFor : Ages, forcedFor : Ages,
   hardFor : Ages, requestedFor : Ages]

FreshTruth ==
  [rejections |-> 0, rejectedFor |-> Unset, forcedFor |-> Unset,
   hardFor |-> Unset, requestedFor |-> Unset]

\* The types of the state.
TypeOK ==
  /\ st \in SymbolState /\ gate \in Gates /\ soldQty \in Nat /\ justSold \in BOOLEAN
  /\ order \in [side : {"none", "BUY", "SELL"}, left : Nat]
  /\ holding \in Nat /\ stage \in {"idle", "exit", "loop"}
  /\ verdict \in Verdicts /\ truth \in Truths

\* _restore_order_recovery_blocks leaves a symbol blank or in ERROR.
Init ==
  /\ st \in {Blank, [Blank EXCEPT !.lifecycle = "ERROR", !.pending = 1]}
  /\ gate = FreshGate /\ soldQty = 0 /\ justSold = FALSE /\ truth = FreshTruth
  /\ order = NoneAlive /\ holding \in 0 .. MaxQty
  /\ stage = "idle" /\ verdict = "none"

-----------------------------------------------------------------------------
(* Time *)

Older(age, cap) == IF age \in {Unset, cap} THEN age ELSE age + 1

\* A unit of time passes between two cycles.
Tick ==
  /\ stage = "idle"
  /\ gate' = [gate EXCEPT !.rejectFor  = Older(@, RejectDecay),
                          !.forcedFor  = Older(@, ForcedInterval),
                          !.blockedFor = Older(@, MaxBlock),
                          !.pendingFor = Older(@, PendingCap)]
  /\ truth' = [truth EXCEPT !.rejectedFor  = Older(@, RejectDecay),
                            !.forcedFor    = Older(@, ForcedInterval),
                            !.hardFor      = Older(@, MaxBlock),
                            !.requestedFor = Older(@, PendingCap)]
  /\ verdict' = "none"
  /\ UNCHANGED <<st, soldQty, justSold, order, holding, stage>>

-----------------------------------------------------------------------------
(* Blocks *)

\* _reset_transient_block_state
Reset(g) ==
  [g EXCEPT !.rejects = 0, !.rejectFor = Unset,
            !.forcedFor = Unset, !.blockedFor = Unset]

\* The decay that never ends a run of rejections
NoDecay(g) == g

\* decay_sell_rejects
Decayed(g) ==
  IF g.rejects > 0 /\ g.rejectFor >= RejectDecay
  THEN [g EXCEPT !.rejects = @ - 1, !.rejectFor = IF g.rejects = 1 THEN Unset ELSE 0]
  ELSE g

\* The wait listed for so many rejections
Wait(n) == Backoff[Min({n, MaxRetry - 1})]

\* The remaining time of a wait listed for one rejection less
RemainingShort(g) ==
  IF g.rejects = 0 THEN 0 ELSE Max({0, Wait(g.rejects - 1) - g.rejectFor})

\* sell_backoff_remaining, after the decay
Remaining(g) ==
  IF g.rejects = 0 THEN 0 ELSE Max({0, Wait(g.rejects) - g.rejectFor})

\* _evaluate_soft_sell_blocks, after the decay
SoftBlock(g) == Remaining(g) > 0 \/ g.rejects >= MaxRetry

\* blocked_since follows the HARD block.
Tracked(s, g) ==
  [g EXCEPT !.blockedFor = IF HardBlock(s) THEN Max({0, @}) ELSE Unset]

\* The poll's check when only decide_sell starts the clock
WatchedOnSignal(s, g) == IF HardBlock(s) THEN g ELSE Tracked(s, g)

\* check_block_escalation
Watched(s, g) == Tracked(s, g)

Escalated(g) == g.blockedFor >= MaxBlock

\* The history of the same: a poll or a decision has seen s.
SeenBlocked(s, t) ==
  [t EXCEPT !.hardFor = IF HardBlock(s) THEN Max({0, @}) ELSE Unset]

-----------------------------------------------------------------------------
(* The poll *)

\* A person has looked: the order is not alive, and the balance is written.
Commanded ==
  {st} \cup
  {s \in {AcknowledgeError(st, holding), ClearOrphan(st)} :
     order = NoneAlive /\ (st.lifecycle = "ERROR" \/ HasOrphan(st))
     /\ (s = ClearOrphan(st) => HasOrphan(st))
     /\ (s # ClearOrphan(st) => st.lifecycle = "ERROR")}

\* Part of the pending order is in the balance.
PartlyFilled(s) ==
  \/ s.lifecycle = "SELL_PENDING" /\ 0 < holding /\ holding < s.sellBase
  \/ s.lifecycle = "BUY_PENDING" /\ s.base < holding /\ holding < s.expected

\* partial_fill_since is set by the first poll that sees a partial fill.
Progressed(s, g) ==
  IF PartlyFilled(s) /\ ~g.partial
  THEN [g EXCEPT !.pendingFor = 0, !.partial = TRUE] ELSE g

Late(s, g) ==
  g.pendingFor >= IF s.lifecycle = "SELL_PENDING" THEN SellTimeout ELSE BuyTimeout

\* _reset_transient_block_state is called where a PENDING state ends FLAT, and
\* where a BUY from nothing has been filled.
PositionTurnsOver(before, after) ==
  /\ before.lifecycle \in Pendings
  /\ \/ after.lifecycle = "FLAT"
     \/ before.lifecycle = "BUY_PENDING" /\ holding = before.expected /\ before.base = 0

\* A PENDING state that ends without an error takes its timers with it.
Ended(before, after, g) ==
  IF before.lifecycle \in Pendings /\ after.lifecycle \in {"OPEN", "FLAT"}
  THEN [g EXCEPT !.pendingFor = Unset, !.partial = FALSE] ELSE g

(***************************************************************************)
(* _sync_position_state_machine_shadow: the command files, the escalation     *)
(* check on the state as it was, then the balance.                           *)
(***************************************************************************)
Poll ==
  /\ stage = "idle"
  /\ \E s \in Commanded, filled \in BOOLEAN :
       LET watched == Watched(s, gate)
           timed   == Progressed(s, watched)
       IN  /\ filled => order = NoneAlive /\ (IsTrackable(s.pending) \/ IsTrackable(s.orphan))
           /\ verdict' = IF HardBlock(s) /\ Escalated(watched)
                         THEN "RECONCILIATION_REQUIRED" ELSE "none"
           /\ st' = PollSymbol(s, holding, Late(s, timed), filled)
           /\ justSold' = (s.lifecycle # "FLAT" /\ st'.lifecycle = "FLAT")
           /\ gate' = Ended(s, st', IF PositionTurnsOver(s, st') THEN Reset(timed) ELSE timed)
           /\ truth' = [SeenBlocked(st', SeenBlocked(s, truth)) EXCEPT
                         !.requestedFor = IF st'.lifecycle \in Pendings THEN @ ELSE Unset]
  /\ soldQty' \in {soldQty, 0}
  /\ stage' = "exit"
  /\ UNCHANGED <<order, holding>>

-----------------------------------------------------------------------------
(* Orders *)

\* pending_since and partial_fill_since of an order that keeps the last one's
KeptTimer(g) == IF g.pendingFor = Unset THEN [g EXCEPT !.pendingFor = 0] ELSE g

FreshTimer(g) == [g EXCEPT !.pendingFor = 0, !.partial = FALSE]

(***************************************************************************)
(* The request and what place_order came back with: accepted, or no answer,   *)
(* with the order alive or not.                                             *)
(***************************************************************************)
Placed(side, qty, requested) ==
  \E accepted, arrived \in BOOLEAN :
    /\ accepted => arrived
    /\ st' = IF accepted THEN ConfirmPendingOrderId(requested, 1)
             ELSE OnPlacementAmbiguous(requested)
    /\ order' = IF arrived THEN [side |-> side, left |-> qty] ELSE NoneAlive
    /\ soldQty' = CASE accepted /\ side = "SELL" -> st.known
                    [] accepted /\ side = "BUY"  -> 0
                    [] OTHER                     -> soldQty

\* The rejected SELL counts; the holding stays.
SellRejected(g, t) ==
  /\ g.rejects < MaxRejects
  /\ st' = OnSellRejected(OnSellRequested(st))
  /\ gate' = [FreshTimer(g) EXCEPT !.rejects = @ + 1, !.rejectFor = 0]
  /\ truth' = [t EXCEPT !.rejectedFor = 0,
       !.rejections = IF t.rejectedFor < RejectDecay THEN Min({MaxRetry, @ + 1}) ELSE 1]
  /\ UNCHANGED <<order, soldQty>>

\* _try_sell_unchecked
SendSell(g, t) ==
  \/ /\ Placed("SELL", st.known, OnSellRequested(st))
     /\ gate' = FreshTimer(g)
     /\ truth' = [t EXCEPT !.requestedFor = 0]
  \/ SellRejected(g, t)

\* The HARD block that a forced exit steps over
ForcedOverHard(s, forced) == HardBlock(s) /\ ~forced

\* decide_sell looks at the HARD blocks first, for a forced exit as well.
HardBlocks(s, forced) == HardBlock(s)

\* The mark of a forced SELL that only the first one sets
ForcedOnce(g) == IF g.forcedFor = Unset THEN [g EXCEPT !.forcedFor = 0] ELSE g

\* last_forced_sell_at, set when a forced SELL is let through
Forced(g) == [g EXCEPT !.forcedFor = 0]

(***************************************************************************)
(* _try_sell: decide_sell in its order, the HARD block, the forced exit with  *)
(* its interval, the soft block; and the order when it is allowed.            *)
(***************************************************************************)
TrySell(forced) ==
  LET g       == Tracked(st, gate)
      t       == SeenBlocked(st, truth)
      decayed == Decayed(g)
      stays   == UNCHANGED <<st, order, soldQty>>
  IN  \/ /\ HardBlocks(st, forced)
         /\ verdict' = IF Escalated(g) THEN "RECONCILIATION_REQUIRED" ELSE "BLOCKED"
         /\ gate' = g /\ truth' = t /\ stays
      \/ /\ ~HardBlocks(st, forced) /\ forced
         /\ g.forcedFor # Unset /\ g.forcedFor < ForcedInterval
         /\ verdict' = "THROTTLED"
         /\ gate' = g /\ truth' = t /\ stays
      \/ /\ ~HardBlocks(st, forced) /\ forced
         /\ g.forcedFor = Unset \/ g.forcedFor >= ForcedInterval
         /\ verdict' = "ALLOW_FORCED"
         /\ SendSell(Forced(g), [t EXCEPT !.forcedFor = 0])
      \/ /\ ~HardBlocks(st, forced) /\ ~forced /\ SoftBlock(decayed)
         /\ verdict' = "BLOCKED"
         /\ gate' = decayed /\ truth' = t /\ stays
      \/ /\ ~HardBlocks(st, forced) /\ ~forced /\ ~SoftBlock(decayed)
         /\ verdict' = "ALLOW"
         /\ SendSell(decayed, t)

\* The same without a re-entry cooldown
MayEnterAtOnce == TRUE

\* reentry_cooldown_seconds, of which no more is used than that it is longer than
\* the cycle in which the exit effects (_apply_deferred_sell_side_effects) ran
MayEnter == ~justSold

\* _try_buy
TryBuy ==
  /\ ~HardBlock(st) /\ MayEnter /\ verdict' = "none"
  /\ \E qty \in 1 .. MaxQty - holding :
       LET requested == OnBuyRequested(st, qty)
       IN  \/ /\ Placed("BUY", qty, requested)
              /\ truth' = [truth EXCEPT !.requestedFor = 0]
           \/ /\ st' = OnBuyRejected(requested)
              /\ UNCHANGED <<soldQty, order, truth>>
  /\ gate' = FreshTimer(gate)

\* A holding that equals the last accepted SELL's is treated as absent.
Seen == st.known > 0 /\ st.known # soldQty

Untouched == UNCHANGED <<st, gate, soldQty, order, truth>>
NoTurn    == verdict' = "none" /\ Untouched

\* _check_force_exit_overnight: in the last minutes of a day, or not at all.
ForcedExits ==
  /\ stage = "exit" /\ stage' = "loop"
  /\ (Seen /\ TrySell(TRUE)) \/ NoTurn
  /\ UNCHANGED <<justSold, holding>>

\* _process_symbol does what the strategy says.
ProcessSymbol ==
  /\ stage = "loop" /\ stage' = "idle"
  /\ \/ Seen /\ "SELL" \in Says /\ TrySell(FALSE)
     \/ Seen /\ "FORCED" \in Says /\ TrySell(TRUE)
     \/ Seen /\ "HOLD" \in Says /\ verdict' = "hold" /\ Untouched
     \/ ~Seen /\ (TryBuy \/ NoTurn)
  /\ justSold' = FALSE
  /\ UNCHANGED holding

-----------------------------------------------------------------------------
(* The broker (external) *)

\* Shares change hands; a position that is sold out ends.
Fill ==
  /\ stage = "idle" /\ order # NoneAlive
  /\ \E n \in 1 .. order.left :
       /\ order' = IF n = order.left THEN NoneAlive ELSE [order EXCEPT !.left = @ - n]
       /\ holding' = IF order.side = "BUY" THEN holding + n ELSE holding - n
  /\ truth' = IF holding' = 0
              THEN [truth EXCEPT !.rejections = 0, !.rejectedFor = Unset,
                                  !.forcedFor = Unset]
              ELSE truth
  /\ verdict' = "none"
  /\ UNCHANGED <<st, gate, soldQty, justSold, stage>>

\* The rest of the order lapses.
Cancel ==
  /\ stage = "idle" /\ order # NoneAlive
  /\ order' = NoneAlive /\ verdict' = "none"
  /\ UNCHANGED <<st, gate, soldQty, justSold, holding, stage, truth>>

Next == Tick \/ Poll \/ ForcedExits \/ ProcessSymbol \/ Fill \/ Cancel

Spec == Init /\ [][Next]_vars

(***************************************************************************)
(* Cycles go on and each ends; time passes.  Nothing is assumed of fills and  *)
(* of people.                                                               *)
(***************************************************************************)
Fairness ==
  SF_vars(Tick) /\ SF_vars(Poll) /\ WF_vars(ForcedExits) /\ WF_vars(ProcessSymbol)

FairSpec == Spec /\ Fairness

-----------------------------------------------------------------------------
(* Properties *)

\* However many rejections, normal and forced, followed one another, a normal
\* SELL waits at least as long as SELL_RETRY_BACKOFF_SECONDS says for so many.
BackoffHonoured ==
  [][verdict' = "ALLOW" /\ truth.rejections > 0
       => truth.rejectedFor >= Wait(truth.rejections)]_vars

\* Two forced SELLs of one position are FORCED_SELL_MIN_INTERVAL_SEC apart,
\* although last_forced_sell_at is one of the fields that are reset.
ForcedSellsAreApart ==
  [][verdict' = "ALLOW_FORCED" /\ truth.forcedFor # Unset
       => truth.forcedFor >= ForcedInterval]_vars

\* Neither rejections and their decay nor the resets of the gate's fields bring two
\* SELLs of a position closer together than the waits of decide_sell.
SellsAreSpaced == BackoffHonoured /\ ForcedSellsAreApart

\* No SELL, forced or not, goes out while another order may still fill.
NoSellOverALiveOrder ==
  [][verdict' \in {"ALLOW", "ALLOW_FORCED"} => order = NoneAlive]_vars

\* An order is given up as an orphan only when its own timeout has passed, not
\* because of the age of an order before it.
NoEarlyOrphan ==
  [][st.lifecycle \in Pendings /\ HasOrphan(st') =>
       truth.requestedFor >=
         IF st.lifecycle = "SELL_PENDING" THEN SellTimeout ELSE BuyTimeout]_vars

\* What is escalated as RECONCILIATION_REQUIRED has lasted MaxBlock: the block of a
\* finished position is never added to that of the next, although an orphan that
\* ends FLAT does not reset blocked_since.
AlarmNeedsALongBlock ==
  [][verdict' = "RECONCILIATION_REQUIRED" => truth.hardFor >= MaxBlock]_vars

\* No timeout and no alarm is counted from the time of an order or a position before:
\* every order and every block has a clock of its own.
ClocksAreOwn == NoEarlyOrphan /\ AlarmNeedsALongBlock

\* A holding that no HARD block protects and that the strategy keeps wanting to
\* sell is sent to the broker again and again, after however many rejections.
WantedSellGoesOut ==
  <>[](verdict # "hold") =>
    []<>(~Seen \/ HardBlock(st) \/ verdict \in {"ALLOW", "ALLOW_FORCED"})

\* A block that lasts is reported to a person again and again by the polls, even
\* of a symbol that is not held and so never gets a sell signal, and across the
\* change from PENDING to orphan.
StuckIsReported ==
  <>[]HardBlock(st) => []<>(stage = "exit" /\ verdict = "RECONCILIATION_REQUIRED")

=============================================================================
