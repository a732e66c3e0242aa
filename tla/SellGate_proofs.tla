--------------------------- MODULE SellGate_proofs ---------------------------
(***************************************************************************)
(* For any waits, intervals, timeouts and quantities: no SELL goes out over an *)
(* order that may still fill, SELLs of a position keep their distance, and     *)
(* no timeout or alarm is counted from a time before its order or its block.   *)
(***************************************************************************)
EXTENDS SellGate, TLAPS

-----------------------------------------------------------------------------
(* The invariant *)

\* A PENDING state has an order number, and a block has one reason.
WellFormed(s) ==
  /\ s.lifecycle \in Pendings => s.pending # NoOrder
  /\ s.lifecycle \in Pendings \cup {"ERROR"} => ~HasOrphan(s)

\* The order that s waits for, pending or orphan, adds to the holding or takes from it.
Buys(s)  == s.lifecycle = "BUY_PENDING" \/ (HasOrphan(s) /\ s.delta > 0)
Sells(s) == s.lifecycle = "SELL_PENDING" \/ (HasOrphan(s) /\ s.delta < 0)

\* A BUY that is waited for has ended the snapshot of the SELL before it, so that
\* what it fills is seen; an orphan SELL has left something.
MachineIsSound ==
  /\ WellFormed(st)
  /\ HasOrphan(st) => st.delta # 0
  /\ HasOrphan(st) /\ st.delta < 0 => st.lifecycle = "OPEN"
  /\ Buys(st) => st.expected > 0 /\ holding <= st.expected /\ soldQty = 0

\* An order that is alive is waited for, or the symbol is in ERROR; what is left of
\* it and the holding add up to its target.
OrderIsTracked ==
  /\ order.side = "none" => order.left = 0
  /\ order.side = "BUY" =>
       /\ order.left > 0
       /\ st.lifecycle = "ERROR" \/ (Buys(st) /\ holding + order.left = st.expected)
  /\ order.side = "SELL" =>
       /\ order.left > 0 /\ holding = order.left
       /\ st.lifecycle = "ERROR" \/ Sells(st)

\* Within a cycle, a symbol that is free is known with what it holds.
KnownIsHolding == stage # "idle" /\ ~HardBlock(st) => st.known = holding

\* A position that is not there yet has no rejections and no forced SELLs.
NothingSold == truth.rejections = 0 /\ truth.rejectedFor = Unset /\ truth.forcedFor = Unset
HistoryOfPosition ==
  /\ holding = 0 => NothingSold
  /\ st.lifecycle = "BUY_PENDING" /\ st.base = 0 => NothingSold

\* pending_since is no older than the request of the order.
PendingClock ==
  st.lifecycle \in Pendings => truth.requestedFor >= 0 /\ gate.pendingFor <= truth.requestedFor

\* blocked_since is no older than the block, or it will be set anew before the next
\* block can begin: by the next poll, by the SELL of a holding that is seen, or after
\* the re-entry cooldown.
Renewed == ~HardBlock(st) /\ (stage = "idle" \/ Seen \/ justSold)
BlockClock == gate.blockedFor <= truth.hardFor \/ Renewed

\* last_forced_sell_at is that of the last forced SELL of the position.
ForcedClock == truth.forcedFor # Unset => gate.forcedFor = truth.forcedFor

\* While rejections follow one another, none is forgotten.
RejectClock ==
  /\ truth.rejections > 0 => truth.rejectedFor >= 0
  /\ truth.rejections > 0 /\ truth.rejectedFor < RejectDecay =>
       gate.rejects >= truth.rejections /\ gate.rejectFor = truth.rejectedFor

Clocks  == PendingClock /\ BlockClock /\ ForcedClock /\ RejectClock
GateInv == TypeOK /\ MachineIsSound /\ OrderIsTracked /\ KnownIsHolding /\ HistoryOfPosition /\ Clocks

-----------------------------------------------------------------------------
(* What the machine makes of a balance *)

LEMMA StateFields ==
  ASSUME NEW s \in SymbolState
  PROVE  /\ s.lifecycle \in Lifecycles /\ s.pending \in Int /\ s.known \in Nat /\ s.base \in Nat
         /\ s.expected \in Nat /\ s.sellBase \in Nat /\ s.orphan \in Int /\ s.delta \in Int
BY DEF SymbolState, OrderIds

\* Any change of its fields to values of their types keeps it a state of the machine.
LEMMA OrphanUpdates ==
  ASSUME NEW s \in SymbolState, NEW i \in OrderIds, NEW d \in Int
  PROVE  [s EXCEPT !.orphan = i, !.delta = d] \in SymbolState
BY DEF SymbolState

LEMMA EndUpdates ==
  ASSUME NEW s \in SymbolState, NEW l \in Lifecycles, NEW n \in Nat, NEW i \in OrderIds
  PROVE  /\ [s EXCEPT !.lifecycle = l, !.known = n, !.pending = i] \in SymbolState
         /\ [s EXCEPT !.known = n, !.lifecycle = l, !.pending = i] \in SymbolState
BY DEF SymbolState

LEMMA SellUpdates ==
  ASSUME NEW s \in SymbolState, NEW l \in Lifecycles, NEW i \in OrderIds, NEW n \in Nat, NEW b \in Nat
  PROVE  /\ [s EXCEPT !.lifecycle = l, !.known = n, !.sellBase = b, !.pending = i] \in SymbolState
         /\ [s EXCEPT !.lifecycle = l, !.pending = i, !.sellBase = b] \in SymbolState
         /\ [s EXCEPT !.lifecycle = l, !.pending = i, !.base = n, !.expected = b] \in SymbolState
BY DEF SymbolState

LEMMA AnswerUpdates ==
  ASSUME NEW s \in SymbolState, NEW l \in Lifecycles, NEW i \in OrderIds
  PROVE  /\ [s EXCEPT !.lifecycle = l] \in SymbolState
         /\ [s EXCEPT !.pending = i] \in SymbolState
         /\ [s EXCEPT !.lifecycle = l, !.pending = i] \in SymbolState
BY DEF SymbolState

LEMMA Ids == 0 \in Nat /\ 0 \in Int /\ NoOrder \in OrderIds /\ Placeholder \in OrderIds /\ 1 \in OrderIds
BY DEF NoOrder, Placeholder, OrderIds

LEMMA LifecycleNames == Lifecycles = {"FLAT", "OPEN", "ERROR", "BUY_PENDING", "SELL_PENDING"}
BY DEF Lifecycles, Pendings

LEMMA SettledIs == \A q \in Nat : Settled(q) = (IF q > 0 THEN "OPEN" ELSE "FLAT")
BY DEF Settled

LEMMA Cleared ==
  ASSUME NEW s \in SymbolState
  PROVE  LET c == ClearOrphan(s) IN
         /\ c \in SymbolState /\ ~HasOrphan(c)
         /\ c.lifecycle = s.lifecycle /\ c.pending = s.pending /\ c.known = s.known
         /\ c.base = s.base /\ c.expected = s.expected
<1>1. ClearOrphan(s) \in SymbolState
  BY OrphanUpdates, Ids DEF ClearOrphan
<1> QED
  BY <1>1 DEF ClearOrphan, SymbolState, HasOrphan

\* An orphan ends when its target is reached, and only then.
LEMMA Observed ==
  ASSUME NEW s \in SymbolState, NEW q \in Nat
  PROVE  LET o == ObserveForOrphan(s, q)
             reached == HasOrphan(s) /\ ((s.delta < 0 /\ q = 0) \/ (s.delta > 0 /\ q = s.expected))
         IN
         /\ o \in SymbolState
         /\ o.lifecycle = s.lifecycle /\ o.pending = s.pending
         /\ o.base = s.base /\ o.expected = s.expected
         /\ reached => ~HasOrphan(o)
         /\ ~reached => o = s
BY Cleared DEF ObserveForOrphan

\* A BUY that is not complete goes on waiting, or is an anomaly.
LEMMA BuyConfirmed ==
  ASSUME NEW s \in SymbolState, NEW q \in Nat, s.lifecycle = "BUY_PENDING", ~HasOrphan(s), q <= s.expected
  PROVE  LET c == ConfirmBuyFromBroker(s, q) IN
         /\ c \in SymbolState /\ ~HasOrphan(c) /\ c.base = s.base /\ c.expected = s.expected
         /\ q = s.expected => c.lifecycle = "OPEN" /\ c.known = q
         /\ q # s.expected => c.lifecycle \in {"BUY_PENDING", "ERROR"} /\ c.pending = s.pending
<1> DEFINE opened == [s EXCEPT !.lifecycle = "OPEN", !.known = q, !.pending = NoOrder]
           failed == [s EXCEPT !.lifecycle = "ERROR", !.known = q]
           partly == [s EXCEPT !.known = q]
<1>1. /\ opened \in SymbolState /\ opened.orphan = s.orphan /\ opened.lifecycle = "OPEN"
      /\ opened.known = q /\ opened.base = s.base /\ opened.expected = s.expected
  <2>1. opened \in SymbolState
    BY EndUpdates, SellUpdates, Ids, LifecycleNames
  <2> QED
    BY <2>1 DEF SymbolState
<1>2. /\ failed \in SymbolState /\ failed.orphan = s.orphan /\ failed.lifecycle = "ERROR"
      /\ failed.pending = s.pending /\ failed.base = s.base /\ failed.expected = s.expected
  BY LifecycleNames DEF SymbolState
<1>3. /\ partly \in SymbolState /\ partly.orphan = s.orphan /\ partly.lifecycle = s.lifecycle
      /\ partly.pending = s.pending /\ partly.base = s.base /\ partly.expected = s.expected
  BY DEF SymbolState
<1>4. q = s.expected => ConfirmBuyFromBroker(s, q) \in {opened, ClearOrphan(opened)}
  BY DEF ConfirmBuyFromBroker
<1>5. q # s.expected => ConfirmBuyFromBroker(s, q) \in {failed, partly, s}
  BY DEF ConfirmBuyFromBroker
<1> HIDE DEF opened, failed, partly
<1> QED
  BY <1>1, <1>2, <1>3, <1>4, <1>5, Cleared DEF HasOrphan

\* So does a SELL that has left something.
LEMMA SellConfirmed ==
  ASSUME NEW s \in SymbolState, NEW q \in Nat, s.lifecycle = "SELL_PENDING", ~HasOrphan(s)
  PROVE  LET c == OnSellResult(s, q) IN
         /\ c \in SymbolState /\ ~HasOrphan(c) /\ c.base = s.base /\ c.expected = s.expected
         /\ q = 0 => c.lifecycle = "FLAT" /\ c.known = q
         /\ q # 0 => c.lifecycle \in {"SELL_PENDING", "ERROR"} /\ c.pending = s.pending
<1> DEFINE flat   == [s EXCEPT !.lifecycle = "FLAT", !.known = 0, !.sellBase = 0, !.pending = NoOrder]
           failed == [s EXCEPT !.lifecycle = "ERROR", !.known = q]
           partly == [s EXCEPT !.known = q]
<1>1. /\ flat \in SymbolState /\ flat.lifecycle = "FLAT" /\ flat.known = 0
      /\ flat.base = s.base /\ flat.expected = s.expected
  <2>1. flat \in SymbolState
    BY EndUpdates, SellUpdates, Ids, LifecycleNames
  <2> QED
    BY <2>1 DEF SymbolState
<1>2. /\ failed \in SymbolState /\ failed.orphan = s.orphan /\ failed.lifecycle = "ERROR"
      /\ failed.pending = s.pending /\ failed.base = s.base /\ failed.expected = s.expected
  BY LifecycleNames DEF SymbolState
<1>3. /\ partly \in SymbolState /\ partly.orphan = s.orphan /\ partly.lifecycle = s.lifecycle
      /\ partly.pending = s.pending /\ partly.base = s.base /\ partly.expected = s.expected
  BY DEF SymbolState
<1>4. q = 0 => OnSellResult(s, q) = ClearOrphan(flat)
  BY DEF OnSellResult
<1>5. q # 0 => OnSellResult(s, q) \in {failed, partly, s}
  BY DEF OnSellResult
<1> HIDE DEF flat, failed, partly
<1> QED
  BY <1>1, <1>2, <1>3, <1>4, <1>5, Cleared DEF HasOrphan

\* The timeout makes an orphan of what has not reached its target.
LEMMA TimedOut ==
  ASSUME NEW s \in SymbolState, NEW q \in Nat, NEW late, s.pending # NoOrder \/ s.lifecycle \notin Pendings,
         s.lifecycle = "BUY_PENDING" => q < s.expected,
         s.lifecycle = "SELL_PENDING" => q > 0
  PROVE  LET n == ResolveStalePending(s, q, late) IN
         \/ n = s /\ (late => s.lifecycle \notin Pendings)
         \/ /\ late /\ n \in SymbolState /\ HasOrphan(n) /\ n.lifecycle = Settled(q)
            /\ n.base = s.base /\ n.expected = s.expected
            /\ \/ s.lifecycle = "BUY_PENDING" /\ n.delta > 0
               \/ s.lifecycle = "SELL_PENDING" /\ n.delta < 0
<1> DEFINE ended == [s EXCEPT !.lifecycle = Settled(q), !.known = q, !.pending = NoOrder]
           orphan(d) == [ended EXCEPT !.orphan = s.pending, !.delta = d]
<1>1. /\ ended \in SymbolState /\ ended.lifecycle = Settled(q)
      /\ ended.base = s.base /\ ended.expected = s.expected
  <2>1. ended \in SymbolState
    BY EndUpdates, SellUpdates, Ids, LifecycleNames, SettledIs
  <2> QED
    BY <2>1 DEF SymbolState
<1>2. ASSUME NEW d \in Int
      PROVE  /\ orphan(d) \in SymbolState /\ orphan(d).lifecycle = Settled(q) /\ orphan(d).orphan = s.pending
             /\ orphan(d).delta = d /\ orphan(d).base = s.base /\ orphan(d).expected = s.expected
  <2> HIDE DEF ended
  <2> QED
    BY <1>1, StateFields DEF SymbolState, OrderIds
<1>3. ~(late /\ s.lifecycle \in Pendings) => ResolveStalePending(s, q, late) = s
  BY DEF ResolveStalePending, Pendings
<1>4. late /\ s.lifecycle = "SELL_PENDING" => ResolveStalePending(s, q, late) = orphan(-q)
  BY DEF ResolveStalePending, Pendings
<1>5. late /\ s.lifecycle = "BUY_PENDING" => ResolveStalePending(s, q, late) = orphan(s.expected - q)
  <2> SUFFICES ASSUME late, s.lifecycle = "BUY_PENDING" PROVE ResolveStalePending(s, q, late) = orphan(s.expected - q)
    OBVIOUS
  <2>1. s.expected - q > 0
    BY StateFields
  <2>2. ResolveStalePending(s, q, late) = orphan(IF s.expected - q > 0 THEN s.expected - q ELSE 0)
    BY DEF ResolveStalePending, Pendings
  <2> QED
    BY <2>1, <2>2
<1>6. -q \in Int /\ s.expected - q \in Int
  BY StateFields
<1> HIDE DEF ended, orphan
<1>7. CASE late /\ s.lifecycle = "SELL_PENDING"
  <2>1. orphan(-q).delta < 0 /\ HasOrphan(orphan(-q))
    BY <1>2, <1>6, <1>7 DEF HasOrphan, Pendings
  <2> QED
    BY <1>2, <1>4, <1>6, <1>7, <2>1
<1>8. CASE late /\ s.lifecycle = "BUY_PENDING"
  <2>1. orphan(s.expected - q).delta > 0 /\ HasOrphan(orphan(s.expected - q))
    BY <1>2, <1>6, <1>8, StateFields DEF HasOrphan, Pendings
  <2> QED
    BY <1>2, <1>5, <1>6, <1>8, <2>1
<1>9. CASE ~(late /\ s.lifecycle \in Pendings)
  BY <1>3, <1>9
<1> QED
  BY <1>7, <1>8, <1>9 DEF Pendings

\* A symbol that waits for nothing takes the quantity.
LEMMA Synchronised ==
  ASSUME NEW s \in SymbolState, NEW q \in Nat, s.lifecycle \notin Pendings
  PROVE  LET n == SyncFromBroker(s, q) IN
         /\ n \in SymbolState /\ n.known = q /\ n.orphan = s.orphan /\ n.delta = s.delta
         /\ n.base = s.base /\ n.expected = s.expected /\ n.pending = s.pending
         /\ n.lifecycle = IF s.lifecycle = "ERROR" THEN "ERROR" ELSE Settled(q)
<1>1. /\ [s EXCEPT !.known = q] \in SymbolState
      /\ [s EXCEPT !.known = q, !.lifecycle = Settled(q)] \in SymbolState
  BY LifecycleNames, SettledIs DEF SymbolState
<1>2. CASE s.lifecycle = "ERROR"
  BY <1>1, <1>2 DEF SyncFromBroker, HardBlockNoOrphan, SymbolState
<1>3. CASE s.lifecycle # "ERROR"
  BY <1>1, <1>3 DEF SyncFromBroker, HardBlockNoOrphan, SymbolState
<1> QED
  BY <1>2, <1>3

\* The holding q is the one at which the order of s is finished.
Reached(s, q) ==
  \/ ~HardBlock(s)
  \/ s.lifecycle = "BUY_PENDING" /\ q = s.expected
  \/ s.lifecycle = "SELL_PENDING" /\ q = 0
  \/ HasOrphan(s) /\ s.delta < 0 /\ q = 0
  \/ HasOrphan(s) /\ s.delta > 0 /\ q = s.expected

\* What n, the state after a poll that has seen q, has made of s.
Finished(s, q, n) == ~HardBlock(n) /\ n.known = q /\ n.lifecycle = Settled(q) /\ Reached(s, q)
Anomalous(s, n)   == n.lifecycle = "ERROR" /\ HardBlock(s)
StillPending(s, late, n) == ~late /\ n.lifecycle \in Pendings /\ n.lifecycle = s.lifecycle
BuyOutlived(s, q, late, n) ==
  /\ HasOrphan(n) /\ n.delta > 0 /\ n.lifecycle = Settled(q)
  /\ (late /\ s.lifecycle = "BUY_PENDING") \/ (HasOrphan(s) /\ s.delta > 0)
SellOutlived(s, q, late, n) ==
  /\ HasOrphan(n) /\ n.delta < 0 /\ q > 0 /\ n.lifecycle = Settled(q)
  /\ (late /\ s.lifecycle = "SELL_PENDING") \/ (HasOrphan(s) /\ s.delta < 0)

Outcome(s, q, late, n) ==
  /\ n \in SymbolState /\ WellFormed(n) /\ n.base = s.base /\ n.expected = s.expected
  /\ \/ Finished(s, q, n) \/ Anomalous(s, n) \/ StillPending(s, late, n)
     \/ BuyOutlived(s, q, late, n) \/ SellOutlived(s, q, late, n)

\* The states that a poll may find with the holding q.
Pollable(s, q) ==
  /\ s \in SymbolState /\ WellFormed(s) /\ (HasOrphan(s) => s.delta # 0)
  /\ s.lifecycle = "BUY_PENDING" => s.expected > 0 /\ q <= s.expected

\* The branches of the poll by the balance
LEMMA SettledByBalance ==
  ASSUME NEW s, NEW q \in Nat, NEW late, Pollable(s, q), HasOrphan(s) /\ s.delta < 0 => q > 0
  PROVE  Outcome(s, q, late, SettleByBalance(s, q, late))
<1> DEFINE n == SettleByBalance(s, q, late)
<1> SUFFICES Outcome(s, q, late, n)
  OBVIOUS
<1>0. s \in SymbolState /\ WellFormed(s) /\ s.lifecycle \in Lifecycles /\ s.delta \in Int
  BY StateFields DEF Pollable
<1>1. CASE s.lifecycle = "SELL_PENDING"
  <2> DEFINE c == OnSellResult(s, q)
  <2>1. ~HasOrphan(s) /\ s.pending # NoOrder /\ HardBlock(s)
    BY <1>0, <1>1 DEF WellFormed, Pendings, HardBlock
  <2>2. /\ c \in SymbolState /\ ~HasOrphan(c) /\ c.base = s.base /\ c.expected = s.expected
        /\ q = 0 => c.lifecycle = "FLAT" /\ c.known = q
        /\ q # 0 => c.lifecycle \in {"SELL_PENDING", "ERROR"} /\ c.pending = s.pending
    BY <1>0, <1>1, <2>1, SellConfirmed
  <2>3. n = ResolveStalePending(c, q, late)
    BY <1>1 DEF SettleByBalance
  <2> HIDE DEF c, n
  <2>4. \/ n = c /\ (late => c.lifecycle \notin Pendings)
        \/ /\ late /\ n \in SymbolState /\ HasOrphan(n) /\ n.lifecycle = Settled(q)
           /\ n.base = c.base /\ n.expected = c.expected
           /\ c.lifecycle = "SELL_PENDING" /\ n.delta < 0
    <3>1. c.pending # NoOrder \/ c.lifecycle \notin Pendings
      BY <2>1, <2>2 DEF Pendings
    <3>2. c.lifecycle = "SELL_PENDING" => q > 0
      BY <2>2
    <3>3. c.lifecycle # "BUY_PENDING"
      BY <2>2
    <3> QED
      BY <2>2, <2>3, <3>1, <3>2, <3>3, TimedOut
  <2>5. CASE n = c /\ q = 0
    BY <1>1, <2>1, <2>2, <2>5, SettledIs
    DEF Outcome, WellFormed, Finished, Reached, HardBlock, Pendings
  <2>6. CASE n = c /\ q # 0 /\ (late => c.lifecycle \notin Pendings)
    BY <1>1, <2>1, <2>2, <2>6 DEF Outcome, WellFormed, Anomalous, StillPending, Pendings
  <2>7. CASE n # c
    <3>1. SellOutlived(s, q, late, n)
      BY <1>1, <2>2, <2>4, <2>7 DEF SellOutlived
    <3>2. n.lifecycle \in {"OPEN", "FLAT"}
      BY <2>4, <2>7, SettledIs
    <3> QED
      BY <2>2, <2>4, <2>7, <3>1, <3>2 DEF Outcome, WellFormed, Pendings
  <2> QED
    BY <2>2, <2>4, <2>5, <2>6, <2>7
<1>2. CASE s.lifecycle = "BUY_PENDING"
  <2> DEFINE c == ConfirmBuyFromBroker(s, q)
  <2>1. ~HasOrphan(s) /\ s.pending # NoOrder /\ HardBlock(s) /\ q <= s.expected /\ s.expected > 0
    BY <1>0, <1>2 DEF WellFormed, Pendings, HardBlock, Pollable
  <2>2. /\ c \in SymbolState /\ ~HasOrphan(c) /\ c.base = s.base /\ c.expected = s.expected
        /\ q = s.expected => c.lifecycle = "OPEN" /\ c.known = q
        /\ q # s.expected => c.lifecycle \in {"BUY_PENDING", "ERROR"} /\ c.pending = s.pending
    BY <1>0, <1>2, <2>1, BuyConfirmed
  <2>3. n = ResolveStalePending(c, q, late)
    BY <1>2 DEF SettleByBalance
  <2> HIDE DEF c, n
  <2>4. \/ n = c /\ (late => c.lifecycle \notin Pendings)
        \/ /\ late /\ n \in SymbolState /\ HasOrphan(n) /\ n.lifecycle = Settled(q)
           /\ n.base = c.base /\ n.expected = c.expected
           /\ c.lifecycle = "BUY_PENDING" /\ n.delta > 0
    <3>1. c.pending # NoOrder \/ c.lifecycle \notin Pendings
      BY <2>1, <2>2 DEF Pendings
    <3>2. c.lifecycle = "BUY_PENDING" => q < c.expected
      BY <1>0, <2>1, <2>2, StateFields
    <3>3. c.lifecycle # "SELL_PENDING"
      BY <2>2
    <3> QED
      BY <2>2, <2>3, <3>1, <3>2, <3>3, TimedOut
  <2>5. CASE n = c /\ q = s.expected
    BY <1>2, <2>1, <2>2, <2>5, SettledIs
    DEF Outcome, WellFormed, Finished, Reached, HardBlock, Pendings
  <2>6. CASE n = c /\ q # s.expected /\ (late => c.lifecycle \notin Pendings)
    BY <1>2, <2>1, <2>2, <2>6 DEF Outcome, WellFormed, Anomalous, StillPending, Pendings
  <2>7. CASE n # c
    <3>1. BuyOutlived(s, q, late, n)
      BY <1>2, <2>2, <2>4, <2>7 DEF BuyOutlived
    <3>2. n.lifecycle \in {"OPEN", "FLAT"}
      BY <2>4, <2>7, SettledIs
    <3> QED
      BY <2>2, <2>4, <2>7, <3>1, <3>2 DEF Outcome, WellFormed, Pendings
  <2> QED
    BY <2>2, <2>4, <2>5, <2>6, <2>7
<1>3. CASE s.lifecycle \notin Pendings
  <2>1. n = SyncFromBroker(s, q)
    BY <1>3 DEF SettleByBalance, Pendings
  <2> HIDE DEF n
  <2>2. /\ n \in SymbolState /\ n.known = q /\ n.orphan = s.orphan /\ n.delta = s.delta
        /\ n.base = s.base /\ n.expected = s.expected /\ n.pending = s.pending
        /\ n.lifecycle = IF s.lifecycle = "ERROR" THEN "ERROR" ELSE Settled(q)
    BY <1>0, <1>3, <2>1, Synchronised
  <2>3. CASE s.lifecycle = "ERROR"
    BY <1>0, <2>2, <2>3 DEF Outcome, WellFormed, Anomalous, HardBlock, HasOrphan, Pendings
  <2>4. CASE s.lifecycle # "ERROR"
    <3>1. n.lifecycle = Settled(q) /\ n.lifecycle \in {"OPEN", "FLAT"} /\ WellFormed(n)
      BY <2>2, <2>4, SettledIs DEF WellFormed, Pendings
    <3>2. HasOrphan(s) => BuyOutlived(s, q, late, n) \/ SellOutlived(s, q, late, n)
      BY <1>0, <2>2, <3>1 DEF BuyOutlived, SellOutlived, HasOrphan, Pollable
    <3>3. ~HasOrphan(s) => Finished(s, q, n)
      BY <1>3, <2>2, <2>4, <3>1 DEF Finished, Reached, HardBlock, HasOrphan, Pendings
    <3> QED
      BY <2>2, <3>1, <3>2, <3>3 DEF Outcome
  <2> QED
    BY <2>3, <2>4
<1> QED
  BY <1>1, <1>2, <1>3 DEF Pendings

\* A poll finishes an order, goes on waiting for it, or makes it an orphan after its
\* timeout; an orphan stays one until its target is reached.
LEMMA Polled ==
  ASSUME NEW s, NEW q \in Nat, NEW late, NEW filled \in BOOLEAN, Pollable(s, q)
  PROVE  Outcome(s, q, late, PollSymbol(s, q, late, filled))
<1> DEFINE seen == ObserveForOrphan(s, q)
           told == IF filled THEN ReconcileFilled(seen, q) ELSE seen
           n    == PollSymbol(s, q, late, filled)
           reached == HasOrphan(s) /\ ((s.delta < 0 /\ q = 0) \/ (s.delta > 0 /\ q = s.expected))
<1> SUFFICES Outcome(s, q, late, n)
  OBVIOUS
<1>1. /\ s \in SymbolState /\ WellFormed(s) /\ (HasOrphan(s) => s.delta # 0)
      /\ s.expected \in Nat /\ s.delta \in Int
  BY StateFields DEF Pollable
<1>2. /\ seen \in SymbolState /\ seen.lifecycle = s.lifecycle /\ seen.pending = s.pending
      /\ seen.base = s.base /\ seen.expected = s.expected
      /\ reached => ~HasOrphan(seen)
      /\ ~reached => seen = s
  BY <1>1, Observed
<1>3. n = SettleByBalance(told, q, late)
  BY DEF PollSymbol
<1>4. told = IF filled THEN ReconcileFilled(seen, q) ELSE seen
  OBVIOUS
<1>o. ObserveForOrphan(seen, q) = seen
  BY <1>1, <1>2 DEF ObserveForOrphan
<1> HIDE DEF seen, told, n
<1>5. Pollable(seen, q) /\ (HasOrphan(seen) => seen = s /\ ~reached)
  BY <1>1, <1>2 DEF Pollable, WellFormed
<1>6. HardBlock(seen) => HardBlock(s)
  BY <1>2, <1>5 DEF HardBlock
<1>7. \A m : Outcome(seen, q, late, m) => Outcome(s, q, late, m)
  <2> SUFFICES ASSUME NEW m, Outcome(seen, q, late, m)
               PROVE  Outcome(s, q, late, m)
    OBVIOUS
  <2>1. Finished(seen, q, m) => Finished(s, q, m)
    BY <1>2, <1>5, <1>6 DEF Finished, Reached, HardBlock
  <2>2. Anomalous(seen, m) => Anomalous(s, m)
    BY <1>6 DEF Anomalous
  <2>3. StillPending(seen, late, m) => StillPending(s, late, m)
    BY <1>2 DEF StillPending
  <2>4. BuyOutlived(seen, q, late, m) => BuyOutlived(s, q, late, m)
    BY <1>2, <1>5 DEF BuyOutlived
  <2>5. SellOutlived(seen, q, late, m) => SellOutlived(s, q, late, m)
    BY <1>2, <1>5 DEF SellOutlived
  <2> QED
    BY <1>2, <2>1, <2>2, <2>3, <2>4, <2>5 DEF Outcome
<1>8. CASE told = seen
  <2>1. HasOrphan(seen) /\ seen.delta < 0 => q > 0
    BY <1>5
  <2> QED
    BY <1>3, <1>5, <1>7, <1>8, <2>1, SettledByBalance
<1>9. CASE filled /\ seen.lifecycle = "BUY_PENDING" /\ q = seen.expected
  <2> DEFINE c == ConfirmBuyFromBroker(seen, q)
  <2>1. told = c /\ ~HasOrphan(seen) /\ q > 0
    BY <1>4, <1>5, <1>9 DEF ReconcileFilled, Pollable, WellFormed, Pendings
  <2>2. c \in SymbolState /\ ~HasOrphan(c) /\ c.base = seen.base /\ c.expected = seen.expected /\ c.lifecycle = "OPEN"
    BY <1>2, <1>9, <2>1, BuyConfirmed
  <2> HIDE DEF c
  <2>3. Pollable(c, q) /\ ~HardBlock(c)
    BY <2>2 DEF Pollable, WellFormed, HardBlock, Pendings
  <2>4. Outcome(c, q, late, n)
    BY <1>3, <2>1, <2>2, <2>3, SettledByBalance
  <2>5. Finished(c, q, n)
    BY <2>2, <2>3, <2>4 DEF Outcome, Anomalous, StillPending, BuyOutlived, SellOutlived, Pendings
  <2>6. Outcome(seen, q, late, n)
    BY <1>9, <2>2, <2>4, <2>5 DEF Outcome, Finished, Reached
  <2> QED
    BY <1>7, <2>6
<1>10. CASE filled /\ seen.lifecycle = "SELL_PENDING" /\ q = 0
  <2> DEFINE c == OnSellResult(seen, q)
  <2>1. told = c /\ ~HasOrphan(seen)
    BY <1>4, <1>5, <1>10 DEF ReconcileFilled, Pollable, WellFormed, Pendings
  <2>2. c \in SymbolState /\ ~HasOrphan(c) /\ c.base = seen.base /\ c.expected = seen.expected /\ c.lifecycle = "FLAT"
    BY <1>2, <1>10, <2>1, SellConfirmed
  <2> HIDE DEF c
  <2>3. Pollable(c, q) /\ ~HardBlock(c)
    BY <2>2 DEF Pollable, WellFormed, HardBlock, Pendings
  <2>4. Outcome(c, q, late, n)
    BY <1>3, <2>1, <2>2, <2>3, SettledByBalance
  <2>5. Finished(c, q, n)
    BY <2>2, <2>3, <2>4 DEF Outcome, Anomalous, StillPending, BuyOutlived, SellOutlived, Pendings
  <2>6. Outcome(seen, q, late, n)
    BY <1>10, <2>2, <2>4, <2>5 DEF Outcome, Finished, Reached
  <2> QED
    BY <1>7, <2>6
<1>11. ASSUME ~(filled /\ seen.lifecycle = "BUY_PENDING" /\ q = seen.expected),
              ~(filled /\ seen.lifecycle = "SELL_PENDING" /\ q = 0)
       PROVE  told = seen
  BY <1>4, <1>o, <1>11 DEF ReconcileFilled, Pendings
<1> QED
  BY <1>8, <1>9, <1>10, <1>11

-----------------------------------------------------------------------------
(* The timers *)

LEMMA MaxZero ==
  ASSUME NEW a \in Int
  PROVE  Max({0, a}) = IF a > 0 THEN a ELSE 0
BY DEF Max

LEMMA MinPair ==
  ASSUME NEW a \in Int, NEW b \in Int
  PROVE  Min({a, b}) = IF a <= b THEN a ELSE b
BY DEF Min

LEMMA PendingCapTyped == PendingCap \in Nat
<1>1. SellTimeout \in Nat /\ BuyTimeout \in Nat
  BY DurationsAssumption
<1>2. PendingCap \in {SellTimeout, BuyTimeout}
  BY <1>1 DEF PendingCap, Max
<1> QED
  BY <1>1, <1>2

\* Time keeps the order of two ages.
LEMMA OlderKeepsOrder ==
  ASSUME NEW a \in Ages, NEW b \in Ages, NEW cap \in Nat
  PROVE  /\ Older(a, cap) \in Ages
         /\ a <= b => Older(a, cap) <= Older(b, cap)
         /\ a >= 0 => Older(a, cap) >= a
         /\ a = Unset <=> Older(a, cap) = Unset
BY DEF Older, Ages, Unset

\* A longer run of rejections waits longer, and no wait is longer than the decay.
LEMMA WaitsGrow ==
  /\ \A m, n \in Nat : m <= n => Wait(m) <= Wait(n)
  /\ \A n \in Nat : Wait(n) \in Nat /\ Wait(n) <= RejectDecay
<1> DEFINE at(n) == IF n <= MaxRetry - 1 THEN n ELSE MaxRetry - 1
<1>1. MaxRetry \in Nat \ {0} /\ RejectDecay \in Nat
  BY BackoffAssumption
<1>2. \A n \in Nat : at(n) \in 0 .. MaxRetry - 1 /\ Wait(n) = Backoff[at(n)]
  BY <1>1, MinPair DEF Wait
<1>3. \A m, n \in Nat : m <= n => at(m) <= at(n)
  BY <1>1
<1>4. /\ DOMAIN Backoff = 0 .. MaxRetry - 1
      /\ \A i \in 0 .. MaxRetry - 1 : Backoff[i] \in Nat /\ Backoff[i] <= RejectDecay
      /\ \A i, j \in 0 .. MaxRetry - 1 : i <= j => Backoff[i] <= Backoff[j]
  BY BackoffAssumption
<1> HIDE DEF at
<1> QED
  BY <1>2, <1>3, <1>4

LEMMA GateFields ==
  ASSUME NEW g \in Gates
  PROVE  /\ g.rejects \in Nat /\ g.rejectFor \in Ages /\ g.forcedFor \in Ages
         /\ g.blockedFor \in Ages /\ g.pendingFor \in Ages /\ g.partial \in BOOLEAN
BY DEF Gates

LEMMA TruthFields ==
  ASSUME NEW t \in Truths
  PROVE  /\ t.rejections \in 0 .. MaxRetry /\ t.rejectedFor \in Ages /\ t.forcedFor \in Ages
         /\ t.hardFor \in Ages /\ t.requestedFor \in Ages
BY DEF Truths

\* The age at which a block is seen again
Continued(age) == IF age > 0 THEN age ELSE 0

\* Every operator on the timers changes the fields it names.
LEMMA TrackedIs ==
  ASSUME NEW g \in Gates, NEW s
  PROVE  LET n == Tracked(s, g) IN
         /\ n \in Gates
         /\ n.blockedFor = IF HardBlock(s) THEN Continued(g.blockedFor) ELSE Unset
         /\ n.rejects = g.rejects /\ n.rejectFor = g.rejectFor /\ n.forcedFor = g.forcedFor
         /\ n.pendingFor = g.pendingFor /\ n.partial = g.partial
<1> DEFINE age == IF HardBlock(s) THEN Max({0, g.blockedFor}) ELSE Unset
<1>1. age \in Ages /\ age = IF HardBlock(s) THEN Continued(g.blockedFor) ELSE Unset
  BY MaxZero, GateFields DEF Ages, Unset, Continued
<1>2. Tracked(s, g) = [g EXCEPT !.blockedFor = age]
  BY DEF Tracked
<1> HIDE DEF age
<1> QED
  BY <1>1, <1>2 DEF Gates

LEMMA SeenBlockedIs ==
  ASSUME NEW t \in Truths, NEW s
  PROVE  LET n == SeenBlocked(s, t) IN
         /\ n \in Truths
         /\ n.hardFor = IF HardBlock(s) THEN Continued(t.hardFor) ELSE Unset
         /\ n.rejections = t.rejections /\ n.rejectedFor = t.rejectedFor
         /\ n.forcedFor = t.forcedFor /\ n.requestedFor = t.requestedFor
<1> DEFINE age == IF HardBlock(s) THEN Max({0, t.hardFor}) ELSE Unset
<1>1. age \in Ages /\ age = IF HardBlock(s) THEN Continued(t.hardFor) ELSE Unset
  BY MaxZero, TruthFields DEF Ages, Unset, Continued
<1>2. SeenBlocked(s, t) = [t EXCEPT !.hardFor = age]
  BY DEF SeenBlocked
<1> HIDE DEF age
<1> QED
  BY <1>1, <1>2 DEF Truths

LEMMA ContinuedKeepsOrder ==
  ASSUME NEW a \in Ages, NEW b \in Ages
  PROVE  /\ Continued(a) \in Ages /\ Continued(a) >= 0
         /\ a <= b => Continued(a) <= Continued(b)
         /\ \A d \in Nat \ {0} : Continued(a) >= d => a >= d
         /\ Continued(Continued(a)) = Continued(a)
BY DEF Continued, Ages, Unset

LEMMA ProgressedIs ==
  ASSUME NEW g \in Gates, NEW s
  PROVE  LET n == Progressed(s, g) IN
         /\ n \in Gates
         /\ n.pendingFor \in {0, g.pendingFor}
         /\ n.rejects = g.rejects /\ n.rejectFor = g.rejectFor
         /\ n.forcedFor = g.forcedFor /\ n.blockedFor = g.blockedFor
<1>1. 0 \in Ages
  BY DEF Ages
<1> QED
  BY <1>1 DEF Progressed, Gates

\* What a poll makes of the timers g when it has made n of s: resets says that the
\* position was turned over.
LEMMA EndedIs ==
  ASSUME NEW g \in Gates, NEW s, NEW n
  PROVE  /\ LET r == Ended(s, n, Reset(g)) IN
            r \in Gates /\ r.rejects = 0 /\ r.rejectFor = Unset /\ r.forcedFor = Unset /\ r.blockedFor = Unset
            /\ (n.lifecycle \in Pendings => r.pendingFor = g.pendingFor)
         /\ LET r == Ended(s, n, g) IN
            r \in Gates /\ r.rejects = g.rejects /\ r.rejectFor = g.rejectFor /\ r.forcedFor = g.forcedFor
            /\ r.blockedFor = g.blockedFor /\ (n.lifecycle \in Pendings => r.pendingFor = g.pendingFor)
<1>1. Unset \in Ages /\ 0 \in Nat
  BY DEF Ages
<1>2. /\ Reset(g) \in Gates /\ Reset(g).rejects = 0 /\ Reset(g).rejectFor = Unset
      /\ Reset(g).forcedFor = Unset /\ Reset(g).blockedFor = Unset /\ Reset(g).pendingFor = g.pendingFor
  BY <1>1 DEF Reset, Gates
<1>3. ASSUME NEW h \in Gates
      PROVE  LET r == Ended(s, n, h) IN
             /\ r \in Gates /\ r.rejects = h.rejects /\ r.rejectFor = h.rejectFor /\ r.forcedFor = h.forcedFor
             /\ r.blockedFor = h.blockedFor /\ (n.lifecycle \in Pendings => r.pendingFor = h.pendingFor)
  <2>1. CASE s.lifecycle \in Pendings /\ n.lifecycle \in {"OPEN", "FLAT"}
    BY <1>1, <2>1 DEF Ended, Gates, Pendings
  <2>2. CASE ~(s.lifecycle \in Pendings /\ n.lifecycle \in {"OPEN", "FLAT"})
    BY <2>2 DEF Ended
  <2> QED
    BY <2>1, <2>2
<1> QED
  BY <1>2, <1>3

LEMMA TimersOfOrders ==
  ASSUME NEW g \in Gates
  PROVE  /\ LET n == FreshTimer(g) IN
            /\ n \in Gates /\ n.pendingFor = 0 /\ n.blockedFor = g.blockedFor
            /\ n.rejects = g.rejects /\ n.rejectFor = g.rejectFor /\ n.forcedFor = g.forcedFor
         /\ LET n == Forced(g) IN
            /\ n \in Gates /\ n.forcedFor = 0 /\ n.pendingFor = g.pendingFor /\ n.blockedFor = g.blockedFor
            /\ n.rejects = g.rejects /\ n.rejectFor = g.rejectFor
         /\ LET n == Decayed(g) IN
            /\ n \in Gates /\ n.forcedFor = g.forcedFor /\ n.pendingFor = g.pendingFor
            /\ n.blockedFor = g.blockedFor
            /\ g.rejectFor < RejectDecay => n = g
<1>1. 0 \in Ages /\ Unset \in Ages
  BY DEF Ages
<1>2. RejectDecay \in Nat /\ g.rejects \in Nat /\ g.rejectFor \in Int
  BY BackoffAssumption, GateFields DEF Ages, Unset
<1>3. g.rejectFor < RejectDecay => Decayed(g) = g
  BY <1>2 DEF Decayed
<1>4. CASE g.rejects > 0 /\ g.rejectFor >= RejectDecay
  <2> DEFINE age == IF g.rejects = 1 THEN Unset ELSE 0
  <2>1. age \in Ages /\ g.rejects - 1 \in Nat
    BY <1>1, <1>2, <1>4
  <2>2. Decayed(g) = [g EXCEPT !.rejects = g.rejects - 1, !.rejectFor = age]
    BY <1>4 DEF Decayed
  <2> HIDE DEF age
  <2>3. /\ Decayed(g) \in Gates /\ Decayed(g).forcedFor = g.forcedFor
        /\ Decayed(g).pendingFor = g.pendingFor /\ Decayed(g).blockedFor = g.blockedFor
    BY <2>1, <2>2 DEF Gates
  <2> QED
    BY <1>1, <1>3, <2>3 DEF FreshTimer, Forced, Gates
<1>5. CASE ~(g.rejects > 0 /\ g.rejectFor >= RejectDecay)
  <2>1. Decayed(g) = g
    BY <1>5 DEF Decayed
  <2> QED
    BY <1>1, <2>1 DEF FreshTimer, Forced, Gates
<1> QED
  BY <1>4, <1>5

-----------------------------------------------------------------------------
(* The steps *)

\* A person changes only a symbol without a live order, and lifts its block.
LEMMA CommandedIs ==
  ASSUME TypeOK, MachineIsSound, NEW s \in Commanded
  PROVE  /\ Pollable(s, holding)
         /\ s = st \/ (order = NoneAlive /\ ~HardBlock(s))
<1>1. st \in SymbolState /\ WellFormed(st) /\ holding \in Nat
  BY DEF TypeOK, MachineIsSound
<1>2. CASE s = st
  BY <1>1, <1>2 DEF Pollable, MachineIsSound, Buys
<1>3. CASE order = NoneAlive /\ s = ClearOrphan(st) /\ HasOrphan(st)
  <2>1. /\ s \in SymbolState /\ ~HasOrphan(s) /\ s.lifecycle = st.lifecycle /\ s.pending = st.pending
    BY <1>1, <1>3, Cleared
  <2>2. s.lifecycle \notin Pendings \cup {"ERROR"}
    BY <1>1, <1>3, <2>1 DEF WellFormed
  <2> QED
    BY <1>3, <2>1, <2>2 DEF Pollable, WellFormed, HardBlock, Pendings
<1>4. CASE order = NoneAlive /\ s = AcknowledgeError(st, holding) /\ st.lifecycle = "ERROR"
  <2>1. s = [st EXCEPT !.known = holding, !.lifecycle = Settled(holding), !.pending = NoOrder]
    BY <1>4 DEF AcknowledgeError
  <2>2. s \in SymbolState
    BY <1>1, <2>1, EndUpdates, Ids, LifecycleNames, SettledIs
  <2>3. s.lifecycle = Settled(holding) /\ s.orphan = st.orphan
    BY <1>1, <2>1 DEF SymbolState
  <2>4. s.lifecycle \in {"OPEN", "FLAT"} /\ ~HasOrphan(s)
    BY <1>1, <1>4, <2>3, SettledIs DEF WellFormed, HasOrphan
  <2> QED
    BY <1>4, <2>2, <2>4 DEF Pollable, WellFormed, HardBlock, Pendings
<1> QED
  BY <1>2, <1>3, <1>4 DEF Commanded

\* The types of what most steps work on
LEMMA StateTypes ==
  ASSUME TypeOK
  PROVE  /\ st \in SymbolState /\ gate \in Gates /\ truth \in Truths /\ soldQty \in Nat /\ holding \in Nat
         /\ order.side \in {"none", "BUY", "SELL"} /\ order.left \in Nat
         /\ \A a \in Ages : a \in Int /\ a >= Unset
         /\ Unset \in Ages /\ 0 \in Ages
BY DEF TypeOK, Ages, Unset

\* No order is alive for a symbol that is free.
LEMMA FreeHasNoOrder ==
  ASSUME TypeOK, MachineIsSound, OrderIsTracked, ~HardBlock(st)
  PROVE  order = NoneAlive
<1>1. ~Buys(st) /\ ~Sells(st) /\ st.lifecycle # "ERROR"
  BY DEF HardBlock, Buys, Sells, Pendings
<1>2. order.side = "none" /\ order.left = 0
  BY <1>1 DEF OrderIsTracked, TypeOK
<1>3. order \in [side : {"none", "BUY", "SELL"}, left : Nat]
  BY DEF TypeOK
<1> QED
  BY <1>2, <1>3 DEF NoneAlive

LEMMA TickKeeps ==
  ASSUME GateInv, Tick
  PROVE  GateInv'
<1> USE DEF GateInv
<1>1. /\ UNCHANGED <<st, soldQty, justSold, order, holding, stage>> /\ verdict' = "none" /\ stage = "idle"
      /\ gate' = [gate EXCEPT !.rejectFor  = Older(gate.rejectFor, RejectDecay),
                              !.forcedFor  = Older(gate.forcedFor, ForcedInterval),
                              !.blockedFor = Older(gate.blockedFor, MaxBlock),
                              !.pendingFor = Older(gate.pendingFor, PendingCap)]
      /\ truth' = [truth EXCEPT !.rejectedFor  = Older(truth.rejectedFor, RejectDecay),
                                !.forcedFor    = Older(truth.forcedFor, ForcedInterval),
                                !.hardFor      = Older(truth.hardFor, MaxBlock),
                                !.requestedFor = Older(truth.requestedFor, PendingCap)]
  BY DEF Tick
<1>2. /\ RejectDecay \in Nat /\ ForcedInterval \in Nat /\ MaxBlock \in Nat /\ PendingCap \in Nat
  BY BackoffAssumption, DurationsAssumption, PendingCapTyped
<1>3. /\ Older(gate.rejectFor, RejectDecay) \in Ages /\ Older(gate.forcedFor, ForcedInterval) \in Ages
      /\ Older(gate.blockedFor, MaxBlock) \in Ages /\ Older(gate.pendingFor, PendingCap) \in Ages
      /\ Older(truth.rejectedFor, RejectDecay) \in Ages /\ Older(truth.forcedFor, ForcedInterval) \in Ages
      /\ Older(truth.hardFor, MaxBlock) \in Ages /\ Older(truth.requestedFor, PendingCap) \in Ages
  BY <1>2, StateTypes, GateFields, TruthFields, OlderKeepsOrder
<1>4. /\ gate' \in Gates /\ gate'.rejects = gate.rejects
      /\ gate'.rejectFor = Older(gate.rejectFor, RejectDecay)
      /\ gate'.forcedFor = Older(gate.forcedFor, ForcedInterval)
      /\ gate'.blockedFor = Older(gate.blockedFor, MaxBlock)
      /\ gate'.pendingFor = Older(gate.pendingFor, PendingCap)
  BY <1>1, <1>3, StateTypes DEF Gates
<1>5. /\ truth' \in Truths /\ truth'.rejections = truth.rejections
      /\ truth'.rejectedFor = Older(truth.rejectedFor, RejectDecay)
      /\ truth'.forcedFor = Older(truth.forcedFor, ForcedInterval)
      /\ truth'.hardFor = Older(truth.hardFor, MaxBlock)
      /\ truth'.requestedFor = Older(truth.requestedFor, PendingCap)
  BY <1>1, <1>3, StateTypes DEF Truths
<1>6. TypeOK'
  BY <1>1, <1>4, <1>5 DEF TypeOK, Verdicts
<1>7. MachineIsSound' /\ OrderIsTracked' /\ KnownIsHolding'
  BY <1>1 DEF MachineIsSound, OrderIsTracked, KnownIsHolding, Buys, Sells
<1>8. NothingSold => NothingSold'
  BY <1>1, <1>5 DEF NothingSold, Older
<1>9. HistoryOfPosition'
  BY <1>1, <1>8 DEF HistoryOfPosition
<1>t. /\ gate.pendingFor \in Ages /\ truth.requestedFor \in Ages
      /\ gate.blockedFor \in Ages /\ truth.hardFor \in Ages /\ truth.rejectedFor \in Ages
  BY StateTypes, GateFields, TruthFields
<1>10. PendingClock'
  <2>1. /\ truth.requestedFor >= 0 => Older(truth.requestedFor, PendingCap) >= truth.requestedFor
        /\ gate.pendingFor <= truth.requestedFor
             => Older(gate.pendingFor, PendingCap) <= Older(truth.requestedFor, PendingCap)
    BY <1>2, <1>t, OlderKeepsOrder
  <2>2. truth.requestedFor \in Int /\ truth'.requestedFor \in Int
    BY <1>t, <1>3, <1>5, StateTypes
  <2> QED
    BY <1>1, <1>4, <1>5, <2>1, <2>2 DEF PendingClock, Clocks
<1>11. BlockClock'
  <2>1. gate.blockedFor <= truth.hardFor
          => Older(gate.blockedFor, MaxBlock) <= Older(truth.hardFor, MaxBlock)
    BY <1>2, <1>t, OlderKeepsOrder
  <2>2. Renewed => Renewed'
    BY <1>1 DEF Renewed, Seen
  <2> QED
    BY <1>4, <1>5, <2>1, <2>2 DEF BlockClock, Clocks
<1>12. ForcedClock'
  <2>1. truth'.forcedFor # Unset => truth.forcedFor # Unset
    BY <1>5 DEF Older
  <2> QED
    BY <1>4, <1>5, <2>1 DEF ForcedClock, Clocks
<1>13. RejectClock'
  <2>1. truth.rejectedFor \in Int /\ truth'.rejectedFor \in Int
    BY <1>3, <1>5, StateTypes, TruthFields
  <2>2. truth.rejectedFor >= 0 => Older(truth.rejectedFor, RejectDecay) >= truth.rejectedFor
    BY <1>2, <1>t, OlderKeepsOrder
  <2> QED
    BY <1>2, <1>4, <1>5, <2>1, <2>2 DEF RejectClock, Clocks
<1> QED
  BY <1>6, <1>7, <1>9, <1>10, <1>11, <1>12, <1>13 DEF Clocks

\* What a request and the answers to it make of a symbol
LEMMA Requested ==
  ASSUME NEW s \in SymbolState, NEW qty \in Nat, s.lifecycle # "ERROR"
  PROVE  /\ LET r == OnSellRequested(s) IN
            /\ r \in SymbolState /\ r.lifecycle = "SELL_PENDING" /\ r.pending = Placeholder
            /\ r.known = s.known /\ r.orphan = s.orphan
         /\ LET r == OnBuyRequested(s, qty) IN
            /\ r \in SymbolState /\ r.lifecycle = "BUY_PENDING" /\ r.pending = Placeholder
            /\ r.known = s.known /\ r.orphan = s.orphan
            /\ r.base = s.known /\ r.expected = s.known + qty
<1>1. s.known \in Nat /\ s.known + qty \in Nat
  BY StateFields
<1>2. OnSellRequested(s) \in SymbolState
  BY <1>1, SellUpdates, Ids, LifecycleNames DEF OnSellRequested
<1>3. OnBuyRequested(s, qty) \in SymbolState
  BY <1>1, SellUpdates, Ids, LifecycleNames DEF OnBuyRequested
<1>4. /\ OnSellRequested(s).lifecycle = "SELL_PENDING" /\ OnSellRequested(s).pending = Placeholder
      /\ OnSellRequested(s).known = s.known /\ OnSellRequested(s).orphan = s.orphan
  BY <1>2 DEF OnSellRequested, SymbolState
<1>5. /\ OnBuyRequested(s, qty).lifecycle = "BUY_PENDING" /\ OnBuyRequested(s, qty).pending = Placeholder
      /\ OnBuyRequested(s, qty).known = s.known /\ OnBuyRequested(s, qty).orphan = s.orphan
      /\ OnBuyRequested(s, qty).base = s.known /\ OnBuyRequested(s, qty).expected = s.known + qty
  BY <1>3 DEF OnBuyRequested, SymbolState
<1> QED
  BY <1>2, <1>3, <1>4, <1>5

LEMMA Answered ==
  ASSUME NEW r \in SymbolState, r.pending = Placeholder
  PROVE  /\ LET a == ConfirmPendingOrderId(r, 1) IN
            /\ a \in SymbolState /\ a.lifecycle = r.lifecycle /\ a.pending # NoOrder /\ a.known = r.known
            /\ a.orphan = r.orphan /\ a.base = r.base /\ a.expected = r.expected
         /\ LET a == OnPlacementAmbiguous(r) IN
            /\ a \in SymbolState /\ a.lifecycle = "ERROR" /\ a.orphan = r.orphan
         /\ LET a == OnSellRejected(r) IN
            /\ a \in SymbolState /\ a.lifecycle = "OPEN" /\ a.known = r.known /\ a.orphan = r.orphan
         /\ LET a == OnBuyRejected(r) IN
            /\ a \in SymbolState /\ a.lifecycle = Settled(r.known) /\ a.lifecycle \in {"OPEN", "FLAT"}
            /\ a.known = r.known /\ a.orphan = r.orphan
<1>1. r.known \in Nat /\ Settled(r.known) \in {"OPEN", "FLAT"} /\ Settled(r.known) \in Lifecycles
  BY StateFields, SettledIs, LifecycleNames
<1>2. ConfirmPendingOrderId(r, 1) = [r EXCEPT !.pending = 1] /\ 1 # NoOrder
  BY DEF ConfirmPendingOrderId, Placeholder, NoOrder
<1>3. /\ [r EXCEPT !.pending = 1] \in SymbolState /\ OnPlacementAmbiguous(r) \in SymbolState
      /\ OnSellRejected(r) \in SymbolState
  BY AnswerUpdates, Ids, LifecycleNames DEF OnPlacementAmbiguous, OnSellRejected
<1>4. OnBuyRejected(r) \in SymbolState
  BY <1>1, AnswerUpdates, Ids DEF OnBuyRejected
<1>5. /\ [r EXCEPT !.pending = 1].lifecycle = r.lifecycle /\ [r EXCEPT !.pending = 1].pending = 1
      /\ [r EXCEPT !.pending = 1].known = r.known /\ [r EXCEPT !.pending = 1].orphan = r.orphan
      /\ [r EXCEPT !.pending = 1].base = r.base /\ [r EXCEPT !.pending = 1].expected = r.expected
  BY DEF SymbolState
<1>6. OnPlacementAmbiguous(r).lifecycle = "ERROR" /\ OnPlacementAmbiguous(r).orphan = r.orphan
  BY DEF OnPlacementAmbiguous, SymbolState
<1>7. /\ OnSellRejected(r).lifecycle = "OPEN" /\ OnSellRejected(r).known = r.known
      /\ OnSellRejected(r).orphan = r.orphan
  BY DEF OnSellRejected, SymbolState
<1>8. /\ OnBuyRejected(r).lifecycle = Settled(r.known) /\ OnBuyRejected(r).known = r.known
      /\ OnBuyRejected(r).orphan = r.orphan
  BY DEF OnBuyRejected, SymbolState
<1> QED
  BY <1>1, <1>2, <1>3, <1>4, <1>5, <1>6, <1>7, <1>8

\* A SELL that the gate lets through, with the timers g and the history t
LEMMA SendSellKeeps ==
  ASSUME GateInv, NEW g \in Gates, NEW t \in Truths, SendSell(g, t),
         ~HardBlock(st), Seen, stage # "idle",
         holding' = holding, stage' \in {"loop", "idle"}, justSold' \in BOOLEAN, verdict' \in Verdicts,
         g.blockedFor = Unset,
         t.forcedFor # Unset => g.forcedFor = t.forcedFor,
         t.rejections > 0 => t.rejectedFor >= 0,
         t.rejections > 0 /\ t.rejectedFor < RejectDecay =>
           g.rejects >= t.rejections /\ g.rejectFor = t.rejectedFor
  PROVE  GateInv'
<1> DEFINE req == OnSellRequested(st)
           f   == FreshTimer(g)
<1>1. /\ st \in SymbolState /\ ~HasOrphan(st) /\ st.lifecycle \notin Pendings \cup {"ERROR"}
      /\ st.known = holding /\ holding \in Nat /\ holding > 0 /\ order = NoneAlive /\ soldQty \in Nat
  <2>1. st.known = holding /\ st.known > 0
    BY DEF GateInv, KnownIsHolding, Seen
  <2> QED
    BY <2>1, FreeHasNoOrder, StateTypes DEF GateInv, HardBlock
<1>2. /\ req \in SymbolState /\ req.lifecycle = "SELL_PENDING" /\ req.pending = Placeholder
      /\ req.known = st.known /\ req.orphan = st.orphan
  <2>1. st.lifecycle # "ERROR" /\ 0 \in Nat
    BY <1>1
  <2> QED
    BY <1>1, <2>1, Requested
<1>3. /\ f \in Gates /\ f.pendingFor = 0 /\ f.blockedFor = Unset
      /\ f.rejects = g.rejects /\ f.rejectFor = g.rejectFor /\ f.forcedFor = g.forcedFor
  BY TimersOfOrders
<1>4. /\ t.rejections \in 0 .. MaxRetry /\ t.rejectedFor \in Int /\ t.forcedFor \in Ages /\ t.hardFor \in Ages
      /\ t.requestedFor \in Ages /\ g.rejects \in Nat /\ 0 \in Ages /\ MaxRetry \in Nat \ {0}
      /\ RejectDecay \in Nat /\ t.hardFor >= Unset
  <2>1. TypeOK
    BY DEF GateInv
  <2>2. (\A a \in Ages : a \in Int /\ a >= Unset) /\ 0 \in Ages
    BY <2>1, StateTypes
  <2> QED
    BY <2>2, TruthFields, GateFields, BackoffAssumption
<1>5. HistoryOfPosition' <=> (st'.lifecycle = "BUY_PENDING" /\ st'.base = 0 => NothingSold')
  BY <1>1 DEF HistoryOfPosition
<1>6. CASE Placed("SELL", st.known, req) /\ gate' = f /\ truth' = [t EXCEPT !.requestedFor = 0]
  <2>1. PICK accepted \in BOOLEAN, arrived \in BOOLEAN :
          /\ accepted => arrived
          /\ st' = IF accepted THEN ConfirmPendingOrderId(req, 1) ELSE OnPlacementAmbiguous(req)
          /\ order' = IF arrived THEN [side |-> "SELL", left |-> st.known] ELSE NoneAlive
          /\ soldQty' = IF accepted THEN st.known ELSE soldQty
    BY <1>6 DEF Placed
  <2>2. /\ st' \in SymbolState /\ ~HasOrphan(st')
        /\ \/ st'.lifecycle = "SELL_PENDING" /\ st'.pending # NoOrder
           \/ st'.lifecycle = "ERROR"
    BY <1>1, <1>2, <2>1, Answered DEF HasOrphan
  <2>3. HardBlock(st') /\ ~Buys(st') /\ (st'.lifecycle = "ERROR" \/ Sells(st'))
    BY <2>2 DEF HardBlock, Buys, Sells, Pendings
  <2>4. /\ truth' \in Truths /\ truth'.rejections = t.rejections /\ truth'.rejectedFor = t.rejectedFor
        /\ truth'.forcedFor = t.forcedFor /\ truth'.hardFor = t.hardFor /\ truth'.requestedFor = 0
    BY <1>4, <1>6 DEF Truths
  <2>5. TypeOK'
    BY <1>1, <1>3, <1>6, <2>1, <2>2, <2>4 DEF TypeOK, NoneAlive
  <2>6. MachineIsSound'
    BY <2>2, <2>3 DEF MachineIsSound, WellFormed, Pendings
  <2>7. OrderIsTracked'
    BY <1>1, <2>1, <2>3 DEF OrderIsTracked, NoneAlive
  <2>8. KnownIsHolding' /\ HistoryOfPosition'
    BY <1>5, <2>2, <2>3 DEF KnownIsHolding
  <2>9. Clocks'
    BY <1>3, <1>4, <1>6, <2>4 DEF Clocks, PendingClock, BlockClock, ForcedClock, RejectClock, Unset
  <2> QED
    BY <2>5, <2>6, <2>7, <2>8, <2>9 DEF GateInv
<1>7. CASE SellRejected(g, t)
  <2> DEFINE run == IF t.rejectedFor < RejectDecay THEN Min({MaxRetry, t.rejections + 1}) ELSE 1
  <2>1. /\ st' = OnSellRejected(req) /\ UNCHANGED <<order, soldQty>>
        /\ gate' = [f EXCEPT !.rejects = g.rejects + 1, !.rejectFor = 0]
        /\ truth' = [t EXCEPT !.rejectedFor = 0, !.rejections = run]
    BY <1>3, <1>7 DEF SellRejected
  <2>2. /\ run \in 0 .. MaxRetry
        /\ t.rejectedFor < RejectDecay => run <= t.rejections + 1
        /\ run <= g.rejects + 1
    <3>1. Min({MaxRetry, t.rejections + 1}) = IF MaxRetry <= t.rejections + 1 THEN MaxRetry ELSE t.rejections + 1
      BY <1>4, MinPair
    <3>2. t.rejectedFor < RejectDecay => run <= t.rejections + 1 /\ run \in 0 .. MaxRetry
      BY <1>4, <3>1
    <3>3. ~(t.rejectedFor < RejectDecay) => run = 1
      OBVIOUS
    <3> HIDE DEF run
    <3> QED
      BY <1>4, <3>2, <3>3
  <2> HIDE DEF run, f
  <2>3. /\ st' \in SymbolState /\ ~HasOrphan(st') /\ st'.lifecycle = "OPEN" /\ st'.known = holding
    BY <1>1, <1>2, <2>1, Answered DEF HasOrphan
  <2>4. ~HardBlock(st') /\ ~Buys(st')
    BY <2>3 DEF HardBlock, Buys, Pendings
  <2>5. /\ gate' \in Gates /\ gate'.rejects = g.rejects + 1 /\ gate'.rejectFor = 0
        /\ gate'.forcedFor = g.forcedFor /\ gate'.blockedFor = Unset
    <3>1. g.rejects + 1 \in Nat
      BY <1>4
    <3> QED
      BY <1>3, <1>4, <2>1, <3>1 DEF Gates
  <2>6. /\ truth' \in Truths /\ truth'.rejections = run /\ truth'.rejectedFor = 0
        /\ truth'.forcedFor = t.forcedFor /\ truth'.hardFor = t.hardFor
    BY <1>4, <2>1, <2>2 DEF Truths
  <2>7. TypeOK'
    BY <1>1, <2>1, <2>3, <2>5, <2>6 DEF TypeOK, NoneAlive
  <2>8. MachineIsSound'
    BY <2>3, <2>4 DEF MachineIsSound, WellFormed, Pendings
  <2>9. OrderIsTracked'
    BY <1>1, <2>1 DEF OrderIsTracked, NoneAlive
  <2>10. KnownIsHolding' /\ HistoryOfPosition'
    BY <1>1, <1>5, <2>3 DEF KnownIsHolding
  <2>11. Clocks'
    BY <1>4, <2>2, <2>3, <2>5, <2>6
    DEF Clocks, PendingClock, BlockClock, ForcedClock, RejectClock, Pendings
  <2> QED
    BY <2>7, <2>8, <2>9, <2>10, <2>11 DEF GateInv
<1> QED
  BY <1>6, <1>7 DEF SendSell

\* decide_sell and the order it allows keep the invariant.
LEMMA TrySellKeeps ==
  ASSUME GateInv, NEW forced \in BOOLEAN, TrySell(forced), Seen, stage # "idle",
         holding' = holding, stage' \in {"loop", "idle"}, justSold' \in BOOLEAN
  PROVE  GateInv'
<1>1. /\ st \in SymbolState /\ gate \in Gates /\ truth \in Truths /\ TypeOK
      /\ gate.blockedFor \in Ages /\ truth.hardFor \in Ages
  BY StateTypes, GateFields, TruthFields DEF GateInv
<1>2. PICK g \in Gates : g = Tracked(st, gate)
  BY <1>1, TrackedIs
<1>3. PICK t \in Truths : t = SeenBlocked(st, truth)
  BY <1>1, SeenBlockedIs
<1>4. PICK decayed \in Gates : decayed = Decayed(g)
  BY TimersOfOrders
<1>5. /\ g.blockedFor = IF HardBlock(st) THEN Continued(gate.blockedFor) ELSE Unset
      /\ g.rejects = gate.rejects /\ g.rejectFor = gate.rejectFor /\ g.forcedFor = gate.forcedFor
      /\ g.pendingFor = gate.pendingFor
  BY <1>1, <1>2, TrackedIs
<1>6. /\ t.hardFor = IF HardBlock(st) THEN Continued(truth.hardFor) ELSE Unset
      /\ t.rejections = truth.rejections /\ t.rejectedFor = truth.rejectedFor
      /\ t.forcedFor = truth.forcedFor /\ t.requestedFor = truth.requestedFor
  BY <1>1, <1>3, SeenBlockedIs
<1>7. /\ decayed.forcedFor = g.forcedFor /\ decayed.pendingFor = g.pendingFor
      /\ decayed.blockedFor = g.blockedFor
      /\ g.rejectFor < RejectDecay => decayed = g
  BY <1>4, TimersOfOrders
<1>8. /\ t.rejections > 0 => t.rejectedFor >= 0
      /\ t.rejections > 0 /\ t.rejectedFor < RejectDecay =>
           /\ g.rejects >= t.rejections /\ g.rejectFor = t.rejectedFor
           /\ decayed.rejects >= t.rejections /\ decayed.rejectFor = t.rejectedFor
  BY <1>5, <1>6, <1>7 DEF GateInv, Clocks, RejectClock
<1>9. t.forcedFor # Unset => g.forcedFor = t.forcedFor
  BY <1>5, <1>6 DEF GateInv, Clocks, ForcedClock
<1>10. ASSUME UNCHANGED <<st, order, soldQty>>, gate' \in {g, decayed}, truth' = t, verdict' \in Verdicts,
              HardBlock(st) => gate' = g
       PROVE  GateInv'
  <2>1. TypeOK'
    BY <1>1, <1>10 DEF TypeOK
  <2>2. MachineIsSound' /\ OrderIsTracked' /\ KnownIsHolding'
    BY <1>10 DEF GateInv, MachineIsSound, OrderIsTracked, KnownIsHolding, Buys, Sells
  <2>3. HistoryOfPosition'
    BY <1>6, <1>10 DEF GateInv, HistoryOfPosition, NothingSold
  <2>4. PendingClock' /\ ForcedClock' /\ RejectClock'
    BY <1>5, <1>6, <1>7, <1>8, <1>9, <1>10
    DEF GateInv, Clocks, PendingClock, ForcedClock, RejectClock
  <2>5. BlockClock'
    <3>1. CASE HardBlock(st)
      <4>1. gate.blockedFor <= truth.hardFor
        BY <3>1 DEF GateInv, Clocks, BlockClock, Renewed
      <4>2. Continued(gate.blockedFor) <= Continued(truth.hardFor)
        BY <1>1, <4>1, ContinuedKeepsOrder
      <4> QED
        BY <1>5, <1>6, <1>10, <3>1, <4>2 DEF BlockClock
    <3>2. CASE ~HardBlock(st)
      BY <1>5, <1>6, <1>7, <1>10, <3>2 DEF BlockClock, Unset
    <3> QED
      BY <3>1, <3>2
  <2> QED
    BY <2>1, <2>2, <2>3, <2>4, <2>5 DEF GateInv, Clocks
<1>11. CASE HardBlocks(st, forced)
  BY <1>2, <1>3, <1>10, <1>11 DEF TrySell, Verdicts
<1>12. CASE ~HardBlocks(st, forced) /\ forced /\ verdict' = "THROTTLED" /\ gate' = g /\ truth' = t
            /\ UNCHANGED <<st, order, soldQty>>
  BY <1>10, <1>12 DEF Verdicts
<1>13. CASE ~HardBlocks(st, forced) /\ ~forced /\ verdict' = "BLOCKED" /\ gate' = decayed /\ truth' = t
            /\ UNCHANGED <<st, order, soldQty>>
  BY <1>10, <1>13 DEF Verdicts, HardBlocks
<1>14. CASE ~HardBlocks(st, forced) /\ verdict' = "ALLOW" /\ SendSell(decayed, t)
  <2>1. ~HardBlock(st) /\ verdict' \in Verdicts /\ decayed.blockedFor = Unset
    BY <1>5, <1>7, <1>14 DEF HardBlocks, Verdicts
  <2> QED
    BY <1>7, <1>8, <1>9, <1>14, <2>1, SendSellKeeps
<1>15. CASE ~HardBlocks(st, forced) /\ verdict' = "ALLOW_FORCED"
            /\ SendSell(Forced(g), [t EXCEPT !.forcedFor = 0])
  <2>1. ~HardBlock(st) /\ verdict' \in Verdicts
    BY <1>15 DEF HardBlocks, Verdicts
  <2>2. PICK h \in Gates : h = Forced(g)
    BY TimersOfOrders
  <2>3. /\ h.forcedFor = 0 /\ h.blockedFor = g.blockedFor /\ h.rejects = g.rejects
        /\ h.rejectFor = g.rejectFor
    BY <2>2, TimersOfOrders
  <2>4. PICK u \in Truths : u = [t EXCEPT !.forcedFor = 0]
    BY DEF Truths, Ages
  <2>5. u.forcedFor = 0 /\ u.rejections = t.rejections /\ u.rejectedFor = t.rejectedFor
    BY <2>4 DEF Truths
  <2>6. SendSell(h, u)
    BY <1>15, <2>2, <2>4
  <2> QED
    BY <1>5, <1>8, <2>1, <2>3, <2>5, <2>6, SendSellKeeps
<1> QED
  BY <1>2, <1>3, <1>4, <1>11, <1>12, <1>13, <1>14, <1>15 DEF TrySell

\* A BUY is sent only when the clock of an earlier block has been stopped: of a
\* symbol whose holding is not seen, after the re-entry cooldown.
LEMMA TryBuyKeeps ==
  ASSUME GateInv, TryBuy, ~Seen, stage = "loop", stage' = "idle", justSold' = FALSE, holding' = holding
  PROVE  GateInv'
<1> DEFINE f == FreshTimer(gate)
<1>1. /\ st \in SymbolState /\ gate \in Gates /\ truth \in Truths /\ TypeOK /\ soldQty \in Nat
      /\ ~HardBlock(st) /\ ~HasOrphan(st) /\ st.lifecycle \notin Pendings \cup {"ERROR"}
      /\ st.known = holding /\ holding \in Nat /\ order = NoneAlive
  <2>1. ~HardBlock(st)
    BY DEF TryBuy
  <2> QED
    BY <2>1, FreeHasNoOrder, StateTypes DEF GateInv, HardBlock, KnownIsHolding
<1>2. /\ f \in Gates /\ f.pendingFor = 0 /\ f.blockedFor = gate.blockedFor
      /\ f.rejects = gate.rejects /\ f.rejectFor = gate.rejectFor /\ f.forcedFor = gate.forcedFor
  BY <1>1, TimersOfOrders
<1>3. gate' = f /\ verdict' = "none"
  BY DEF TryBuy
<1>4. gate.blockedFor <= truth.hardFor
  BY DEF GateInv, Clocks, BlockClock, Renewed, TryBuy, MayEnter
<1>5. PICK qty \in 1 .. MaxQty - holding :
        \/ /\ Placed("BUY", qty, OnBuyRequested(st, qty))
           /\ truth' = [truth EXCEPT !.requestedFor = 0]
        \/ /\ st' = OnBuyRejected(OnBuyRequested(st, qty))
           /\ UNCHANGED <<soldQty, order, truth>>
  BY DEF TryBuy
<1>6. qty \in Nat /\ qty > 0
  BY <1>1, QuantitiesAssumption
<1> DEFINE req == OnBuyRequested(st, qty)
<1>7. /\ req \in SymbolState /\ req.lifecycle = "BUY_PENDING" /\ req.pending = Placeholder
      /\ req.known = st.known /\ req.orphan = st.orphan
      /\ req.base = holding /\ req.expected = holding + qty
  <2>1. st.lifecycle # "ERROR"
    BY <1>1
  <2> QED
    BY <1>1, <1>6, <2>1, Requested
<1>8. CASE Placed("BUY", qty, req) /\ truth' = [truth EXCEPT !.requestedFor = 0]
  <2>1. PICK accepted \in BOOLEAN, arrived \in BOOLEAN :
          /\ accepted => arrived
          /\ st' = IF accepted THEN ConfirmPendingOrderId(req, 1) ELSE OnPlacementAmbiguous(req)
          /\ order' = IF arrived THEN [side |-> "BUY", left |-> qty] ELSE NoneAlive
          /\ soldQty' = IF accepted THEN 0 ELSE soldQty
    BY <1>8 DEF Placed
  <2>2. /\ st' \in SymbolState /\ ~HasOrphan(st')
        /\ \/ /\ accepted /\ st'.lifecycle = "BUY_PENDING" /\ st'.pending # NoOrder
              /\ st'.base = holding /\ st'.expected = holding + qty
           \/ ~accepted /\ st'.lifecycle = "ERROR"
    BY <1>1, <1>7, <2>1, Answered DEF HasOrphan
  <2>3. /\ HardBlock(st') /\ (st'.lifecycle = "ERROR" \/ Buys(st'))
        /\ Buys(st') => accepted
    BY <2>2 DEF HardBlock, Buys, Pendings
  <2>4. /\ truth' \in Truths /\ truth'.rejections = truth.rejections
        /\ truth'.rejectedFor = truth.rejectedFor /\ truth'.forcedFor = truth.forcedFor
        /\ truth'.hardFor = truth.hardFor /\ truth'.requestedFor = 0
    <3>1. 0 \in Ages
      BY DEF Ages
    <3> QED
      BY <1>1, <1>8, <3>1 DEF Truths
  <2>5. TypeOK'
    BY <1>1, <1>2, <1>3, <1>6, <2>1, <2>2, <2>4 DEF TypeOK, NoneAlive, Verdicts
  <2>6. MachineIsSound'
    BY <1>1, <1>6, <2>1, <2>2, <2>3 DEF MachineIsSound, WellFormed, Pendings
  <2>7. OrderIsTracked'
    BY <1>6, <2>1, <2>2, <2>3 DEF OrderIsTracked, NoneAlive
  <2>8. KnownIsHolding'
    BY <2>3 DEF KnownIsHolding
  <2>9. HistoryOfPosition'
    BY <2>2, <2>4 DEF GateInv, HistoryOfPosition, NothingSold
  <2>10. Clocks'
    BY <1>2, <1>3, <1>4, <2>4 DEF GateInv, Clocks, PendingClock, BlockClock, ForcedClock, RejectClock
  <2> QED
    BY <2>5, <2>6, <2>7, <2>8, <2>9, <2>10 DEF GateInv
<1>9. CASE st' = OnBuyRejected(req) /\ UNCHANGED <<soldQty, order, truth>>
  <2>1. /\ st' \in SymbolState /\ ~HasOrphan(st') /\ st'.lifecycle \in {"OPEN", "FLAT"} /\ st'.known = holding
    BY <1>1, <1>7, <1>9, Answered DEF HasOrphan
  <2>2. ~HardBlock(st') /\ ~Buys(st')
    BY <2>1 DEF HardBlock, Buys, Pendings
  <2>3. TypeOK'
    BY <1>1, <1>2, <1>3, <1>9, <2>1 DEF TypeOK, Verdicts
  <2>4. MachineIsSound'
    BY <2>1, <2>2 DEF MachineIsSound, WellFormed, Pendings
  <2>5. OrderIsTracked'
    BY <1>1, <1>9 DEF OrderIsTracked, NoneAlive
  <2>6. KnownIsHolding' /\ HistoryOfPosition'
    BY <1>9, <2>1 DEF GateInv, KnownIsHolding, HistoryOfPosition, NothingSold
  <2>7. Clocks'
    BY <1>2, <1>3, <1>4, <1>9, <2>1
    DEF GateInv, Clocks, PendingClock, BlockClock, ForcedClock, RejectClock, Pendings
  <2> QED
    BY <2>3, <2>4, <2>5, <2>6, <2>7 DEF GateInv
<1> QED
  BY <1>5, <1>8, <1>9

LEMMA UntouchedKeeps ==
  ASSUME GateInv, Untouched, holding' = holding, verdict' \in Verdicts,
         \/ stage = "exit" /\ stage' = "loop" /\ justSold' = justSold
         \/ stage = "loop" /\ stage' = "idle" /\ justSold' = FALSE
  PROVE  GateInv'
<1>1. UNCHANGED <<st, gate, soldQty, order, truth>>
  BY DEF Untouched
<1>2. TypeOK'
  BY <1>1 DEF GateInv, TypeOK
<1>3. MachineIsSound' /\ OrderIsTracked' /\ KnownIsHolding' /\ HistoryOfPosition'
  BY <1>1
  DEF GateInv, MachineIsSound, OrderIsTracked, KnownIsHolding, HistoryOfPosition, NothingSold, Buys, Sells
<1>4. Clocks'
  BY <1>1 DEF GateInv, Clocks, PendingClock, BlockClock, ForcedClock, RejectClock, Renewed, Seen
<1> QED
  BY <1>2, <1>3, <1>4 DEF GateInv

LEMMA ForcedExitsKeeps == GateInv /\ ForcedExits => GateInv'
<1> SUFFICES ASSUME GateInv, ForcedExits PROVE GateInv'
  OBVIOUS
<1>1. stage = "exit" /\ stage' = "loop" /\ justSold' = justSold /\ holding' = holding /\ justSold \in BOOLEAN
  BY DEF ForcedExits, GateInv, TypeOK
<1>2. CASE Seen /\ TrySell(TRUE)
  BY <1>1, <1>2, TrySellKeeps
<1>3. CASE NoTurn
  BY <1>1, <1>3, UntouchedKeeps DEF NoTurn, Verdicts
<1> QED
  BY <1>2, <1>3 DEF ForcedExits

LEMMA ProcessSymbolKeeps == GateInv /\ ProcessSymbol => GateInv'
<1> SUFFICES ASSUME GateInv, ProcessSymbol PROVE GateInv'
  OBVIOUS
<1>1. stage = "loop" /\ stage' = "idle" /\ justSold' = FALSE /\ holding' = holding
  BY DEF ProcessSymbol
<1>2. CASE Seen /\ \E forced \in BOOLEAN : TrySell(forced)
  BY <1>1, <1>2, TrySellKeeps
<1>3. CASE Untouched /\ verdict' \in {"hold", "none"}
  BY <1>1, <1>3, UntouchedKeeps DEF Verdicts
<1>4. CASE ~Seen /\ TryBuy
  BY <1>1, <1>4, TryBuyKeeps
<1> QED
  BY <1>2, <1>3, <1>4 DEF ProcessSymbol, NoTurn

\* What is filled was waited for; a position that ends takes its history with it.
LEMMA FillKeeps == GateInv /\ Fill => GateInv'
<1> SUFFICES ASSUME GateInv, Fill PROVE GateInv'
  OBVIOUS
<1>1. /\ st \in SymbolState /\ gate \in Gates /\ truth \in Truths /\ TypeOK /\ holding \in Nat
      /\ order.left \in Nat /\ order.side \in {"none", "BUY", "SELL"}
      /\ order \in [side : {"none", "BUY", "SELL"}, left : Nat]
      /\ Unset \in Ages
  BY StateTypes DEF GateInv, TypeOK
<1>2. PICK n \in 1 .. order.left :
        /\ order' = IF n = order.left THEN NoneAlive ELSE [order EXCEPT !.left = order.left - n]
        /\ holding' = IF order.side = "BUY" THEN holding + n ELSE holding - n
  BY DEF Fill
<1>3. n \in Nat /\ n > 0 /\ n <= order.left
  BY <1>1
<1>4. /\ stage = "idle" /\ verdict' = "none" /\ UNCHANGED <<st, gate, soldQty, justSold, stage>>
      /\ truth' = IF holding' = 0
                  THEN [truth EXCEPT !.rejections = 0, !.rejectedFor = Unset, !.forcedFor = Unset]
                  ELSE truth
  BY DEF Fill
<1>5. /\ truth' \in Truths /\ truth'.hardFor = truth.hardFor /\ truth'.requestedFor = truth.requestedFor
      /\ holding' = 0 => NothingSold'
      /\ holding' # 0 => truth' = truth
  <2>1. 0 \in 0 .. MaxRetry
    BY BackoffAssumption
  <2> QED
    BY <1>1, <1>4, <2>1 DEF Truths, NothingSold
<1>6. order.side # "none" /\ (order.side = "SELL" => holding = order.left)
      /\ (order.side = "BUY" => st.lifecycle = "ERROR" \/ (Buys(st) /\ holding + order.left = st.expected))
      /\ (order.side = "SELL" => st.lifecycle = "ERROR" \/ Sells(st))
  BY <1>1, <1>3 DEF GateInv, OrderIsTracked
<1>7. /\ holding' \in Nat
      /\ order' = NoneAlive \/ (/\ order'.side = order.side /\ order'.left = order.left - n
                                /\ order'.left \in Nat /\ order'.left > 0
                                /\ order' \in [side : {"none", "BUY", "SELL"}, left : Nat])
  <2>1. order.left - n \in Nat
    BY <1>1, <1>3
  <2>2. holding' \in Nat
    BY <1>1, <1>2, <1>3, <1>6
  <2> QED
    BY <1>1, <1>2, <1>3, <2>1, <2>2
<1>8. TypeOK'
  BY <1>1, <1>4, <1>5, <1>7 DEF TypeOK, NoneAlive, Verdicts
<1>9. MachineIsSound'
  <2>1. ASSUME Buys(st) PROVE holding' <= st.expected
    <3>1. /\ holding <= st.expected /\ st.expected \in Nat /\ st.lifecycle # "ERROR"
      BY <1>1, <2>1, StateFields DEF GateInv, MachineIsSound, WellFormed, Buys
    <3> QED
      BY <1>1, <1>2, <1>3, <1>6, <3>1
  <2> QED
    BY <1>4, <2>1 DEF GateInv, MachineIsSound, Buys
<1>10. OrderIsTracked'
  <2>1. CASE order' = NoneAlive
    BY <2>1 DEF OrderIsTracked, NoneAlive
  <2>2. CASE order' # NoneAlive /\ order.side = "BUY"
    <3>1. holding' + order'.left = holding + order.left /\ order'.left > 0 /\ order'.side = "BUY"
      BY <1>1, <1>2, <1>3, <1>7, <2>2
    <3> QED
      BY <1>4, <1>6, <2>2, <3>1 DEF OrderIsTracked, Buys
  <2>3. CASE order' # NoneAlive /\ order.side = "SELL"
    <3>1. holding' = order'.left /\ order'.left > 0 /\ order'.side = "SELL"
      BY <1>1, <1>2, <1>3, <1>6, <1>7, <2>3
    <3> QED
      BY <1>4, <1>6, <2>3, <3>1 DEF OrderIsTracked, Sells
  <2> QED
    BY <1>1, <1>6, <2>1, <2>2, <2>3
<1>11. KnownIsHolding'
  BY <1>4 DEF KnownIsHolding
<1>12. HistoryOfPosition'
  BY <1>4, <1>5 DEF GateInv, HistoryOfPosition, NothingSold
<1>13. Clocks'
  <2>1. PendingClock' /\ BlockClock'
    BY <1>4, <1>5 DEF GateInv, Clocks, PendingClock, BlockClock, Renewed, Seen
  <2>2. ForcedClock' /\ RejectClock'
    BY <1>4, <1>5 DEF GateInv, Clocks, ForcedClock, RejectClock, NothingSold
  <2> QED
    BY <2>1, <2>2 DEF Clocks
<1> QED
  BY <1>8, <1>9, <1>10, <1>11, <1>12, <1>13 DEF GateInv

LEMMA CancelKeeps == GateInv /\ Cancel => GateInv'
<1> SUFFICES ASSUME GateInv, Cancel PROVE GateInv'
  OBVIOUS
<1>1. order' = NoneAlive /\ verdict' = "none" /\ UNCHANGED <<st, gate, soldQty, justSold, holding, stage, truth>>
  BY DEF Cancel
<1>2. TypeOK'
  BY <1>1 DEF GateInv, TypeOK, NoneAlive, Verdicts
<1>3. MachineIsSound' /\ OrderIsTracked' /\ KnownIsHolding' /\ HistoryOfPosition'
  BY <1>1 DEF GateInv, MachineIsSound, OrderIsTracked, KnownIsHolding, HistoryOfPosition, NothingSold, Buys, NoneAlive
<1>4. Clocks'
  BY <1>1 DEF GateInv, Clocks, PendingClock, BlockClock, ForcedClock, RejectClock, Renewed, Seen
<1> QED
  BY <1>2, <1>3, <1>4 DEF GateInv

\* A poll ends an order at its target, gives it up after its own timeout, or goes on.
LEMMA PollKeeps == GateInv /\ Poll => GateInv'
<1> SUFFICES ASSUME GateInv, Poll PROVE GateInv'
  OBVIOUS
<1>1. PICK s \in Commanded, filled \in BOOLEAN :
        LET watched == Watched(s, gate)
            timed   == Progressed(s, watched)
        IN  /\ verdict' = IF HardBlock(s) /\ Escalated(watched) THEN "RECONCILIATION_REQUIRED" ELSE "none"
            /\ st' = PollSymbol(s, holding, Late(s, timed), filled)
            /\ justSold' = (s.lifecycle # "FLAT" /\ st'.lifecycle = "FLAT")
            /\ gate' = Ended(s, st', IF PositionTurnsOver(s, st') THEN Reset(timed) ELSE timed)
            /\ truth' = [SeenBlocked(st', SeenBlocked(s, truth)) EXCEPT
                          !.requestedFor = IF st'.lifecycle \in Pendings THEN @ ELSE Unset]
  BY DEF Poll
<1>2. /\ UNCHANGED <<order, holding>> /\ soldQty' \in {soldQty, 0} /\ stage' = "exit" /\ stage = "idle"
  BY DEF Poll
<1>3. /\ st \in SymbolState /\ gate \in Gates /\ truth \in Truths /\ TypeOK /\ soldQty \in Nat /\ holding \in Nat
      /\ order.left \in Nat /\ order.side \in {"none", "BUY", "SELL"} /\ Unset \in Ages
      /\ gate.blockedFor \in Ages /\ truth.hardFor \in Ages
      /\ \A a \in Ages : a \in Int /\ a >= Unset
  BY StateTypes, GateFields, TruthFields DEF GateInv
<1>4. /\ Pollable(s, holding)
      /\ s = st \/ (order = NoneAlive /\ ~HardBlock(s))
  BY <1>3, CommandedIs DEF GateInv
<1>5. PICK w \in Gates : w = Watched(s, gate)
  BY <1>3, TrackedIs DEF Watched
<1>6. PICK timed \in Gates : timed = Progressed(s, w)
  BY ProgressedIs
<1>7. /\ w.blockedFor = IF HardBlock(s) THEN Continued(gate.blockedFor) ELSE Unset
      /\ w.rejects = gate.rejects /\ w.rejectFor = gate.rejectFor /\ w.forcedFor = gate.forcedFor
      /\ w.pendingFor = gate.pendingFor
  BY <1>3, <1>5, TrackedIs DEF Watched
<1>8. /\ timed.blockedFor = IF HardBlock(s) THEN Continued(gate.blockedFor) ELSE Unset
      /\ timed.rejects = gate.rejects /\ timed.rejectFor = gate.rejectFor /\ timed.forcedFor = gate.forcedFor
      /\ timed.pendingFor \in {0, gate.pendingFor}
  BY <1>6, <1>7, ProgressedIs
<1>9. PICK late \in BOOLEAN : late = Late(s, timed)
  <2>1. timed.pendingFor \in Int /\ SellTimeout \in Int /\ BuyTimeout \in Int
    BY <1>3, GateFields, DurationsAssumption
  <2>2. Late(s, timed) \in BOOLEAN
    BY <2>1 DEF Late
  <2> QED
    BY <2>2
<1>10. /\ verdict' \in Verdicts
       /\ st' = PollSymbol(s, holding, late, filled)
       /\ justSold' = (s.lifecycle # "FLAT" /\ st'.lifecycle = "FLAT")
       /\ gate' = Ended(s, st', IF PositionTurnsOver(s, st') THEN Reset(timed) ELSE timed)
  BY <1>1, <1>5, <1>6, <1>9 DEF Verdicts
<1>11. PICK n : n = st'
  OBVIOUS
<1>12. Outcome(s, holding, late, n)
  BY <1>3, <1>4, <1>10, <1>11, Polled
<1>13. PICK once \in Truths : once = SeenBlocked(s, truth)
  BY <1>3, SeenBlockedIs
<1>14. PICK twice \in Truths : twice = SeenBlocked(n, once)
  BY SeenBlockedIs
<1>15. /\ truth' \in Truths /\ truth'.rejections = truth.rejections /\ truth'.rejectedFor = truth.rejectedFor
       /\ truth'.forcedFor = truth.forcedFor
       /\ n.lifecycle \in Pendings => truth'.requestedFor = truth.requestedFor
       /\ truth'.hardFor = IF ~HardBlock(n) THEN Unset
                           ELSE IF HardBlock(s) THEN Continued(truth.hardFor) ELSE 0
  <2>1. /\ once.hardFor = IF HardBlock(s) THEN Continued(truth.hardFor) ELSE Unset
        /\ once.rejections = truth.rejections /\ once.rejectedFor = truth.rejectedFor
        /\ once.forcedFor = truth.forcedFor /\ once.requestedFor = truth.requestedFor
    BY <1>3, <1>13, SeenBlockedIs
  <2>2. /\ twice.hardFor = IF HardBlock(n) THEN Continued(once.hardFor) ELSE Unset
        /\ twice.rejections = once.rejections /\ twice.rejectedFor = once.rejectedFor
        /\ twice.forcedFor = once.forcedFor /\ twice.requestedFor = once.requestedFor
    BY <1>14, SeenBlockedIs
  <2>3. Continued(Continued(truth.hardFor)) = Continued(truth.hardFor) /\ Continued(Unset) = 0
    BY <1>3, ContinuedKeepsOrder DEF Continued, Unset
  <2> DEFINE age == IF n.lifecycle \in Pendings THEN twice.requestedFor ELSE Unset
  <2>4. truth' = [twice EXCEPT !.requestedFor = age]
    BY <1>1, <1>11, <1>13, <1>14
  <2>5. age \in Ages
    BY <1>3, TruthFields
  <2>6. age = IF n.lifecycle \in Pendings THEN truth.requestedFor ELSE Unset
    BY <2>1, <2>2
  <2> HIDE DEF age
  <2>7. /\ truth' \in Truths /\ truth'.rejections = twice.rejections /\ truth'.rejectedFor = twice.rejectedFor
        /\ truth'.forcedFor = twice.forcedFor /\ truth'.hardFor = twice.hardFor /\ truth'.requestedFor = age
    BY <2>4, <2>5 DEF Truths
  <2> QED
    BY <2>1, <2>2, <2>3, <2>6, <2>7
<1>16. PICK resets \in BOOLEAN : resets = PositionTurnsOver(s, n)
  BY DEF PositionTurnsOver
<1>17. /\ gate' \in Gates
       /\ gate'.rejects = IF resets THEN 0 ELSE gate.rejects
       /\ gate'.rejectFor = IF resets THEN Unset ELSE gate.rejectFor
       /\ gate'.forcedFor = IF resets THEN Unset ELSE gate.forcedFor
       /\ gate'.blockedFor = IF resets \/ ~HardBlock(s) THEN Unset ELSE Continued(gate.blockedFor)
       /\ n.lifecycle \in Pendings => gate'.pendingFor \in {0, gate.pendingFor}
  <2>1. CASE resets
    <3>1. gate' = Ended(s, n, Reset(timed))
      BY <1>10, <1>11, <1>16, <2>1
    <3> QED
      BY <1>8, <2>1, <3>1, EndedIs
  <2>2. CASE ~resets
    <3>1. gate' = Ended(s, n, timed)
      BY <1>10, <1>11, <1>16, <2>2
    <3> QED
      BY <1>8, <2>2, <3>1, EndedIs
  <2> QED
    BY <2>1, <2>2
\* From here on only n, the outcome of the poll, counts.
<1>18. /\ n \in SymbolState /\ WellFormed(n) /\ n.base = s.base /\ n.expected = s.expected
       /\ \/ Finished(s, holding, n) \/ Anomalous(s, n) \/ StillPending(s, late, n)
          \/ BuyOutlived(s, holding, late, n) \/ SellOutlived(s, holding, late, n)
  BY <1>12 DEF Outcome
<1>19. /\ st.lifecycle \in Lifecycles /\ WellFormed(st) /\ (HasOrphan(st) => st.delta # 0)
       /\ st.delta \in Int /\ st.expected \in Nat /\ n.delta \in Int
       /\ HasOrphan(st) /\ st.delta < 0 => st.lifecycle = "OPEN"
       /\ Buys(st) => st.expected > 0 /\ holding <= st.expected /\ soldQty = 0
       /\ WellFormed(s)
  BY <1>3, <1>4, <1>18, StateFields DEF GateInv, MachineIsSound, Pollable
<1>20. HardBlock(s) => s = st
  BY <1>4
<1>21. Buys(n) => s = st /\ Buys(st)
  BY <1>4, <1>18, <1>19
  DEF Finished, Anomalous, StillPending, BuyOutlived, SellOutlived, Buys, HardBlock, WellFormed, Pendings
<1>22. HasOrphan(n) => BuyOutlived(s, holding, late, n) \/ SellOutlived(s, holding, late, n)
  BY <1>18 DEF Finished, Anomalous, StillPending, HardBlock, WellFormed, Pendings
<1>23. TypeOK'
  BY <1>2, <1>3, <1>10, <1>11, <1>15, <1>17, <1>18 DEF TypeOK
<1>24. MachineIsSound'
  <2>1. HasOrphan(n) => n.delta # 0
    BY <1>19, <1>22 DEF BuyOutlived, SellOutlived
  <2>2. HasOrphan(n) /\ n.delta < 0 => n.lifecycle = "OPEN"
    BY <1>3, <1>19, <1>22, SettledIs DEF BuyOutlived, SellOutlived
  <2>3. Buys(n) => n.expected > 0 /\ holding <= n.expected /\ soldQty' = 0
    BY <1>2, <1>18, <1>19, <1>21
  <2> QED
    BY <1>2, <1>11, <1>18, <2>1, <2>2, <2>3 DEF MachineIsSound, Buys
<1>25. OrderIsTracked'
  <2>1. CASE order.side = "none"
    BY <1>2, <2>1 DEF GateInv, OrderIsTracked
  <2>2. CASE order.side = "BUY"
    <3>1. order.left > 0 /\ s = st /\ (st.lifecycle = "ERROR" \/ (Buys(st) /\ holding + order.left = st.expected))
      BY <1>4, <2>2 DEF GateInv, OrderIsTracked, NoneAlive
    <3>2. ~Reached(s, holding)
      BY <1>3, <1>19, <3>1 DEF Reached, Buys, HardBlock, WellFormed, Pendings
    <3>3. n.lifecycle = "ERROR" \/ (Buys(n) /\ Buys(st))
      BY <1>18, <1>19, <3>1, <3>2
      DEF Finished, Anomalous, StillPending, BuyOutlived, SellOutlived, Buys, WellFormed, Pendings
    <3>4. Buys(st) => st.lifecycle # "ERROR"
      BY <1>19 DEF Buys, WellFormed
    <3> QED
      BY <1>2, <1>11, <1>18, <2>2, <3>1, <3>3, <3>4 DEF OrderIsTracked, Buys
  <2>3. CASE order.side = "SELL"
    <3>1. order.left > 0 /\ s = st /\ (st.lifecycle = "ERROR" \/ Sells(st)) /\ holding = order.left
      BY <1>4, <2>3 DEF GateInv, OrderIsTracked, NoneAlive
    <3>2. ~Reached(s, holding)
      BY <1>3, <1>19, <3>1 DEF Reached, Sells, HardBlock, WellFormed, Pendings
    <3>3. n.lifecycle = "ERROR" \/ Sells(n)
      BY <1>18, <1>19, <3>1, <3>2
      DEF Finished, Anomalous, StillPending, BuyOutlived, SellOutlived, Sells, WellFormed, Pendings
    <3> QED
      BY <1>2, <1>11, <2>3, <3>1, <3>3 DEF OrderIsTracked, Sells
  <2> QED
    BY <1>3, <2>1, <2>2, <2>3
<1>26. HardBlock(n) \/ Finished(s, holding, n)
  BY <1>18 DEF Anomalous, StillPending, BuyOutlived, SellOutlived, HardBlock
<1>27. KnownIsHolding'
  BY <1>2, <1>11, <1>26 DEF KnownIsHolding, Finished
<1>28. n.lifecycle \in Pendings => StillPending(s, late, n) /\ s = st
  <2>1. StillPending(s, late, n) => HardBlock(s)
    BY DEF StillPending, HardBlock
  <2> QED
    BY <1>3, <1>18, <1>20, <2>1, SettledIs
    DEF Finished, Anomalous, BuyOutlived, SellOutlived, HardBlock, Pendings
<1>29. NothingSold' <=> NothingSold
  BY <1>15 DEF NothingSold
<1>30. HistoryOfPosition'
  BY <1>2, <1>11, <1>18, <1>28, <1>29 DEF GateInv, HistoryOfPosition, StillPending, Pendings
\* The timers are reset only when no history of the position is left.
<1>31. resets => NothingSold
  <2>1. n.lifecycle = "FLAT" => holding = 0
    BY <1>3, <1>18, SettledIs DEF Finished, Anomalous, StillPending, BuyOutlived, SellOutlived, Pendings
  <2>2. s.lifecycle \in Pendings => s = st
    BY <1>20 DEF HardBlock
  <2> QED
    BY <1>16, <2>1, <2>2 DEF PositionTurnsOver, GateInv, HistoryOfPosition
<1>32. PendingClock'
  BY <1>11, <1>15, <1>17, <1>28 DEF GateInv, Clocks, PendingClock, StillPending
<1>33. ForcedClock' /\ RejectClock'
  BY <1>15, <1>17, <1>31 DEF GateInv, Clocks, ForcedClock, RejectClock, NothingSold
<1>34. BlockClock'
  <2>1. CASE resets \/ ~HardBlock(s)
    <3>1. truth'.hardFor \in Ages
      BY <1>15, TruthFields
    <3> QED
      BY <1>3, <1>17, <2>1, <3>1 DEF BlockClock
  <2>2. CASE ~resets /\ HardBlock(s)
    <3>1. s = st /\ gate.blockedFor <= truth.hardFor
      BY <1>20, <2>2 DEF GateInv, Clocks, BlockClock, Renewed
    <3>2. CASE HardBlock(n)
      BY <1>3, <1>15, <1>17, <2>2, <3>1, <3>2, ContinuedKeepsOrder DEF BlockClock
    <3>3. CASE ~HardBlock(n)
      <4>1. Finished(s, holding, n)
        BY <1>26, <3>3
      <4>2. CASE holding = 0
        <5>1. n.lifecycle = "FLAT"
          BY <4>1, <4>2, SettledIs DEF Finished
        <5>2. s.lifecycle \notin Pendings
          BY <1>16, <2>2, <5>1 DEF PositionTurnsOver
        <5>3. HasOrphan(st) /\ st.delta < 0
          BY <1>19, <2>2, <3>1, <4>1, <4>2, <5>2 DEF Finished, Reached, Buys, Pendings
        <5> QED
          BY <1>10, <1>11, <1>19, <3>1, <3>3, <5>1, <5>3 DEF BlockClock, Renewed
      <4>3. CASE holding # 0
        <5>1. Buys(st)
          BY <2>2, <3>1, <4>1, <4>3 DEF Finished, Reached, Buys
        <5>2. soldQty' = 0 /\ n.known > 0
          BY <1>2, <1>3, <1>19, <4>1, <4>3, <5>1 DEF Finished
        <5> QED
          BY <1>11, <3>3, <5>2 DEF BlockClock, Renewed, Seen
      <4> QED
        BY <4>2, <4>3
    <3> QED
      BY <3>2, <3>3
  <2> QED
    BY <2>1, <2>2
<1> QED
  BY <1>23, <1>24, <1>25, <1>27, <1>30, <1>32, <1>33, <1>34 DEF GateInv, Clocks

LEMMA InitHolds == Init => GateInv
<1> SUFFICES ASSUME Init PROVE GateInv
  OBVIOUS
<1>1. /\ gate = FreshGate /\ soldQty = 0 /\ justSold = FALSE /\ truth = FreshTruth
      /\ order = NoneAlive /\ holding \in 0 .. MaxQty /\ stage = "idle" /\ verdict = "none"
  BY DEF Init
<1>2. st \in SymbolState /\ ~HasOrphan(st) /\ st.lifecycle \in {"FLAT", "ERROR"}
  <2>1. /\ Blank \in SymbolState /\ ~HasOrphan(Blank) /\ Blank.lifecycle = "FLAT"
    BY Ids, LifecycleNames DEF Blank, SymbolState, HasOrphan
  <2> DEFINE blocked == [Blank EXCEPT !.lifecycle = "ERROR", !.pending = 1]
  <2>2. blocked \in SymbolState
    BY <2>1, AnswerUpdates, Ids, LifecycleNames
  <2>3. blocked.lifecycle = "ERROR" /\ blocked.orphan = Blank.orphan
    BY DEF Blank
  <2> QED
    BY <2>1, <2>2, <2>3 DEF Init, HasOrphan
<1>3. TypeOK
  <2>1. Unset \in Ages /\ 0 \in 0 .. MaxRetry
    BY BackoffAssumption DEF Ages
  <2>2. FreshGate \in Gates /\ FreshTruth \in Truths
    BY <2>1 DEF FreshGate, Gates, FreshTruth, Truths
  <2>3. holding \in Nat
    BY <1>1, QuantitiesAssumption
  <2> QED
    BY <1>1, <1>2, <2>2, <2>3 DEF TypeOK, NoneAlive, Verdicts
<1>4. ~Buys(st)
  BY <1>2 DEF Buys
<1>5. MachineIsSound
  BY <1>2, <1>4 DEF MachineIsSound, WellFormed, Pendings
<1>6. OrderIsTracked /\ KnownIsHolding
  BY <1>1 DEF OrderIsTracked, NoneAlive, KnownIsHolding
<1>7. HistoryOfPosition /\ Clocks
  BY <1>1, <1>2
  DEF HistoryOfPosition, NothingSold, Clocks, PendingClock, BlockClock, ForcedClock, RejectClock,
      FreshTruth, FreshGate, Unset, Pendings
<1> QED
  BY <1>3, <1>5, <1>6, <1>7 DEF GateInv

LEMMA StepKeeps == GateInv /\ [Next]_vars => GateInv'
<1> SUFFICES ASSUME GateInv, [Next]_vars PROVE GateInv'
  OBVIOUS
<1>1. CASE Next
  BY <1>1, TickKeeps, PollKeeps, ForcedExitsKeeps, ProcessSymbolKeeps, FillKeeps, CancelKeeps DEF Next
<1>2. CASE UNCHANGED vars
  <2>1. TypeOK'
    BY <1>2 DEF GateInv, TypeOK, vars
  <2>2. MachineIsSound' /\ OrderIsTracked' /\ KnownIsHolding' /\ HistoryOfPosition'
    BY <1>2
    DEF GateInv, MachineIsSound, OrderIsTracked, KnownIsHolding, HistoryOfPosition, NothingSold, Buys, Sells, vars
  <2>3. Clocks'
    BY <1>2 DEF GateInv, Clocks, PendingClock, BlockClock, ForcedClock, RejectClock, Renewed, Seen, vars
  <2> QED
    BY <2>1, <2>2, <2>3 DEF GateInv
<1> QED
  BY <1>1, <1>2

\* For any waits, timeouts, intervals and quantities, the state keeps its types, every
\* live order is waited for, and every timer agrees with what really happened.
THEOREM GateHolds == Spec => []GateInv
<1>1. Init => GateInv
  BY InitHolds
<1>2. GateInv /\ [Next]_vars => GateInv'
  BY StepKeeps
<1> QED
  BY <1>1, <1>2, PTL DEF Spec

THEOREM TypeCorrect == Spec => []TypeOK
<1>1. GateInv => TypeOK
  BY DEF GateInv
<1> QED
  BY <1>1, GateHolds, PTL

-----------------------------------------------------------------------------
(* What the gate promises *)

\* A poll and a HARD block raise no SELL; only a decision on a free symbol does.
LEMMA WhoSells ==
  ASSUME Next, verdict' \in {"ALLOW", "ALLOW_FORCED"}
  PROVE  /\ ~HardBlock(st)
         /\ verdict' = "ALLOW" => ~SoftBlock(Decayed(Tracked(st, gate)))
         /\ verdict' = "ALLOW_FORCED" =>
              LET age == Tracked(st, gate).forcedFor IN age = Unset \/ age >= ForcedInterval
<1>1. \E forced \in BOOLEAN : TrySell(forced)
  <2>1. ~Tick /\ ~Poll /\ ~Fill /\ ~Cancel
    BY DEF Tick, Poll, Fill, Cancel
  <2>2. ~NoTurn /\ ~TryBuy /\ verdict' # "hold"
    BY DEF NoTurn, TryBuy
  <2>3. ForcedExits => TrySell(TRUE)
    BY <2>2 DEF ForcedExits
  <2>4. ProcessSymbol => TrySell(TRUE) \/ TrySell(FALSE)
    BY <2>2 DEF ProcessSymbol
  <2> QED
    BY <2>1, <2>3, <2>4 DEF Next
<1>2. PICK forced \in BOOLEAN : TrySell(forced)
  BY <1>1
<1> QED
  BY <1>2 DEF TrySell, HardBlocks

\* For any waits, timeouts and quantities: no SELL, forced or not, goes out while an
\* order of the symbol may still fill.
THEOREM NoSellOverALiveOrderHolds == Spec => NoSellOverALiveOrder
<1>1. GateInv /\ [Next]_vars => [verdict' \in {"ALLOW", "ALLOW_FORCED"} => order = NoneAlive]_vars
  <2> SUFFICES ASSUME GateInv, Next, verdict' \in {"ALLOW", "ALLOW_FORCED"} PROVE order = NoneAlive
    OBVIOUS
  <2>1. ~HardBlock(st)
    BY WhoSells
  <2> QED
    BY <2>1, FreeHasNoOrder DEF GateInv
<1> QED
  BY <1>1, GateHolds, PTL DEF Spec, NoSellOverALiveOrder

\* For any list of waits that grows, up to the decay time: a normal SELL waits as long
\* as the rejections of its position demand, and forced SELLs are an interval apart.
THEOREM SellsAreSpacedHolds == Spec => SellsAreSpaced
<1>1. ASSUME GateInv, Next, verdict' = "ALLOW", truth.rejections > 0
      PROVE  truth.rejectedFor >= Wait(truth.rejections)
  <2>1. /\ gate \in Gates /\ truth \in Truths /\ (\A a \in Ages : a \in Int) /\ RejectDecay \in Nat
        /\ MaxRetry \in Nat
    BY <1>1, StateTypes, BackoffAssumption DEF GateInv
  <2>2. truth.rejections \in Nat /\ truth.rejectedFor \in Int
    BY <2>1, TruthFields
  <2>3. CASE truth.rejectedFor >= RejectDecay
    <3>1. Wait(truth.rejections) \in Nat /\ Wait(truth.rejections) <= RejectDecay
      BY <2>2, WaitsGrow
    <3> QED
      BY <2>1, <2>2, <2>3, <3>1
  <2>4. CASE truth.rejectedFor < RejectDecay
    <3>1. gate.rejects >= truth.rejections /\ gate.rejectFor = truth.rejectedFor
      BY <1>1, <2>4 DEF GateInv, Clocks, RejectClock
    <3>2. PICK g \in Gates : g = Tracked(st, gate)
      BY <2>1, TrackedIs
    <3>3. g.rejects = gate.rejects /\ g.rejectFor = gate.rejectFor /\ g.rejects \in Nat
      BY <2>1, <3>2, TrackedIs, GateFields
    <3>4. Decayed(g) = g
      BY <2>4, <3>1, <3>3, TimersOfOrders
    <3>5. ~(Remaining(g) > 0)
      BY <1>1, <3>2, <3>4, WhoSells DEF SoftBlock
    <3>6. Wait(g.rejects) \in Nat /\ Wait(truth.rejections) <= Wait(g.rejects) /\ Wait(truth.rejections) \in Nat
      BY <2>2, <3>1, <3>3, WaitsGrow
    <3>7. Remaining(g) = IF Wait(g.rejects) - g.rejectFor > 0 THEN Wait(g.rejects) - g.rejectFor ELSE 0
      <4>1. Wait(g.rejects) - g.rejectFor \in Int
        BY <2>2, <3>1, <3>3, <3>6
      <4>2. g.rejects # 0
        BY <1>1, <2>2, <3>1, <3>3
      <4> QED
        BY <4>1, <4>2, MaxZero DEF Remaining
    <3> QED
      BY <2>2, <3>1, <3>3, <3>5, <3>6, <3>7
  <2> QED
    BY <2>1, <2>2, <2>3, <2>4
<1>2. ASSUME GateInv, Next, verdict' = "ALLOW_FORCED", truth.forcedFor # Unset
      PROVE  truth.forcedFor >= ForcedInterval
  <2>1. gate \in Gates /\ gate.forcedFor = truth.forcedFor
    BY <1>2, StateTypes DEF GateInv, Clocks, ForcedClock
  <2>2. Tracked(st, gate).forcedFor = gate.forcedFor
    BY <2>1, TrackedIs
  <2> QED
    BY <1>2, <2>1, <2>2, WhoSells
<1>3. GateInv /\ [Next]_vars =>
        [verdict' = "ALLOW" /\ truth.rejections > 0 => truth.rejectedFor >= Wait(truth.rejections)]_vars
  BY <1>1
<1>4. GateInv /\ [Next]_vars =>
        [verdict' = "ALLOW_FORCED" /\ truth.forcedFor # Unset => truth.forcedFor >= ForcedInterval]_vars
  BY <1>2
<1> QED
  BY <1>3, <1>4, GateHolds, PTL DEF Spec, SellsAreSpaced, BackoffHonoured, ForcedSellsAreApart

\* For any timeouts and any MAX_BLOCK_DURATION_SEC: an order is given up only after its
\* own timeout, and what is escalated has lasted that long without a gap.
THEOREM ClocksAreOwnHolds == Spec => ClocksAreOwn
<1>1. ASSUME GateInv, Next, st.lifecycle \in Pendings, HasOrphan(st')
      PROVE  truth.requestedFor >= IF st.lifecycle = "SELL_PENDING" THEN SellTimeout ELSE BuyTimeout
  <2>1. /\ HardBlock(st) /\ ~HasOrphan(st) /\ st.lifecycle # "ERROR" /\ holding \in Nat /\ gate \in Gates
        /\ truth \in Truths /\ (\A a \in Ages : a \in Int) /\ TypeOK /\ MachineIsSound
    BY <1>1, StateTypes DEF GateInv, MachineIsSound, WellFormed, HardBlock, Pendings
  <2>2. st' # st
    BY <1>1, <2>1
  <2>3. Poll
    <3>1. ~Tick /\ ~Fill /\ ~Cancel
      BY <2>2 DEF Tick, Fill, Cancel
    <3>2. ~TryBuy /\ ~NoTurn /\ ~Untouched
      BY <2>1, <2>2 DEF TryBuy, NoTurn, Untouched
    <3>3. \A forced \in BOOLEAN : ~TrySell(forced)
      BY <2>1, <2>2 DEF TrySell, HardBlocks
    <3> QED
      BY <1>1, <3>1, <3>2, <3>3 DEF Next, ForcedExits, ProcessSymbol
  <2>4. PICK s \in Commanded, filled \in BOOLEAN :
          st' = PollSymbol(s, holding, Late(s, Progressed(s, Watched(s, gate))), filled)
    BY <2>3 DEF Poll
  <2>5. s = st
    BY <1>1, <2>1, <2>4 DEF Commanded
  <2>6. Pollable(st, holding)
    BY <2>1, <2>4, <2>5, CommandedIs
  <2>7. PICK w \in Gates : w = Watched(st, gate)
    BY <2>1, TrackedIs DEF Watched
  <2>8. PICK timed \in Gates : timed = Progressed(st, w)
    BY ProgressedIs
  <2>9. timed.pendingFor \in {0, gate.pendingFor}
    BY <2>1, <2>7, <2>8, TrackedIs, ProgressedIs DEF Watched
  <2>10. Outcome(st, holding, Late(st, timed), st')
    <3>1. PICK q \in Nat : q = holding
      BY <2>1
    <3>2. PICK late : late = Late(st, timed)
      OBVIOUS
    <3> QED
      BY <2>4, <2>5, <2>6, <2>7, <2>8, <3>1, <3>2, Polled
  <2>11. Late(st, timed)
    BY <1>1, <2>1, <2>10
    DEF Outcome, Finished, Anomalous, StillPending, BuyOutlived, SellOutlived, WellFormed, HardBlock
  <2>12. gate.pendingFor <= truth.requestedFor
    BY <1>1 DEF GateInv, Clocks, PendingClock
  <2>13. gate.pendingFor \in Int /\ truth.requestedFor \in Int
    BY <2>1, GateFields, TruthFields
  <2> QED
    BY <2>9, <2>11, <2>12, <2>13, DurationsAssumption DEF Late
<1>2. ASSUME GateInv, Next, verdict' = "RECONCILIATION_REQUIRED"
      PROVE  truth.hardFor >= MaxBlock
  <2>1. /\ gate \in Gates /\ truth \in Truths /\ TypeOK /\ MachineIsSound
        /\ gate.blockedFor \in Ages /\ truth.hardFor \in Ages /\ (\A a \in Ages : a \in Int)
        /\ MaxBlock \in Nat \ {0}
    BY <1>2, StateTypes, GateFields, TruthFields, DurationsAssumption DEF GateInv
  <2>2. PICK s : HardBlock(s) /\ Escalated(Tracked(s, gate)) /\ (s \in Commanded \/ s = st)
    <3>1. ~Tick /\ ~Fill /\ ~Cancel
      BY <1>2 DEF Tick, Fill, Cancel
    <3>2. ~TryBuy /\ ~NoTurn /\ verdict' # "hold"
      BY <1>2 DEF TryBuy, NoTurn
    <3>3. Poll => \E s \in Commanded : HardBlock(s) /\ Escalated(Tracked(s, gate))
      BY <1>2 DEF Poll, Watched
    <3>4. \A forced \in BOOLEAN : TrySell(forced) => HardBlock(st) /\ Escalated(Tracked(st, gate))
      BY <1>2 DEF TrySell, HardBlocks
    <3> QED
      BY <1>2, <3>1, <3>2, <3>3, <3>4 DEF Next, ForcedExits, ProcessSymbol
  <2>3. HardBlock(st)
    BY <2>1, <2>2, CommandedIs
  <2>4. Tracked(s, gate).blockedFor = Continued(gate.blockedFor)
    BY <2>1, <2>2, TrackedIs
  <2>5. gate.blockedFor >= MaxBlock
    BY <2>1, <2>2, <2>4, ContinuedKeepsOrder DEF Escalated
  <2>6. gate.blockedFor <= truth.hardFor
    BY <1>2, <2>3 DEF GateInv, Clocks, BlockClock, Renewed
  <2> QED
    BY <2>1, <2>5, <2>6
<1>3. GateInv /\ [Next]_vars =>
        [st.lifecycle \in Pendings /\ HasOrphan(st') =>
           truth.requestedFor >= IF st.lifecycle = "SELL_PENDING" THEN SellTimeout ELSE BuyTimeout]_vars
  BY <1>1
<1>4. GateInv /\ [Next]_vars => [verdict' = "RECONCILIATION_REQUIRED" => truth.hardFor >= MaxBlock]_vars
  BY <1>2
<1> QED
  BY <1>3, <1>4, GateHolds, PTL DEF Spec, ClocksAreOwn, NoEarlyOrphan, AlarmNeedsALongBlock
=============================================================================
