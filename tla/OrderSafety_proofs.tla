------------------------- MODULE OrderSafety_proofs -------------------------
(***************************************************************************)
(* The order path for every number of symbols, positions, orders and          *)
(* crashes: its types; IInv, an inductive invariant as long as operator        *)
(* commands name only symbols that need them; the safety properties that      *)
(* follow from it; the step that implements the abstract order book; and that *)
(* the effects of an order follow its fill.                                  *)
(***************************************************************************)
EXTENDS OrderSafety, FiniteSetTheorems, TLAPS

-----------------------------------------------------------------------------
(* The transitions of a symbol's state, for every state and every observed holding *)

\* The record updates the transitions are made of keep the type.
LEMMA LifecycleUpdates ==
  ASSUME NEW st \in SymbolState, NEW l \in Lifecycles
  PROVE  [st EXCEPT !.lifecycle = l] \in SymbolState
  BY DEF SymbolState

LEMMA KnownUpdates ==
  ASSUME NEW st \in SymbolState, NEW n \in Nat
  PROVE  [st EXCEPT !.known = n] \in SymbolState
  BY DEF SymbolState

LEMMA PendingUpdates ==
  ASSUME NEW st \in SymbolState, NEW i \in OrderIds
  PROVE  [st EXCEPT !.pending = i] \in SymbolState
  BY DEF SymbolState

LEMMA OrphanUpdates ==
  ASSUME NEW st \in SymbolState, NEW i \in OrderIds, NEW d \in Int
  PROVE  [st EXCEPT !.orphan = i, !.delta = d] \in SymbolState
  BY DEF SymbolState

LEMMA ObservationUpdates ==
  ASSUME NEW st \in SymbolState, NEW l \in Lifecycles, NEW n \in Nat
  PROVE  /\ [st EXCEPT !.known = n, !.lifecycle = l] \in SymbolState
         /\ [st EXCEPT !.lifecycle = l, !.known = n] \in SymbolState
  BY DEF SymbolState

LEMMA EndUpdates ==
  ASSUME NEW st \in SymbolState, NEW l \in Lifecycles, NEW n \in Nat, NEW i \in OrderIds
  PROVE  /\ [st EXCEPT !.lifecycle = l, !.known = n, !.pending = i] \in SymbolState
         /\ [st EXCEPT !.known = n, !.lifecycle = l, !.pending = i] \in SymbolState
  BY DEF SymbolState

LEMMA SellUpdates ==
  ASSUME NEW st \in SymbolState, NEW l \in Lifecycles, NEW i \in OrderIds,
         NEW n \in Nat, NEW b \in Nat
  PROVE  /\ [st EXCEPT !.lifecycle = l, !.known = n, !.sellBase = b, !.pending = i]
              \in SymbolState
         /\ [st EXCEPT !.lifecycle = l, !.pending = i, !.sellBase = b] \in SymbolState
         /\ [st EXCEPT !.lifecycle = l, !.pending = i] \in SymbolState
  BY DEF SymbolState

LEMMA BuyUpdates ==
  ASSUME NEW st \in SymbolState, NEW l \in Lifecycles, NEW i \in OrderIds,
         NEW b \in Nat, NEW e \in Nat
  PROVE  [st EXCEPT !.lifecycle = l, !.pending = i, !.base = b, !.expected = e]
           \in SymbolState
  BY DEF SymbolState

\* The fields of a symbol's state are of their types.
LEMMA Fields ==
  ASSUME NEW st \in SymbolState
  PROVE  /\ st.lifecycle \in Lifecycles /\ st.pending \in OrderIds
         /\ st.known \in Nat /\ st.base \in Nat /\ st.expected \in Nat
         /\ st.sellBase \in Nat /\ st.orphan \in OrderIds /\ st.delta \in Int
  BY DEF SymbolState

\* The values that the transitions assign are of the types of their fields.
LEMMA Values ==
  /\ NoOrder \in OrderIds /\ Placeholder \in OrderIds /\ UnknownId \in OrderIds
  /\ 0 \in Nat /\ 0 \in Int
  /\ {"FLAT", "OPEN", "ERROR", "BUY_PENDING", "SELL_PENDING"} = Lifecycles
  /\ \A q : Settled(q) \in Lifecycles
  BY DEF NoOrder, Placeholder, UnknownId, OrderIds, Lifecycles, Pendings, Settled

LEMMA ClearOrphanTyped ==
  ASSUME NEW st \in SymbolState PROVE ClearOrphan(st) \in SymbolState
  BY OrphanUpdates, Values DEF ClearOrphan

\* Every answer to a request leads to a state of the machine.
LEMMA AnswersTyped ==
  ASSUME NEW st \in SymbolState, NEW q \in Nat, NEW id \in OrderIds
  PROVE  /\ OnBuyRequested(st, q) \in SymbolState
         /\ OnBuyRejected(st) \in SymbolState
         /\ OnSellRequested(st) \in SymbolState
         /\ OnSellRejected(st) \in SymbolState
         /\ ConfirmPendingOrderId(st, id) \in SymbolState
         /\ OnPlacementAmbiguous(st) \in SymbolState
<1>1. OnBuyRequested(st, q) \in SymbolState
  <2>1. st.known + q \in Nat
    BY Fields
  <2> QED BY <2>1, Fields, BuyUpdates, Values DEF OnBuyRequested
<1>2. OnBuyRejected(st) \in SymbolState
  BY SellUpdates, Values DEF OnBuyRejected
<1>3. OnSellRequested(st) \in SymbolState
  BY Fields, SellUpdates, Values DEF OnSellRequested
<1>4. OnSellRejected(st) \in SymbolState
  BY SellUpdates, Values DEF OnSellRejected
<1>5. ConfirmPendingOrderId(st, id) \in SymbolState
  <2> DEFINE to == IF id = NoOrder THEN UnknownId ELSE id
  <2>1. to \in OrderIds
    BY Values
  <2>2. [st EXCEPT !.pending = to] \in SymbolState
    BY <2>1, PendingUpdates
  <2> QED BY <2>2 DEF ConfirmPendingOrderId
<1>6. OnPlacementAmbiguous(st) \in SymbolState
  BY LifecycleUpdates, Values DEF OnPlacementAmbiguous
<1> QED BY <1>1, <1>2, <1>3, <1>4, <1>5, <1>6

\* So does every observation of the holding, and every operator command.
LEMMA ObservationsTyped ==
  ASSUME NEW st \in SymbolState, NEW q \in Nat, NEW late
  PROVE  /\ SyncFromBroker(st, q) \in SymbolState
         /\ ConfirmBuyFromBroker(st, q) \in SymbolState
         /\ OnSellResult(st, q) \in SymbolState
         /\ ObserveForOrphan(st, q) \in SymbolState
         /\ ResolveStalePending(st, q, late) \in SymbolState
         /\ AcknowledgeError(st, q) \in SymbolState
<1>1. SyncFromBroker(st, q) \in SymbolState
  BY KnownUpdates, ObservationUpdates, Values DEF SyncFromBroker
<1>2. ConfirmBuyFromBroker(st, q) \in SymbolState
  <2> DEFINE opened == [st EXCEPT !.lifecycle = "OPEN", !.known = q, !.pending = NoOrder]
  <2>1. opened \in SymbolState
    BY EndUpdates, Values
  <2>2. ClearOrphan(opened) \in SymbolState
    BY <2>1, ClearOrphanTyped
  <2>3. /\ [st EXCEPT !.lifecycle = "ERROR", !.known = q] \in SymbolState
        /\ [st EXCEPT !.known = q] \in SymbolState
    BY ObservationUpdates, KnownUpdates, Values
  <2> QED BY <2>1, <2>2, <2>3 DEF ConfirmBuyFromBroker
<1>3. OnSellResult(st, q) \in SymbolState
  <2> DEFINE flat == [st EXCEPT !.lifecycle = "FLAT", !.known = 0,
                                !.sellBase = 0, !.pending = NoOrder]
  <2>1. flat \in SymbolState
    BY SellUpdates, Values
  <2>2. ClearOrphan(flat) \in SymbolState
    BY <2>1, ClearOrphanTyped
  <2>3. /\ [st EXCEPT !.lifecycle = "ERROR", !.known = q] \in SymbolState
        /\ [st EXCEPT !.known = q] \in SymbolState
    BY ObservationUpdates, KnownUpdates, Values
  <2> QED BY <2>2, <2>3 DEF OnSellResult
<1>4. ObserveForOrphan(st, q) \in SymbolState
  BY ClearOrphanTyped DEF ObserveForOrphan
<1>5. ResolveStalePending(st, q, late) \in SymbolState
  <2> DEFINE ended == [st EXCEPT !.lifecycle = Settled(q), !.known = q,
                                 !.pending = NoOrder]
             missing == st.expected - q
             short == IF missing > 0 THEN missing ELSE 0
  <2>1. ended \in SymbolState
    BY EndUpdates, Values
  <2>2. ClearOrphan(ended) \in SymbolState
    BY <2>1, ClearOrphanTyped
  <2>3. -q \in Int /\ short \in Int
    BY Fields
  <2>4. ASSUME NEW d \in Int
        PROVE  [ended EXCEPT !.orphan = st.pending, !.delta = d] \in SymbolState
    <3> HIDE DEF ended
    <3> QED BY <2>1, Fields, OrphanUpdates
  <2>5. /\ [ended EXCEPT !.orphan = st.pending, !.delta = -q] \in SymbolState
        /\ [ended EXCEPT !.orphan = st.pending, !.delta = short] \in SymbolState
    BY <2>3, <2>4
  <2> QED BY <2>1, <2>2, <2>5 DEF ResolveStalePending
<1>6. AcknowledgeError(st, q) \in SymbolState
  <2>1. (IF st.lifecycle = "ERROR" THEN NoOrder ELSE st.pending) \in OrderIds
    BY Fields, Values
  <2> QED BY <2>1, EndUpdates, Values DEF AcknowledgeError
<1> QED BY <1>1, <1>2, <1>3, <1>4, <1>5, <1>6

\* What a poll leaves is a state of the machine, whatever was observed.
LEMMA PollTyped ==
  ASSUME NEW st \in SymbolState, NEW q \in Nat,
         NEW late, NEW filled
  PROVE  PollSymbol(st, q, late, filled) \in SymbolState
<1> DEFINE seen == ObserveForOrphan(st, q)
           told == IF filled THEN ReconcileFilled(seen, q) ELSE seen
<1>1. seen \in SymbolState
  BY ObservationsTyped
<1>2. told \in SymbolState
  <2> HIDE DEF seen
  <2>1. /\ ConfirmBuyFromBroker(seen, q) \in SymbolState
        /\ OnSellResult(seen, q) \in SymbolState
        /\ ObserveForOrphan(seen, q) \in SymbolState
    BY <1>1, ObservationsTyped
  <2> QED BY <1>1, <2>1 DEF ReconcileFilled
<1>3. SettleByBalance(told, q, late) \in SymbolState
  <2> HIDE DEF told
  <2>1. OnSellResult(told, q) \in SymbolState /\ ConfirmBuyFromBroker(told, q) \in SymbolState
    BY <1>2, ObservationsTyped
  <2>2. /\ ResolveStalePending(OnSellResult(told, q), q, late) \in SymbolState
        /\ ResolveStalePending(ConfirmBuyFromBroker(told, q), q, late) \in SymbolState
        /\ SyncFromBroker(told, q) \in SymbolState
    BY <1>2, <2>1, ObservationsTyped
  <2> QED BY <2>2 DEF SettleByBalance
<1> QED BY <1>3 DEF PollSymbol

-----------------------------------------------------------------------------
(* What each observation does to the fields that the order path depends on.  *)

LEMMA ClearOrphanEffect ==
  ASSUME NEW st \in SymbolState
  PROVE  /\ ~HasOrphan(ClearOrphan(st))
         /\ ClearOrphan(st).lifecycle = st.lifecycle /\ ClearOrphan(st).pending = st.pending
         /\ ClearOrphan(st).known = st.known /\ ClearOrphan(st).expected = st.expected
  BY DEF ClearOrphan, SymbolState, HasOrphan

\* An orphan ends only when its target is reached exactly.
LEMMA ObserveEffect ==
  ASSUME NEW st \in SymbolState, NEW q \in Nat
  PROVE  LET n == ObserveForOrphan(st, q) IN
         /\ n.lifecycle = st.lifecycle /\ n.pending = st.pending
         /\ n.known = st.known /\ n.expected = st.expected
         /\ \/ n = st
            \/ /\ ~HasOrphan(n) /\ HasOrphan(st)
               /\ \/ st.delta < 0 /\ q = 0
                  \/ st.delta > 0 /\ q = st.expected
  BY ClearOrphanEffect DEF ObserveForOrphan

\* A symbol that is not pending takes the quantity; ERROR and orphans stay.
LEMMA SyncEffect ==
  ASSUME NEW st \in SymbolState, NEW q \in Nat
  PROVE  LET n == SyncFromBroker(st, q) IN
         /\ n.known = q /\ n.pending = st.pending /\ n.expected = st.expected
         /\ n.orphan = st.orphan /\ n.delta = st.delta
         /\ HardBlockNoOrphan(st) => n.lifecycle = st.lifecycle
         /\ ~HardBlockNoOrphan(st) => n.lifecycle \in {"OPEN", "FLAT"}
  BY DEF SyncFromBroker, SymbolState, Settled

LEMMA ConfirmBuyEffect ==
  ASSUME NEW st \in SymbolState, NEW q \in Nat, st.lifecycle = "BUY_PENDING",
         ~HasOrphan(st)
  PROVE  LET n == ConfirmBuyFromBroker(st, q) IN
         /\ ~HasOrphan(n) /\ n.expected = st.expected
         /\ \/ n.lifecycle = "OPEN" /\ q = st.expected /\ n.known = q /\ n.pending = NoOrder
            \/ n.lifecycle = "ERROR" /\ n.pending = st.pending
            \/ n.lifecycle = "BUY_PENDING" /\ q # st.expected /\ n.pending = st.pending
<1> DEFINE opened == [st EXCEPT !.lifecycle = "OPEN", !.known = q, !.pending = NoOrder]
<1>1. opened \in SymbolState
  BY EndUpdates, Values
<1>2. /\ opened.lifecycle = "OPEN" /\ opened.known = q /\ opened.pending = NoOrder
      /\ opened.expected = st.expected /\ opened.orphan = st.orphan
  BY DEF SymbolState
<1> HIDE DEF opened
<1>3. CASE q = st.expected
  <2>1. ConfirmBuyFromBroker(st, q) = IF st.base = 0 THEN ClearOrphan(opened) ELSE opened
    BY <1>3 DEF ConfirmBuyFromBroker, opened
  <2> QED BY <1>1, <1>2, <1>3, <2>1, ClearOrphanEffect DEF HasOrphan
<1>4. CASE q # st.expected
  BY <1>4, Fields DEF ConfirmBuyFromBroker, SymbolState, HasOrphan
<1> QED BY <1>3, <1>4

LEMMA OnSellResultEffect ==
  ASSUME NEW st \in SymbolState, NEW q \in Nat, st.lifecycle = "SELL_PENDING",
         ~HasOrphan(st)
  PROVE  LET n == OnSellResult(st, q) IN
         /\ ~HasOrphan(n) /\ n.expected = st.expected
         /\ \/ n.lifecycle = "FLAT" /\ q = 0 /\ n.known = q /\ n.pending = NoOrder
            \/ n.lifecycle = "ERROR" /\ n.pending = st.pending
            \/ n.lifecycle = "SELL_PENDING" /\ q # 0 /\ n.pending = st.pending
<1> DEFINE flat == [st EXCEPT !.lifecycle = "FLAT", !.known = 0,
                              !.sellBase = 0, !.pending = NoOrder]
<1>1. flat \in SymbolState
  BY SellUpdates, Values
<1>2. /\ flat.lifecycle = "FLAT" /\ flat.known = 0 /\ flat.pending = NoOrder
      /\ flat.expected = st.expected
  BY DEF SymbolState
<1> HIDE DEF flat
<1>3. CASE q = 0
  <2>1. OnSellResult(st, q) = ClearOrphan(flat)
    BY <1>3 DEF OnSellResult, flat
  <2> QED BY <1>1, <1>2, <1>3, <2>1, ClearOrphanEffect
<1>4. CASE q # 0
  BY <1>4, Fields DEF OnSellResult, SymbolState, HasOrphan
<1> QED BY <1>3, <1>4

\* After the timeout the order of a PENDING state lives on as an orphan.
LEMMA ResolveEffect ==
  ASSUME NEW st \in SymbolState, NEW q \in Nat, NEW late
  PROVE  LET n == ResolveStalePending(st, q, late) IN
         \/ n = st
         \/ /\ st.lifecycle = "SELL_PENDING" /\ q > 0 /\ st.pending # NoOrder
            /\ n.lifecycle \in {"OPEN", "FLAT"} /\ n.orphan = st.pending /\ n.delta = -q
            /\ n.expected = st.expected
         \/ /\ st.lifecycle = "BUY_PENDING" /\ st.pending # NoOrder
            /\ n.lifecycle \in {"OPEN", "FLAT"} /\ n.orphan = st.pending
            /\ n.delta = IF st.expected - q > 0 THEN st.expected - q ELSE 0
            /\ n.expected = st.expected
         \/ st.lifecycle = "SELL_PENDING" /\ q = 0
         \/ st.lifecycle \in Pendings /\ st.pending = NoOrder
<1> DEFINE ended == [st EXCEPT !.lifecycle = Settled(q), !.known = q, !.pending = NoOrder]
           orphaned(d) == [ended EXCEPT !.orphan = st.pending, !.delta = d]
           missing == st.expected - q
           short == IF missing > 0 THEN missing ELSE 0
<1>1. /\ ended \in SymbolState
      /\ ended.lifecycle \in {"OPEN", "FLAT"} /\ ended.expected = st.expected
  <2>1. ended \in SymbolState
    BY EndUpdates, Values
  <2>2. ended.lifecycle = Settled(q) /\ ended.expected = st.expected
    BY DEF SymbolState
  <2> QED BY <2>1, <2>2 DEF Settled
<1>2. ASSUME NEW d \in Int
      PROVE  /\ orphaned(d).lifecycle \in {"OPEN", "FLAT"} /\ orphaned(d).orphan = st.pending
             /\ orphaned(d).delta = d /\ orphaned(d).expected = st.expected
  <2> HIDE DEF ended
  <2> QED BY <1>1 DEF SymbolState
<1>3. -q \in Int /\ short \in Int
  BY Fields
<1> HIDE DEF ended
<1>4. CASE late /\ st.lifecycle = "SELL_PENDING" /\ q > 0 /\ st.pending # NoOrder
  <2>1. ResolveStalePending(st, q, late) = orphaned(-q)
    BY <1>4 DEF ResolveStalePending, ended
  <2> QED BY <1>2, <1>3, <1>4, <2>1
<1>5. CASE late /\ st.lifecycle = "BUY_PENDING" /\ st.pending # NoOrder
  <2>1. ResolveStalePending(st, q, late) = orphaned(short)
    BY <1>5 DEF ResolveStalePending, ended
  <2>2. /\ orphaned(short).lifecycle \in {"OPEN", "FLAT"}
        /\ orphaned(short).orphan = st.pending
        /\ orphaned(short).delta = short /\ orphaned(short).expected = st.expected
    BY <1>2, <1>3
  <2> QED BY <1>5, <2>1, <2>2
<1>6. CASE ~(late /\ st.lifecycle \in Pendings)
  BY <1>6 DEF ResolveStalePending, Pendings
<1> QED BY <1>4, <1>5, <1>6 DEF Pendings

-----------------------------------------------------------------------------
(* What a whole poll makes of a symbol                                       *)

\* A symbol's state between two steps of the program
WellFormed(st) ==
  /\ st.lifecycle \in Pendings => st.pending # NoOrder
  /\ st.lifecycle \in Pendings \cup {"ERROR"} => ~HasOrphan(st)

\* The observed holding q is the one at which the order of st is finished.
Reached(st, q) ==
  \/ ~HardBlock(st)
  \/ st.lifecycle = "BUY_PENDING" /\ q = st.expected
  \/ st.lifecycle = "SELL_PENDING" /\ q = 0
  \/ HasOrphan(st) /\ st.delta < 0 /\ q = 0
  \/ HasOrphan(st) /\ st.delta > 0 /\ q = st.expected

\* The order is still in question in n, and moves the holding the same way.
StillOpen(st, n) ==
  \/ n.lifecycle = st.lifecycle /\ n.lifecycle \in Pendings
  \/ /\ HasOrphan(n) /\ n.lifecycle \in {"OPEN", "FLAT"} /\ n.delta > 0
     /\ st.lifecycle = "BUY_PENDING" \/ (HasOrphan(st) /\ st.delta > 0)
  \/ /\ HasOrphan(n) /\ n.lifecycle \in {"OPEN", "FLAT"} /\ n.delta < 0
     /\ st.lifecycle = "SELL_PENDING" \/ (HasOrphan(st) /\ st.delta < 0)

PollOutcome(st, q, n) ==
  /\ WellFormed(n) /\ n.expected = st.expected
  /\ \/ ~HardBlock(n) /\ n.known = q /\ Reached(st, q)
     \/ n.lifecycle = "ERROR" /\ HardBlock(st)
     \/ StillOpen(st, n)

\* The balance-based half of a poll
LEMMA SettleOutcome ==
  ASSUME NEW st \in SymbolState, NEW q \in Nat, NEW late, WellFormed(st),
         st.lifecycle = "BUY_PENDING" => q <= st.expected,
         HasOrphan(st) => st.delta # 0
  PROVE  PollOutcome(st, q, SettleByBalance(st, q, late))
<1> DEFINE n == SettleByBalance(st, q, late)
<1> SUFFICES PollOutcome(st, q, n)
  OBVIOUS
<1>1. CASE st.lifecycle = "SELL_PENDING"
  <2> DEFINE c == OnSellResult(st, q)
  <2>1. ~HasOrphan(st) /\ st.pending # NoOrder
    BY <1>1 DEF WellFormed, Pendings
  <2>2. /\ ~HasOrphan(c) /\ c.expected = st.expected
        /\ \/ c.lifecycle = "FLAT" /\ q = 0 /\ c.known = q /\ c.pending = NoOrder
           \/ c.lifecycle = "ERROR" /\ c.pending = st.pending
           \/ c.lifecycle = "SELL_PENDING" /\ q # 0 /\ c.pending = st.pending
    BY <1>1, <2>1, OnSellResultEffect
  <2>3. c \in SymbolState /\ n = ResolveStalePending(c, q, late)
    BY <1>1, ObservationsTyped DEF SettleByBalance
  <2> HIDE DEF c, n
  <2>4. \/ n = c
        \/ /\ c.lifecycle = "SELL_PENDING" /\ q > 0
           /\ n.lifecycle \in {"OPEN", "FLAT"} /\ n.orphan = c.pending /\ n.delta = -q
           /\ n.expected = c.expected
    BY <2>1, <2>2, <2>3, ResolveEffect DEF Pendings
  <2>5. CASE n = c
    BY <1>1, <2>1, <2>2, <2>5
    DEF PollOutcome, WellFormed, Reached, StillOpen, HardBlock, Pendings
  <2>6. CASE n # c
    <3>1. n.delta < 0
      BY <2>4, <2>6
    <3>2. HasOrphan(n) /\ n.lifecycle \in {"OPEN", "FLAT"} /\ n.expected = st.expected
      BY <2>1, <2>2, <2>4, <2>6 DEF HasOrphan
    <3>3. StillOpen(st, n)
      BY <1>1, <3>1, <3>2 DEF StillOpen
    <3> QED BY <3>2, <3>3 DEF PollOutcome, WellFormed, Pendings
  <2> QED BY <2>5, <2>6
<1>2. CASE st.lifecycle = "BUY_PENDING"
  <2> DEFINE c == ConfirmBuyFromBroker(st, q)
  <2>1. ~HasOrphan(st) /\ st.pending # NoOrder
    BY <1>2 DEF WellFormed, Pendings
  <2>2. /\ ~HasOrphan(c) /\ c.expected = st.expected
        /\ \/ c.lifecycle = "OPEN" /\ q = st.expected /\ c.known = q /\ c.pending = NoOrder
           \/ c.lifecycle = "ERROR" /\ c.pending = st.pending
           \/ c.lifecycle = "BUY_PENDING" /\ q # st.expected /\ c.pending = st.pending
    BY <1>2, <2>1, ConfirmBuyEffect
  <2>3. c \in SymbolState /\ n = ResolveStalePending(c, q, late)
    BY <1>2, ObservationsTyped DEF SettleByBalance
  <2> HIDE DEF c, n
  <2>4. \/ n = c
        \/ /\ c.lifecycle = "BUY_PENDING"
           /\ n.lifecycle \in {"OPEN", "FLAT"} /\ n.orphan = c.pending
           /\ n.delta = IF c.expected - q > 0 THEN c.expected - q ELSE 0
           /\ n.expected = c.expected
    BY <2>1, <2>2, <2>3, ResolveEffect DEF Pendings
  <2>5. CASE n = c
    BY <1>2, <2>1, <2>2, <2>5
    DEF PollOutcome, WellFormed, Reached, StillOpen, HardBlock, Pendings
  <2>6. CASE n # c
    <3>1. st.expected \in Nat /\ q <= st.expected /\ q # st.expected
      BY <1>2, <2>2, <2>4, <2>6, Fields
    <3>2. n.delta > 0
      BY <2>2, <2>4, <2>6, <3>1
    <3>3. HasOrphan(n) /\ n.lifecycle \in {"OPEN", "FLAT"} /\ n.expected = st.expected
      BY <2>1, <2>2, <2>4, <2>6 DEF HasOrphan
    <3>4. StillOpen(st, n)
      BY <1>2, <3>2, <3>3 DEF StillOpen
    <3> QED BY <3>3, <3>4 DEF PollOutcome, WellFormed, Pendings
  <2> QED BY <2>5, <2>6
<1>3. CASE st.lifecycle \notin Pendings
  <2>1. n = SyncFromBroker(st, q)
    BY <1>3 DEF SettleByBalance, Pendings
  <2> HIDE DEF n
  <2>2. /\ n.known = q /\ n.pending = st.pending /\ n.expected = st.expected
        /\ n.orphan = st.orphan /\ n.delta = st.delta
        /\ HardBlockNoOrphan(st) => n.lifecycle = st.lifecycle
        /\ ~HardBlockNoOrphan(st) => n.lifecycle \in {"OPEN", "FLAT"}
    BY <2>1, SyncEffect
  <2>3. st.delta \in Int /\ st.lifecycle \in Lifecycles
    BY Fields
  <2>4. CASE st.lifecycle = "ERROR"
    BY <2>2, <2>4
    DEF PollOutcome, WellFormed, HardBlock, HardBlockNoOrphan, HasOrphan, Pendings
  <2>5. CASE st.lifecycle # "ERROR" /\ HasOrphan(st)
    <3>1. n.lifecycle \in {"OPEN", "FLAT"} /\ HasOrphan(n) /\ (n.delta > 0 \/ n.delta < 0)
      BY <1>3, <2>2, <2>3, <2>5 DEF HardBlockNoOrphan, HasOrphan, Pendings
    <3> QED BY <2>2, <2>5, <3>1 DEF PollOutcome, WellFormed, StillOpen, Pendings
  <2>6. CASE st.lifecycle # "ERROR" /\ ~HasOrphan(st)
    <3>1. n.lifecycle \in {"OPEN", "FLAT"} /\ ~HasOrphan(n) /\ ~HardBlock(st)
      BY <1>3, <2>2, <2>6 DEF HardBlockNoOrphan, HardBlock, HasOrphan, Pendings
    <3> QED BY <2>2, <3>1 DEF PollOutcome, WellFormed, Reached, HardBlock, Pendings
  <2> QED BY <2>4, <2>5, <2>6
<1> QED BY <1>1, <1>2, <1>3 DEF Pendings

\* A poll either finishes the order of a symbol, or leaves it in ERROR, or
\* leaves the order in question: then it still knows its direction.
LEMMA PollEffect ==
  ASSUME NEW st \in SymbolState, NEW q \in Nat, NEW late, NEW filled, WellFormed(st),
         st.lifecycle = "BUY_PENDING" => q <= st.expected,
         HasOrphan(st) => st.delta # 0
  PROVE  PollOutcome(st, q, PollSymbol(st, q, late, filled))
<1> DEFINE seen == ObserveForOrphan(st, q)
           told == IF filled THEN ReconcileFilled(seen, q) ELSE seen
           n    == PollSymbol(st, q, late, filled)
<1> SUFFICES PollOutcome(st, q, n)
  OBVIOUS
<1>1. /\ seen \in SymbolState
      /\ seen.lifecycle = st.lifecycle /\ seen.pending = st.pending
      /\ seen.known = st.known /\ seen.expected = st.expected
      /\ \/ seen = st
         \/ /\ ~HasOrphan(seen) /\ HasOrphan(st)
            /\ \/ st.delta < 0 /\ q = 0
               \/ st.delta > 0 /\ q = st.expected
  BY ObserveEffect, ObservationsTyped
<1>2. n = SettleByBalance(told, q, late)
  BY DEF PollSymbol
<1> HIDE DEF seen, n
<1>3. /\ WellFormed(seen)
      /\ Reached(seen, q) => Reached(st, q)
      /\ HasOrphan(seen) => seen = st
  BY <1>1 DEF WellFormed, Reached, HardBlock
<1>4. \A m : PollOutcome(seen, q, m) => PollOutcome(st, q, m)
  <2> SUFFICES ASSUME NEW m, PollOutcome(seen, q, m)
               PROVE  PollOutcome(st, q, m)
    OBVIOUS
  <2>1. HardBlock(seen) => HardBlock(st)
    BY <1>1 DEF HardBlock
  <2>2. StillOpen(seen, m) => StillOpen(st, m)
    BY <1>1, <1>3 DEF StillOpen
  <2> QED BY <1>1, <1>3, <2>1, <2>2 DEF PollOutcome
<1>5. CASE told = seen
  <2>1. PollOutcome(seen, q, SettleByBalance(seen, q, late))
    BY <1>1, <1>3, SettleOutcome
  <2> QED BY <1>2, <1>4, <1>5, <2>1
<1>6. CASE told # seen
  <2>1. told = ReconcileFilled(seen, q)
    BY <1>6
  <2>2. CASE seen.lifecycle = "BUY_PENDING" /\ q = seen.expected
    <3> DEFINE c == ConfirmBuyFromBroker(seen, q)
    <3>1. told = c /\ c \in SymbolState
      BY <1>1, <2>1, <2>2, ObservationsTyped DEF ReconcileFilled, Pendings
    <3>2. ~HasOrphan(seen)
      BY <1>3, <2>2 DEF WellFormed, Pendings
    <3>3. /\ ~HasOrphan(c) /\ c.expected = seen.expected
          /\ \/ c.lifecycle = "OPEN"
             \/ c.lifecycle = "ERROR" /\ c.pending = seen.pending
             \/ c.lifecycle = "BUY_PENDING" /\ q # seen.expected
      BY <1>1, <2>2, <3>2, ConfirmBuyEffect
    <3> HIDE DEF told, c
    <3>4. WellFormed(c) /\ c.lifecycle \in {"OPEN", "ERROR"}
      BY <2>2, <3>3 DEF WellFormed, Pendings
    <3>5. PollOutcome(c, q, n)
      BY <1>2, <3>1, <3>3, <3>4, SettleOutcome
    <3>6. n.lifecycle = "ERROR" \/ (~HardBlock(n) /\ n.known = q)
      BY <3>3, <3>4, <3>5 DEF PollOutcome, StillOpen, Pendings
    <3> QED
      BY <1>4, <2>2, <3>3, <3>5, <3>6 DEF PollOutcome, Reached, HardBlock, Pendings
  <2>3. CASE seen.lifecycle = "SELL_PENDING" /\ q = 0
    <3> DEFINE c == OnSellResult(seen, q)
    <3>1. told = c /\ c \in SymbolState
      BY <1>1, <2>1, <2>3, ObservationsTyped DEF ReconcileFilled, Pendings
    <3>2. ~HasOrphan(seen)
      BY <1>3, <2>3 DEF WellFormed, Pendings
    <3>3. /\ ~HasOrphan(c) /\ c.expected = seen.expected
          /\ c.lifecycle \in {"FLAT", "ERROR"}
      BY <1>1, <2>3, <3>2, OnSellResultEffect
    <3> HIDE DEF told, c
    <3>4. WellFormed(c)
      BY <3>3 DEF WellFormed, Pendings
    <3>5. PollOutcome(c, q, n)
      BY <1>2, <3>1, <3>3, <3>4, SettleOutcome
    <3>6. n.lifecycle = "ERROR" \/ (~HardBlock(n) /\ n.known = q)
      BY <3>3, <3>5 DEF PollOutcome, StillOpen, Pendings
    <3> QED
      BY <1>4, <2>3, <3>3, <3>5, <3>6 DEF PollOutcome, Reached, HardBlock, Pendings
  <2>4. CASE seen.lifecycle \notin Pendings
    <3>1. told = ObserveForOrphan(seen, q)
      BY <2>1, <2>4 DEF ReconcileFilled, Pendings
    <3>2. told = seen
      BY <1>1, <3>1 DEF ObserveForOrphan, seen
    <3> QED BY <1>6, <3>2
  <2>5. CASE /\ seen.lifecycle \in Pendings
             /\ ~(seen.lifecycle = "BUY_PENDING" /\ q = seen.expected)
             /\ ~(seen.lifecycle = "SELL_PENDING" /\ q = 0)
    <3>1. told = seen
      BY <2>1, <2>5 DEF ReconcileFilled, Pendings
    <3> QED BY <1>6, <3>1
  <2> QED BY <2>2, <2>3, <2>4, <2>5
<1> QED BY <1>5, <1>6

-----------------------------------------------------------------------------
(* Type correctness *)

\* The operator commands leave typed states.
LEMMA CommandsTyped ==
  ASSUME TypeOK, NEW errors, NEW orphans
  PROVE  AfterCommands(errors, orphans) \in [Symbols -> SymbolState]
<1> SUFFICES ASSUME NEW s \in Symbols
             PROVE  (IF s \in errors THEN AcknowledgeError(psm[s], reported[s])
                     ELSE IF s \in orphans THEN ClearOrphan(psm[s]) ELSE psm[s])
                       \in SymbolState
  BY DEF AfterCommands
<1>1. psm[s] \in SymbolState /\ reported[s] \in Nat
  BY DEF TypeOK
<1>2. AcknowledgeError(psm[s], reported[s]) \in SymbolState
  BY <1>1, ObservationsTyped
<1>3. ClearOrphan(psm[s]) \in SymbolState
  BY <1>1, ClearOrphanTyped
<1> QED BY <1>1, <1>2, <1>3

\* So does the whole synchronisation with a balance.
LEMMA SyncTyped ==
  ASSUME TypeOK, NEW q \in [Symbols -> Nat], Sync(q)
  PROVE  /\ psm' \in [Symbols -> SymbolState]
         /\ intents' \subseteq Symbols
         /\ buyCtx' \subseteq Symbols /\ sellCtx' \subseteq Symbols
         /\ initialized' \in BOOLEAN
         /\ journal' \in [Symbols -> 0 .. MaxOrders]
<1>1. PICK errors \in SUBSET {s \in Symbols : MayAckError(s)},
           orphans \in SUBSET {s \in Symbols : MayAckOrphan(s)} :
        LET after == AfterCommands(errors, orphans) IN
        IF ~initialized
        THEN /\ psm' = [s \in Symbols |->
                          IF q[s] > 0 THEN SyncFromBroker(after[s], q[s]) ELSE after[s]]
             /\ initialized' = TRUE
             /\ buyCtx' = EffectsAfterAck(buyCtx, orphans)
             /\ sellCtx' = EffectsAfterAck(sellCtx, orphans)
             /\ UNCHANGED <<intents, journal>>
        ELSE /\ \E late \in SUBSET {s \in Symbols : after[s].lifecycle \in Pendings},
                   filled \in FilledAnswers(after) :
                  psm' = [s \in Symbols |->
                            PollSymbol(after[s], q[s], s \in late, s \in filled)]
             /\ buyCtx' = {s \in EffectsAfterAck(buyCtx, orphans) : ~FirstFill(psm'[s])}
             /\ sellCtx' = {s \in EffectsAfterAck(sellCtx, orphans) :
                              ~SoldUp(after[s], psm'[s])}
             /\ intents' = {s \in intents : ~DropsIntent(psm'[s])}
             /\ MaintainJournal
             /\ UNCHANGED initialized
  BY DEF Sync
<1> DEFINE after == AfterCommands(errors, orphans)
<1>2. after \in [Symbols -> SymbolState]
  BY CommandsTyped
<1> HIDE DEF after
<1>3. EffectsAfterAck(buyCtx, orphans) \subseteq Symbols
      /\ EffectsAfterAck(sellCtx, orphans) \subseteq Symbols
  BY DEF TypeOK, EffectsAfterAck
<1>4. CASE ~initialized
  <2>1. psm' = [s \in Symbols |->
                  IF q[s] > 0 THEN SyncFromBroker(after[s], q[s]) ELSE after[s]]
    BY <1>1, <1>4 DEF after
  <2>2. \A s \in Symbols : SyncFromBroker(after[s], q[s]) \in SymbolState
    BY <1>2, ObservationsTyped
  <2>3. psm' \in [Symbols -> SymbolState]
    BY <1>2, <2>1, <2>2
  <2> QED BY <1>1, <1>3, <1>4, <2>3 DEF TypeOK
<1>5. CASE initialized
  <2>1. PICK late \in SUBSET {s \in Symbols : after[s].lifecycle \in Pendings},
             filled \in FilledAnswers(after) :
          psm' = [s \in Symbols |-> PollSymbol(after[s], q[s], s \in late, s \in filled)]
    BY <1>1, <1>5 DEF after
  <2>2. \A s \in Symbols :
          PollSymbol(after[s], q[s], s \in late, s \in filled) \in SymbolState
    BY <1>2, PollTyped
  <2>3. psm' \in [Symbols -> SymbolState]
    BY <2>1, <2>2
  <2>4. PICK gone : journal' = [s \in Symbols |-> IF s \in gone THEN NoOrder ELSE journal[s]]
    BY <1>1, <1>5 DEF MaintainJournal, Removed
  <2>5. NoOrder \in 0 .. MaxOrders
    BY BoundsAssumption DEF NoOrder
  <2>6. journal' \in [Symbols -> 0 .. MaxOrders]
    BY <2>4, <2>5 DEF TypeOK
  <2>7. buyCtx' \subseteq Symbols /\ sellCtx' \subseteq Symbols /\ intents' \subseteq Symbols
    BY <1>1, <1>3, <1>5 DEF TypeOK
  <2> QED BY <1>1, <1>5, <2>3, <2>6, <2>7 DEF TypeOK
<1> QED BY <1>4, <1>5 DEF TypeOK

\* An order on its way to the broker is typed.
LEMMA SubmitTyped ==
  ASSUME TypeOK, NEW s \in Symbols, NEW side \in Sides, NEW qty \in Nat \ {0},
         NEW requested \in SymbolState, Submit(s, side, qty, requested)
  PROVE  TypeOK'
<1>1. psm' \in [Symbols -> SymbolState]
  BY DEF TypeOK, Submit
<1>2. lastId' \in 0 .. MaxOrders /\ lastId' <= lastId + 1 /\ lastId + 1 \in 1 .. MaxOrders
  BY BoundsAssumption DEF TypeOK, Submit
<1>3. [id |-> lastId + 1, sym |-> s, side |-> side, left |-> qty, place |-> "wire"]
        \in OrderRecords
  BY <1>2 DEF OrderRecords, Sides
<1>4. orders' \subseteq OrderRecords
  BY <1>3 DEF TypeOK, Submit
<1>5. /\ todo' \subseteq Symbols /\ intents' \subseteq Symbols
      /\ savedIntents' \subseteq Symbols
      /\ caller' \in Symbols \cup {None} /\ reply' \in Replies /\ recoveryFailed' \in BOOLEAN
  BY DEF TypeOK, Submit, WritesIntent, Replies
<1> QED BY <1>1, <1>2, <1>4, <1>5 DEF TypeOK, Submit

LEMMA TrySellTyped ==
  ASSUME TypeOK, NEW s \in Symbols, Seen(s), TrySell(s)
  PROVE  TypeOK'
<1>1. OnSellRequested(psm[s]) \in SymbolState
  BY AnswersTyped, Values DEF TypeOK
<1>2. view[s] \in Nat \ {0}
  BY DEF TypeOK, Seen
<1>3. Submit(s, "SELL", view[s], OnSellRequested(psm[s])) /\ "SELL" \in Sides
  BY DEF TrySell, Sides
<1> QED BY <1>1, <1>2, <1>3, SubmitTyped

LEMMA TryBuyTyped ==
  ASSUME TypeOK, NEW s \in Symbols, TryBuy(s)
  PROVE  TypeOK'
<1>1. PICK qty \in 1 .. MaxQty : Submit(s, "BUY", qty, OnBuyRequested(psm[s], qty))
  BY DEF TryBuy
<1>2. qty \in Nat \ {0}
  BY BoundsAssumption
<1>3. OnBuyRequested(psm[s], qty) \in SymbolState
  BY <1>2, AnswersTyped, Values DEF TypeOK
<1>4. "BUY" \in Sides
  BY DEF Sides
<1> QED BY <1>1, <1>2, <1>3, <1>4, SubmitTyped

\* Every step keeps the types.
LEMMA TypeStep ==
  ASSUME TypeOK, [Next]_vars
  PROVE  TypeOK'
<1>1. CASE RunOnce
  <2>1. view' \in [Symbols -> Nat] /\ Sync(view')
    BY <1>1 DEF RunOnce, TypeOK
  <2>2. /\ psm' \in [Symbols -> SymbolState] /\ intents' \subseteq Symbols
        /\ buyCtx' \subseteq Symbols /\ sellCtx' \subseteq Symbols
        /\ initialized' \in BOOLEAN /\ journal' \in [Symbols -> 0 .. MaxOrders]
    BY <2>1, SyncTyped
  <2>3. soldQty' \in [Symbols -> Nat]
    BY <1>1 DEF RunOnce, TypeOK, Nothing
  <2>4. todo' \subseteq Symbols /\ stage' \in Stages /\ cached' \in BOOLEAN
    BY <1>1 DEF RunOnce, Stages
  <2> QED BY <1>1, <2>1, <2>2, <2>3, <2>4 DEF RunOnce, TypeOK, broker
<1>2. CASE ReconcileAfterMarketClose
  <2>1. view' \in [Symbols -> Nat] /\ Sync(view')
    BY <1>2 DEF ReconcileAfterMarketClose, TypeOK
  <2>2. /\ psm' \in [Symbols -> SymbolState] /\ intents' \subseteq Symbols
        /\ buyCtx' \subseteq Symbols /\ sellCtx' \subseteq Symbols
        /\ initialized' \in BOOLEAN /\ journal' \in [Symbols -> 0 .. MaxOrders]
    BY <2>1, SyncTyped
  <2>3. savedIntents' \subseteq Symbols /\ cached' \in BOOLEAN
    BY <1>2, <2>2 DEF ReconcileAfterMarketClose, SaveIntents, TypeOK
  <2> QED BY <1>2, <2>1, <2>2, <2>3 DEF ReconcileAfterMarketClose, TypeOK, broker
<1>3. CASE BeginLoop
  BY <1>3 DEF BeginLoop, TypeOK, Stages, disk, broker
<1>4. CASE EndCycle
  BY <1>4 DEF EndCycle, SaveIntents, TypeOK, Stages, broker
<1>5. ASSUME NEW s \in Symbols, Pass(s) PROVE TypeOK'
  BY <1>5 DEF Pass, TypeOK, disk, broker
<1>6. ASSUME NEW s \in Symbols, ForceExit(s) \/ ProcessSell(s) PROVE TypeOK'
  BY <1>6, TrySellTyped DEF ForceExit, ProcessSell
<1>7. ASSUME NEW s \in Symbols, ProcessBuy(s) PROVE TypeOK'
  BY <1>7, TryBuyTyped DEF ProcessBuy
<1>8. CASE HandleAccepted
  <2>1. caller \in Symbols
    BY <1>8 DEF HandleAccepted, TypeOK
  <2>2. PICK id \in {lastId, NoOrder} :
          /\ psm' = [psm EXCEPT ![caller] = ConfirmPendingOrderId(@, id)]
          /\ \/ IsTrackable(id) /\ journal' = [journal EXCEPT ![caller] = id]
             \/ (~IsTrackable(id) \/ DiskMayFail) /\ UNCHANGED journal
    BY <1>8 DEF HandleAccepted, CreateJournalEntry, Upserted
  <2>3. id \in 0 .. MaxOrders /\ id \in OrderIds
    BY BoundsAssumption DEF TypeOK, NoOrder, OrderIds
  <2>4. ConfirmPendingOrderId(psm[caller], id) \in SymbolState
    BY <2>1, <2>3, AnswersTyped DEF TypeOK
  <2>5. psm' \in [Symbols -> SymbolState] /\ journal' \in [Symbols -> 0 .. MaxOrders]
    BY <2>2, <2>3, <2>4 DEF TypeOK
  <2>6. buyCtx' \subseteq Symbols /\ sellCtx' \subseteq Symbols
    BY <1>8, <2>1 DEF HandleAccepted, TypeOK
  <2>7. soldQty' \in [Symbols -> Nat]
    BY <1>8, <2>1 DEF HandleAccepted, SnapshotAfter, TypeOK
  <2> QED BY <1>8, <2>5, <2>6, <2>7 DEF HandleAccepted, Resume, TypeOK, broker
<1>9. CASE HandleRejected
  <2>1. caller \in Symbols
    BY <1>9 DEF HandleRejected, TypeOK
  <2>2. OnBuyRejected(psm[caller]) \in SymbolState /\ OnSellRejected(psm[caller]) \in SymbolState
    BY <2>1, AnswersTyped, Values DEF TypeOK
  <2>3. psm' \in [Symbols -> SymbolState]
    BY <1>9, <2>2 DEF HandleRejected, TypeOK
  <2>4. /\ intents' \subseteq Symbols /\ savedIntents' \subseteq Symbols
        /\ todo' \subseteq Symbols /\ stage' \in Stages
    BY <1>9 DEF HandleRejected, Raise, Resume, TypeOK, Stages
  <2> QED BY <1>9, <2>3, <2>4 DEF HandleRejected, TypeOK, broker
<1>10. CASE HandleNoAnswer
  <2>1. caller \in Symbols
    BY <1>10 DEF HandleNoAnswer, TypeOK
  <2>2. OnPlacementAmbiguous(psm[caller]) \in SymbolState
    BY <2>1, AnswersTyped, Values DEF TypeOK
  <2>3. psm' \in [Symbols -> SymbolState]
    BY <1>10, <2>2 DEF HandleNoAnswer, TypeOK
  <2>4. todo' \subseteq Symbols /\ stage' \in Stages
    BY <1>10 DEF HandleNoAnswer, Raise, Resume, TypeOK, Stages
  <2> QED BY <1>10, <2>3, <2>4 DEF HandleNoAnswer, TypeOK, disk, broker
<1>11. ASSUME NEW o \in orders, Accept(o) \/ Refuse(o) \/ Lose(o) \/ Cancel(o) PROVE TypeOK'
  <2>1. o \in OrderRecords /\ [o EXCEPT !.place = "book"] \in OrderRecords
    BY DEF TypeOK, OrderRecords
  <2>2. orders' \subseteq OrderRecords
    BY <1>11, <2>1 DEF Accept, Refuse, Lose, Cancel, TypeOK
  <2>3. reply' \in Replies
    BY <1>11 DEF Accept, Refuse, Lose, Cancel, Answer, TypeOK, Replies
  <2> QED BY <1>11, <2>2, <2>3
        DEF Accept, Refuse, Lose, Cancel, brokerSees, disk, TypeOK
<1>12. ASSUME NEW o \in orders, Fill(o) PROVE TypeOK'
  <2>1. o \in OrderRecords /\ o.sym \in Symbols /\ o.side \in Sides /\ o.left \in Nat \ {0}
    BY DEF TypeOK, OrderRecords
  <2>2. o.left # 1 => [o EXCEPT !.left = o.left - 1] \in OrderRecords
    <3> SUFFICES ASSUME o.left # 1 PROVE [o EXCEPT !.left = o.left - 1] \in OrderRecords
      OBVIOUS
    <3>1. o.left - 1 \in Nat \ {0}
      BY <2>1
    <3> QED BY <2>1, <3>1 DEF OrderRecords
  <2>3. orders' \subseteq OrderRecords
    BY <1>12, <2>2 DEF Fill, TypeOK
  <2>4. holdings[o.sym] \in Nat /\ (o.side = "SELL" => holdings[o.sym] > 0)
    BY <1>12, <2>1 DEF Fill, TypeOK
  <2>5. holdings' \in [Symbols -> Nat]
    <3>1. (IF o.side = "BUY" THEN holdings[o.sym] + 1 ELSE holdings[o.sym] - 1) \in Nat
      BY <2>1, <2>4 DEF Sides
    <3> QED BY <1>12, <2>1, <3>1 DEF Fill, TypeOK
  <2> QED BY <1>12, <2>3, <2>5 DEF Fill, brokerSees, disk, TypeOK
<1>13. ASSUME NEW s \in Symbols, CatchUp(s) PROVE TypeOK'
  <2>1. reported' \in [Symbols -> Nat]
    BY <1>13 DEF CatchUp, TypeOK
  <2> QED BY <1>13, <2>1 DEF CatchUp, brokerSees, disk, TypeOK
<1>14. CASE CrashRestart
  <2>1. ASSUME NEW s \in Symbols, NEW records \in [Symbols -> 0 .. MaxOrders]
        PROVE  Restored(s, records) \in SymbolState
    <3> DEFINE id == IF records[s] # NoOrder THEN records[s] ELSE UnknownId
    <3>1. id \in OrderIds
      BY Values, BoundsAssumption DEF OrderIds
    <3>2. Blank \in SymbolState
      BY Values DEF Blank, SymbolState
    <3>3. [Blank EXCEPT !.pending = id] \in SymbolState
      BY <3>1, <3>2, PendingUpdates
    <3>4. OnPlacementAmbiguous([Blank EXCEPT !.pending = id]) \in SymbolState
      BY <3>3, AnswersTyped, Values
    <3> QED BY <3>2, <3>4 DEF Restored
  <2>2. [t \in Symbols |-> NoOrder] \in [Symbols -> 0 .. MaxOrders]
    BY BoundsAssumption DEF NoOrder
  <2>3. psm' \in [Symbols -> SymbolState]
    <3>1. [s \in Symbols |-> Restored(s, journal)] \in [Symbols -> SymbolState]
      BY <2>1 DEF TypeOK
    <3>2. [s \in Symbols |-> Restored(s, [t \in Symbols |-> NoOrder])]
            \in [Symbols -> SymbolState]
      BY <2>1, <2>2
    <3>3. \/ psm' = [s \in Symbols |-> Restored(s, journal)]
          \/ psm' = [s \in Symbols |-> Restored(s, [t \in Symbols |-> NoOrder])]
      BY <1>14 DEF CrashRestart, LoadAll
    <3> QED BY <3>1, <3>2, <3>3
  <2>4. crashes' \in 0 .. MaxCrashes
    BY <1>14, BoundsAssumption DEF CrashRestart, TypeOK
  <2>5. recoveryFailed' \in BOOLEAN
    <3>1. PICK read \in LoadAll : recoveryFailed' = read.failed
      BY <1>14 DEF CrashRestart
    <3>2. \/ read = [failed |-> FALSE, records |-> journal]
          \/ read = [failed |-> TRUE, records |-> [s \in Symbols |-> NoOrder]]
      BY <3>1 DEF LoadAll
    <3>3. CASE read = [failed |-> FALSE, records |-> journal]
      BY <3>1, <3>3
    <3>4. CASE read = [failed |-> TRUE, records |-> [s \in Symbols |-> NoOrder]]
      BY <3>1, <3>4
    <3> QED BY <3>2, <3>3, <3>4
  <2> QED BY <1>14, <2>3, <2>4, <2>5
        DEF CrashRestart, Nothing, Stages, Replies, disk, broker, TypeOK
<1>15. CASE UNCHANGED vars
  BY <1>15 DEF vars, memory, disk, broker, TypeOK
<1> QED
  BY <1>1, <1>2, <1>3, <1>4, <1>5, <1>6, <1>7, <1>8, <1>9, <1>10, <1>11, <1>12,
     <1>13, <1>14, <1>15
  DEF Next, Cycle, Returned, Broker

LEMMA TypeInit == Init => TypeOK
<1> SUFFICES ASSUME Init PROVE TypeOK
  OBVIOUS
<1>1. Blank \in SymbolState
  BY Values DEF Blank, SymbolState
<1>2. psm \in [Symbols -> SymbolState]
  BY <1>1 DEF Init
<1>3. journal \in [Symbols -> 0 .. MaxOrders] /\ lastId \in 0 .. MaxOrders
      /\ crashes \in 0 .. MaxCrashes
  BY BoundsAssumption DEF Init, NoOrder
<1> QED BY <1>2, <1>3 DEF Init, TypeOK, Nothing, Stages, Replies

\* The state of the process, its files and the broker stay of their types,
\* whatever the number of symbols, orders and crashes.
THEOREM TypeCorrect == Spec => []TypeOK
<1>1. Init => TypeOK
  BY TypeInit
<1>2. TypeOK /\ [Next]_vars => TypeOK'
  BY TypeStep
<1> QED BY <1>1, <1>2, PTL DEF Spec

-----------------------------------------------------------------------------
(* One symbol in one poll                                                    *)

\* An order has something left to fill.
LEMMA LeftPositive ==
  ASSUME TypeOK, NEW s \in Symbols, NEW o \in OrdersOf(s)
  PROVE  /\ o \in OrderRecords /\ o \in orders /\ o.sym = s
         /\ o.left \in Nat /\ o.left > 0
  BY DEF TypeOK, OrdersOf, OrderRecords

\* When the reported holding is where a BUY was heading for, the BUY is done.
LEMMA BuyArrived ==
  ASSUME TypeOK, NEW s \in Symbols, BuyHeadsFor(s, reported[s])
  PROVE  SettledFor(s)
<1>1. holdings[s] \in Nat /\ reported[s] \in Nat
  BY DEF TypeOK
<1>2. reported[s] = holdings[s]
  BY <1>1 DEF BuyHeadsFor
<1>3. ASSUME NEW o \in OrdersOf(s) PROVE FALSE
  BY <1>1, <1>2, LeftPositive DEF BuyHeadsFor
<1> QED BY <1>2, <1>3 DEF SettledFor

\* When nothing is reported to be held any more, the SELL is done.
LEMMA SellArrived ==
  ASSUME TypeOK, NEW s \in Symbols, SellHeadsFor(s), reported[s] = 0
  PROVE  SettledFor(s)
<1>1. holdings[s] \in Nat /\ reported[s] \in Nat
  BY DEF TypeOK
<1>2. reported[s] = holdings[s]
  BY <1>1 DEF SellHeadsFor
<1>3. ASSUME NEW o \in OrdersOf(s) PROVE FALSE
  BY <1>1, <1>2, LeftPositive DEF SellHeadsFor
<1> QED BY <1>2, <1>3 DEF SettledFor

\* A poll with the reported holding keeps the agreement with the broker, makes
\* the known quantity current, and finds nothing new about a settled symbol.
LEMMA PollAgrees ==
  ASSUME TypeOK, NEW s \in Symbols, NEW st \in SymbolState, Agrees(s, st, FALSE),
         NEW late, NEW filled, NEW n, n = PollSymbol(st, reported[s], late, filled)
  PROVE  /\ Agrees(s, n, TRUE)
         /\ NothingToForget(s, st) =>
              /\ SettledFor(s) /\ ~HasOrphan(n)
              /\ HardBlock(n) => n.lifecycle = "ERROR" /\ st.lifecycle = "ERROR"
<1> DEFINE q == reported[s]
<1>1. q \in Nat /\ holdings[s] \in Nat /\ st.expected \in Nat /\ st.delta \in Int
  BY Fields DEF TypeOK
<1>2. WellFormed(st)
  BY DEF Agrees, WellFormed
<1>3. st.lifecycle = "BUY_PENDING" => q <= st.expected
  BY <1>1 DEF Agrees, BuyHeadsFor
<1>4. HasOrphan(st) => st.delta # 0
  BY <1>1 DEF Agrees
<1>5. PollOutcome(st, q, n)
  BY <1>1, <1>2, <1>3, <1>4, PollEffect
<1>6. WellFormed(n) /\ n.expected = st.expected
  BY <1>5 DEF PollOutcome
<1>7. CASE ~HardBlock(n) /\ n.known = q /\ Reached(st, q)
  <2>1. SettledFor(s)
    <3>1. CASE ~HardBlock(st)
      BY <3>1 DEF Agrees
    <3>2. CASE st.lifecycle = "BUY_PENDING" /\ q = st.expected
      BY <3>2, BuyArrived DEF Agrees
    <3>3. CASE st.lifecycle = "SELL_PENDING" /\ q = 0
      BY <3>3, SellArrived DEF Agrees
    <3>4. CASE HasOrphan(st) /\ st.delta < 0 /\ q = 0
      BY <1>1, <3>4, SellArrived DEF Agrees
    <3>5. CASE HasOrphan(st) /\ st.delta > 0 /\ q = st.expected
      BY <1>1, <3>5, BuyArrived DEF Agrees
    <3> QED BY <1>7, <3>1, <3>2, <3>3, <3>4, <3>5 DEF Reached
  <2>2. n.known = holdings[s]
    BY <1>7, <2>1 DEF SettledFor
  <2> QED BY <1>6, <1>7, <2>1, <2>2 DEF Agrees, WellFormed, HardBlock, Pendings
<1>8. CASE n.lifecycle = "ERROR" /\ HardBlock(st)
  BY <1>6, <1>8 DEF Agrees, WellFormed, HardBlock, NothingToForget, Pendings
<1>9. CASE StillOpen(st, n)
  <2>1. ~NothingToForget(s, st)
    BY <1>9 DEF StillOpen, NothingToForget, HardBlock, Pendings
  <2>2. CASE n.lifecycle = st.lifecycle /\ n.lifecycle \in Pendings
    <3>1. ~HasOrphan(n) /\ HardBlock(n)
      BY <1>6, <2>2 DEF WellFormed, HardBlock
    <3> QED BY <1>6, <2>1, <2>2, <3>1 DEF Agrees, WellFormed, Pendings
  <2>3. CASE /\ HasOrphan(n) /\ n.lifecycle \in {"OPEN", "FLAT"} /\ n.delta > 0
             /\ st.lifecycle = "BUY_PENDING" \/ (HasOrphan(st) /\ st.delta > 0)
    <3>1. BuyHeadsFor(s, st.expected)
      BY <1>1, <2>3 DEF Agrees
    <3> QED BY <1>6, <2>1, <2>3, <3>1 DEF Agrees, HardBlock, Pendings
  <2>4. CASE /\ HasOrphan(n) /\ n.lifecycle \in {"OPEN", "FLAT"} /\ n.delta < 0
             /\ st.lifecycle = "SELL_PENDING" \/ (HasOrphan(st) /\ st.delta < 0)
    <3>1. SellHeadsFor(s)
      BY <1>1, <2>4 DEF Agrees
    <3> QED BY <1>6, <2>1, <2>4, <3>1 DEF Agrees, HardBlock, Pendings
  <2> QED BY <1>9, <2>2, <2>3, <2>4 DEF StillOpen
<1> QED BY <1>5, <1>7, <1>8, <1>9 DEF PollOutcome

\* An operator command frees only a symbol that is settled.
LEMMA CommandsAgree ==
  ASSUME IInv, ~StaleAcks, NEW s \in Symbols,
         NEW errors \in SUBSET {t \in Symbols : MayAckError(t)},
         NEW orphans \in SUBSET {t \in Symbols : MayAckOrphan(t)},
         NEW st, st = AfterCommands(errors, orphans)[s]
  PROVE  /\ st \in SymbolState /\ Agrees(s, st, FALSE)
         /\ NothingToForget(s, psm[s]) => NothingToForget(s, st)
         /\ st.lifecycle = "ERROR" => psm[s].lifecycle = "ERROR"
         /\ st.known = psm[s].known \/ (SettledFor(s) /\ st.known = holdings[s])
<1>1. TypeOK /\ psm[s] \in SymbolState /\ Agrees(s, psm[s], initialized)
  BY DEF IInv, TypeOK, LifecyclesAgree
<1>2. st \in SymbolState
  BY <1>1, CommandsTyped
<1>3. CASE s \in errors
  <2>1. psm[s].lifecycle = "ERROR" /\ SettledFor(s)
    BY <1>3 DEF MayAckError, LookedUp, SettledFor
  <2>2. st = AcknowledgeError(psm[s], reported[s])
    BY <1>3 DEF AfterCommands
  <2>3. /\ st.known = reported[s] /\ st.lifecycle \in {"OPEN", "FLAT"}
        /\ st.orphan = psm[s].orphan
    BY <1>1, <2>2 DEF AcknowledgeError, SymbolState, Settled
  <2>4. ~HasOrphan(st)
    BY <1>1, <2>1, <2>3 DEF Agrees, HasOrphan
  <2> QED
    BY <1>2, <2>1, <2>3, <2>4 DEF Agrees, NothingToForget, SettledFor, HardBlock, Pendings
<1>4. CASE s \notin errors /\ s \in orphans
  <2>1. HasOrphan(psm[s]) /\ SettledFor(s)
    BY <1>4 DEF MayAckOrphan, LookedUp, SettledFor
  <2>2. st = ClearOrphan(psm[s])
    BY <1>4 DEF AfterCommands
  <2>3. /\ ~HasOrphan(st) /\ st.lifecycle = psm[s].lifecycle /\ st.known = psm[s].known
    BY <1>1, <2>2, ClearOrphanEffect
  <2> QED
    BY <1>1, <1>2, <2>1, <2>3 DEF Agrees, NothingToForget, HardBlock, Pendings
<1>5. CASE s \notin errors /\ s \notin orphans
  <2>1. st = psm[s]
    BY <1>5 DEF AfterCommands
  <2> QED BY <1>1, <2>1 DEF Agrees
<1> QED BY <1>3, <1>4, <1>5

\* One symbol in a whole synchronisation with the reported balance: first the
\* commands, then the poll (or, the first time, only the quantity).
LEMMA SyncSymbol ==
  ASSUME IInv, ~StaleAcks, Sync(reported), NEW s \in Symbols
  PROVE  /\ Agrees(s, psm'[s], TRUE)
         /\ NothingToForget(s, psm[s]) =>
              /\ SettledFor(s) /\ ~HasOrphan(psm'[s])
              /\ HardBlock(psm'[s]) => /\ psm'[s].lifecycle = "ERROR"
                                       /\ journal[s] # NoOrder /\ journal'[s] = journal[s]
<1> DEFINE q == reported[s]
<1>1. PICK errors \in SUBSET {t \in Symbols : MayAckError(t)},
           orphans \in SUBSET {t \in Symbols : MayAckOrphan(t)} :
        LET after == AfterCommands(errors, orphans) IN
        IF ~initialized
        THEN /\ psm' = [t \in Symbols |->
                          IF reported[t] > 0 THEN SyncFromBroker(after[t], reported[t])
                          ELSE after[t]]
             /\ UNCHANGED journal
        ELSE /\ \E late \in SUBSET {t \in Symbols : after[t].lifecycle \in Pendings},
                   filled \in FilledAnswers(after) :
                  psm' = [t \in Symbols |->
                            PollSymbol(after[t], reported[t], t \in late, t \in filled)]
             /\ MaintainJournal
  BY DEF Sync
<1> DEFINE st == AfterCommands(errors, orphans)[s]
           n  == psm'[s]
<1>2. /\ st \in SymbolState /\ Agrees(s, st, FALSE)
      /\ NothingToForget(s, psm[s]) => NothingToForget(s, st)
      /\ st.lifecycle = "ERROR" => psm[s].lifecycle = "ERROR"
      /\ st.known = psm[s].known \/ (SettledFor(s) /\ st.known = holdings[s])
  BY CommandsAgree
<1>3. q \in Nat /\ TypeOK
  BY DEF IInv, TypeOK
<1>4. psm[s].lifecycle = "ERROR" /\ NothingToForget(s, psm[s]) => journal[s] # NoOrder
  BY DEF NothingToForget, HardBlock
<1>5. CASE ~initialized
  <2>1. n = (IF q > 0 THEN SyncFromBroker(st, q) ELSE st) /\ journal' = journal
    BY <1>1, <1>5
  <2>2. psm[s].known = 0
    BY <1>5 DEF IInv, NotYetInitialized
  <2> HIDE DEF st, n
  <2>3. /\ q > 0 => n.known = q
        /\ q = 0 => n.known = st.known
        /\ n.pending = st.pending /\ n.expected = st.expected
        /\ n.orphan = st.orphan /\ n.delta = st.delta
        /\ HardBlockNoOrphan(st) => n.lifecycle = st.lifecycle
        /\ ~HardBlockNoOrphan(st) => n.lifecycle \in {"OPEN", "FLAT"}
    <3>1. CASE q > 0
      BY <1>2, <1>3, <2>1, <3>1, SyncEffect
    <3>2. CASE q = 0
      <4>1. n = st
        BY <2>1, <3>2
      <4> QED BY <1>2, <3>2, <4>1, Fields DEF HardBlockNoOrphan, Lifecycles
    <3> QED BY <1>3, <3>1, <3>2
  <2>4. HasOrphan(n) = HasOrphan(st) /\ HardBlock(n) = HardBlock(st)
    BY <2>3 DEF HasOrphan, HardBlock, HardBlockNoOrphan, Pendings
  <2>5. ~HardBlock(n) => SettledFor(s) /\ n.known = holdings[s]
    BY <1>2, <1>3, <2>2, <2>3, <2>4 DEF Agrees, SettledFor
  <2>6. Agrees(s, n, TRUE)
    BY <1>2, <2>3, <2>4, <2>5 DEF Agrees, HardBlockNoOrphan, Pendings
  <2> QED BY <1>2, <1>4, <2>1, <2>3, <2>4, <2>6 DEF n, NothingToForget, HardBlockNoOrphan
<1>6. CASE initialized
  <2>1. PICK late \in SUBSET {t \in Symbols :
                               AfterCommands(errors, orphans)[t].lifecycle \in Pendings},
             filled \in FilledAnswers(AfterCommands(errors, orphans)) :
          psm' = [t \in Symbols |-> PollSymbol(AfterCommands(errors, orphans)[t],
                                      reported[t], t \in late, t \in filled)]
    BY <1>1, <1>6
  <2>2. n = PollSymbol(st, q, s \in late, s \in filled)
    BY <2>1
  <2>3. PICK stuck : journal' = Removed({t \in Symbols \ stuck : DropsRecord(psm'[t])})
    BY <1>1, <1>6 DEF MaintainJournal
  <2>4. n.lifecycle = "ERROR" => journal'[s] = journal[s]
    BY <2>3 DEF Removed, DropsRecord, NothingOutstanding
  <2> HIDE DEF st, n
  <2>5. /\ Agrees(s, n, TRUE)
        /\ NothingToForget(s, st) =>
             /\ SettledFor(s) /\ ~HasOrphan(n)
             /\ HardBlock(n) => n.lifecycle = "ERROR" /\ st.lifecycle = "ERROR"
    BY <1>2, <1>3, <2>2, PollAgrees
  <2> QED BY <1>2, <1>4, <2>4, <2>5 DEF n
<1> QED BY <1>5, <1>6

\* A synchronisation with the reported balance keeps what IInv says of the
\* lifecycles and of the intents, in memory and on disk.
LEMMA SyncKeeps ==
  ASSUME IInv, ~StaleAcks, Sync(reported), UNCHANGED broker
  PROVE  /\ LifecyclesAgree' /\ initialized' = TRUE
         /\ IntentCovers(intents)'
         /\ \A s \in Symbols \ savedIntents : NothingToForget(s, psm[s])'
<1>1. initialized' = TRUE
  BY DEF Sync, IInv, TypeOK
<1>2. ASSUME NEW s \in Symbols
      PROVE  Agrees(s, psm[s], initialized)'
  <2>1. Agrees(s, psm'[s], TRUE)
    BY SyncSymbol
  <2> QED BY <1>1, <2>1 DEF Agrees, SettledFor, BuyHeadsFor, SellHeadsFor, OrdersOf, broker
<1>3. ASSUME NEW s \in Symbols, NothingToForget(s, psm[s])
      PROVE  NothingToForget(s, psm[s])'
  <2>1. /\ SettledFor(s) /\ ~HasOrphan(psm'[s])
        /\ HardBlock(psm'[s]) => /\ psm'[s].lifecycle = "ERROR"
                                 /\ journal[s] # NoOrder /\ journal'[s] = journal[s]
    BY <1>3, SyncSymbol
  <2> QED BY <2>1 DEF NothingToForget, SettledFor, OrdersOf, broker
<1>4. ASSUME NEW s \in Symbols \ intents' PROVE NothingToForget(s, psm[s])'
  <2>1. CASE s \notin intents
    BY <1>3, <2>1 DEF IInv, IntentCovers
  <2>2. CASE s \in intents
    <3>1. DropsIntent(psm'[s])
      BY <2>2 DEF Sync
    <3>2. ~HardBlock(psm'[s]) /\ ~HasOrphan(psm'[s])
      BY <3>1 DEF DropsIntent, NothingOutstanding, HardBlock, Pendings
    <3>3. SettledFor(s)
      BY <3>2, SyncSymbol DEF Agrees
    <3> QED BY <3>2, <3>3 DEF NothingToForget, SettledFor, OrdersOf, broker
  <2> QED BY <2>1, <2>2
<1>5. IntentCovers(intents)'
  BY <1>4 DEF IntentCovers
<1>6. \A s \in Symbols \ savedIntents : NothingToForget(s, psm[s])'
  BY <1>3 DEF IInv, IntentCovers
<1> QED BY <1>1, <1>2, <1>5, <1>6 DEF LifecyclesAgree

-----------------------------------------------------------------------------
(* Every action keeps the invariant                                          *)

LEMMA RunOnceSafe ==
  ASSUME IInv, ~StaleAcks, RunOnce
  PROVE  IInv'
<1>1. TypeOK'
  BY TypeStep DEF IInv, Next, Cycle
<1>2. view' = reported
  <2>1. CASE cached /\ ~HasUnresolvedOrders /\ view' = view
    <3>1. intents = {}
      BY <2>1 DEF HasUnresolvedOrders
    <3>2. \A s \in Symbols : view[s] = reported[s]
      BY <2>1, <3>1 DEF IInv, ViewIsCurrent
    <3> QED BY <2>1, <3>2 DEF IInv, TypeOK
  <2> QED BY <2>1 DEF RunOnce
<1>3. Sync(reported) /\ UNCHANGED <<broker, savedIntents, caller>> /\ stage = "idle"
  BY <1>2 DEF RunOnce
<1>4. /\ LifecyclesAgree' /\ initialized' = TRUE
      /\ IntentCovers(intents)' /\ IntentCovers(savedIntents)'
  BY <1>3, SyncKeeps DEF IntentCovers
<1>5. caller = None
  BY <1>3 DEF IInv, CallIsOpen
<1>6. NoOverlap' /\ CallIsOpen'
  BY <1>3, <1>5 DEF IInv, NoOverlap, CallIsOpen, broker
<1>7. ViewIsCurrent' /\ NotYetInitialized'
  BY <1>2, <1>3, <1>4 DEF ViewIsCurrent, NotYetInitialized, broker
<1> QED BY <1>1, <1>4, <1>6, <1>7 DEF IInv

LEMMA ReconcileSafe ==
  ASSUME IInv, ~StaleAcks, ReconcileAfterMarketClose
  PROVE  IInv'
<1>1. TypeOK'
  BY TypeStep DEF IInv, Next
<1>2. /\ Sync(reported) /\ UNCHANGED <<broker, caller, stage>> /\ stage = "idle"
      /\ view' = reported
  BY DEF ReconcileAfterMarketClose
<1>3. /\ LifecyclesAgree' /\ initialized' = TRUE /\ IntentCovers(intents)'
      /\ \A s \in Symbols \ savedIntents : NothingToForget(s, psm[s])'
  BY <1>2, SyncKeeps
<1>4. IntentCovers(savedIntents)'
  BY <1>3 DEF ReconcileAfterMarketClose, SaveIntents, IntentCovers
<1>5. caller = None
  BY <1>2 DEF IInv, CallIsOpen
<1>6. NoOverlap' /\ CallIsOpen'
  BY <1>2, <1>5 DEF IInv, NoOverlap, CallIsOpen, broker
<1>7. ViewIsCurrent' /\ NotYetInitialized'
  BY <1>2, <1>3 DEF ViewIsCurrent, NotYetInitialized, broker
<1> QED BY <1>1, <1>3, <1>4, <1>6, <1>7 DEF IInv

\* The steps of a cycle that only move on, and the save at its end.
LEMMA MovingOnSafe ==
  ASSUME IInv, BeginLoop \/ EndCycle \/ \E s \in Symbols : Pass(s)
  PROVE  IInv'
<1>1. TypeOK'
  BY TypeStep DEF IInv, Next, Cycle
<1>2. /\ UNCHANGED <<psm, intents, initialized, view, cached, caller, reply, journal,
                     orders, lastId, holdings, reported>>
      /\ savedIntents' \in {savedIntents, intents}
      /\ stage # "idle" \/ stage' = stage
      /\ caller = None
  BY DEF BeginLoop, EndCycle, Pass, SaveIntents, disk, broker
<1>3. NoOverlap' /\ LifecyclesAgree'
  BY <1>2 DEF IInv, NoOverlap, LifecyclesAgree, Agrees, SettledFor, BuyHeadsFor,
              SellHeadsFor, OrdersOf
<1>4. IntentCovers(intents)' /\ IntentCovers(savedIntents)'
  BY <1>2 DEF IInv, IntentCovers, NothingToForget, SettledFor, OrdersOf
<1>5. CallIsOpen' /\ ViewIsCurrent'
  BY <1>2 DEF IInv, CallIsOpen, ViewIsCurrent, Free, Unanswered
<1>6. NotYetInitialized'
  BY <1>2 DEF IInv, NotYetInitialized
<1> QED BY <1>1, <1>3, <1>4, <1>5, <1>6 DEF IInv

\* The facts under which an order may be sent for s, and what is sent.
MaySend(s, side, qty, requested) ==
  /\ Free(s) /\ stage # "idle"
  /\ requested.pending # NoOrder /\ ~HasOrphan(requested)
  /\ requested.known = psm[s].known
  /\ \/ /\ side = "BUY" /\ requested.lifecycle = "BUY_PENDING"
        /\ qty \in Nat /\ requested.expected = psm[s].known + qty
     \/ /\ side = "SELL" /\ requested.lifecycle = "SELL_PENDING"
        /\ qty = view[s]

\* Sending an order, or failing to write its intent, keeps the invariant.
LEMMA SubmitSafe ==
  ASSUME IInv, TypeOK', NEW s \in Symbols, NEW side, NEW qty, NEW requested,
         Submit(s, side, qty, requested), MaySend(s, side, qty, requested)
  PROVE  IInv'
<1>1. /\ caller = None /\ s \in intents' /\ intents \subseteq intents'
      /\ UNCHANGED <<initialized, view, cached, stage, journal, holdings, reported>>
  BY DEF Submit
<1>2. initialized /\ stage # "idle"
  BY DEF MaySend, IInv, NotYetInitialized, TypeOK
<1>3. SettledFor(s) /\ psm[s].known = holdings[s] /\ view[s] = reported[s]
  BY <1>2 DEF MaySend, Free, IInv, LifecyclesAgree, Agrees, ViewIsCurrent
<1>4. \A t \in Symbols \ intents' : t # s /\ view[t] = reported[t]
  BY <1>1, <1>2 DEF IInv, ViewIsCurrent
<1>5. NotYetInitialized'
  BY <1>1, <1>2 DEF NotYetInitialized
<1>6. CASE UNCHANGED <<savedIntents, psm, caller, reply, lastId, orders>>
  <2>1. NoOverlap' /\ LifecyclesAgree' /\ CallIsOpen'
    BY <1>1, <1>6 DEF IInv, NoOverlap, LifecyclesAgree, Agrees, SettledFor, BuyHeadsFor,
                      SellHeadsFor, OrdersOf, CallIsOpen
  <2>2. IntentCovers(intents)' /\ IntentCovers(savedIntents)'
    BY <1>1, <1>6 DEF IInv, IntentCovers, NothingToForget, SettledFor, OrdersOf
  <2>3. ViewIsCurrent'
    BY <1>1, <1>4, <1>6 DEF IInv, ViewIsCurrent, Free, Unanswered
  <2> QED BY <1>5, <2>1, <2>2, <2>3 DEF IInv
<1>7. CASE ~ UNCHANGED <<savedIntents, psm, caller, reply, lastId, orders>>
  <2> DEFINE new == [id |-> lastId + 1, sym |-> s, side |-> side,
                     left |-> qty, place |-> "wire"]
  <2>1. /\ savedIntents' = intents \cup {s} /\ intents' = intents \cup {s}
        /\ psm' = [psm EXCEPT ![s] = requested]
        /\ caller' = s /\ reply' = "waiting" /\ lastId' = lastId + 1
        /\ orders' = orders \cup {new}
    BY <1>7 DEF Submit, WritesIntent
  <2>2. /\ \A t \in Symbols \ {s} : psm'[t] = psm[t] /\ OrdersOf(t)' = OrdersOf(t)
        /\ psm'[s] = requested /\ OrdersOf(s)' = {new}
    BY <1>3, <2>1 DEF SettledFor, OrdersOf, IInv, TypeOK
  <2>3. \A o \in orders : o.sym # s /\ o.sym \in Symbols
    BY <1>3 DEF SettledFor, OrdersOf, IInv, TypeOK, OrderRecords
  <2>4. new.sym = s /\ new.side = side /\ new.left = qty /\ new.place = "wire"
        /\ new.id = lastId + 1
    OBVIOUS
  <2> HIDE DEF new
  <2>5. NoOverlap'
    BY <2>1, <2>3, <2>4 DEF IInv, NoOverlap
  <2>6. requested.lifecycle \in Pendings /\ HardBlock(requested)
    BY DEF MaySend, Pendings, HardBlock
  <2>7. holdings[s] \in Nat /\ reported[s] = holdings[s]
    BY <1>3 DEF SettledFor, IInv, TypeOK
  <2>8. Agrees(s, psm[s], initialized)'
    <3>1. CASE side = "BUY"
      <4>1. /\ requested.lifecycle = "BUY_PENDING"
            /\ qty \in Nat /\ requested.expected = holdings[s] + qty
        BY <1>3, <3>1 DEF MaySend
      <4>2. BuyHeadsFor(s, requested.expected)'
        BY <1>1, <2>1, <2>2, <2>4, <2>7, <3>1, <4>1 DEF BuyHeadsFor
      <4> QED BY <1>1, <2>2, <2>6, <4>1, <4>2 DEF Agrees, MaySend
    <3>2. CASE side = "SELL"
      <4>1. requested.lifecycle = "SELL_PENDING" /\ qty = holdings[s]
        BY <1>3, <2>7, <3>2 DEF MaySend
      <4>2. SellHeadsFor(s)'
        BY <1>1, <2>1, <2>2, <2>4, <2>7, <3>2, <4>1 DEF SellHeadsFor
      <4> QED BY <1>1, <2>2, <2>6, <4>1, <4>2 DEF Agrees, MaySend
    <3> QED BY <3>1, <3>2 DEF MaySend
  <2>9. ASSUME NEW t \in Symbols \ {s} PROVE Agrees(t, psm[t], initialized)'
    <3>1. Agrees(t, psm[t], initialized)
      BY DEF IInv, LifecyclesAgree
    <3> QED BY <1>1, <2>2, <3>1 DEF Agrees, SettledFor, BuyHeadsFor, SellHeadsFor
  <2>10. LifecyclesAgree'
    BY <2>8, <2>9 DEF LifecyclesAgree
  <2>11. IntentCovers(intents)' /\ IntentCovers(savedIntents)'
    BY <1>1, <2>1, <2>2 DEF IInv, IntentCovers, NothingToForget, SettledFor
  <2>12. CallIsOpen'
    <3>1. lastId \in Nat /\ \A o \in orders : o.id \in Nat /\ o.id <= lastId
      BY DEF IInv, TypeOK, OrderRecords, CallIsOpen
    <3>2. \A o \in orders' : /\ o.id <= lastId'
                             /\ o.id = lastId' <=> o.sym = s
      BY <2>1, <2>3, <2>4, <3>1
    <3>3. /\ stage' # "idle" /\ psm'[s].lifecycle \in Pendings
          /\ reported'[s] = holdings'[s] /\ psm'[s].known = holdings'[s]
      BY <1>1, <1>2, <1>3, <2>2, <2>6, <2>7 DEF MaySend
    <3>4. \A o \in OrdersOf(s)' : o.place = "wire"
      BY <2>2, <2>4
    <3> QED BY <2>1, <3>2, <3>3, <3>4 DEF CallIsOpen
  <2>13. ViewIsCurrent'
    <3>1. \A t \in Symbols : Free(t)' \/ Unanswered(t)' => view[t] = reported[t]
      BY <1>2, <1>3, <2>1, <2>2 DEF IInv, ViewIsCurrent, Free, Unanswered
    <3> QED BY <1>1, <1>4, <3>1 DEF ViewIsCurrent
  <2> QED BY <1>5, <2>5, <2>10, <2>11, <2>12, <2>13 DEF IInv
<1> QED BY <1>6, <1>7

LEMMA SellSafe ==
  ASSUME IInv, NEW s \in Symbols, ForceExit(s) \/ ProcessSell(s)
  PROVE  IInv'
<1>1. TypeOK'
  BY TypeStep DEF IInv, Next, Cycle
<1> DEFINE requested == OnSellRequested(psm[s])
<1>2. Submit(s, "SELL", view[s], requested) /\ Free(s) /\ stage # "idle"
  BY DEF ForceExit, ProcessSell, TrySell, Free
<1>3. /\ requested.pending # NoOrder /\ ~HasOrphan(requested)
      /\ requested.known = psm[s].known /\ requested.lifecycle = "SELL_PENDING"
  BY <1>2 DEF OnSellRequested, IInv, TypeOK, SymbolState, Free, HardBlock, HasOrphan,
              Placeholder, NoOrder
<1>4. MaySend(s, "SELL", view[s], requested)
  BY <1>2, <1>3 DEF MaySend
<1> QED BY <1>1, <1>2, <1>4, SubmitSafe

LEMMA BuySafe ==
  ASSUME IInv, NEW s \in Symbols, ProcessBuy(s)
  PROVE  IInv'
<1>1. TypeOK'
  BY TypeStep DEF IInv, Next, Cycle
<1>2. PICK qty \in 1 .. MaxQty : Submit(s, "BUY", qty, OnBuyRequested(psm[s], qty))
  BY DEF ProcessBuy, TryBuy
<1>3. Free(s) /\ stage # "idle" /\ psm[s] \in SymbolState /\ qty \in Nat
  BY BoundsAssumption DEF ProcessBuy, TryBuy, AccountSettledFor, Free, IInv, TypeOK
<1> DEFINE requested == OnBuyRequested(psm[s], qty)
<1>4. /\ requested.pending # NoOrder /\ ~HasOrphan(requested)
      /\ requested.known = psm[s].known /\ requested.lifecycle = "BUY_PENDING"
      /\ requested.expected = psm[s].known + qty
  BY <1>3 DEF OnBuyRequested, SymbolState, Free, HardBlock, HasOrphan, Placeholder, NoOrder
<1>5. MaySend(s, "BUY", qty, requested)
  BY <1>3, <1>4 DEF MaySend
<1> QED BY <1>1, <1>2, <1>5, SubmitSafe

\* What is known of the symbol whose call is running, once it has returned.
LEMMA CallerFacts ==
  ASSUME IInv, caller # None
  PROVE  /\ caller \in Symbols /\ psm[caller] \in SymbolState
         /\ Agrees(caller, psm[caller], TRUE)
         /\ psm[caller].lifecycle \in Pendings /\ psm[caller].pending # NoOrder
         /\ ~HasOrphan(psm[caller])
         /\ caller \in intents /\ caller \in savedIntents
         /\ stage # "idle" /\ initialized
<1>1. caller \in Symbols /\ psm[caller] \in SymbolState /\ initialized
  BY DEF IInv, TypeOK, NotYetInitialized
<1>2. psm[caller].lifecycle \in Pendings /\ stage # "idle"
  BY DEF IInv, CallIsOpen
<1>3. Agrees(caller, psm[caller], TRUE)
  BY <1>1 DEF IInv, LifecyclesAgree
<1>4. ~NothingToForget(caller, psm[caller])
  BY <1>2 DEF NothingToForget, HardBlock, Pendings
<1>5. caller \in intents /\ caller \in savedIntents
  BY <1>1, <1>4 DEF IInv, IntentCovers
<1> QED BY <1>1, <1>2, <1>3, <1>5 DEF Agrees

LEMMA AcceptedSafe ==
  ASSUME IInv, HandleAccepted
  PROVE  IInv'
<1>1. TypeOK'
  BY TypeStep DEF IInv, Next, Returned
<1>0. PICK s \in Symbols : s = caller /\ caller # None
  BY CallerFacts DEF HandleAccepted
<1>2. /\ s # None /\ caller' = None /\ cached' = FALSE
      /\ UNCHANGED <<intents, savedIntents, initialized, view, stage,
                     orders, lastId, holdings, reported>>
  BY <1>0 DEF HandleAccepted, Resume, broker
<1>3. PICK id \in {lastId, NoOrder} :
        /\ psm' = [psm EXCEPT ![s] = ConfirmPendingOrderId(@, id)]
        /\ \/ IsTrackable(id) /\ journal' = [journal EXCEPT ![s] = id]
           \/ UNCHANGED journal
  BY <1>0 DEF HandleAccepted, CreateJournalEntry, Upserted
<1>4. /\ s \in Symbols /\ psm[s] \in SymbolState /\ psm[s].pending # NoOrder
      /\ Agrees(s, psm[s], TRUE) /\ s \in intents /\ s \in savedIntents /\ initialized
  BY <1>0, <1>2, CallerFacts
<1>5. /\ psm'[s].pending # NoOrder
      /\ psm'[s].lifecycle = psm[s].lifecycle /\ psm'[s].known = psm[s].known
      /\ psm'[s].expected = psm[s].expected
      /\ psm'[s].orphan = psm[s].orphan /\ psm'[s].delta = psm[s].delta
  BY <1>3, <1>4 DEF ConfirmPendingOrderId, SymbolState, UnknownId, NoOrder, IInv, TypeOK
<1>6. /\ \A t \in Symbols \ {s} : psm'[t] = psm[t] /\ journal'[t] = journal[t]
      /\ \A t \in Symbols : HardBlock(psm'[t]) = HardBlock(psm[t])
  BY <1>3, <1>4, <1>5 DEF IInv, TypeOK, HardBlock, HasOrphan
<1>7. \A t \in Symbols : OrdersOf(t)' = OrdersOf(t)
  BY <1>2 DEF OrdersOf
<1>8. LifecyclesAgree'
  <2>1. ASSUME NEW t \in Symbols, t # s PROVE Agrees(t, psm[t], initialized)'
    BY <1>2, <1>6, <1>7, <2>1
    DEF IInv, LifecyclesAgree, Agrees, SettledFor, BuyHeadsFor, SellHeadsFor
  <2>2. Agrees(s, psm'[s], initialized)
    BY <1>4, <1>5, <1>6 DEF Agrees, HasOrphan
  <2>3. Agrees(s, psm[s], initialized)'
    BY <1>2, <1>7, <2>2 DEF Agrees, SettledFor, BuyHeadsFor, SellHeadsFor
  <2> QED BY <2>1, <2>3 DEF LifecyclesAgree
<1>9. IntentCovers(intents)' /\ IntentCovers(savedIntents)'
  BY <1>2, <1>4, <1>6, <1>7 DEF IInv, IntentCovers, NothingToForget, SettledFor
<1>10. NoOverlap' /\ CallIsOpen' /\ NotYetInitialized'
  BY <1>2, <1>4 DEF IInv, NoOverlap, CallIsOpen, NotYetInitialized
<1>11. ViewIsCurrent'
  BY <1>2, <1>6, SymbolsAssumption DEF IInv, ViewIsCurrent, Free, Unanswered
<1> QED BY <1>1, <1>8, <1>9, <1>10, <1>11 DEF IInv

\* A refused order has left nothing behind: its symbol is as it was before.
LEMMA RejectedSafe ==
  ASSUME IInv, HandleRejected
  PROVE  IInv'
<1>1. TypeOK'
  BY TypeStep DEF IInv, Next, Returned
<1>0. PICK s \in Symbols : s = caller /\ caller # None
  BY CallerFacts DEF HandleRejected
<1>2. /\ s # None /\ reply = "rejected" /\ caller' = None
      /\ UNCHANGED <<initialized, view, cached, journal, orders, lastId, holdings, reported>>
      /\ intents' \in {intents, intents \ {s}}
      /\ savedIntents' \in {intents', savedIntents}
  BY <1>0 DEF HandleRejected, broker
<1>3. /\ s \in Symbols /\ psm[s] \in SymbolState /\ ~HasOrphan(psm[s])
      /\ stage # "idle" /\ initialized
  BY <1>0, <1>2, CallerFacts
<1>4. SettledFor(s) /\ psm[s].known = holdings[s] /\ view[s] = reported[s]
  BY <1>0, <1>2, <1>3 DEF IInv, CallIsOpen, SettledFor, ViewIsCurrent, Unanswered
<1>5. /\ psm'[s].lifecycle \in {"OPEN", "FLAT"} /\ psm'[s].pending = NoOrder
      /\ psm'[s].known = psm[s].known /\ psm'[s].orphan = psm[s].orphan
  BY <1>0, <1>3 DEF HandleRejected, OnBuyRejected, OnSellRejected, Settled, SymbolState,
              IInv, TypeOK
<1>6. \A t \in Symbols \ {s} : psm'[t] = psm[t]
  BY <1>0 DEF HandleRejected, IInv, TypeOK
<1>7. \A t \in Symbols : OrdersOf(t)' = OrdersOf(t)
  BY <1>2 DEF OrdersOf
<1>8. ~HardBlock(psm'[s]) /\ ~HasOrphan(psm'[s])
  BY <1>3, <1>5 DEF HardBlock, HasOrphan, Pendings
<1>9. LifecyclesAgree'
  <2>1. ASSUME NEW t \in Symbols, t # s PROVE Agrees(t, psm[t], initialized)'
    BY <1>2, <1>6, <1>7, <2>1
    DEF IInv, LifecyclesAgree, Agrees, SettledFor, BuyHeadsFor, SellHeadsFor
  <2>2. Agrees(s, psm'[s], TRUE)
    BY <1>4, <1>5, <1>8 DEF Agrees, HardBlock, Pendings
  <2>3. Agrees(s, psm[s], initialized)'
    BY <1>2, <1>3, <1>7, <2>2 DEF Agrees, SettledFor, BuyHeadsFor, SellHeadsFor
  <2> QED BY <2>1, <2>3 DEF LifecyclesAgree
<1>10. NothingToForget(s, psm[s])'
  BY <1>2, <1>4, <1>7, <1>8 DEF NothingToForget, SettledFor
<1>11. \A t \in Symbols \ {s} : NothingToForget(t, psm[t]) => NothingToForget(t, psm[t])'
  BY <1>2, <1>6, <1>7 DEF NothingToForget, SettledFor
<1>12. IntentCovers(intents)' /\ IntentCovers(savedIntents)'
  BY <1>2, <1>10, <1>11 DEF IInv, IntentCovers
<1>13. NoOverlap' /\ CallIsOpen' /\ NotYetInitialized'
  BY <1>2, <1>3 DEF IInv, NoOverlap, CallIsOpen, NotYetInitialized
<1>14. ViewIsCurrent'
  <2>1. \A t \in Symbols \ intents' : view[t] = reported[t]
    BY <1>2, <1>3, <1>4 DEF IInv, ViewIsCurrent
  <2>2. \A t \in Symbols : Free(t)' => view[t] = reported[t]
    BY <1>3, <1>4, <1>6 DEF IInv, ViewIsCurrent, Free
  <2> QED BY <1>2, <1>3, <2>1, <2>2, SymbolsAssumption DEF ViewIsCurrent, Unanswered
<1> QED BY <1>1, <1>9, <1>12, <1>13, <1>14 DEF IInv

\* After a lost answer the symbol is blocked, whatever became of the order.
LEMMA NoAnswerSafe ==
  ASSUME IInv, HandleNoAnswer
  PROVE  IInv'
<1>1. TypeOK'
  BY TypeStep DEF IInv, Next, Returned
<1>0. PICK s \in Symbols : s = caller /\ caller # None
  BY CallerFacts DEF HandleNoAnswer
<1>2. /\ s # None /\ caller' = None
      /\ UNCHANGED <<intents, savedIntents, initialized, view, cached, journal,
                     orders, lastId, holdings, reported>>
      /\ psm' = [psm EXCEPT ![s] = OnPlacementAmbiguous(@)]
  BY <1>0 DEF HandleNoAnswer, disk, broker
<1>3. /\ s \in Symbols /\ psm[s] \in SymbolState /\ ~HasOrphan(psm[s])
      /\ stage # "idle" /\ initialized /\ s \in intents /\ s \in savedIntents
  BY <1>0, <1>2, CallerFacts
<1>4. /\ psm'[s].lifecycle = "ERROR" /\ ~HasOrphan(psm'[s])
      /\ \A t \in Symbols \ {s} : psm'[t] = psm[t]
  BY <1>2, <1>3 DEF OnPlacementAmbiguous, SymbolState, HasOrphan, IInv, TypeOK
<1>5. \A t \in Symbols : OrdersOf(t)' = OrdersOf(t)
  BY <1>2 DEF OrdersOf
<1>6. LifecyclesAgree'
  <2>1. ASSUME NEW t \in Symbols, t # s PROVE Agrees(t, psm[t], initialized)'
    BY <1>2, <1>4, <1>5, <2>1
    DEF IInv, LifecyclesAgree, Agrees, SettledFor, BuyHeadsFor, SellHeadsFor
  <2>2. Agrees(s, psm[s], initialized)'
    BY <1>4 DEF Agrees, HardBlock, Pendings
  <2> QED BY <2>1, <2>2 DEF LifecyclesAgree
<1>7. IntentCovers(intents)' /\ IntentCovers(savedIntents)'
  BY <1>2, <1>3, <1>4, <1>5 DEF IInv, IntentCovers, NothingToForget, SettledFor
<1>8. NoOverlap' /\ CallIsOpen' /\ NotYetInitialized'
  BY <1>2, <1>3 DEF IInv, NoOverlap, CallIsOpen, NotYetInitialized
<1>9. ViewIsCurrent'
  BY <1>2, <1>3, <1>4, SymbolsAssumption DEF IInv, ViewIsCurrent, Free, Unanswered, HardBlock
<1> QED BY <1>1, <1>6, <1>7, <1>8, <1>9 DEF IInv

\* When orders only end, or are taken into the book, what the lifecycles and
\* the intents say of them stays true.
LEMMA FewerOrders ==
  ASSUME IInv,
         UNCHANGED <<psm, intents, savedIntents, initialized, journal, holdings, reported>>,
         \A p \in orders' : \E q \in orders :
            q.sym = p.sym /\ q.side = p.side /\ q.left = p.left
  PROVE  /\ LifecyclesAgree'
         /\ IntentCovers(intents)' /\ IntentCovers(savedIntents)'
<1>1. ASSUME NEW s \in Symbols
      PROVE  /\ SettledFor(s) => SettledFor(s)'
             /\ \A e : BuyHeadsFor(s, e) => BuyHeadsFor(s, e)'
             /\ SellHeadsFor(s) => SellHeadsFor(s)'
  <2>1. \A p \in OrdersOf(s)' : \E q \in OrdersOf(s) : q.side = p.side /\ q.left = p.left
    BY DEF OrdersOf
  <2> QED BY <2>1 DEF SettledFor, BuyHeadsFor, SellHeadsFor
<1>2. LifecyclesAgree'
  BY <1>1 DEF IInv, LifecyclesAgree, Agrees
<1>3. IntentCovers(intents)' /\ IntentCovers(savedIntents)'
  BY <1>1 DEF IInv, IntentCovers, NothingToForget
<1> QED BY <1>2, <1>3

LEMMA AcceptSafe ==
  ASSUME IInv, NEW o \in orders, Accept(o)
  PROVE  IInv'
<1>1. TypeOK'
  BY TypeStep DEF IInv, Next, Broker
<1> DEFINE b == [o EXCEPT !.place = "book"]
<1>2. /\ o.place = "wire" /\ orders' = (orders \ {o}) \cup {b}
      /\ reply' = IF caller # None /\ o.id = lastId THEN "accepted" ELSE reply
      /\ UNCHANGED <<brokerSees, holdings, reported>>
  BY DEF Accept, Answer
<1>3. /\ b.id = o.id /\ b.sym = o.sym /\ b.side = o.side /\ b.left = o.left
      /\ b.place = "book"
  BY DEF IInv, TypeOK, OrderRecords
<1> HIDE DEF b
<1>4. LifecyclesAgree' /\ IntentCovers(intents)' /\ IntentCovers(savedIntents)'
  BY <1>2, <1>3, FewerOrders DEF brokerSees, disk
<1>5. NoOverlap'
  BY <1>2, <1>3 DEF IInv, NoOverlap
<1>6. CallIsOpen'
  <2>1. \A p \in orders' : p.id <= lastId'
    BY <1>2, <1>3 DEF IInv, CallIsOpen, brokerSees
  <2>2. CASE caller = None
    BY <1>2, <2>1, <2>2 DEF CallIsOpen, brokerSees
  <2>3. CASE caller # None /\ o.id = lastId
    <3>1. o.sym = caller /\ reply' = "accepted"
      BY <1>2, <2>3 DEF IInv, CallIsOpen
    <3>2. OrdersOf(caller)' = {b}
      BY <1>2, <1>3, <3>1 DEF IInv, NoOverlap, OrdersOf, brokerSees
    <3> QED BY <1>2, <1>3, <2>1, <2>3, <3>1, <3>2 DEF IInv, CallIsOpen, brokerSees
  <2>4. CASE caller # None /\ o.id # lastId
    <3>1. o.sym # caller /\ reply' = reply
      BY <1>2, <2>4 DEF IInv, CallIsOpen
    <3>2. OrdersOf(caller)' = OrdersOf(caller)
      BY <1>2, <1>3, <3>1 DEF OrdersOf, brokerSees
    <3> QED BY <1>2, <1>3, <2>1, <2>4, <3>1, <3>2 DEF IInv, CallIsOpen, brokerSees
  <2> QED BY <2>2, <2>3, <2>4
<1>7. ViewIsCurrent' /\ NotYetInitialized'
  BY <1>2 DEF IInv, ViewIsCurrent, NotYetInitialized, Free, Unanswered, brokerSees
<1> QED BY <1>1, <1>4, <1>5, <1>6, <1>7 DEF IInv

LEMMA OrderEndsSafe ==
  ASSUME IInv, NEW o \in orders, Refuse(o) \/ Lose(o) \/ Cancel(o)
  PROVE  IInv'
<1>1. TypeOK'
  BY TypeStep DEF IInv, Next, Broker
<1>2. /\ orders' = orders \ {o}
      /\ \/ UNCHANGED reply
         \/ o.place = "wire" /\ o.id = lastId /\ caller # None /\ reply' = "rejected"
      /\ UNCHANGED <<brokerSees, holdings, reported>>
  BY DEF Refuse, Lose, Cancel, Answer
<1>3. LifecyclesAgree' /\ IntentCovers(intents)' /\ IntentCovers(savedIntents)'
  BY <1>2, FewerOrders DEF brokerSees, disk
<1>4. NoOverlap'
  BY <1>2 DEF IInv, NoOverlap
<1>5. reply' # reply => /\ caller # None /\ o.sym = caller /\ reply = "waiting"
                        /\ reply' = "rejected" /\ OrdersOf(caller)' = {}
  <2> SUFFICES ASSUME reply' # reply
               PROVE  /\ caller # None /\ o.sym = caller /\ reply = "waiting"
                      /\ reply' = "rejected" /\ OrdersOf(caller)' = {}
    OBVIOUS
  <2>1. o.place = "wire" /\ o.id = lastId /\ caller # None /\ reply' = "rejected"
    BY <1>2
  <2>2. o.sym = caller /\ o \in OrdersOf(caller)
    BY <2>1 DEF IInv, CallIsOpen, OrdersOf
  <2>3. reply = "waiting"
    BY <2>1, <2>2 DEF IInv, CallIsOpen
  <2>4. OrdersOf(caller)' = {}
    BY <1>2, <2>2 DEF IInv, NoOverlap, OrdersOf, brokerSees
  <2> QED BY <2>1, <2>2, <2>3, <2>4
<1>6. CallIsOpen'
  <2>1. OrdersOf(caller)' \subseteq OrdersOf(caller)
    BY <1>2 DEF OrdersOf, brokerSees
  <2> QED BY <1>2, <1>5, <2>1 DEF IInv, CallIsOpen, brokerSees
<1>7. ViewIsCurrent' /\ NotYetInitialized'
  BY <1>2, <1>5 DEF IInv, ViewIsCurrent, NotYetInitialized, Free, Unanswered, brokerSees
<1> QED BY <1>1, <1>3, <1>4, <1>6, <1>7 DEF IInv

LEMMA CatchUpSafe ==
  ASSUME IInv, NEW s \in Symbols, CatchUp(s)
  PROVE  IInv'
<1>1. TypeOK'
  BY TypeStep DEF IInv, Next, Broker
<1>2. /\ reported[s] # holdings[s]
      /\ UNCHANGED <<brokerSees, reply, orders, holdings>>
      /\ reported'[s] = holdings[s]
      /\ \A t \in Symbols \ {s} : reported'[t] = reported[t]
  BY DEF CatchUp, IInv, TypeOK
<1>3. ~SettledFor(s) /\ ~NothingToForget(s, psm[s]) /\ HardBlock(psm[s])
  BY <1>2 DEF SettledFor, NothingToForget, IInv, LifecyclesAgree, Agrees
<1>4. \A t \in Symbols : OrdersOf(t)' = OrdersOf(t)
  BY <1>2 DEF OrdersOf
<1>5. \A t \in Symbols \ {s} : SettledFor(t)' = SettledFor(t)
  BY <1>2, <1>4 DEF SettledFor
<1>6. ASSUME NEW t \in Symbols, t # s PROVE Agrees(t, psm[t], initialized)'
  BY <1>2, <1>4, <1>5, <1>6
  DEF IInv, LifecyclesAgree, Agrees, BuyHeadsFor, SellHeadsFor, brokerSees
<1>7. Agrees(s, psm[s], initialized)'
  <2>1. holdings[s] \in Nat
    BY DEF IInv, TypeOK
  <2>2. /\ \A e : BuyHeadsFor(s, e) => BuyHeadsFor(s, e)'
        /\ SellHeadsFor(s) => SellHeadsFor(s)'
    BY <1>2, <1>4, <2>1 DEF BuyHeadsFor, SellHeadsFor
  <2> QED BY <1>2, <1>3, <2>2 DEF IInv, LifecyclesAgree, Agrees, brokerSees
<1>8. LifecyclesAgree'
  BY <1>6, <1>7 DEF LifecyclesAgree
<1>9. IntentCovers(intents)' /\ IntentCovers(savedIntents)'
  BY <1>2, <1>3, <1>5 DEF IInv, IntentCovers, NothingToForget, brokerSees, disk
<1>10. caller = s => reply = "accepted"
  BY <1>2, SymbolsAssumption DEF IInv, CallIsOpen
<1>11. NoOverlap' /\ NotYetInitialized'
  BY <1>2 DEF IInv, NoOverlap, NotYetInitialized, brokerSees
<1>12. CallIsOpen'
  <2>1. caller # None => caller \in Symbols
    BY DEF IInv, TypeOK
  <2> QED BY <1>2, <1>4, <1>10, <2>1 DEF IInv, CallIsOpen, brokerSees
<1>13. ViewIsCurrent'
  <2>1. s \in intents /\ ~Free(s) /\ ~Unanswered(s)
    BY <1>3, <1>10 DEF IInv, IntentCovers, Free, Unanswered
  <2> QED BY <1>2, <2>1 DEF IInv, ViewIsCurrent, Free, Unanswered, brokerSees
<1> QED BY <1>1, <1>8, <1>9, <1>11, <1>12, <1>13 DEF IInv

\* A fill moves the holding of a blocked symbol one share towards the target.
LEMMA FillSafe ==
  ASSUME IInv, NEW o \in orders, Fill(o)
  PROVE  IInv'
<1>1. TypeOK'
  BY TypeStep DEF IInv, Next, Broker
<1>2. PICK s \in Symbols : s = o.sym
  BY DEF IInv, TypeOK, OrderRecords
<1> DEFINE rest == [o EXCEPT !.left = o.left - 1]
           now  == IF o.side = "BUY" THEN holdings[s] + 1 ELSE holdings[s] - 1
<1>3. /\ o.place = "book" /\ (o.side = "SELL" => holdings[s] > 0)
      /\ orders' = (orders \ {o}) \cup (IF o.left = 1 THEN {} ELSE {rest})
      /\ UNCHANGED <<brokerSees, reply, reported>>
      /\ holdings'[s] = now
      /\ \A t \in Symbols \ {s} : holdings'[t] = holdings[t]
  BY <1>2 DEF Fill, IInv, TypeOK
<1>4. /\ rest.id = o.id /\ rest.sym = o.sym /\ rest.side = o.side
      /\ rest.left = o.left - 1 /\ rest.place = "book"
      /\ o.left \in Nat /\ o.left > 0 /\ o.side \in Sides /\ holdings[s] \in Nat
      /\ reported[s] \in Nat
  BY <1>3 DEF IInv, TypeOK, OrderRecords
<1> HIDE DEF rest
<1>5. /\ OrdersOf(s) = {o} /\ OrdersOf(s)' = IF o.left = 1 THEN {} ELSE {rest}
      /\ \A t \in Symbols \ {s} : OrdersOf(t)' = OrdersOf(t)
  BY <1>2, <1>3, <1>4 DEF IInv, NoOverlap, OrdersOf
<1>6. ~SettledFor(s) /\ ~NothingToForget(s, psm[s]) /\ HardBlock(psm[s])
  BY <1>5 DEF SettledFor, NothingToForget, IInv, LifecyclesAgree, Agrees
<1>7. ASSUME NEW t \in Symbols, t # s PROVE Agrees(t, psm[t], initialized)'
  BY <1>3, <1>5, <1>7
  DEF IInv, LifecyclesAgree, Agrees, SettledFor, BuyHeadsFor, SellHeadsFor, brokerSees
<1>8. Agrees(s, psm[s], initialized)'
  <2>1. ASSUME NEW e \in Nat, BuyHeadsFor(s, e) PROVE BuyHeadsFor(s, e)'
    <3>1. o.side = "BUY" /\ holdings[s] + o.left = e
      BY <1>5, <2>1 DEF BuyHeadsFor
    <3>2. /\ reported'[s] <= holdings'[s] /\ holdings'[s] <= e
          /\ o.left # 1 => holdings'[s] + rest.left = e
      BY <1>3, <1>4, <2>1, <3>1 DEF BuyHeadsFor, brokerSees
    <3> QED BY <1>4, <1>5, <3>1, <3>2 DEF BuyHeadsFor
  <2>2. ASSUME SellHeadsFor(s) PROVE SellHeadsFor(s)'
    <3>1. o.side = "SELL" /\ o.left = holdings[s]
      BY <1>5, <2>2 DEF SellHeadsFor
    <3>2. /\ holdings'[s] <= reported'[s]
          /\ o.left # 1 => rest.left = holdings'[s]
      BY <1>3, <1>4, <2>2, <3>1 DEF SellHeadsFor
    <3> QED BY <1>4, <1>5, <3>1, <3>2 DEF SellHeadsFor
  <2>3. psm[s].expected \in Nat
    BY Fields DEF IInv, TypeOK
  <2> QED BY <1>3, <1>6, <2>1, <2>2, <2>3 DEF IInv, LifecyclesAgree, Agrees, brokerSees
<1>9. LifecyclesAgree'
  BY <1>7, <1>8 DEF LifecyclesAgree
<1>10. IntentCovers(intents)' /\ IntentCovers(savedIntents)'
  BY <1>3, <1>5, <1>6
  DEF IInv, IntentCovers, NothingToForget, SettledFor, brokerSees, disk
<1>11. NoOverlap'
  BY <1>3, <1>4 DEF IInv, NoOverlap
<1>12. CallIsOpen'
  <2>1. \A p \in orders' : \E q \in orders : q.id = p.id /\ q.sym = p.sym /\ q.place = p.place
    BY <1>3, <1>4
  <2>2. \A p \in orders' : p.id <= lastId
    BY <2>1 DEF IInv, CallIsOpen
  <2>3. CASE caller = None
    BY <1>3, <2>2, <2>3 DEF CallIsOpen, brokerSees
  <2>4. CASE caller # None
    <3>1. PICK c \in Symbols : c = caller /\ c # None
      BY <2>4 DEF IInv, TypeOK
    <3>2. CASE c = s
      <4>1. reply = "accepted"
        BY <1>3, <1>5, <3>1, <3>2 DEF IInv, TypeOK, Replies, CallIsOpen
      <4>2. \A p \in OrdersOf(c)' : p.place = "book"
        BY <1>3, <1>4, <1>5, <3>2
      <4> QED BY <1>3, <2>1, <2>2, <3>1, <4>1, <4>2
              DEF IInv, CallIsOpen, brokerSees, OrdersOf
    <3>3. CASE c # s
      <4>1. OrdersOf(c)' = OrdersOf(c) /\ holdings'[c] = holdings[c]
        BY <1>3, <1>5, <3>3
      <4> QED BY <1>3, <2>1, <2>2, <3>1, <4>1
              DEF IInv, CallIsOpen, brokerSees, OrdersOf
    <3> QED BY <3>2, <3>3
  <2> QED BY <2>3, <2>4
<1>13. ViewIsCurrent' /\ NotYetInitialized'
  BY <1>3 DEF IInv, ViewIsCurrent, NotYetInitialized, Free, Unanswered, brokerSees
<1> QED BY <1>1, <1>9, <1>10, <1>11, <1>12, <1>13 DEF IInv

\* What a restart restores blocks every symbol that has anything outstanding.
LEMMA RestartSafe ==
  ASSUME IInv, CrashRestart
  PROVE  IInv'
<1>1. TypeOK'
  BY TypeStep DEF IInv, Next
<1>2. /\ UNCHANGED <<savedIntents, journal, orders, lastId, holdings, reported>>
      /\ intents' = savedIntents /\ initialized' = FALSE /\ cached' = FALSE
      /\ stage' = "idle" /\ caller' = None
  BY DEF CrashRestart, disk, broker
<1>3. ASSUME NEW s \in Symbols, NEW records
      PROVE  LET n == Restored(s, records) IN
             /\ n.known = 0 /\ ~HasOrphan(n)
             /\ \/ n.lifecycle = "ERROR" /\ (s \in savedIntents \/ records[s] # NoOrder)
                \/ n.lifecycle = "FLAT" /\ s \notin savedIntents /\ records[s] = NoOrder
  <2>1. Blank \in SymbolState
    BY Values DEF Blank, SymbolState
  <2> DEFINE id == IF records[s] # NoOrder THEN records[s] ELSE UnknownId
             b  == [Blank EXCEPT !.pending = id]
             n  == Restored(s, records)
  <2>2. /\ b.known = 0 /\ b.orphan = NoOrder
        /\ [b EXCEPT !.lifecycle = "ERROR"].lifecycle = "ERROR"
        /\ [b EXCEPT !.lifecycle = "ERROR"].known = 0
        /\ [b EXCEPT !.lifecycle = "ERROR"].orphan = NoOrder
    BY DEF Blank
  <2>3. CASE s \in savedIntents \/ records[s] # NoOrder
    <3>1. n = [b EXCEPT !.lifecycle = "ERROR"]
      BY <2>3 DEF Restored, OnPlacementAmbiguous
    <3> QED BY <2>2, <2>3, <3>1 DEF HasOrphan
  <2>4. CASE ~(s \in savedIntents \/ records[s] # NoOrder)
    <3>1. n = Blank
      BY <2>4 DEF Restored
    <3> QED BY <2>4, <3>1 DEF Blank, HasOrphan
  <2> QED BY <2>3, <2>4
<1>4. \A s \in Symbols :
        /\ psm'[s].known = 0 /\ ~HasOrphan(psm'[s])
        /\ \/ psm'[s].lifecycle = "ERROR" /\ (s \in savedIntents \/ journal[s] # NoOrder)
           \/ psm'[s].lifecycle = "FLAT" /\ s \notin savedIntents
  <2>1. CASE psm' = [s \in Symbols |-> Restored(s, journal)]
    BY <1>3, <2>1
  <2>2. CASE psm' = [s \in Symbols |-> Restored(s, [t \in Symbols |-> NoOrder])]
    BY <1>3, <2>2
  <2>3. \/ psm' = [s \in Symbols |-> Restored(s, journal)]
        \/ psm' = [s \in Symbols |-> Restored(s, [t \in Symbols |-> NoOrder])]
    BY DEF CrashRestart, LoadAll
  <2> QED BY <2>1, <2>2, <2>3
<1>5. \A s \in Symbols \ savedIntents : SettledFor(s)
  BY DEF IInv, IntentCovers, NothingToForget
<1>6. \A s \in Symbols : SettledFor(s)' = SettledFor(s)
  BY <1>2 DEF SettledFor, OrdersOf
<1>7. LifecyclesAgree'
  BY <1>2, <1>4, <1>5, <1>6 DEF LifecyclesAgree, Agrees, HardBlock, Pendings
<1>8. IntentCovers(intents)' /\ IntentCovers(savedIntents)'
  BY <1>2, <1>4, <1>5, <1>6 DEF IntentCovers, NothingToForget, HardBlock, Pendings
<1>9. NoOverlap' /\ CallIsOpen' /\ ViewIsCurrent' /\ NotYetInitialized'
  BY <1>2, <1>4 DEF IInv, NoOverlap, CallIsOpen, ViewIsCurrent, NotYetInitialized
<1> QED BY <1>1, <1>7, <1>8, <1>9 DEF IInv

LEMMA SafeInit == Init => IInv
<1> SUFFICES ASSUME Init PROVE IInv
  OBVIOUS
<1>1. TypeOK
  BY TypeInit
<1>2. \A s \in Symbols : OrdersOf(s) = {} /\ psm[s] = Blank /\ SettledFor(s)
  BY DEF Init, OrdersOf, SettledFor, Nothing
<1>3. ~HardBlock(Blank) /\ Blank.known = 0 /\ Blank.lifecycle = "FLAT" /\ ~HasOrphan(Blank)
  BY DEF Blank, HardBlock, HasOrphan, Pendings
<1>4. LifecyclesAgree
  BY <1>2, <1>3 DEF LifecyclesAgree, Agrees, Pendings, Init
<1>5. IntentCovers(intents) /\ IntentCovers(savedIntents)
  BY <1>2, <1>3 DEF IntentCovers, NothingToForget
<1>6. NoOverlap /\ CallIsOpen /\ ViewIsCurrent /\ NotYetInitialized
  BY <1>2, <1>3 DEF Init, NoOverlap, CallIsOpen, ViewIsCurrent, NotYetInitialized
<1> QED BY <1>1, <1>4, <1>5, <1>6 DEF IInv

LEMMA SafeStep ==
  ASSUME IInv, ~StaleAcks, [Next]_vars
  PROVE  IInv'
<1>1. CASE Cycle
  BY <1>1, RunOnceSafe, MovingOnSafe, SellSafe, BuySafe DEF Cycle
<1>2. CASE ReconcileAfterMarketClose
  BY <1>2, ReconcileSafe
<1>3. CASE Returned
  BY <1>3, AcceptedSafe, RejectedSafe, NoAnswerSafe DEF Returned
<1>4. CASE Broker
  BY <1>4, AcceptSafe, OrderEndsSafe, FillSafe, CatchUpSafe DEF Broker
<1>5. CASE CrashRestart
  BY <1>5, RestartSafe
<1>6. CASE UNCHANGED vars
  BY <1>6 DEF vars, memory, disk, broker, IInv, TypeOK, NoOverlap, LifecyclesAgree, Agrees,
     SettledFor, BuyHeadsFor, SellHeadsFor, OrdersOf, IntentCovers, NothingToForget,
     CallIsOpen, ViewIsCurrent, Free, Unanswered, NotYetInitialized
<1> QED BY <1>1, <1>2, <1>3, <1>4, <1>5, <1>6 DEF Next

-----------------------------------------------------------------------------
(* The theorems                                                              *)

\* The invariant holds in every behaviour in which ack_error commands name
\* only symbols in ERROR, with any symbols, orders, crashes and failing writes.
THEOREM InvariantHolds == ~StaleAcks => (Spec => []IInv)
<1> SUFFICES ASSUME ~StaleAcks PROVE Spec => []IInv
  OBVIOUS
<1>1. Init => IInv
  BY SafeInit
<1>2. IInv /\ [Next]_vars => IInv'
  BY SafeStep
<1> QED BY <1>1, <1>2, PTL DEF Spec

\* Two orders of one symbol are never outstanding together.
THEOREM OrdersNeverOverlap == ~StaleAcks => (Spec => []NoOverlap)
<1>1. IInv => NoOverlap
  BY DEF IInv
<1> QED BY <1>1, InvariantHolds, PTL

\* A symbol stays under a HARD block as long as an order of it can be filled.
THEOREM LiveOrdersAreBlocked == ~StaleAcks => (Spec => []LiveOrderBlocks)
<1>1. IInv => LiveOrderBlocks
  BY DEF IInv, LifecyclesAgree, Agrees, SettledFor, LiveOrderBlocks, OrdersOf, TypeOK,
         OrderRecords
<1> QED BY <1>1, InvariantHolds, PTL

\* What blocks a symbol is on disk at every moment.
THEOREM BlocksAreDurable == ~StaleAcks => (Spec => []BlockIsDurable)
<1>1. IInv => BlockIsDurable
  BY DEF IInv, IntentCovers, NothingToForget, BlockIsDurable
<1> QED BY <1>1, InvariantHolds, PTL

-----------------------------------------------------------------------------
(* The order path implements the abstract book                              *)

\* Sending an order is a Buy or a Sell of the abstract book.
LEMMA SubmitShown ==
  ASSUME IInv, NEW s \in Symbols, NEW side \in Sides, NEW qty, NEW requested,
         Submit(s, side, qty, requested), Free(s),
         side = "BUY" => AccountSettledFor(s)
  PROVE  Book!Buy \/ Book!Sell \/ UNCHANGED ShownOrders
<1>1. CASE UNCHANGED orders
  BY <1>1 DEF ShownOrders
<1>2. CASE ~ UNCHANGED orders
  <2> DEFINE new == [id |-> lastId + 1, sym |-> s, side |-> side,
                     left |-> qty, place |-> "wire"]
             shown == [id |-> lastId + 1, sym |-> s, side |-> side]
  <2>1. orders' = orders \cup {new} /\ lastId < MaxOrders
    BY <1>2 DEF Submit
  <2>2. lastId + 1 \in 1 .. MaxOrders
    BY <2>1, BoundsAssumption DEF IInv, TypeOK
  <2>3. Shown(new) = shown
    BY DEF Shown
  <2>4. ShownOrders' = ShownOrders \cup {shown}
    <3> HIDE DEF new, shown
    <3>1. ShownOrders' = {Shown(o) : o \in orders \cup {new}}
      BY <2>1 DEF ShownOrders, Shown
    <3> QED BY <2>3, <3>1 DEF ShownOrders
  <2>5. \A o \in orders : o.sym # s
    BY DEF IInv, LifecyclesAgree, Agrees, SettledFor, Free, OrdersOf
  <2>6. \A o \in ShownOrders : o.sym # s
    BY <2>5 DEF ShownOrders, Shown
  <2>7. shown.sym = s /\ shown \notin ShownOrders
    BY <2>6
  <2>8. Book!Send(shown)
    BY <2>4, <2>7 DEF Book!Send
  <2>9. CASE side = "SELL"
    BY <2>2, <2>6, <2>8, <2>9 DEF Book!Sell
  <2>10. CASE side = "BUY"
    <3>1. \A t \in Symbols : OrdersOf(t) = {}
      BY <2>10 DEF AccountSettledFor, IInv, LifecyclesAgree, Agrees, SettledFor
    <3>2. orders = {}
      BY <3>1 DEF OrdersOf, IInv, TypeOK, OrderRecords
    <3>3. ShownOrders = {}
      BY <3>2 DEF ShownOrders
    <3> QED BY <2>2, <2>8, <2>10, <3>3 DEF Book!Buy
  <2> QED BY <2>9, <2>10 DEF Sides
<1> QED BY <1>1, <1>2

\* So is what the broker does with one: the order is still there, or ended.
LEMMA BrokerShown ==
  ASSUME IInv, Broker
  PROVE  Book!Finish \/ UNCHANGED ShownOrders
<1>1. ASSUME NEW o \in orders, orders' = orders \ {o}
      PROVE  Book!Finish
  <2>1. \A p \in orders : Shown(p) = Shown(o) => p = o
    <3>1. \A p : Shown(p).sym = p.sym
      BY DEF Shown
    <3> QED BY <3>1 DEF IInv, NoOverlap
  <2>2. ShownOrders' = ShownOrders \ {Shown(o)}
    <3>1. ShownOrders' = {Shown(p) : p \in orders \ {o}}
      BY <1>1 DEF ShownOrders, Shown
    <3> QED BY <2>1, <3>1 DEF ShownOrders
  <2> QED BY <2>2 DEF Book!Finish, ShownOrders
<1>2. ASSUME NEW o \in orders, NEW p, Shown(p) = Shown(o),
             orders' = (orders \ {o}) \cup {p}
      PROVE  UNCHANGED ShownOrders
  <2>1. ShownOrders' = {Shown(x) : x \in (orders \ {o}) \cup {p}}
    BY <1>2 DEF ShownOrders, Shown
  <2> QED BY <1>2, <2>1 DEF ShownOrders
<1>3. ASSUME NEW o \in orders, Accept(o) PROVE UNCHANGED ShownOrders
  <2>1. Shown([o EXCEPT !.place = "book"]) = Shown(o)
    BY DEF Shown, IInv, TypeOK, OrderRecords
  <2>2. orders' = (orders \ {o}) \cup {[o EXCEPT !.place = "book"]}
    BY <1>3 DEF Accept
  <2> QED BY <1>2, <2>1, <2>2
<1>4. ASSUME NEW o \in orders, Fill(o) PROVE Book!Finish \/ UNCHANGED ShownOrders
  <2>1. Shown([o EXCEPT !.left = o.left - 1]) = Shown(o)
    BY DEF Shown, IInv, TypeOK, OrderRecords
  <2>2. CASE o.left = 1
    <3>1. orders' = orders \ {o}
      BY <1>4, <2>2 DEF Fill
    <3> QED BY <1>1, <3>1
  <2>3. CASE o.left # 1
    <3>1. orders' = (orders \ {o}) \cup {[o EXCEPT !.left = o.left - 1]}
      BY <1>4, <2>3 DEF Fill
    <3> QED BY <1>2, <2>1, <3>1
  <2> QED BY <2>2, <2>3
<1>5. ASSUME NEW o \in orders, Refuse(o) \/ Lose(o) \/ Cancel(o) PROVE Book!Finish
  BY <1>1, <1>5 DEF Refuse, Lose, Cancel
<1>6. ASSUME NEW s \in Symbols, CatchUp(s) PROVE UNCHANGED ShownOrders
  BY <1>6 DEF CatchUp, ShownOrders
<1> QED BY <1>3, <1>4, <1>5, <1>6 DEF Broker

LEMMA StepShown ==
  ASSUME IInv, [Next]_vars
  PROVE  [Book!Next]_ShownOrders
<1>1. ASSUME NEW s \in Symbols, ForceExit(s) \/ ProcessSell(s)
      PROVE  Book!Buy \/ Book!Sell \/ UNCHANGED ShownOrders
  <2>1. Submit(s, "SELL", view[s], OnSellRequested(psm[s])) /\ Free(s)
    BY <1>1 DEF ForceExit, ProcessSell, TrySell, Free
  <2> QED BY <2>1, SubmitShown DEF Sides
<1>2. ASSUME NEW s \in Symbols, ProcessBuy(s)
      PROVE  Book!Buy \/ Book!Sell \/ UNCHANGED ShownOrders
  <2>1. AccountSettledFor(s) /\ Free(s)
    BY <1>2 DEF ProcessBuy, TryBuy, AccountSettledFor, Free
  <2>2. PICK qty : Submit(s, "BUY", qty, OnBuyRequested(psm[s], qty))
    BY <1>2 DEF ProcessBuy, TryBuy
  <2> QED BY <2>1, <2>2, SubmitShown DEF Sides
<1>3. CASE Broker
  BY <1>3, BrokerShown DEF Book!Next
<1>4. CASE UNCHANGED orders
  BY <1>4 DEF ShownOrders
<1> QED
  BY <1>1, <1>2, <1>3, <1>4
  DEF Next, Cycle, Returned, RunOnce, BeginLoop, EndCycle, Pass, ReconcileAfterMarketClose,
      HandleAccepted, HandleRejected, HandleNoAnswer, CrashRestart, vars, disk, broker,
      Book!Next

\* Whatever is lost, delayed, refused or restarted, the orders outstanding are
\* those of the abstract book: BUYs alone, SELLs alone on their symbol.
THEOREM RefinesOrderBook == ~StaleAcks => (Spec => ImplementsOrderBook)
<1> SUFFICES ASSUME ~StaleAcks PROVE Spec => ImplementsOrderBook
  OBVIOUS
<1>1. Init => Book!Init
  BY DEF Init, Book!Init, ShownOrders
<1>2. IInv /\ [Next]_vars => [Book!Next]_ShownOrders
  BY StepShown
<1>3. Spec => []IInv
  BY InvariantHolds
<1> QED BY <1>1, <1>2, <1>3, PTL DEF Spec, Book!Spec, ImplementsOrderBook

-----------------------------------------------------------------------------
(* max_positions                                                             *)

\* When a BUY is sent the balance is up to date and no other BUY is under way.
LEMMA BuyTakes ==
  ASSUME IInv, NEW s \in Symbols, ProcessBuy(s)
  PROVE  /\ Taken' \subseteq Taken \cup {s}
         /\ Cardinality(Taken) < MaxPositions
<1>1. PICK qty : Submit(s, "BUY", qty, OnBuyRequested(psm[s], qty))
  BY DEF ProcessBuy, TryBuy
<1>2. UNCHANGED holdings /\ \A o \in orders' \ orders : o.sym = s
  BY <1>1 DEF Submit
<1>3. Taken' \subseteq Taken \cup {s}
  BY <1>2 DEF Taken, OrdersOf
<1>4. \A t \in Symbols : SettledFor(t)
  BY DEF ProcessBuy, TryBuy, AccountSettledFor, IInv, LifecyclesAgree, Agrees
<1>5. Taken = {t \in Symbols : reported[t] > 0}
  BY <1>4 DEF Taken, SettledFor
<1>6. HasFreeSlot
  BY DEF ProcessBuy, TryBuy
<1> QED BY <1>3, <1>5, <1>6 DEF HasFreeSlot

\* What the broker does with an order takes no further symbol: a fill of a
\* BUY turns an order into a holding.
LEMMA BrokerTakes ==
  ASSUME IInv, Broker
  PROVE  Taken' \subseteq Taken
<1>1. ASSUME NEW o \in orders, Accept(o) PROVE Taken' \subseteq Taken
  <2> DEFINE b == [o EXCEPT !.place = "book"]
  <2>1. b.sym = o.sym /\ b.side = o.side
    BY DEF IInv, TypeOK, OrderRecords
  <2>2. orders' = (orders \ {o}) \cup {b} /\ UNCHANGED holdings
    BY <1>1 DEF Accept
  <2> HIDE DEF b
  <2> QED BY <2>1, <2>2 DEF Taken, OrdersOf
<1>2. ASSUME NEW o \in orders, Refuse(o) \/ Lose(o) \/ Cancel(o) PROVE Taken' \subseteq Taken
  BY <1>2 DEF Refuse, Lose, Cancel, Taken, OrdersOf
<1>3. ASSUME NEW o \in orders, Fill(o) PROVE Taken' \subseteq Taken
  <2> DEFINE rest == [o EXCEPT !.left = o.left - 1]
  <2>1. rest.sym = o.sym /\ rest.side = o.side /\ o.sym \in Symbols /\ o.side \in Sides
    BY DEF IInv, TypeOK, OrderRecords
  <2>2. orders' \subseteq (orders \ {o}) \cup {rest}
    BY <1>3 DEF Fill
  <2> HIDE DEF rest
  <2>3. \A t \in Symbols : /\ holdings[t] \in Nat
                           /\ t # o.sym => holdings'[t] = holdings[t]
    BY <1>3 DEF Fill, IInv, TypeOK
  <2>4. CASE o.side = "BUY"
    BY <2>1, <2>2, <2>3, <2>4 DEF Taken, OrdersOf
  <2>5. CASE o.side = "SELL"
    <3>1. holdings[o.sym] > 0
      BY <1>3, <2>5 DEF Fill
    <3>2. "SELL" # "BUY"
      OBVIOUS
    <3> QED BY <2>1, <2>2, <2>3, <2>5, <3>1, <3>2 DEF Taken, OrdersOf
  <2> QED BY <2>1, <2>4, <2>5 DEF Sides
<1>4. ASSUME NEW s \in Symbols, CatchUp(s) PROVE Taken' \subseteq Taken
  BY <1>4 DEF CatchUp, Taken, OrdersOf
<1> QED BY <1>1, <1>2, <1>3, <1>4 DEF Broker

LEMMA LimitStep ==
  ASSUME IInv, PositionLimit, [Next]_vars
  PROVE  PositionLimit'
<1>1. IsFiniteSet(Taken) /\ Cardinality(Taken) \in Nat
  BY SymbolsAssumption, FS_Subset, FS_CardinalityType DEF Taken
<1>2. CASE Taken' \subseteq Taken
  <2>1. Cardinality(Taken') <= Cardinality(Taken) /\ IsFiniteSet(Taken')
    BY <1>1, <1>2, FS_Subset
  <2>2. Cardinality(Taken') \in Nat
    BY <2>1, FS_CardinalityType
  <2> QED BY <1>1, <2>1, <2>2, BoundsAssumption DEF PositionLimit
<1>3. ASSUME NEW s \in Symbols, ProcessBuy(s) PROVE PositionLimit'
  <2>1. Taken' \subseteq Taken \cup {s} /\ Cardinality(Taken) < MaxPositions
    BY <1>3, BuyTakes
  <2>2. /\ IsFiniteSet(Taken \cup {s}) /\ Cardinality(Taken \cup {s}) <= Cardinality(Taken) + 1
        /\ Cardinality(Taken \cup {s}) \in Nat
    <3>1. /\ IsFiniteSet(Taken \cup {s})
          /\ Cardinality(Taken \cup {s}) =
               IF s \in Taken THEN Cardinality(Taken) ELSE Cardinality(Taken) + 1
      BY <1>1, FS_AddElement
    <3> QED BY <1>1, <3>1
  <2>3. Cardinality(Taken') <= Cardinality(Taken \cup {s}) /\ IsFiniteSet(Taken')
    BY <2>1, <2>2, FS_Subset
  <2>4. Cardinality(Taken') \in Nat
    BY <2>3, FS_CardinalityType
  <2> QED BY <1>1, <2>1, <2>2, <2>3, <2>4, BoundsAssumption DEF PositionLimit
<1>4. ASSUME NEW s \in Symbols, ForceExit(s) \/ ProcessSell(s) PROVE Taken' \subseteq Taken
  <2>1. Submit(s, "SELL", view[s], OnSellRequested(psm[s]))
    BY <1>4 DEF ForceExit, ProcessSell, TrySell
  <2>2. UNCHANGED holdings /\ \A o \in orders' \ orders : o.side = "SELL"
    BY <2>1 DEF Submit
  <2> QED BY <2>2 DEF Taken, OrdersOf
<1>5. CASE Broker
  BY <1>2, <1>5, BrokerTakes
<1>6. CASE UNCHANGED <<orders, holdings>>
  BY <1>2, <1>6 DEF Taken, OrdersOf
<1> QED
  BY <1>2, <1>3, <1>4, <1>5, <1>6
  DEF Next, Cycle, Returned, RunOnce, BeginLoop, EndCycle, Pass, ReconcileAfterMarketClose,
      HandleAccepted, HandleRejected, HandleNoAnswer, CrashRestart, vars, disk, broker

\* The account never holds, nor is about to hold, more symbols than allowed.
THEOREM PositionsAreLimited == ~StaleAcks => (Spec => []PositionLimit)
<1> SUFFICES ASSUME ~StaleAcks PROVE Spec => []PositionLimit
  OBVIOUS
<1>1. Init => PositionLimit
  <2>1. Init => Taken = {}
    BY DEF Init, Taken, OrdersOf, Nothing
  <2> QED BY <2>1, FS_EmptySet, BoundsAssumption DEF PositionLimit
<1>2. IInv /\ PositionLimit /\ [Next]_vars => PositionLimit'
  BY LimitStep
<1>3. Spec => []IInv
  BY InvariantHolds
<1> QED BY <1>1, <1>2, <1>3, PTL DEF Spec

-----------------------------------------------------------------------------
(* The effects of an order follow its fill                                   *)

\* The same base, and a known quantity that is the old one or the observed one.
KeepsBase(st, q, n) == n.base = st.base /\ (n.known = st.known \/ n.known = q)

\* Watching an orphan, and taking over a quantity, change no base.
LEMMA ObserveKeeps ==
  ASSUME NEW st \in SymbolState, NEW q \in Nat
  PROVE  LET n == ObserveForOrphan(st, q) IN
         n.base = st.base /\ n.sellBase = st.sellBase
  BY DEF ObserveForOrphan, ClearOrphan, SymbolState

LEMMA SyncKeepsBase ==
  ASSUME NEW st \in SymbolState, NEW q \in Nat
  PROVE  LET n == SyncFromBroker(st, q) IN
         /\ n.base = st.base /\ n.sellBase = st.sellBase /\ n.known = q
         /\ n.lifecycle = IF HardBlockNoOrphan(st) THEN st.lifecycle ELSE Settled(q)
  BY DEF SyncFromBroker, SymbolState

\* Looking for the result of an order keeps the base of the last BUY; it ends
\* in ERROR only when the holding is outside what the order can have done.
LEMMA ConfirmBuyKeeps ==
  ASSUME NEW st \in SymbolState, NEW q \in Nat, st.lifecycle = "BUY_PENDING"
  PROVE  LET n == ConfirmBuyFromBroker(st, q) IN
         /\ KeepsBase(st, q, n) /\ n.lifecycle \in {"OPEN", "ERROR", "BUY_PENDING"}
         /\ n.lifecycle = "OPEN" <=> q = st.expected
         /\ n.lifecycle = "ERROR" => q > st.expected \/ q < st.base
<1> DEFINE opened == [st EXCEPT !.lifecycle = "OPEN", !.known = q, !.pending = NoOrder]
<1>1. opened \in SymbolState
  BY EndUpdates, Values
<1>2. opened.lifecycle = "OPEN" /\ opened.known = q /\ opened.base = st.base
  BY DEF SymbolState
<1> HIDE DEF opened
<1>3. ClearOrphan(opened).base = opened.base
  BY <1>1 DEF ClearOrphan, SymbolState
<1>4. CASE q = st.expected
  <2>1. ConfirmBuyFromBroker(st, q) = IF st.base = 0 THEN ClearOrphan(opened) ELSE opened
    BY <1>4 DEF ConfirmBuyFromBroker, opened
  <2> QED BY <1>1, <1>2, <1>3, <1>4, <2>1, ClearOrphanEffect DEF KeepsBase
<1>5. CASE q # st.expected
  BY <1>5, Fields DEF ConfirmBuyFromBroker, SymbolState, KeepsBase
<1> QED BY <1>4, <1>5

LEMMA OnSellResultKeeps ==
  ASSUME NEW st \in SymbolState, NEW q \in Nat, st.lifecycle = "SELL_PENDING"
  PROVE  LET n == OnSellResult(st, q) IN
         /\ KeepsBase(st, q, n) /\ n.lifecycle \in {"FLAT", "ERROR", "SELL_PENDING"}
         /\ n.lifecycle = "FLAT" <=> q = 0
         /\ n.lifecycle = "SELL_PENDING" => n.sellBase = st.sellBase
         /\ n.lifecycle = "ERROR" => st.sellBase = 0 \/ q > st.sellBase
<1> DEFINE flat == [st EXCEPT !.lifecycle = "FLAT", !.known = 0,
                              !.sellBase = 0, !.pending = NoOrder]
<1>1. flat \in SymbolState
  BY SellUpdates, Values
<1>2. flat.lifecycle = "FLAT" /\ flat.known = 0 /\ flat.base = st.base
  BY DEF SymbolState
<1> HIDE DEF flat
<1>3. ClearOrphan(flat).base = flat.base
  BY <1>1 DEF ClearOrphan, SymbolState
<1>4. CASE q = 0
  <2>1. OnSellResult(st, q) = ClearOrphan(flat)
    BY <1>4 DEF OnSellResult, flat
  <2> QED BY <1>1, <1>2, <1>3, <1>4, <2>1, ClearOrphanEffect DEF KeepsBase
<1>5. CASE q # 0
  BY <1>5, Fields DEF OnSellResult, SymbolState, KeepsBase
<1> QED BY <1>4, <1>5

\* So does a timeout.
LEMMA ResolveKeeps ==
  ASSUME NEW st \in SymbolState, NEW q \in Nat, NEW late
  PROVE  LET n == ResolveStalePending(st, q, late) IN
         n = st \/ (n.base = st.base /\ n.known = q /\ n.lifecycle = Settled(q))
<1> DEFINE ended == [st EXCEPT !.lifecycle = Settled(q), !.known = q, !.pending = NoOrder]
           orphaned(d) == [ended EXCEPT !.orphan = st.pending, !.delta = d]
           n == ResolveStalePending(st, q, late)
<1>1. ended \in SymbolState
  BY EndUpdates, Values
<1>2. ended.lifecycle = Settled(q) /\ ended.base = st.base /\ ended.known = q
  BY DEF SymbolState
<1>3. ASSUME NEW d
      PROVE  /\ orphaned(d).lifecycle = Settled(q) /\ orphaned(d).base = st.base
             /\ orphaned(d).known = q
  <2> HIDE DEF ended
  <2> QED BY <1>1, <1>2 DEF SymbolState
<1>4. ClearOrphan(ended).base = ended.base
  <2> HIDE DEF ended
  <2> QED BY <1>1 DEF ClearOrphan, SymbolState
<1>5. \A m : m = ended \/ m = ClearOrphan(ended) \/ (\E d : m = orphaned(d))
        => m.base = st.base /\ m.known = q /\ m.lifecycle = Settled(q)
  <2>1. /\ ClearOrphan(ended).base = st.base /\ ClearOrphan(ended).known = q
        /\ ClearOrphan(ended).lifecycle = Settled(q)
    <3> HIDE DEF ended
    <3> QED BY <1>1, <1>2, <1>4, ClearOrphanEffect
  <2> HIDE DEF ended, orphaned
  <2> QED BY <1>2, <1>3, <2>1
<1>6. CASE late /\ st.lifecycle = "SELL_PENDING" /\ q > 0
  <2>1. n = IF st.pending = NoOrder THEN ended ELSE orphaned(-q)
    BY <1>6 DEF ResolveStalePending
  <2> HIDE DEF n, ended
  <2>2. n = ended \/ n = orphaned(-q)
    BY <2>1
  <2> QED BY <1>5, <2>2 DEF n
<1>7. CASE late /\ st.lifecycle = "SELL_PENDING" /\ q = 0
  <2>1. n = ClearOrphan(ended)
    BY <1>7 DEF ResolveStalePending
  <2> HIDE DEF n, ended
  <2> QED BY <1>5, <2>1 DEF n
<1>8. CASE late /\ st.lifecycle = "BUY_PENDING"
  <2> DEFINE missing == st.expected - q
             short == IF missing > 0 THEN missing ELSE 0
  <2>1. n = IF st.pending = NoOrder THEN ended ELSE orphaned(short)
    BY <1>8 DEF ResolveStalePending
  <2> HIDE DEF n, ended, short
  <2>2. n = ended \/ n = orphaned(short)
    BY <2>1
  <2> QED BY <1>5, <2>2 DEF n
<1>9. CASE ~(late /\ st.lifecycle \in Pendings)
  BY <1>9 DEF ResolveStalePending, Pendings
<1> QED BY <1>6, <1>7, <1>8, <1>9 DEF Pendings

\* What a poll does to the quantities that the deferred effects are judged by.
Judged(st, q, n) ==
  /\ KeepsBase(st, q, n)
  /\ n.lifecycle = "SELL_PENDING" => st.lifecycle = "SELL_PENDING" /\ n.sellBase = st.sellBase
  /\ n.lifecycle = "BUY_PENDING" => st.lifecycle = "BUY_PENDING"
  /\ n.lifecycle = "FLAT" => q = 0
  /\ n.lifecycle = "OPEN" => q > 0 \/ st.lifecycle = "BUY_PENDING"
  /\ n.lifecycle = "ERROR" =>
       \/ st.lifecycle = "ERROR"
       \/ st.lifecycle = "BUY_PENDING" /\ (q > st.expected \/ q < st.base)
       \/ st.lifecycle = "SELL_PENDING" /\ (st.sellBase = 0 \/ q > st.sellBase)

LEMMA SettleJudged ==
  ASSUME NEW st \in SymbolState, NEW q \in Nat, NEW late
  PROVE  Judged(st, q, SettleByBalance(st, q, late))
<1> DEFINE n == SettleByBalance(st, q, late)
<1>1. Settled(q) = (IF q > 0 THEN "OPEN" ELSE "FLAT")
  BY DEF Settled
<1>2. CASE st.lifecycle = "SELL_PENDING"
  <2> DEFINE c == OnSellResult(st, q)
  <2>1. /\ c \in SymbolState /\ KeepsBase(st, q, c)
        /\ c.lifecycle \in {"FLAT", "ERROR", "SELL_PENDING"}
        /\ c.lifecycle = "FLAT" <=> q = 0
        /\ c.lifecycle = "SELL_PENDING" => c.sellBase = st.sellBase
        /\ c.lifecycle = "ERROR" => st.sellBase = 0 \/ q > st.sellBase
    BY <1>2, OnSellResultKeeps, ObservationsTyped
  <2>2. n = ResolveStalePending(c, q, late)
    BY <1>2 DEF SettleByBalance
  <2> HIDE DEF c, n
  <2>3. n = c \/ (n.base = c.base /\ n.known = q /\ n.lifecycle = Settled(q))
    BY <2>1, <2>2, ResolveKeeps
  <2> QED BY <1>1, <1>2, <2>1, <2>3 DEF n, Judged, KeepsBase
<1>3. CASE st.lifecycle = "BUY_PENDING"
  <2> DEFINE c == ConfirmBuyFromBroker(st, q)
  <2>1. /\ c \in SymbolState /\ KeepsBase(st, q, c)
        /\ c.lifecycle \in {"OPEN", "ERROR", "BUY_PENDING"}
        /\ c.lifecycle = "ERROR" => q > st.expected \/ q < st.base
    BY <1>3, ConfirmBuyKeeps, ObservationsTyped
  <2>2. n = ResolveStalePending(c, q, late)
    BY <1>3 DEF SettleByBalance
  <2> HIDE DEF c, n
  <2>3. n = c \/ (n.base = c.base /\ n.known = q /\ n.lifecycle = Settled(q))
    BY <2>1, <2>2, ResolveKeeps
  <2> QED BY <1>1, <1>3, <2>1, <2>3 DEF n, Judged, KeepsBase
<1>4. CASE st.lifecycle \notin Pendings
  <2>1. n = SyncFromBroker(st, q)
    BY <1>4 DEF SettleByBalance, Pendings
  <2> HIDE DEF n
  <2>2. /\ n.base = st.base /\ n.known = q
        /\ n.lifecycle = IF HardBlockNoOrphan(st) THEN st.lifecycle ELSE Settled(q)
    BY <2>1, SyncKeepsBase
  <2>3. HardBlockNoOrphan(st) => st.lifecycle = "ERROR"
    BY <1>4 DEF HardBlockNoOrphan
  <2> QED BY <1>1, <2>2, <2>3 DEF n, Judged, KeepsBase
<1> QED BY <1>2, <1>3, <1>4 DEF Pendings

LEMMA PollJudged ==
  ASSUME NEW st \in SymbolState, NEW q \in Nat, NEW late, NEW filled
  PROVE  Judged(st, q, PollSymbol(st, q, late, filled))
<1> DEFINE seen == ObserveForOrphan(st, q)
           told == IF filled THEN ReconcileFilled(seen, q) ELSE seen
           n    == PollSymbol(st, q, late, filled)
<1>1. /\ seen \in SymbolState /\ seen.lifecycle = st.lifecycle /\ seen.known = st.known
      /\ seen.expected = st.expected /\ seen.base = st.base /\ seen.sellBase = st.sellBase
  BY ObserveEffect, ObserveKeeps, ObservationsTyped
<1>2. n = SettleByBalance(told, q, late)
  BY DEF PollSymbol
<1>3. \/ told = seen
      \/ /\ seen.lifecycle = "BUY_PENDING" /\ q = seen.expected
         /\ told = ConfirmBuyFromBroker(seen, q)
      \/ seen.lifecycle = "SELL_PENDING" /\ q = 0 /\ told = OnSellResult(seen, q)
      \/ seen.lifecycle \notin Pendings /\ told = ObserveForOrphan(seen, q)
  BY DEF ReconcileFilled
<1> HIDE DEF seen, told, n
<1>4. CASE told \in SymbolState /\ KeepsBase(seen, q, told) /\ told.lifecycle \in {"OPEN", "FLAT"}
           /\ seen.lifecycle \in Pendings
  <2>1. n = SyncFromBroker(told, q) /\ ~HardBlockNoOrphan(told)
    BY <1>2, <1>4 DEF SettleByBalance, HardBlockNoOrphan, Pendings
  <2>2. n.base = told.base /\ n.known = q /\ n.lifecycle = (IF q > 0 THEN "OPEN" ELSE "FLAT")
    BY <1>4, <2>1, SyncKeepsBase DEF Settled
  <2> QED BY <1>1, <1>4, <2>2 DEF n, Judged, KeepsBase
<1>5. CASE told = seen
  <2>1. Judged(seen, q, n)
    BY <1>1, <1>2, <1>5, SettleJudged
  <2> QED BY <1>1, <2>1 DEF n, Judged, KeepsBase
<1>6. CASE seen.lifecycle \notin Pendings /\ told = ObserveForOrphan(seen, q)
  <2>1. /\ told \in SymbolState /\ told.lifecycle = seen.lifecycle /\ told.known = seen.known
        /\ told.expected = seen.expected /\ told.base = seen.base /\ told.sellBase = seen.sellBase
    BY <1>1, <1>6, ObserveEffect, ObserveKeeps, ObservationsTyped
  <2>2. Judged(told, q, n)
    BY <1>2, <2>1, SettleJudged
  <2> QED BY <1>1, <2>1, <2>2 DEF n, Judged, KeepsBase
<1>7. CASE /\ seen.lifecycle = "BUY_PENDING" /\ q = seen.expected
           /\ told = ConfirmBuyFromBroker(seen, q)
  BY <1>1, <1>4, <1>7, ConfirmBuyKeeps, ObservationsTyped DEF Pendings
<1>8. CASE seen.lifecycle = "SELL_PENDING" /\ q = 0 /\ told = OnSellResult(seen, q)
  BY <1>1, <1>4, <1>8, OnSellResultKeeps, ObservationsTyped DEF Pendings
<1> QED BY <1>3, <1>5, <1>6, <1>7, <1>8

\* What the deferred effects of a symbol in state st wait for is still to come.
BasesAreRight(s, st) ==
  /\ st.lifecycle = "BUY_PENDING" => st.base < st.expected /\ st.base <= reported[s]
  /\ st.lifecycle = "SELL_PENDING" => 0 < st.sellBase /\ reported[s] <= st.sellBase

\* No share of the BUY has been seen, and it can still be pending or an orphan.
EntryWaits(s, st) ==
  /\ st.known <= st.base /\ st.base < st.expected /\ st.base <= reported[s]
  /\ st.lifecycle = "BUY_PENDING" \/ (HasOrphan(st) /\ st.delta > 0 /\ st.lifecycle # "ERROR")

\* The SELL is pending or an orphan, and the position is not known to be gone.
ExitWaits(st) ==
  st.lifecycle = "SELL_PENDING" \/ (HasOrphan(st) /\ st.delta < 0 /\ st.lifecycle = "OPEN")

EffectsOf(s, st) ==
  /\ BasesAreRight(s, st)
  /\ s \in buyCtx => EntryWaits(s, st)
  /\ s \in sellCtx => ExitWaits(st)

\* The order being placed has no effects yet, and starts from what is known.
CallerHasNone ==
  caller # None =>
    /\ caller \notin buyCtx \cup sellCtx
    /\ psm[caller].lifecycle = "BUY_PENDING" => psm[caller].known <= psm[caller].base

\* Inductive together with IInv
EffectsInv ==
  /\ \A s \in Symbols : EffectsOf(s, psm[s])
  /\ CallerHasNone
  /\ ~initialized => buyCtx = {} /\ sellCtx = {}

\* The commands of a person leave the symbols whose effects wait alone, but for
\* those whose orphan is acknowledged.
LEMMA CommandsLeave ==
  ASSUME IInv, ~StaleAcks, NEW s \in Symbols, EffectsOf(s, psm[s]),
         NEW errors \in SUBSET {t \in Symbols : MayAckError(t)},
         NEW orphans \in SUBSET {t \in Symbols : MayAckOrphan(t)},
         NEW st, st = AfterCommands(errors, orphans)[s]
  PROVE  /\ BasesAreRight(s, st)
         /\ s \in (buyCtx \cup sellCtx) \ orphans => st = psm[s]
         /\ s \in orphans => HasOrphan(psm[s]) /\ ~HardBlock(st)
<1>1. psm[s] \in SymbolState /\ Agrees(s, psm[s], initialized) /\ reported[s] \in Nat
  BY DEF IInv, TypeOK, LifecyclesAgree
<1>2. CASE s \in errors
  <2>1. psm[s].lifecycle = "ERROR"
    BY <1>2 DEF MayAckError
  <2>2. st = AcknowledgeError(psm[s], reported[s])
    BY <1>2 DEF AfterCommands
  <2>3. st.lifecycle \in {"OPEN", "FLAT"}
    BY <1>1, <2>2 DEF AcknowledgeError, SymbolState, Settled
  <2>4. ~HasOrphan(psm[s])
    BY <1>1, <2>1 DEF Agrees
  <2> QED BY <2>1, <2>3, <2>4
          DEF BasesAreRight, EffectsOf, EntryWaits, ExitWaits, MayAckOrphan
<1>3. CASE s \notin errors /\ s \in orphans
  <2>1. st = ClearOrphan(psm[s]) /\ HasOrphan(psm[s])
    BY <1>3 DEF AfterCommands, MayAckOrphan
  <2>2. ~HasOrphan(st) /\ st.lifecycle = psm[s].lifecycle
    BY <1>1, <2>1, ClearOrphanEffect
  <2>3. psm[s].lifecycle \notin Pendings \cup {"ERROR"}
    BY <1>1, <2>1 DEF Agrees
  <2> QED BY <1>3, <2>1, <2>2, <2>3 DEF BasesAreRight, HardBlock, Pendings
<1>4. CASE s \notin errors /\ s \notin orphans
  <2>1. st = psm[s]
    BY <1>4 DEF AfterCommands
  <2> QED BY <1>4, <2>1 DEF EffectsOf
<1> QED BY <1>2, <1>3, <1>4

\* The deferred effects of a polled symbol: those that still wait, and why the
\* others no longer do.
LEMMA PollJudges ==
  ASSUME TypeOK, NEW s \in Symbols, NEW st \in SymbolState, Agrees(s, st, FALSE),
         BasesAreRight(s, st), NEW late, NEW filled,
         NEW n, n = PollSymbol(st, reported[s], late, filled)
  PROVE  /\ BasesAreRight(s, n)
         /\ ~HardBlock(st) => ~HasOrphan(n)
         /\ EntryWaits(s, st) =>
              IF FirstFill(n) THEN holdings[s] > st.base ELSE EntryWaits(s, n)
         /\ ExitWaits(st) =>
              IF SoldUp(st, n) THEN SettledFor(s) /\ holdings[s] = 0 ELSE ExitWaits(n)
<1> DEFINE q == reported[s]
<1>1. /\ q \in Nat /\ holdings[s] \in Nat /\ st.expected \in Nat /\ st.delta \in Int
      /\ st.known \in Nat /\ st.base \in Nat /\ st.sellBase \in Nat
  BY Fields DEF TypeOK
<1>2. n \in SymbolState /\ n.lifecycle \in Lifecycles /\ n.known \in Nat
  BY <1>1, PollTyped, Fields
<1>3. Judged(st, q, n)
  BY <1>1, PollJudged
<1>4. PollOutcome(st, q, n) /\ n.expected = st.expected
  <2>1. WellFormed(st)
    BY DEF Agrees, WellFormed
  <2>2. st.lifecycle = "BUY_PENDING" => q <= st.expected
    BY <1>1 DEF Agrees, BuyHeadsFor
  <2>3. HasOrphan(st) => st.delta # 0
    BY <1>1 DEF Agrees
  <2>4. PollOutcome(st, q, n)
    BY <1>1, <2>1, <2>2, <2>3, PollEffect
  <2> QED BY <2>4 DEF PollOutcome
<1> HIDE DEF q
<1>5. BasesAreRight(s, n)
  BY <1>3, <1>4 DEF BasesAreRight, Judged, KeepsBase
<1>6. ~HardBlock(st) => ~HasOrphan(n)
  BY <1>4 DEF PollOutcome, StillOpen, HardBlock, Pendings
<1>7. ASSUME EntryWaits(s, st)
      PROVE  IF FirstFill(n) THEN holdings[s] > st.base ELSE EntryWaits(s, n)
  <2>1. /\ st.lifecycle \notin {"ERROR", "SELL_PENDING"}
        /\ HardBlock(st) /\ ~(HasOrphan(st) /\ st.delta < 0)
    BY <1>1, <1>7 DEF EntryWaits, Agrees, HardBlock, Pendings
  <2>2. BuyHeadsFor(s, st.expected)
    BY <1>1, <1>7 DEF EntryWaits, Agrees
  <2>3. st.base <= q /\ q <= holdings[s] /\ holdings[s] <= st.expected
    BY <1>7, <2>2 DEF EntryWaits, BuyHeadsFor, q
  <2>4. n.base = st.base /\ (n.known = st.known \/ n.known = q)
    BY <1>3 DEF Judged, KeepsBase
  <2>5. CASE FirstFill(n)
    <3>1. n.known = q /\ q > st.base
      BY <1>1, <1>2, <1>7, <2>4, <2>5 DEF FirstFill, EntryWaits
    <3> QED BY <1>1, <2>3, <2>5, <3>1
  <2>6. CASE ~FirstFill(n)
    <3>1. n.known <= n.base
      BY <1>1, <1>2, <2>4, <2>6 DEF FirstFill
    <3>2. CASE ~HardBlock(n) /\ n.known = q /\ Reached(st, q)
      <4>1. q = st.expected
        BY <2>1, <3>2 DEF Reached
      <4> QED BY <1>1, <1>7, <2>4, <3>1, <3>2, <4>1 DEF EntryWaits
    <3>3. n.lifecycle # "ERROR"
      BY <1>1, <1>3, <2>1, <2>3 DEF Judged
    <3>4. CASE StillOpen(st, n)
      <4>1. n.lifecycle = "BUY_PENDING" \/ (HasOrphan(n) /\ n.delta > 0)
        BY <2>1, <3>4 DEF StillOpen, Pendings
      <4> QED BY <1>4, <1>7, <2>4, <2>6, <3>1, <3>3, <4>1 DEF EntryWaits
    <3> QED BY <1>4, <3>2, <3>3, <3>4 DEF PollOutcome
  <2> QED BY <2>5, <2>6
<1>8. ASSUME ExitWaits(st)
      PROVE  IF SoldUp(st, n) THEN SettledFor(s) /\ holdings[s] = 0 ELSE ExitWaits(n)
  <2>1. /\ st.lifecycle \in {"SELL_PENDING", "OPEN"} /\ HardBlock(st)
        /\ ~(HasOrphan(st) /\ st.delta > 0)
    BY <1>1, <1>8 DEF ExitWaits, Agrees, HardBlock, Pendings
  <2>2. SellHeadsFor(s)
    BY <1>1, <1>8 DEF ExitWaits, Agrees
  <2>3. CASE SoldUp(st, n)
    <3>1. reported[s] = 0
      BY <1>3, <2>3 DEF SoldUp, Judged, q
    <3> QED BY <2>2, <2>3, <3>1, SellArrived DEF SettledFor
  <2>4. CASE ~SoldUp(st, n)
    <3>1. n.lifecycle # "FLAT"
      BY <2>1, <2>4 DEF SoldUp
    <3>2. CASE ~HardBlock(n) /\ n.known = q /\ Reached(st, q)
      <4>1. q = 0
        BY <2>1, <3>2 DEF Reached
      <4>2. n.lifecycle = "OPEN"
        BY <1>2, <3>1, <3>2 DEF HardBlock, Lifecycles
      <4> QED BY <1>3, <2>1, <4>1, <4>2 DEF Judged
    <3>3. n.lifecycle # "ERROR"
      BY <1>1, <1>3, <2>1 DEF Judged, BasesAreRight, q
    <3>4. CASE StillOpen(st, n)
      BY <2>1, <2>4, <3>1, <3>4 DEF StillOpen, ExitWaits, Pendings
    <3> QED BY <1>4, <3>2, <3>3, <3>4 DEF PollOutcome
  <2> QED BY <2>3, <2>4
<1> QED BY <1>5, <1>6, <1>7, <1>8

\* What a step must show of every symbol: its effects still wait, or were run
\* or discarded for a reason.
EntrySpent(s) ==
  s \in buyCtx \ buyCtx' =>
    holdings[s] > psm[s].base \/ OrphanAcknowledged(s) \/ crashes' # crashes

ExitSpent(s) ==
  s \in sellCtx \ sellCtx' =>
    \/ holdings[s] = 0 /\ OrdersOf(s) = {}
    \/ OrphanAcknowledged(s) \/ crashes' # crashes

\* A whole synchronisation, for one symbol: the commands, then the poll.
LEMMA SyncSpends ==
  ASSUME IInv, EffectsInv, ~StaleAcks, Sync(reported), UNCHANGED broker, NEW s \in Symbols
  PROVE  EffectsOf(s, psm[s])' /\ EntrySpent(s) /\ ExitSpent(s)
<1>1. PICK errors \in SUBSET {t \in Symbols : MayAckError(t)},
           orphans \in SUBSET {t \in Symbols : MayAckOrphan(t)} :
        LET after == AfterCommands(errors, orphans) IN
        IF ~initialized
        THEN /\ psm' = [t \in Symbols |->
                          IF reported[t] > 0 THEN SyncFromBroker(after[t], reported[t])
                          ELSE after[t]]
             /\ buyCtx' = EffectsAfterAck(buyCtx, orphans)
             /\ sellCtx' = EffectsAfterAck(sellCtx, orphans)
        ELSE /\ \E late \in SUBSET {t \in Symbols : after[t].lifecycle \in Pendings},
                   filled \in FilledAnswers(after) :
                  psm' = [t \in Symbols |->
                            PollSymbol(after[t], reported[t], t \in late, t \in filled)]
             /\ buyCtx' = {t \in EffectsAfterAck(buyCtx, orphans) : ~FirstFill(psm'[t])}
             /\ sellCtx' = {t \in EffectsAfterAck(sellCtx, orphans) :
                              ~SoldUp(after[t], psm'[t])}
  BY DEF Sync
<1>2. PICK st : st = AfterCommands(errors, orphans)[s]
  OBVIOUS
<1>3. PICK n : n = psm'[s]
  OBVIOUS
<1>4. /\ EffectsOf(s, psm[s])
      /\ TypeOK /\ reported[s] \in Nat /\ reported'[s] = reported[s]
  BY DEF EffectsInv, IInv, TypeOK, broker
<1>5. /\ BasesAreRight(s, st)
      /\ s \in (buyCtx \cup sellCtx) \ orphans => st = psm[s]
      /\ s \in orphans => HasOrphan(psm[s]) /\ ~HardBlock(st)
  BY <1>2, <1>4, CommandsLeave
<1>6. st \in SymbolState /\ Agrees(s, st, FALSE)
  BY <1>2, CommandsAgree
<1>7. CASE ~initialized
  <2>1. buyCtx = {} /\ sellCtx = {} /\ buyCtx' = {} /\ sellCtx' = {}
    BY <1>1, <1>7 DEF EffectsInv, EffectsAfterAck
  <2>2. n = IF reported[s] > 0 THEN SyncFromBroker(st, reported[s]) ELSE st
    BY <1>1, <1>2, <1>3, <1>7
  <2>3. /\ n.base = st.base /\ n.sellBase = st.sellBase /\ n.expected = st.expected
        /\ n.lifecycle \in Pendings => n.lifecycle = st.lifecycle
    <3>1. CASE reported[s] > 0
      BY <1>4, <1>6, <2>2, <3>1, SyncKeepsBase, SyncEffect DEF Pendings
    <3>2. CASE ~(reported[s] > 0)
      BY <2>2, <3>2
    <3> QED BY <3>1, <3>2
  <2>4. BasesAreRight(s, n)
    BY <1>5, <2>3 DEF BasesAreRight, Pendings
  <2> QED BY <1>3, <1>4, <2>1, <2>4 DEF EffectsOf, BasesAreRight, EntrySpent, ExitSpent
<1>8. CASE initialized
  <2>1. PICK late, filled : n = PollSymbol(st, reported[s], s \in late, s \in filled)
    BY <1>1, <1>2, <1>3, <1>8
  <2>2. /\ s \in buyCtx' <=> s \in buyCtx \ orphans /\ ~FirstFill(n)
        /\ s \in sellCtx' <=> s \in sellCtx \ orphans /\ ~SoldUp(st, n)
    BY <1>1, <1>2, <1>3, <1>8 DEF EffectsAfterAck
  <2>3. /\ BasesAreRight(s, n)
        /\ ~HardBlock(st) => ~HasOrphan(n)
        /\ EntryWaits(s, st) =>
             IF FirstFill(n) THEN holdings[s] > st.base ELSE EntryWaits(s, n)
        /\ ExitWaits(st) =>
             IF SoldUp(st, n) THEN SettledFor(s) /\ holdings[s] = 0 ELSE ExitWaits(n)
    BY <1>4, <1>5, <1>6, <2>1, PollJudges
  <2>4. s \in orphans => OrphanAcknowledged(s)
    BY <1>3, <1>5, <2>3 DEF OrphanAcknowledged
  <2>5. s \in buyCtx \ orphans => EntryWaits(s, st) /\ st = psm[s]
    BY <1>4, <1>5 DEF EffectsOf
  <2>6. s \in sellCtx \ orphans => ExitWaits(st)
    BY <1>4, <1>5 DEF EffectsOf
  <2>7. EntrySpent(s) /\ ExitSpent(s)
    BY <2>2, <2>3, <2>4, <2>5, <2>6 DEF EntrySpent, ExitSpent, SettledFor
  <2>8. /\ BasesAreRight(s, n)' <=> BasesAreRight(s, n)
        /\ EntryWaits(s, n)' <=> EntryWaits(s, n)
    BY <1>4 DEF BasesAreRight, EntryWaits
  <2>9. EffectsOf(s, n)'
    BY <2>2, <2>3, <2>5, <2>6, <2>8 DEF EffectsOf
  <2> QED BY <1>3, <2>7, <2>9
          DEF EffectsOf, BasesAreRight, EntryWaits, ExitWaits
<1> QED BY <1>7, <1>8

\* What a step must keep
Effects == EffectsInv' /\ \A s \in Symbols : EntrySpent(s) /\ ExitSpent(s)

\* A cycle begins, and a closed day is reconciled, with the reported balance.
LEMMA ObservingSpends ==
  ASSUME IInv, EffectsInv, ~StaleAcks, RunOnce \/ ReconcileAfterMarketClose
  PROVE  Effects
<1>1. Sync(reported)
  <2>1. CASE RunOnce
    <3>1. CASE cached /\ ~HasUnresolvedOrders /\ view' = view
      <4>1. intents = {}
        BY <3>1 DEF HasUnresolvedOrders
      <4>2. \A s \in Symbols : view[s] = reported[s]
        BY <3>1, <4>1 DEF IInv, ViewIsCurrent
      <4>3. view' = reported
        BY <3>1, <4>2 DEF IInv, TypeOK
      <4> QED BY <2>1, <4>3 DEF RunOnce
    <3> QED BY <2>1, <3>1 DEF RunOnce
  <2> QED BY <2>1 DEF ReconcileAfterMarketClose
<1>2. UNCHANGED <<broker, caller>> /\ stage = "idle"
  BY DEF RunOnce, ReconcileAfterMarketClose
<1>3. \A s \in Symbols : EffectsOf(s, psm[s])' /\ EntrySpent(s) /\ ExitSpent(s)
  BY <1>1, <1>2, SyncSpends
<1>4. caller' = None /\ initialized'
  BY <1>1, <1>2, SyncKeeps DEF IInv, CallIsOpen
<1> QED BY <1>3, <1>4 DEF Effects, EffectsInv, CallerHasNone

\* A symbol whose effects wait is blocked.
LEMMA WaitingIsBlocked ==
  ASSUME EffectsInv, NEW s \in Symbols, Free(s)
  PROVE  s \notin buyCtx \cup sellCtx
  BY DEF EffectsInv, EffectsOf, EntryWaits, ExitWaits, Free, HardBlock, Pendings

\* A step that keeps the effects and changes at most one symbol, c, keeps
\* everything if it is right about c.
LEMMA OneSymbolSpends ==
  ASSUME EffectsInv, NEW c, NEW st, UNCHANGED <<initialized, reported>>,
         buyCtx \subseteq buyCtx', buyCtx' \subseteq buyCtx \cup {c},
         sellCtx \subseteq sellCtx', sellCtx' \subseteq sellCtx \cup {c},
         initialized \/ (buyCtx' = buyCtx /\ sellCtx' = sellCtx),
         \A s \in Symbols \ {c} : psm'[s] = psm[s],
         c \in Symbols => psm'[c] = st /\ EffectsOf(c, st)',
         CallerHasNone'
  PROVE  Effects
<1>1. ASSUME NEW s \in Symbols, s # c PROVE EffectsOf(s, psm[s])'
  <2>1. EffectsOf(s, psm[s]) /\ (s \in buyCtx' <=> s \in buyCtx)
        /\ (s \in sellCtx' <=> s \in sellCtx) /\ psm'[s] = psm[s]
    BY <1>1 DEF EffectsInv
  <2> QED BY <2>1 DEF EffectsOf, BasesAreRight, EntryWaits, ExitWaits
<1>2. c \in Symbols => EffectsOf(c, psm[c])'
  BY DEF EffectsOf, BasesAreRight, EntryWaits, ExitWaits
<1>3. \A s \in Symbols : EffectsOf(s, psm[s])'
  BY <1>1, <1>2
<1>4. \A s \in Symbols : EntrySpent(s) /\ ExitSpent(s)
  BY DEF EntrySpent, ExitSpent
<1>5. (~initialized => buyCtx = {} /\ sellCtx = {})'
  BY DEF EffectsInv
<1> QED BY <1>3, <1>4, <1>5 DEF Effects, EffectsInv

\* An order that is sent starts from the quantity really held.
LEMMA SubmitSpends ==
  ASSUME IInv, EffectsInv, NEW s \in Symbols,
         ForceExit(s) \/ ProcessSell(s) \/ ProcessBuy(s)
  PROVE  Effects
<1>1. /\ caller = None /\ Free(s) /\ stage # "idle"
      /\ UNCHANGED <<buyCtx, sellCtx, initialized, reported>>
  BY DEF ForceExit, ProcessSell, ProcessBuy, TrySell, TryBuy, Submit, Free, AccountSettledFor
<1>2. initialized /\ psm[s] \in SymbolState /\ reported[s] \in Nat
  BY <1>1 DEF IInv, NotYetInitialized, TypeOK
<1>3. psm[s].known = reported[s] /\ view[s] = reported[s]
  BY <1>1, <1>2 DEF IInv, LifecyclesAgree, Agrees, SettledFor, Free, ViewIsCurrent
<1>4. s \notin buyCtx \cup sellCtx
  BY <1>1, WaitingIsBlocked
<1>5. CASE UNCHANGED <<psm, caller>>
  <2>1. EffectsOf(s, psm[s]) /\ psm'[s] = psm[s]
    BY <1>5 DEF EffectsInv
  <2>2. EffectsOf(s, psm[s])' /\ CallerHasNone'
    BY <1>1, <1>5, <2>1 DEF EffectsOf, BasesAreRight, EntryWaits, ExitWaits, CallerHasNone
  <2> QED BY <1>1, <1>2, <1>5, <2>2, OneSymbolSpends
               DEF EffectsOf, BasesAreRight, EntryWaits, ExitWaits
<1>6. ASSUME NEW requested, psm' = [psm EXCEPT ![s] = requested], caller' = s,
             \/ /\ requested.lifecycle = "SELL_PENDING" /\ requested.sellBase = psm[s].known
                /\ view[s] > 0
             \/ /\ requested.lifecycle = "BUY_PENDING" /\ requested.base = psm[s].known
                /\ requested.known = psm[s].known /\ requested.base < requested.expected
      PROVE  Effects
  <2>1. /\ psm'[s] = requested /\ \A t \in Symbols \ {s} : psm'[t] = psm[t]
    BY <1>6 DEF IInv, TypeOK
  <2>2. BasesAreRight(s, requested)'
    BY <1>1, <1>2, <1>3, <1>6, Fields DEF BasesAreRight
  <2>3. EffectsOf(s, requested)'
    BY <1>1, <1>4, <2>2 DEF EffectsOf
  <2>4. CallerHasNone'
    BY <1>1, <1>2, <1>4, <1>6, <2>1, Fields DEF CallerHasNone
  <2> QED BY <1>1, <1>2, <2>1, <2>3, <2>4, OneSymbolSpends
<1>7. CASE ForceExit(s) \/ ProcessSell(s)
  <2> DEFINE requested == OnSellRequested(psm[s])
  <2>1. Submit(s, "SELL", view[s], requested) /\ view[s] > 0
    BY <1>7 DEF ForceExit, ProcessSell, TrySell, Seen
  <2>2. requested.lifecycle = "SELL_PENDING" /\ requested.sellBase = psm[s].known
    BY <1>2 DEF OnSellRequested, SymbolState
  <2> HIDE DEF requested
  <2> QED BY <1>5, <1>6, <2>1, <2>2 DEF Submit
<1>8. CASE ProcessBuy(s)
  <2>1. PICK qty \in 1 .. MaxQty : Submit(s, "BUY", qty, OnBuyRequested(psm[s], qty))
    BY <1>8 DEF ProcessBuy, TryBuy
  <2>2. qty \in Nat /\ qty > 0
    BY BoundsAssumption
  <2> DEFINE requested == OnBuyRequested(psm[s], qty)
  <2>3. /\ requested.lifecycle = "BUY_PENDING" /\ requested.base = psm[s].known
        /\ requested.known = psm[s].known /\ requested.expected = psm[s].known + qty
    BY <1>1, <1>2 DEF OnBuyRequested, SymbolState, Free, HardBlock
  <2>4. requested.base < requested.expected
    BY <1>2, <2>2, <2>3, Fields
  <2>5. Submit(s, "BUY", qty, requested)
    BY <2>1
  <2> HIDE DEF requested
  <2> QED BY <1>5, <1>6, <2>3, <2>4, <2>5 DEF Submit
<1> QED BY <1>7, <1>8

\* The effects of an accepted order begin to wait before any fill is seen.
LEMMA AcceptedSpends ==
  ASSUME IInv, EffectsInv, HandleAccepted
  PROVE  Effects
<1>0. PICK s \in Symbols : s = caller /\ caller # None
  BY CallerFacts DEF HandleAccepted
<1>1. /\ caller' = None /\ UNCHANGED <<initialized, reported>>
      /\ buyCtx' = IF psm[s].lifecycle = "BUY_PENDING" THEN buyCtx \cup {s} ELSE buyCtx
      /\ sellCtx' = IF psm[s].lifecycle = "SELL_PENDING" THEN sellCtx \cup {s} ELSE sellCtx
  BY <1>0 DEF HandleAccepted, broker
<1>2. PICK id \in {lastId, NoOrder} : psm' = [psm EXCEPT ![s] = ConfirmPendingOrderId(@, id)]
  BY <1>0 DEF HandleAccepted
<1>3. PICK n : n = ConfirmPendingOrderId(psm[s], id)
  OBVIOUS
<1>4. psm[s] \in SymbolState /\ initialized
  BY <1>0, CallerFacts
<1>5. /\ n.lifecycle = psm[s].lifecycle /\ n.known = psm[s].known /\ n.base = psm[s].base
      /\ n.expected = psm[s].expected /\ n.sellBase = psm[s].sellBase
  BY <1>3, <1>4 DEF ConfirmPendingOrderId, SymbolState
<1>6. psm'[s] = n /\ \A t \in Symbols \ {s} : psm'[t] = psm[t]
  BY <1>2, <1>3 DEF IInv, TypeOK
<1>7. /\ BasesAreRight(s, psm[s]) /\ s \notin buyCtx \cup sellCtx
      /\ psm[s].lifecycle = "BUY_PENDING" => psm[s].known <= psm[s].base
  BY <1>0 DEF EffectsInv, EffectsOf, CallerHasNone
<1>8. EffectsOf(s, n)'
  BY <1>1, <1>5, <1>7 DEF EffectsOf, BasesAreRight, EntryWaits, ExitWaits
<1>9. CallerHasNone'
  BY <1>1 DEF CallerHasNone
<1> QED BY <1>1, <1>4, <1>6, <1>8, <1>9, OneSymbolSpends

\* Without an acceptance no effects were kept for the order.
LEMMA UnacceptedSpends ==
  ASSUME IInv, EffectsInv, HandleRejected \/ HandleNoAnswer
  PROVE  Effects
<1>0. PICK s \in Symbols : s = caller /\ caller # None
  BY CallerFacts DEF HandleRejected, HandleNoAnswer
<1>1. caller' = None /\ UNCHANGED <<initialized, reported, buyCtx, sellCtx>>
  BY DEF HandleRejected, HandleNoAnswer, broker
<1>2. psm[s] \in SymbolState
  BY <1>0, CallerFacts
<1>3. PICK n : n = psm'[s]
  OBVIOUS
<1>4. n.lifecycle \in {"OPEN", "FLAT", "ERROR"} /\ \A t \in Symbols \ {s} : psm'[t] = psm[t]
  <2>1. \E m \in {OnBuyRejected(psm[s]), OnSellRejected(psm[s]), OnPlacementAmbiguous(psm[s])} :
          psm' = [psm EXCEPT ![s] = m]
    BY <1>0 DEF HandleRejected, HandleNoAnswer
  <2>2. /\ OnBuyRejected(psm[s]).lifecycle \in {"OPEN", "FLAT"}
        /\ OnSellRejected(psm[s]).lifecycle = "OPEN"
        /\ OnPlacementAmbiguous(psm[s]).lifecycle = "ERROR"
    BY <1>2 DEF OnBuyRejected, OnSellRejected, OnPlacementAmbiguous, Settled, SymbolState
  <2> QED BY <1>3, <2>1, <2>2 DEF IInv, TypeOK
<1>5. s \notin buyCtx \cup sellCtx
  BY <1>0 DEF EffectsInv, CallerHasNone
<1>6. EffectsOf(s, n)'
  BY <1>1, <1>4, <1>5 DEF EffectsOf, BasesAreRight
<1>7. CallerHasNone'
  BY <1>1 DEF CallerHasNone
<1> QED BY <1>1, <1>3, <1>4, <1>6, <1>7, OneSymbolSpends

\* What the balance endpoint comes to report keeps the direction of the order.
LEMMA BrokerSpends ==
  ASSUME IInv, EffectsInv, Broker
  PROVE  Effects
<1>1. UNCHANGED <<psm, buyCtx, sellCtx, initialized, caller>>
  BY DEF Broker, Accept, Refuse, Lose, Fill, Cancel, CatchUp, brokerSees
<1>2. CallerHasNone'
  BY <1>1 DEF EffectsInv, CallerHasNone
<1>3. CASE UNCHANGED reported
  <2>1. \A s \in Symbols : EffectsOf(s, psm[s])'
    BY <1>1, <1>3 DEF EffectsInv, EffectsOf, BasesAreRight, EntryWaits, ExitWaits
  <2> QED BY <1>1, <1>2, <2>1 DEF Effects, EffectsInv, EntrySpent, ExitSpent
<1>4. ASSUME NEW c \in Symbols, CatchUp(c) PROVE Effects
  <2>1. reported'[c] = holdings[c] /\ \A t \in Symbols \ {c} : reported'[t] = reported[t]
    BY <1>4 DEF CatchUp, IInv, TypeOK
  <2>2. /\ Agrees(c, psm[c], initialized) /\ EffectsOf(c, psm[c])
        /\ holdings[c] \in Nat /\ reported[c] \in Nat
        /\ psm[c].base \in Nat /\ psm[c].sellBase \in Nat /\ psm[c].delta \in Int
    BY Fields DEF IInv, TypeOK, LifecyclesAgree, EffectsInv
  <2>3. psm[c].lifecycle = "BUY_PENDING" \/ (HasOrphan(psm[c]) /\ psm[c].delta > 0)
          => reported[c] <= holdings[c]
    BY <2>2 DEF Agrees, BuyHeadsFor
  <2>4. psm[c].lifecycle = "SELL_PENDING" => holdings[c] <= reported[c]
    BY <2>2 DEF Agrees, SellHeadsFor
  <2>5. EffectsOf(c, psm[c])'
    BY <1>1, <2>1, <2>2, <2>3, <2>4 DEF EffectsOf, BasesAreRight, EntryWaits, ExitWaits
  <2>6. \A s \in Symbols \ {c} : EffectsOf(s, psm[s])'
    BY <1>1, <2>1 DEF EffectsInv, EffectsOf, BasesAreRight, EntryWaits, ExitWaits
  <2> QED BY <1>1, <1>2, <2>5, <2>6 DEF Effects, EffectsInv, EntrySpent, ExitSpent
<1> QED BY <1>3, <1>4 DEF Broker, Accept, Refuse, Lose, Fill, Cancel

\* A restart forgets the deferred effects.
LEMMA RestartSpends ==
  ASSUME CrashRestart, TypeOK
  PROVE  Effects
<1>1. buyCtx' = {} /\ sellCtx' = {} /\ caller' = None /\ crashes' # crashes
  BY BoundsAssumption DEF CrashRestart, TypeOK
<1>2. ASSUME NEW s, NEW records PROVE Restored(s, records).lifecycle \in {"ERROR", "FLAT"}
  BY DEF Restored, OnPlacementAmbiguous, Blank
<1>3. \A s \in Symbols : psm'[s].lifecycle \in {"ERROR", "FLAT"}
  BY <1>2 DEF CrashRestart
<1>4. \A s \in Symbols : EffectsOf(s, psm[s])'
  BY <1>1, <1>3 DEF EffectsOf, BasesAreRight
<1> QED BY <1>1, <1>4 DEF Effects, EffectsInv, CallerHasNone, EntrySpent, ExitSpent

LEMMA EffectsStep ==
  ASSUME IInv, EffectsInv, ~StaleAcks, [Next]_vars
  PROVE  Effects
<1>1. CASE RunOnce \/ ReconcileAfterMarketClose
  BY <1>1, ObservingSpends
<1>2. ASSUME NEW s \in Symbols, ForceExit(s) \/ ProcessSell(s) \/ ProcessBuy(s)
      PROVE  Effects
  BY <1>2, SubmitSpends
<1>3. CASE Returned
  BY <1>3, AcceptedSpends, UnacceptedSpends DEF Returned
<1>4. CASE Broker
  BY <1>4, BrokerSpends
<1>5. CASE CrashRestart
  BY <1>5, RestartSpends DEF IInv
<1>6. CASE UNCHANGED <<psm, buyCtx, sellCtx, initialized, caller, reported>>
  BY <1>6 DEF Effects, EffectsInv, EffectsOf, BasesAreRight, EntryWaits, ExitWaits,
              CallerHasNone, EntrySpent, ExitSpent
<1> QED BY <1>1, <1>2, <1>3, <1>4, <1>5, <1>6
        DEF Next, Cycle, BeginLoop, EndCycle, Pass, vars, memory, broker

\* The deferred effects of an order are run only after the fill they stand for:
\* those of a BUY once shares were bought, those of a SELL once all are sold.
\* Anything else that ends them is a restart or a person's acknowledgement.
THEOREM EffectsFollow == ~StaleAcks => (Spec => EffectsFollowFills)
<1> SUFFICES ASSUME ~StaleAcks PROVE Spec => EffectsFollowFills
  OBVIOUS
<1>1. Init => EffectsInv
  BY DEF Init, EffectsInv, EffectsOf, BasesAreRight, CallerHasNone, Blank
<1>2. IInv /\ EffectsInv /\ [Next]_vars => EffectsInv'
  BY EffectsStep DEF Effects
<1>3. IInv /\ EffectsInv /\ [Next]_vars =>
        [\A s \in buyCtx \ buyCtx' :
           holdings[s] > psm[s].base \/ OrphanAcknowledged(s) \/ crashes' # crashes]_vars
  BY EffectsStep DEF Effects, EntrySpent, IInv, TypeOK
<1>4. IInv /\ EffectsInv /\ [Next]_vars =>
        [\A s \in sellCtx \ sellCtx' :
           \/ holdings[s] = 0 /\ OrdersOf(s) = {}
           \/ OrphanAcknowledged(s) \/ crashes' # crashes]_vars
  BY EffectsStep DEF Effects, ExitSpent, IInv, TypeOK
<1>5. Spec => []IInv
  BY InvariantHolds
<1> QED BY <1>1, <1>2, <1>3, <1>4, <1>5, PTL
        DEF Spec, EffectsFollowFills, EntryNeedsAFill, ExitNeedsNoShares
=============================================================================
