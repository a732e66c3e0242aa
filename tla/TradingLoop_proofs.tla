------------------------- MODULE TradingLoop_proofs -------------------------
(***************************************************************************)
(* Theorems about the polling loop for every number of days, any weekends,     *)
(* waits of any length and every number of restarts.                         *)
(***************************************************************************)
EXTENDS TradingLoop, WellFoundedInduction, TLAPS

-----------------------------------------------------------------------------
(* Helpers *)

\* The smaller and the larger of two numbers.
LEMMA Extremes ==
  ASSUME NEW a \in Int, NEW b \in Int
  PROVE  /\ Min({a, b}) = IF a <= b THEN a ELSE b
         /\ Max({a, b}) = IF a <= b THEN b ELSE a
<1>1. PICK x \in {a, b} : \A y \in {a, b} : x <= y
  BY SMT
<1>2. PICK z \in {a, b} : \A y \in {a, b} : z >= y
  BY SMT
<1>3. Min({a, b}) \in {a, b} /\ \A y \in {a, b} : Min({a, b}) <= y
  BY <1>1 DEF Min
<1>4. Max({a, b}) \in {a, b} /\ \A y \in {a, b} : Max({a, b}) >= y
  BY <1>2 DEF Max
<1> QED BY <1>3, <1>4

\* A timer runs down to 0.
LEMMA LaterValue ==
  ASSUME NEW n \in Nat
  PROVE  Later(n) = IF n = 0 THEN 0 ELSE n - 1
BY Extremes DEF Later

\* The wait after a failed retry is one that the types allow.
LEMMA LongerWaitTyped ==
  ASSUME NEW o \in Outages
  PROVE  LongerWait(o) \in Outages /\ LongerWait(o).active = o.active
<1>1. Min({2 * o.interval, MaxWait}) \in 0 .. MaxWait
  BY WaitsAssumption, Extremes DEF Outages
<1> QED BY <1>1 DEF LongerWait, Outages

\* The start of an outage, and its end.
LEMMA OutagesTyped ==
  NoOutage \in Outages /\ EnterBalanceOutage \in Outages
  /\ NoOutage.active = FALSE
BY WaitsAssumption DEF NoOutage, EnterBalanceOutage, Outages

\* A history with another record of the failures is a history.
LEMMA HistoryUpdated ==
  ASSUME NEW t \in Truths, NEW n \in 0 .. MaxWait, NEW f \in {Unset} \cup 0 .. MaxWait
  PROVE  LET new == [t EXCEPT !.failures = n, !.failedFor = f]
         IN  new \in Truths /\ new.counted = t.counted /\ new.limitedFor = t.limitedFor
BY DEF Truths

\* The history after a request that failed, and after one that was answered.
LEMMA HistoryTyped ==
  ASSUME NEW t \in Truths
  PROVE  /\ Failed(t) \in Truths /\ Answered(t) \in Truths
         /\ Failed(t).counted = t.counted /\ Answered(t).counted = t.counted
         /\ Failed(t).limitedFor = t.limitedFor
         /\ Answered(t).limitedFor = t.limitedFor
<1>1. /\ t.failures \in 0 .. MaxWait /\ 0 \in 0 .. MaxWait
      /\ Unset \in {Unset} \cup 0 .. MaxWait /\ 0 \in {Unset} \cup 0 .. MaxWait
  BY WaitsAssumption DEF Truths
<1>2. Min({MaxWait, t.failures + 1}) \in 0 .. MaxWait
  BY <1>1, WaitsAssumption, Extremes
<1> QED BY <1>1, <1>2, HistoryUpdated DEF Failed, Answered

-----------------------------------------------------------------------------
(* The day's counters *)

\* A memory in which a cycle of today may run
Today(m) ==
  /\ m \in Memories /\ m.resetDay = day /\ m.runDate = day
  /\ \A e \in m.counters : e.at = day /\ e.of <= day

\* The roll keeps the counters of today and of no other day.
LEMMA RolledValue ==
  ASSUME TypeOK, NEW m \in Memories
  PROVE  /\ Rolled(m) \in Memories /\ Rolled(m).runDate = day
         /\ Rolled(m).resetDay = m.resetDay
         /\ Rolled(m).counters = IF m.runDate \in {NoDay, day} THEN m.counters ELSE {}
<1> DEFINE updated(r, c) == [m EXCEPT !.runDate = r, !.counters = c]
           kept == IF m.runDate \in {NoDay, day} THEN m.counters ELSE {}
<1>1. \A r \in 0 .. Days, c \in SUBSET Events :
        /\ updated(r, c) \in Memories /\ updated(r, c).runDate = r
        /\ updated(r, c).resetDay = m.resetDay /\ updated(r, c).counters = c
  BY DEF Memories
<1>2. day \in 0 .. Days /\ m.counters \in SUBSET Events /\ {} \in SUBSET Events
  BY DaysAssumption DEF TypeOK, Memories
<1>3. kept \in SUBSET Events
  BY <1>2
<1>4. Rolled(m) = updated(day, kept)
  BY DEF Rolled
<1> HIDE DEF updated, kept
<1>5. /\ Rolled(m) \in Memories /\ Rolled(m).runDate = day
      /\ Rolled(m).resetDay = m.resetDay /\ Rolled(m).counters = kept
  BY <1>1, <1>2, <1>3, <1>4
<1> QED BY <1>5 DEF kept

\* The date that the reset has looked at is the one that the counters are of.
Consistent(m) == m.resetDay # NoDay => m.resetDay = m.runDate

\* The daily reset brings a memory to today, and keeps what today's holds.
LEMMA ResetIsToday ==
  ASSUME TypeOK, NEW m \in Memories, Dated(m), Consistent(m)
  PROVE  /\ Today(DailyReset(m))
         /\ m.runDate = day => DailyReset(m).counters = m.counters
<1>1. day \in 1 .. Days /\ Days \in Nat
  BY DaysAssumption DEF TypeOK
<1>2. \A e \in m.counters : e.of <= day
  BY DEF Dated
<1>3. CASE m.resetDay = day
  BY <1>1, <1>2, <1>3 DEF DailyReset, Today, Dated, Consistent, NoDay, Memories
<1>4. CASE m.resetDay # day
  <2> DEFINE rolled == Rolled(m)
  <2>1. /\ rolled \in Memories /\ rolled.runDate = day
        /\ rolled.counters = IF m.runDate \in {NoDay, day} THEN m.counters ELSE {}
    BY <1>1, RolledValue
  <2>2. DailyReset(m) = [rolled EXCEPT !.resetDay = day]
    BY <1>4 DEF DailyReset
  <2> HIDE DEF rolled
  <2>3. /\ DailyReset(m) \in Memories /\ DailyReset(m).resetDay = day
        /\ DailyReset(m).runDate = day /\ DailyReset(m).counters = rolled.counters
    BY <1>1, <2>1, <2>2 DEF Memories
  <2>4. \A e \in rolled.counters : e.at = day /\ e.of <= day
    BY <1>2, <2>1 DEF Dated
  <2> QED BY <2>1, <2>3, <2>4 DEF Today
<1> QED BY <1>3, <1>4

\* Counting fills adds events of outstanding orders under today's date only.
LEMMA CountingAdds ==
  ASSUME TypeOK, OrdersAreDated, NEW m \in Memories, NEW c \in CountSome(m, unresolved)
  PROVE  /\ c \in Memories /\ c.resetDay = m.resetDay /\ c.runDate = m.runDate
         /\ m.counters \subseteq c.counters
         /\ \A e \in c.counters : e \in m.counters \/ (e.at = day /\ e.of \in unresolved)
<1>1. PICK fresh \in SUBSET unresolved :
        c = [m EXCEPT !.counters = @ \cup [of : fresh, at : {day}]]
  BY DEF CountSome
<1>2. [of : fresh, at : {day}] \subseteq Events
  BY DEF TypeOK, Events
<1>3. c \in Memories /\ c.resetDay = m.resetDay /\ c.runDate = m.runDate
      /\ c.counters = m.counters \cup [of : fresh, at : {day}]
  BY <1>1, <1>2 DEF Memories
<1>4. \A e \in [of : fresh, at : {day}] : e.at = day /\ e.of \in unresolved
  BY <1>1
<1> QED BY <1>3, <1>4

\* What a poll may have made of the memory before it is saved
Reached(c) ==
  /\ c \in Memories /\ Dated(c) /\ Consistent(c) /\ c.runDate # NoDay
  /\ mem.runDate = day => c.runDate = day /\ mem.counters \subseteq c.counters

\* The daily reset is such a step,
LEMMA ResetReached ==
  ASSUME IInv
  PROVE  Reached(DailyReset(mem)) /\ Today(DailyReset(mem))
<1>1. /\ mem \in Memories /\ Consistent(mem) /\ day \in 1 .. Days /\ Days \in Nat
      /\ TypeOK /\ Dated(mem)
  BY DaysAssumption DEF IInv, TypeOK, MemoryAhead, Consistent
<1> DEFINE m == DailyReset(mem)
<1>2. Today(m) /\ (mem.runDate = day => m.counters = mem.counters)
  BY <1>1, ResetIsToday
<1> HIDE DEF m
<1>3. Reached(m)
  BY <1>1, <1>2 DEF Reached, Today, Dated, Consistent, NoDay
<1> QED BY <1>2, <1>3 DEF m

\* and so is counting the fills of outstanding orders, after it
LEMMA CycleReached ==
  ASSUME IInv, NEW c \in CountSome(DailyReset(mem), unresolved)
  PROVE  Reached(c) /\ Today(c)
<1> DEFINE m == DailyReset(mem)
<1>1. Reached(m) /\ Today(m)
  BY ResetReached
<1>2. TypeOK /\ OrdersAreDated /\ m \in Memories
  BY <1>1 DEF IInv, Reached
<1>3. c \in CountSome(m, unresolved)
  OBVIOUS
<1> HIDE DEF m
<1>4. /\ c \in Memories /\ c.resetDay = m.resetDay /\ c.runDate = m.runDate
      /\ m.counters \subseteq c.counters
      /\ \A e \in c.counters : e \in m.counters \/ (e.at = day /\ e.of \in unresolved)
  BY <1>2, <1>3, CountingAdds
<1>5. Today(c)
  BY <1>1, <1>2, <1>4 DEF Today, OrdersAreDated
<1>6. day \in 1 .. Days /\ Days \in Nat
  BY <1>2, DaysAssumption DEF TypeOK
<1>7. Reached(c)
  BY <1>1, <1>4, <1>5, <1>6 DEF Reached, Today, Dated, Consistent, NoDay
<1> QED BY <1>5, <1>7

\* or before it, when the reconciliation out of hours has not looked at the date.
LEMMA ReconcileReached ==
  ASSUME IInv, unresolved # {}, NEW c \in CountSome(mem, unresolved)
  PROVE  Reached(c)
<1>1. /\ TypeOK /\ OrdersAreDated /\ Dated(mem) /\ MemoryAhead
      /\ mem \in Memories /\ day \in 1 .. Days /\ Days \in Nat
  BY DaysAssumption DEF IInv, TypeOK
<1>2. /\ c \in Memories /\ c.resetDay = mem.resetDay /\ c.runDate = mem.runDate
      /\ mem.counters \subseteq c.counters
      /\ \A e \in c.counters : e \in mem.counters \/ (e.at = day /\ e.of \in unresolved)
  BY <1>1, CountingAdds
<1>3. mem.runDate # NoDay /\ (day \in unresolved => mem.runDate = day)
  BY <1>1 DEF OrdersAreDated, MemoryAhead
<1>4. \A e \in c.counters : e.of <= day /\ (e.of = day => mem.runDate = day)
  BY <1>1, <1>2, <1>3 DEF Dated, OrdersAreDated
<1>5. mem.runDate = day => \A e \in c.counters : e.at = day
  BY <1>1, <1>2 DEF Dated
<1>6. Dated(c)
  BY <1>1, <1>2, <1>3, <1>4, <1>5 DEF Dated
<1> QED BY <1>1, <1>2, <1>3, <1>6 DEF Reached, Consistent, MemoryAhead

\* The part of the invariant that is about the counters
CountersInv ==
  Dated(mem) /\ Dated(disk) /\ MemoryAhead /\ OrdersAreDated /\ CountedIsKept

\* A poll that saves what it has reached, or does not, keeps the counters' part.
LEMMA SaveKeeps ==
  ASSUME IInv, day' = day,
         NEW c, Reached(c), mem' = DailyReset(c),
         disk' = Saved(c) \/ disk' = disk,
         \/ unresolved' \subseteq unresolved
         \/ unresolved' \subseteq unresolved \cup {day} /\ disk' = Saved(c) /\ c.runDate = day,
         \A e \in truth'.counted :
           e \in truth.counted \/ (e \in disk'.counters /\ e.of = day /\ e.at = day)
  PROVE  CountersInv' /\ mem' \in Memories /\ disk' \in Saves
<1>1. /\ TypeOK /\ Dated(mem) /\ Dated(disk) /\ MemoryAhead /\ OrdersAreDated
      /\ CountedIsKept /\ disk \in Saves /\ day \in 1 .. Days /\ Days \in Nat
  BY DaysAssumption DEF IInv, TypeOK
<1>2. /\ c \in Memories /\ Dated(c) /\ Consistent(c) /\ c.runDate # NoDay
      /\ mem.runDate = day => c.runDate = day /\ mem.counters \subseteq c.counters
  BY DEF Reached
<1>3. /\ mem' \in Memories /\ mem'.resetDay = day /\ mem'.runDate = day
      /\ \A e \in mem'.counters : e.at = day /\ e.of <= day
      /\ c.runDate = day => mem'.counters = c.counters
  BY <1>1, <1>2, ResetIsToday DEF Today
<1>4. /\ Saved(c) \in Saves /\ Saved(c).runDate = c.runDate
      /\ Saved(c).counters = c.counters
  BY <1>2 DEF Saved, Saves, Memories
<1>5. Dated(mem)'
  BY <1>1, <1>3 DEF Dated, NoDay
<1>6. Dated(disk)' /\ disk' \in Saves
  <2>1. CASE disk' = Saved(c)
    BY <1>2, <1>4, <2>1 DEF Dated
  <2>2. CASE disk' = disk
    BY <1>1, <2>2 DEF Dated
  <2> QED BY <2>1, <2>2
<1>7. disk.runDate = day =>
        c.runDate = day /\ disk.counters \subseteq c.counters
  BY <1>1, <1>2 DEF MemoryAhead
<1>8. disk'.runDate = day => disk'.counters \subseteq mem'.counters
  BY <1>3, <1>4, <1>7
<1>9. MemoryAhead'
  BY <1>1, <1>3, <1>8 DEF MemoryAhead, NoDay
<1>10. /\ \A d \in unresolved : d <= day
       /\ unresolved # {} => disk.runDate # NoDay
       /\ day \in unresolved => disk.runDate = day
  BY <1>1 DEF OrdersAreDated
<1>11. OrdersAreDated'
  BY <1>1, <1>2, <1>4, <1>7, <1>10 DEF OrdersAreDated
<1>12. disk.runDate = day => disk'.runDate = day /\ disk.counters \subseteq disk'.counters
  BY <1>4, <1>7
<1>13. CountedIsKept'
  <2> SUFFICES ASSUME NEW e \in truth'.counted
               PROVE  e.at <= day /\ (e.at = day => disk'.runDate = day /\ e \in disk'.counters)
    BY DEF CountedIsKept
  <2>1. CASE e \in truth.counted
    BY <1>1, <1>12, <2>1 DEF CountedIsKept
  <2>2. CASE e \in disk'.counters /\ e.of = day /\ e.at = day
    BY <1>1, <1>6, <2>2 DEF Dated
  <2> QED BY <2>1, <2>2
<1> QED BY <1>3, <1>5, <1>6, <1>9, <1>11, <1>13 DEF CountersInv

-----------------------------------------------------------------------------
(* Every step keeps the invariant *)

\* What a poll remembers is what the disk then holds of today.
LEMMA Remembered ==
  ASSUME day' = day, disk' \in Saves, NEW t \in Truths, truth' = Remember(t)
  PROVE  /\ truth' \in Truths /\ truth'.limitedFor = t.limitedFor
         /\ \A e \in truth'.counted :
              e \in t.counted \/ (e \in disk'.counters /\ e.of = day /\ e.at = day)
<1> DEFINE seen == {e \in disk'.counters : e.of = day /\ e.at = day}
<1>1. seen \in SUBSET Events
  BY DEF Saves
<1>2. truth' = [t EXCEPT !.counted = @ \cup seen]
  BY DEF Remember
<1>3. seen = {e \in disk'.counters : e.of = day /\ e.at = day}
  OBVIOUS
<1> HIDE DEF seen
<1>4. /\ truth' \in Truths /\ truth'.limitedFor = t.limitedFor
      /\ truth'.counted = t.counted \cup seen
  BY <1>1, <1>2 DEF Truths
<1> QED BY <1>3, <1>4

\* A poll that does no more than look at the date and, perhaps, fail.
LEMMA QuietKeeps ==
  ASSUME IInv, UNCHANGED <<day, phase, waits, restarts, cooldown, disk, unresolved>>,
         mem' = DailyReset(mem),
         did' \in [cycle : BOOLEAN, asked : BOOLEAN, throttled : BOOLEAN],
         outage' \in Outages, outage'.active => outage.active \/ cooldown = 0,
         truth' \in Truths, truth'.counted = truth.counted,
         truth'.limitedFor = truth.limitedFor
  PROVE  IInv'
<1>1. PICK c : c = DailyReset(mem)
  OBVIOUS
<1>2. Reached(c) /\ Today(c)
  BY <1>1, ResetReached
<1>3. DailyReset(c) = c
  BY <1>2 DEF DailyReset, Today
<1>4. CountersInv' /\ mem' \in Memories /\ disk' \in Saves
  BY <1>1, <1>2, <1>3, SaveKeeps
<1>5. TypeOK'
  BY <1>4 DEF IInv, TypeOK
<1>6. WaitsExclude' /\ CooldownAgrees'
  BY DEF IInv, WaitsExclude, CooldownAgrees
<1> QED BY <1>4, <1>5, <1>6 DEF IInv, CountersInv

\* The history of a poll that had an answer, and may have met a rate limit.
LEMMA LimitTyped ==
  ASSUME NEW t \in Truths, NEW limited \in BOOLEAN
  PROVE  LET new == IF limited THEN [t EXCEPT !.limitedFor = 0] ELSE t
         IN  /\ new \in Truths /\ new.counted = t.counted
             /\ new.limitedFor = IF limited THEN 0 ELSE t.limitedFor
<1>1. 0 \in {Unset} \cup 0 .. Cooldown
  BY WaitsAssumption
<1>2. \A n \in {Unset} \cup 0 .. Cooldown :
        LET new == [t EXCEPT !.limitedFor = n]
        IN  new \in Truths /\ new.counted = t.counted /\ new.limitedFor = n
  BY DEF Truths
<1> QED BY <1>1, <1>2

\* A poll that had a balance: whatever it reached, it is saved or not, and the
\* outage is over.
LEMMA AnsweredKeeps ==
  ASSUME IInv, cooldown = 0, UNCHANGED <<day, phase, waits, restarts>>,
         NEW c, Reached(c), mem' = DailyReset(c),
         disk' = Saved(c) \/ disk' = disk,
         \/ unresolved' \subseteq unresolved
         \/ unresolved' \subseteq unresolved \cup {day} /\ disk' = Saved(c) /\ c.runDate = day,
         NEW limited \in BOOLEAN, cooldown' = IF limited THEN Cooldown ELSE 0,
         outage' = NoOutage,
         did' \in [cycle : BOOLEAN, asked : BOOLEAN, throttled : BOOLEAN],
         NEW t \in {truth, Answered(truth)},
         truth' = Remember(IF limited THEN [t EXCEPT !.limitedFor = 0] ELSE t)
  PROVE  IInv'
<1> DEFINE h == IF limited THEN [t EXCEPT !.limitedFor = 0] ELSE t
<1>1. truth \in Truths /\ day \in 1 .. Days /\ Days \in Nat
  BY DaysAssumption DEF IInv, TypeOK
<1>2. t \in Truths /\ t.counted = truth.counted /\ t.limitedFor = truth.limitedFor
  BY <1>1, HistoryTyped
<1>3. /\ h \in Truths /\ h.counted = truth.counted
      /\ h.limitedFor = IF limited THEN 0 ELSE truth.limitedFor
  BY <1>2, LimitTyped
<1>4. truth' = Remember(h)
  OBVIOUS
<1> HIDE DEF h
<1>5. disk' \in Saves
  <2>1. c \in Memories /\ disk \in Saves
    BY DEF Reached, IInv, TypeOK
  <2>2. Saved(c) \in Saves
    BY <2>1 DEF Saved, Memories, Saves
  <2> QED BY <2>1, <2>2
<1>6. /\ truth' \in Truths /\ truth'.limitedFor = h.limitedFor
      /\ \A e \in truth'.counted :
           e \in truth.counted \/ (e \in disk'.counters /\ e.of = day /\ e.at = day)
  BY <1>3, <1>4, <1>5, Remembered
<1>7. CountersInv' /\ mem' \in Memories
  BY <1>6, SaveKeeps
<1>8. unresolved' \subseteq 1 .. Days
  BY <1>1 DEF IInv, TypeOK
<1>9. TypeOK'
  BY <1>5, <1>6, <1>7, <1>8, OutagesTyped, WaitsAssumption DEF IInv, TypeOK
<1>10. WaitsExclude'
  BY OutagesTyped DEF WaitsExclude
<1>11. CooldownAgrees'
  BY <1>3, <1>6, WaitsAssumption DEF IInv, CooldownAgrees, Unset
<1> QED BY <1>7, <1>9, <1>10, <1>11 DEF IInv, CountersInv

\* A cycle keeps the invariant.
LEMMA CycleKeeps ==
  ASSUME IInv, cooldown = 0, UNCHANGED <<day, phase, waits, restarts>>,
         NEW asked \in BOOLEAN, RunOnceWithBalance(DailyReset(mem), asked)
  PROVE  IInv'
<1>1. PICK ends \in {"saved", "raised", "limited"}, throttled \in BOOLEAN,
           sends \in BOOLEAN, left \in SUBSET unresolved :
        /\ mem' \in CountSome(DailyReset(mem), unresolved)
        /\ disk' = Saved(mem') \/ (ends # "saved" /\ ~sends /\ UNCHANGED disk)
        /\ unresolved' = IF sends THEN left \cup {day} ELSE left
        /\ cooldown' = IF ends = "limited" THEN Cooldown ELSE 0
        /\ outage' = EndedBefore(ends # "saved")
        /\ did' = [cycle |-> TRUE, asked |-> asked, throttled |-> throttled]
        /\ truth' = LET t == IF asked THEN Answered(truth) ELSE truth
                    IN  Remember(IF ends = "limited" THEN [t EXCEPT !.limitedFor = 0] ELSE t)
  BY DEF RunOnceWithBalance
<1>2. PICK c \in CountSome(DailyReset(mem), unresolved) : c = mem'
  BY <1>1
<1>3. Reached(c) /\ Today(c)
  BY CycleReached
<1>4. DailyReset(c) = c /\ c.runDate = day
  BY <1>3 DEF DailyReset, Today
<1>5. PICK limited \in BOOLEAN : limited = (ends = "limited")
  OBVIOUS
<1>6. PICK t \in {truth, Answered(truth)} : t = IF asked THEN Answered(truth) ELSE truth
  OBVIOUS
<1>7. outage' = NoOutage
  BY <1>1 DEF EndedBefore
<1>8. truth' = Remember(IF limited THEN [t EXCEPT !.limitedFor = 0] ELSE t)
  BY <1>1, <1>5, <1>6
<1>9. did' \in [cycle : BOOLEAN, asked : BOOLEAN, throttled : BOOLEAN]
  BY <1>1
<1>10. /\ disk' = Saved(c) \/ disk' = disk
       /\ \/ unresolved' \subseteq unresolved
          \/ unresolved' \subseteq unresolved \cup {day} /\ disk' = Saved(c) /\ c.runDate = day
  BY <1>1, <1>2, <1>4
<1>11. cooldown' = IF limited THEN Cooldown ELSE 0
  BY <1>1, <1>5
<1> QED BY <1>2, <1>3, <1>4, <1>7, <1>8, <1>9, <1>10, <1>11, AnsweredKeeps

\* So does a reconciliation, whether it looks at the date before or after.
LEMMA ReconcileKeeps ==
  ASSUME IInv, cooldown = 0, UNCHANGED <<day, phase, waits, restarts>>,
         \/ ReconcileWithBalance(DailyReset(mem))
         \/ unresolved # {} /\ ReconcileWithBalance(mem)
  PROVE  IInv'
<1>1. PICK m \in {mem, DailyReset(mem)} :
        ReconcileWithBalance(m) /\ (m = DailyReset(mem) \/ unresolved # {})
  OBVIOUS
<1>2. PICK ends \in {"saved", "raised", "limited"}, throttled \in BOOLEAN,
           left \in SUBSET unresolved, c \in CountSome(m, unresolved) :
        /\ mem' = DailyReset(c)
        /\ disk' = Saved(c) \/ (ends # "saved" /\ UNCHANGED disk)
        /\ unresolved' = left
        /\ cooldown' = IF ends = "limited" THEN Cooldown ELSE 0
        /\ outage' = EndedBefore(ends # "saved")
        /\ did' = [cycle |-> FALSE, asked |-> TRUE, throttled |-> throttled]
        /\ truth' = LET t == Answered(truth)
                    IN  Remember(IF ends = "limited" THEN [t EXCEPT !.limitedFor = 0] ELSE t)
  BY <1>1 DEF ReconcileWithBalance
<1>3. Reached(c)
  BY <1>1, CycleReached, ReconcileReached
<1>4. PICK limited \in BOOLEAN : limited = (ends = "limited")
  OBVIOUS
<1>5. PICK t \in {truth, Answered(truth)} : t = Answered(truth)
  OBVIOUS
<1>6. outage' = NoOutage
  BY <1>2 DEF EndedBefore
<1>7. truth' = Remember(IF limited THEN [t EXCEPT !.limitedFor = 0] ELSE t)
  BY <1>2, <1>4, <1>5
<1>8. did' \in [cycle : BOOLEAN, asked : BOOLEAN, throttled : BOOLEAN]
  BY <1>2
<1>9. (disk' = Saved(c) \/ disk' = disk) /\ unresolved' \subseteq unresolved
  BY <1>2
<1>10. cooldown' = IF limited THEN Cooldown ELSE 0
  BY <1>2, <1>4
<1> QED BY <1>2, <1>3, <1>6, <1>7, <1>8, <1>9, <1>10, AnsweredKeeps

\* A balance request that fails outside an outage keeps the invariant.
LEMMA FailureKeeps ==
  ASSUME IInv, cooldown = 0, UNCHANGED <<day, phase, waits, restarts>>,
         BalanceFails(DailyReset(mem))
  PROVE  IInv'
<1>1. truth \in Truths /\ outage \in Outages
  BY DEF IInv, TypeOK
<1>2. /\ outage' \in Outages /\ truth' \in Truths
      /\ truth'.counted = truth.counted /\ truth'.limitedFor = truth.limitedFor
  BY <1>1, OutagesTyped, HistoryTyped DEF BalanceFails
<1>3. did' \in [cycle : BOOLEAN, asked : BOOLEAN, throttled : BOOLEAN]
  BY DEF BalanceFails, Nothing
<1>4. mem' = DailyReset(mem) /\ UNCHANGED <<cooldown, disk, unresolved>>
  BY DEF BalanceFails
<1> QED BY <1>2, <1>3, <1>4, QuietKeeps

\* Every turn of the loop keeps the invariant, whichever branch it takes.
LEMMA PollKeeps ==
  ASSUME IInv, Poll
  PROVE  IInv'
<1>1. UNCHANGED <<day, phase, waits, restarts>>
  BY DEF Poll
<1>2. truth \in Truths /\ outage \in Outages /\ cooldown \in 0 .. Cooldown
  BY DEF IInv, TypeOK
<1>3. Nothing \in [cycle : BOOLEAN, asked : BOOLEAN, throttled : BOOLEAN]
  BY DEF Nothing
<1>4. ASSUME SkipForCooldown PROVE IInv'
  BY <1>1, <1>2, <1>3, <1>4, QuietKeeps DEF SkipForCooldown
<1>5. ASSUME cooldown = 0, NEW reconcileOnly \in BOOLEAN, OutageTick(reconcileOnly)
      PROVE  IInv'
  <2>1. HandleBalanceOutageTick(reconcileOnly)
    BY <1>5 DEF OutageTick
  <2>2. CASE /\ did' = Nothing /\ mem' = DailyReset(mem)
             /\ UNCHANGED <<outage, cooldown, disk, unresolved, truth>>
    BY <1>1, <1>2, <1>3, <1>5, <2>2, QuietKeeps
  <2>3. CASE /\ did' = [Nothing EXCEPT !.asked = TRUE] /\ mem' = DailyReset(mem)
             /\ outage' = LongerWait(outage) /\ truth' = Failed(truth)
             /\ UNCHANGED <<cooldown, disk, unresolved>>
    <3>1. outage' \in Outages
      BY <1>2, <2>3, LongerWaitTyped
    <3>2. /\ truth' \in Truths /\ truth'.counted = truth.counted
          /\ truth'.limitedFor = truth.limitedFor
      BY <1>2, <2>3, HistoryTyped
    <3>3. did' \in [cycle : BOOLEAN, asked : BOOLEAN, throttled : BOOLEAN]
      BY <1>3, <2>3
    <3> QED BY <1>1, <1>5, <2>3, <3>1, <3>2, <3>3, QuietKeeps
  <2>4. CASE RunOnceWithBalance(DailyReset(mem), TRUE)
    BY <1>1, <1>5, <2>4, CycleKeeps
  <2>5. CASE ReconcileWithBalance(DailyReset(mem))
    BY <1>1, <1>5, <2>5, ReconcileKeeps
  <2> QED BY <2>1, <2>2, <2>3, <2>4, <2>5 DEF HandleBalanceOutageTick
<1>6. ASSUME cooldown = 0, RunOnce PROVE IInv'
  BY <1>1, <1>6, CycleKeeps, FailureKeeps DEF RunOnce
<1>7. ASSUME cooldown = 0, ReconcileAfterMarketClose PROVE IInv'
  <2>1. CASE /\ did' = Nothing /\ mem' = DailyReset(mem)
             /\ UNCHANGED <<outage, cooldown, disk, unresolved, truth>>
    BY <1>1, <1>2, <1>3, <1>7, <2>1, QuietKeeps
  <2>2. CASE unresolved # {} /\ ReconcileWithBalance(mem)
    BY <1>1, <1>7, <2>2, ReconcileKeeps
  <2>3. CASE BalanceFails(DailyReset(mem))
    BY <1>1, <1>7, <2>3, FailureKeeps
  <2> QED BY <1>7, <2>1, <2>2, <2>3 DEF ReconcileAfterMarketClose
<1> QED BY <1>4, <1>5, <1>6, <1>7 DEF Poll, PollInHours, PollAfterHours

\* The passing of time keeps the invariant: the cooldown runs down as fast as the
\* rate limit that started it grows old.
LEMMA TickKeeps ==
  ASSUME IInv, Tick
  PROVE  IInv'
<1>1. /\ TypeOK /\ WaitsExclude /\ CooldownAgrees
      /\ truth \in Truths /\ outage \in Outages /\ cooldown \in 0 .. Cooldown
      /\ Cooldown \in Nat /\ MaxWait \in Nat
  BY WaitsAssumption DEF IInv, TypeOK
<1>2. cooldown' = IF cooldown = 0 THEN 0 ELSE cooldown - 1
  BY <1>1, LaterValue DEF Tick
<1>3. outage' \in Outages /\ outage'.active = outage.active
  <2>1. outage.retryIn \in 0 .. MaxWait
    BY <1>1 DEF Outages
  <2>2. Later(outage.retryIn) \in 0 .. MaxWait
    BY <1>1, <2>1, LaterValue
  <2> QED BY <1>1, <2>2 DEF Tick, Outages
<1>4. /\ truth' \in Truths /\ truth'.counted = truth.counted
      /\ truth'.limitedFor = Older(truth.limitedFor, Cooldown)
  <2>1. /\ truth.failedFor \in {Unset} \cup 0 .. MaxWait
        /\ truth.limitedFor \in {Unset} \cup 0 .. Cooldown
    BY <1>1 DEF Truths
  <2>2. /\ Older(truth.failedFor, MaxWait) \in {Unset} \cup 0 .. MaxWait
        /\ Older(truth.limitedFor, Cooldown) \in {Unset} \cup 0 .. Cooldown
    BY <1>1, <2>1 DEF Older, Unset
  <2>3. \A f \in {Unset} \cup 0 .. MaxWait, l \in {Unset} \cup 0 .. Cooldown :
          LET new == [truth EXCEPT !.failedFor = f, !.limitedFor = l]
          IN  new \in Truths /\ new.counted = truth.counted /\ new.limitedFor = l
    BY <1>1 DEF Truths
  <2> QED BY <2>2, <2>3 DEF Tick
<1>5. did' \in [cycle : BOOLEAN, asked : BOOLEAN, throttled : BOOLEAN]
  BY DEF Tick, Nothing
<1>6. TypeOK'
  BY <1>1, <1>2, <1>3, <1>4, <1>5 DEF TypeOK, Tick
<1>7. WaitsExclude'
  BY <1>1, <1>2, <1>3 DEF WaitsExclude
<1>8. CooldownAgrees'
  <2>1. truth.limitedFor \in {Unset} \cup 0 .. Cooldown
    BY <1>1 DEF Truths
  <2> QED BY <1>1, <1>2, <1>4, <2>1 DEF CooldownAgrees, Older, Unset
<1>9. CountersInv'
  BY <1>4 DEF IInv, CountersInv, Tick, Dated, MemoryAhead, OrdersAreDated, CountedIsKept
<1> QED BY <1>6, <1>7, <1>8, <1>9 DEF IInv, CountersInv

\* Midnight keeps the invariant: nothing is of the new day yet.
LEMMA ClockKeeps ==
  ASSUME IInv, ClockMoves
  PROVE  IInv'
<1>1. /\ TypeOK /\ day \in 1 .. Days /\ Days \in Nat
      /\ mem \in Memories /\ disk \in Saves /\ truth \in Truths
  BY DaysAssumption DEF IInv, TypeOK
<1>2. /\ day' = day \/ (day' = day + 1 /\ day < Days)
      /\ phase' \in Phases /\ waits' \in BOOLEAN
  BY <1>1 DEF ClockMoves, Phases, TypeOK
<1>3. UNCHANGED <<outage, cooldown, mem, disk, unresolved, restarts, truth>>
  BY DEF ClockMoves
<1>4. did' \in [cycle : BOOLEAN, asked : BOOLEAN, throttled : BOOLEAN]
  BY DEF ClockMoves, Nothing
<1>5. TypeOK'
  BY <1>1, <1>2, <1>3, <1>4 DEF TypeOK
<1>6. WaitsExclude' /\ CooldownAgrees'
  BY <1>3 DEF IInv, WaitsExclude, CooldownAgrees
<1>7. CASE day' = day
  <2>1. CountersInv'
    BY <1>3, <1>7 DEF IInv, CountersInv, Dated, MemoryAhead, OrdersAreDated, CountedIsKept
  <2> QED BY <1>5, <1>6, <2>1 DEF IInv, CountersInv
<1>8. CASE day' = day + 1
  <2>1. mem.runDate < day' /\ disk.runDate < day'
    BY <1>1, <1>8 DEF IInv, Dated, Memories, Saves
  <2>2. \A e \in mem.counters \cup disk.counters \cup truth.counted :
          e.of \in Int /\ e.at \in Int
    BY <1>1 DEF Memories, Saves, Truths, Events
  <2>3. Dated(mem)' /\ Dated(disk)'
    <3>1. \A e \in mem.counters \cup disk.counters : e.of < day'
      BY <1>1, <1>8, <2>2 DEF IInv, Dated
    <3>2. mem' = mem /\ disk' = disk /\ mem.runDate \in Int /\ disk.runDate \in Int
      BY <1>1, <1>3 DEF Memories, Saves
    <3>3. /\ mem.runDate = NoDay => mem.counters = {}
          /\ disk.runDate = NoDay => disk.counters = {}
      BY DEF IInv, Dated
    <3>4. Dated(mem)'
      BY <1>1, <1>8, <2>1, <2>2, <3>1, <3>2, <3>3 DEF Dated
    <3>5. Dated(disk)'
      BY <1>1, <1>8, <2>1, <2>2, <3>1, <3>2, <3>3 DEF Dated
    <3> QED BY <3>4, <3>5
  <2>4. MemoryAhead'
    BY <1>1, <1>3, <1>8, <2>1 DEF IInv, MemoryAhead
  <2>5. OrdersAreDated'
    BY <1>1, <1>3, <1>8 DEF IInv, OrdersAreDated, TypeOK
  <2>6. CountedIsKept'
    BY <1>1, <1>3, <1>8, <2>2 DEF IInv, CountedIsKept
  <2> QED BY <1>5, <1>6, <2>3, <2>4, <2>5, <2>6 DEF IInv
<1> QED BY <1>2, <1>7, <1>8

\* A restart keeps the invariant: what is loaded is of today or is rolled before
\* it is used.
LEMMA RestartKeeps ==
  ASSUME IInv, Restart
  PROVE  IInv'
<1>1. /\ TypeOK /\ day \in 1 .. Days /\ Days \in Nat
      /\ disk \in Saves /\ truth \in Truths /\ day' = day /\ unresolved' = unresolved
  BY DaysAssumption DEF IInv, TypeOK, Restart
<1> DEFINE loaded ==
      [resetDay |-> NoDay, runDate |-> disk.runDate, counters |-> disk.counters]
<1>2. /\ loaded \in Memories /\ loaded.resetDay = NoDay
      /\ loaded.runDate = disk.runDate /\ loaded.counters = disk.counters
  BY <1>1 DEF Saves, Memories, NoDay
<1>3. mem' = Rolled(loaded) \/ mem' = loaded
  BY DEF Restart
<1> HIDE DEF loaded
<1>4. /\ mem' \in Memories /\ mem'.resetDay = NoDay
      /\ \/ mem'.runDate = disk.runDate /\ mem'.counters = disk.counters
         \/ /\ mem'.runDate = day
            /\ mem'.counters = IF disk.runDate \in {NoDay, day} THEN disk.counters ELSE {}
  BY <1>1, <1>2, <1>3, RolledValue
<1>5. /\ disk' \in Saves /\ disk'.runDate = mem'.runDate /\ disk'.counters = mem'.counters
  BY <1>4 DEF Restart, Saved, Saves, Memories
<1>6. Dated(disk) /\ OrdersAreDated /\ CountedIsKept
  BY DEF IInv
<1>7. Dated(mem)'
  BY <1>1, <1>4, <1>6 DEF Dated, NoDay
<1>8. Dated(disk)'
  BY <1>5, <1>7 DEF Dated
<1>9. MemoryAhead'
  BY <1>4, <1>5 DEF MemoryAhead
<1>10. OrdersAreDated'
  BY <1>1, <1>4, <1>5, <1>6 DEF OrdersAreDated, NoDay
<1>11. /\ truth' \in Truths /\ truth'.counted = truth.counted /\ truth'.limitedFor = Unset
  <2> DEFINE updated(n, f, l) ==
        [truth EXCEPT !.failures = n, !.failedFor = f, !.limitedFor = l]
  <2>1. \A n \in 0 .. MaxWait, f \in {Unset} \cup 0 .. MaxWait, l \in {Unset} \cup 0 .. Cooldown :
          /\ updated(n, f, l) \in Truths /\ updated(n, f, l).counted = truth.counted
          /\ updated(n, f, l).limitedFor = l
    BY <1>1 DEF Truths
  <2>2. /\ 0 \in 0 .. MaxWait /\ Unset \in {Unset} \cup 0 .. MaxWait
        /\ Unset \in {Unset} \cup 0 .. Cooldown
    BY WaitsAssumption
  <2>3. truth' = updated(0, Unset, Unset)
    BY DEF Restart
  <2> HIDE DEF updated
  <2> QED BY <2>1, <2>2, <2>3
<1>12. CountedIsKept'
  BY <1>1, <1>4, <1>5, <1>6, <1>11 DEF CountedIsKept
<1>13. outage' \in Outages /\ ~outage'.active /\ cooldown' = 0
  BY OutagesTyped DEF Restart
<1>14. did' \in [cycle : BOOLEAN, asked : BOOLEAN, throttled : BOOLEAN]
  BY DEF Restart, Nothing
<1>15. TypeOK'
  BY <1>1, <1>4, <1>5, <1>11, <1>13, <1>14, WaitsAssumption, RestartsAssumption
     DEF TypeOK, Restart
<1>16. WaitsExclude' /\ CooldownAgrees'
  BY <1>11, <1>13 DEF WaitsExclude, CooldownAgrees
<1> QED BY <1>7, <1>8, <1>9, <1>10, <1>12, <1>15, <1>16 DEF IInv

-----------------------------------------------------------------------------
(* Theorems *)

\* The first start satisfies the invariant.
LEMMA InitSatisfies ==
  ASSUME Init
  PROVE  IInv
<1>1. TypeOK
  <2>1. day \in 1 .. Days /\ phase \in Phases /\ waits \in BOOLEAN
    BY DaysAssumption DEF Init
  <2>2. mem \in Memories /\ disk \in Saves
    BY DaysAssumption DEF Init, Memories, Saves, NoDay
  <2>3. truth \in Truths
    BY WaitsAssumption DEF Init, FreshTruth, Truths, Unset
  <2>4. /\ outage \in Outages /\ cooldown \in 0 .. Cooldown
        /\ unresolved \subseteq 1 .. Days /\ restarts \in 0 .. MaxRestarts
    BY OutagesTyped, WaitsAssumption, RestartsAssumption DEF Init
  <2>5. did \in [cycle : BOOLEAN, asked : BOOLEAN, throttled : BOOLEAN]
    BY DEF Init, Nothing
  <2> QED BY <2>1, <2>2, <2>3, <2>4, <2>5 DEF TypeOK
<1>2. WaitsExclude /\ CooldownAgrees
  BY DEF Init, WaitsExclude, CooldownAgrees, FreshTruth
<1>3. CountersInv
  BY DEF Init, CountersInv, Dated, MemoryAhead, OrdersAreDated, CountedIsKept,
         FreshTruth, NoDay
<1> QED BY <1>1, <1>2, <1>3 DEF IInv, CountersInv

\* Every step keeps the invariant.
LEMMA StepKeeps ==
  ASSUME IInv, [Next]_vars
  PROVE  IInv'
<1>1. CASE UNCHANGED vars
  BY <1>1 DEF vars, IInv, TypeOK, WaitsExclude, CooldownAgrees, Dated, MemoryAhead,
              OrdersAreDated, CountedIsKept
<1>2. CASE Next
  BY <1>2, PollKeeps, TickKeeps, ClockKeeps, RestartKeeps DEF Next
<1> QED BY <1>1, <1>2

\* The inductive invariant of the loop holds in every state.
THEOREM LoopInvariant == Spec => []IInv
<1>1. Init => IInv
  BY InitSatisfies
<1>2. IInv /\ [Next]_vars => IInv'
  BY StepKeeps
<1> QED BY <1>1, <1>2, PTL DEF Spec

\* The outage of the balance API and the cooldown after another API's rate limit are
\* never active together.
THEOREM WaitsNeverOverlap == Spec => []WaitsExclude
<1>1. IInv => WaitsExclude
  BY DEF IInv
<1> QED BY <1>1, LoopInvariant, PTL

\* Neither a cycle nor a request for the balance happens during the cooldown.
LEMMA AskedWithoutCooldown ==
  ASSUME Next, did'.cycle \/ did'.asked
  PROVE  cooldown = 0
<1>1. ~Nothing.cycle /\ ~Nothing.asked
  BY DEF Nothing
<1>2. Poll
  BY <1>1 DEF Next, Tick, ClockMoves, Restart
<1> QED BY <1>1, <1>2 DEF Poll, PollInHours, PollAfterHours, SkipForCooldown

\* A cycle runs in market hours, on today's counters and what fills add to them.
LEMMA CycleStep ==
  ASSUME Next, did'.cycle
  PROVE  MarketOpen /\ day' = day /\ mem' \in CountSome(DailyReset(mem), unresolved)
<1>1. ~Nothing.cycle /\ ~[Nothing EXCEPT !.asked = TRUE].cycle
  BY DEF Nothing
<1>2. Poll
  BY <1>1 DEF Next, Tick, ClockMoves, Restart
<1>3. ~SkipForCooldown /\ ~BalanceFails(DailyReset(mem))
  BY <1>1 DEF SkipForCooldown, BalanceFails
<1>4. ~ReconcileWithBalance(mem) /\ ~ReconcileWithBalance(DailyReset(mem))
  BY DEF ReconcileWithBalance
<1>5. \A asked \in BOOLEAN : RunOnceWithBalance(DailyReset(mem), asked)
        => mem' \in CountSome(DailyReset(mem), unresolved)
  BY DEF RunOnceWithBalance
<1>6. ~ReconcileAfterMarketClose
  BY <1>1, <1>3, <1>4 DEF ReconcileAfterMarketClose
<1>7. ~OutageTick(TRUE)
  BY <1>1, <1>4 DEF OutageTick, HandleBalanceOutageTick
<1>8. OutageTick(FALSE) => mem' \in CountSome(DailyReset(mem), unresolved)
  BY <1>1, <1>5 DEF OutageTick, HandleBalanceOutageTick
<1>9. RunOnce => mem' \in CountSome(DailyReset(mem), unresolved)
  BY <1>3, <1>5 DEF RunOnce
<1>10. MarketOpen /\ mem' \in CountSome(DailyReset(mem), unresolved)
  BY <1>2, <1>3, <1>6, <1>7, <1>8, <1>9 DEF Poll, PollInHours, PollAfterHours
<1> QED BY <1>2, <1>10 DEF Poll

\* After a rate limit that reached the loop nothing is asked for the cooldown.
THEOREM CooldownIsHonoured == Spec => CooldownHonoured
<1>1. IInv /\ [Next]_vars =>
        [did'.cycle \/ did'.asked => truth.limitedFor \in {Unset, Cooldown}]_vars
  <2> SUFFICES ASSUME IInv, Next, did'.cycle \/ did'.asked
               PROVE  truth.limitedFor \in {Unset, Cooldown}
    OBVIOUS
  <2>1. cooldown = 0
    BY AskedWithoutCooldown
  <2>2. truth.limitedFor \in {Unset} \cup 0 .. Cooldown /\ Cooldown \in Nat
    BY WaitsAssumption DEF IInv, TypeOK, Truths
  <2> QED BY <2>1, <2>2 DEF IInv, CooldownAgrees
<1> QED BY <1>1, LoopInvariant, PTL DEF Spec, CooldownHonoured

\* Orders are sent in market hours only, also when an outage ends outside them.
THEOREM OrdersStayInHours == Spec => OrdersOnlyInHours
<1>1. [Next]_vars => [did'.cycle => MarketOpen]_vars
  BY CycleStep
<1> QED BY <1>1, PTL DEF Spec, OrdersOnlyInHours

\* A cycle never decides on what was counted on an earlier day.
THEOREM CountersStayFresh == Spec => CountersAreFresh
<1>1. IInv /\ [Next]_vars =>
        [did'.cycle => \A e \in mem'.counters : e.at = day]_vars
  <2> SUFFICES ASSUME IInv, Next, did'.cycle
               PROVE  \A e \in mem'.counters : e.at = day
    OBVIOUS
  <2>1. PICK c \in CountSome(DailyReset(mem), unresolved) : c = mem'
    BY CycleStep
  <2>2. Today(c)
    BY CycleReached
  <2> QED BY <2>1, <2>2 DEF Today
<1> QED BY <1>1, LoopInvariant, PTL DEF Spec, CountersAreFresh

\* What was counted and saved today is in every later cycle of the day, whatever
\* restarts come in between.
THEOREM CountsAreKept == Spec => CountsSurvive
<1>1. IInv /\ [Next]_vars =>
        [did'.cycle => {e \in truth.counted : e.at = day} \subseteq mem'.counters]_vars
  <2> SUFFICES ASSUME IInv, Next, did'.cycle, NEW e \in truth.counted, e.at = day
               PROVE  e \in mem'.counters
    OBVIOUS
  <2>1. PICK c \in CountSome(DailyReset(mem), unresolved) : c = mem'
    BY CycleStep
  <2>2. Reached(c)
    BY CycleReached
  <2>3. disk.runDate = day /\ e \in disk.counters
    BY DEF IInv, CountedIsKept
  <2>4. mem.runDate = day /\ e \in mem.counters
    BY <2>3 DEF IInv, MemoryAhead
  <2> QED BY <2>1, <2>2, <2>4 DEF Reached
<1> QED BY <1>1, LoopInvariant, PTL DEF Spec, CountsSurvive

\* Every cycle of a day decides on the counters of that day, all of them and no
\* others, across midnights, outages, weekends and restarts.
THEOREM CountersAreRight == Spec => CountersFollowTheDay
BY CountersStayFresh, CountsAreKept DEF CountersFollowTheDay

-----------------------------------------------------------------------------
(* The backoff of an outage *)

\* A set of numbers has a least one.
LEMMA LeastNumber ==
  ASSUME NEW T, T \subseteq Nat, T # {}
  PROVE  \E x \in T : \A y \in T : x <= y
<1>1. ASSUME NEW x \in Nat, NEW y \in Nat, y < x PROVE <<y, x>> \in OpToRel(<, Nat)
  <2>1. <<y, x>> \in Nat \X Nat /\ <<y, x>>[1] < <<y, x>>[2]
    BY <1>1
  <2> QED BY <2>1 DEF OpToRel
<1>2. PICK x \in T : \A y \in T : <<y, x>> \notin OpToRel(<, Nat)
  BY NatLessThanWellFounded, WFMin
<1>3. ASSUME NEW y \in T PROVE x <= y
  <2>1. ~(y < x)
    BY <1>1, <1>2
  <2> QED BY <2>1
<1> QED BY <1>3

\* Induction over the numbers up to n, for a set instead of a predicate.
LEMMA Induction ==
  ASSUME NEW n \in Nat, NEW S, 0 \in S, \A i \in 0 .. n - 1 : i \in S => i + 1 \in S
  PROVE  0 .. n \subseteq S
<1> SUFFICES ASSUME (0 .. n) \ S # {} PROVE FALSE
  OBVIOUS
<1>1. PICK x \in (0 .. n) \ S : \A y \in (0 .. n) \ S : x <= y
  <2>1. (0 .. n) \ S \subseteq Nat
    OBVIOUS
  <2> QED BY <2>1, LeastNumber
<1>2. x # 0
  BY <1>1
<1>3. x - 1 \in 0 .. n - 1 /\ x - 1 \notin (0 .. n) \ S
  BY <1>1, <1>2
<1>4. (x - 1) + 1 \in S
  BY <1>3
<1> QED BY <1>1, <1>4

\* The first waits, each twice the one before
Waits(g, n) ==
  /\ g \in [0 .. n -> Nat] /\ g[0] = MinWait
  /\ \A i \in 1 .. n : g[i] = 2 * g[i - 1]

\* There are such waits, of any number,
LEMMA WaitsExist ==
  ASSUME NEW n \in Nat
  PROVE  \E g : Waits(g, n)
<1> DEFINE S == {i \in 0 .. n : \E g : Waits(g, i)}
<1>1. 0 \in S
  <2>1. Waits([i \in 0 .. 0 |-> MinWait], 0)
    BY WaitsAssumption DEF Waits
  <2> QED BY <2>1
<1>2. ASSUME NEW i \in 0 .. n - 1, i \in S PROVE i + 1 \in S
  <2>1. PICK g : Waits(g, i)
    BY <1>2
  <2> DEFINE h == [j \in 0 .. i + 1 |-> IF j = i + 1 THEN 2 * g[i] ELSE g[j]]
  <2>2. Waits(h, i + 1)
    BY <2>1 DEF Waits
  <2> QED BY <2>2
<1>3. 0 .. n \subseteq S
  <2> HIDE DEF S
  <2> QED BY <1>1, <1>2, Induction
<1> QED BY <1>3

\* and only one choice of them.
LEMMA WaitsAgree ==
  ASSUME NEW n \in Nat, NEW m \in Nat, n <= m, NEW g, NEW h, Waits(g, n), Waits(h, m)
  PROVE  \A i \in 0 .. n : g[i] = h[i]
<1> DEFINE S == {i \in 0 .. n : g[i] = h[i]}
<1>1. 0 \in S
  BY DEF Waits
<1>2. ASSUME NEW i \in 0 .. n - 1, i \in S PROVE i + 1 \in S
  BY <1>2 DEF Waits
<1>3. 0 .. n \subseteq S
  <2> HIDE DEF S
  <2> QED BY <1>1, <1>2, Induction
<1> QED BY <1>3

\* So the recursive definition of the waits is one that a function meets.
LEMMA DoubledValue ==
  /\ Doubled[0] = MinWait
  /\ \A n \in Nat : Doubled[n] \in Nat /\ Doubled[n + 1] = 2 * Doubled[n]
<1> DEFINE first(n) == CHOOSE g : Waits(g, n)
           f == [n \in Nat |-> first(n)[n]]
<1>1. \A n \in Nat : Waits(first(n), n)
  BY WaitsExist
<1> HIDE DEF first
<1>2. f[0] = MinWait
  BY <1>1 DEF Waits
<1>3. ASSUME NEW n \in Nat PROVE f[n] \in Nat /\ f[n + 1] = 2 * f[n]
  <2>1. Waits(first(n), n) /\ Waits(first(n + 1), n + 1)
    BY <1>1
  <2>2. first(n)[n] = first(n + 1)[n]
    BY <2>1, WaitsAgree
  <2>3. first(n)[n] \in Nat /\ first(n + 1)[n + 1] = 2 * first(n + 1)[n]
    BY <2>1 DEF Waits
  <2> QED BY <2>2, <2>3
<1>4. f = [n \in Nat |-> IF n = 0 THEN MinWait ELSE 2 * f[n - 1]]
  <2> SUFFICES ASSUME NEW n \in Nat
               PROVE  f[n] = IF n = 0 THEN MinWait ELSE 2 * f[n - 1]
    OBVIOUS
  <2>1. CASE n = 0
    BY <1>2, <2>1
  <2>2. CASE n # 0
    <3>1. n - 1 \in Nat /\ (n - 1) + 1 = n
      BY <2>2
    <3> HIDE DEF f
    <3> QED BY <1>3, <2>2, <3>1
  <2> QED BY <2>1, <2>2
<1> HIDE DEF f
<1>5. Doubled = [n \in Nat |-> IF n = 0 THEN MinWait ELSE 2 * Doubled[n - 1]]
  BY <1>4 DEF Doubled
<1>6. Doubled[0] = MinWait /\ \A n \in Nat : Doubled[n + 1] = 2 * Doubled[n]
  BY <1>5
<1>7. ASSUME NEW n \in Nat PROVE Doubled[n] \in Nat
  <2> DEFINE S == {i \in 0 .. n : Doubled[i] \in Nat}
  <2>1. 0 \in S
    BY <1>6, WaitsAssumption
  <2>2. ASSUME NEW i \in 0 .. n - 1, i \in S PROVE i + 1 \in S
    BY <1>6, <2>2
  <2>3. 0 .. n \subseteq S
    <3> HIDE DEF S
    <3> QED BY <2>1, <2>2, Induction
  <2> QED BY <2>3
<1> QED BY <1>6, <1>7

\* The waits outgrow every number.
LEMMA DoubledGrows ==
  ASSUME NEW n \in Nat
  PROVE  Doubled[n] >= n + 1
<1> DEFINE S == {i \in 0 .. n : Doubled[i] >= i + 1}
<1>1. 0 \in S
  BY DoubledValue, WaitsAssumption
<1>2. ASSUME NEW i \in 0 .. n - 1, i \in S PROVE i + 1 \in S
  <2>1. Doubled[i] \in Nat /\ Doubled[i + 1] = 2 * Doubled[i]
    BY DoubledValue
  <2> QED BY <1>2, <2>1
<1>3. 0 .. n \subseteq S
  <2> HIDE DEF S
  <2> QED BY <1>1, <1>2, Induction
<1> QED BY <1>3

\* The first wait is the least; each next one is twice as long, up to the maximum,
\* where it stays although the failures are counted no further.
LEMMA WaitsValue ==
  /\ WaitAfter(1) = MinWait
  /\ \A n \in 1 .. MaxWait :
       /\ WaitAfter(n) \in 1 .. MaxWait
       /\ WaitAfter(Min({MaxWait, n + 1})) = Min({2 * WaitAfter(n), MaxWait})
<1>1. WaitAfter(1) = MinWait
  <2>1. WaitAfter(1) = Min({MaxWait, MinWait})
    <3>1. WaitAfter(1) = Min({MaxWait, Doubled[1 - 1]}) /\ 1 - 1 = 0
      BY DEF WaitAfter
    <3> QED BY <3>1, DoubledValue
  <2> QED BY <2>1, Extremes, WaitsAssumption
<1>2. ASSUME NEW n \in 1 .. MaxWait
      PROVE  /\ WaitAfter(n) \in 1 .. MaxWait
             /\ WaitAfter(Min({MaxWait, n + 1})) = Min({2 * WaitAfter(n), MaxWait})
  <2>1. n - 1 \in Nat /\ (n - 1) + 1 = n /\ n \in Nat /\ MaxWait \in Nat
    BY WaitsAssumption
  <2>2. /\ Doubled[n - 1] \in Nat /\ Doubled[n] \in Nat
        /\ Doubled[n] = 2 * Doubled[n - 1] /\ Doubled[n - 1] >= n
    BY <2>1, DoubledValue, DoubledGrows
  <2>3. WaitAfter(n) = IF MaxWait <= Doubled[n - 1] THEN MaxWait ELSE Doubled[n - 1]
    BY <2>1, <2>2, Extremes DEF WaitAfter
  <2>4. WaitAfter(n + 1) = IF MaxWait <= Doubled[n] THEN MaxWait ELSE Doubled[n]
    <3>1. WaitAfter(n + 1) = Min({MaxWait, Doubled[n]})
      BY <2>1 DEF WaitAfter
    <3> QED BY <2>1, <2>2, <3>1, Extremes
  <2>5. Min({MaxWait, n + 1}) = IF n = MaxWait THEN n ELSE n + 1
    BY <2>1, Extremes
  <2>6. Min({2 * WaitAfter(n), MaxWait})
          = IF 2 * WaitAfter(n) <= MaxWait THEN 2 * WaitAfter(n) ELSE MaxWait
    BY <2>1, <2>2, <2>3, Extremes
  <2> QED BY <2>1, <2>2, <2>3, <2>4, <2>5, <2>6
<1> QED BY <1>1, <1>2

\* Failures are counted in an outage only, and its wait is the one for their number;
\* what is left of it and the time since the last failure add up to it.
OutageAgrees ==
  IF outage.active
  THEN /\ truth.failures \in 1 .. MaxWait
       /\ outage.interval = WaitAfter(truth.failures)
       /\ truth.failedFor # Unset
       /\ truth.failedFor + outage.retryIn >= outage.interval
  ELSE truth.failures = 0

\* A history that remembers more events, or a rate limit, has the same failures.
LEMMA FailuresKept ==
  ASSUME NEW t \in Truths, NEW new \in {t, [t EXCEPT !.limitedFor = 0]}
  PROVE  Remember(new).failures = t.failures /\ Remember(new).failedFor = t.failedFor
BY DEF Remember, Truths

\* A poll that has a balance, asked for or kept from before, leaves no outage and no
\* failure.
LEMMA AnswerEnds ==
  ASSUME TypeOK, NEW m, NEW asked \in BOOLEAN, asked \/ truth.failures = 0,
         RunOnceWithBalance(m, asked) \/ ReconcileWithBalance(m)
  PROVE  ~outage'.active /\ truth'.failures = 0
<1>1. outage' = NoOutage
  BY DEF RunOnceWithBalance, ReconcileWithBalance, EndedBefore
<1>2. PICK t \in {truth, Answered(truth)} :
        /\ t.failures = 0
        /\ truth' \in {Remember(t), Remember([t EXCEPT !.limitedFor = 0])}
  <2>1. Answered(truth).failures = 0
    BY DEF TypeOK, Truths, Answered
  <2>2. CASE RunOnceWithBalance(m, asked)
    BY <2>1, <2>2 DEF RunOnceWithBalance
  <2>3. CASE ReconcileWithBalance(m)
    BY <2>1, <2>3 DEF ReconcileWithBalance
  <2> QED BY <2>2, <2>3
<1>3. t \in Truths
  BY HistoryTyped DEF TypeOK
<1>4. truth'.failures = 0
  BY <1>2, <1>3, FailuresKept
<1> QED BY <1>1, <1>4 DEF NoOutage

\* The history of a failed request.
LEMMA FailedValue ==
  ASSUME NEW t \in Truths
  PROVE  /\ Failed(t).failures = Min({MaxWait, t.failures + 1})
         /\ Failed(t).failedFor = 0
BY DEF Failed, Truths

\* A request that fails outside an outage begins one or none,
LEMMA FailureBegins ==
  ASSUME TypeOK, OutageAgrees, ~outage.active, NEW m, BalanceFails(m)
  PROVE  OutageAgrees'
<1>1. CASE UNCHANGED <<outage, truth>>
  BY <1>1 DEF OutageAgrees
<1>2. CASE outage' = EnterBalanceOutage /\ truth' = Failed(truth)
  <2>1. truth.failures = 0 /\ truth \in Truths
    BY DEF OutageAgrees, TypeOK
  <2>2. truth'.failures = 1 /\ truth'.failedFor = 0
    <3>1. Min({MaxWait, 1}) = 1
      BY Extremes, WaitsAssumption
    <3>2. Failed(truth).failures = Min({MaxWait, 1}) /\ Failed(truth).failedFor = 0
      BY <2>1, FailedValue
    <3> QED BY <1>2, <3>1, <3>2
  <2>3. outage'.active /\ outage'.interval = MinWait /\ outage'.retryIn = MinWait
    BY <1>2 DEF EnterBalanceOutage
  <2> QED BY <2>2, <2>3, WaitsValue, WaitsAssumption DEF OutageAgrees, Unset
<1> QED BY <1>1, <1>2 DEF BalanceFails

\* and one of a retry makes the wait the next one.
LEMMA RetryFails ==
  ASSUME TypeOK, OutageAgrees, outage.active,
         outage' = LongerWait(outage), truth' = Failed(truth)
  PROVE  OutageAgrees'
<1>1. /\ truth.failures \in 1 .. MaxWait /\ outage.interval = WaitAfter(truth.failures)
      /\ truth \in Truths /\ outage \in Outages
  BY DEF OutageAgrees, TypeOK
<1>2. /\ outage'.active
      /\ outage'.interval = Min({2 * outage.interval, MaxWait})
      /\ outage'.retryIn = outage'.interval
  BY <1>1 DEF LongerWait, Outages
<1>3. truth'.failures = Min({MaxWait, truth.failures + 1}) /\ truth'.failedFor = 0
  BY <1>1, FailedValue
<1>4. truth'.failures \in 1 .. MaxWait
  BY <1>1, <1>3, Extremes, WaitsAssumption
<1>5. outage'.interval = WaitAfter(truth'.failures)
  BY <1>1, <1>2, <1>3, WaitsValue
<1>6. outage'.interval \in Int
  <2>1. WaitAfter(truth'.failures) \in 1 .. MaxWait
    BY <1>4, WaitsValue
  <2> QED BY <1>5, <2>1, WaitsAssumption
<1> QED BY <1>2, <1>3, <1>4, <1>5, <1>6 DEF OutageAgrees, Unset

\* Every poll keeps the outage and its history together.
LEMMA PollAgrees ==
  ASSUME TypeOK, OutageAgrees, Poll
  PROVE  OutageAgrees'
<1>1. ASSUME UNCHANGED <<outage, truth>> PROVE OutageAgrees'
  BY <1>1 DEF OutageAgrees
<1>2. ASSUME ~outage'.active, truth'.failures = 0 PROVE OutageAgrees'
  BY <1>2 DEF OutageAgrees
<1>3. ASSUME SkipForCooldown PROVE OutageAgrees'
  BY <1>1, <1>3 DEF SkipForCooldown
<1>4. ASSUME outage.active, NEW reconcileOnly \in BOOLEAN, OutageTick(reconcileOnly)
      PROVE  OutageAgrees'
  <2>1. CASE UNCHANGED <<outage, truth>>
    BY <1>1, <2>1
  <2>2. CASE outage' = LongerWait(outage) /\ truth' = Failed(truth)
    BY <1>4, <2>2, RetryFails
  <2>3. CASE RunOnceWithBalance(DailyReset(mem), TRUE)
    BY <1>2, <2>3, AnswerEnds
  <2>4. CASE ReconcileWithBalance(DailyReset(mem))
    BY <1>2, <2>4, AnswerEnds
  <2> QED BY <1>4, <2>1, <2>2, <2>3, <2>4 DEF OutageTick, HandleBalanceOutageTick
<1>5. ASSUME ~outage.active, RunOnce PROVE OutageAgrees'
  <2>1. truth.failures = 0
    BY <1>5 DEF OutageAgrees
  <2>2. CASE RunOnceWithBalance(DailyReset(mem), FALSE)
    BY <1>2, <2>1, <2>2, AnswerEnds
  <2>3. CASE RunOnceWithBalance(DailyReset(mem), TRUE)
    BY <1>2, <2>3, AnswerEnds
  <2>4. CASE BalanceFails(DailyReset(mem))
    BY <1>5, <2>4, FailureBegins
  <2> QED BY <1>5, <2>2, <2>3, <2>4 DEF RunOnce
<1>6. ASSUME ~outage.active, ReconcileAfterMarketClose PROVE OutageAgrees'
  <2>1. CASE UNCHANGED <<outage, truth>>
    BY <1>1, <2>1
  <2>2. CASE ReconcileWithBalance(mem)
    BY <1>2, <2>2, AnswerEnds
  <2>3. CASE BalanceFails(DailyReset(mem))
    BY <1>6, <2>3, FailureBegins
  <2> QED BY <1>6, <2>1, <2>2, <2>3 DEF ReconcileAfterMarketClose
<1> QED BY <1>3, <1>4, <1>5, <1>6 DEF Poll, PollInHours, PollAfterHours

\* Time takes from the wait what it adds to the age of the failure.
LEMMA TickAgrees ==
  ASSUME TypeOK, OutageAgrees, Tick
  PROVE  OutageAgrees'
<1>1. /\ outage \in Outages /\ truth \in Truths /\ MaxWait \in Nat
  BY WaitsAssumption DEF TypeOK
<1>2. /\ outage.retryIn \in 0 .. MaxWait /\ outage.interval \in 0 .. MaxWait
      /\ truth.failedFor \in {Unset} \cup 0 .. MaxWait
  BY <1>1 DEF Outages, Truths
<1>3. /\ outage'.active = outage.active /\ outage'.interval = outage.interval
      /\ outage'.retryIn = IF outage.retryIn = 0 THEN 0 ELSE outage.retryIn - 1
  BY <1>1, <1>2, LaterValue DEF Tick, Outages
<1>4. /\ truth'.failures = truth.failures
      /\ truth'.failedFor = Older(truth.failedFor, MaxWait)
  BY <1>1 DEF Tick, Truths
<1> QED BY <1>1, <1>2, <1>3, <1>4 DEF OutageAgrees, Older, Unset

\* Every step keeps the outage and its history together.
LEMMA StepAgrees ==
  ASSUME TypeOK, OutageAgrees, [Next]_vars
  PROVE  OutageAgrees'
<1>1. CASE UNCHANGED vars
  BY <1>1 DEF vars, OutageAgrees
<1>2. CASE ClockMoves
  BY <1>2 DEF ClockMoves, OutageAgrees
<1>3. CASE Restart
  <2>1. ~outage'.active
    BY <1>3 DEF Restart, NoOutage
  <2>2. truth'.failures = 0
    BY <1>3 DEF Restart, TypeOK, Truths
  <2> QED BY <2>1, <2>2 DEF OutageAgrees
<1> QED BY <1>1, <1>2, <1>3, PollAgrees, TickAgrees DEF Next

\* A poll that asks for the balance in an outage does so when its wait is over.
LEMMA AskedWhenDue ==
  ASSUME Next, did'.asked, outage.active
  PROVE  outage.retryIn = 0
<1>1. ~Nothing.asked
  BY DEF Nothing
<1>2. Poll /\ ~SkipForCooldown
  BY <1>1 DEF Next, Tick, ClockMoves, Restart, SkipForCooldown
<1>3. PICK reconcileOnly \in BOOLEAN : HandleBalanceOutageTick(reconcileOnly)
  BY <1>2 DEF Poll, PollInHours, PollAfterHours, OutageTick
<1> QED BY <1>1, <1>3 DEF HandleBalanceOutageTick

\* After each failure of an outage the balance API is left alone for as long as its
\* backoff says, whatever is polled meanwhile, for waits of any length.
THEOREM RetriesBackOff == Spec => BalanceRetriesBackOff
<1>1. Init => OutageAgrees
  BY DEF Init, NoOutage, FreshTruth, OutageAgrees
<1>2. IInv => TypeOK
  BY DEF IInv
<1>3. OutageAgrees /\ TypeOK /\ [Next]_vars => OutageAgrees'
  BY StepAgrees
<1>4. OutageAgrees /\ TypeOK /\ [Next]_vars =>
        [did'.asked /\ truth.failures > 0
          => truth.failedFor >= WaitAfter(truth.failures)]_vars
  <2> SUFFICES ASSUME OutageAgrees, TypeOK, Next, did'.asked, truth.failures > 0
               PROVE  truth.failedFor >= WaitAfter(truth.failures)
    OBVIOUS
  <2>1. outage.active
    BY DEF OutageAgrees
  <2>2. outage.retryIn = 0
    BY <2>1, AskedWhenDue
  <2>3. truth.failedFor \in Int
    BY DEF TypeOK, Truths, Unset
  <2> QED BY <2>1, <2>2, <2>3 DEF OutageAgrees
<1> QED BY <1>1, <1>2, <1>3, <1>4, LoopInvariant, PTL DEF Spec, BalanceRetriesBackOff

=============================================================================
