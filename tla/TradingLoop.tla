----------------------------- MODULE TradingLoop -----------------------------
(***************************************************************************)
(* The polling loop of app/main.py around the cycle that OrderExecution       *)
(* details: which of its branches a poll takes, the outage of the balance API *)
(* with its own retries, the cooldown after a rate limit (429) of another     *)
(* API, market hours, and the daily counters that must be those of today when  *)
(* a cycle runs, across midnight, outages and restarts.                       *)
(*                                                                         *)
(* Abstractions.  A poll is one step: time passes between polls, any number   *)
(* of which fit into a unit of time.  The parts of a day follow one another    *)
(* at any speed.  A day's orders are one: they are outstanding or not.  Every  *)
(* counter of the day (entries, losses, blocked symbols) is the set of the     *)
(* events counted in it.  Price observations during an outage change nothing   *)
(* that is modelled.                                                        *)
(***************************************************************************)
EXTENDS Integers, FiniteSetsExt

CONSTANTS
  Days,        \* bound: the days are 1 .. Days
  Weekend,     \* the days without a market
  MinWait,     \* balance_retry_backoff_min_seconds
  MaxWait,     \* balance_retry_backoff_max_seconds
  Cooldown,    \* OTHER_API_RATE_LIMIT_COOLDOWN_SECONDS
  MaxRestarts, \* bound: restarts of the process
  Escapes      \* a 429 of another API may leave the cycle as an exception

ASSUME DaysAssumption == Days \in Nat \ {0} /\ Weekend \subseteq 1 .. Days
ASSUME WaitsAssumption ==
  MinWait \in Nat \ {0} /\ MaxWait \in Nat /\ MinWait <= MaxWait /\ Cooldown \in Nat \ {0}
ASSUME RestartsAssumption == MaxRestarts \in Nat /\ Escapes \in BOOLEAN

VARIABLES
  day, phase, \* the date, and the part of the day
  waits,      \* the process sleeps until the market opens
  outage,     \* _balance_outage_active and the schedule of its retries
  cooldown,   \* time left until other_api_rate_limit_until
  mem,        \* _last_reset_date, _last_run_date and the day's counters
  disk,       \* the latter two in state.json
  unresolved, \* the days that have orders outstanding
  restarts,   \* restarts so far
  did,        \* what the last poll did
  truth       \* history, for the properties only

vars == <<day, phase, waits, outage, cooldown, mem, disk, unresolved, restarts, did, truth>>

NoDay  == 0
Unset  == -1
Phases == {"night", "open", "closing", "evening"}

\* An event: the day of its order, and the day on which it was counted
Events == [of : 1 .. Days, at : 1 .. Days]

NoOutage == [active |-> FALSE, interval |-> 0, retryIn |-> 0]
Nothing  == [cycle |-> FALSE, asked |-> FALSE, throttled |-> FALSE]

(***************************************************************************)
(* History.  failures: balance requests that failed one after another since   *)
(* the outage began, up to a number from which the wait is MaxWait; failedFor: *)
(* time since the last; limitedFor: time since a 429 of another API reached    *)
(* the loop; counted: the events of today's orders that were counted today and *)
(* saved.                                                                   *)
(***************************************************************************)
FreshTruth ==
  [failures |-> 0, failedFor |-> Unset, limitedFor |-> Unset, counted |-> {}]

Outages  == [active : BOOLEAN, interval : 0 .. MaxWait, retryIn : 0 .. MaxWait]
Memories == [resetDay : 0 .. Days, runDate : 0 .. Days, counters : SUBSET Events]
Saves    == [runDate : 0 .. Days, counters : SUBSET Events]
Truths   ==
  [failures : 0 .. MaxWait, failedFor : {Unset} \cup 0 .. MaxWait,
   limitedFor : {Unset} \cup 0 .. Cooldown, counted : SUBSET Events]

\* The types of the state.
TypeOK ==
  /\ day \in 1 .. Days /\ phase \in Phases /\ waits \in BOOLEAN
  /\ outage \in Outages /\ cooldown \in 0 .. Cooldown
  /\ mem \in Memories /\ disk \in Saves
  /\ unresolved \subseteq 1 .. Days /\ restarts \in 0 .. MaxRestarts
  /\ did \in [cycle : BOOLEAN, asked : BOOLEAN, throttled : BOOLEAN]
  /\ truth \in Truths

\* is_market_open
MarketOpen == phase = "open" /\ day \notin Weekend

\* A first start, with no state.json, at any time of the first day
Init ==
  /\ day = 1 /\ phase \in Phases
  /\ waits = (phase = "night" \/ day \in Weekend)
  /\ outage = NoOutage /\ cooldown = 0
  /\ mem = [resetDay |-> NoDay, runDate |-> NoDay, counters |-> {}]
  /\ disk = [runDate |-> NoDay, counters |-> {}]
  /\ unresolved = {} /\ restarts = 0 /\ did = Nothing /\ truth = FreshTruth

-----------------------------------------------------------------------------
(* The day's counters *)

\* The roll that takes the start of the process for the start of a day
RolledAtStart(m) ==
  [m EXCEPT !.runDate = day, !.counters = IF m.resetDay = NoDay THEN {} ELSE @]

\* roll_trading_day and reset_daily_loss_counts: an undated state is kept.
Rolled(m) ==
  [m EXCEPT !.runDate = day,
            !.counters = IF m.runDate \in {NoDay, day} THEN @ ELSE {}]

\* The reset that only a start of the process brings
DailyResetAtStart(m) ==
  IF m.resetDay # NoDay THEN m ELSE [Rolled(m) EXCEPT !.resetDay = day]

\* _check_and_handle_daily_reset
DailyReset(m) ==
  IF m.resetDay = day THEN m ELSE [Rolled(m) EXCEPT !.resetDay = day]

\* The events of outstanding orders that a synchronisation finds and counts
CountSome(m, orders) ==
  {[m EXCEPT !.counters = @ \cup [of : fresh, at : {day}]] : fresh \in SUBSET orders}

\* JsonStateStore.save
Saved(m) == [runDate |-> m.runDate, counters |-> m.counters]

Remember(t) ==
  [t EXCEPT !.counted = @ \cup {e \in disk'.counters : e.of = day /\ e.at = day}]

-----------------------------------------------------------------------------
(* The outage of the balance API *)

\* enter_balance_outage
EnterBalanceOutage == [active |-> TRUE, interval |-> MinWait, retryIn |-> MinWait]

\* A retry failed: the same interval again
SameWait(o) == [o EXCEPT !.retryIn = o.interval]

\* A retry failed: twice the interval, up to the maximum.
LongerWait(o) ==
  LET wait == Min({2 * o.interval, MaxWait}) IN [o EXCEPT !.interval = wait, !.retryIn = wait]

\* _exit_balance_outage, before the balance is used
EndedBefore(raised) == NoOutage

Failed(t) == [t EXCEPT !.failures = Min({MaxWait, @ + 1}), !.failedFor = 0]

Answered(t) == [t EXCEPT !.failures = 0, !.failedFor = Unset]

-----------------------------------------------------------------------------
(* One poll *)

(***************************************************************************)
(* _run_once_with_balance, and what trading_loop does with an exception of     *)
(* it.  A cycle finds fills of outstanding orders, sends orders, each after the  *)
(* state was saved with its intent, and saves the state at its end.            *)
(***************************************************************************)
RunOnceWithBalance(m, asked) ==
  \E ends \in {"saved", "raised", "limited"}, throttled, sends \in BOOLEAN,
     left \in SUBSET unresolved :
    /\ ends = "limited" => Escapes /\ throttled
    /\ mem' \in CountSome(m, unresolved)
    /\ disk' = Saved(mem') \/ (ends # "saved" /\ ~sends /\ UNCHANGED disk)
    /\ unresolved' = IF sends THEN left \cup {day} ELSE left
    /\ cooldown' = IF ends = "limited" THEN Cooldown ELSE 0
    /\ outage' = EndedBefore(ends # "saved")
    /\ did' = [cycle |-> TRUE, asked |-> asked, throttled |-> throttled]
    /\ truth' = LET t == IF asked THEN Answered(truth) ELSE truth
                IN  Remember(IF ends = "limited" THEN [t EXCEPT !.limitedFor = 0] ELSE t)

\* The balance request failed, in the loop's normal state: only a 429 is an outage.
BalanceFails(m) ==
  /\ did' = [Nothing EXCEPT !.asked = TRUE]
  /\ \/ outage' = EnterBalanceOutage /\ truth' = Failed(truth)
     \/ UNCHANGED <<outage, truth>>
  /\ mem' = m
  /\ UNCHANGED <<cooldown, disk, unresolved>>

\* run_once: a cached balance serves while nothing is outstanding.
RunOnce ==
  \/ unresolved = {} /\ RunOnceWithBalance(DailyReset(mem), FALSE)
  \/ RunOnceWithBalance(DailyReset(mem), TRUE)
  \/ BalanceFails(DailyReset(mem))

(***************************************************************************)
(* The synchronisation outside market hours, and the save after it; and what   *)
(* trading_loop does with an exception.                                      *)
(***************************************************************************)
ReconcileWithBalance(m) ==
  \E ends \in {"saved", "raised", "limited"}, throttled \in BOOLEAN,
     left \in SUBSET unresolved :
    /\ ends = "limited" => Escapes /\ throttled
    /\ \E counted \in CountSome(m, unresolved) :
         /\ mem' = DailyReset(counted)
         /\ disk' = Saved(counted) \/ (ends # "saved" /\ UNCHANGED disk)
    /\ unresolved' = left
    /\ cooldown' = IF ends = "limited" THEN Cooldown ELSE 0
    /\ outage' = EndedBefore(ends # "saved")
    /\ did' = [cycle |-> FALSE, asked |-> TRUE, throttled |-> throttled]
    /\ truth' = LET t == Answered(truth)
                IN  Remember(IF ends = "limited" THEN [t EXCEPT !.limitedFor = 0] ELSE t)

\* reconcile_after_market_close
ReconcileAfterMarketClose ==
  \/ /\ unresolved = {} /\ did' = Nothing /\ mem' = DailyReset(mem)
     /\ UNCHANGED <<outage, cooldown, disk, unresolved, truth>>
  \/ unresolved # {} /\ ReconcileWithBalance(mem)
  \/ unresolved # {} /\ BalanceFails(DailyReset(mem))

\* handle_balance_outage_tick(reconcile_only)
HandleBalanceOutageTick(reconcileOnly) ==
  LET m == DailyReset(mem)
  IN  \/ /\ outage.retryIn > 0
         /\ did' = Nothing /\ mem' = m
         /\ UNCHANGED <<outage, cooldown, disk, unresolved, truth>>
      \/ /\ outage.retryIn = 0
         /\ did' = [Nothing EXCEPT !.asked = TRUE]
         /\ mem' = m /\ outage' = LongerWait(outage) /\ truth' = Failed(truth)
         /\ UNCHANGED <<cooldown, disk, unresolved>>
      \/ outage.retryIn = 0 /\ ~reconcileOnly /\ RunOnceWithBalance(m, TRUE)
      \/ outage.retryIn = 0 /\ reconcileOnly /\ ReconcileWithBalance(m)

\* The tick that recovers into a normal cycle at any time
TickAtAnyTime(reconcileOnly) == HandleBalanceOutageTick(FALSE)

\* The tick of the branch that was taken
OutageTick(reconcileOnly) == HandleBalanceOutageTick(reconcileOnly)

\* A poll that starts the cooldown over
CooldownAgain ==
  /\ cooldown > 0 /\ did' = Nothing /\ mem' = DailyReset(mem) /\ cooldown' = Cooldown
  /\ UNCHANGED <<outage, disk, unresolved, truth>>

\* The poll that forgets the cooldown
PollDespiteCooldown ==
  cooldown > 0 /\ IF MarketOpen THEN RunOnce ELSE ReconcileAfterMarketClose

\* A poll during the cooldown looks at the date and at nothing else.
SkipForCooldown ==
  /\ cooldown > 0 /\ did' = Nothing /\ mem' = DailyReset(mem)
  /\ UNCHANGED <<outage, cooldown, disk, unresolved, truth>>

\* The polls of trading_loop by the market's hours
PollInHours ==
  /\ MarketOpen
  /\ \/ SkipForCooldown
     \/ cooldown = 0 /\ outage.active /\ OutageTick(FALSE)
     \/ cooldown = 0 /\ ~outage.active /\ RunOnce

PollAfterHours ==
  /\ ~MarketOpen
  /\ \/ SkipForCooldown
     \/ cooldown = 0 /\ outage.active /\ OutageTick(TRUE)
     \/ cooldown = 0 /\ ~outage.active /\ ReconcileAfterMarketClose

Poll ==
  /\ ~waits
  /\ PollInHours \/ PollAfterHours
  /\ UNCHANGED <<day, phase, waits, restarts>>

-----------------------------------------------------------------------------
(* Time and restarts *)

Later(t) == Max({0, t - 1})
Older(age, cap) == IF age \in {Unset, cap} THEN age ELSE age + 1

\* A unit of time passes.
Tick ==
  /\ outage' = [outage EXCEPT !.retryIn = Later(@)]
  /\ cooldown' = Later(cooldown)
  /\ truth' = [truth EXCEPT !.failedFor = Older(@, MaxWait),
                            !.limitedFor = Older(@, Cooldown)]
  /\ did' = Nothing
  /\ UNCHANGED <<day, phase, waits, mem, disk, unresolved, restarts>>

\* The next part of the day, or the next day
ClockMoves ==
  /\ \/ /\ phase # "evening" /\ UNCHANGED day
        /\ phase' = CASE phase = "night" -> "open" [] phase = "open" -> "closing"
                      [] phase = "closing" -> "evening"
     \/ phase = "evening" /\ day < Days /\ day' = day + 1 /\ phase' = "night"
  /\ waits' = (waits /\ ~MarketOpen')
  /\ did' = Nothing
  /\ UNCHANGED <<outage, cooldown, mem, disk, unresolved, restarts, truth>>

(***************************************************************************)
(* The process dies and is started: state.json is read and, if the balance    *)
(* answers, reconciled and saved (a paper account goes on without); then the    *)
(* loop waits for the market of this day or of the next.                      *)
(***************************************************************************)
Restart ==
  /\ restarts < MaxRestarts /\ restarts' = restarts + 1
  /\ outage' = NoOutage /\ cooldown' = 0 /\ did' = Nothing
  /\ \E reconciled \in BOOLEAN :
       LET loaded == [resetDay |-> NoDay, runDate |-> disk.runDate, counters |-> disk.counters]
       IN  mem' = IF reconciled THEN Rolled(loaded) ELSE loaded
  /\ disk' = Saved(mem')
  /\ waits' = (phase = "night" \/ day \in Weekend)
  /\ truth' = [truth EXCEPT !.failures = 0, !.failedFor = Unset, !.limitedFor = Unset]
  /\ UNCHANGED <<day, phase, unresolved>>

Next == Poll \/ Tick \/ ClockMoves \/ Restart

Spec == Init /\ [][Next]_vars

(***************************************************************************)
(* Time passes, and the balance API, asked again and again, answers at last.  *)
(* Nothing is assumed of the other APIs.                                     *)
(***************************************************************************)
Fairness == SF_vars(Tick) /\ SF_vars(PollInHours /\ Poll /\ did'.cycle)

FairSpec == Spec /\ Fairness

-----------------------------------------------------------------------------
(* The inductive invariant *)

\* The two waits never run together, so that neither has to yield to the other.
WaitsExclude == ~(outage.active /\ cooldown > 0)

\* A state of the day's counters, in memory or on disk: nothing is counted before
\* the first date; under today's date only what was counted today is; and an
\* event of one of today's orders is found only under today's date.
Dated(m) ==
  /\ m.runDate <= day
  /\ m.runDate = NoDay => m.counters = {}
  /\ m.runDate = day => \A e \in m.counters : e.at = day
  /\ \A e \in m.counters : e.of <= day /\ (e.of = day => m.runDate = day)

\* What memory knows is at least what the disk knows.
MemoryAhead ==
  /\ disk.runDate = day => mem.runDate = day /\ disk.counters \subseteq mem.counters
  /\ mem.runDate = NoDay => disk.runDate = NoDay
  /\ mem.resetDay # NoDay => mem.resetDay = mem.runDate

\* An outstanding order was sent under the date that its intent has on disk.
OrdersAreDated ==
  /\ \A d \in unresolved : d <= day
  /\ unresolved # {} => disk.runDate # NoDay
  /\ day \in unresolved => disk.runDate = day

\* What was counted and saved today is there.
CountedIsKept ==
  \A e \in truth.counted :
    e.at <= day /\ (e.at = day => disk.runDate = day /\ e \in disk.counters)

\* The cooldown is what is left of it since the last rate limit.
CooldownAgrees ==
  truth.limitedFor # Unset => cooldown = Cooldown - truth.limitedFor

\* Everything that the properties rest on, and that every step keeps.
IInv ==
  /\ TypeOK /\ WaitsExclude /\ CooldownAgrees
  /\ Dated(mem) /\ Dated(disk) /\ MemoryAhead /\ OrdersAreDated /\ CountedIsKept

-----------------------------------------------------------------------------
(* Properties *)

\* The retries of an outage are 30, 60, 120 and then always 180 seconds apart.
Doubled[n \in Nat] == IF n = 0 THEN MinWait ELSE 2 * Doubled[n - 1]
WaitAfter(n) == Min({MaxWait, Doubled[n - 1]})

\* Whatever else is polled meanwhile, in or out of hours, the balance API is left
\* alone after each failure of an outage for as long as its backoff says.
BalanceRetriesBackOff ==
  [][did'.asked /\ truth.failures > 0
       => truth.failedFor >= WaitAfter(truth.failures)]_vars

\* After a 429 of another API has reached the loop neither a cycle nor a
\* reconciliation starts for the cooldown, in or out of hours.
CooldownHonoured ==
  [][did'.cycle \/ did'.asked => truth.limitedFor \in {Unset, Cooldown}]_vars

\* A cycle, which may send orders, runs in market hours only: an outage that ends
\* in the evening reconciles and sends nothing.
OrdersOnlyInHours == [][did'.cycle => MarketOpen]_vars

\* When a cycle decides on orders, nothing that was counted on an earlier day is
\* in the counters, whatever branch the polls since midnight have taken.
CountersAreFresh == [][did'.cycle => \A e \in mem'.counters : e.at = day]_vars

\* What was counted today and saved is still counted in every later cycle of the
\* day, also after restarts: no limit of the day is forgotten.
CountsSurvive ==
  [][did'.cycle => {e \in truth.counted : e.at = day} \subseteq mem'.counters]_vars

\* The counters with which a cycle decides are those of its day: nothing of an earlier
\* one, and all that was saved of this one.
CountersFollowTheDay == CountersAreFresh /\ CountsSurvive

\* While the market stays open cycles run again and again.
TradingGoesOn == <>[](MarketOpen /\ ~waits) => []<>did.cycle

=============================================================================
