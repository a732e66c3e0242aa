------------------------------ MODULE EndOfDay ------------------------------
(***************************************************************************)
(* The work after the close of the market (_run_end_of_day_tasks in         *)
(* domain/service/trading_service.py): the report of every day, provisional *)
(* while orders are unresolved and final once they are not, the analyses    *)
(* that follow it, the bundle that packs them, and the retries of what      *)
(* failed.  Time is counted in polls; what is waited for is the time that   *)
(* is left (_eod_retry_at minus the clock), so that the clock has no bound. *)
(***************************************************************************)
EXTENDS Integers, FiniteSets

CONSTANTS LastDay,       \* days are 0..LastDay
          Analyses,      \* the follow-ups that come before the bundle
          Backoff,       \* _eod_report_retry_backoff_seconds, in polls
          Durations,     \* how long one run of the tasks may take
          MaxFailures,   \* bound: runs of the tasks in which something fails
          MaxRestarts    \* bound: restarts of the process

ASSUME EodAssumption ==
  /\ LastDay \in Nat /\ Backoff \in Nat \ {0} /\ Durations \subseteq Nat
  /\ MaxFailures \in Nat /\ MaxRestarts \in Nat
  /\ "bundle" \notin Analyses /\ IsFiniteSet(Analyses)

Days  == 0..LastDay
Steps == Analyses \cup {"bundle"}

VARIABLES
  day, late,      \* the date, and whether it is past 15:25
  unresolved,     \* _has_unresolved_orders()
  generated,      \* _report_generated_date, -1 when none
  pending,        \* _eod_pending_dates: "no", "unsaved" (False) or "provisional" (True)
  followups,      \* _eod_followups_pending: the steps left to do
  wait,           \* _eod_retry_at: polls left until the day may be tried again
  report,         \* the report file of a day: how it was saved, and its version
  made,           \* the version of the report each analysis of a day was made after
  packed,         \* what the bundle of a day holds: report and oldest analysis
  finals,         \* history: days whose final report this process has saved
  forgotten,      \* history: days whose unfinished work a restart has dropped
  failures, restarts

memory == <<generated, pending, followups, wait>>
files  == <<report, made, packed>>
ghosts == <<finals, forgotten>>
vars   == <<day, late, unresolved, memory, files, ghosts, failures, restarts>>

Init ==
  /\ day = 0 /\ late = FALSE /\ unresolved = FALSE
  /\ generated = -1
  /\ pending = [d \in Days |-> "no"]
  /\ followups = [d \in Days |-> {}]
  /\ wait = [d \in Days |-> 0]
  /\ report = [d \in Days |-> [kind |-> "none", version |-> 0]]
  /\ made = [d \in Days |-> [s \in Analyses |-> 0]]
  /\ packed = [d \in Days |-> [report |-> 0, oldest |-> 0]]
  /\ finals = {} /\ forgotten = {}
  /\ failures = 0 /\ restarts = 0

-----------------------------------------------------------------------------
Least(S) == CHOOSE d \in S : \A e \in S : d <= e

\* mutant: one pending day only, so that a new day drops the one before.
RegisteredAlone == [d \in Days |-> IF d # day THEN "no"
                                  ELSE IF generated # day THEN "unsaved" ELSE pending[d]]

\* The registration of today: only here does the time of the day matter.
Registered == IF generated # day THEN [pending EXCEPT ![day] = "unsaved"] ELSE pending

\* mutants: finalises over unresolved orders; knows today only.
DueAnyway == {d \in Days : Registered[d] # "no" /\ wait[d] = 0}
DueToday  == {d \in DueAnyway : d = day /\ (Registered[d] = "provisional" => ~unresolved)}

\* The days whose report is to be saved now: not before the retry is due, and a
\* provisional one not before every order is resolved.
Due == {d \in Days : /\ Registered[d] # "no"
                     /\ wait[d] = 0
                     /\ Registered[d] = "provisional" => ~unresolved}

\* The days with nothing to save of which some follow-up has failed.
Retriable == {d \in Days : followups[d] # {} /\ wait[d] = 0}

\* A run that takes t polls ends: what the other days wait for comes nearer, and
\* the wait of d, which starts when its failure is seen, is w.
Waits(d, t, w) == [e \in Days |-> IF e = d THEN w ELSE IF wait[e] > t THEN wait[e] - t ELSE 0]

\* _generate_daily_report: the file is replaced as a whole, or not at all.
Saved(d, kind) ==
  report' = [report EXCEPT ![d] = [kind |-> kind, version |-> @.version + 1]]

CanFail == failures < MaxFailures

\* mutant: whatever the analyses have done.
MayPackAlone(left) == "bundle" \in left

\* The bundle of a day is made once no analysis is left to do.
MayPack(left) == "bundle" \in left /\ left \cap Analyses = {}

Version(f) == LET S == {f[s] : s \in Analyses}
              IN IF S = {} THEN 0 ELSE CHOOSE v \in S : \A w \in S : v <= w

\* _run_eod_followups for the steps todo of d: the analyses in ok succeed, then the
\* bundle if packs; what failed is left, and its wait starts at the end.
RunFollowups(d, todo, ok, packs, t, version) ==
  LET left == (todo \ ok) \ (IF packs THEN {"bundle"} ELSE {})
      m    == [s \in Analyses |-> IF s \in ok THEN version ELSE made[d][s]]
  IN /\ ok \subseteq todo \cap Analyses
     /\ packs => MayPack(todo \ ok)
     /\ left # {} => CanFail
     /\ followups' = [followups EXCEPT ![d] = left]
     /\ made' = [made EXCEPT ![d] = m]
     /\ packed' = IF packs THEN [packed EXCEPT ![d] = [report |-> version, oldest |-> Version(m)]]
                           ELSE packed
     /\ wait' = Waits(d, t, IF left = {} THEN 0 ELSE Backoff)
     /\ failures' = IF left = {} THEN failures ELSE failures + 1

-----------------------------------------------------------------------------
\* The oldest due report is saved, and all of its follow-ups are done again.
SaveReport(t, ok, packs) ==
  /\ late /\ Due # {}
  /\ LET d    == Least(Due)
         kind == IF Registered[d] = "unsaved" /\ unresolved THEN "provisional" ELSE "final"
     IN /\ Saved(d, kind)
        /\ finals' = IF kind = "final" THEN finals \cup {d} ELSE finals
        /\ pending' = [Registered EXCEPT ![d] = IF kind = "final" THEN "no" ELSE "provisional"]
        /\ RunFollowups(d, Steps, ok, packs, t, report[d].version + 1)
  /\ generated' = day
  /\ UNCHANGED <<day, late, unresolved, forgotten, restarts>>

\* The report cannot be saved: nothing changes but the time of the next attempt.
SaveFails(t) ==
  /\ late /\ Due # {} /\ CanFail
  /\ LET d == Least(Due)
     IN wait' = Waits(d, t, Backoff)
  /\ pending' = Registered
  /\ generated' = day
  /\ failures' = failures + 1
  /\ UNCHANGED <<day, late, unresolved, followups, files, finals, forgotten, restarts>>

\* No report is due: the failed follow-ups of the oldest such day are tried again.
RetryFollowups(t, ok, packs) ==
  /\ late /\ Due = {} /\ Retriable # {}
  /\ LET d == Least(Retriable)
     IN RunFollowups(d, followups[d], ok, packs, t, report[d].version)
  /\ pending' = Registered
  /\ generated' = day
  /\ UNCHANGED <<day, late, unresolved, report, finals, forgotten, restarts>>

\* A poll that runs the tasks (trading_loop, past 15:25 with the market closed).
RunEndOfDayTasks ==
  \E t \in Durations :
    \/ \E ok \in SUBSET Analyses, packs \in BOOLEAN :
         SaveReport(t, ok, packs) \/ RetryFollowups(t, ok, packs)
    \/ SaveFails(t)

\* Time passes between two polls.
Pass ==
  /\ late /\ \E d \in Days : wait[d] > 0
  /\ wait' = [d \in Days |-> IF wait[d] > 0 THEN wait[d] - 1 ELSE 0]
  /\ UNCHANGED <<day, late, unresolved, generated, pending, followups, files, ghosts, failures, restarts>>

\* 15:25 comes, and after it the next day; a night is longer than any wait.
Afternoon ==
  /\ ~late /\ late' = TRUE
  /\ UNCHANGED <<day, unresolved, memory, files, ghosts, failures, restarts>>

Night ==
  /\ late /\ day < LastDay
  /\ day' = day + 1 /\ late' = FALSE
  /\ wait' = [d \in Days |-> 0]
  /\ UNCHANGED <<unresolved, generated, pending, followups, files, ghosts, failures, restarts>>

\* An order is sent in market hours; it is resolved then or at any later poll.
SendOrder ==
  /\ ~late /\ unresolved' = TRUE
  /\ UNCHANGED <<day, late, memory, files, ghosts, failures, restarts>>

Resolve ==
  /\ unresolved /\ unresolved' = FALSE
  /\ UNCHANGED <<day, late, memory, files, ghosts, failures, restarts>>

\* The process starts again: what is to be finished was in memory only.  Orders
\* are recovered from the journal.
Restart ==
  /\ restarts < MaxRestarts
  /\ generated' = -1
  /\ pending' = [d \in Days |-> "no"]
  /\ followups' = [d \in Days |-> {}]
  /\ wait' = [d \in Days |-> 0]
  /\ finals' = {}
  /\ forgotten' = forgotten \cup {d \in Days : pending[d] # "no" \/ followups[d] # {}}
  /\ restarts' = restarts + 1
  /\ UNCHANGED <<day, late, unresolved, files, failures>>

Next ==
  \/ RunEndOfDayTasks
  \/ Pass \/ Afternoon \/ Night
  \/ SendOrder \/ Resolve
  \/ Restart

Spec == Init /\ [][Next]_vars

\* The loop polls for ever and the days pass; orders are resolved in the end.
FairSpec ==
  /\ Spec
  /\ WF_vars(RunEndOfDayTasks) /\ WF_vars(Pass) /\ WF_vars(Afternoon) /\ WF_vars(Resolve)

-----------------------------------------------------------------------------
TypeOK ==
  /\ day \in Days /\ late \in BOOLEAN /\ unresolved \in BOOLEAN
  /\ generated \in Days \cup {-1}
  /\ pending \in [Days -> {"no", "unsaved", "provisional"}]
  /\ followups \in [Days -> SUBSET Steps]
  /\ wait \in [Days -> Nat]
  /\ report \in [Days -> [kind : {"none", "provisional", "final"}, version : Nat]]
  /\ made \in [Days -> [Analyses -> Nat]]
  /\ packed \in [Days -> [report : Nat, oldest : Nat]]
  /\ finals \subseteq Days /\ forgotten \subseteq Days
  /\ failures \in Nat /\ restarts \in Nat

\* A final report is never saved over unresolved orders, and once final a report is
\* not saved again by the process that saved it: only a restart may do it over.
FinalIsFinal ==
  [][\A d \in Days : report'[d] # report[d] =>
        /\ report'[d].kind = "final" => ~unresolved
        /\ d \notin finals]_vars

\* A bundle holds no analysis that is older than the report it holds, whichever steps
\* failed and were tried again in between.
BundleIsFresh ==
  \A d \in Days : Analyses # {} /\ packed[d].report > 0 => packed[d].oldest = packed[d].report

\* Nothing unfinished is dropped without a restart: a report that is not final waits to
\* be saved again, and one that is newer than its bundle has follow-ups left.
LeftoversAreTracked ==
  \A d \in Days \ forgotten :
    /\ report[d].kind = "provisional" => pending[d] = "provisional"
    /\ report[d].version > packed[d].report => "bundle" \in followups[d]

\* Once a day is registered its report becomes final and its bundle is made from it, if the
\* process goes on: no day is starved by another, and no failure ends the attempts.
Finished(d) == report[d].kind = "final" /\ packed[d].report = report[d].version
DaysAreFinished ==
  \A d \in Days : (generated = d) ~> (Finished(d) \/ d \in forgotten)
=============================================================================
