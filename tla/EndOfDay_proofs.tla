--------------------------- MODULE EndOfDay_proofs ---------------------------
(***************************************************************************)
(* Theorems about the end-of-day reports for every number of days, any     *)
(* analyses, any length of the waits and of the tasks, and every number of *)
(* failures and restarts.                                                  *)
(***************************************************************************)
EXTENDS EndOfDay, WellFoundedInduction, TLAPS

-----------------------------------------------------------------------------
(* Helpers                                                                  *)

\* Some numbers have a least one.
LEMMA LeastNumber ==
  ASSUME NEW S \in SUBSET Nat, S # {}
  PROVE  \E d \in S : \A e \in S : d <= e
<1> DEFINE R == OpToRel(<, Nat)
<1>1. IsWellFoundedOn(R, Nat)
  BY NatLessThanWellFounded
<1>2. R = {ss \in Nat \X Nat : ss[1] < ss[2]}
  BY DEF OpToRel
<1> HIDE DEF R
<1>3. PICK d \in S : \A e \in S : <<e, d>> \notin R
  BY <1>1, WFMin
<1>4. \A e \in S : ~(e < d)
  BY <1>2, <1>3
<1> QED BY <1>3, <1>4

\* The oldest of some days is one of them.
LEMMA LeastIsThere ==
  ASSUME NEW S \in SUBSET Days, S # {}
  PROVE  Least(S) \in S
<1>1. S \in SUBSET Nat
  BY EodAssumption DEF Days
<1> QED BY <1>1, LeastNumber DEF Least

\* The version of a bundle whose analyses all have the same one.
LEMMA OneVersion ==
  ASSUME NEW f, NEW v \in Nat, Analyses # {}, \A s \in Analyses : f[s] = v
  PROVE  Version(f) = v
<1>1. {f[s] : s \in Analyses} = {v}
  OBVIOUS
<1> QED BY <1>1 DEF Version

-----------------------------------------------------------------------------
(* Types                                                                    *)

LEMMA RegisteredType ==
  TypeOK => Registered \in [Days -> {"no", "unsaved", "provisional"}]
BY DEF TypeOK, Registered

LEMMA WaitsType ==
  ASSUME TypeOK, NEW d, NEW t \in Nat, NEW w \in Nat
  PROVE  Waits(d, t, w) \in [Days -> Nat]
BY DEF TypeOK, Waits

LEMMA VersionType ==
  ASSUME NEW f \in [Analyses -> Nat]
  PROVE  Version(f) \in Nat
<1> DEFINE S == {f[s] : s \in Analyses}
<1>1. CASE S = {}
  BY <1>1 DEF Version
<1>2. CASE S # {}
  <2>1. S \in SUBSET Nat
    OBVIOUS
  <2>2. \E v \in S : \A w \in S : v <= w
    BY <1>2, <2>1, LeastNumber
  <2> QED BY <1>2, <2>1, <2>2 DEF Version
<1> QED BY <1>1, <1>2

\* What one run of the follow-ups of a day leaves.
LEMMA FollowupsType ==
  ASSUME TypeOK, NEW d \in Days, NEW todo \in SUBSET Steps, NEW ok \in SUBSET Analyses,
         NEW packs \in BOOLEAN, NEW t \in Durations, NEW version \in Nat,
         RunFollowups(d, todo, ok, packs, t, version)
  PROVE  /\ followups' \in [Days -> SUBSET Steps]
         /\ made' \in [Days -> [Analyses -> Nat]]
         /\ packed' \in [Days -> [report : Nat, oldest : Nat]]
         /\ wait' \in [Days -> Nat]
         /\ failures' \in Nat
<1> DEFINE left == (todo \ ok) \ (IF packs THEN {"bundle"} ELSE {})
           m    == [s \in Analyses |-> IF s \in ok THEN version ELSE made[d][s]]
<1>1. left \in SUBSET Steps /\ m \in [Analyses -> Nat]
  BY DEF TypeOK
<1>2. Version(m) \in Nat
  <2> HIDE DEF m
  <2> QED BY <1>1, VersionType
<1>3. /\ followups' = [followups EXCEPT ![d] = left]
      /\ made' = [made EXCEPT ![d] = m]
      /\ packed' = IF packs THEN [packed EXCEPT ![d] = [report |-> version, oldest |-> Version(m)]]
                   ELSE packed
      /\ wait' = Waits(d, t, IF left = {} THEN 0 ELSE Backoff)
      /\ failures' = IF left = {} THEN failures ELSE failures + 1
  BY DEF RunFollowups
<1>4. wait' \in [Days -> Nat]
  <2>1. t \in Nat /\ (IF left = {} THEN 0 ELSE Backoff) \in Nat
    BY EodAssumption
  <2> HIDE DEF left
  <2> QED BY <1>3, <2>1, WaitsType
<1> HIDE DEF left, m
<1> QED BY <1>1, <1>2, <1>3, <1>4 DEF TypeOK

\* Every action leaves a typed state.
LEMMA TypeStep == TypeOK /\ [Next]_vars => TypeOK'
<1> SUFFICES ASSUME TypeOK, [Next]_vars PROVE TypeOK'
  OBVIOUS
<1>1. ASSUME NEW t \in Durations, NEW ok \in SUBSET Analyses, NEW packs \in BOOLEAN,
             SaveReport(t, ok, packs)
      PROVE  TypeOK'
  <2> DEFINE d == Least(Due)
  <2>1. d \in Days
    BY <1>1, LeastIsThere DEF SaveReport, Due
  <2>2. report[d].version + 1 \in Nat
    BY <2>1 DEF TypeOK
  <2>3. RunFollowups(d, Steps, ok, packs, t, report[d].version + 1)
    BY <1>1 DEF SaveReport
  <2>4. PICK kind \in {"final", "provisional"} :
          /\ Saved(d, kind)
          /\ finals' = IF kind = "final" THEN finals \cup {d} ELSE finals
          /\ pending' = [Registered EXCEPT ![d] = IF kind = "final" THEN "no" ELSE "provisional"]
    BY <1>1 DEF SaveReport
  <2> HIDE DEF d
  <2>5. report' \in [Days -> [kind : {"none", "provisional", "final"}, version : Nat]]
    BY <2>1, <2>2, <2>4 DEF Saved, TypeOK
  <2>6. pending' \in [Days -> {"no", "unsaved", "provisional"}]
    BY <2>1, <2>4, RegisteredType
  <2>7. /\ followups' \in [Days -> SUBSET Steps] /\ made' \in [Days -> [Analyses -> Nat]]
        /\ packed' \in [Days -> [report : Nat, oldest : Nat]]
        /\ wait' \in [Days -> Nat] /\ failures' \in Nat
    BY <2>1, <2>2, <2>3, FollowupsType
  <2> QED BY <1>1, <2>1, <2>4, <2>5, <2>6, <2>7 DEF SaveReport, TypeOK
<1>2. ASSUME NEW t \in Durations, NEW ok \in SUBSET Analyses, NEW packs \in BOOLEAN,
             RetryFollowups(t, ok, packs)
      PROVE  TypeOK'
  <2> DEFINE d == Least(Retriable)
  <2>1. d \in Days
    BY <1>2, LeastIsThere DEF RetryFollowups, Retriable
  <2>2. report[d].version \in Nat /\ followups[d] \in SUBSET Steps
    BY <2>1 DEF TypeOK
  <2>3. RunFollowups(d, followups[d], ok, packs, t, report[d].version)
    BY <1>2 DEF RetryFollowups
  <2> HIDE DEF d
  <2>4. /\ followups' \in [Days -> SUBSET Steps] /\ made' \in [Days -> [Analyses -> Nat]]
        /\ packed' \in [Days -> [report : Nat, oldest : Nat]]
        /\ wait' \in [Days -> Nat] /\ failures' \in Nat
    BY <2>1, <2>2, <2>3, FollowupsType
  <2> QED BY <1>2, <2>4, RegisteredType DEF RetryFollowups, TypeOK
<1>3. ASSUME NEW t \in Durations, SaveFails(t) PROVE TypeOK'
  <2>1. wait' \in [Days -> Nat]
    BY <1>3, WaitsType, EodAssumption DEF SaveFails
  <2> QED BY <1>3, <2>1, RegisteredType DEF SaveFails, TypeOK, files
<1>4. CASE Pass
  BY <1>4 DEF Pass, TypeOK, files, ghosts
<1>5. CASE Afternoon \/ SendOrder \/ Resolve
  BY <1>5 DEF Afternoon, SendOrder, Resolve, TypeOK, memory, files, ghosts
<1>6. CASE Night
  <2>1. day' \in Days
    BY <1>6, EodAssumption DEF Night, TypeOK, Days
  <2> QED BY <1>6, <2>1 DEF Night, TypeOK, files, ghosts
<1>7. CASE Restart
  BY <1>7 DEF Restart, TypeOK, files
<1>8. CASE UNCHANGED vars
  BY <1>8 DEF vars, TypeOK, memory, files, ghosts
<1> QED BY <1>1, <1>2, <1>3, <1>4, <1>5, <1>6, <1>7, <1>8 DEF Next, RunEndOfDayTasks

LEMMA TypeInit == Init => TypeOK
<1> SUFFICES ASSUME Init PROVE TypeOK
  OBVIOUS
<1>1. 0 \in Days
  BY EodAssumption DEF Days
<1>2. report \in [Days -> [kind : {"none", "provisional", "final"}, version : Nat]]
  BY DEF Init
<1>3. packed \in [Days -> [report : Nat, oldest : Nat]]
  BY DEF Init
<1>4. made \in [Days -> [Analyses -> Nat]]
  BY DEF Init
<1>5. /\ pending \in [Days -> {"no", "unsaved", "provisional"}]
      /\ followups \in [Days -> SUBSET Steps] /\ wait \in [Days -> Nat]
  BY DEF Init
<1> QED BY <1>1, <1>2, <1>3, <1>4, <1>5 DEF Init, TypeOK

-----------------------------------------------------------------------------
(* The invariant                                                            *)

\* A day whose final report this process has saved is done with, and is not
\* registered again: neither a later poll of the same day nor a later day does it.
FinalsAreDone ==
  \A d \in Days :
    /\ d \in finals => pending[d] = "no" /\ (d < day \/ (d = day /\ generated = day))
    /\ pending[d] # "no" => d <= day

\* A provisional report of this process waits, and today's registration does not
\* come over it.
ProvisionalsWait ==
  \A d \in Days \ forgotten :
    report[d].kind = "provisional" =>
      pending[d] = "provisional" /\ (d < day \/ (d = day /\ generated = day))

BundlesAreLeft ==
  \A d \in Days \ forgotten :
    report[d].version > packed[d].report => "bundle" \in followups[d]

\* Of a day with work left, the analyses that are done were made after its report.
MadeIsCurrent ==
  \A d \in Days : followups[d] # {} =>
    \A s \in Analyses \ followups[d] : made[d][s] = report[d].version

EodInv ==
  TypeOK /\ FinalsAreDone /\ ProvisionalsWait /\ BundlesAreLeft /\ MadeIsCurrent /\ BundleIsFresh

\* What a run of the follow-ups does to the day it is for, and that it leaves the others.
LEMMA FollowupsEffect ==
  ASSUME TypeOK, NEW d \in Days, NEW todo \in SUBSET Steps, NEW ok \in SUBSET Analyses,
         NEW packs \in BOOLEAN, NEW t \in Durations, NEW version \in Nat,
         RunFollowups(d, todo, ok, packs, t, version),
         \A s \in Analyses \ todo : made[d][s] = version
  PROVE  /\ \A e \in Days \ {d} : /\ followups'[e] = followups[e] /\ made'[e] = made[e]
                                  /\ packed'[e] = packed[e]
         /\ \A s \in Analyses \ followups'[d] : made'[d][s] = version
         /\ \/ packed'[d].report = version /\ (Analyses # {} => packed'[d].oldest = version)
            \/ packed'[d] = packed[d] /\ ("bundle" \in todo => "bundle" \in followups'[d])
<1> DEFINE left == (todo \ ok) \ (IF packs THEN {"bundle"} ELSE {})
           m    == [s \in Analyses |-> IF s \in ok THEN version ELSE made[d][s]]
<1>1. /\ followups' = [followups EXCEPT ![d] = left]
      /\ made' = [made EXCEPT ![d] = m]
      /\ packed' = IF packs THEN [packed EXCEPT ![d] = [report |-> version, oldest |-> Version(m)]]
                   ELSE packed
      /\ packs => MayPack(todo \ ok)
  BY DEF RunFollowups
<1>2. \A s \in Analyses \ left : m[s] = version
  BY EodAssumption
<1>3. packs => Analyses \cap left = {}
  BY <1>1 DEF MayPack
<1>4. packs /\ Analyses # {} => Version(m) = version
  <2> HIDE DEF m, left
  <2> QED BY <1>2, <1>3, OneVersion
<1>5. ~packs /\ "bundle" \in todo => "bundle" \in left
  BY EodAssumption
<1> HIDE DEF m, left
<1>6. followups'[d] = left /\ made'[d] = m
  BY <1>1 DEF TypeOK
<1>7. CASE packs
  <2>1. packed'[d] = [report |-> version, oldest |-> Version(m)]
    BY <1>1, <1>7 DEF TypeOK
  <2> QED BY <1>1, <1>2, <1>4, <1>6, <1>7, <2>1 DEF TypeOK
<1>8. CASE ~packs
  BY <1>1, <1>2, <1>5, <1>6, <1>8 DEF TypeOK
<1> QED BY <1>7, <1>8

-----------------------------------------------------------------------------
(* The steps                                                                *)

\* Registration does not touch what is done or waits.
LEMMA RegistrationKeeps ==
  ASSUME EodInv
  PROVE  /\ \A d \in finals : Registered[d] = "no"
         /\ \A d \in Days : Registered[d] # "no" => d <= day
         /\ \A d \in Days \ forgotten :
              report[d].kind = "provisional" => Registered[d] = "provisional" /\ d <= day
<1>1. /\ day \in Days /\ finals \subseteq Days
      /\ pending \in [Days -> {"no", "unsaved", "provisional"}]
      /\ Registered = IF generated # day THEN [pending EXCEPT ![day] = "unsaved"] ELSE pending
      /\ \A d \in Days : d \in Int
  BY EodAssumption DEF EodInv, TypeOK, Registered, Days
<1>2. ASSUME NEW d \in Days
      PROVE  Registered[d] = IF generated # day /\ d = day THEN "unsaved" ELSE pending[d]
  BY <1>1
<1> QED BY <1>1, <1>2 DEF EodInv, FinalsAreDone, ProvisionalsWait

LEMMA SaveStep ==
  ASSUME EodInv, NEW t \in Durations, NEW ok \in SUBSET Analyses, NEW packs \in BOOLEAN,
         SaveReport(t, ok, packs), TypeOK'
  PROVE  /\ EodInv'
         /\ \A d \in Days : report'[d] # report[d] =>
              (report'[d].kind = "final" => ~unresolved) /\ d \notin finals
<1> DEFINE d == Least(Due)
           version == report[d].version + 1
<1>1. d \in Due /\ d \in Days
  BY LeastIsThere DEF SaveReport, Due
<1>2. /\ Registered[d] # "no" /\ (Registered[d] = "provisional" => ~unresolved)
      /\ Registered[d] \in {"no", "unsaved", "provisional"}
  BY <1>1, RegisteredType DEF Due, EodInv
<1>3. d \notin finals /\ d <= day
  BY <1>1, <1>2, RegistrationKeeps
<1>4. version \in Nat
  BY <1>1 DEF EodInv, TypeOK
<1>5. /\ RunFollowups(d, Steps, ok, packs, t, version)
      /\ generated' = day /\ day' = day /\ forgotten' = forgotten
  BY DEF SaveReport
<1>6. PICK kind \in {"final", "provisional"} :
        /\ kind = IF Registered[d] = "unsaved" /\ unresolved THEN "provisional" ELSE "final"
        /\ report' = [report EXCEPT ![d] = [kind |-> kind, version |-> @.version + 1]]
        /\ finals' = IF kind = "final" THEN finals \cup {d} ELSE finals
        /\ pending' = [Registered EXCEPT ![d] = IF kind = "final" THEN "no" ELSE "provisional"]
  BY DEF SaveReport, Saved
<1> HIDE DEF d
<1>7. \A s \in Analyses \ Steps : made[d][s] = version
  BY DEF Steps
<1>8. TypeOK /\ Steps \in SUBSET Steps
  BY DEF EodInv
<1> HIDE DEF version
<1>9. /\ \A e \in Days \ {d} : /\ followups'[e] = followups[e] /\ made'[e] = made[e]
                               /\ packed'[e] = packed[e]
      /\ \A s \in Analyses \ followups'[d] : made'[d][s] = version
      /\ \/ packed'[d].report = version /\ (Analyses # {} => packed'[d].oldest = version)
         \/ packed'[d] = packed[d] /\ ("bundle" \in Steps => "bundle" \in followups'[d])
  BY <1>1, <1>4, <1>5, <1>7, <1>8, FollowupsEffect
<1>10. report'[d] = [kind |-> kind, version |-> version]
  BY <1>1, <1>6 DEF version, EodInv, TypeOK
<1>11. \A e \in Days \ {d} : report'[e] = report[e] /\ pending'[e] = Registered[e]
  BY <1>6, RegisteredType DEF EodInv, TypeOK
<1>12. pending'[d] = IF kind = "final" THEN "no" ELSE "provisional"
  BY <1>1, <1>6, RegisteredType DEF EodInv
<1>13. \A e \in Days : e \in Int /\ day \in Int
  BY EodAssumption DEF Days, EodInv, TypeOK
<1>14. FinalsAreDone'
  <2> SUFFICES ASSUME NEW e \in Days
               PROVE  /\ e \in finals' => pending'[e] = "no" /\ (e < day \/ e = day)
                      /\ pending'[e] # "no" => e <= day
    BY <1>5 DEF FinalsAreDone
  <2>1. CASE e = d
    BY <1>3, <1>6, <1>12, <1>13, <2>1
  <2>2. CASE e # d
    <3>1. pending'[e] = Registered[e] /\ (e \in finals' => e \in finals)
      BY <1>6, <1>11, <2>2
    <3>2. e \in finals => e < day \/ e = day
      BY DEF EodInv, FinalsAreDone
    <3> QED BY <3>1, <3>2, RegistrationKeeps
  <2> QED BY <2>1, <2>2
<1>15. ProvisionalsWait'
  <2> SUFFICES ASSUME NEW e \in Days \ forgotten, report'[e].kind = "provisional"
               PROVE  pending'[e] = "provisional" /\ (e < day \/ e = day)
    BY <1>5 DEF ProvisionalsWait
  <2>1. CASE e = d
    BY <1>3, <1>10, <1>12, <1>13, <2>1
  <2>2. CASE e # d
    BY <1>11, <1>13, <2>2, RegistrationKeeps
  <2> QED BY <2>1, <2>2
<1>16. BundlesAreLeft'
  <2> SUFFICES ASSUME NEW e \in Days \ forgotten, report'[e].version > packed'[e].report
               PROVE  "bundle" \in followups'[e]
    BY <1>5 DEF BundlesAreLeft
  <2>1. CASE e = d
    BY <1>4, <1>9, <1>10, <2>1 DEF Steps
  <2>2. CASE e # d
    BY <1>9, <1>11, <2>2 DEF EodInv, BundlesAreLeft
  <2> QED BY <2>1, <2>2
<1>17. MadeIsCurrent'
  BY <1>9, <1>10, <1>11 DEF EodInv, MadeIsCurrent
<1>18. BundleIsFresh'
  BY <1>9 DEF EodInv, BundleIsFresh
<1>19. \A e \in Days : report'[e] # report[e] =>
              (report'[e].kind = "final" => ~unresolved) /\ e \notin finals
  BY <1>2, <1>3, <1>6, <1>10, <1>11
<1> QED BY <1>14, <1>15, <1>16, <1>17, <1>18, <1>19 DEF EodInv

LEMMA RetryStep ==
  ASSUME EodInv, NEW t \in Durations, NEW ok \in SUBSET Analyses, NEW packs \in BOOLEAN,
         RetryFollowups(t, ok, packs), TypeOK'
  PROVE  EodInv'
<1> DEFINE d == Least(Retriable)
           version == report[d].version
<1>1. d \in Days /\ followups[d] # {}
  BY LeastIsThere DEF RetryFollowups, Retriable
<1>2. /\ RunFollowups(d, followups[d], ok, packs, t, version)
      /\ pending' = Registered /\ generated' = day
      /\ UNCHANGED <<day, report, finals, forgotten>>
  BY DEF RetryFollowups
<1> HIDE DEF d
<1>3. TypeOK /\ followups[d] \in SUBSET Steps /\ version \in Nat
  BY <1>1 DEF EodInv, TypeOK
<1>4. \A s \in Analyses \ followups[d] : made[d][s] = version
  BY <1>1 DEF EodInv, MadeIsCurrent
<1> HIDE DEF version
<1>5. /\ \A e \in Days \ {d} : /\ followups'[e] = followups[e] /\ made'[e] = made[e]
                               /\ packed'[e] = packed[e]
      /\ \A s \in Analyses \ followups'[d] : made'[d][s] = version
      /\ \/ packed'[d].report = version /\ (Analyses # {} => packed'[d].oldest = version)
         \/ packed'[d] = packed[d] /\ ("bundle" \in followups[d] => "bundle" \in followups'[d])
  BY <1>1, <1>2, <1>3, <1>4, FollowupsEffect
<1>6. report'[d].version = version
  BY <1>2 DEF version
<1>7. \A e \in Days : e \in Int /\ day \in Int
  BY EodAssumption DEF Days, EodInv, TypeOK
<1>8. FinalsAreDone' /\ ProvisionalsWait'
  BY <1>2, <1>7, RegistrationKeeps DEF EodInv, FinalsAreDone, ProvisionalsWait
<1>9. BundlesAreLeft'
  <2> SUFFICES ASSUME NEW e \in Days \ forgotten, report[e].version > packed'[e].report
               PROVE  "bundle" \in followups'[e]
    BY <1>2 DEF BundlesAreLeft
  <2>1. CASE e = d
    BY <1>2, <1>3, <1>5, <1>6, <2>1 DEF EodInv, BundlesAreLeft
  <2>2. CASE e # d
    BY <1>5, <2>2 DEF EodInv, BundlesAreLeft
  <2> QED BY <2>1, <2>2
<1>10. MadeIsCurrent'
  BY <1>2, <1>5, <1>6 DEF EodInv, MadeIsCurrent
<1>11. BundleIsFresh'
  BY <1>5 DEF EodInv, BundleIsFresh
<1> QED BY <1>8, <1>9, <1>10, <1>11 DEF EodInv

\* A report that cannot be saved is registered all the same.
LEMMA SaveFailsStep ==
  ASSUME EodInv, NEW t, SaveFails(t), TypeOK'
  PROVE  EodInv'
<1>1. /\ pending' = Registered /\ generated' = day
      /\ UNCHANGED <<day, followups, report, made, packed, finals, forgotten>>
  BY DEF SaveFails, files
<1>2. \A e \in Days : e \in Int /\ day \in Int
  BY EodAssumption DEF Days, EodInv, TypeOK
<1>3. FinalsAreDone' /\ ProvisionalsWait'
  BY <1>1, <1>2, RegistrationKeeps DEF EodInv, FinalsAreDone, ProvisionalsWait
<1> QED BY <1>1, <1>3 DEF EodInv, BundlesAreLeft, MadeIsCurrent, BundleIsFresh

\* The next day is registered by none of the reports so far.
LEMMA NightStep ==
  ASSUME EodInv, Night, TypeOK'
  PROVE  EodInv'
<1>1. /\ day' = day + 1
      /\ UNCHANGED <<generated, pending, followups, report, made, packed, finals, forgotten>>
  BY DEF Night, files, ghosts
<1>2. \A e \in Days : e \in Int /\ day \in Int
  BY EodAssumption DEF Days, EodInv, TypeOK
<1>3. \A e \in Days : (e < day \/ e = day => e < day + 1) /\ (e <= day => e <= day + 1)
  BY <1>2
<1>4. FinalsAreDone' /\ ProvisionalsWait'
  BY <1>1, <1>3 DEF EodInv, FinalsAreDone, ProvisionalsWait
<1> QED BY <1>1, <1>4 DEF EodInv, BundlesAreLeft, MadeIsCurrent, BundleIsFresh

\* What a restart forgets is what it had left to do.
LEMMA RestartStep ==
  ASSUME EodInv, Restart, TypeOK'
  PROVE  EodInv'
<1>1. /\ \A d \in Days : pending'[d] = "no" /\ followups'[d] = {}
      /\ finals' = {} /\ UNCHANGED <<report, made, packed>>
      /\ forgotten' = forgotten \cup {d \in Days : pending[d] # "no" \/ followups[d] # {}}
  BY DEF Restart, files
<1>2. ProvisionalsWait' /\ BundlesAreLeft'
  BY <1>1 DEF EodInv, ProvisionalsWait, BundlesAreLeft
<1>3. FinalsAreDone' /\ MadeIsCurrent' /\ BundleIsFresh'
  BY <1>1 DEF EodInv, FinalsAreDone, MadeIsCurrent, BundleIsFresh
<1> QED BY <1>2, <1>3 DEF EodInv

\* What the rest of the invariant speaks of is left alone by the other actions.
LEMMA OtherStep ==
  ASSUME EodInv, TypeOK',
         UNCHANGED <<day, generated, pending, followups, report, made, packed, finals, forgotten>>
  PROVE  EodInv'
BY DEF EodInv, FinalsAreDone, ProvisionalsWait, BundlesAreLeft, MadeIsCurrent, BundleIsFresh

LEMMA EodInit == Init => EodInv
<1> SUFFICES ASSUME Init PROVE EodInv
  OBVIOUS
<1>1. /\ finals = {}
      /\ \A d \in Days : /\ pending[d] = "no" /\ followups[d] = {} /\ report[d].kind = "none"
                         /\ report[d].version = 0 /\ packed[d].report = 0
  BY DEF Init
<1> QED BY <1>1, TypeInit
      DEF EodInv, FinalsAreDone, ProvisionalsWait, BundlesAreLeft, MadeIsCurrent, BundleIsFresh

LEMMA EodStep ==
  ASSUME EodInv, [Next]_vars
  PROVE  /\ EodInv'
         /\ \A d \in Days : report'[d] # report[d] =>
              (report'[d].kind = "final" => ~unresolved) /\ d \notin finals
<1>1. TypeOK'
  BY TypeStep DEF EodInv
<1>2. ASSUME NEW t \in Durations, NEW ok \in SUBSET Analyses, NEW packs \in BOOLEAN,
             SaveReport(t, ok, packs) \/ RetryFollowups(t, ok, packs)
      PROVE  /\ EodInv'
             /\ \A d \in Days : report'[d] # report[d] =>
                  (report'[d].kind = "final" => ~unresolved) /\ d \notin finals
  BY <1>1, <1>2, SaveStep, RetryStep DEF RetryFollowups
<1>3. ASSUME NEW t \in Durations, SaveFails(t) PROVE EodInv' /\ report' = report
  BY <1>1, <1>3, SaveFailsStep DEF SaveFails, files
<1>4. CASE Night
  BY <1>1, <1>4, NightStep DEF Night, files
<1>5. CASE Restart
  BY <1>1, <1>5, RestartStep DEF Restart, files
<1>6. CASE Pass \/ Afternoon \/ SendOrder \/ Resolve \/ UNCHANGED vars
  <2>1. UNCHANGED <<day, generated, pending, followups, report, made, packed, finals, forgotten>>
    BY <1>6 DEF Pass, Afternoon, SendOrder, Resolve, vars, memory, files, ghosts
  <2> QED BY <1>1, <2>1, OtherStep
<1> QED BY <1>2, <1>3, <1>4, <1>5, <1>6 DEF Next, RunEndOfDayTasks

-----------------------------------------------------------------------------
(* The theorems                                                             *)

LEMMA EodInvariant == Spec => []EodInv
<1>1. EodInv /\ [Next]_vars => EodInv'
  BY EodStep
<1> QED BY <1>1, EodInit, PTL DEF Spec

\* The types of the state, for any constants.
THEOREM TypeCorrect == Spec => []TypeOK
<1>1. EodInv => TypeOK
  BY DEF EodInv
<1> QED BY <1>1, EodInvariant, PTL

\* A bundle is made from analyses of the report it holds (_run_eod_followups).
THEOREM BundlesAreFresh == Spec => []BundleIsFresh
<1>1. EodInv => BundleIsFresh
  BY DEF EodInv
<1> QED BY <1>1, EodInvariant, PTL

\* Provisional reports and missing bundles are remembered until they are made good,
\* or the process starts again (_eod_pending_dates, _eod_followups_pending).
THEOREM LeftoversStay == Spec => []LeftoversAreTracked
<1>1. EodInv => LeftoversAreTracked
  BY DEF EodInv, ProvisionalsWait, BundlesAreLeft, LeftoversAreTracked
<1> QED BY <1>1, EodInvariant, PTL

\* A final report covers resolved orders only and is saved once by a process.
THEOREM FinalStaysFinal == Spec => FinalIsFinal
<1>1. EodInv /\ [Next]_vars =>
        [\A d \in Days : report'[d] # report[d] =>
           /\ report'[d].kind = "final" => ~unresolved
           /\ d \notin finals]_vars
  BY EodStep
<1> QED BY <1>1, EodInvariant, PTL DEF Spec, FinalIsFinal
=============================================================================
