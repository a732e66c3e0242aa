--------------------------- MODULE OrderEvidence ---------------------------
(***************************************************************************)
(* The program around the broker adapter and the recorder: TradingService      *)
(* sends an order, asks for its status again and again                         *)
(* (_reconcile_tracked_order_status) and hands what each query ended with to   *)
(* the recorder (_safe_record_order_status_observation), until it is stopped   *)
(* or killed and started again.                                               *)
(***************************************************************************)
EXTENDS KiwoomBroker, EvidenceLog

CONSTANTS
  MaxQueries,  \* bound: status queries
  MaxRuns      \* bound: processes

ASSUME EvidenceAssumption == MaxQueries \in Nat \ {0} /\ MaxRuns \in Nat \ {0}

VARIABLES
  asked,       \* the status queries begun so far; the last one is being made
  runs         \* the processes started so far

vars == <<brokerVars, logVars, asked, runs>>

\* The trading thread is at work: shutdown is called when it has come to its end.
Running == recorder \in {"on", "off"}

Trade == Exchange /\ UNCHANGED <<logVars, asked, runs>>

Order ==
  /\ Running
  /\ PlaceOrder \/ Send
  /\ UNCHANGED <<logVars, asked, runs>>

Ask ==
  /\ Running /\ asked < MaxQueries
  /\ QueryStatus
  /\ asked' = asked + 1
  /\ UNCHANGED <<logVars, runs>>

Read == Running /\ ReadPage /\ UNCHANGED <<logVars, asked, runs>>

\* The query ends, with a judgement or with an error; both are recorded.
Finish ==
  /\ Running
  /\ QueryEnds
  /\ Record(asked)
  /\ UNCHANGED <<asked, runs>>
Keep == Writer /\ UNCHANGED <<brokerVars, asked, runs>>

Shutdown ==
  /\ (Stop /\ stage = "idle") \/ Join
  /\ UNCHANGED <<brokerVars, asked, runs>>

Kill == Die /\ BrokerDies /\ UNCHANGED <<asked, runs>>

Restart ==
  /\ runs < MaxRuns /\ runs' = runs + 1
  /\ Start
  /\ UNCHANGED <<brokerVars, asked>>

Init == BrokerInit /\ LogInit /\ asked = 0 /\ runs = 1
Next == Trade \/ Order \/ Ask \/ Read \/ Finish \/ Keep \/ Shutdown \/ Kill \/ Restart
Spec == Init /\ [][Next]_vars

-----------------------------------------------------------------------------
(***************************************************************************)
(* Not so.  _quarantine_incomplete_tail calls a cut last line the normal case *)
(* of a forced end and takes it out, so that recording goes on.  A line that   *)
(* is cut inside a Korean character is not decoded at all: UnicodeDecodeError  *)
(* is no OSError, the constructor's caller switches recording off, and the     *)
(* file stays as it is for every later start.                                *)
(***************************************************************************)
CutLineIsRepaired == recorder # "off"
=============================================================================
