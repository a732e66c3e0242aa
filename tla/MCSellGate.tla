----------------------------- MODULE MCSellGate -----------------------------
(***************************************************************************)
(* The instance of SellGate that TLC checks.  The unit of time is 30 seconds, *)
(* the shortest wait of 0, 30, 60, 120, 300 seconds.  ShortBackoff has fewer  *)
(* waits and shortens the longer ones, but keeps their order.                *)
(***************************************************************************)
EXTENDS SellGate

ShortBackoff == [n \in 0 .. MaxRetry - 1 |-> n]
=============================================================================
