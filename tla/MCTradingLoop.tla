---------------------------- MODULE MCTradingLoop ----------------------------
(***************************************************************************)
(* The instance of TradingLoop that TLC checks: a Friday, a Saturday and a    *)
(* Monday.  The unit of time is 30 seconds.                                 *)
(***************************************************************************)
EXTENDS TradingLoop

Saturday == {2}
=============================================================================
