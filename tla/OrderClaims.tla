---------------------------- MODULE OrderClaims ----------------------------
(***************************************************************************)
(* A statement that a comment of the code makes about the order path and      *)
(* that OrderExecution refutes.                                              *)
(***************************************************************************)
EXTENDS OrderSafety

\* acknowledge_error says that a call for a symbol that is not in ERROR is
\* handled safely: the symbol of an outstanding order would stay blocked.
AckErrorIsSafe == LiveOrderBlocks
=============================================================================
