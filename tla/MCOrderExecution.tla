-------------------------- MODULE MCOrderExecution --------------------------
(* OrderExecution on small instances for TLC. *)
EXTENDS OrderClaims, TLC

SymbolSymmetry == Permutations(Symbols)
=============================================================================
