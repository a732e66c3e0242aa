----------------------------- MODULE MCWatchlist -----------------------------
(* Watchlist on a small instance: two symbols of one condition, watched one at a *)
(* time; a symbol is reported as confirmed, as unresolved or not at all.         *)
EXTENDS Watchlist

MCManual == <<>>
MCCallbacks ==
  {[lists |-> <<{1, 2}>>, unresolved |-> {}],
   [lists |-> <<{}>>, unresolved |-> {}],
   [lists |-> <<{2}>>, unresolved |-> {1}]}
=============================================================================
