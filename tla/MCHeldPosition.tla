--------------------------- MODULE MCHeldPosition ---------------------------
\* HeldPosition for TLC: no indicators or a turning trend; bars that are fresh or not.
EXTENDS HeldPosition

SomeIndicators ==
  {[known |-> FALSE, weak |-> 0, aboveMa5 |-> FALSE], [known |-> TRUE, weak |-> 2, aboveMa5 |-> TRUE]}

SomeAnalyses ==
  {[vwap |-> "none", safe |-> FALSE], [vwap |-> "above", safe |-> TRUE], [vwap |-> "near", safe |-> TRUE],
   [vwap |-> "below", safe |-> TRUE], [vwap |-> "below", safe |-> FALSE]}
=============================================================================
