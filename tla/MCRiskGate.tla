----------------------------- MODULE MCRiskGate -----------------------------
\* RiskGate for TLC: the symbols are interchangeable.
EXTENDS RiskGate, TLC

CarriedLots == {[qty |-> 2, price |-> 2]}
Symmetry == Permutations(Symbols)
=============================================================================
