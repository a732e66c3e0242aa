--------------------------- MODULE TargetSelection ---------------------------
(***************************************************************************)
(* compute_day_targets of app/target_selection.py: which symbols are watched. *)
(* A symbol is its code, a number; lists holds the sets of the conditions in   *)
(* the order of the configuration.                                           *)
(***************************************************************************)
EXTENDS Naturals, Sequences, FiniteSets, SequencesExt

\* sorted: the members of a set of numbers, the least first
ByCode(S) ==
  [n \in 1 .. Cardinality(S) |-> CHOOSE x \in S : Cardinality({y \in S : y < x}) = n - 1]

\* The elements of a sequence at some of its places, in their order
Picked(seq, places) == LET order == ByCode(places) IN [n \in DOMAIN order |-> seq[order[n]]]

LeavingOut(seq, S) == Picked(seq, {i \in DOMAIN seq : seq[i] \notin S})

\* list(dict.fromkeys(...)): the first place of each element.
Dedup(seq) == Picked(seq, {i \in DOMAIN seq : \A j \in 1 .. i - 1 : seq[j] # seq[i]})

\* What is new in a list comes after the lists before it, by its code.
DaySymbols(lists, unresolved) ==
  LET all      == Append(lists, unresolved)
      found    == UNION {all[i] : i \in DOMAIN all}
      first(s) == CHOOSE i \in DOMAIN all : s \in all[i] /\ \A j \in 1 .. i - 1 : s \notin all[j]
      before(s) == {t \in found : first(t) < first(s) \/ (first(t) = first(s) /\ t < s)}
  IN  [n \in 1 .. Cardinality(found) |-> CHOOSE s \in found : Cardinality(before(s)) = n - 1]

DayTargets(lists, unresolved, manual, banned, max) ==
  LET day      == DaySymbols(lists, unresolved)
      combined == Dedup(LeavingOut(manual, banned) \o LeavingOut(day, banned))
      final    == SubSeq(combined, 1, IF Len(combined) < max THEN Len(combined) ELSE max)
      eligible == ToSet(LeavingOut(day, banned)) \ ToSet(manual)
  IN  [final     |-> final,
       blocked   |-> banned \cap (ToSet(day) \cup ToSet(manual)),
       truncated |-> Cardinality(eligible) - Cardinality(eligible \cap ToSet(final))]
=============================================================================
