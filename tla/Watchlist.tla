------------------------------ MODULE Watchlist ------------------------------
(***************************************************************************)
(* Which symbols a cycle looks at: update_targets, the symbols that are       *)
(* excluded for the day (no regime, no trading value, an order that can never  *)
(* be taken), and the rechecks that bring a symbol back                      *)
(* (domain/service/trading_service.py).  Callbacks of the condition search     *)
(* come between any two symbols of a cycle; one cycle takes one unit of time.   *)
(***************************************************************************)
EXTENDS TargetSelection, Functions

CONSTANTS
  Codes,         \* the symbols, by their codes
  Manual,        \* settings.targets
  Permanent,     \* settings.trading.excluded_symbols
  MaxSymbols,    \* websocket.max_symbols
  Callbacks,     \* what the condition search may report
  InARow,        \* polls without a regime, or without trading value, that exclude: 3
  Modes,         \* low_volume_recheck_mode
  Cooldown, FailureBackoff,  \* of a recheck
  DayLength, Cutoff,         \* units of a day; low_volume_recheck_cutoff_hhmm
  MaxTime        \* bound

ASSUME WatchlistAssumption ==
  /\ IsFiniteSet(Codes) /\ Codes \subseteq Nat /\ Manual \in Seq(Codes) /\ MaxSymbols \in Nat
  /\ \A c \in Callbacks : c.lists \in Seq(SUBSET Codes) /\ c.unresolved \subseteq Codes
  /\ InARow \in Nat \ {0} /\ FailureBackoff \in Nat /\ MaxTime \in Nat
  /\ Modes \subseteq {"off", "shadow", "enforce"}
  /\ {Cooldown, DayLength, Cutoff} \subseteq Nat /\ Cutoff < DayLength
  \* One recheck in a cycle (max_per_cycle): all symbols fit in a cooldown.
  /\ Cardinality(Codes) <= Cooldown

VARIABLES
  now, mode,
  targets,     \* _dynamic_targets
  excluded,    \* _excluded_symbols
  unknowns, lows,  \* _unknown_count, _low_volume_count (counted up to InARow)
  since,       \* _low_volume_excluded_at, Never where there is none
  due,         \* _low_volume_recheck_next_attempt_at, or since + Cooldown
  held,        \* the broker's positions
  ordered,     \* BUYs that were accepted and may be filled
  cycle        \* what is left of the cycle, and the positions of its balance

watchVars == <<now, mode, targets, excluded, unknowns, lows, since, due, held, ordered, cycle>>

Never == 0
Idle  == [running |-> FALSE, left |-> <<>>, holds |-> {}, visited |-> {}]
Tracked == {s \in Codes : since[s] # Never}
DayOf(t) == t \div DayLength

WatchInit ==
  /\ now = 1 /\ mode \in Modes
  /\ targets = Manual /\ excluded = {}
  /\ unknowns = [s \in Codes |-> 0] /\ lows = [s \in Codes |-> 0]
  /\ since = [s \in Codes |-> Never] /\ due = [s \in Codes |-> Never]
  /\ held = {} /\ ordered = {} /\ cycle = Idle

-----------------------------------------------------------------------------
(* Callbacks and the broker *)

Joined(seq, S) == seq \o ByCode(S \ ToSet(seq))

\* mutant: the symbols that wait for a recheck are not added
MergedHeldOnly(chosen, holding, waiting) == Joined(chosen, holding)
Merged(chosen, holding, waiting) == Joined(Joined(chosen, holding), waiting)

Banned == excluded \cup Permanent

\* on_symbols_changed and update_targets; without an answer of the balance, and
\* in an outage before there was one, nothing is known to be held.
SymbolsChanged ==
  /\ \E c \in Callbacks, holding \in {held, {}} :
       targets' = Merged(DayTargets(c.lists, c.unresolved, Manual, Banned, MaxSymbols).final,
                         holding, Tracked)
  /\ UNCHANGED <<now, mode, excluded, unknowns, lows, since, due, held, ordered, cycle>>

Fill(s) ==
  /\ s \in ordered
  /\ ordered' = ordered \ {s} /\ held' = held \cup {s}
  /\ UNCHANGED <<now, mode, targets, excluded, unknowns, lows, since, due, cycle>>

Sell(s) ==
  /\ s \in held /\ held' = held \ {s}
  /\ UNCHANGED <<now, mode, targets, excluded, unknowns, lows, since, due, ordered, cycle>>

-----------------------------------------------------------------------------
(* One cycle: run_once *)

\* Holdings first, then the others, each in the order of the targets.
CycleTargets ==
  LET all == Joined(targets, held)
  IN  LeavingOut(all, Codes \ held) \o LeavingOut(all, held)

\* The first cycle of a day forgets the exclusions, not the counts.
BeginCycle ==
  /\ ~cycle.running /\ now < MaxTime
  /\ cycle' = [running |-> TRUE, left |-> CycleTargets, holds |-> held, visited |-> {}]
  /\ IF DayOf(now) # DayOf(now - 1)
     THEN /\ excluded' = {}
          /\ since' = [s \in Codes |-> Never] /\ due' = [s \in Codes |-> Never]
     ELSE UNCHANGED <<excluded, since, due>>
  /\ UNCHANGED <<now, mode, targets, unknowns, lows, held, ordered>>

\* mutant: a symbol that is excluded is passed over, held or not
PassedOverAlways(s) == s \in excluded
PassedOver(s) == s \in excluded /\ s \notin cycle.holds

More(n) == IF n < InARow THEN n + 1 ELSE n

\* What a poll of a symbol finds: the call fails; no regime; a regime, bars that are
\* safe for an entry and too little trading value; bars that are not safe; anything
\* else that is no BUY; a BUY that is taken; a BUY that is refused for good.
Findings == {"fails", "unknown", "low", "unsafe", "fine", "bought", "refused"}

Counted(s, f) ==
  LET u == More(unknowns[s])
      l == More(lows[s])
  IN  [unknowns |-> CASE f = "unknown" -> u [] f = "fails" -> unknowns[s] [] OTHER -> 0,
       lows |->
         CASE f = "low" /\ s \notin cycle.holds -> l
           [] f \in {"fails", "unsafe"} -> lows[s]
           [] f = "unknown" /\ u = InARow /\ s \notin cycle.holds -> lows[s]
           [] OTHER -> 0]

Process ==
  /\ cycle.running /\ cycle.left # <<>>
  /\ LET s == Head(cycle.left)
         rest == [cycle EXCEPT !.left = Tail(@)]
     IN
     \/ /\ PassedOver(s)
        /\ cycle' = rest
        /\ UNCHANGED <<excluded, unknowns, lows, since, due, ordered>>
     \/ /\ ~PassedOver(s)
        /\ cycle' = [rest EXCEPT !.visited = @ \cup {s}]
        /\ \E f \in Findings :
             LET c == Counted(s, f)
                 tooLow == f = "low" /\ s \notin cycle.holds /\ c.lows = InARow
             IN
             /\ f \in {"bought", "refused"} => s \notin cycle.holds \cup ordered
             /\ unknowns' = [unknowns EXCEPT ![s] = c.unknowns]
             /\ lows' = [lows EXCEPT ![s] = c.lows]
             /\ ordered' = IF f = "bought" THEN ordered \cup {s} ELSE ordered
             /\ excluded' =
                  IF \/ f = "unknown" /\ c.unknowns = InARow /\ s \notin cycle.holds
                     \/ tooLow \/ f = "refused"
                  THEN excluded \cup {s} ELSE excluded
             /\ IF tooLow /\ since[s] = Never
                THEN /\ since' = [since EXCEPT ![s] = now]
                     /\ due' = [due EXCEPT ![s] = now + Cooldown]
                ELSE UNCHANGED <<since, due>>
  /\ UNCHANGED <<now, mode, targets, held>>

-----------------------------------------------------------------------------
(* The recheck that ends a cycle: _recheck_low_volume_exclusions *)

PastCutoff == now % DayLength >= Cutoff

Waiting(s) == since[s] # Never /\ s \in excluded
Oldest == {s \in Codes : /\ Waiting(s) /\ due[s] <= now
                           /\ \A t \in Codes : Waiting(t) /\ due[t] <= now => since[s] <= since[t]}

OtherReason(s) == unknowns[s] = InARow \/ s \in Permanent

\* mutant: what could not be judged is looked at again in the next cycle
NextTryAtOnce(answer) ==
  now + (IF answer = "fails" THEN Cooldown + FailureBackoff
         ELSE IF answer = "unsure" THEN 0 ELSE Cooldown)
NextTry(answer) == now + Cooldown + (IF answer = "fails" THEN FailureBackoff ELSE 0)

Untrack(s) == since' = [since EXCEPT ![s] = Never] /\ due' = [due EXCEPT ![s] = Never]

\* The call fails or the price is a cached one; the bars cannot be judged; the value
\* is still too low, or high enough.
RecheckOne(s) ==
  \E answer \in {"fails", "unsure", "low", "high"} :
    \/ /\ answer # "high" \/ (mode = "shadow" /\ ~OtherReason(s))
       /\ due' = [due EXCEPT ![s] = NextTry(answer)]
       /\ UNCHANGED <<since, excluded, lows>>
    \/ /\ answer = "high" /\ OtherReason(s)
       /\ Untrack(s) /\ UNCHANGED <<excluded, lows>>
    \/ /\ answer = "high" /\ ~OtherReason(s) /\ mode = "enforce"
       /\ excluded' = excluded \ {s} /\ lows' = [lows EXCEPT ![s] = 0]
       /\ Untrack(s)

EndCycle ==
  /\ cycle.running /\ cycle.left = <<>>
  /\ cycle' = Idle /\ now' = now + 1
  /\ IF mode = "off" \/ PastCutoff \/ Oldest = {}
     THEN UNCHANGED <<since, due, excluded, lows>>
     ELSE \E s \in Oldest : RecheckOne(s)
  /\ UNCHANGED <<mode, targets, unknowns, held, ordered>>

WatchNext ==
  \/ SymbolsChanged \/ BeginCycle \/ Process \/ EndCycle
  \/ \E s \in Codes : Fill(s) \/ Sell(s)

WatchSpec == WatchInit /\ [][WatchNext]_watchVars

-----------------------------------------------------------------------------
(* Properties *)

\* However the rechecks of the others end, a symbol waits for its own no longer than
\* every other symbol takes one before it.
RechecksAreServed ==
  mode # "off" /\ cycle.running /\ ~PastCutoff =>
    \A s \in Codes : Waiting(s) => now < due[s] + Cardinality(Codes)

\* No callback takes a symbol that waits for its recheck off the list, whatever the
\* condition search has given up: it would come back to nobody's attention.
WaitingStaysWatched ==
  [][\A s \in Codes :
       Waiting(s) /\ Waiting(s)' /\ s \in ToSet(targets) => s \in ToSet(targets')]_watchVars

\* Every holding of the balance is looked at in the cycle, whatever is excluded, cut
\* off or taken away by callbacks in between.
HoldingsAreVisited ==
  [][cycle.running /\ ~cycle'.running => cycle.holds \subseteq cycle.visited]_watchVars
=============================================================================
