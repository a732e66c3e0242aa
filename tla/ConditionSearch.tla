--------------------------- MODULE ConditionSearch ---------------------------
(***************************************************************************)
(* The condition search: condition_watcher.py on the connection of            *)
(* kiwoom_ws.py, and the copy of its lists that on_symbols_changed in         *)
(* app/main.py hands to the trading service.                                 *)
(*                                                                         *)
(* The server tells which symbols meet each condition when it is asked        *)
(* (CNSRREQ), and afterwards only that a symbol has entered or left some      *)
(* condition (REAL I, REAL D), without saying which.  Messages of one          *)
(* connection arrive in order; nothing survives the connection but what the    *)
(* server keeps registered and what the watcher remembers.  The names of the   *)
(* conditions (CNSRLST), PING and unreadable messages change no list.          *)
(***************************************************************************)
EXTENDS Naturals, Sequences, FiniteSets, SequencesExt

CONSTANTS
  Seqs,        \* condition_seqs
  Symbols,
  MaxMoves,    \* bound: symbols entering or leaving a condition
  MaxDrops,    \* bound: lost connections and restarts
  MaxRefusals, \* bound: requests the server refuses
  MaxQueue     \* bound: messages on their way to the watcher

ASSUME SearchAssumption ==
  /\ Seqs # {} /\ IsFiniteSet(Seqs) /\ IsFiniteSet(Symbols)
  /\ {MaxMoves, MaxDrops, MaxRefusals, MaxQueue} \subseteq Nat

VARIABLES
  meets,       \* server: the symbols that meet each condition
  registered,  \* server: the conditions it has a registration for
  inbox,       \* messages of this connection the watcher has not taken
  link,        \* "down", "up", or "stopped" once the process is over
  sending,     \* requests the handler has still to send
  confirmed,   \* _confirmed_symbols_by_seq
  unresolved,  \* _realtime_unresolved
  retried,     \* _resubscribe_attempted
  heard,       \* what the trading service was told last
  seen,        \* of this connection: login, answers, refusals and symbols that came or left
  used         \* the bounds used up

vars == <<meets, registered, inbox, link, sending, confirmed, unresolved,
          retried, heard, seen, used>>
serverVars == <<meets, registered>>
listVars   == <<confirmed, unresolved, heard>>

Fresh == [login |-> FALSE, answered |-> {}, refused |-> {}, came |-> {}, left |-> {}]

Request(kind, q) == [kind |-> kind, seq |-> q]

-----------------------------------------------------------------------------
(* What the watcher derives from its two sets. *)

AllSymbols(conf, unres) == (UNION {conf[q] : q \in Seqs}) \cup unres

\* symbol_to_conditions, and symbol_condition_source_reliable where it is TRUE.
Conditions(conf, s)      == {q \in Seqs : s \in conf[q]}
Reliable(conf, unres, s) == Conditions(conf, s) # {} /\ s \notin unres

Told(conf, unres) ==
  [symbols    |-> AllSymbols(conf, unres),
   conditions |-> [s \in Symbols |-> Conditions(conf, s)],
   reliable   |-> {s \in Symbols : Reliable(conf, unres, s)}]

Init ==
  /\ meets \in [Seqs -> SUBSET Symbols]
  /\ registered = {} /\ inbox = <<>> /\ link = "down" /\ sending = <<>>
  /\ confirmed = [q \in Seqs |-> {}] /\ unresolved = {} /\ retried = {}
  /\ heard = Told(confirmed, unresolved)
  /\ seen = Fresh
  /\ used = [moves |-> 0, drops |-> 0, refusals |-> 0]

-----------------------------------------------------------------------------
(* The server, as the watcher knows it. *)

Arrives(m) == inbox' = IF link = "up" THEN Append(inbox, m) ELSE inbox

\* A registration that an earlier connection left behind reports as well.
Move(q, s) ==
  /\ used.moves < MaxMoves /\ Len(inbox) < MaxQueue
  /\ used' = [used EXCEPT !.moves = @ + 1]
  /\ meets' = [meets EXCEPT ![q] = IF s \in @ THEN @ \ {s} ELSE @ \cup {s}]
  /\ IF q \in registered
     THEN Arrives([kind |-> IF s \in meets[q] THEN "D" ELSE "I", symbol |-> s])
     ELSE UNCHANGED inbox
  /\ UNCHANGED <<registered, link, sending, retried, seen, listVars>>

\* The answer to CNSRREQ: the list of the condition, or 900003 when it is
\* registered already.
Subscribed(q) ==
  IF q \in registered
  THEN /\ UNCHANGED registered
       /\ Arrives([kind |-> "900003", seq |-> q])
  ELSE /\ registered' = registered \cup {q}
       /\ Arrives([kind |-> "list", seq |-> q, symbols |-> meets[q]])

Refused(q) ==
  /\ used.refusals < MaxRefusals
  /\ used' = [used EXCEPT !.refusals = @ + 1]
  /\ Arrives([kind |-> "error", seq |-> q])
  /\ UNCHANGED registered

-----------------------------------------------------------------------------
(* The connection: KiwoomWebSocket. *)

Running == link # "stopped"

\* _connect_and_run sends LOGIN first; the server takes it or refuses it.
Connect ==
  /\ link = "down" /\ sending = <<>>
  /\ link' = "up" /\ seen' = Fresh
  /\ \/ inbox' = <<[kind |-> "login", ok |-> TRUE]>> /\ UNCHANGED used
     \/ /\ used.refusals < MaxRefusals
        /\ used' = [used EXCEPT !.refusals = @ + 1]
        /\ inbox' = <<[kind |-> "login", ok |-> FALSE]>>
  /\ UNCHANGED <<serverVars, sending, retried, listVars>>

\* The connection breaks; the server may keep what is registered.
Drop ==
  /\ link = "up" /\ used.drops < MaxDrops
  /\ used' = [used EXCEPT !.drops = @ + 1]
  /\ link' = "down" /\ inbox' = <<>>
  /\ registered' \in {registered, {}}
  /\ UNCHANGED <<meets, sending, retried, seen, listVars>>

\* send: a request made without a connection is dropped with a warning.
Send ==
  /\ sending # <<>> /\ sending' = Tail(sending)
  /\ LET r == Head(sending) IN
     IF link # "up"
     THEN UNCHANGED <<registered, inbox, used>>
     ELSE \/ r.kind = "CNSRREQ" /\ Subscribed(r.seq) /\ UNCHANGED used
          \/ r.kind = "CNSRREQ" /\ Refused(r.seq)
          \/ /\ r.kind = "CNSRCLR"
             /\ registered' = registered \ {r.seq} /\ UNCHANGED <<inbox, used>>
  /\ UNCHANGED <<meets, link, retried, seen, listVars>>

\* The program is asked to stop: the task that reads is cancelled, which closes
\* the connection, and only then ConditionWatcher.stop sends its CNSRCLRs.
Stop ==
  /\ link \in {"up", "down"} /\ used.drops < MaxDrops
  /\ used' = [used EXCEPT !.drops = @ + 1]
  /\ link' = "stopped" /\ inbox' = <<>>
  /\ sending' = SetToSeq({Request("CNSRCLR", q) : q \in Seqs})
  /\ UNCHANGED <<serverVars, retried, seen, listVars>>

\* An error that is not of the network ends the process at once.
Fail ==
  /\ Running /\ used.drops < MaxDrops
  /\ used' = [used EXCEPT !.drops = @ + 1]
  /\ link' = "stopped" /\ inbox' = <<>> /\ sending' = <<>>
  /\ UNCHANGED <<serverVars, retried, seen, listVars>>

Restart ==
  /\ link = "stopped" /\ sending = <<>>
  /\ link' = "down" /\ retried' = {} /\ seen' = Fresh
  /\ confirmed' = [q \in Seqs |-> {}] /\ unresolved' = {}
  /\ heard' = Told(confirmed', unresolved')
  /\ registered' \in {registered, {}}
  /\ UNCHANGED <<meets, inbox, sending, used>>

-----------------------------------------------------------------------------
(***************************************************************************)
(* The watcher.  A handler runs to its end, with the pauses between its       *)
(* requests, before the next message is taken.                              *)
(***************************************************************************)
Notify == heard' = Told(confirmed', unresolved')
Silent == UNCHANGED listVars

Take(kind) ==
  /\ link = "up" /\ sending = <<>> /\ inbox # <<>>
  /\ Head(inbox).kind = kind
  /\ inbox' = Tail(inbox)
  /\ UNCHANGED <<serverVars, link, used>>

\* mutant: the retries of the connection before stay counted
KeptRetries == retried
ClearedRetries == {}

OnLogin ==
  /\ Take("login") /\ Silent
  /\ IF Head(inbox).ok
     THEN /\ sending' = SetToSeq({Request("CNSRREQ", q) : q \in Seqs})
          /\ retried' = ClearedRetries
          /\ seen' = [seen EXCEPT !.login = TRUE]
     ELSE UNCHANGED <<sending, retried, seen>>

\* mutant: every mark goes when a list comes in
AllMarksGo(marks, list)  == {}
MarksLeft(marks, list) == marks \ list

OnList ==
  /\ Take("list")
  /\ LET m == Head(inbox) IN
     /\ confirmed' = [confirmed EXCEPT ![m.seq] = m.symbols]
     /\ unresolved' = MarksLeft(unresolved, m.symbols)
     /\ seen' = [seen EXCEPT !.answered = @ \cup {m.seq}]
  /\ Notify
  /\ UNCHANGED <<sending, retried>>

\* 900003: released and asked for again, once in a connection.
OnRegistered ==
  /\ Take("900003") /\ Silent
  /\ LET q == Head(inbox).seq IN
     IF q \notin retried
     THEN /\ retried' = retried \cup {q}
          /\ sending' = <<Request("CNSRCLR", q), Request("CNSRREQ", q)>>
     ELSE UNCHANGED <<retried, sending>>
  /\ UNCHANGED seen

OnError ==
  /\ Take("error") /\ Silent
  /\ seen' = [seen EXCEPT !.refused = @ \cup {Head(inbox).seq}]
  /\ UNCHANGED <<sending, retried>>

\* mutant: a symbol that is known already is not worth a callback
NewsIfUnknown(s) == s \notin AllSymbols(confirmed, unresolved)
News(s) == s \notin unresolved

OnEnter ==
  /\ Take("I")
  /\ LET s == Head(inbox).symbol IN
     /\ unresolved' = unresolved \cup {s} /\ UNCHANGED confirmed
     /\ IF News(s) THEN Notify ELSE UNCHANGED heard
     /\ seen' = [seen EXCEPT !.came = @ \cup {s}]
  /\ UNCHANGED <<sending, retried>>

\* mutant: a symbol that is marked loses its mark only
MarkedOnly(conf, s) ==
  [q \in Seqs |-> IF s \in unresolved THEN conf[q] ELSE conf[q] \ {s}]
Without(conf, s) == [q \in Seqs |-> conf[q] \ {s}]

OnLeave ==
  /\ Take("D")
  /\ LET s == Head(inbox).symbol IN
     /\ confirmed' = Without(confirmed, s)
     /\ unresolved' = unresolved \ {s}
     /\ IF s \in AllSymbols(confirmed, unresolved) THEN Notify ELSE UNCHANGED heard
     /\ seen' = [seen EXCEPT !.left = @ \cup {s}]
  /\ UNCHANGED <<sending, retried>>

Handle == OnLogin \/ OnList \/ OnRegistered \/ OnError \/ OnEnter \/ OnLeave

Next ==
  \/ \E q \in Seqs, s \in Symbols : Move(q, s)
  \/ Connect \/ Drop \/ Send \/ Stop \/ Fail \/ Restart
  \/ Handle

Spec == Init /\ [][Next]_vars

(***************************************************************************)
(* The loop of start() connects again after each lost connection and takes    *)
(* what has arrived; a person starts the program again.                      *)
(***************************************************************************)
FairSpec == Spec /\ WF_vars(Connect) /\ WF_vars(Send) /\ WF_vars(Handle) /\ WF_vars(Restart)

-----------------------------------------------------------------------------
(* Properties *)

Quiet == link = "up" /\ inbox = <<>> /\ sending = <<>>

\* What the signal log calls the conditions of a symbol and a reliable source is
\* what the watcher knows now, although it is told only by callbacks
\* (condition_watcher.py:427-439).
CopyIsCurrent ==
  link # "stopped" => heard = Told(confirmed, unresolved)

\* A condition that was answered in this connection is one the symbol meets, when
\* nothing is on its way: a symbol that left any condition is in none of the lists.
SourceIsTrue ==
  Quiet => \A q \in seen.answered : confirmed[q] \subseteq meets[q]

\* When every condition has been answered, a symbol that meets one is watched,
\* unless it left another one: the server does not say which.
OnlyTheDepartedAreMissed ==
  Quiet /\ seen.answered = Seqs =>
    \A q \in Seqs : meets[q] \subseteq AllSymbols(confirmed, unresolved) \cup seen.left

\* The two together: what the watch list shows is what the server knows.
ListsAreRight == SourceIsTrue /\ OnlyTheDepartedAreMissed

\* A registration that an earlier connection or run left behind does not silence a
\* condition: in a connection that lasts it is answered, unless it is refused.
EveryConditionIsAnswered ==
  \A q \in Seqs :
    (link = "up" /\ seen.login) ~>
      (link # "up" \/ q \in seen.answered \cup seen.refused)
=============================================================================
