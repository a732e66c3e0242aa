----------------------- MODULE ConditionSearch_proofs -----------------------
(***************************************************************************)
(* For any conditions, symbols and bounds: the copy of the lists that      *)
(* on_symbols_changed hands to the trading service is current, and the     *)
(* lists are right once nothing is on its way.  For any sizes of the watch *)
(* list: every recheck of an excluded symbol is served in time, no symbol   *)
(* that waits for one is lost, and every holding is looked at.               *)
(***************************************************************************)
EXTENDS ConditionSearch, Watchlist, FiniteSetTheorems, SequenceTheorems, WellFoundedInduction, TLAPS

\* The table of confirmed symbols has one entry for each condition, whatever
\* number the message that changes it carries.
ConfirmedBySeq == confirmed = [q \in Seqs |-> confirmed[q]]

\* The copy is what Told makes of the two sets even while the process is over:
\* this part has no condition on the connection, and so is kept by Stop and Fail.
HeardIsTold == heard = Told(confirmed, unresolved)

ListInv == ConfirmedBySeq /\ HeardIsTold

-----------------------------------------------------------------------------
(* The two handlers that may change the lists without a callback            *)

\* A mark that is set already is not set again: OnEnter tells nothing when
\* nothing changes (condition_watcher.py, REAL I).
LEMMA KnownMarkChangesNothing ==
  ASSUME NEW s, ~News(s)
  PROVE  unresolved \cup {s} = unresolved
BY DEF News

\* A symbol that is on no list is on none after it left: OnLeave tells nothing
\* when nothing changes (REAL D).
LEMMA UnknownLeavesNothing ==
  ASSUME NEW s, ConfirmedBySeq, s \notin AllSymbols(confirmed, unresolved)
  PROVE  Without(confirmed, s) = confirmed /\ unresolved \ {s} = unresolved
<1>1. s \notin unresolved
  BY DEF AllSymbols
<1>2. \A q \in Seqs : confirmed[q] \ {s} = confirmed[q]
  BY DEF AllSymbols
<1>3. Without(confirmed, s) = [q \in Seqs |-> confirmed[q]]
  BY <1>2 DEF Without
<1> QED
  BY <1>1, <1>3 DEF ConfirmedBySeq

-----------------------------------------------------------------------------
(* The steps                                                                *)

LEMMA ListInvInit == Init => ListInv
BY DEF Init, ListInv, ConfirmedBySeq, HeardIsTold

\* A step that leaves the two sets and the copy alone.
LEMMA SilentStep == ListInv /\ UNCHANGED listVars => ListInv'
BY DEF ListInv, ConfirmedBySeq, HeardIsTold, listVars, Told, AllSymbols, Conditions, Reliable

\* A step that ends in the callback.
LEMMA ToldStep ==
  ASSUME ConfirmedBySeq', Notify
  PROVE  ListInv'
BY DEF ListInv, HeardIsTold, Notify, Told, AllSymbols, Conditions, Reliable

LEMMA ListStep == ListInv /\ OnList => ListInv'
<1> SUFFICES ASSUME ListInv, OnList PROVE ListInv'
  OBVIOUS
<1>1. ConfirmedBySeq'
  BY DEF ListInv, ConfirmedBySeq, OnList
<1> QED
  BY <1>1, ToldStep DEF OnList

LEMMA EnterStep == ListInv /\ OnEnter => ListInv'
<1> SUFFICES ASSUME ListInv, OnEnter PROVE ListInv'
  OBVIOUS
<1> DEFINE s == Head(inbox).symbol
<1>1. ConfirmedBySeq'
  BY DEF ListInv, ConfirmedBySeq, OnEnter
<1>2. CASE News(s)
  BY <1>1, <1>2, ToldStep DEF OnEnter
<1>3. CASE ~News(s)
  <2>1. unresolved' = unresolved
    BY <1>3, KnownMarkChangesNothing DEF OnEnter
  <2>2. UNCHANGED listVars
    BY <1>3, <2>1 DEF OnEnter, listVars
  <2> QED
    BY <2>2, SilentStep
<1> QED
  BY <1>2, <1>3

LEMMA LeaveStep == ListInv /\ OnLeave => ListInv'
<1> SUFFICES ASSUME ListInv, OnLeave PROVE ListInv'
  OBVIOUS
<1> DEFINE s == Head(inbox).symbol
<1>1. ConfirmedBySeq'
  BY DEF OnLeave, Without, ConfirmedBySeq
<1>2. CASE s \in AllSymbols(confirmed, unresolved)
  BY <1>1, <1>2, ToldStep DEF OnLeave
<1>3. CASE s \notin AllSymbols(confirmed, unresolved)
  <2>1. confirmed' = confirmed /\ unresolved' = unresolved
    BY <1>3, UnknownLeavesNothing DEF OnLeave, ListInv
  <2>2. UNCHANGED listVars
    BY <1>3, <2>1 DEF OnLeave, listVars
  <2> QED
    BY <2>2, SilentStep
<1> QED
  BY <1>2, <1>3

\* The other messages of the server are silent.
LEMMA HandleStep == ListInv /\ Handle => ListInv'
<1> SUFFICES ASSUME ListInv, Handle PROVE ListInv'
  OBVIOUS
<1>1. CASE OnLogin
  BY <1>1, SilentStep DEF OnLogin, Silent
<1>2. CASE OnList
  BY <1>2, ListStep
<1>3. CASE OnRegistered
  BY <1>3, SilentStep DEF OnRegistered, Silent
<1>4. CASE OnError
  BY <1>4, SilentStep DEF OnError, Silent
<1>5. CASE OnEnter
  BY <1>5, EnterStep
<1>6. CASE OnLeave
  BY <1>6, LeaveStep
<1> QED
  BY <1>1, <1>2, <1>3, <1>4, <1>5, <1>6 DEF Handle

LEMMA RestartStep == Restart => ListInv'
BY DEF Restart, ListInv, ConfirmedBySeq, HeardIsTold, Told, AllSymbols, Conditions, Reliable

LEMMA NextKeepsListInv == ListInv /\ [Next]_vars => ListInv'
<1> SUFFICES ASSUME ListInv, [Next]_vars PROVE ListInv'
  OBVIOUS
<1>1. CASE \E q \in Seqs, s \in Symbols : Move(q, s)
  BY <1>1, SilentStep DEF Move
<1>2. CASE Connect
  BY <1>2, SilentStep DEF Connect
<1>3. CASE Drop
  BY <1>3, SilentStep DEF Drop
<1>4. CASE Send
  BY <1>4, SilentStep DEF Send
<1>5. CASE Stop
  BY <1>5, SilentStep DEF Stop
<1>6. CASE Fail
  BY <1>6, SilentStep DEF Fail
<1>7. CASE Restart
  BY <1>7, RestartStep
<1>8. CASE Handle
  BY <1>8, HandleStep
<1>9. CASE UNCHANGED vars
  BY <1>9, SilentStep DEF vars, listVars
<1> QED
  BY <1>1, <1>2, <1>3, <1>4, <1>5, <1>6, <1>7, <1>8, <1>9 DEF Next

-----------------------------------------------------------------------------
\* The trading service is told by callbacks only, and some changes make none; yet
\* what it holds is always what the watcher derives from its two sets
\* (condition_watcher.py, app/main.py on_symbols_changed).
THEOREM CopyStaysCurrent == Spec => []CopyIsCurrent
<1>1. ListInv => CopyIsCurrent
  BY DEF ListInv, HeardIsTold, CopyIsCurrent
<1> QED
  BY <1>1, ListInvInit, NextKeepsListInv, PTL DEF Spec

-----------------------------------------------------------------------------
(* The lists and the server: the invariant                                  *)

\* What is on its way to the watcher, and what it has still to send.
Messages ==
  [kind : {"login"}, ok : BOOLEAN]
    \cup [kind : {"I", "D"}, symbol : Symbols]
    \cup [kind : {"list"}, seq : Seqs, symbols : SUBSET Symbols]
    \cup [kind : {"900003", "error"}, seq : Seqs]

Requests == [kind : {"CNSRREQ", "CNSRCLR"}, seq : Seqs]

SearchTyped ==
  /\ meets \in [Seqs -> SUBSET Symbols] /\ registered \subseteq Seqs
  /\ inbox \in Seq(Messages) /\ sending \in Seq(Requests)
  /\ confirmed \in [Seqs -> SUBSET Symbols] /\ unresolved \subseteq Symbols
  /\ seen \in [login : BOOLEAN, answered : SUBSET Seqs, refused : SUBSET Seqs,
               came : SUBSET Symbols, left : SUBSET Symbols]

\* Message i answers the request for condition q.
AnswerKinds == {"list", "900003", "error"}
AnswerAt(i, q) == i \in DOMAIN inbox /\ inbox[i].kind \in AnswerKinds /\ inbox[i].seq = q

\* A request for condition q is still to be sent.
Asked(q) == \E i \in DOMAIN sending : sending[i].seq = q

\* After message i there is one that symbol s enters, or leaves, a condition.
Later(i, kind, s) ==
  \E j \in DOMAIN inbox : j > i /\ inbox[j].kind = kind /\ inbox[j].symbol = s

\* Nothing has been asked for before the login is answered.
LoginIsFirst ==
  \A i \in DOMAIN inbox : inbox[i].kind = "login" =>
    /\ i = 1 /\ sending = <<>> /\ seen.answered = {}
    /\ \A j \in DOMAIN inbox : j # 1 => inbox[j].kind \in {"I", "D"}

\* No condition is asked for twice by what is still to be sent; one is released
\* only to be asked for again at once.
AskedOnce ==
  /\ \A i, j \in DOMAIN sending :
       sending[i].kind = "CNSRREQ" /\ sending[j] = sending[i] => j = i
  /\ \A i \in DOMAIN sending : sending[i].kind = "CNSRCLR" =>
       i = 1 /\ sending = <<sending[1], Request("CNSRREQ", sending[1].seq)>>

\* A condition that is to be asked for has no answer, and none has two: so a
\* condition that has been answered is never released in this connection.
AnsweredOnce ==
  \A q \in Seqs :
    /\ Asked(q) => q \notin seen.answered /\ \A i \in DOMAIN inbox : ~AnswerAt(i, q)
    /\ q \in seen.answered => \A i \in DOMAIN inbox : ~AnswerAt(i, q)
    /\ \A i, j \in DOMAIN inbox : AnswerAt(i, q) /\ AnswerAt(j, q) => i = j

\* List i for condition q is what the server knew when it sent it: what has come or
\* gone since is told by a later message.
ListIsTrue(i, q) ==
  /\ q \in registered
  /\ \A s \in inbox[i].symbols : s \in meets[q] \/ Later(i, "D", s)
  /\ \A s \in meets[q] : s \in inbox[i].symbols \/ Later(i, "I", s)

ListsAreTrue ==
  \A i \in DOMAIN inbox, q \in Seqs :
    inbox[i].kind = "list" /\ inbox[i].seq = q => ListIsTrue(i, q)

\* So is what the watcher has made of the lists it has taken.  A symbol that came
\* may have been marked, and the mark resolved by another condition's list.
AnsweredIsTrue(q) ==
  /\ q \in registered
  /\ \A s \in confirmed[q] : s \in meets[q] \/ Later(0, "D", s)
  /\ \A s \in meets[q] :
       \/ s \in unresolved \cup seen.left \/ Later(0, "I", s)
       \/ \E r \in seen.answered : s \in confirmed[r]

AnsweredAreTrue == \A q \in seen.answered : AnsweredIsTrue(q)

UpInv == LoginIsFirst /\ AskedOnce /\ AnsweredOnce /\ ListsAreTrue /\ AnsweredAreTrue
SearchInv == SearchTyped /\ (link = "up" => UpInv)

\* The order of what is on its way tells what the lists will be.
LEMMA SearchIsRight ==
  SearchInv => ListsAreRight
<1> SUFFICES ASSUME SearchInv PROVE ListsAreRight
  OBVIOUS
<1>1. Quiet => AnsweredAreTrue /\ \A s : ~Later(0, "D", s) /\ ~Later(0, "I", s)
  BY DEF SearchInv, UpInv, Quiet, Later
<1>2. SourceIsTrue
  <2> SUFFICES ASSUME Quiet, NEW q \in seen.answered, NEW s \in confirmed[q] PROVE s \in meets[q]
    BY DEF SourceIsTrue
  <2> QED
    BY <1>1 DEF AnsweredAreTrue, AnsweredIsTrue
<1>3. OnlyTheDepartedAreMissed
  <2> SUFFICES ASSUME Quiet, seen.answered = Seqs, NEW q \in Seqs, NEW s \in meets[q]
               PROVE  s \in AllSymbols(confirmed, unresolved) \cup seen.left
    BY DEF OnlyTheDepartedAreMissed
  <2>1. s \in unresolved \cup seen.left \/ \E r \in Seqs : s \in confirmed[r]
    BY <1>1 DEF AnsweredAreTrue, AnsweredIsTrue
  <2> QED
    BY <2>1 DEF AllSymbols
<1> QED
  BY <1>2, <1>3 DEF ListsAreRight

-----------------------------------------------------------------------------
(* What happens to the messages                                             *)

LEMMA InboxIs ==
  ASSUME SearchTyped
  PROVE  /\ Len(inbox) \in Nat /\ DOMAIN inbox = 1 .. Len(inbox)
         /\ \A i \in DOMAIN inbox : i \in Nat /\ i >= 1 /\ inbox[i] \in Messages
BY LenProperties, ElementOfSeq DEF SearchTyped

\* A message is put behind the others.
LEMMA ArrivalIs ==
  ASSUME SearchTyped, link = "up", NEW m \in Messages, Arrives(m)
  PROVE  /\ inbox' \in Seq(Messages) /\ DOMAIN inbox' = (DOMAIN inbox) \cup {Len(inbox) + 1}
         /\ \A i \in DOMAIN inbox : inbox'[i] = inbox[i] /\ i < Len(inbox) + 1
         /\ inbox'[Len(inbox) + 1] = m
<1>1. inbox' = Append(inbox, m)
  BY DEF Arrives
<1>2. inbox \in Seq(Messages)
  BY DEF SearchTyped
<1>3. /\ inbox' \in Seq(Messages) /\ Len(inbox') = Len(inbox) + 1
      /\ \A i \in 1 .. Len(inbox) : inbox'[i] = inbox[i]
      /\ inbox'[Len(inbox) + 1] = m
  BY <1>1, <1>2, AppendProperties
<1>4. DOMAIN inbox' = 1 .. Len(inbox) + 1
  BY <1>3, LenProperties
<1> QED
  BY <1>3, <1>4, InboxIs

\* The first message is taken; the others come one nearer.
LEMMA TakeIs ==
  ASSUME SearchTyped, NEW kind, Take(kind)
  PROVE  /\ link = "up" /\ link' = "up" /\ sending = <<>> /\ UNCHANGED <<meets, registered>>
         /\ inbox' \in Seq(Messages)
         /\ 1 \in DOMAIN inbox /\ Head(inbox) = inbox[1] /\ inbox[1] \in Messages /\ inbox[1].kind = kind
         /\ \A i \in DOMAIN inbox' : i \in Nat /\ i >= 1 /\ i + 1 \in DOMAIN inbox /\ inbox'[i] = inbox[i + 1]
         /\ \A j \in DOMAIN inbox : j = 1 \/ (j - 1 \in DOMAIN inbox' /\ inbox'[j - 1] = inbox[j])
<1>1. /\ link = "up" /\ link' = "up" /\ sending = <<>> /\ UNCHANGED <<meets, registered>>
      /\ inbox # <<>> /\ inbox' = Tail(inbox) /\ Head(inbox).kind = kind /\ inbox \in Seq(Messages)
  BY DEF Take, SearchTyped, serverVars
<1>2. /\ inbox' \in Seq(Messages) /\ Len(inbox') = Len(inbox) - 1
      /\ \A i \in 1 .. Len(inbox') : inbox'[i] = inbox[i + 1]
  BY <1>1, HeadTailProperties
<1>3. DOMAIN inbox' = 1 .. Len(inbox) - 1
  BY <1>2, LenProperties
<1>4. Len(inbox) \in Nat \ {0}
  BY <1>1, EmptySeq, LenProperties
<1>5. 1 \in DOMAIN inbox /\ Head(inbox) = inbox[1]
  BY <1>1, <1>4, InboxIs
<1> QED
  BY <1>1, <1>2, <1>3, <1>4, <1>5, InboxIs

\* What was told later is told later still; the last message is told after all.
LEMMA LaterAfterArrival ==
  ASSUME SearchTyped, link = "up", NEW m \in Messages, Arrives(m)
  PROVE  /\ \A i, k, s : Later(i, k, s) => Later(i, k, s)'
         /\ \A i \in DOMAIN inbox \cup {0} : Later(i, m.kind, m.symbol)'
<1>1. \A i, k, s : Later(i, k, s) => Later(i, k, s)'
  BY ArrivalIs DEF Later
<1>2. \A i \in DOMAIN inbox \cup {0} : Len(inbox) + 1 > i /\ Len(inbox) + 1 \in DOMAIN inbox'
  BY ArrivalIs, InboxIs
<1> QED
  BY <1>1, <1>2, ArrivalIs DEF Later

LEMMA LaterAfterTake ==
  ASSUME SearchTyped, NEW kind, Take(kind)
  PROVE  /\ \A i \in Nat : \A k, s : Later(i + 1, k, s) => Later(i, k, s)'
         /\ \A k, s : Later(0, k, s) => Later(0, k, s)' \/ (k = kind /\ s = inbox[1].symbol)
<1>1. ASSUME NEW i \in Nat, NEW k, NEW s, Later(i + 1, k, s) PROVE Later(i, k, s)'
  <2>1. PICK j \in DOMAIN inbox : j > i + 1 /\ inbox[j].kind = k /\ inbox[j].symbol = s
    BY <1>1 DEF Later
  <2>2. j - 1 \in DOMAIN inbox' /\ inbox'[j - 1] = inbox[j] /\ j - 1 > i
    BY <2>1, TakeIs, InboxIs
  <2> QED
    BY <2>1, <2>2 DEF Later
<1>2. ASSUME NEW k, NEW s, Later(0, k, s), ~(k = kind /\ s = inbox[1].symbol) PROVE Later(0, k, s)'
  <2>1. PICK j \in DOMAIN inbox : j > 0 /\ inbox[j].kind = k /\ inbox[j].symbol = s
    BY <1>2 DEF Later
  <2>2. j # 1
    BY <1>2, <2>1, TakeIs
  <2>3. j - 1 \in DOMAIN inbox' /\ inbox'[j - 1] = inbox[j] /\ j - 1 > 0
    BY <2>1, <2>2, TakeIs, InboxIs
  <2> QED
    BY <2>1, <2>3 DEF Later
<1> QED
  BY <1>1, <1>2

-----------------------------------------------------------------------------
(* A message is taken                                                       *)

LEMMA TakeKeepsLists ==
  ASSUME SearchTyped, UpInv, NEW kind, Take(kind)
  PROVE  LoginIsFirst' /\ ListsAreTrue'
<1>1. LoginIsFirst'
  <2> SUFFICES ASSUME NEW i \in DOMAIN inbox', inbox'[i].kind = "login" PROVE FALSE
    BY DEF LoginIsFirst
  <2>1. i \in Nat /\ i >= 1 /\ i + 1 \in DOMAIN inbox /\ inbox[i + 1].kind = "login"
    BY TakeIs
  <2>2. i + 1 = 1
    BY <2>1 DEF UpInv, LoginIsFirst
  <2> QED
    BY <2>1, <2>2
<1>2. ListsAreTrue'
  <2> SUFFICES ASSUME NEW i \in DOMAIN inbox', NEW q \in Seqs, inbox'[i].kind = "list", inbox'[i].seq = q
               PROVE  ListIsTrue(i, q)'
    BY DEF ListsAreTrue
  <2>1. i \in Nat /\ i + 1 \in DOMAIN inbox /\ inbox'[i] = inbox[i + 1]
    BY TakeIs
  <2>2. ListIsTrue(i + 1, q)
    BY <2>1 DEF UpInv, ListsAreTrue
  <2>3. UNCHANGED <<meets, registered>> /\ \A k, s : Later(i + 1, k, s) => Later(i, k, s)'
    BY <2>1, TakeIs, LaterAfterTake
  <2> QED
    BY <2>1, <2>2, <2>3 DEF ListIsTrue
<1> QED
  BY <1>1, <1>2

LEMMA TakeKeepsAnswers ==
  ASSUME SearchTyped, UpInv, NEW kind, Take(kind), NEW q \in Seqs
  PROVE  /\ \A i, j \in DOMAIN inbox' : AnswerAt(i, q)' /\ AnswerAt(j, q)' => i = j
         /\ (\A i \in DOMAIN inbox : ~AnswerAt(i, q)) \/ AnswerAt(1, q)
              => \A i \in DOMAIN inbox' : ~AnswerAt(i, q)'
<1>1. ASSUME NEW i \in DOMAIN inbox', AnswerAt(i, q)'
      PROVE  i \in Nat /\ i >= 1 /\ i + 1 \in DOMAIN inbox /\ AnswerAt(i + 1, q)
  BY <1>1, TakeIs DEF AnswerAt, AnswerKinds
<1>2. \A i, j \in DOMAIN inbox : AnswerAt(i, q) /\ AnswerAt(j, q) => i = j
  BY DEF UpInv, AnsweredOnce
<1>3. ASSUME NEW i \in DOMAIN inbox', NEW j \in DOMAIN inbox', AnswerAt(i, q)', AnswerAt(j, q)'
      PROVE  i = j
  <2>1. i + 1 = j + 1 /\ i \in Nat /\ j \in Nat
    BY <1>1, <1>2, <1>3
  <2> QED
    BY <2>1
<1>4. ASSUME AnswerAt(1, q), NEW i \in DOMAIN inbox', AnswerAt(i, q)' PROVE FALSE
  <2>1. 1 \in DOMAIN inbox /\ i + 1 \in DOMAIN inbox /\ AnswerAt(i + 1, q) /\ i \in Nat /\ i >= 1
    BY <1>1, <1>4, TakeIs
  <2>2. i + 1 = 1
    BY <1>2, <1>4, <2>1
  <2> QED
    BY <2>1, <2>2
<1>5. ASSUME \A i \in DOMAIN inbox : ~AnswerAt(i, q), NEW i \in DOMAIN inbox', AnswerAt(i, q)' PROVE FALSE
  BY <1>1, <1>5
<1> QED
  BY <1>3, <1>4, <1>5

\* What a take leaves of the answers when no request is to be sent.
LEMMA TakeAnswersOnce ==
  ASSUME SearchTyped, UpInv, NEW kind, Take(kind), sending' = <<>>,
         \A q \in seen'.answered : q \in seen.answered \/ AnswerAt(1, q)
  PROVE  AskedOnce' /\ AnsweredOnce'
<1>1. DOMAIN sending' = {}
  OBVIOUS
<1>2. AskedOnce'
  BY <1>1 DEF AskedOnce
<1>3. ASSUME NEW q \in Seqs
      PROVE  /\ ~Asked(q)'
             /\ q \in seen'.answered => \A i \in DOMAIN inbox' : ~AnswerAt(i, q)'
             /\ \A i, j \in DOMAIN inbox' : AnswerAt(i, q)' /\ AnswerAt(j, q)' => i = j
  <2>1. ~Asked(q)'
    BY <1>1 DEF Asked
  <2>2. q \in seen.answered => \A i \in DOMAIN inbox : ~AnswerAt(i, q)
    BY DEF UpInv, AnsweredOnce
  <2> QED
    BY <2>1, <2>2, TakeKeepsAnswers
<1>4. AnsweredOnce'
  BY <1>3 DEF AnsweredOnce
<1> QED
  BY <1>2, <1>4

\* A message that tells of no move, and changes nothing that the watcher knows of
\* the conditions that have been answered.
LEMMA TakeKeepsAnswered ==
  ASSUME SearchTyped, UpInv, NEW kind, Take(kind), kind \notin {"I", "D"},
         UNCHANGED <<confirmed, unresolved>>,
         seen'.answered = seen.answered, seen'.left = seen.left
  PROVE  AnsweredAreTrue'
<1>1. /\ UNCHANGED <<meets, registered>>
      /\ \A s : Later(0, "D", s) => Later(0, "D", s)'
      /\ \A s : Later(0, "I", s) => Later(0, "I", s)'
  BY TakeIs, LaterAfterTake
<1>2. ASSUME NEW q \in seen.answered PROVE AnsweredIsTrue(q)'
  <2>1. AnsweredIsTrue(q)
    BY DEF UpInv, AnsweredAreTrue
  <2>2. ASSUME NEW s \in confirmed[q] PROVE s \in meets[q] \/ Later(0, "D", s)'
    <3>1. s \in meets[q] \/ Later(0, "D", s)
      BY <2>1 DEF AnsweredIsTrue
    <3> QED
      BY <1>1, <3>1
  <2>3. ASSUME NEW s \in meets[q]
        PROVE  \/ s \in unresolved \cup seen.left \/ Later(0, "I", s)'
               \/ \E r \in seen.answered : s \in confirmed[r]
    <3>1. \/ s \in unresolved \cup seen.left \/ Later(0, "I", s)
          \/ \E r \in seen.answered : s \in confirmed[r]
      BY <2>1 DEF AnsweredIsTrue
    <3> QED
      BY <1>1, <3>1
  <2>4. q \in registered
    BY <2>1 DEF AnsweredIsTrue
  <2> QED
    BY <1>1, <2>2, <2>3, <2>4 DEF AnsweredIsTrue
<1> QED
  BY <1>2 DEF AnsweredAreTrue

LEMMA SilentTake ==
  ASSUME SearchTyped, UpInv, NEW kind, Take(kind), kind \notin {"I", "D"},
         UNCHANGED <<sending, confirmed, unresolved>>,
         seen'.answered = seen.answered, seen'.left = seen.left
  PROVE  UpInv'
<1>1. sending' = <<>>
  BY TakeIs
<1>2. AskedOnce' /\ AnsweredOnce'
  BY <1>1, TakeAnswersOnce
<1>3. LoginIsFirst' /\ ListsAreTrue'
  BY TakeKeepsLists
<1> QED
  BY <1>2, <1>3, TakeKeepsAnswered DEF UpInv

\* The requests in whatever order, each once.
LEMMA RequestsInOrder ==
  ASSUME NEW kind \in {"CNSRREQ", "CNSRCLR"}
  PROVE  LET S == {Request(kind, q) : q \in Seqs}
             o == SetToSeq(S) IN
         /\ o \in Seq(Requests)
         /\ \A i \in DOMAIN o : o[i] \in S
         /\ \A i, j \in DOMAIN o : o[i] = o[j] => i = j
<1> DEFINE S == {Request(kind, q) : q \in Seqs}
           o == SetToSeq(S)
           b == [q \in Seqs |-> Request(kind, q)]
<1>1. b \in [Seqs -> S]
  OBVIOUS
<1>2. \A q, r \in Seqs : b[q] = b[r] => q = r
  BY DEF Request
<1>3. \A x \in S : \E q \in Seqs : b[q] = x
  OBVIOUS
<1>4. ExistsBijection(Seqs, S)
  <2> HIDE DEF S, b
  <2> QED
    BY <1>1, <1>2, <1>3 DEF ExistsBijection, Bijection, Injection, Surjection, IsInjective
<1>5. IsFiniteSet(S)
  <2> HIDE DEF S
  <2> QED
    BY <1>4, SearchAssumption, FS_Bijection
<1>6. Cardinality(S) \in Nat /\ \E f \in [1 .. Cardinality(S) -> S] : IsInjective(f)
  <2> HIDE DEF S
  <2> QED
    BY <1>5, FS_CardinalityType DEF ExistsBijection, Bijection, Injection
<1>7. o \in [1 .. Cardinality(S) -> S] /\ IsInjective(o)
  <2> HIDE DEF S
  <2> QED
    BY <1>6 DEF SetToSeq
<1>8. S \subseteq Requests
  BY DEF Request, Requests
<1>9. o \in Seq(Requests)
  <2> HIDE DEF S, o
  <2>1. o \in [1 .. Cardinality(S) -> Requests]
    BY <1>7, <1>8
  <2> QED
    BY <1>6, <2>1
<1>10. \A i \in DOMAIN o : o[i] \in S
  <2> HIDE DEF S, o
  <2> QED
    BY <1>7
<1>11. \A i, j \in DOMAIN o : o[i] = o[j] => i = j
  <2> HIDE DEF S, o
  <2> QED
    BY <1>7 DEF IsInjective
<1> QED
  BY <1>9, <1>10, <1>11

-----------------------------------------------------------------------------
(* The handlers                                                             *)

LEMMA LoginKeepsUp ==
  ASSUME SearchTyped, UpInv, OnLogin
  PROVE  UpInv'
<1>1. Take("login") /\ UNCHANGED <<confirmed, unresolved>>
  BY DEF OnLogin, Silent, listVars
<1>2. CASE ~Head(inbox).ok
  <2>1. UNCHANGED <<sending, seen>>
    BY <1>2 DEF OnLogin
  <2> QED
    BY <1>1, <2>1, SilentTake
<1>3. CASE Head(inbox).ok
  <2>1. /\ 1 \in DOMAIN inbox /\ inbox[1].kind = "login"
        /\ \A i \in DOMAIN inbox' : i + 1 \in DOMAIN inbox /\ i + 1 # 1 /\ inbox'[i] = inbox[i + 1]
    BY <1>1, TakeIs
  <2>2. seen.answered = {} /\ \A i \in DOMAIN inbox' : inbox'[i].kind \in {"I", "D"}
    BY <2>1 DEF UpInv, LoginIsFirst
  <2>3. sending' = SetToSeq({Request("CNSRREQ", q) : q \in Seqs}) /\ seen'.answered = {}
    BY <1>3, <2>2 DEF OnLogin, SearchTyped
  <2>4. /\ \A i \in DOMAIN sending' : sending'[i].kind = "CNSRREQ"
        /\ \A i, j \in DOMAIN sending' : sending'[i] = sending'[j] => i = j
    <3> DEFINE S == {Request("CNSRREQ", q) : q \in Seqs}
               o == SetToSeq(S)
    <3>1. (\A i \in DOMAIN o : o[i] \in S) /\ \A i, j \in DOMAIN o : o[i] = o[j] => i = j
      BY RequestsInOrder
    <3>2. \A r \in S : r.kind = "CNSRREQ"
      BY DEF Request
    <3>3. sending' = o
      BY <2>3
    <3> HIDE DEF S, o
    <3> QED
      BY <3>1, <3>2, <3>3
  <2>5. AskedOnce'
    BY <2>4 DEF AskedOnce
  <2>6. \A q \in Seqs : \A i \in DOMAIN inbox' : ~AnswerAt(i, q)'
    BY <2>2 DEF AnswerAt, AnswerKinds
  <2>7. AnsweredOnce'
    BY <2>3, <2>6 DEF AnsweredOnce
  <2>8. AnsweredAreTrue'
    BY <2>3 DEF AnsweredAreTrue
  <2> QED
    BY <1>1, <2>5, <2>7, <2>8, TakeKeepsLists DEF UpInv
<1> QED
  BY <1>2, <1>3

LEMMA ErrorKeepsUp ==
  ASSUME SearchTyped, UpInv, OnError
  PROVE  UpInv'
<1>1. /\ Take("error") /\ UNCHANGED <<confirmed, unresolved, sending>>
      /\ seen'.answered = seen.answered /\ seen'.left = seen.left
  BY DEF OnError, Silent, listVars, SearchTyped
<1> QED
  BY <1>1, SilentTake

\* A condition that is registered already has no answer yet: it is released and
\* asked for again, and nothing of it is lost.
LEMMA RegisteredKeepsUp ==
  ASSUME SearchTyped, UpInv, OnRegistered
  PROVE  UpInv'
<1>1. Take("900003") /\ UNCHANGED <<confirmed, unresolved, seen>>
  BY DEF OnRegistered, Silent, listVars
<1>2. CASE Head(inbox).seq \in retried
  <2>1. UNCHANGED sending
    BY <1>2 DEF OnRegistered
  <2> QED
    BY <1>1, <2>1, SilentTake
<1>3. CASE Head(inbox).seq \notin retried
  <2>1. inbox[1] \in Messages /\ inbox[1].kind = "900003" /\ Head(inbox) = inbox[1] /\ 1 \in DOMAIN inbox
    BY <1>1, TakeIs
  <2>2. PICK q \in Seqs : q = Head(inbox).seq /\ AnswerAt(1, q)
    BY <2>1 DEF Messages, AnswerAt, AnswerKinds
  <2>3. sending' = <<Request("CNSRCLR", q), Request("CNSRREQ", q)>>
    BY <1>3, <2>2 DEF OnRegistered
  <2>4. /\ DOMAIN sending' = {1, 2}
        /\ sending'[1].kind = "CNSRCLR" /\ sending'[1].seq = q
        /\ sending'[2].kind = "CNSRREQ" /\ sending'[2].seq = q
        /\ sending' = <<sending'[1], Request("CNSRREQ", q)>>
    BY <2>3 DEF Request
  <2>5. AskedOnce'
    BY <2>4 DEF AskedOnce
  <2>6. \A p \in Seqs : Asked(p)' => p = q
    BY <2>4 DEF Asked
  <2>7. q \notin seen.answered /\ \A i \in DOMAIN inbox' : ~AnswerAt(i, q)'
    BY <1>1, <2>1, <2>2, TakeKeepsAnswers DEF UpInv, AnsweredOnce
  <2>8. ASSUME NEW p \in Seqs
        PROVE  /\ Asked(p)' => p \notin seen'.answered /\ \A i \in DOMAIN inbox' : ~AnswerAt(i, p)'
               /\ p \in seen'.answered => \A i \in DOMAIN inbox' : ~AnswerAt(i, p)'
               /\ \A i, j \in DOMAIN inbox' : AnswerAt(i, p)' /\ AnswerAt(j, p)' => i = j
    <3>1. p \in seen.answered => \A i \in DOMAIN inbox : ~AnswerAt(i, p)
      BY DEF UpInv, AnsweredOnce
    <3>2. seen' = seen
      BY <1>1
    <3>3. \A i, j \in DOMAIN inbox' : AnswerAt(i, p)' /\ AnswerAt(j, p)' => i = j
      BY <1>1, TakeKeepsAnswers
    <3>4. p \in seen'.answered => \A i \in DOMAIN inbox' : ~AnswerAt(i, p)'
      BY <1>1, <3>1, <3>2, TakeKeepsAnswers
    <3>5. Asked(p)' => p \notin seen'.answered /\ \A i \in DOMAIN inbox' : ~AnswerAt(i, p)'
      <4> SUFFICES ASSUME Asked(p)' PROVE p \notin seen'.answered /\ \A i \in DOMAIN inbox' : ~AnswerAt(i, p)'
        OBVIOUS
      <4>1. p = q
        BY <2>6
      <4> QED
        BY <2>7, <3>2, <4>1
    <3> QED
      BY <3>3, <3>4, <3>5
  <2>9. AnsweredOnce'
    BY <2>8 DEF AnsweredOnce
  <2> QED
    BY <1>1, <2>5, <2>9, TakeKeepsLists, TakeKeepsAnswered DEF UpInv
<1> QED
  BY <1>2, <1>3

\* The list of a condition takes the place of what was known of it.
LEMMA ListKeepsUp ==
  ASSUME SearchTyped, UpInv, OnList
  PROVE  UpInv'
<1>1. Take("list") /\ sending' = sending
  BY DEF OnList
<1>2. PICK m \in Messages : m = inbox[1] /\ m = Head(inbox) /\ m.kind = "list" /\ 1 \in DOMAIN inbox
  BY <1>1, TakeIs
<1>3. m.seq \in Seqs /\ m.symbols \in SUBSET Symbols
  BY <1>2 DEF Messages
<1>4. AnswerAt(1, m.seq) /\ ListIsTrue(1, m.seq)
  BY <1>2, <1>3 DEF AnswerAt, AnswerKinds, UpInv, ListsAreTrue
<1>5. /\ confirmed' = [confirmed EXCEPT ![m.seq] = m.symbols]
      /\ unresolved' = unresolved \ m.symbols
      /\ seen' = [seen EXCEPT !.answered = @ \cup {m.seq}]
  BY <1>2 DEF OnList, MarksLeft
<1>6. seen'.answered = seen.answered \cup {m.seq} /\ seen'.left = seen.left
  BY <1>5 DEF SearchTyped
<1>7. m.seq \notin seen.answered /\ seen.answered \subseteq Seqs
  BY <1>2, <1>3, <1>4 DEF UpInv, AnsweredOnce, SearchTyped
<1>8. confirmed'[m.seq] = m.symbols /\ \A q \in seen.answered : confirmed'[q] = confirmed[q]
  BY <1>3, <1>5, <1>7 DEF SearchTyped
<1>9. /\ UNCHANGED <<meets, registered>>
      /\ \A s : /\ Later(0, "D", s) => Later(0, "D", s)'
                /\ Later(0, "I", s) => Later(0, "I", s)'
                /\ Later(1, "D", s) => Later(0, "D", s)'
                /\ Later(1, "I", s) => Later(0, "I", s)'
  <2>1. 0 \in Nat /\ 0 + 1 = 1
    OBVIOUS
  <2>2. \A k, s : Later(1, k, s) => Later(0, k, s)'
    BY <1>1, <2>1, LaterAfterTake
  <2>3. \A s : (Later(0, "D", s) => Later(0, "D", s)') /\ (Later(0, "I", s) => Later(0, "I", s)')
    BY <1>1, LaterAfterTake
  <2> QED
    BY <1>1, <2>2, <2>3, TakeIs
<1>10. inbox[1].symbols = m.symbols
  BY <1>2
<1>11. AnsweredIsTrue(m.seq)'
  BY <1>4, <1>6, <1>8, <1>9, <1>10 DEF ListIsTrue, AnsweredIsTrue
<1>12. ASSUME NEW q \in seen.answered PROVE AnsweredIsTrue(q)'
  <2>1. AnsweredIsTrue(q)
    BY DEF UpInv, AnsweredAreTrue
  <2>2. q \in registered' /\ \A s \in confirmed'[q] : s \in meets'[q] \/ Later(0, "D", s)'
    BY <1>8, <1>9, <2>1 DEF AnsweredIsTrue
  <2>3. ASSUME NEW s \in meets[q]
        PROVE  \/ s \in unresolved' \cup seen'.left \/ Later(0, "I", s)'
               \/ \E r \in seen'.answered : s \in confirmed'[r]
    <3>1. \/ s \in unresolved \/ s \in seen.left \/ Later(0, "I", s)
          \/ \E r \in seen.answered : s \in confirmed[r]
      BY <2>1 DEF AnsweredIsTrue
    <3>2. s \in m.symbols => m.seq \in seen'.answered /\ s \in confirmed'[m.seq]
      BY <1>6, <1>8
    <3>3. s \in unresolved => s \in m.symbols \/ s \in unresolved'
      BY <1>5
    <3>4. (\E r \in seen.answered : s \in confirmed[r]) => \E r \in seen'.answered : s \in confirmed'[r]
      BY <1>6, <1>8
    <3> QED
      BY <1>6, <1>9, <3>1, <3>2, <3>3, <3>4
  <2> QED
    BY <1>9, <2>2, <2>3 DEF AnsweredIsTrue
<1>13. AnsweredAreTrue'
  BY <1>6, <1>11, <1>12 DEF AnsweredAreTrue
<1>14. sending' = <<>> /\ \A q \in seen'.answered : q \in seen.answered \/ AnswerAt(1, q)
  BY <1>1, <1>4, <1>6, TakeIs
<1> QED
  BY <1>1, <1>13, <1>14, TakeKeepsLists, TakeAnswersOnce DEF UpInv

\* What happens to the conditions that were answered, when a message that is taken
\* tells of a move and no list comes in.
LEMMA MoveTaken ==
  ASSUME SearchTyped, UpInv, NEW kind \in {"I", "D"}, Take(kind), NEW s0, s0 = inbox[1].symbol,
         sending' = sending, seen'.answered = seen.answered,
         kind = "I" => confirmed' = confirmed /\ seen'.left = seen.left /\ unresolved' = unresolved \cup {s0},
         kind = "D" => /\ confirmed' = Without(confirmed, s0) /\ seen'.left = seen.left \cup {s0}
                       /\ unresolved' = unresolved \ {s0}
  PROVE  UpInv'
<1>1. UNCHANGED <<meets, registered>> /\ sending' = <<>>
  BY TakeIs
<1>2. \A s : /\ Later(0, "D", s) => Later(0, "D", s)' \/ (kind = "D" /\ s = s0)
             /\ Later(0, "I", s) => Later(0, "I", s)' \/ (kind = "I" /\ s = s0)
  BY LaterAfterTake
<1>3. seen.answered \subseteq Seqs
  BY DEF SearchTyped
<1>4. \A q \in Seqs : confirmed'[q] = IF kind = "D" THEN confirmed[q] \ {s0} ELSE confirmed[q]
  BY DEF Without
<1>5. ASSUME NEW q \in seen.answered PROVE AnsweredIsTrue(q)'
  <2>1. AnsweredIsTrue(q) /\ q \in Seqs
    BY <1>3 DEF UpInv, AnsweredAreTrue
  <2>2. ASSUME NEW s \in confirmed'[q] PROVE s \in meets[q] \/ Later(0, "D", s)'
    <3>1. s \in confirmed[q] /\ (kind = "D" => s # s0)
      BY <1>4, <2>1
    <3>2. s \in meets[q] \/ Later(0, "D", s)
      BY <2>1, <3>1 DEF AnsweredIsTrue
    <3> QED
      BY <1>2, <3>1, <3>2
  <2>3. ASSUME NEW s \in meets[q]
        PROVE  \/ s \in unresolved' \cup seen'.left \/ Later(0, "I", s)'
               \/ \E r \in seen.answered : s \in confirmed'[r]
    <3>1. \/ s \in unresolved \/ s \in seen.left \/ Later(0, "I", s)
          \/ \E r \in seen.answered : s \in confirmed[r]
      BY <2>1 DEF AnsweredIsTrue
    <3>2. s = s0 => s \in unresolved' \cup seen'.left
      OBVIOUS
    <3>3. s # s0 => (Later(0, "I", s) => Later(0, "I", s)')
      BY <1>2
    <3>4. s # s0 /\ (\E r \in seen.answered : s \in confirmed[r]) => \E r \in seen.answered : s \in confirmed'[r]
      BY <1>3, <1>4
    <3>5. s # s0 /\ s \in unresolved \cup seen.left => s \in unresolved' \cup seen'.left
      OBVIOUS
    <3> QED
      BY <3>1, <3>2, <3>3, <3>4, <3>5
  <2> QED
    BY <1>1, <2>1, <2>2, <2>3 DEF AnsweredIsTrue
<1>6. AnsweredAreTrue'
  BY <1>5 DEF AnsweredAreTrue
<1> QED
  BY <1>1, <1>6, TakeKeepsLists, TakeAnswersOnce DEF UpInv

LEMMA EnterKeepsUp ==
  ASSUME SearchTyped, UpInv, OnEnter
  PROVE  UpInv'
<1>1. Take("I") /\ sending' = sending /\ confirmed' = confirmed
  BY DEF OnEnter
<1>2. PICK s0 : s0 = Head(inbox).symbol
  OBVIOUS
<1>3. s0 = inbox[1].symbol
  BY <1>1, <1>2, TakeIs
<1>4. unresolved' = unresolved \cup {s0} /\ seen'.answered = seen.answered /\ seen'.left = seen.left
  BY <1>2 DEF OnEnter, SearchTyped
<1>5. "I" \in {"I", "D"} /\ "I" # "D"
  OBVIOUS
<1> QED
  BY <1>1, <1>3, <1>4, <1>5, MoveTaken

LEMMA LeaveKeepsUp ==
  ASSUME SearchTyped, UpInv, OnLeave
  PROVE  UpInv'
<1>1. Take("D") /\ sending' = sending
  BY DEF OnLeave
<1>2. PICK s0 : s0 = Head(inbox).symbol
  OBVIOUS
<1>3. s0 = inbox[1].symbol
  BY <1>1, <1>2, TakeIs
<1>4. /\ confirmed' = Without(confirmed, s0) /\ unresolved' = unresolved \ {s0}
      /\ seen'.answered = seen.answered /\ seen'.left = seen.left \cup {s0}
  BY <1>2 DEF OnLeave, SearchTyped
<1>5. "D" \in {"I", "D"} /\ "I" # "D"
  OBVIOUS
<1> QED
  BY <1>1, <1>3, <1>4, <1>5, MoveTaken

LEMMA HandleKeepsUp ==
  SearchTyped /\ UpInv /\ Handle => UpInv'
BY LoginKeepsUp, ListKeepsUp, RegisteredKeepsUp, ErrorKeepsUp, EnterKeepsUp, LeaveKeepsUp DEF Handle

-----------------------------------------------------------------------------
(* The server and the requests                                              *)

LEMMA SendIs ==
  ASSUME SearchTyped, Send
  PROVE  /\ sending # <<>> /\ 1 \in DOMAIN sending /\ Head(sending) = sending[1]
         /\ Head(sending) \in Requests /\ sending' \in Seq(Requests)
         /\ \A i \in DOMAIN sending' :
              i \in Nat /\ i >= 1 /\ i + 1 \in DOMAIN sending /\ sending'[i] = sending[i + 1]
<1>1. sending # <<>> /\ sending' = Tail(sending) /\ sending \in Seq(Requests)
  BY DEF Send, SearchTyped
<1>2. /\ Head(sending) \in Requests /\ sending' \in Seq(Requests) /\ Len(sending') = Len(sending) - 1
      /\ \A i \in 1 .. Len(sending') : sending'[i] = sending[i + 1]
  BY <1>1, HeadTailProperties
<1>3. /\ DOMAIN sending' = 1 .. Len(sending) - 1 /\ DOMAIN sending = 1 .. Len(sending)
      /\ Len(sending) \in Nat \ {0}
  BY <1>1, <1>2, LenProperties, EmptySeq
<1> QED
  BY <1>1, <1>2, <1>3

\* A move is told behind every list that is on its way; where no list and no answer
\* is concerned, nothing changes.
LEMMA MoveKeepsUp ==
  ASSUME SearchTyped, UpInv, link = "up", NEW q0 \in Seqs, NEW s0 \in Symbols, Move(q0, s0)
  PROVE  UpInv'
<1>0. PICK k0 : k0 = IF s0 \in meets[q0] THEN "D" ELSE "I"
  OBVIOUS
<1> DEFINE m0 == [kind |-> k0, symbol |-> s0]
<1>1. /\ UNCHANGED <<registered, sending, seen, confirmed, unresolved>>
      /\ meets' = [meets EXCEPT ![q0] = IF s0 \in @ THEN @ \ {s0} ELSE @ \cup {s0}]
      /\ IF q0 \in registered THEN Arrives(m0) ELSE inbox' = inbox
  BY <1>0 DEF Move, listVars
<1>2. /\ \A q \in Seqs : q # q0 => meets'[q] = meets[q]
      /\ meets'[q0] = IF s0 \in meets[q0] THEN meets[q0] \ {s0} ELSE meets[q0] \cup {s0}
  BY <1>1 DEF SearchTyped
<1>3. m0 \in Messages /\ m0.kind \in {"I", "D"} /\ m0.kind = k0 /\ m0.symbol = s0
  BY <1>0 DEF Messages
<1> HIDE DEF m0
<1>4. /\ \A i, k, s : Later(i, k, s) => Later(i, k, s)'
      /\ q0 \in registered => \A i \in DOMAIN inbox \cup {0} : Later(i, k0, s0)'
  <2>1. CASE q0 \in registered
    BY <1>1, <1>3, <2>1, LaterAfterArrival
  <2>2. CASE q0 \notin registered
    BY <1>1, <2>2 DEF Later
  <2> QED
    BY <2>1, <2>2
<1>5. \A i \in DOMAIN inbox' : (i \in DOMAIN inbox /\ inbox'[i] = inbox[i]) \/ inbox'[i].kind \in {"I", "D"}
  <2>1. CASE q0 \in registered
    BY <1>1, <1>3, <2>1, ArrivalIs
  <2>2. CASE q0 \notin registered
    BY <1>1, <2>2
  <2> QED
    BY <2>1, <2>2
<1>6. LoginIsFirst'
  <2> SUFFICES ASSUME NEW i \in DOMAIN inbox', inbox'[i].kind = "login"
               PROVE  /\ i = 1 /\ sending' = <<>> /\ seen'.answered = {}
                      /\ \A j \in DOMAIN inbox' : j # 1 => inbox'[j].kind \in {"I", "D"}
    BY DEF LoginIsFirst
  <2>1. i \in DOMAIN inbox /\ inbox[i].kind = "login"
    BY <1>5
  <2>2. i = 1 /\ sending = <<>> /\ seen.answered = {}
    BY <2>1 DEF UpInv, LoginIsFirst
  <2>3. \A j \in DOMAIN inbox : j # 1 => inbox[j].kind \in {"I", "D"}
    BY <2>1 DEF UpInv, LoginIsFirst
  <2> QED
    BY <1>1, <1>5, <2>2, <2>3
<1>7. AskedOnce'
  BY <1>1 DEF UpInv, AskedOnce
<1>8. ASSUME NEW q \in Seqs, NEW i \in DOMAIN inbox', AnswerAt(i, q)'
      PROVE  i \in DOMAIN inbox /\ AnswerAt(i, q)
  BY <1>5, <1>8 DEF AnswerAt, AnswerKinds
<1>9. AnsweredOnce'
  <2> SUFFICES ASSUME NEW q \in Seqs
               PROVE  /\ Asked(q)' => q \notin seen'.answered /\ \A i \in DOMAIN inbox' : ~AnswerAt(i, q)'
                      /\ q \in seen'.answered => \A i \in DOMAIN inbox' : ~AnswerAt(i, q)'
                      /\ \A i, j \in DOMAIN inbox' : AnswerAt(i, q)' /\ AnswerAt(j, q)' => i = j
    BY DEF AnsweredOnce
  <2>1. Asked(q)' => Asked(q)
    BY <1>1 DEF Asked
  <2>2. /\ Asked(q) => q \notin seen.answered /\ \A i \in DOMAIN inbox : ~AnswerAt(i, q)
        /\ q \in seen.answered => \A i \in DOMAIN inbox : ~AnswerAt(i, q)
        /\ \A i, j \in DOMAIN inbox : AnswerAt(i, q) /\ AnswerAt(j, q) => i = j
    BY DEF UpInv, AnsweredOnce
  <2>3. seen' = seen
    BY <1>1
  <2> QED
    BY <1>8, <2>1, <2>2, <2>3
\* What was true of the symbols before the move is true of them afterwards or told.
<1>10. ASSUME NEW q \in Seqs, q \in registered, NEW i \in DOMAIN inbox \cup {0}, NEW s
       PROVE  /\ s \in meets[q] => s \in meets'[q] \/ Later(i, "D", s)'
              /\ s \in meets'[q] => s \in meets[q] \/ Later(i, "I", s)'
  <2>1. CASE q = q0 /\ s = s0
    BY <1>0, <1>2, <1>4, <1>10, <2>1
  <2>2. CASE ~(q = q0 /\ s = s0)
    BY <1>2, <2>2
  <2> QED
    BY <2>1, <2>2
<1>11. ListsAreTrue'
  <2> SUFFICES ASSUME NEW i \in DOMAIN inbox', NEW q \in Seqs, inbox'[i].kind = "list", inbox'[i].seq = q
               PROVE  ListIsTrue(i, q)'
    BY DEF ListsAreTrue
  <2>1. i \in DOMAIN inbox /\ inbox'[i] = inbox[i]
    BY <1>5
  <2>2. ListIsTrue(i, q)
    BY <2>1 DEF UpInv, ListsAreTrue
  <2>3. q \in registered
    BY <2>2 DEF ListIsTrue
  <2>4. ASSUME NEW s \in inbox[i].symbols PROVE s \in meets'[q] \/ Later(i, "D", s)'
    BY <1>4, <1>10, <2>1, <2>2, <2>3 DEF ListIsTrue
  <2>5. ASSUME NEW s \in meets'[q] PROVE s \in inbox[i].symbols \/ Later(i, "I", s)'
    BY <1>4, <1>10, <2>1, <2>2, <2>3 DEF ListIsTrue
  <2> QED
    BY <1>1, <2>1, <2>3, <2>4, <2>5 DEF ListIsTrue
<1>12. ASSUME NEW q \in seen.answered PROVE AnsweredIsTrue(q)'
  <2>1. AnsweredIsTrue(q) /\ q \in Seqs
    BY DEF UpInv, AnsweredAreTrue, SearchTyped
  <2>2. q \in registered
    BY <2>1 DEF AnsweredIsTrue
  <2>3. ASSUME NEW s \in confirmed[q] PROVE s \in meets'[q] \/ Later(0, "D", s)'
    BY <1>4, <1>10, <2>1, <2>2 DEF AnsweredIsTrue
  <2>4. ASSUME NEW s \in meets'[q]
        PROVE  \/ s \in unresolved \cup seen.left \/ Later(0, "I", s)'
               \/ \E r \in seen.answered : s \in confirmed[r]
    <3>1. s \in meets[q] \/ Later(0, "I", s)'
      BY <1>10, <2>1, <2>2
    <3>2. s \in meets[q] => \/ s \in unresolved \cup seen.left \/ Later(0, "I", s)
                            \/ \E r \in seen.answered : s \in confirmed[r]
      BY <2>1 DEF AnsweredIsTrue
    <3> QED
      BY <1>4, <3>1, <3>2
  <2> QED
    BY <1>1, <2>2, <2>3, <2>4 DEF AnsweredIsTrue
<1>13. AnsweredAreTrue'
  BY <1>1, <1>12 DEF AnsweredAreTrue
<1> QED
  BY <1>6, <1>7, <1>9, <1>11, <1>13 DEF UpInv

\* A request that is sent is the only one for its condition.
LEMMA AnswerArrives ==
  ASSUME SearchTyped, UpInv, link = "up", Send, NEW q0 \in Seqs, sending[1] = Request("CNSRREQ", q0),
         NEW m \in Messages, m.kind \in AnswerKinds, m.seq = q0, Arrives(m),
         registered \subseteq registered', UNCHANGED <<meets, confirmed, unresolved, seen>>,
         m.kind = "list" => q0 \in registered' /\ m.symbols = meets[q0]
  PROVE  UpInv'
<1>1. /\ \A i, k, s : Later(i, k, s) => Later(i, k, s)'
      /\ \A i \in DOMAIN inbox' : \/ i \in DOMAIN inbox /\ inbox'[i] = inbox[i]
                                  \/ i = Len(inbox) + 1 /\ inbox'[i] = m
      /\ Len(inbox) + 1 \notin DOMAIN inbox
  BY ArrivalIs, LaterAfterArrival
<1>2. \A i \in DOMAIN sending' : i \in Nat /\ i >= 1 /\ i + 1 \in DOMAIN sending /\ sending'[i] = sending[i + 1]
  BY SendIs
<1>3. /\ 1 \in DOMAIN sending /\ sending # <<>> /\ sending[1].kind = "CNSRREQ" /\ sending[1].seq = q0
      /\ \A i \in DOMAIN sending : sending[i] \in Requests
  <2>1. sending \in Seq(Requests)
    BY DEF SearchTyped
  <2>2. \A i \in DOMAIN sending : sending[i] \in Requests
    BY <2>1, LenProperties
  <2> QED
    BY <2>2, SendIs DEF Request
<1>4. \A i \in DOMAIN sending : sending[i].kind = "CNSRREQ"
  <2> SUFFICES ASSUME NEW i \in DOMAIN sending, sending[i].kind = "CNSRCLR" PROVE FALSE
    BY <1>3 DEF Requests
  <2>1. i = 1
    BY DEF UpInv, AskedOnce
  <2> QED
    BY <1>3, <2>1
<1>5. AskedOnce'
  <2>1. ASSUME NEW i \in DOMAIN sending', NEW j \in DOMAIN sending', sending'[j] = sending'[i] PROVE j = i
    <3>1. i + 1 \in DOMAIN sending /\ j + 1 \in DOMAIN sending /\ sending[j + 1] = sending[i + 1] /\ i \in Nat /\ j \in Nat
      BY <1>2, <2>1
    <3>2. j + 1 = i + 1
      BY <1>4, <3>1 DEF UpInv, AskedOnce
    <3> QED
      BY <3>1, <3>2
  <2>2. \A i \in DOMAIN sending' : sending'[i].kind # "CNSRCLR"
    BY <1>2, <1>4
  <2> QED
    BY <2>1, <2>2 DEF AskedOnce
<1>6. ASSUME Asked(q0)' PROVE FALSE
  <2>1. PICK i \in DOMAIN sending' : sending'[i].seq = q0
    BY <1>6 DEF Asked
  <2>2. i \in Nat /\ i >= 1 /\ i + 1 \in DOMAIN sending /\ sending[i + 1].seq = q0 /\ sending[i + 1].kind = "CNSRREQ"
    BY <1>2, <1>4, <2>1
  <2>3. sending[i + 1] = sending[1]
    BY <1>3, <2>2 DEF Requests
  <2>4. i + 1 = 1
    BY <1>3, <2>2, <2>3 DEF UpInv, AskedOnce
  <2> QED
    BY <2>2, <2>4
<1>7. \A i \in DOMAIN inbox : inbox[i].kind # "login"
  BY <1>3 DEF UpInv, LoginIsFirst
<1>8. LoginIsFirst'
  BY <1>1, <1>7 DEF LoginIsFirst, AnswerKinds
<1>9. Asked(q0)
  BY <1>3 DEF Asked
<1>10. q0 \notin seen.answered /\ \A i \in DOMAIN inbox : ~AnswerAt(i, q0)
  BY <1>9 DEF UpInv, AnsweredOnce
<1>11. ASSUME NEW q \in Seqs, NEW i \in DOMAIN inbox', AnswerAt(i, q)'
       PROVE  \/ i \in DOMAIN inbox /\ AnswerAt(i, q)
              \/ q = q0 /\ i = Len(inbox) + 1
  BY <1>1, <1>11 DEF AnswerAt
<1>12. AnsweredOnce'
  <2> SUFFICES ASSUME NEW q \in Seqs
               PROVE  /\ Asked(q)' => q \notin seen'.answered /\ \A i \in DOMAIN inbox' : ~AnswerAt(i, q)'
                      /\ q \in seen'.answered => \A i \in DOMAIN inbox' : ~AnswerAt(i, q)'
                      /\ \A i, j \in DOMAIN inbox' : AnswerAt(i, q)' /\ AnswerAt(j, q)' => i = j
    BY DEF AnsweredOnce
  <2>1. Asked(q)' => Asked(q)
    BY <1>2 DEF Asked
  <2>2. /\ Asked(q) => q \notin seen.answered /\ \A i \in DOMAIN inbox : ~AnswerAt(i, q)
        /\ q \in seen.answered => \A i \in DOMAIN inbox : ~AnswerAt(i, q)
        /\ \A i, j \in DOMAIN inbox : AnswerAt(i, q) /\ AnswerAt(j, q) => i = j
    BY DEF UpInv, AnsweredOnce
  <2>3. seen' = seen
    OBVIOUS
  <2>4. CASE q = q0
    BY <1>6, <1>10, <1>11, <2>3, <2>4
  <2>5. CASE q # q0
    BY <1>11, <2>1, <2>2, <2>3, <2>5
  <2> QED
    BY <2>4, <2>5
<1>13. ListsAreTrue'
  <2> SUFFICES ASSUME NEW i \in DOMAIN inbox', NEW q \in Seqs, inbox'[i].kind = "list", inbox'[i].seq = q
               PROVE  ListIsTrue(i, q)'
    BY DEF ListsAreTrue
  <2>1. CASE i \in DOMAIN inbox /\ inbox'[i] = inbox[i]
    <3>1. ListIsTrue(i, q)
      BY <2>1 DEF UpInv, ListsAreTrue
    <3> QED
      BY <1>1, <2>1, <3>1 DEF ListIsTrue
  <2>2. CASE inbox'[i] = m
    BY <2>2 DEF ListIsTrue
  <2> QED
    BY <1>1, <2>1, <2>2
<1>14. ASSUME NEW q \in seen.answered PROVE AnsweredIsTrue(q)'
  <2>1. AnsweredIsTrue(q)
    BY DEF UpInv, AnsweredAreTrue
  <2> QED
    BY <1>1, <2>1 DEF AnsweredIsTrue
<1>15. AnsweredAreTrue'
  BY <1>14 DEF AnsweredAreTrue
<1> QED
  BY <1>5, <1>8, <1>12, <1>13, <1>15 DEF UpInv

\* A condition is released between a 900003 and the next request for it: there is
\* nothing of it that could get lost.
LEMMA ReleaseKeepsUp ==
  ASSUME SearchTyped, UpInv, Send, NEW q0 \in Seqs, sending[1] = Request("CNSRCLR", q0),
         registered' = registered \ {q0}, UNCHANGED <<inbox, meets, confirmed, unresolved, seen>>
  PROVE  UpInv'
<1>1. sending = <<sending[1], Request("CNSRREQ", q0)>> 
  BY SendIs DEF UpInv, AskedOnce, Request
<1>2. DOMAIN sending = {1, 2} /\ sending[2] = Request("CNSRREQ", q0)
  <2>1. \A a, b : DOMAIN <<a, b>> = {1, 2} /\ <<a, b>>[2] = b
    OBVIOUS
  <2> QED
    BY <1>1, <2>1
<1>3. DOMAIN sending' \subseteq {1} /\ \A i \in DOMAIN sending' : sending'[i].kind = "CNSRREQ" /\ sending'[i].seq = q0
  <2>1. \A i \in DOMAIN sending' : i = 1 /\ sending'[i] = sending[2]
    BY <1>2, SendIs
  <2> QED
    BY <1>2, <2>1 DEF Request
<1>4. Asked(q0)
  BY SendIs DEF Asked, Request
<1>5. q0 \notin seen.answered /\ \A i \in DOMAIN inbox : ~AnswerAt(i, q0)
  BY <1>4 DEF UpInv, AnsweredOnce
<1>6. AskedOnce'
  BY <1>3 DEF AskedOnce
<1>7. LoginIsFirst'
  BY SendIs DEF UpInv, LoginIsFirst
<1>8. AnsweredOnce'
  <2>1. \A q \in Seqs : Asked(q)' => q = q0
    BY <1>3 DEF Asked
  <2> QED
    BY <1>5, <2>1 DEF UpInv, AnsweredOnce, AnswerAt
<1>9. ListsAreTrue'
  <2> SUFFICES ASSUME NEW i \in DOMAIN inbox, NEW q \in Seqs, inbox[i].kind = "list", inbox[i].seq = q
               PROVE  ListIsTrue(i, q)'
    BY DEF ListsAreTrue
  <2>1. ListIsTrue(i, q)
    BY DEF UpInv, ListsAreTrue
  <2>2. q # q0
    BY <1>5 DEF AnswerAt, AnswerKinds
  <2> QED
    BY <2>1, <2>2 DEF ListIsTrue, Later
<1>10. ASSUME NEW q \in seen.answered PROVE AnsweredIsTrue(q)'
  <2>1. AnsweredIsTrue(q) /\ q # q0
    BY <1>5 DEF UpInv, AnsweredAreTrue
  <2> QED
    BY <2>1 DEF AnsweredIsTrue, Later
<1>11. AnsweredAreTrue'
  BY <1>10 DEF AnsweredAreTrue
<1> QED
  BY <1>6, <1>7, <1>8, <1>9, <1>11 DEF UpInv

LEMMA SendKeepsUp ==
  ASSUME SearchTyped, UpInv, link = "up", Send
  PROVE  UpInv'
<1>1. PICK r \in Requests : r = sending[1] /\ r = Head(sending)
  BY SendIs
<1>2. UNCHANGED <<meets, confirmed, unresolved, seen>>
  BY DEF Send, listVars
<1>3. r.seq \in Seqs /\ r = Request(r.kind, r.seq)
  BY DEF Requests, Request
<1>4. CASE r.kind = "CNSRREQ" /\ Subscribed(r.seq)
  <2>1. CASE r.seq \in registered
    <3> DEFINE m == [kind |-> "900003", seq |-> r.seq]
    <3>1. m \in Messages /\ m.kind \in AnswerKinds /\ m.seq = r.seq /\ m.kind # "list"
      BY <1>3 DEF Messages, AnswerKinds
    <3>2. Arrives(m) /\ registered' = registered
      BY <1>4, <2>1 DEF Subscribed
    <3> HIDE DEF m
    <3> QED
      BY <1>1, <1>2, <1>3, <1>4, <3>1, <3>2, AnswerArrives
  <2>2. CASE r.seq \notin registered
    <3>0. PICK symbols : symbols = meets[r.seq] /\ symbols \in SUBSET Symbols
      BY <1>3 DEF SearchTyped
    <3> DEFINE m == [kind |-> "list", seq |-> r.seq, symbols |-> symbols]
    <3>1. m \in Messages /\ m.kind \in AnswerKinds /\ m.seq = r.seq /\ m.symbols = meets[r.seq]
      BY <1>3, <3>0 DEF Messages, AnswerKinds
    <3>2. Arrives(m) /\ registered' = registered \cup {r.seq}
      BY <1>4, <2>2, <3>0 DEF Subscribed
    <3> HIDE DEF m
    <3> QED
      BY <1>1, <1>2, <1>3, <1>4, <3>1, <3>2, AnswerArrives
  <2> QED
    BY <2>1, <2>2
<1>5. CASE r.kind = "CNSRREQ" /\ Refused(r.seq)
  <2> DEFINE m == [kind |-> "error", seq |-> r.seq]
  <2>1. m \in Messages /\ m.kind \in AnswerKinds /\ m.seq = r.seq /\ m.kind # "list"
    BY <1>3 DEF Messages, AnswerKinds
  <2>2. Arrives(m) /\ registered' = registered
    BY <1>5 DEF Refused
  <2> HIDE DEF m
  <2> QED
    BY <1>1, <1>2, <1>3, <1>5, <2>1, <2>2, AnswerArrives
<1>6. CASE r.kind = "CNSRCLR" /\ registered' = registered \ {r.seq} /\ UNCHANGED <<inbox, used>>
  BY <1>1, <1>2, <1>3, <1>6, ReleaseKeepsUp
<1> QED
  BY <1>1, <1>4, <1>5, <1>6 DEF Send

-----------------------------------------------------------------------------
(* The other steps                                                          *)

LEMMA ConnectComesUp ==
  ASSUME SearchTyped, Connect
  PROVE  UpInv'
<1>1. PICK m : inbox' = <<m>> /\ m.kind = "login"
  <2>1. PICK b \in BOOLEAN : inbox' = <<[kind |-> "login", ok |-> b]>>
    BY DEF Connect
  <2> QED
    BY <2>1
<1>2. DOMAIN inbox' = {1} /\ inbox'[1] = m
  BY <1>1
<1>3. sending' = <<>> /\ DOMAIN sending' = {} /\ seen'.answered = {}
  BY DEF Connect, Fresh
<1>4. LoginIsFirst' /\ AskedOnce' /\ AnsweredAreTrue'
  BY <1>2, <1>3 DEF LoginIsFirst, AskedOnce, AnsweredAreTrue
<1>5. AnsweredOnce'
  BY <1>1, <1>2, <1>3 DEF AnsweredOnce, Asked, AnswerAt, AnswerKinds
<1>6. ListsAreTrue'
  BY <1>1, <1>2 DEF ListsAreTrue
<1> QED
  BY <1>4, <1>5, <1>6 DEF UpInv

LEMMA ArrivalTyped ==
  ASSUME SearchTyped, NEW m \in Messages, Arrives(m)
  PROVE  inbox' \in Seq(Messages)
BY DEF SearchTyped, Arrives

LEMMA MoveTyped ==
  ASSUME SearchTyped, NEW q0 \in Seqs, NEW s0 \in Symbols, Move(q0, s0)
  PROVE  SearchTyped'
<1>1. meets' \in [Seqs -> SUBSET Symbols]
  BY DEF Move, SearchTyped
<1>2. inbox' \in Seq(Messages)
  <2>1. [kind |-> IF s0 \in meets[q0] THEN "D" ELSE "I", symbol |-> s0] \in Messages
    BY DEF Messages
  <2> QED
    BY <2>1, ArrivalTyped DEF Move, SearchTyped
<1>3. UNCHANGED <<registered, sending, confirmed, unresolved, seen>>
  BY DEF Move, listVars
<1> QED
  BY <1>1, <1>2, <1>3 DEF SearchTyped

LEMMA SendTyped ==
  ASSUME SearchTyped, Send
  PROVE  SearchTyped'
<1>1. PICK r \in Requests : r = Head(sending)
  BY SendIs
<1>2. r.seq \in Seqs
  BY <1>1 DEF Requests
<1>3. registered' \subseteq Seqs /\ inbox' \in Seq(Messages)
  <2>1. /\ [kind |-> "900003", seq |-> r.seq] \in Messages
        /\ [kind |-> "error", seq |-> r.seq] \in Messages
        /\ [kind |-> "list", seq |-> r.seq, symbols |-> meets[r.seq]] \in Messages
    BY <1>2 DEF Messages, SearchTyped
  <2>2. CASE Subscribed(r.seq)
    BY <1>2, <2>1, <2>2, ArrivalTyped DEF Subscribed, SearchTyped
  <2>3. CASE Refused(r.seq)
    BY <2>1, <2>3, ArrivalTyped DEF Refused, SearchTyped
  <2>4. CASE registered' \in {registered, registered \ {r.seq}} /\ inbox' = inbox
    BY <2>4 DEF SearchTyped
  <2> QED
    BY <1>1, <2>2, <2>3, <2>4 DEF Send
<1>4. sending' \in Seq(Requests) /\ UNCHANGED <<meets, confirmed, unresolved, seen>>
  BY SendIs DEF Send, listVars
<1> QED
  BY <1>3, <1>4 DEF SearchTyped

LEMMA HandleTyped ==
  ASSUME SearchTyped, Handle
  PROVE  SearchTyped'
<1>1. PICK kind : Take(kind)
  BY DEF Handle, OnLogin, OnList, OnRegistered, OnError, OnEnter, OnLeave
<1>2. UNCHANGED <<meets, registered>> /\ inbox' \in Seq(Messages) /\ Head(inbox) \in Messages
  BY <1>1, TakeIs
<1>3. CASE OnLogin
  <2>1. sending' \in Seq(Requests)
    BY <1>3, RequestsInOrder DEF OnLogin, SearchTyped
  <2>2. UNCHANGED <<confirmed, unresolved>> /\ seen' \in {seen, [seen EXCEPT !.login = TRUE]}
    BY <1>3 DEF OnLogin, Silent, listVars
  <2> QED
    BY <1>2, <2>1, <2>2 DEF SearchTyped
<1>4. CASE OnList
  <2>1. Head(inbox).seq \in Seqs /\ Head(inbox).symbols \in SUBSET Symbols
    BY <1>2, <1>4 DEF OnList, Take, Messages
  <2>2. confirmed' \in [Seqs -> SUBSET Symbols] /\ unresolved' \subseteq Symbols
    BY <1>4, <2>1 DEF OnList, MarksLeft, SearchTyped
  <2>3. seen' = [seen EXCEPT !.answered = @ \cup {Head(inbox).seq}] /\ sending' = sending
    BY <1>4 DEF OnList
  <2> QED
    BY <1>2, <2>1, <2>2, <2>3 DEF SearchTyped
<1>5. CASE OnRegistered
  <2>1. Head(inbox).seq \in Seqs
    BY <1>2, <1>5 DEF OnRegistered, Take, Messages
  <2>2. sending' \in Seq(Requests)
    <3>1. Request("CNSRCLR", Head(inbox).seq) \in Requests /\ Request("CNSRREQ", Head(inbox).seq) \in Requests
      BY <2>1 DEF Request, Requests
    <3>2. \A a, b \in Requests : <<a, b>> \in Seq(Requests)
      OBVIOUS
    <3>3. \/ sending' = sending
          \/ sending' = <<Request("CNSRCLR", Head(inbox).seq), Request("CNSRREQ", Head(inbox).seq)>>
      BY <1>5 DEF OnRegistered
    <3> QED
      BY <3>1, <3>2, <3>3 DEF SearchTyped
  <2>3. UNCHANGED <<confirmed, unresolved, seen>>
    BY <1>5 DEF OnRegistered, Silent, listVars
  <2> QED
    BY <1>2, <2>2, <2>3 DEF SearchTyped
<1>6. CASE OnError
  <2>1. Head(inbox).seq \in Seqs
    BY <1>2, <1>6 DEF OnError, Take, Messages
  <2>2. UNCHANGED <<confirmed, unresolved, sending>> /\ seen' = [seen EXCEPT !.refused = @ \cup {Head(inbox).seq}]
    BY <1>6 DEF OnError, Silent, listVars
  <2> QED
    BY <1>2, <2>1, <2>2 DEF SearchTyped
<1>7. CASE OnEnter
  <2>1. Head(inbox).symbol \in Symbols
    BY <1>2, <1>7 DEF OnEnter, Take, Messages
  <2>2. /\ confirmed' = confirmed /\ unresolved' = unresolved \cup {Head(inbox).symbol} /\ sending' = sending
        /\ seen' = [seen EXCEPT !.came = @ \cup {Head(inbox).symbol}]
    BY <1>7 DEF OnEnter
  <2> QED
    BY <1>2, <2>1, <2>2 DEF SearchTyped
<1>8. CASE OnLeave
  <2>1. Head(inbox).symbol \in Symbols
    BY <1>2, <1>8 DEF OnLeave, Take, Messages
  <2>2. /\ unresolved' = unresolved \ {Head(inbox).symbol} /\ sending' = sending
        /\ seen' = [seen EXCEPT !.left = @ \cup {Head(inbox).symbol}]
    BY <1>8 DEF OnLeave
  <2>3. confirmed' \in [Seqs -> SUBSET Symbols]
    BY <1>8 DEF OnLeave, Without, SearchTyped
  <2> QED
    BY <1>2, <2>1, <2>2, <2>3 DEF SearchTyped
<1> QED
  BY <1>3, <1>4, <1>5, <1>6, <1>7, <1>8 DEF Handle

\* The steps at an end or a beginning of a connection.
LEMMA ConnectionTyped ==
  ASSUME SearchTyped, Connect \/ Drop \/ Stop \/ Fail \/ Restart
  PROVE  SearchTyped'
<1>1. Fresh \in [login : BOOLEAN, answered : SUBSET Seqs, refused : SUBSET Seqs,
                 came : SUBSET Symbols, left : SUBSET Symbols]
  BY DEF Fresh
<1>2. CASE Connect
  <2>1. inbox' \in Seq(Messages)
    <3>1. \A b \in BOOLEAN : [kind |-> "login", ok |-> b] \in Messages
      BY DEF Messages
    <3>2. \A m \in Messages : <<m>> \in Seq(Messages)
      OBVIOUS
    <3> QED
      BY <1>2, <3>1, <3>2 DEF Connect
  <2> QED
    BY <1>1, <1>2, <2>1 DEF Connect, serverVars, listVars, SearchTyped
<1>3. <<>> \in Seq(Messages) /\ <<>> \in Seq(Requests)
  OBVIOUS
<1>4. CASE Drop
  BY <1>3, <1>4 DEF Drop, listVars, SearchTyped
<1>5. CASE Stop
  <2>1. sending' \in Seq(Requests)
    BY <1>5, RequestsInOrder DEF Stop
  <2> QED
    BY <1>3, <1>5, <2>1 DEF Stop, serverVars, listVars, SearchTyped
<1>6. CASE Fail
  BY <1>3, <1>6 DEF Fail, serverVars, listVars, SearchTyped
<1>7. CASE Restart
  BY <1>1, <1>7 DEF Restart, SearchTyped
<1> QED
  BY <1>2, <1>4, <1>5, <1>6, <1>7

LEMMA SearchInvInit == Init => SearchInv
<1> SUFFICES ASSUME Init PROVE SearchInv
  OBVIOUS
<1>1. seen \in [login : BOOLEAN, answered : SUBSET Seqs, refused : SUBSET Seqs,
                came : SUBSET Symbols, left : SUBSET Symbols]
  BY DEF Init, Fresh
<1>2. SearchTyped
  BY <1>1 DEF Init, SearchTyped
<1> QED
  BY <1>2 DEF Init, SearchInv

LEMMA NextKeepsSearchInv == SearchInv /\ [Next]_vars => SearchInv'
<1> SUFFICES ASSUME SearchInv, [Next]_vars PROVE SearchInv'
  OBVIOUS
<1>0. SearchTyped /\ (link = "up" => UpInv)
  BY DEF SearchInv
<1>1. CASE \E q \in Seqs, s \in Symbols : Move(q, s)
  <2>1. PICK q \in Seqs, s \in Symbols : Move(q, s)
    BY <1>1
  <2>2. link' = link
    BY <2>1 DEF Move
  <2> QED
    BY <1>0, <2>1, <2>2, MoveTyped, MoveKeepsUp DEF SearchInv
<1>2. CASE Connect
  BY <1>0, <1>2, ConnectionTyped, ConnectComesUp DEF SearchInv
<1>3. CASE Drop \/ Stop \/ Fail \/ Restart
  <2>1. link' # "up"
    BY <1>3 DEF Drop, Stop, Fail, Restart
  <2> QED
    BY <1>0, <1>3, <2>1, ConnectionTyped DEF SearchInv
<1>4. CASE Send
  <2>1. link' = link
    BY <1>4 DEF Send
  <2> QED
    BY <1>0, <1>4, <2>1, SendTyped, SendKeepsUp DEF SearchInv
<1>5. CASE Handle
  <2>1. link = "up"
    BY <1>5 DEF Handle, OnLogin, OnList, OnRegistered, OnError, OnEnter, OnLeave, Take
  <2> QED
    BY <1>0, <1>5, <2>1, HandleTyped, HandleKeepsUp DEF SearchInv
<1>6. CASE UNCHANGED vars
  <2>1. SearchTyped' /\ link' = link
    BY <1>0, <1>6 DEF vars, SearchTyped
  <2>2. UpInv => UpInv'
    BY <1>6 DEF vars, UpInv, LoginIsFirst, AskedOnce, AnsweredOnce, ListsAreTrue, AnsweredAreTrue,
                Asked, AnswerAt, ListIsTrue, AnsweredIsTrue, Later
  <2> QED
    BY <1>0, <2>1, <2>2 DEF SearchInv
<1> QED
  BY <1>1, <1>2, <1>3, <1>4, <1>5, <1>6 DEF Next

-----------------------------------------------------------------------------
\* What the watch list shows is what the server knows, once nothing is on its way:
\* through refused requests, registrations an earlier connection left behind, symbols
\* that move while the lists are asked for, and connections that break
\* (condition_watcher.py, kiwoom_ws.py).
THEOREM ListsStayRight == Spec => []ListsAreRight
<1> QED
  BY SearchIsRight, SearchInvInit, NextKeepsSearchInv, PTL DEF Spec
-----------------------------------------------------------------------------
(***************************************************************************)
(* The watch list (Watchlist), which looks at what the lists hold.          *)
(***************************************************************************)
Size == Cardinality(Codes)

\* The rechecks that are tried: the mode asks for them, the day goes on, and its cutoff is
\* not over.
SameDay    == DayOf(now) = DayOf(now - 1)
Rechecking == mode # "off" /\ ~PastCutoff /\ (cycle.running \/ SameDay)

\* The symbols whose next recheck may come before the one of s: excluded no later, and not
\* yet served since s could have been.
Ahead(s) == {t \in Codes \ {s} : /\ since[t] # Never /\ since[t] <= since[s]
                                   /\ due[t] < due[s] + Size}

WatchTyped == now \in Nat \ {0} /\ since \in [Codes -> Nat] /\ due \in [Codes -> Nat]

\* What is tracked is excluded, and its first recheck comes a cooldown after that.
TrackedAreExcluded ==
  \A s \in Tracked : s \in excluded /\ since[s] <= now /\ since[s] + Cooldown <= due[s]

\* How long a symbol has waited and how many are before it never add up to all of them.
ServedSoon ==
  \A s \in Codes : Waiting(s) /\ due[s] <= now =>
    (now - due[s]) + Cardinality(Ahead(s)) <= Size - 1

RecheckInv == WatchTyped /\ TrackedAreExcluded /\ (Rechecking => ServedSoon)

-----------------------------------------------------------------------------
LEMMA WatchSizes ==
  /\ IsFiniteSet(Codes) /\ Size \in Nat /\ Size <= Cooldown
  /\ Cooldown \in Nat /\ FailureBackoff \in Nat
  /\ Cutoff \in Nat /\ DayLength \in Nat \ {0}
<1>1. Size \in Nat
  BY WatchlistAssumption, FS_CardinalityType DEF Size
<1> QED
  BY <1>1, WatchlistAssumption DEF Size

\* Two moments of one day: the later one is nearer to the cutoff.
LEMMA DayGoesOn ==
  ASSUME NEW length \in Nat \ {0}, NEW n \in Nat, n \div length = (n + 1) \div length
  PROVE  (n % length) < ((n + 1) % length)
OBVIOUS

\* All but one symbol at most are before one.
LEMMA OthersAreFewer ==
  ASSUME NEW s \in Codes, NEW T, T \subseteq Codes \ {s}
  PROVE  Cardinality(T) \in Nat /\ Cardinality(T) <= Size - 1 /\ Size >= 1
<1>1. IsFiniteSet(Codes)
  BY WatchSizes
<1>2. IsFiniteSet(Codes \ {s}) /\ Cardinality(Codes \ {s}) = Cardinality(Codes) - 1
  BY <1>1, FS_RemoveElement
<1>3. IsFiniteSet(T) /\ Cardinality(T) <= Cardinality(Codes \ {s})
  BY <1>2, FS_Subset
<1>4. Cardinality(T) \in Nat /\ Cardinality(Codes) \in Nat /\ Cardinality(Codes \ {s}) \in Nat
  BY <1>1, <1>2, <1>3, FS_CardinalityType
<1> QED
  BY <1>2, <1>3, <1>4 DEF Size

\* A step that takes no time: it leaves what is tracked alone, or starts to track a symbol
\* that it excludes.
LEMMA TrackingStep ==
  ASSUME RecheckInv, NEW s0,
         now' = now, excluded \subseteq excluded', Rechecking' => Rechecking,
         \/ UNCHANGED <<since, due>>
         \/ /\ since[s0] = Never /\ s0 \in excluded'
            /\ since' = [since EXCEPT ![s0] = now] /\ due' = [due EXCEPT ![s0] = now + Cooldown]
  PROVE  RecheckInv'
<1>0. /\ Size \in Nat /\ Size <= Cooldown /\ Cooldown \in Nat
  BY WatchSizes
<1>1. WatchTyped'
  BY <1>0 DEF RecheckInv, WatchTyped
<1>2. TrackedAreExcluded'
  BY <1>0 DEF RecheckInv, WatchTyped, TrackedAreExcluded, Tracked
<1>3. ASSUME Rechecking', NEW s \in Codes, Waiting(s)', due'[s] <= now'
      PROVE  (now' - due'[s]) + Cardinality(Ahead(s)') <= Size - 1
  <2>0. Size >= 1
    BY OthersAreFewer
  <2>1. since'[s] = since[s] /\ due'[s] = due[s]
    BY <1>0, <1>3, <2>0 DEF RecheckInv, WatchTyped
  <2>2. since[s] # Never /\ s \in Tracked
    BY <1>3, <2>1 DEF Waiting, Tracked
  <2>3. Waiting(s) /\ since[s] + Cooldown <= due[s]
    BY <2>2 DEF RecheckInv, TrackedAreExcluded, Waiting
  <2>4. (now - due[s]) + Cardinality(Ahead(s)) <= Size - 1
    BY <1>3, <2>1, <2>3 DEF RecheckInv, ServedSoon
  <2>5. Ahead(s)' \subseteq Ahead(s)
    <3> SUFFICES ASSUME NEW t \in Ahead(s)' PROVE t \in Ahead(s)
      OBVIOUS
    <3>1. t \in Codes \ {s} /\ since'[t] # Never /\ since'[t] <= since[s] /\ due'[t] < due[s] + Size
      BY <2>1 DEF Ahead, Size, Never
    <3>2. since[s] < now
      BY <1>0, <1>3, <2>0, <2>1, <2>3 DEF RecheckInv, WatchTyped
    <3>3. since'[t] = since[t] /\ due'[t] = due[t]
      BY <3>1, <3>2 DEF RecheckInv, WatchTyped
    <3> QED
      BY <3>1, <3>3 DEF Ahead
  <2>6. Ahead(s) \subseteq Codes \ {s}
    BY DEF Ahead
  <2>7. IsFiniteSet(Ahead(s))
    BY <2>6, WatchSizes, FS_Subset
  <2>8. Cardinality(Ahead(s)') <= Cardinality(Ahead(s)) /\ Cardinality(Ahead(s)') \in Nat /\ Cardinality(Ahead(s)) \in Nat
    BY <2>5, <2>6, <2>7, FS_Subset, FS_CardinalityType
  <2> QED
    BY <1>0, <2>1, <2>4, <2>8 DEF RecheckInv, WatchTyped
<1>4. Rechecking' => ServedSoon'
  BY <1>3 DEF ServedSoon, Size
<1> QED
  BY <1>1, <1>2, <1>4 DEF RecheckInv

\* A symbol that a poll excludes has its recheck a cooldown later, not now.
LEMMA ProcessKeepsRechecks ==
  ASSUME RecheckInv, Process
  PROVE  RecheckInv'
<1> DEFINE s0 == Head(cycle.left)
<1>1. now' = now /\ mode' = mode /\ cycle.running
  BY DEF Process
<1>2. excluded \subseteq excluded'
  BY DEF Process
<1>3. \/ UNCHANGED <<since, due>>
      \/ /\ since[s0] = Never /\ s0 \in excluded'
         /\ since' = [since EXCEPT ![s0] = now] /\ due' = [due EXCEPT ![s0] = now + Cooldown]
  BY DEF Process
<1>4. Rechecking' => Rechecking
  BY <1>1 DEF Rechecking, PastCutoff
<1> HIDE DEF s0
<1> QED
  BY <1>1, <1>2, <1>3, <1>4, TrackingStep

\* The first cycle of a day finds nothing tracked.
LEMMA BeginCycleKeepsRechecks ==
  ASSUME RecheckInv, BeginCycle
  PROVE  RecheckInv'
<1>1. now' = now /\ mode' = mode
  BY DEF BeginCycle
<1>2. CASE SameDay
  <2>1. UNCHANGED <<excluded, since, due>>
    BY <1>2 DEF BeginCycle, SameDay
  <2>2. Rechecking' => Rechecking
    BY <1>1, <1>2 DEF Rechecking, PastCutoff
  <2> QED
    BY <1>1, <2>1, <2>2, TrackingStep
<1>3. CASE ~SameDay
  <2>1. since' = [s \in Codes |-> Never] /\ due' = [s \in Codes |-> Never]
    BY <1>3 DEF BeginCycle, SameDay
  <2>2. \A s \in Codes : since'[s] = Never
    BY <2>1
  <2>3. WatchTyped'
    BY <1>1, <2>1 DEF RecheckInv, WatchTyped, Never
  <2>4. TrackedAreExcluded' /\ ServedSoon'
    BY <2>2 DEF TrackedAreExcluded, ServedSoon, Tracked, Waiting, Never
  <2> QED
    BY <2>3, <2>4 DEF RecheckInv
<1> QED
  BY <1>2, <1>3

\* What a recheck leaves of the times of a symbol: it is no longer tracked, or its next try
\* is a cooldown away.
LEMMA RecheckTimes ==
  ASSUME RecheckInv, NEW s0 \in Oldest, RecheckOne(s0)
  PROVE  /\ since' \in [Codes -> Nat] /\ due' \in [Codes -> Nat]
         /\ \A t \in Codes \ {s0} : since'[t] = since[t] /\ due'[t] = due[t]
                                      /\ (t \in excluded => t \in excluded')
         /\ \/ since'[s0] = Never
            \/ since'[s0] = since[s0] /\ due'[s0] >= now + Cooldown /\ s0 \in excluded'
<1>0. s0 \in Codes /\ s0 \in excluded
  BY DEF Oldest, Waiting
<1>1. \A answer : NextTry(answer) \in Nat /\ NextTry(answer) >= now + Cooldown
  BY WatchSizes DEF NextTry, RecheckInv, WatchTyped
<1>2. CASE Untrack(s0)
  BY <1>0, <1>2 DEF Untrack, RecheckOne, RecheckInv, WatchTyped, Never
<1>3. CASE \E answer : due' = [due EXCEPT ![s0] = NextTry(answer)] /\ UNCHANGED <<since, excluded>>
  BY <1>0, <1>1, <1>3 DEF RecheckInv, WatchTyped
<1> QED
  BY <1>2, <1>3 DEF RecheckOne

\* A recheck makes the others wait for one symbol less; one that was not due before has
\* the others before it at most.
LEMMA RecheckServes ==
  ASSUME RecheckInv, ServedSoon, now' = now + 1,
         NEW s0 \in Oldest, RecheckOne(s0),
         NEW s \in Codes, Waiting(s)', due'[s] <= now'
  PROVE  (now' - due'[s]) + Cardinality(Ahead(s)') <= Size - 1
<1>0. /\ Size \in Nat /\ Size <= Cooldown /\ Cooldown \in Nat /\ Size >= 1
      /\ now \in Nat /\ since \in [Codes -> Nat] /\ due \in [Codes -> Nat]
  BY WatchSizes, OthersAreFewer DEF RecheckInv, WatchTyped
<1>1. /\ since' \in [Codes -> Nat] /\ due' \in [Codes -> Nat]
      /\ \A t \in Codes \ {s0} : since'[t] = since[t] /\ due'[t] = due[t]
      /\ \/ since'[s0] = Never
         \/ since'[s0] = since[s0] /\ due'[s0] >= now + Cooldown
  BY RecheckTimes
<1>2. Ahead(s)' \subseteq Codes \ {s}
  BY DEF Ahead
<1>3. Cardinality(Ahead(s)') \in Nat /\ Cardinality(Ahead(s)') <= Size - 1
  BY <1>2, OthersAreFewer
<1>4. CASE due'[s] = now + 1
  BY <1>0, <1>3, <1>4
<1>5. CASE due'[s] # now + 1
  <2>1. due'[s] <= now
    BY <1>0, <1>1, <1>5
  <2>2. s # s0
    BY <1>0, <1>1, <2>1 DEF Waiting, Never
  <2>3. since'[s] = since[s] /\ due'[s] = due[s] /\ due[s] <= now /\ since[s] # Never
    BY <1>1, <2>1, <2>2 DEF Waiting, Never
  <2>4. s \in Tracked
    BY <2>3 DEF Tracked
  <2>5. Waiting(s)
    BY <2>3, <2>4 DEF Waiting, RecheckInv, TrackedAreExcluded
  <2>6. (now - due[s]) + Cardinality(Ahead(s)) <= Size - 1
    BY <2>3, <2>5 DEF ServedSoon
  <2>7. Ahead(s) \subseteq Codes \ {s} /\ IsFiniteSet(Ahead(s)) /\ Cardinality(Ahead(s)) \in Nat
    <3>1. Ahead(s) \subseteq Codes \ {s}
      BY DEF Ahead
    <3> QED
      BY <3>1, WatchSizes, FS_Subset, FS_CardinalityType
  <2>8. s0 \in Ahead(s)
    <3>1. s0 \in Codes \ {s} /\ since[s0] # Never /\ due[s0] <= now /\ since[s0] <= since[s]
      BY <2>2, <2>3, <2>5 DEF Oldest, Waiting
    <3>2. due[s0] < due[s] + Size
      BY <1>0, <2>3, <2>6, <2>7, <3>1
    <3> QED
      BY <3>1, <3>2 DEF Ahead
  <2>9. Ahead(s)' \subseteq Ahead(s) \ {s0}
    <3> SUFFICES ASSUME NEW t \in Ahead(s)' PROVE t \in Ahead(s) \ {s0}
      OBVIOUS
    <3>1. t \in Codes \ {s} /\ since'[t] # Never /\ since'[t] <= since[s] /\ due'[t] < due[s] + Size
      BY <2>3 DEF Ahead, Size, Never
    <3>2. s0 \in Codes
      BY DEF Oldest
    <3>3. t # s0
      BY <1>0, <1>1, <2>3, <3>1, <3>2
    <3> QED
      BY <1>1, <3>1, <3>3 DEF Ahead
  <2>10. Cardinality(Ahead(s)') <= Cardinality(Ahead(s)) - 1
    <3>1. IsFiniteSet(Ahead(s) \ {s0}) /\ Cardinality(Ahead(s) \ {s0}) = Cardinality(Ahead(s)) - 1
      BY <2>7, <2>8, FS_RemoveElement
    <3> QED
      BY <2>9, <3>1, FS_Subset
  <2> QED
    BY <1>0, <1>3, <2>3, <2>6, <2>7, <2>10
<1> QED
  BY <1>4, <1>5

\* Among the numbers of a set one is the least (WellFoundedInduction).
LEMMA LeastNumber ==
  ASSUME NEW T, T \subseteq Nat, T # {}
  PROVE  \E x \in T : \A y \in T : x <= y
<1>1. ASSUME NEW x \in Nat, NEW y \in Nat, y < x PROVE <<y, x>> \in OpToRel(<, Nat)
  <2>1. <<y, x>> \in Nat \X Nat /\ <<y, x>>[1] < <<y, x>>[2]
    BY <1>1
  <2> QED
    BY <2>1 DEF OpToRel
<1>2. PICK x \in T : \A y \in T : <<y, x>> \notin OpToRel(<, Nat)
  BY NatLessThanWellFounded, WFMin
<1>3. ASSUME NEW y \in T PROVE x <= y
  <2>1. ~(y < x)
    BY <1>1, <1>2
  <2> QED
    BY <2>1
<1> QED
  BY <1>3

\* Where a recheck is due there is one to serve.
LEMMA DueIsServed ==
  ASSUME RecheckInv, NEW s \in Codes, Waiting(s), due[s] <= now
  PROVE  Oldest # {}
<1> DEFINE D == {t \in Codes : Waiting(t) /\ due[t] <= now}
           T == {since[t] : t \in D}
<1>1. T \subseteq Nat /\ T # {}
  BY DEF RecheckInv, WatchTyped
<1>2. PICK x \in T : \A y \in T : x <= y
  BY <1>1, LeastNumber
<1>3. PICK t \in D : x = since[t]
  BY <1>2
<1>4. t \in Oldest
  BY <1>2, <1>3 DEF Oldest
<1> QED
  BY <1>4

\* A cycle that ends in the middle of a day serves one recheck that is due.
LEMMA EndCycleKeepsRechecks ==
  ASSUME RecheckInv, EndCycle
  PROVE  RecheckInv'
<1>0. /\ Size \in Nat /\ Size <= Cooldown /\ Cooldown \in Nat /\ DayLength \in Nat \ {0} /\ Cutoff \in Nat
      /\ now \in Nat \ {0} /\ since \in [Codes -> Nat] /\ due \in [Codes -> Nat]
  BY WatchSizes DEF RecheckInv, WatchTyped
<1>1. now' = now + 1 /\ mode' = mode /\ cycle.running /\ ~cycle'.running
  BY DEF EndCycle, Idle
<1>2. Rechecking' => Rechecking
  <2>1. SUFFICES ASSUME Rechecking' PROVE Rechecking
    OBVIOUS
  <2>2. now \div DayLength = (now + 1) \div DayLength
    BY <1>0, <1>1, <2>1 DEF Rechecking, SameDay, DayOf
  <2>3. (now % DayLength) < ((now + 1) % DayLength)
    BY <1>0, <2>2, DayGoesOn
  <2>4. (now + 1) % DayLength < Cutoff /\ (now + 1) % DayLength \in Nat /\ now % DayLength \in Nat
    BY <1>0, <1>1, <2>1 DEF Rechecking, PastCutoff
  <2>5. ~PastCutoff
    BY <1>0, <2>3, <2>4 DEF PastCutoff
  <2> QED
    BY <1>1, <2>1, <2>5 DEF Rechecking
<1>3. CASE mode = "off" \/ PastCutoff \/ Oldest = {}
  <2>1. UNCHANGED <<since, due, excluded>>
    BY <1>3 DEF EndCycle
  <2>2. WatchTyped' /\ TrackedAreExcluded'
    BY <1>0, <1>1, <2>1 DEF RecheckInv, WatchTyped, TrackedAreExcluded, Tracked, Never
  <2>3. ASSUME Rechecking', NEW s \in Codes, Waiting(s)', due'[s] <= now'
        PROVE  (now' - due'[s]) + Cardinality(Ahead(s)') <= Size - 1
    <3>1. Oldest = {}
      BY <1>2, <1>3, <2>3 DEF Rechecking
    <3>2. Waiting(s)
      BY <2>1, <2>3 DEF Waiting, Never
    <3>3. due'[s] = now + 1
      BY <1>0, <1>1, <2>1, <2>3, <3>1, <3>2, DueIsServed
    <3>4. Ahead(s)' \subseteq Codes \ {s}
      BY DEF Ahead
    <3>5. Cardinality(Ahead(s)') \in Nat /\ Cardinality(Ahead(s)') <= Size - 1
      BY <3>4, OthersAreFewer
    <3> QED
      BY <1>0, <1>1, <3>3, <3>5
  <2> QED
    BY <2>2, <2>3 DEF RecheckInv, ServedSoon, Size
<1>4. CASE ~(mode = "off" \/ PastCutoff \/ Oldest = {})
  <2>1. PICK s0 \in Oldest : RecheckOne(s0)
    BY <1>4 DEF EndCycle
  <2>2. ServedSoon
    BY <1>1, <1>4 DEF Rechecking, RecheckInv
  <2>3. /\ since' \in [Codes -> Nat] /\ due' \in [Codes -> Nat]
        /\ \A t \in Codes \ {s0} : since'[t] = since[t] /\ due'[t] = due[t]
                                      /\ (t \in excluded => t \in excluded')
        /\ \/ since'[s0] = Never
           \/ since'[s0] = since[s0] /\ due'[s0] >= now + Cooldown /\ s0 \in excluded'
    BY <2>1, RecheckTimes
  <2>4. TrackedAreExcluded'
    <3> SUFFICES ASSUME NEW t \in Tracked'
                 PROVE  t \in excluded' /\ since'[t] <= now' /\ since'[t] + Cooldown <= due'[t]
      BY DEF TrackedAreExcluded
    <3>1. t \in Codes /\ since'[t] # Never
      BY DEF Tracked, Never
    <3>2. since'[t] = since[t] /\ t \in Tracked
      BY <2>3, <3>1 DEF Tracked
    <3>3. t \in excluded /\ since[t] <= now /\ since[t] + Cooldown <= due[t]
      BY <3>2 DEF RecheckInv, TrackedAreExcluded
    <3> QED
      BY <1>0, <1>1, <2>3, <3>1, <3>2, <3>3
  <2>5. ServedSoon'
    BY <1>1, <2>1, <2>2, RecheckServes DEF ServedSoon, Size
  <2> QED
    BY <1>0, <1>1, <2>3, <2>4, <2>5 DEF RecheckInv, WatchTyped
<1> QED
  BY <1>3, <1>4

LEMMA RecheckInvInit == ASSUME WatchInit PROVE RecheckInv
BY DEF WatchInit, RecheckInv, WatchTyped, TrackedAreExcluded, ServedSoon, Tracked, Waiting, Never

LEMMA NextKeepsRechecks ==
  ASSUME RecheckInv, [WatchNext]_watchVars
  PROVE  RecheckInv'
<1>1. CASE SymbolsChanged \/ \E s \in Codes : Fill(s) \/ Sell(s)
  <2>1. UNCHANGED <<now, mode, excluded, since, due, cycle>>
    BY <1>1 DEF SymbolsChanged, Fill, Sell
  <2>2. Rechecking' => Rechecking
    BY <2>1 DEF Rechecking, SameDay, PastCutoff, DayOf
  <2> QED
    BY <2>1, <2>2, TrackingStep
<1>2. CASE UNCHANGED watchVars
  <2>1. UNCHANGED <<now, mode, excluded, since, due, cycle>>
    BY <1>2 DEF watchVars
  <2>2. Rechecking' => Rechecking
    BY <2>1 DEF Rechecking, SameDay, PastCutoff, DayOf
  <2> QED
    BY <2>1, <2>2, TrackingStep
<1> QED
  BY <1>1, <1>2, ProcessKeepsRechecks, BeginCycleKeepsRechecks, EndCycleKeepsRechecks DEF WatchNext

LEMMA RecheckInvServes == ASSUME RecheckInv PROVE RechecksAreServed
<1> SUFFICES ASSUME mode # "off", cycle.running, ~PastCutoff, NEW s \in Codes, Waiting(s)
             PROVE  now < due[s] + Cardinality(Codes)
  BY DEF RechecksAreServed
<1>1. now \in Nat /\ due[s] \in Nat /\ ServedSoon /\ Size = Cardinality(Codes) /\ Size \in Nat
  BY WatchSizes DEF RecheckInv, WatchTyped, Rechecking, Size
<1>2. Ahead(s) \subseteq Codes \ {s}
  BY DEF Ahead
<1>3. Cardinality(Ahead(s)) \in Nat /\ Size >= 1
  BY <1>2, OthersAreFewer
<1>4. due[s] <= now => (now - due[s]) + Cardinality(Ahead(s)) <= Size - 1
  BY <1>1 DEF ServedSoon
<1> QED
  BY <1>1, <1>3, <1>4

\* While the rechecks are on, no excluded symbol waits for its own longer than every other
\* symbol takes one before it, whatever the polls find, callbacks change and rechecks answer
\* in between (_recheck_low_volume_exclusions: one a cycle, the oldest exclusion first).
THEOREM EveryRecheckIsServed == WatchSpec => []RechecksAreServed
<1>1. WatchInit => RecheckInv
  BY RecheckInvInit
<1>2. RecheckInv /\ [WatchNext]_watchVars => RecheckInv'
  BY NextKeepsRechecks
<1>3. RecheckInv => RechecksAreServed
  BY RecheckInvServes
<1> QED
  BY <1>1, <1>2, <1>3, PTL DEF WatchSpec

-----------------------------------------------------------------------------
(* The order of the watch list                                              *)

\* A sequence, whatever it holds
IsList(s) == s \in Seq(ToSet(s))

\* What has a length and a value at each place is one.
LEMMA ListIs ==
  ASSUME NEW n \in Nat, NEW s, DOMAIN s = 1 .. n, s = [i \in 1 .. n |-> s[i]]
  PROVE  IsList(s) /\ Len(s) = n
<1>1. \A i \in 1 .. n : s[i] \in ToSet(s)
  BY DEF ToSet
<1>2. s \in [1 .. n -> ToSet(s)]
  BY <1>1
<1> QED BY <1>2 DEF IsList

LEMMA SeqIsList ==
  ASSUME NEW A, NEW s \in Seq(A)
  PROVE  IsList(s)
<1>1. Len(s) \in Nat /\ DOMAIN s = 1 .. Len(s) /\ s = [i \in 1 .. Len(s) |-> s[i]]
  OBVIOUS
<1> QED BY <1>1, ListIs

LEMMA JoinedLists ==
  ASSUME NEW s, NEW t, IsList(s), IsList(t)
  PROVE  IsList(s \o t) /\ ToSet(s) \cup ToSet(t) \subseteq ToSet(s \o t)
<1> DEFINE A == ToSet(s) \cup ToSet(t)
<1>1. s \in Seq(ToSet(s)) /\ t \in Seq(ToSet(t))
  BY DEF IsList
<1>2. s \in Seq(A) /\ t \in Seq(A)
  <2>1. \A B, C : \A u \in Seq(B) : B \subseteq C => u \in Seq(C)
    <3> TAKE B, C
    <3> TAKE u \in Seq(B)
    <3> HAVE B \subseteq C
    <3>1. Len(u) \in Nat /\ u \in [1 .. Len(u) -> B]
      OBVIOUS
    <3>2. u \in [1 .. Len(u) -> C]
      BY <3>1
    <3> QED BY <3>1, <3>2
  <2> QED BY <1>1, <2>1
<1> HIDE DEF A
<1>3. /\ s \o t \in Seq(A) /\ Len(s \o t) = Len(s) + Len(t) /\ Len(s) \in Nat /\ Len(t) \in Nat
      /\ \A i \in 1 .. Len(s) : (s \o t)[i] = s[i]
      /\ \A i \in 1 .. Len(t) : (s \o t)[Len(s) + i] = t[i]
  BY <1>2
<1>4. IsList(s \o t)
  BY <1>3, SeqIsList
<1>5. ASSUME NEW i \in 1 .. Len(s) PROVE s[i] \in ToSet(s \o t)
  <2>1. i \in DOMAIN (s \o t)
    BY <1>3
  <2> QED BY <1>3, <2>1 DEF ToSet
<1>6. ASSUME NEW i \in 1 .. Len(t) PROVE t[i] \in ToSet(s \o t)
  <2>1. Len(s) + i \in DOMAIN (s \o t)
    BY <1>3
  <2> QED BY <1>3, <2>1 DEF ToSet
<1>7. DOMAIN s = 1 .. Len(s) /\ DOMAIN t = 1 .. Len(t)
  BY <1>1
<1> QED BY <1>4, <1>5, <1>6, <1>7 DEF ToSet

\* sorted leaves nobody out.
LEMMA ByCodeHasAll ==
  ASSUME NEW S, S \subseteq Nat, IsFiniteSet(S)
  PROVE  IsList(ByCode(S)) /\ DOMAIN ByCode(S) = 1 .. Cardinality(S) /\ S \subseteq ToSet(ByCode(S))
<1> DEFINE below(x) == {y \in S : y < x}
<1>1. Cardinality(S) \in Nat
  BY FS_CardinalityType
<1>2. ASSUME NEW x \in S
      PROVE  Cardinality(below(x)) \in Nat /\ Cardinality(below(x)) < Cardinality(S)
  <2>1. below(x) \in SUBSET S /\ below(x) # S
    <3>1. x \in Nat /\ x \notin below(x)
      OBVIOUS
    <3> QED BY <3>1
  <2> HIDE DEF below
  <2>2. IsFiniteSet(below(x)) /\ Cardinality(below(x)) <= Cardinality(S)
        /\ Cardinality(below(x)) # Cardinality(S)
    BY <2>1, FS_Subset
  <2>3. Cardinality(below(x)) \in Nat
    BY <2>2, FS_CardinalityType
  <2> QED BY <1>1, <2>2, <2>3
<1>3. ASSUME NEW x \in S, NEW z \in S, x < z PROVE Cardinality(below(x)) # Cardinality(below(z))
  <2>1. below(x) \in SUBSET below(z) /\ below(x) # below(z) /\ below(z) \in SUBSET S
    <3>1. x \in Nat /\ z \in Nat /\ x \in below(z) /\ x \notin below(x)
      BY <1>3
    <3>2. ASSUME NEW y \in below(x) PROVE y \in below(z)
      <4>1. y \in Nat /\ y < x /\ y \in S
        OBVIOUS
      <4> QED BY <1>3, <3>1, <4>1
    <3> QED BY <3>1, <3>2
  <2> HIDE DEF below
  <2>2. IsFiniteSet(below(z))
    BY <2>1, FS_Subset
  <2> QED BY <2>1, <2>2, FS_Subset
<1>4. ByCode(S) = [n \in 1 .. Cardinality(S) |-> CHOOSE x \in S : Cardinality(below(x)) = n - 1]
  BY DEF ByCode
<1> HIDE DEF below
<1>5. IsList(ByCode(S)) /\ DOMAIN ByCode(S) = 1 .. Cardinality(S)
  BY <1>1, <1>4, ListIs
<1>6. ASSUME NEW x \in S PROVE x \in ToSet(ByCode(S))
  <2> DEFINE n == Cardinality(below(x)) + 1
             z == CHOOSE z \in S : Cardinality(below(z)) = n - 1
  <2>1. n \in 1 .. Cardinality(S) /\ Cardinality(below(x)) = n - 1
    BY <1>1, <1>2
  <2>2. ByCode(S)[n] = z
    BY <1>4, <2>1
  <2> HIDE DEF n
  <2>3. z \in S /\ Cardinality(below(z)) = n - 1
    BY <2>1
  <2> HIDE DEF z
  <2>4. ~(x < z) /\ ~(z < x)
    BY <1>3, <2>1, <2>3
  <2>5. z = x
    BY <2>3, <2>4
  <2> QED BY <1>5, <2>1, <2>2, <2>5 DEF ToSet
<1> QED BY <1>5, <1>6

\* A list comprehension has every element that it is to have.
LEMMA PickedHasAll ==
  ASSUME NEW s, NEW places, places \subseteq Nat, IsFiniteSet(places)
  PROVE  IsList(Picked(s, places)) /\ \A i \in places : s[i] \in ToSet(Picked(s, places))
<1> DEFINE order == ByCode(places)
           picked == Picked(s, places)
<1>1. /\ DOMAIN order = 1 .. Cardinality(places) /\ places \subseteq ToSet(order)
      /\ Cardinality(places) \in Nat
  BY ByCodeHasAll, FS_CardinalityType
<1>2. picked = [n \in DOMAIN order |-> s[order[n]]]
  BY DEF Picked
<1> HIDE DEF order, picked
<1>3. IsList(picked)
  BY <1>1, <1>2, ListIs
<1>4. ASSUME NEW i \in places PROVE s[i] \in ToSet(picked)
  <2>1. PICK n \in DOMAIN order : order[n] = i
    BY <1>1 DEF ToSet
  <2> QED BY <1>2, <2>1 DEF ToSet
<1> QED BY <1>3, <1>4 DEF picked

LEMMA PlacesAreFinite ==
  ASSUME NEW s, IsList(s), NEW P \in SUBSET DOMAIN s
  PROVE  P \subseteq Nat /\ IsFiniteSet(P)
<1>1. Len(s) \in Nat /\ DOMAIN s = 1 .. Len(s)
  BY DEF IsList
<1>2. 1 \in Int /\ Len(s) \in Int
  BY <1>1
<1>3. IsFiniteSet(1 .. Len(s))
  BY <1>2, FS_Interval
<1> QED BY <1>1, <1>3, FS_Subset

LEMMA LeavingOutHasAll ==
  ASSUME NEW s, IsList(s), NEW S
  PROVE  IsList(LeavingOut(s, S)) /\ ToSet(s) \ S \subseteq ToSet(LeavingOut(s, S))
<1> DEFINE places == {i \in DOMAIN s : s[i] \notin S}
<1>1. places \subseteq Nat /\ IsFiniteSet(places)
  BY PlacesAreFinite
<1>2. LeavingOut(s, S) = Picked(s, places)
  BY DEF LeavingOut
<1>3. \A x \in ToSet(s) \ S : \E i \in places : x = s[i]
  BY DEF ToSet
<1> HIDE DEF places
<1>4. IsList(Picked(s, places)) /\ \A i \in places : s[i] \in ToSet(Picked(s, places))
  BY <1>1, PickedHasAll
<1> QED BY <1>2, <1>3, <1>4

LEMMA DedupIsList ==
  ASSUME NEW s, IsList(s)
  PROVE  IsList(Dedup(s))
<1> DEFINE places == {i \in DOMAIN s : \A j \in 1 .. i - 1 : s[j] # s[i]}
<1>1. places \subseteq Nat /\ IsFiniteSet(places)
  BY PlacesAreFinite
<1>2. Dedup(s) = Picked(s, places)
  BY DEF Dedup
<1> HIDE DEF places
<1> QED BY <1>1, <1>2, PickedHasAll

LEMMA JoinedHasAll ==
  ASSUME NEW s, IsList(s), NEW S \in SUBSET Codes
  PROVE  IsList(Joined(s, S)) /\ ToSet(s) \cup S \subseteq ToSet(Joined(s, S))
<1> DEFINE new == S \ ToSet(s)
<1>1. new \subseteq Nat /\ IsFiniteSet(new)
  <2>1. IsFiniteSet(Codes) /\ Codes \subseteq Nat
    BY WatchlistAssumption
  <2>2. new \in SUBSET Codes
    OBVIOUS
  <2> QED BY <2>1, <2>2, FS_Subset
<1>2. Joined(s, S) = s \o ByCode(new)
  BY DEF Joined
<1>3. S \subseteq ToSet(s) \cup new
  OBVIOUS
<1> HIDE DEF new
<1>4. IsList(ByCode(new)) /\ new \subseteq ToSet(ByCode(new))
  BY <1>1, ByCodeHasAll
<1>5. IsList(s \o ByCode(new)) /\ ToSet(s) \cup ToSet(ByCode(new)) \subseteq ToSet(s \o ByCode(new))
  BY <1>4, JoinedLists
<1> QED BY <1>2, <1>3, <1>4, <1>5

\* What the condition search reports becomes a list.
LEMMA FinalIsList ==
  ASSUME NEW c \in Callbacks, NEW banned
  PROVE  IsList(DayTargets(c.lists, c.unresolved, Manual, banned, MaxSymbols).final)
<1> DEFINE all == Append(c.lists, c.unresolved)
           found == UNION {all[i] : i \in DOMAIN all}
           day == DaySymbols(c.lists, c.unresolved)
           combined == Dedup(LeavingOut(Manual, banned) \o LeavingOut(day, banned))
           n == IF Len(combined) < MaxSymbols THEN Len(combined) ELSE MaxSymbols
<1>1. IsFiniteSet(found)
  <2>1. c.lists \in Seq(SUBSET Codes) /\ c.unresolved \in SUBSET Codes
    BY WatchlistAssumption
  <2>2. all \in Seq(SUBSET Codes)
    BY <2>1
  <2>3. \A i \in DOMAIN all : all[i] \in SUBSET Codes
    BY <2>2
  <2> HIDE DEF all
  <2>4. found \in SUBSET Codes
    BY <2>3
  <2> HIDE DEF found
  <2> QED BY <2>4, WatchlistAssumption, FS_Subset
<1>2. IsList(day)
  <2> DEFINE size == Cardinality(found)
             first(s) == CHOOSE i \in DOMAIN all : s \in all[i] /\ \A j \in 1 .. i - 1 : s \notin all[j]
             before(s) == {t \in found : first(t) < first(s) \/ (first(t) = first(s) /\ t < s)}
  <2>1. size \in Nat
    BY <1>1, FS_CardinalityType
  <2>2. day = [k \in 1 .. size |-> CHOOSE s \in found : Cardinality(before(s)) = k - 1]
    BY DEF DaySymbols
  <2> HIDE DEF size, before, found, day
  <2> QED BY <2>1, <2>2, ListIs
<1>3. IsList(Manual)
  <2>1. Manual \in Seq(Codes)
    BY WatchlistAssumption
  <2> QED BY <2>1, SeqIsList
<1>4. IsList(combined)
  <2> HIDE DEF day
  <2> QED BY <1>2, <1>3, LeavingOutHasAll, JoinedLists, DedupIsList
<1>5. DayTargets(c.lists, c.unresolved, Manual, banned, MaxSymbols).final = SubSeq(combined, 1, n)
  BY DEF DayTargets
<1> HIDE DEF combined
<1>6. Len(combined) \in Nat /\ combined \in Seq(ToSet(combined)) /\ n \in 0 .. Len(combined)
  <2>1. MaxSymbols \in Nat
    BY WatchlistAssumption
  <2> QED BY <1>4, <2>1 DEF IsList
<1> HIDE DEF n
<1>7. SubSeq(combined, 1, n) \in Seq(ToSet(combined))
  BY <1>6
<1> QED BY <1>5, <1>7, SeqIsList

\* Everything a cycle has to do with a holding: it was done, or is still to be done.
HoldingsAreDue ==
  /\ IsList(targets) /\ held \subseteq Codes
  /\ DOMAIN cycle = {"running", "left", "holds", "visited"}
  /\ cycle.running => IsList(cycle.left) /\ cycle.holds \subseteq cycle.visited \cup ToSet(cycle.left)

\* The symbols that wait are on the list that a callback makes.
LEMMA ChangedHasWaiting ==
  ASSUME held \subseteq Codes, SymbolsChanged
  PROVE  IsList(targets') /\ Tracked \subseteq ToSet(targets')
<1>1. PICK c \in Callbacks, holding \in {held, {}} :
        targets' = Merged(DayTargets(c.lists, c.unresolved, Manual, Banned, MaxSymbols).final, holding, Tracked)
  BY DEF SymbolsChanged
<1> DEFINE final == DayTargets(c.lists, c.unresolved, Manual, Banned, MaxSymbols).final
<1>2. IsList(final)
  BY FinalIsList
<1>3. holding \in SUBSET Codes /\ Tracked \in SUBSET Codes
  BY DEF Tracked
<1>4. targets' = Joined(Joined(final, holding), Tracked)
  BY <1>1 DEF Merged
<1> HIDE DEF final
<1>5. IsList(Joined(final, holding))
  BY <1>2, <1>3, JoinedHasAll
<1> QED BY <1>3, <1>4, <1>5, JoinedHasAll

LEMMA BeginCycleHasHoldings ==
  ASSUME HoldingsAreDue, BeginCycle
  PROVE  HoldingsAreDue'
<1>1. /\ cycle' = [running |-> TRUE, left |-> CycleTargets, holds |-> held, visited |-> {}]
      /\ targets' = targets /\ held' = held
      /\ IsList(targets) /\ held \subseteq Codes
  BY DEF HoldingsAreDue, BeginCycle
<1>2. IsList(CycleTargets) /\ held \subseteq ToSet(CycleTargets)
  <2> DEFINE all == Joined(targets, held)
  <2>1. IsList(all) /\ held \subseteq ToSet(all)
    BY <1>1, JoinedHasAll
  <2>2. CycleTargets = LeavingOut(all, Codes \ held) \o LeavingOut(all, held)
    BY DEF CycleTargets
  <2> HIDE DEF all
  <2>3. /\ IsList(LeavingOut(all, Codes \ held)) /\ IsList(LeavingOut(all, held))
        /\ held \subseteq ToSet(LeavingOut(all, Codes \ held))
    BY <2>1, LeavingOutHasAll
  <2> QED BY <2>2, <2>3, JoinedLists
<1> QED BY <1>1, <1>2 DEF HoldingsAreDue, IsList, ToSet

\* A cycle without the head of what is left, and with somebody who was looked at
LEMMA CycleGoesOn ==
  ASSUME NEW c, DOMAIN c = {"running", "left", "holds", "visited"}, NEW left, NEW visited
  PROVE  /\ LET d == [c EXCEPT !.left = left]
            IN  /\ DOMAIN d = DOMAIN c /\ d.left = left
                /\ d.running = c.running /\ d.holds = c.holds /\ d.visited = c.visited
         /\ LET d == [[c EXCEPT !.left = left] EXCEPT !.visited = visited]
            IN  /\ DOMAIN d = DOMAIN c /\ d.left = left
                /\ d.running = c.running /\ d.holds = c.holds /\ d.visited = visited
OBVIOUS

LEMMA HoldingsNeed ==
  ASSUME IsList(targets), targets' = targets, held \subseteq Codes, held' = held,
         DOMAIN cycle' = {"running", "left", "holds", "visited"}, IsList(cycle'.left),
         cycle'.holds \subseteq cycle'.visited \cup ToSet(cycle'.left)
  PROVE  HoldingsAreDue'
BY DEF HoldingsAreDue, IsList, ToSet

\* Of what is left, the head is looked at, or passed over because it was not held.
LEMMA ProcessLooksAtHoldings ==
  ASSUME HoldingsAreDue, Process
  PROVE  HoldingsAreDue' /\ cycle'.running
<1> DEFINE s == Head(cycle.left)
           left == Tail(cycle.left)
           rest == [cycle EXCEPT !.left = left]
<1>1. /\ cycle.running /\ cycle.left # <<>> /\ IsList(cycle.left)
      /\ cycle.holds \subseteq cycle.visited \cup ToSet(cycle.left)
      /\ DOMAIN cycle = {"running", "left", "holds", "visited"}
      /\ IsList(targets) /\ held \subseteq Codes
      /\ targets' = targets /\ held' = held
  BY DEF HoldingsAreDue, Process
<1>2. IsList(left) /\ ToSet(cycle.left) \subseteq {s} \cup ToSet(left)
  <2> DEFINE old == cycle.left
  <2>1. old \in Seq(ToSet(old)) /\ old # <<>>
    BY <1>1 DEF IsList
  <2> HIDE DEF old
  <2>2. /\ Tail(old) \in Seq(ToSet(old)) /\ Len(old) \in Nat /\ Len(old) > 0 /\ Head(old) = old[1]
        /\ Len(Tail(old)) = Len(old) - 1 /\ \A i \in 1 .. Len(old) - 1 : Tail(old)[i] = old[i + 1]
    BY <2>1
  <2>3. IsList(Tail(old))
    BY <2>2, SeqIsList
  <2>4. ASSUME NEW i \in 1 .. Len(old), i # 1 PROVE old[i] \in ToSet(Tail(old))
    <3>1. i - 1 \in 1 .. Len(old) - 1 /\ (i - 1) + 1 = i
      BY <2>2, <2>4
    <3>2. Tail(old)[i - 1] = old[i] /\ i - 1 \in DOMAIN Tail(old)
      BY <2>2, <3>1
    <3> QED BY <3>2 DEF ToSet
  <2>5. DOMAIN old = 1 .. Len(old)
    BY <2>1
  <2>6. ToSet(old) \subseteq {Head(old)} \cup ToSet(Tail(old))
    BY <2>2, <2>4, <2>5 DEF ToSet
  <2> QED BY <2>3, <2>6 DEF old
<1>3. \/ ~(s \in cycle.holds) /\ cycle' = rest
      \/ cycle' = [rest EXCEPT !.visited = rest.visited \cup {s}]
  BY DEF Process, PassedOver
<1>4. CASE ~(s \in cycle.holds) /\ cycle' = rest
  <2> HIDE DEF s, left
  <2>1. /\ DOMAIN cycle' = DOMAIN cycle /\ cycle'.left = left
        /\ cycle'.running = cycle.running /\ cycle'.holds = cycle.holds /\ cycle'.visited = cycle.visited
    BY <1>1, <1>4, CycleGoesOn
  <2>2. IsList(cycle'.left) /\ cycle'.holds \subseteq cycle'.visited \cup ToSet(cycle'.left)
    BY <1>1, <1>2, <1>4, <2>1
  <2> QED BY <1>1, <2>1, <2>2, HoldingsNeed
<1>5. CASE cycle' = [rest EXCEPT !.visited = rest.visited \cup {s}]
  <2> HIDE DEF s, left
  <2>1. rest.visited = cycle.visited
    BY <1>1, CycleGoesOn
  <2>2. cycle' = [rest EXCEPT !.visited = cycle.visited \cup {s}]
    BY <1>5, <2>1
  <2>3. /\ DOMAIN cycle' = DOMAIN cycle /\ cycle'.left = left
        /\ cycle'.running = cycle.running /\ cycle'.holds = cycle.holds
        /\ cycle'.visited = cycle.visited \cup {s}
    BY <1>1, <2>2, CycleGoesOn
  <2>4. IsList(cycle'.left) /\ cycle'.holds \subseteq cycle'.visited \cup ToSet(cycle'.left)
    <3>1. cycle.holds \subseteq cycle.visited \cup ({s} \cup ToSet(left))
      BY <1>1, <1>2
    <3> QED BY <1>2, <2>3, <3>1
  <2> QED BY <1>1, <2>3, <2>4, HoldingsNeed
<1> QED BY <1>3, <1>4, <1>5

\* A cycle ends only when nothing is left.
LEMMA EndCycleHasLooked ==
  ASSUME HoldingsAreDue, EndCycle
  PROVE  HoldingsAreDue' /\ cycle.holds \subseteq cycle.visited
<1>1. /\ cycle.running /\ cycle.left = <<>> /\ cycle' = Idle
      /\ IsList(targets) /\ held \subseteq Codes /\ targets' = targets /\ held' = held
      /\ cycle.holds \subseteq cycle.visited \cup ToSet(cycle.left)
  BY DEF HoldingsAreDue, EndCycle
<1>2. ToSet(<<>>) = {}
  BY DEF ToSet
<1>3. DOMAIN Idle = {"running", "left", "holds", "visited"} /\ ~Idle.running
  BY DEF Idle
<1> QED BY <1>1, <1>2, <1>3 DEF HoldingsAreDue, IsList, ToSet

LEMMA HoldingsInit ==
  ASSUME WatchInit
  PROVE  HoldingsAreDue
<1>1. IsList(Manual)
  <2>1. Manual \in Seq(Codes)
    BY WatchlistAssumption
  <2> QED BY <2>1, SeqIsList
<1>2. DOMAIN Idle = {"running", "left", "holds", "visited"} /\ ~Idle.running
  BY DEF Idle
<1> QED BY <1>1, <1>2 DEF WatchInit, HoldingsAreDue

\* Callbacks and the broker touch nothing that a cycle has begun with.
LEMMA OthersKeepHoldings ==
  ASSUME HoldingsAreDue, SymbolsChanged \/ (\E s \in Codes : Fill(s) \/ Sell(s)) \/ UNCHANGED watchVars
  PROVE  HoldingsAreDue' /\ cycle' = cycle
<1>1. IsList(targets) /\ held \subseteq Codes
  BY DEF HoldingsAreDue
<1>2. cycle' = cycle /\ held' \subseteq Codes
  BY <1>1 DEF SymbolsChanged, Fill, Sell, watchVars
<1>3. IsList(targets')
  <2>1. CASE SymbolsChanged
    BY <1>1, <2>1, ChangedHasWaiting
  <2>2. CASE targets' = targets
    BY <1>1, <2>2
  <2> QED BY <2>1, <2>2 DEF Fill, Sell, watchVars
<1> QED BY <1>2, <1>3 DEF HoldingsAreDue, IsList, ToSet

LEMMA NextKeepsHoldings ==
  ASSUME HoldingsAreDue, [WatchNext]_watchVars
  PROVE  /\ HoldingsAreDue'
         /\ cycle.running /\ ~cycle'.running => cycle.holds \subseteq cycle.visited
<1>1. CASE BeginCycle
  <2>1. ~cycle.running
    BY <1>1 DEF BeginCycle
  <2> QED BY <1>1, <2>1, BeginCycleHasHoldings
<1>2. CASE Process
  BY <1>2, ProcessLooksAtHoldings
<1>3. CASE EndCycle
  BY <1>3, EndCycleHasLooked
<1>4. CASE SymbolsChanged \/ (\E s \in Codes : Fill(s) \/ Sell(s)) \/ UNCHANGED watchVars
  BY <1>4, OthersKeepHoldings
<1> QED BY <1>1, <1>2, <1>3, <1>4 DEF WatchNext

LEMMA HoldingsStayDue == WatchSpec => []HoldingsAreDue
<1>1. WatchInit => HoldingsAreDue
  BY HoldingsInit
<1>2. HoldingsAreDue /\ [WatchNext]_watchVars => HoldingsAreDue'
  BY NextKeepsHoldings
<1> QED BY <1>1, <1>2, PTL DEF WatchSpec

\* Every holding of the balance is looked at in the cycle.
THEOREM EveryHoldingIsVisited == WatchSpec => HoldingsAreVisited
<1>1. HoldingsAreDue /\ [WatchNext]_watchVars
        => [cycle.running /\ ~cycle'.running => cycle.holds \subseteq cycle.visited]_watchVars
  BY NextKeepsHoldings
<1> QED BY <1>1, HoldingsStayDue, PTL DEF WatchSpec, HoldingsAreVisited

\* No callback takes a symbol that waits for its recheck off the list.
THEOREM WaitingOnesStay == WatchSpec => WaitingStaysWatched
<1> DEFINE Stays == \A s \in Codes : Waiting(s) /\ Waiting(s)' /\ s \in ToSet(targets) => s \in ToSet(targets')
<1>1. HoldingsAreDue /\ [WatchNext]_watchVars => [Stays]_watchVars
  <2> SUFFICES ASSUME HoldingsAreDue, [WatchNext]_watchVars, ~(UNCHANGED watchVars)
               PROVE  Stays
    OBVIOUS
  <2>1. CASE SymbolsChanged
    <3>1. Tracked \subseteq ToSet(targets')
      BY <2>1, ChangedHasWaiting DEF HoldingsAreDue
    <3> QED BY <3>1 DEF Waiting, Tracked
  <2>2. CASE targets' = targets
    BY <2>2
  <2> QED BY <2>1, <2>2 DEF WatchNext, BeginCycle, Process, EndCycle, Fill, Sell
<1> QED BY <1>1, HoldingsStayDue, PTL DEF WatchSpec, WaitingStaysWatched
=============================================================================
