------------------------ MODULE OrderEvidence_proofs ------------------------
(***************************************************************************)
(* Theorems about the order sent with place_order and the record of the    *)
(* status queries, for every number of shares, pages, retries, queries,    *)
(* failed writes and restarts, and every size of the queue.                *)
(***************************************************************************)
EXTENDS OrderEvidence, FiniteSetTheorems, SequenceTheorems, TLAPS

-----------------------------------------------------------------------------
(* Sequences and the records in them                                        *)

\* A sequence that is longer by one has one more element.
LEMMA OneMoreElement ==
  ASSUME NEW n \in Nat, NEW s, NEW t,
         DOMAIN s = 1 .. n, DOMAIN t = 1 .. n + 1, \A i \in 1 .. n : t[i] = s[i]
  PROVE  ToSet(t) = ToSet(s) \cup {t[n + 1]}
<1>1. 1 .. n + 1 = (1 .. n) \cup {n + 1}
  OBVIOUS
<1> QED BY <1>1 DEF ToSet

LEMMA ToSetOfAppend ==
  ASSUME NEW S, NEW s \in Seq(S), NEW x \in S
  PROVE  ToSet(Append(s, x)) = ToSet(s) \cup {x}
<1>1. /\ Len(s) \in Nat /\ DOMAIN s = 1 .. Len(s)
      /\ DOMAIN Append(s, x) = 1 .. Len(s) + 1
      /\ \A i \in 1 .. Len(s) : Append(s, x)[i] = s[i]
      /\ Append(s, x)[Len(s) + 1] = x
  OBVIOUS
<1> DEFINE t == Append(s, x)
           n == Len(s)
<1>2. /\ n \in Nat /\ DOMAIN s = 1 .. n /\ DOMAIN t = 1 .. n + 1
      /\ (\A i \in 1 .. n : t[i] = s[i]) /\ t[n + 1] = x
  BY <1>1
<1> HIDE DEF t, n
<1>3. ToSet(t) = ToSet(s) \cup {x}
  BY <1>2, OneMoreElement
<1> QED BY <1>3 DEF t

LEMMA ToSetOfHeadAndTail ==
  ASSUME NEW S, NEW s \in Seq(S), s # <<>>
  PROVE  /\ ToSet(s) = {Head(s)} \cup ToSet(Tail(s))
         /\ Head(s) \in S /\ Tail(s) \in Seq(S)
<1>1. /\ Head(s) \in S /\ Tail(s) \in Seq(S) /\ Len(Tail(s)) = Len(s) - 1
      /\ Len(s) \in Nat \ {0} /\ Head(s) = s[1]
      /\ \A i \in 1 .. Len(s) - 1 : Tail(s)[i] = s[i + 1]
  BY HeadTailProperties, EmptySeq
<1>2. DOMAIN s = 1 .. Len(s) /\ DOMAIN Tail(s) = 1 .. Len(s) - 1
  BY <1>1, LenProperties
<1>3. {Head(s)} \cup ToSet(Tail(s)) \subseteq ToSet(s)
  BY <1>1, <1>2 DEF ToSet
<1>4. ASSUME NEW i \in 1 .. Len(s) PROVE s[i] \in {Head(s)} \cup ToSet(Tail(s))
  <2>1. CASE i = 1
    BY <2>1, <1>1
  <2>2. CASE i # 1
    <3>1. i - 1 \in 1 .. Len(s) - 1 /\ s[i] = Tail(s)[i - 1]
      BY <2>2, <1>1
    <3> QED BY <3>1, <1>2 DEF ToSet
  <2> QED BY <2>1, <2>2
<1> QED BY <1>1, <1>2, <1>3, <1>4 DEF ToSet

LEMMA RecordsOfSet ==
  ASSUME NEW s
  PROVE  Records(s) = ToSet(s) \cap (Nat \ {0})
BY DEF Records, ToSet

\* A line that is appended adds its own record, if it is one.
LEMMA RecordsOfAppend ==
  ASSUME NEW s \in Seq(Int), NEW x \in Int
  PROVE  Records(Append(s, x)) = Records(s) \cup ({x} \cap (Nat \ {0}))
<1>1. ToSet(Append(s, x)) = ToSet(s) \cup {x}
  BY ToSetOfAppend
<1> QED BY <1>1, RecordsOfSet

\* A last line that does not parse is no record: without it none is missing.
LEMMA RecordsOfFront ==
  ASSUME NEW s \in Seq(Int), OnlyLastIsBad(s)
  PROVE  Front(s) \in Seq(Int) /\ Records(Front(s)) = Records(s)
<1>1. Len(s) \in Nat \ {0} /\ s[Len(s)] = Damaged /\ DOMAIN s = 1 .. Len(s)
  BY EmptySeq, LenProperties DEF OnlyLastIsBad, Last
<1>2. \A i \in 1 .. Len(s) - 1 : s[i] \in Int
  BY <1>1, ElementOfSeq
<1> DEFINE n == Len(s) - 1
           f == SubSeq(s, 1, n)
<1>3. n \in Nat
  BY <1>1
<1>4. /\ f \in Seq(Int) /\ Len(f) = IF 1 <= n THEN n - 1 + 1 ELSE 0
      /\ \A i \in 1 .. n - 1 + 1 : f[i] = s[1 + i - 1]
  BY <1>2, <1>3, SubSeqProperties
<1>5. Len(f) = n /\ \A i \in 1 .. n : s[i] = f[i]
  <2> HIDE DEF f, n
  <2>1. Len(f) = n
    BY <1>3, <1>4
  <2>2. n - 1 + 1 = n /\ \A i \in 1 .. n : 1 + i - 1 = i
    BY <1>3
  <2>3. \A i \in 1 .. n : s[1 + i - 1] = s[i]
    BY <2>2, Zenon
  <2> QED BY <1>4, <2>1, <2>2, <2>3
<1>6. DOMAIN f = 1 .. n
  BY <1>4, <1>5, LenProperties
<1>7. ToSet(s) = ToSet(f) \cup {Damaged}
  <2>1. DOMAIN s = 1 .. n + 1 /\ s[n + 1] = Damaged
    BY <1>1
  <2> HIDE DEF n, f
  <2> QED BY <2>1, <1>3, <1>5, <1>6, OneMoreElement
<1>8. f = Front(s)
  BY DEF Front
<1> HIDE DEF n, f
<1>9. /\ Records(f) = ToSet(f) \cap (Nat \ {0})
      /\ Records(s) = ToSet(s) \cap (Nat \ {0})
  BY RecordsOfSet
<1>10. Damaged \notin Nat
  BY DEF Damaged
<1> QED BY <1>4, <1>7, <1>8, <1>9, <1>10

\* The lines with the unfinished one keep their records, and the record it holds.
LEMMA RecordsWithTailLine ==
  ASSUME lines \in Seq(Int), tail \in [kind : {"none", "whole", "part", "torn"}, id : Nat]
  PROVE  /\ lines \o TailLine \in Seq(Int)
         /\ Records(lines) \subseteq Records(lines \o TailLine)
         /\ tail.kind = "whole" => {tail.id} \ {Marker} \subseteq Records(lines \o TailLine)
<1>1. CASE TailLine = <<>>
  <2>1. lines \o TailLine = lines
    BY <1>1, ConcatEmptySeq
  <2>2. tail.kind # "whole"
    BY <1>1 DEF TailLine
  <2> QED BY <2>1, <2>2
<1>2. ASSUME NEW x \in Int, TailLine = <<x>>
      PROVE  lines \o TailLine \in Seq(Int) /\ Records(lines \o TailLine) =
                Records(lines) \cup ({x} \cap (Nat \ {0}))
  <2>1. lines \o TailLine = Append(lines, x)
    BY <1>2
  <2> QED BY <2>1, RecordsOfAppend
<1>3. CASE tail.kind = "whole"
  <2>1. TailLine = <<tail.id>> /\ tail.id \in Int
    BY <1>3 DEF TailLine
  <2> QED BY <2>1, <1>2, <1>3 DEF Marker
<1>4. CASE tail.kind \in {"part", "torn"}
  <2>1. TailLine = <<Damaged>> /\ Damaged \in Int
    BY <1>4 DEF TailLine, Damaged
  <2> QED BY <2>1, <1>2, <1>4
<1>5. CASE tail.kind = "none"
  BY <1>1, <1>5 DEF TailLine
<1> QED BY <1>3, <1>4, <1>5

-----------------------------------------------------------------------------
(* The invariant of the recorder                                            *)

TailTypes == [kind : {"none", "whole", "part", "torn"}, id : Nat]

LogTypeOK ==
  /\ lines \in Seq(Int) /\ tail \in TailTypes
  /\ queue \in Seq(Nat) /\ writing \in Nat /\ dropped \in Nat
  /\ healthy \in BOOLEAN
  /\ recorder \in {"off", "on", "stopping", "ended", "dead"}
  /\ recorded \subseteq Nat \ {0} /\ IsFiniteSet(recorded)

\* The writer never has an unfinished line of its own before it: this is why
\* WriteLine finds its record whole, and damages none.
CleanEnd == recorder \in {"on", "stopping"} /\ repaired /\ healthy => tail.kind = "none"

\* What is left of the memory when the writer, or the process, has ended.
EndedIsEmpty ==
  /\ recorder \in {"ended", "dead"} => queue = <<>> /\ writing = Free
  /\ recorder = "dead" => healthy /\ recorded = {}
  /\ report = "clean" => recorder = "ended"

\* The queries that neither wait nor can be read.
Missing == recorded \ (Readable \cup ToSet(queue) \cup {writing})
MissingIsDropped == repaired => Cardinality(Missing) <= dropped

\* The query that is being made has a number.
AskedInQuery == asked \in Nat /\ (stage \in {"oso", "cntr"} => asked # 0)

LogInv == LogTypeOK /\ CleanEnd /\ EndedIsEmpty /\ MissingIsDropped

\* No step makes a record unreadable.
ReadableStays == repaired' => Readable \subseteq Readable'

-----------------------------------------------------------------------------
(* What is missing                                                          *)

LEMMA MissingIsFinite == LogTypeOK => IsFiniteSet(Missing) /\ Cardinality(Missing) \in Nat
<1> SUFFICES ASSUME LogTypeOK PROVE IsFiniteSet(Missing) /\ Cardinality(Missing) \in Nat
  OBVIOUS
<1>1. Missing \in SUBSET recorded
  BY DEF Missing
<1> QED BY <1>1, FS_Subset, FS_CardinalityType DEF LogTypeOK

\* A step after which no more queries are missing, with the count kept.
LEMMA NoMoreMissing ==
  ASSUME LogTypeOK, MissingIsDropped, UNCHANGED <<dropped, repaired>>,
         repaired => Missing' \subseteq Missing
  PROVE  MissingIsDropped'
<1> SUFFICES ASSUME repaired PROVE Cardinality(Missing') <= dropped'
  BY DEF MissingIsDropped
<1>1. Cardinality(Missing') <= Cardinality(Missing) /\ Cardinality(Missing') \in Nat
  <2>1. IsFiniteSet(Missing) /\ Missing' \in SUBSET Missing
    BY MissingIsFinite
  <2> QED BY <2>1, FS_Subset, FS_CardinalityType
<1>2. Cardinality(Missing) <= dropped
  BY DEF MissingIsDropped
<1> QED BY <1>1, <1>2, MissingIsFinite DEF LogTypeOK

\* A step after which one query more may be missing, and one more is counted.
LEMMA OneMoreMissing ==
  ASSUME LogTypeOK, MissingIsDropped, dropped' = dropped + 1, UNCHANGED repaired,
         NEW i, repaired => Missing' \subseteq Missing \cup {i}
  PROVE  MissingIsDropped'
<1> SUFFICES ASSUME repaired PROVE Cardinality(Missing') <= dropped'
  BY DEF MissingIsDropped
<1>1. /\ IsFiniteSet(Missing \cup {i})
      /\ Cardinality(Missing \cup {i}) \in Nat
      /\ Cardinality(Missing \cup {i}) <= Cardinality(Missing) + 1
  <2>1. IsFiniteSet(Missing) /\ Cardinality(Missing) \in Nat
    BY MissingIsFinite
  <2>2. /\ IsFiniteSet(Missing \cup {i})
        /\ Cardinality(Missing \cup {i}) =
             IF i \in Missing THEN Cardinality(Missing) ELSE Cardinality(Missing) + 1
    BY <2>1, FS_AddElement
  <2> QED BY <2>1, <2>2
<1>2. Cardinality(Missing') <= Cardinality(Missing \cup {i}) /\ Cardinality(Missing') \in Nat
  <2>1. Missing' \in SUBSET (Missing \cup {i})
    OBVIOUS
  <2> QED BY <2>1, <1>1, FS_Subset, FS_CardinalityType
<1>3. Cardinality(Missing) <= dropped
  BY DEF MissingIsDropped
<1> QED BY <1>1, <1>2, <1>3, MissingIsFinite DEF LogTypeOK

-----------------------------------------------------------------------------
(* The steps of the recorder                                                *)

LEMMA TakeStep ==
  ASSUME LogInv, recorder \in {"on", "stopping"}, Take
  PROVE  LogInv' /\ ReadableStays
<1>1. ToSet(queue) = {Head(queue)} \cup ToSet(Tail(queue)) /\ Head(queue) \in Nat
        /\ Tail(queue) \in Seq(Nat)
  BY ToSetOfHeadAndTail DEF LogInv, LogTypeOK, Take
<1>2. LogTypeOK'
  BY <1>1 DEF LogInv, LogTypeOK, Take, file
<1>3. Readable' = Readable
  BY DEF Take, file, Readable
<1>4. Missing' \subseteq Missing
  <2>1. ToSet(queue') = ToSet(Tail(queue)) /\ writing' = Head(queue) /\ recorded' = recorded
          /\ writing = Free
    BY DEF Take
  <2>2. 0 \notin recorded
    BY DEF LogInv, LogTypeOK
  <2> QED BY <1>1, <1>3, <2>1, <2>2 DEF Missing, Free
<1>5. MissingIsDropped'
  BY <1>4, NoMoreMissing DEF LogInv, Take
<1> QED BY <1>2, <1>3, <1>5 DEF LogInv, CleanEnd, EndedIsEmpty, ReadableStays, Take, file

LEMMA WriteLineStep ==
  ASSUME LogInv, recorder \in {"on", "stopping"}, WriteLine
  PROVE  LogInv' /\ ReadableStays
<1>1. Glued(writing) \in Int /\ writing \in Int /\ lines \in Seq(Int)
  BY DEF LogInv, LogTypeOK, Glued, Torn, Damaged
<1>2. LogTypeOK'
  BY <1>1 DEF LogInv, LogTypeOK, WriteLine, written, NoTail, TailTypes, Free
<1>3. repaired => Records(lines') = Records(lines) \cup ({writing} \cap (Nat \ {0}))
  <2>1. repaired => Glued(writing) = writing
    BY DEF LogInv, CleanEnd, WriteLine, Glued
  <2> QED BY <2>1, <1>1, RecordsOfAppend DEF WriteLine
<1>4. repaired => Readable' = Readable \cup ({writing} \cap (Nat \ {0}))
  BY <1>3 DEF LogInv, CleanEnd, WriteLine, Readable, NoTail
<1>5. repaired => Missing' \subseteq Missing
  BY <1>4 DEF LogInv, LogTypeOK, Missing, WriteLine, written
<1>6. MissingIsDropped'
  BY <1>5, NoMoreMissing DEF LogInv, WriteLine, written
<1> QED BY <1>2, <1>4, <1>6 DEF LogInv, CleanEnd, EndedIsEmpty, ReadableStays, WriteLine, written, NoTail, Free

LEMMA SkipLineStep ==
  ASSUME LogInv, recorder \in {"on", "stopping"}, SkipLine
  PROVE  LogInv' /\ ReadableStays
<1>1. LogTypeOK'
  BY DEF LogInv, LogTypeOK, SkipLine, written, file, Free
<1>2. Readable' = Readable
  BY DEF SkipLine, file, Readable
<1>3. Missing' \subseteq Missing \cup {writing}
  BY <1>2 DEF Missing, SkipLine, written
<1>4. MissingIsDropped'
  BY <1>3, OneMoreMissing DEF LogInv, SkipLine, written
<1> QED BY <1>1, <1>2, <1>4 DEF LogInv, CleanEnd, EndedIsEmpty, ReadableStays, SkipLine, written, file

LEMMA WriteFailsStep ==
  ASSUME LogInv, recorder \in {"on", "stopping"}, WriteFails
  PROVE  LogInv' /\ ReadableStays
<1>1. PICK rest \in Remains(writing) : CutBack(rest) \/ RotateAway(rest)
  BY DEF WriteFails
<1>2. rest \in TailTypes /\ <<>> \in Seq(Int) /\ NoTail \in TailTypes
  BY DEF Remains, TailTypes, LogInv, LogTypeOK, NoTail
<1>3. lines' \in Seq(Int) /\ tail' \in TailTypes /\ healthy' \in BOOLEAN
  BY <1>1, <1>2 DEF CutBack, RotateAway, LogInv, LogTypeOK
<1>4. LogTypeOK'
  BY <1>3 DEF LogInv, LogTypeOK, WriteFails, written, Free
<1>5. ASSUME repaired PROVE Readable \subseteq Readable' /\ (healthy' => tail'.kind = "none")
  <2>1. healthy /\ tail.kind = "none"
    BY <1>5 DEF LogInv, CleanEnd, WriteFails
  <2>2. Readable = Records(lines) \cup aside
    BY <2>1 DEF Readable
  <2>3. CASE CutBack(rest)
    BY <2>1, <2>3 DEF CutBack, Readable
  <2>4. CASE aside' = aside \cup Records(lines) /\ tail' = NoTail
    BY <2>2, <2>4 DEF Readable, NoTail
  <2>5. CASE lines' = lines /\ aside' = aside /\ healthy' = FALSE
    BY <2>2, <2>5 DEF Readable
  <2> QED BY <1>1, <2>3, <2>4, <2>5 DEF RotateAway
<1>6. MissingIsDropped'
  <2>1. repaired => Missing' \subseteq Missing \cup {writing}
    BY <1>5 DEF Missing, WriteFails, written
  <2> QED BY <2>1, OneMoreMissing DEF LogInv, WriteFails, written
<1> QED BY <1>4, <1>5, <1>6 DEF LogInv, CleanEnd, EndedIsEmpty, ReadableStays, WriteFails, written, Free

LEMMA WriteMarkerStep ==
  ASSUME LogInv, WriteMarker
  PROVE  LogInv' /\ ReadableStays
<1>1. Glued(Marker) \in Int /\ lines \in Seq(Int) /\ NoTail \in TailTypes /\ Remains(Marker) \subseteq TailTypes
  BY DEF LogInv, LogTypeOK, Glued, Torn, Damaged, Marker, Remains, TailTypes, NoTail
<1>2. /\ lines' = lines \/ lines' = Append(lines, Glued(Marker))
      /\ tail' \in TailTypes
      /\ lines' = lines => tail.kind = "none" \/ tail' = tail \/ tail' = NoTail
  BY <1>1 DEF WriteMarker, LogInv, LogTypeOK
<1>3. lines' \in Seq(Int) /\ Records(lines) \subseteq Records(lines')
  <2>1. CASE lines' = Append(lines, Glued(Marker))
    <3> HIDE DEF Glued
    <3> QED BY <1>1, <2>1, RecordsOfAppend
  <2> QED BY <1>1, <1>2, <2>1
<1>4. LogTypeOK'
  BY <1>2, <1>3 DEF LogInv, LogTypeOK, WriteMarker
<1>5. repaired => Readable \subseteq Readable'
  <2>1. CASE repaired /\ healthy
    <3>1. tail.kind = "none"
      BY <2>1 DEF LogInv, CleanEnd, WriteMarker
    <3> QED BY <1>3, <3>1 DEF Readable, WriteMarker
  <2>2. CASE ~healthy
    BY <1>3, <2>2 DEF Readable, WriteMarker
  <2> QED BY <2>1, <2>2
<1>6. MissingIsDropped'
  <2>1. repaired => Missing' \subseteq Missing
    BY <1>5 DEF Missing, WriteMarker
  <2> QED BY <2>1, NoMoreMissing DEF LogInv, WriteMarker
<1> QED BY <1>4, <1>5, <1>6 DEF LogInv, CleanEnd, EndedIsEmpty, ReadableStays, WriteMarker

\* The writer thread, whatever it does next.
LEMMA WriterStep ==
  ASSUME LogInv, Writer
  PROVE  LogInv' /\ ReadableStays
<1>1. recorder \in {"on", "stopping"}
  BY DEF Writer
<1> QED BY <1>1, TakeStep, WriteLineStep, SkipLineStep, WriteFailsStep, WriteMarkerStep DEF Writer

\* A step that leaves the file, the queue and the counts alone.
LEMMA IdleStep ==
  ASSUME LogInv, UNCHANGED <<file, queue, writing, healthy, dropped, recorded, repaired>>
  PROVE  MissingIsDropped' /\ ReadableStays
<1>1. Readable' = Readable
  BY DEF file, Readable
<1>2. Missing' \subseteq Missing
  BY <1>1 DEF Missing
<1> QED BY <1>1, <1>2, NoMoreMissing DEF LogInv, ReadableStays

LEMMA StopStep ==
  ASSUME LogInv, Stop
  PROVE  LogInv' /\ ReadableStays
<1>1. MissingIsDropped' /\ ReadableStays
  BY IdleStep DEF Stop
<1> QED BY <1>1 DEF LogInv, LogTypeOK, CleanEnd, EndedIsEmpty, Stop, file

LEMMA JoinStep ==
  ASSUME LogInv, Join
  PROVE  LogInv' /\ ReadableStays
<1>1. MissingIsDropped' /\ ReadableStays
  BY IdleStep DEF Join
<1> QED BY <1>1 DEF LogInv, LogTypeOK, CleanEnd, EndedIsEmpty, Join, Clean, file

\* A line that the writer had begun may stay behind; what could be read still can.
LEMMA DieStep ==
  ASSUME LogInv, Die
  PROVE  LogInv' /\ ReadableStays
<1>1. tail' \in TailTypes /\ (tail.kind = "none" \/ tail' = tail)
  BY DEF LogInv, LogTypeOK, Die, Cut, Remains, TailTypes, NoTail, Marker
<1>2. Readable \subseteq Readable'
  BY <1>1 DEF Readable, Die
<1>3. LogTypeOK'
  <2>1. <<>> \in Seq(Nat) /\ IsFiniteSet({})
    BY FS_EmptySet
  <2> QED BY <1>1, <2>1 DEF LogInv, LogTypeOK, Die, Free
<1>4. MissingIsDropped'
  <2>1. Missing' = {}
    BY DEF Missing, Die
  <2>2. Cardinality({}) = 0
    BY FS_EmptySet
  <2> QED BY <2>1, <2>2 DEF MissingIsDropped, Die
<1> QED BY <1>2, <1>3, <1>4 DEF LogInv, CleanEnd, EndedIsEmpty, ReadableStays, Die

\* The next process: a file that could be opened has no unfinished line any more,
\* and has the record of the line that lacked its newline only.
LEMMA StartStep ==
  ASSUME LogInv, Start
  PROVE  LogInv' /\ ReadableStays
<1> DEFINE all == lines \o TailLine
<1>1. /\ all \in Seq(Int) /\ Records(lines) \subseteq Records(all)
      /\ tail.kind = "whole" => {tail.id} \ {Marker} \subseteq Records(all)
  BY RecordsWithTailLine DEF LogInv, LogTypeOK, TailTypes
<1>2. OnlyLastIsBad(all) => Front(all) \in Seq(Int) /\ Records(Front(all)) = Records(all)
  BY <1>1, RecordsOfFront
<1>3. healthy /\ recorded = {} /\ recorded' = {} /\ queue' = queue /\ writing' = writing
        /\ dropped' = dropped /\ aside' = aside /\ report' = report
        /\ queue = <<>> /\ writing = Free /\ report # "clean"
        /\ recorder' \in {"off", "on"} /\ healthy' \in BOOLEAN
  BY DEF LogInv, EndedIsEmpty, Start, Open
<1>4. \/ lines' = lines /\ tail' = tail
      \/ tail' = NoTail /\ lines' = all
      \/ tail' = NoTail /\ OnlyLastIsBad(all) /\ lines' = Front(all)
  BY DEF Start, Open, Repair
<1>5. LogTypeOK'
  <2>1. lines' \in Seq(Int) /\ tail' \in TailTypes
    <3> HIDE DEF all
    <3> QED BY <1>1, <1>2, <1>4 DEF LogInv, LogTypeOK, NoTail, TailTypes
  <2> QED BY <1>3, <2>1 DEF LogInv, LogTypeOK
<1>6. CleanEnd'
  <2>1. recorder' = "on" /\ repaired' /\ healthy' => tail'.kind = "none"
    <3>1. PICK how \in {"read", "unread", "unchecked"} :
            LET refused == how # "unread" /\ Undecodable
            IN /\ recorder' = IF refused THEN "off" ELSE "on"
               /\ healthy' = (how # "unchecked" \/ refused)
               /\ ~refused /\ how = "read" => Repair
               /\ repaired' = (how = "read" \/ tail'.kind = "none")
      BY DEF Start, Open
    <3>2. CASE how = "read"
      BY <3>1, <3>2 DEF Repair, NoTail
    <3>3. CASE how = "unread"
      BY <3>1, <3>3
    <3>4. CASE how = "unchecked"
      BY <3>1, <3>4
    <3> QED BY <3>2, <3>3, <3>4
  <2> QED BY <1>3, <2>1 DEF CleanEnd
<1>7. MissingIsDropped'
  <2>1. Missing' = {}
    BY <1>3 DEF Missing
  <2> QED BY <1>3, <2>1, FS_EmptySet DEF MissingIsDropped, LogInv, LogTypeOK
<1>8. ReadableStays
  <2>1. repaired' => tail'.kind = "none" \/ healthy'
    BY DEF Start, Open, Repair, NoTail
  <2> HIDE DEF all
  <2>2. CASE lines' = lines /\ tail' = tail
    BY <1>3, <2>1, <2>2 DEF Readable, ReadableStays
  <2>3. CASE Records(lines') = Records(all)
    BY <1>1, <1>3, <2>3 DEF Readable, ReadableStays
  <2> QED BY <1>2, <1>4, <2>2, <2>3
<1> QED BY <1>3, <1>5, <1>6, <1>7, <1>8 DEF LogInv, EndedIsEmpty

\* The trading thread hands over the record of query i.
LEMMA RecordStep ==
  ASSUME LogInv, NEW i \in Nat \ {0}, recorder \in {"on", "off"}, Record(i)
  PROVE  LogInv' /\ ReadableStays
<1>1. CASE recorder = "off"
  <2>1. UNCHANGED logVars
    BY <1>1 DEF Record
  <2>2. MissingIsDropped' /\ ReadableStays
    BY <2>1, IdleStep DEF logVars, memory
  <2> QED BY <2>1, <2>2 DEF LogInv, LogTypeOK, CleanEnd, EndedIsEmpty, logVars, memory, file
<1>2. CASE recorder = "on"
  <2>1. Readable' = Readable
    BY <1>2 DEF Record, Readable, file
  <2>2. IsFiniteSet(recorded \cup {i})
    BY FS_AddElement DEF LogInv, LogTypeOK
  <2>3. CASE Len(queue) < MaxQueue
    <3>1. ToSet(queue') = ToSet(queue) \cup {i} /\ queue' \in Seq(Nat)
      <4>1. queue' = Append(queue, i) /\ queue \in Seq(Nat) /\ i \in Nat
        BY <1>2, <2>3 DEF Record, LogInv, LogTypeOK
      <4> QED BY <4>1, ToSetOfAppend
    <3>2. Missing' \subseteq Missing
      BY <1>2, <2>1, <3>1 DEF Record, Missing
    <3>3. MissingIsDropped'
      BY <1>2, <2>3, <3>2, NoMoreMissing DEF Record, LogInv
    <3>9. LogTypeOK'
      BY <1>2, <2>2, <2>3, <3>1, <3>3 DEF LogInv, LogTypeOK, Record, file
    <3>10. CleanEnd' /\ EndedIsEmpty'
      BY <1>2 DEF LogInv, CleanEnd, EndedIsEmpty, Record, file
    <3> QED BY <2>1, <3>9, <3>10, <3>3 DEF LogInv, ReadableStays
  <2>4. CASE ~(Len(queue) < MaxQueue)
    <3>1. Missing' \subseteq Missing \cup {i}
      BY <1>2, <2>1, <2>4 DEF Record, Missing
    <3>2. MissingIsDropped'
      BY <1>2, <2>4, <3>1, OneMoreMissing DEF Record, LogInv
    <3>9. LogTypeOK'
      <4>1. queue' = queue /\ dropped' = dropped + 1 /\ recorded' = recorded \cup {i}
              /\ UNCHANGED <<lines, tail, writing, healthy, recorder>>
        BY <1>2, <2>4 DEF Record, file
      <4> QED BY <2>2, <4>1 DEF LogInv, LogTypeOK
    <3>10. CleanEnd' /\ EndedIsEmpty'
      BY <1>2 DEF LogInv, CleanEnd, EndedIsEmpty, Record, file
    <3> QED BY <2>1, <3>9, <3>10, <3>2 DEF LogInv, ReadableStays
  <2> QED BY <2>3, <2>4
<1> QED BY <1>1, <1>2

-----------------------------------------------------------------------------
(* The recorder beside the queries                                          *)

EvidenceInv == LogInv /\ AskedInQuery

LEMMA EvidenceInit == Init => EvidenceInv
<1> SUFFICES ASSUME Init PROVE EvidenceInv
  OBVIOUS
<1>1. LogTypeOK
  <2>1. <<>> \in Seq(Int) /\ <<>> \in Seq(Nat) /\ IsFiniteSet({})
    BY FS_EmptySet
  <2> QED BY <2>1 DEF Init, LogInit, LogTypeOK, TailTypes, NoTail, Free
<1>2. MissingIsDropped
  <2>1. Missing = {} /\ dropped = 0
    BY DEF Init, LogInit, Missing
  <2> QED BY <2>1, FS_EmptySet DEF MissingIsDropped
<1> QED BY <1>1, <1>2
      DEF Init, LogInit, BrokerInit, EvidenceInv, LogInv, CleanEnd, EndedIsEmpty, AskedInQuery, NoTail

\* The steps of the trading thread and of the exchange leave the recorder alone.
LEMMA QuietStep ==
  ASSUME LogInv, UNCHANGED logVars
  PROVE  LogInv' /\ ReadableStays
<1>1. MissingIsDropped' /\ ReadableStays
  BY IdleStep DEF logVars, memory
<1> QED BY <1>1 DEF LogInv, LogTypeOK, CleanEnd, EndedIsEmpty, logVars, memory, file

LEMMA EvidenceStep ==
  ASSUME EvidenceInv, [Next]_vars
  PROVE  EvidenceInv' /\ ReadableStays
<1>1. LogInv /\ AskedInQuery
  BY DEF EvidenceInv
<1>2. CASE Trade
  <2>1. AskedInQuery'
    BY <1>1, <1>2 DEF Trade, Exchange, OtherOrder, Fill, Cancel, call, AskedInQuery
  <2> QED BY <1>1, <1>2, <2>1, QuietStep DEF Trade, EvidenceInv
<1>3. CASE Order
  <2>1. AskedInQuery'
    BY <1>1, <1>3 DEF Order, PlaceOrder, Send, AskedInQuery
  <2> QED BY <1>1, <1>3, <2>1, QuietStep DEF Order, EvidenceInv
<1>4. CASE Ask
  <2>1. AskedInQuery'
    BY <1>1, <1>4 DEF Ask, AskedInQuery
  <2> QED BY <1>1, <1>4, <2>1, QuietStep DEF Ask, EvidenceInv
<1>5. CASE Read
  <2>1. AskedInQuery'
    BY <1>1, <1>5 DEF Read, ReadPage, AskedInQuery
  <2> QED BY <1>1, <1>5, <2>1, QuietStep DEF Read, EvidenceInv
<1>6. CASE Finish
  <2>1. asked \in Nat \ {0} /\ asked' = asked /\ stage' = "idle"
    BY <1>1, <1>6 DEF Finish, QueryEnds, Judge, QueryFails, AskedInQuery
  <2>2. recorder \in {"on", "off"} /\ Record(asked)
    BY <1>6 DEF Finish, Running
  <2> QED BY <1>1, <2>1, <2>2, RecordStep DEF EvidenceInv, AskedInQuery
<1>7. CASE Keep
  <2>1. AskedInQuery'
    BY <1>1, <1>7 DEF Keep, brokerVars, call, AskedInQuery
  <2> QED BY <1>1, <1>7, <2>1, WriterStep DEF Keep, EvidenceInv
<1>8. CASE Shutdown
  <2>1. AskedInQuery'
    BY <1>1, <1>8 DEF Shutdown, brokerVars, call, AskedInQuery
  <2> QED BY <1>1, <1>8, <2>1, StopStep, JoinStep DEF Shutdown, EvidenceInv
<1>9. CASE Kill
  <2>1. AskedInQuery'
    BY <1>1, <1>9 DEF Kill, BrokerDies, AskedInQuery
  <2> QED BY <1>1, <1>9, <2>1, DieStep DEF Kill, EvidenceInv
<1>10. CASE Restart
  <2>1. AskedInQuery'
    BY <1>1, <1>10 DEF Restart, brokerVars, call, AskedInQuery
  <2> QED BY <1>1, <1>10, <2>1, StartStep DEF Restart, EvidenceInv
<1>11. CASE UNCHANGED vars
  <2>1. AskedInQuery'
    BY <1>1, <1>11 DEF vars, brokerVars, call, AskedInQuery
  <2> QED BY <1>1, <1>11, <2>1, QuietStep DEF vars, EvidenceInv
<1> QED BY <1>2, <1>3, <1>4, <1>5, <1>6, <1>7, <1>8, <1>9, <1>10, <1>11 DEF Next

\* After a clean shutdown nothing waits, so the two counts are the same.
LEMMA CountIsRight == LogInv => (repaired => NothingVanishes)
<1> SUFFICES ASSUME LogInv, repaired PROVE NothingVanishes
  OBVIOUS
<1>1. Cardinality(Missing) <= dropped
  BY DEF LogInv, MissingIsDropped
<1>2. CASE report = "clean"
  <2>1. queue = <<>> /\ writing = 0 /\ 0 \notin recorded
    BY <1>2 DEF LogInv, LogTypeOK, EndedIsEmpty, Free
  <2>2. ToSet(<<>>) = {}
    BY DEF ToSet
  <2>3. recorded \ (Readable \cup {}) = Missing
    BY <2>1, <2>2 DEF Missing
  <2> QED BY <1>1, <1>2, <2>3 DEF NothingVanishes
<1>3. CASE report # "clean"
  <2>1. recorded \ (Readable \cup (ToSet(queue) \cup {writing})) = Missing
    BY DEF Missing
  <2> QED BY <1>1, <1>3, <2>1 DEF NothingVanishes
<1> QED BY <1>2, <1>3

\* Whatever fails, dies or is repaired, a record that can be read is never lost and
\* the count of dropped records covers every query that left none
\* (OrderStatusObservationRecorder), for any queue, bounds and number of restarts.
THEOREM EvidenceKept == Spec => EvidenceIsKept
<1>1. EvidenceInv /\ [Next]_vars => EvidenceInv'
  BY EvidenceStep
<1>2. EvidenceInv /\ EvidenceInv' /\ [Next]_vars
        => [repaired' => Readable \subseteq Readable' /\ NothingVanishes']_logVars
  <2> SUFFICES ASSUME EvidenceInv, EvidenceInv', [Next]_vars, repaired'
               PROVE  Readable \subseteq Readable' /\ NothingVanishes'
    OBVIOUS
  <2>1. ReadableStays
    BY EvidenceStep
  <2>2. (LogInv => (repaired => NothingVanishes))'
    BY CountIsRight, PTL
  <2> QED BY <2>1, <2>2 DEF ReadableStays, EvidenceInv
<1> QED BY <1>1, <1>2, EvidenceInit, PTL DEF Spec, EvidenceIsKept

-----------------------------------------------------------------------------
(* One order per request                                                    *)

\* Until the call of place_order is over nothing is registered: the one answer
\* that is sent again is a refusal.
OrderInv ==
  /\ stage \in {"new", "send"} => own = {} /\ result = "none"
  /\ own = {} \/ \E i : own = {i}
  /\ result = "rejected" => own = {}
  /\ result = "accepted" => own # {}

LEMMA SendStep ==
  ASSUME OrderInv, Send
  PROVE  OrderInv'
<1>1. own = {} /\ result = "none"
  BY DEF OrderInv, Send
<1>2. PICK r \in Replies, yes \in BOOLEAN :
        /\ yes \in Registers(r)
        /\ own' = IF yes THEN own \cup {Len(book) + 1} ELSE own
        /\ \/ Retried(r) /\ UNCHANGED <<stage, result>>
           \/ stage' = "idle" /\ result' = Outcome(r)
  BY DEF Send, Registers
<1>3. own' = {} \/ \E i : own' = {i}
  BY <1>1, <1>2
<1>4. r \in {"refused", "limit"} => own' = {}
  BY <1>1, <1>2 DEF Registers
<1>5. r = "ok" => own' # {}
  BY <1>2 DEF Registers
<1>6. CASE Retried(r) /\ UNCHANGED <<stage, result>>
  BY <1>1, <1>4, <1>6 DEF OrderInv, Retried
<1>7. CASE stage' = "idle" /\ result' = Outcome(r)
  BY <1>3, <1>4, <1>5, <1>7 DEF OrderInv, Outcome, Replies
<1> QED BY <1>2, <1>6, <1>7

LEMMA OrderStep == OrderInv /\ [Next]_vars => OrderInv'
<1> SUFFICES ASSUME OrderInv, [Next]_vars PROVE OrderInv'
  OBVIOUS
<1>1. CASE Order
  BY <1>1, SendStep DEF Order, PlaceOrder, exchange, OrderInv
<1>2. CASE Trade
  BY <1>2 DEF Trade, Exchange, OtherOrder, Fill, Cancel, call, OrderInv
<1>3. CASE Ask \/ Read \/ Finish
  <2>1. UNCHANGED <<own, result>> /\ stage' \notin {"new", "send"}
    BY <1>3 DEF Ask, QueryStatus, Read, ReadPage, Finish, QueryEnds, Judge, QueryFails, exchange
  <2> QED BY <2>1 DEF OrderInv
<1>4. CASE Keep \/ Shutdown \/ Restart \/ UNCHANGED vars
  BY <1>4 DEF Keep, Shutdown, Restart, vars, brokerVars, call, exchange, OrderInv
<1>5. CASE Kill
  BY <1>5 DEF Kill, BrokerDies, exchange, OrderInv
<1> QED BY <1>1, <1>2, <1>3, <1>4, <1>5 DEF Next

\* One call of place_order, retried however often, registers at most one order, and
\* what it returns is true of it (kiwoom_broker.py, place_order), for any number of
\* retries.
THEOREM OneOrder == Spec => []OneOrderPerRequest
<1>1. Init => OrderInv
  BY DEF Init, BrokerInit, OrderInv
<1>2. OrderInv => OneOrderPerRequest
  <2> SUFFICES ASSUME OrderInv PROVE Cardinality(own) <= 1
    BY DEF OrderInv, OneOrderPerRequest
  <2>1. CASE own = {}
    BY <2>1, FS_EmptySet
  <2>2. CASE \E i : own = {i}
    BY <2>2, FS_Singleton
  <2> QED BY <2>1, <2>2 DEF OrderInv
<1> QED BY <1>1, <1>2, OrderStep, PTL DEF Spec

-----------------------------------------------------------------------------
(* The judgement of a query                                                  *)

Worths == {NoRow, "full", "unfilled", "unclear"}

\* No order trades more than its shares, and one that is complete is not open.
OrderRecord == [qty : Nat, filled : Nat, live : BOOLEAN]
OrderType ==
  {o \in OrderRecord :
     o.filled <= o.qty /\ (o.live => o.filled < o.qty)}

BookOK == book \in Seq(OrderType)

\* What is known while the program reads, or does not.
QueryOK ==
  /\ tracked \in 0 .. Len(book) /\ page \in Nat \ {0} /\ traded \in BOOLEAN
  /\ found \in [oso : Worths, cntr : Worths]
  /\ stage \in {"oso", "cntr"} => tracked # 0 /\ verdict = "none"
  /\ stage \in {"new", "send"} => verdict = "none"
  /\ verdict # "none" => tracked # 0
  /\ stage # "cntr" => found.cntr = NoRow
  /\ stage = "oso" \/ (stage = "cntr" /\ page = 1) => ~traded

\* The order is on the list of the fills, on page p or after it.
Ahead(p) == book[tracked].filled > 0 /\ Place("cntr", tracked) > (p - 1) * PageSize

(***************************************************************************)
(* Why no fill is missed: the list of the fills only grows and grows at its   *)
(* head, so an order goes to later pages while the pages are read, and one    *)
(* that was on the list when the reading began, and was not met, is ahead.    *)
(***************************************************************************)
FillsAreRead ==
  /\ found.cntr = "full" => book[tracked].filled = book[tracked].qty
  /\ stage = "cntr" /\ traded /\ found.cntr = NoRow => Ahead(page)

VerdictInv == BookOK /\ QueryOK /\ FillsAreRead /\ VerdictIsTrue

LEMMA OrderIsTyped ==
  ASSUME NEW b \in Seq(OrderType), NEW i \in DOMAIN b
  PROVE  /\ i \in 1 .. Len(b) /\ b[i] \in OrderType
         /\ b[i].qty \in Nat /\ b[i].filled \in Nat /\ b[i].filled <= b[i].qty
         /\ b[i].live => b[i].filled < b[i].qty
<1>1. i \in 1 .. Len(b) /\ b[i] \in OrderType
  BY ElementOfSeq
<1> QED BY <1>1 DEF OrderType, OrderRecord

LEMMA OrderIsAdded ==
  ASSUME NEW b \in Seq(OrderType), NEW o \in OrderType
  PROVE  /\ Append(b, o) \in Seq(OrderType) /\ Len(Append(b, o)) = Len(b) + 1
         /\ Len(b) \in Nat
         /\ \A i \in DOMAIN b : i \in DOMAIN Append(b, o) /\ Append(b, o)[i] = b[i]
OBVIOUS

LEMMA OrderIsChanged ==
  ASSUME NEW b \in Seq(OrderType), NEW i \in DOMAIN b, NEW o \in OrderType
  PROVE  LET c == [b EXCEPT ![i] = o]
         IN  /\ c \in Seq(OrderType) /\ Len(c) = Len(b) /\ Len(b) \in Nat
             /\ DOMAIN c = DOMAIN b /\ c[i] = o
             /\ \A j \in DOMAIN b : j # i => c[j] = b[j]
BY ExceptSeq

LEMMA OrderIsFilled ==
  ASSUME NEW q \in OrderRecord, NEW n \in Nat
  PROVE  LET o == [q EXCEPT !.filled = n, !.live = n < q.qty]
         IN  o \in OrderRecord /\ o.qty = q.qty /\ o.filled = n /\ (o.live => n < q.qty)
<1>1. CASE n < q.qty
  <2>1. (n < q.qty) = TRUE
    BY <1>1, Zenon
  <2>2. [q EXCEPT !.filled = n, !.live = n < q.qty] = [q EXCEPT !.filled = n, !.live = TRUE]
    BY <2>1, Zenon
  <2>3. LET o == [q EXCEPT !.filled = n, !.live = TRUE]
        IN  o \in OrderRecord /\ o.qty = q.qty /\ o.filled = n
    BY DEF OrderRecord
  <2> QED BY <1>1, <2>2, <2>3, Zenon
<1>2. CASE ~(n < q.qty)
  <2>1. (n < q.qty) = FALSE
    BY <1>2
  <2>2. [q EXCEPT !.filled = n, !.live = n < q.qty] = [q EXCEPT !.filled = n, !.live = FALSE]
    BY <2>1, Zenon
  <2>3. LET o == [q EXCEPT !.filled = n, !.live = FALSE]
        IN  o \in OrderRecord /\ o.qty = q.qty /\ o.filled = n /\ ~o.live
    BY DEF OrderRecord
  <2> QED BY <2>2, <2>3, Zenon
<1> QED BY <1>1, <1>2

LEMMA ShownIsFinite ==
  ASSUME BookOK, NEW l
  PROVE  /\ IsFiniteSet(Shown(l)) /\ Cardinality(Shown(l)) \in Nat
         /\ \A i : /\ IsFiniteSet({j \in Shown(l) : j >= i})
                   /\ Place(l, i) \in Nat /\ Place(l, i) <= Cardinality(Shown(l))
<1>1. DOMAIN book = 1 .. Len(book) /\ Len(book) \in Nat
  BY DEF BookOK
<1>2. IsFiniteSet(1 .. Len(book))
  BY <1>1, FS_Interval
<1>3. Shown(l) \in SUBSET (1 .. Len(book))
  BY <1>1 DEF Shown
<1>4. IsFiniteSet(Shown(l)) /\ Cardinality(Shown(l)) \in Nat
  BY <1>2, <1>3, FS_Subset, FS_CardinalityType
<1>5. ASSUME NEW i
      PROVE  /\ IsFiniteSet({j \in Shown(l) : j >= i})
             /\ Place(l, i) \in Nat /\ Place(l, i) <= Cardinality(Shown(l))
  <2>1. {j \in Shown(l) : j >= i} \in SUBSET Shown(l)
    OBVIOUS
  <2> QED BY <1>4, <2>1, FS_Subset, FS_CardinalityType DEF Place
<1> QED BY <1>4, <1>5

\* An order that is on the list has a place on it.
LEMMA PlaceIsPositive ==
  ASSUME BookOK, NEW l, NEW i \in Shown(l)
  PROVE  Place(l, i) \in Nat \ {0}
<1> DEFINE S == {j \in Shown(l) : j >= i}
<1>1. i \in S
  BY DEF Shown, BookOK
<1>2. IsFiniteSet(S) /\ Place(l, i) = Cardinality(S)
  BY ShownIsFinite DEF Place
<1>3. Cardinality(S) # 0
  <2> HIDE DEF S
  <2> QED BY <1>1, <1>2, FS_EmptySet
<1> QED BY <1>3, <1>2, ShownIsFinite

\* An order on the page asked for or after it, that is not on the page, is after it.
LEMMA AfterThePage ==
  ASSUME VerdictInv, Ahead(page), tracked \in DOMAIN book
  PROVE  /\ tracked \notin PageRows("cntr") => Ahead(page + 1)
         /\ Ahead(page + 1) => More("cntr")
<1>1. tracked \in Shown("cntr")
  BY DEF Ahead, Shown
<1>2. /\ Place("cntr", tracked) \in Nat /\ Cardinality(Shown("cntr")) \in Nat
      /\ Place("cntr", tracked) <= Cardinality(Shown("cntr"))
  BY ShownIsFinite DEF VerdictInv
<1>3. page - 1 + 1 = page /\ page + 1 - 1 = page /\ page \in Nat /\ PageSize \in Nat
  BY BrokerAssumption DEF VerdictInv, QueryOK
<1>4. (page - 1) * PageSize \in Int /\ page * PageSize \in Int
  BY <1>3
<1> DEFINE lo == (page - 1) * PageSize
           hi == page * PageSize
<1>5. Ahead(page + 1) <=> book[tracked].filled > 0 /\ Place("cntr", tracked) > hi
  BY <1>3 DEF Ahead
<1>6. tracked \in PageRows("cntr") <=> Place("cntr", tracked) \in lo + 1 .. hi
  BY <1>1 DEF PageRows
<1>7. More("cntr") <=> Cardinality(Shown("cntr")) > hi
  BY DEF More
<1>8. Place("cntr", tracked) > lo /\ book[tracked].filled > 0
  BY DEF Ahead
<1>9. lo \in Int /\ hi \in Int
  BY <1>4
<1> HIDE DEF lo, hi
<1> QED BY <1>2, <1>5, <1>6, <1>7, <1>8, <1>9

\* What had traded when the first page of the fills is read is on the list.
LEMMA TradedIsAhead ==
  ASSUME VerdictInv, stage = "cntr", TradedBefore, found.cntr = NoRow
  PROVE  Ahead(page)
<1>1. CASE page = 1
  <2>1. tracked \in Shown("cntr") /\ book[tracked].filled > 0
    BY <1>1 DEF TradedBefore, Shown, VerdictInv, QueryOK, BookOK
  <2>2. Place("cntr", tracked) \in Nat \ {0}
    BY <2>1, PlaceIsPositive DEF VerdictInv
  <2>3. (page - 1) * PageSize = 0
    BY <1>1, BrokerAssumption
  <2> QED BY <2>1, <2>2, <2>3 DEF Ahead
<1>2. CASE page # 1
  BY <1>2 DEF TradedBefore, VerdictInv, FillsAreRead
<1> QED BY <1>1, <1>2

\* A row that is read as a complete fill is the row of one.
LEMMA WorthIsTrue ==
  ASSUME BookOK, NEW l, NEW i \in DOMAIN book, NEW r \in Sent(i)
  PROVE  /\ Worth(l, r) \in Worths \ {NoRow}
         /\ l = "oso" => Worth(l, r) # "full"
         /\ Worth(l, r) = "full" => book[i].filled = book[i].qty
<1>1. Worth(l, r) = "full" => FullFill(r)
  BY DEF Worth
<1>2. FullFill(r) => book[i].filled = book[i].qty
  BY DEF FullFill, Understood, Parsed, Sent, Row
<1>3. Worth(l, r) \in Worths \ {NoRow} /\ (l = "oso" => Worth(l, r) # "full")
  BY DEF Worth, Worths, NoRow
<1> QED BY <1>1, <1>2, <1>3

\* What has been read of the fills after a page of the list l.
LEMMA SeenIsTrue ==
  ASSUME VerdictInv, NEW l \in {"oso", "cntr"}, tracked # 0, NEW f \in Seen(l)
  PROVE  /\ f \in [oso : Worths, cntr : Worths]
         /\ l = "oso" => f.cntr = found.cntr
         /\ f.cntr = "full" => book[tracked].filled = book[tracked].qty
         /\ l = "cntr" /\ f.cntr = NoRow => found.cntr = NoRow /\ tracked \notin PageRows(l)
<1>1. tracked \in DOMAIN book /\ found \in [oso : Worths, cntr : Worths] /\ BookOK
      /\ (found.cntr = "full" => book[tracked].filled = book[tracked].qty)
  BY DEF VerdictInv, QueryOK, BookOK, FillsAreRead
<1>2. CASE tracked \in PageRows(l) /\ found[l] = NoRow
  <2>1. PICK r \in Sent(tracked) : f = [found EXCEPT ![l] = Worth(l, r)]
    BY <1>2 DEF Seen
  <2>2. /\ Worth(l, r) \in Worths \ {NoRow}
        /\ Worth(l, r) = "full" => book[tracked].filled = book[tracked].qty
    BY <1>1, WorthIsTrue
  <2> DEFINE w == Worth(l, r)
  <2>3. f = [found EXCEPT ![l] = w] /\ w \in Worths \ {NoRow}
        /\ (w = "full" => book[tracked].filled = book[tracked].qty)
    BY <2>1, <2>2
  <2> HIDE DEF w
  <2>4. CASE l = "oso"
    BY <1>1, <2>3, <2>4
  <2>5. CASE l = "cntr"
    BY <1>1, <2>3, <2>5
  <2> QED BY <2>4, <2>5
<1>3. CASE ~(tracked \in PageRows(l) /\ found[l] = NoRow)
  <2>1. f = found
    BY <1>3 DEF Seen
  <2> QED BY <1>1, <1>3, <2>1
<1> QED BY <1>2, <1>3

\* The list of the fills keeps its orders, and the places on it only move on.
LEMMA PlacesMoveOn ==
  ASSUME BookOK, BookOK', NEW i, Shown("cntr") \subseteq Shown("cntr")'
  PROVE  Place("cntr", i) \in Nat /\ Place("cntr", i)' \in Nat /\ Place("cntr", i)' >= Place("cntr", i)
<1>1. PICK S : S = {j \in Shown("cntr") : j >= i}
  OBVIOUS
<1>2. PICK T : T = {j \in Shown("cntr")' : j >= i}
  OBVIOUS
<1>3. Place("cntr", i) = Cardinality(S) /\ Place("cntr", i)' = Cardinality(T)
  BY <1>1, <1>2 DEF Place
<1>4. IsFiniteSet(S)
  BY <1>1, ShownIsFinite
<1>5. IsFiniteSet(T)
  <2>1. T \in SUBSET (1 .. Len(book')) /\ Len(book') \in Nat
    BY <1>2 DEF Shown, BookOK
  <2>2. IsFiniteSet(1 .. Len(book'))
    BY <2>1, FS_Interval
  <2> QED BY <2>1, <2>2, FS_Subset
<1>6. S \in SUBSET T
  BY <1>1, <1>2
<1> QED BY <1>3, <1>4, <1>5, <1>6, FS_Subset, FS_CardinalityType

\* The exchange moves: no order loses a share that traded, a complete one keeps all.
LEMMA TradeStep ==
  ASSUME VerdictInv, Exchange
  PROVE  VerdictInv'
<1>1. UNCHANGED <<stage, tracked, page, found, traded, verdict>>
  BY DEF Exchange, OtherOrder, Fill, Cancel, call, query
<1> DEFINE Grown == /\ BookOK' /\ Len(book') >= Len(book) /\ Len(book') \in Nat
                    /\ \A i \in DOMAIN book :
                         /\ i \in DOMAIN book' /\ book'[i].qty = book[i].qty
                         /\ book'[i].filled >= book[i].filled
                         /\ book[i].filled = book[i].qty => book'[i].filled = book[i].filled
<1>2. Grown
  <2>1. CASE OtherOrder
    <3> DEFINE o == NewOrder(1)
    <3>1. o \in OrderType
      BY DEF NewOrder, OrderType, OrderRecord
    <3>2. book' = Append(book, o) /\ book \in Seq(OrderType)
      BY <2>1 DEF OtherOrder, VerdictInv, BookOK
    <3> HIDE DEF o
    <3>3. /\ book' \in Seq(OrderType) /\ Len(book') = Len(book) + 1 /\ Len(book) \in Nat
          /\ \A i \in DOMAIN book : i \in DOMAIN book' /\ book'[i] = book[i]
      BY <3>1, <3>2, OrderIsAdded
    <3>4. \A i \in DOMAIN book : book[i].filled \in Nat
      BY <3>2, OrderIsTyped
    <3> QED BY <3>3, <3>4 DEF BookOK
  <2>2. ASSUME NEW i \in DOMAIN book, Fill(i) \/ Cancel(i)
        PROVE  Grown
    <3>1. book \in Seq(OrderType) /\ book[i].live
      BY <2>2 DEF VerdictInv, BookOK, Fill, Cancel
    <3>2. book[i] \in OrderType /\ book[i].qty \in Nat /\ book[i].filled \in Nat
            /\ book[i].filled < book[i].qty
      BY <3>1, OrderIsTyped
    <3>3. PICK o \in OrderType :
            /\ book' = [book EXCEPT ![i] = o]
            /\ o.qty = book[i].qty /\ o.filled >= book[i].filled
      <4>1. CASE Fill(i)
        <5>1. PICK n \in Nat : n = book[i].filled + 1
          BY <3>2
        <5> DEFINE o == [book[i] EXCEPT !.filled = n, !.live = n < book[i].qty]
        <5>2. book' = [book EXCEPT ![i] = o]
          BY <3>1, <3>2, <4>1, <5>1 DEF Fill
        <5>3. book[i] \in OrderRecord
          BY <3>2 DEF OrderType
        <5>4. /\ o \in OrderRecord /\ o.qty = book[i].qty /\ o.filled = n
              /\ o.live => n < book[i].qty
          BY <5>3, OrderIsFilled
        <5> HIDE DEF o
        <5>5. o \in OrderType /\ o.filled >= book[i].filled
          BY <3>2, <5>1, <5>4 DEF OrderType
        <5> QED BY <5>2, <5>4, <5>5, Zenon
      <4>2. CASE Cancel(i)
        <5> DEFINE o == [book[i] EXCEPT !.live = FALSE]
        <5>1. book' = [book EXCEPT ![i] = o]
          BY <4>2 DEF Cancel
        <5>2. o \in OrderType /\ o.qty = book[i].qty /\ o.filled >= book[i].filled
          <6>1. book[i] \in OrderRecord
            BY <3>2 DEF OrderType
          <6>2. o \in OrderRecord /\ o.qty = book[i].qty /\ o.filled = book[i].filled /\ ~o.live
            BY <3>2, <6>1 DEF OrderRecord
          <6> HIDE DEF o
          <6> QED BY <3>2, <6>2 DEF OrderType
        <5> HIDE DEF o
        <5> QED BY <5>1, <5>2
      <4> QED BY <2>2, <4>1, <4>2
    <3>4. /\ book' \in Seq(OrderType) /\ Len(book') = Len(book) /\ Len(book) \in Nat
          /\ DOMAIN book' = DOMAIN book /\ book'[i] = o
          /\ \A j \in DOMAIN book : j # i => book'[j] = book[j]
      BY <3>1, <3>3, OrderIsChanged
    <3>5. \A j \in DOMAIN book : book[j].filled \in Nat
      BY <3>1, OrderIsTyped
    <3> QED BY <3>2, <3>3, <3>4, <3>5 DEF BookOK
  <2> QED BY <2>1, <2>2 DEF Exchange
<1>3. ASSUME tracked # 0
      PROVE  /\ tracked \in DOMAIN book
             /\ book'[tracked].filled >= book[tracked].filled
             /\ book[tracked].filled \in Nat /\ book'[tracked].filled \in Nat
             /\ book[tracked].filled = book[tracked].qty => book'[tracked].filled = book'[tracked].qty
  <2>1. tracked \in DOMAIN book
    BY <1>3 DEF VerdictInv, QueryOK, BookOK
  <2>2. /\ book[tracked].filled \in Nat /\ book'[tracked].filled \in Nat
    BY <1>2, <2>1, OrderIsTyped DEF VerdictInv, BookOK
  <2> QED BY <1>2, <2>1, <2>2
<1>4. QueryOK'
  BY <1>1, <1>2 DEF VerdictInv, QueryOK, BookOK
<1>5. Ahead(page) /\ tracked # 0 => Ahead(page)'
  <2>1. Shown("cntr") \subseteq Shown("cntr")'
    <3>1. ASSUME NEW i \in DOMAIN book, book[i].filled > 0
          PROVE  i \in DOMAIN book' /\ book'[i].filled > 0
      <4>1. book[i].filled \in Nat /\ i \in DOMAIN book'
        BY <1>2, OrderIsTyped DEF VerdictInv, BookOK
      <4>2. book'[i].filled \in Nat
        BY <1>2, <4>1, OrderIsTyped DEF BookOK
      <4> QED BY <1>2, <3>1, <4>1, <4>2
    <3> QED BY <3>1 DEF Shown
  <2>2. /\ Place("cntr", tracked) \in Nat /\ Place("cntr", tracked)' \in Nat
        /\ Place("cntr", tracked)' >= Place("cntr", tracked)
    <3>1. PICK i : i = tracked /\ i = tracked'
      BY <1>1
    <3>2. /\ Place("cntr", i) \in Nat /\ Place("cntr", i)' \in Nat
          /\ Place("cntr", i)' >= Place("cntr", i)
      BY <1>2, <2>1, PlacesMoveOn DEF VerdictInv
    <3>3. Place("cntr", i)' = Place("cntr", tracked)'
      BY <1>1, <3>1 DEF Place
    <3> QED BY <3>1, <3>2, <3>3
  <2>3. (page - 1) * PageSize \in Int /\ page' = page
    BY <1>1, BrokerAssumption DEF VerdictInv, QueryOK
  <2> DEFINE lo == (page - 1) * PageSize
  <2>4. Ahead(page) <=> book[tracked].filled > 0 /\ Place("cntr", tracked) > lo
    BY DEF Ahead
  <2>5. Ahead(page)' <=> book'[tracked].filled > 0 /\ Place("cntr", tracked)' > lo
    BY <1>1 DEF Ahead
  <2>6. lo \in Int
    BY <2>3
  <2> HIDE DEF lo
  <2> QED BY <1>3, <2>2, <2>4, <2>5, <2>6
<1>6. tracked = 0 => found.cntr = NoRow /\ stage # "cntr" /\ verdict = "none"
  BY DEF VerdictInv, QueryOK
<1>7. FillsAreRead' /\ VerdictIsTrue'
  BY <1>1, <1>3, <1>5, <1>6 DEF VerdictInv, FillsAreRead, VerdictIsTrue, NoRow
<1> QED BY <1>2, <1>4, <1>7 DEF VerdictInv

LEMMA OrderedStep ==
  ASSUME VerdictInv, PlaceOrder \/ Send
  PROVE  VerdictInv'
<1>1. CASE PlaceOrder
  BY <1>1 DEF PlaceOrder, exchange, query, VerdictInv, BookOK, QueryOK, FillsAreRead, VerdictIsTrue, NoRow
<1>2. CASE Send
  <2>1. UNCHANGED <<page, found, traded, verdict>> /\ stage = "send"
        /\ verdict = "none" /\ found.cntr = NoRow /\ stage' \in {"send", "idle"}
    BY <1>2 DEF Send, query, VerdictInv, QueryOK
  <2> DEFINE o == NewOrder(MaxQty)
  <2>2. o \in OrderType
    BY BrokerAssumption DEF NewOrder, OrderType, OrderRecord
  <2>3. /\ book' = book \/ book' = Append(book, o)
        /\ tracked' = tracked \/ tracked' = 0 \/ (tracked' = Len(book) + 1 /\ book' = Append(book, o))
    BY <1>2 DEF Send, Registers
  <2> HIDE DEF o
  <2>4. BookOK' /\ Len(book') \in Nat /\ Len(book') >= Len(book)
    <3>1. book \in Seq(OrderType)
      BY DEF VerdictInv, BookOK
    <3> QED BY <2>2, <2>3, <3>1, OrderIsAdded DEF BookOK
  <2>5. tracked' \in 0 .. Len(book')
    <3>1. book \in Seq(OrderType) /\ tracked \in 0 .. Len(book)
      BY DEF VerdictInv, BookOK, QueryOK
    <3> QED BY <2>2, <2>3, <2>4, <3>1, OrderIsAdded
  <2> QED BY <2>1, <2>4, <2>5 DEF VerdictInv, QueryOK, FillsAreRead, VerdictIsTrue, NoRow
<1> QED BY <1>1, <1>2

LEMMA AskStep ==
  ASSUME VerdictInv, QueryStatus
  PROVE  VerdictInv'
<1>1. /\ UNCHANGED <<book, tracked, found>> /\ page' = 1 /\ stage' = "oso"
      /\ ~traded' /\ traded' \in BOOLEAN /\ verdict' = "none" /\ tracked # 0 /\ found.cntr = NoRow
  BY DEF QueryStatus, exchange, VerdictInv, QueryOK
<1>2. QueryOK' /\ BookOK'
  BY <1>1 DEF VerdictInv, QueryOK, BookOK
<1> QED BY <1>1, <1>2 DEF VerdictInv, FillsAreRead, VerdictIsTrue, NoRow

LEMMA TradedIsBoolean == VerdictInv => TradedBefore \in BOOLEAN
<1>1. (book[tracked].filled > 0) \in BOOLEAN
  OBVIOUS
<1>2. traded \in BOOLEAN => TradedBefore \in BOOLEAN
  BY <1>1, Zenon DEF TradedBefore
<1> QED BY <1>2 DEF VerdictInv, QueryOK

LEMMA ReadPageStep ==
  ASSUME VerdictInv, ReadPage
  PROVE  VerdictInv'
<1>1. /\ UNCHANGED <<book, tracked, verdict>> /\ traded' = TradedBefore
      /\ stage \in {"oso", "cntr"} /\ tracked # 0 /\ verdict = "none"
      /\ found' \in Seen(stage)
      /\ \/ page' = page + 1 /\ stage' = stage
         \/ stage = "oso" /\ stage' = "cntr" /\ page' = 1
  BY DEF ReadPage, exchange, VerdictInv, QueryOK
<1>2. tracked \in DOMAIN book /\ page \in Nat \ {0}
  BY <1>1 DEF VerdictInv, QueryOK, BookOK
<1>3. /\ found' \in [oso : Worths, cntr : Worths]
      /\ stage = "oso" => found'.cntr = found.cntr
      /\ found'.cntr = "full" => book[tracked].filled = book[tracked].qty
      /\ stage = "cntr" /\ found'.cntr = NoRow => found.cntr = NoRow /\ tracked \notin PageRows("cntr")
  BY <1>1, SeenIsTrue
<1>4. TradedBefore \in BOOLEAN /\ (stage = "oso" => ~TradedBefore)
  <2>1. stage = "oso" => ~TradedBefore
    BY DEF TradedBefore, VerdictInv, QueryOK
  <2> QED BY <2>1, TradedIsBoolean
<1>5. QueryOK' /\ BookOK'
  BY <1>1, <1>2, <1>3, <1>4 DEF VerdictInv, QueryOK, BookOK
<1>6. ASSUME stage' = "cntr", traded', found'.cntr = NoRow
      PROVE  Ahead(page)'
  <2>1. stage = "cntr" /\ page' = page + 1
    BY <1>1, <1>4, <1>6
  <2>2. Ahead(page)
    BY <1>1, <1>3, <1>6, <2>1, TradedIsAhead
  <2>3. Ahead(page + 1)
    BY <1>2, <1>3, <1>6, <2>1, <2>2, AfterThePage
  <2>4. Shown("cntr")' = Shown("cntr")
    BY <1>1 DEF Shown
  <2>5. Place("cntr", tracked)' = Place("cntr", tracked)
    BY <1>1, <2>4 DEF Place
  <2> QED BY <1>1, <2>1, <2>3, <2>5 DEF Ahead
<1> QED BY <1>1, <1>3, <1>5, <1>6 DEF VerdictInv, FillsAreRead, VerdictIsTrue

LEMMA JudgeStep ==
  ASSUME VerdictInv, Judge
  PROVE  VerdictInv'
<1>1. /\ UNCHANGED <<book, tracked>> /\ traded' = TradedBefore
      /\ stage = "cntr" /\ stage' = "idle" /\ page' = 1 /\ found' = Nothing
      /\ tracked # 0 /\ ~More("cntr")
  BY DEF Judge, exchange, VerdictInv, QueryOK, Conts, ListEnds
<1>2. PICK f \in Seen("cntr") : verdict' = Derive(f)
  BY <1>1 DEF Judge
<1>3. /\ f.cntr = "full" => book[tracked].filled = book[tracked].qty
      /\ f.cntr = NoRow => found.cntr = NoRow /\ tracked \notin PageRows("cntr")
  BY <1>1, SeenIsTrue
<1>4. tracked \in DOMAIN book
  BY <1>1 DEF VerdictInv, QueryOK, BookOK
<1>5. TradedBefore \in BOOLEAN
  BY TradedIsBoolean
<1>6. f.cntr = NoRow => ~TradedBefore
  BY <1>1, <1>3, <1>4, TradedIsAhead, AfterThePage
<1>7. /\ verdict' = "FILLED" => f.cntr = "full"
      /\ verdict' = "OPEN" => f.cntr = NoRow
  BY <1>2 DEF Derive
<1>8. BookOK' /\ QueryOK'
  BY <1>1, <1>5 DEF VerdictInv, BookOK, QueryOK, Nothing, Worths, NoRow
<1>9. VerdictIsTrue'
  BY <1>1, <1>3, <1>6, <1>7 DEF VerdictIsTrue
<1> QED BY <1>1, <1>8, <1>9 DEF VerdictInv, FillsAreRead, Nothing, NoRow

LEMMA QueryFailsStep ==
  ASSUME VerdictInv, QueryFails
  PROVE  VerdictInv'
BY DEF QueryFails, exchange, VerdictInv, BookOK, QueryOK, FillsAreRead, VerdictIsTrue, Nothing, Worths, NoRow

\* A process that reads nothing has nothing to be wrong about.
LEMMA NothingIsRead ==
  ASSUME BookOK', tracked' \in 0 .. Len(book'), page' = 1, found' = Nothing, ~traded', traded' \in BOOLEAN,
         verdict' = "none", stage' \in {"new", "idle"}
  PROVE  VerdictInv'
<1>1. Nothing \in [oso : Worths, cntr : Worths] /\ Nothing.cntr = NoRow
  BY DEF Nothing, Worths
<1>2. QueryOK'
  BY <1>1 DEF QueryOK
<1> QED BY <1>1, <1>2 DEF VerdictInv, FillsAreRead, VerdictIsTrue, NoRow

LEMMA VerdictStep == VerdictInv /\ [Next]_vars => VerdictInv'
<1> SUFFICES ASSUME VerdictInv, [Next]_vars PROVE VerdictInv'
  OBVIOUS
<1>1. CASE Trade
  BY <1>1, TradeStep DEF Trade
<1>2. CASE Order
  BY <1>2, OrderedStep DEF Order
<1>3. CASE Ask
  BY <1>3, AskStep DEF Ask
<1>4. CASE Read
  BY <1>4, ReadPageStep DEF Read
<1>5. CASE Finish
  BY <1>5, JudgeStep, QueryFailsStep DEF Finish, QueryEnds
<1>6. CASE Keep \/ Shutdown \/ Restart \/ UNCHANGED vars
  <2>1. UNCHANGED brokerVars
    BY <1>6 DEF Keep, Shutdown, Restart, vars
  <2>2. Ahead(page)' <=> Ahead(page)
    BY <2>1 DEF brokerVars, exchange, call, query, Ahead, Place, Shown
  <2> QED BY <2>1, <2>2
        DEF brokerVars, exchange, call, query, VerdictInv, BookOK, QueryOK, FillsAreRead, VerdictIsTrue
<1>7. CASE Kill
  <2>1. /\ UNCHANGED <<book, tracked>> /\ page' = 1 /\ found' = Nothing /\ ~traded'
        /\ traded' \in BOOLEAN /\ verdict' = "none" /\ stage' \in {"new", "idle"}
    BY <1>7 DEF Kill, BrokerDies, exchange
  <2> QED BY <2>1, NothingIsRead DEF VerdictInv, BookOK, QueryOK
<1> QED BY <1>1, <1>2, <1>3, <1>4, <1>5, <1>6, <1>7 DEF Next

\* What a status query judges is true of the order though it trades while the lists
\* are read page by page (get_order_status_evidence, derive_broker_order_status):
\* FILLED is an order filled completely, OPEN one that had not traded when the
\* reading of the fills began; for any number of shares, orders and rows on a page.
THEOREM VerdictHolds == Spec => []VerdictIsTrue
<1>1. Init => VerdictInv
  <2> SUFFICES ASSUME Init PROVE VerdictInv
    OBVIOUS
  <2>1. BookOK /\ Len(book) = 0
    BY DEF Init, BrokerInit, BookOK
  <2>2. /\ tracked = 0 /\ page = 1 /\ found = Nothing /\ ~traded /\ traded \in BOOLEAN /\ verdict = "none"
        /\ stage = "new"
    BY DEF Init, BrokerInit
  <2>3. Nothing \in [oso : Worths, cntr : Worths] /\ Nothing.cntr = NoRow
    BY DEF Nothing, Worths
  <2>4. QueryOK
    BY <2>1, <2>2, <2>3 DEF QueryOK
  <2> QED BY <2>1, <2>2, <2>3, <2>4 DEF VerdictInv, FillsAreRead, VerdictIsTrue, NoRow
<1>2. VerdictInv => VerdictIsTrue
  BY DEF VerdictInv
<1> QED BY <1>1, <1>2, VerdictStep, PTL DEF Spec
=============================================================================
