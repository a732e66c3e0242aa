---------------------------- MODULE EvidenceLog ----------------------------
(***************************************************************************)
(* OrderStatusObservationRecorder: every order status query leaves a record   *)
(* in an append-only file.  The trading thread only puts it in a bounded      *)
(* queue; a writer thread appends it.  A write may fail half way, the process *)
(* may die in the middle of one, and the next start repairs the end of the    *)
(* file.                                                                      *)
(*                                                                            *)
(* The file is its complete lines and the bytes after the last newline.  A    *)
(* record is its number; a line that does not parse is Damaged, and Torn if   *)
(* it also ends inside a character, which the UTF-8 decoder refuses.          *)
(***************************************************************************)
EXTENDS Integers, Sequences, FiniteSets, SequencesExt

CONSTANTS
  MaxQueue,      \* maxsize of the queue
  MaxFaults      \* bound: writes that fail

ASSUME LogAssumption == MaxQueue \in Nat \ {0} /\ MaxFaults \in Nat

VARIABLES
  lines,      \* the complete lines of the file
  tail,       \* what follows the last newline
  aside,      \* the records of the files put aside as beyond repair
  recorder,   \* off, on, stopping (stop event set), ended (the writer is gone);
              \* dead: there is no process
  queue, writing, healthy, dropped,
  marked,     \* marker_written
  recorded,   \* the records handed to record() by this process (history)
  repaired,   \* the start could read the file, or found no unfinished line (history)
  report,     \* clean_shutdown as shutdown() returned it
  faults

file    == <<lines, tail, aside>>
memory  == <<recorder, queue, writing, healthy, dropped, marked, recorded, report>>
logVars == <<file, memory, repaired, faults>>

Marker  == 0
Damaged == -1
Torn    == -2
NoTail  == [kind |-> "none", id |-> 0]
Free    == 0      \* the writer is between two records

\* Bytes that a write of record i may leave when it does not come to its end.
Remains(i) == {[kind |-> "whole", id |-> i], [kind |-> "part", id |-> 0],
               [kind |-> "torn", id |-> 0]}

\* What the tail and the bytes after it are, once a newline follows.
Glued(line) ==
  CASE tail.kind = "none" -> line [] tail.kind = "torn" -> Torn [] OTHER -> Damaged

Records(s) == {s[k] : k \in DOMAIN s} \cap (Nat \ {0})

\* The records a reader finds, in the file and in the files put aside.
Readable == Records(lines) \cup aside
              \cup (IF healthy /\ tail.kind = "whole" THEN {tail.id} \ {Marker} ELSE {})

-----------------------------------------------------------------------------
(* start                                                                     *)

\* The parts of the file as the repair sees them: the tail is a last line.
TailLine == CASE tail.kind = "none" -> <<>> [] tail.kind = "whole" -> <<tail.id>>
              [] OTHER -> <<Damaged>>
Undecodable == tail.kind = "torn" \/ Torn \in ToSet(lines)
OnlyLastIsBad(s) ==
  s # <<>> /\ Last(s) = Damaged /\ \A k \in 1 .. Len(s) - 1 : s[k] # Damaged

\* mutant: the newline that is missing after a whole record is not supplied
RepairKeepsTail ==
  LET all == lines \o TailLine
  IN IF OnlyLastIsBad(all) THEN lines' = Front(all) /\ tail' = NoTail
     ELSE UNCHANGED <<lines, tail>>

(***************************************************************************)
(* _quarantine_incomplete_tail: a last line that does not parse is taken out  *)
(* (to a file of its own), damage elsewhere is left, and a last line without  *)
(* its newline gets it (_ensure_trailing_newline).                            *)
(***************************************************************************)
Repair ==
  LET all == lines \o TailLine
  IN /\ lines' = IF OnlyLastIsBad(all) THEN Front(all) ELSE all
     /\ tail' = NoTail

(***************************************************************************)
(* A new process.  Bytes that do not decode end start() with an exception     *)
(* that is not an OSError, and the caller goes on without recorder.  A file   *)
(* that cannot be read now is left as it is; one whose last byte cannot be    *)
(* checked takes no record.                                                  *)
(***************************************************************************)
Open ==
  \E how \in {"read", "unread", "unchecked"} :
    LET refused == how # "unread" /\ Undecodable
        all == lines \o TailLine
    IN /\ recorder' = IF refused THEN "off" ELSE "on"
       /\ healthy' = (how # "unchecked" \/ refused)
       /\ IF refused \/ how = "unread" THEN UNCHANGED <<lines, tail>>
          ELSE IF how = "read" THEN Repair
          ELSE IF OnlyLastIsBad(all) THEN lines' = Front(all) /\ tail' = NoTail
          ELSE UNCHANGED <<lines, tail>>
       /\ repaired' = (how = "read" \/ tail'.kind = "none")

Start ==
  /\ recorder = "dead"
  /\ Open
  /\ UNCHANGED <<aside, queue, writing, dropped, marked, recorded, report, faults>>

-----------------------------------------------------------------------------
(* record, called by the trading thread                                      *)

Record(i) ==
  IF recorder = "off" THEN UNCHANGED logVars
  ELSE /\ recorded' = recorded \cup {i}
       /\ IF Len(queue) < MaxQueue
          THEN queue' = Append(queue, i) /\ UNCHANGED dropped
          ELSE dropped' = dropped + 1 /\ UNCHANGED queue
       /\ UNCHANGED <<file, recorder, writing, healthy, marked, report, repaired, faults>>

-----------------------------------------------------------------------------
(* The writer thread                                                         *)

Take ==
  /\ writing = Free /\ queue # <<>>
  /\ writing' = Head(queue) /\ queue' = Tail(queue)
  /\ UNCHANGED <<file, recorder, healthy, dropped, marked, recorded, report, repaired, faults>>

written == <<recorder, queue, marked, recorded, report, repaired>>

\* The line is on the file (whether it reached the disk is counted apart).
WriteLine ==
  /\ writing # Free /\ healthy
  /\ lines' = Append(lines, Glued(writing)) /\ tail' = NoTail
  /\ writing' = Free
  /\ UNCHANGED <<aside, healthy, dropped, faults, written>>

\* A file that is not trusted any more takes no record.
SkipLine ==
  /\ writing # Free /\ ~healthy
  /\ dropped' = dropped + 1 /\ writing' = Free
  /\ UNCHANGED <<file, healthy, faults, written>>

\* mutant: the bytes of the record that failed are left in the file
LeaveRest(rest) ==
  /\ tail' = IF tail.kind = "none" THEN rest ELSE tail
  /\ UNCHANGED <<lines, aside, healthy>>

\* _truncate_partial_write: the file ends where it ended before
CutBack(rest) == UNCHANGED <<lines, tail, aside, healthy>>

\* _quarantine_and_rotate_file: the file is put aside, or trusted no more
RotateAway(rest) ==
  \/ /\ aside' = aside \cup Records(lines) /\ lines' = <<>> /\ tail' = NoTail
     /\ UNCHANGED healthy
  \/ /\ healthy' = FALSE
     /\ tail' = IF tail.kind = "none" THEN rest ELSE tail
     /\ UNCHANGED <<lines, aside>>

WriteFails ==
  /\ writing # Free /\ healthy /\ faults < MaxFaults
  /\ dropped' = dropped + 1 /\ writing' = Free /\ faults' = faults + 1
  /\ \E rest \in Remains(writing) : CutBack(rest) \/ RotateAway(rest)
  /\ UNCHANGED written

\* _write_shutdown_marker, when the stop event is set and the queue is empty:
\* it is appended without a look at file_healthy.
WriteMarker ==
  /\ recorder = "stopping" /\ writing = Free /\ queue = <<>>
  /\ \/ lines' = Append(lines, Glued(Marker)) /\ tail' = NoTail /\ marked' = TRUE
        /\ UNCHANGED faults
     \/ /\ faults < MaxFaults /\ faults' = faults + 1
        /\ tail' \in IF tail.kind = "none" THEN Remains(Marker) ELSE {tail}
        /\ marked' = FALSE /\ UNCHANGED lines
  /\ recorder' = "ended"
  /\ UNCHANGED <<aside, queue, writing, healthy, dropped, recorded, report, repaired>>

\* _writer_loop
Writer ==
  /\ recorder \in {"on", "stopping"}
  /\ Take \/ WriteLine \/ SkipLine \/ WriteFails \/ WriteMarker

-----------------------------------------------------------------------------
(* shutdown                                                                  *)

Stop ==
  /\ recorder = "on" /\ recorder' = "stopping"
  /\ UNCHANGED <<file, queue, writing, healthy, dropped, marked, recorded, report, repaired, faults>>

\* mutant: a writer that has not ended in time is taken for one that has
CleanWhenStopped == recorder \in {"ended", "stopping"}

\* join returns: the writer has ended, or the time allowed for it has passed.
Clean == recorder = "ended" /\ marked

Join ==
  /\ recorder \in {"stopping", "ended"} /\ report = "none"
  /\ report' = IF Clean THEN "clean" ELSE "unclear"
  /\ UNCHANGED <<file, recorder, queue, writing, healthy, dropped, marked, recorded, repaired, faults>>

\* What is on the file when the process dies in the middle of a record.
Cut ==
  IF tail.kind # "none" THEN {tail}
  ELSE {NoTail} \cup (IF writing # Free /\ healthy THEN Remains(writing) ELSE {})
              \cup (IF recorder = "stopping" /\ writing = Free THEN Remains(Marker) ELSE {})

Die ==
  /\ recorder # "dead" /\ recorder' = "dead"
  /\ tail' \in Cut
  /\ queue' = <<>> /\ writing' = Free /\ healthy' = TRUE /\ dropped' = 0
  /\ marked' = FALSE /\ recorded' = {} /\ report' = "none"
  /\ repaired' = TRUE
  /\ UNCHANGED <<lines, aside, faults>>

-----------------------------------------------------------------------------
LogInit ==
  /\ lines = <<>> /\ tail = NoTail /\ aside = {}
  /\ recorder = "on" /\ queue = <<>> /\ writing = Free /\ healthy = TRUE
  /\ dropped = 0 /\ marked = FALSE /\ recorded = {} /\ report = "none"
  /\ repaired = TRUE /\ faults = 0

-----------------------------------------------------------------------------
(* Properties                                                                *)

\* Every query of a run is accounted for: it waits, is being written, can be
\* read, or is counted as dropped; after a clean shutdown none waits.
NothingVanishes ==
  LET missing == recorded \ (Readable \cup
                   IF report = "clean" THEN {} ELSE ToSet(queue) \cup {writing})
  IN Cardinality(missing) <= dropped

\* The file and the count of what was dropped are together the history of the
\* queries: a record that can be read is never lost again, whatever is written,
\* fails, dies, is repaired or is shut down later, and none vanishes uncounted.
\* Not so once a start could not open the file and left an unfinished line at
\* its end.
EvidenceIsKept ==
  [][repaired' => Readable \subseteq Readable' /\ NothingVanishes']_logVars
=============================================================================
