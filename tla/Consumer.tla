------------------------------ MODULE Consumer ------------------------------
(***************************************************************************)
(* MessageKafka::Process (src/src/io/message_kafka.cpp), run by each of    *)
(* the two threads SampleKafka starts: for about an hour it takes batches  *)
(* from the queue librdkafka fills and calls Parser for every message,     *)
(* then it starts all partitions again at their ends, waits for the first  *)
(* messages, and writes how much of the log it has kept up with.           *)
(*                                                                         *)
(* A message is its offset.  librdkafka is external: its thread appends    *)
(* what it fetches to rkq in offset order, and an event without a message  *)
(* when it reaches the end of a partition (enable.partition.eof is on);    *)
(* such an event has the next offset, reaches the callback like a message, *)
(* and Parser drops it.  The exit flag is never set (main.cpp registers no *)
(* signal handler).                                                        *)
(***************************************************************************)
EXTENDS Integers, Sequences, FiniteSets, SeqFilter

CONSTANTS
  Parts,        \* partitions.size()
  MsgSize,      \* 2000: size of rkmessage in the hour's loop
  AwaitSize,    \* 200: size of rkmessage after the restart
  LongMax,
  Offset0,      \* messages in a partition when the program starts
  MaxOffset,    \* bound: messages produced to a partition
  MaxHours      \* bound: reports

Partitions == 1 .. Parts

ASSUME ConsumerAssumption ==
  /\ Parts \in Nat /\ MsgSize \in Nat \ {0} /\ AwaitSize \in Nat \ {0}
  /\ Offset0 \in Nat /\ MaxOffset \in Nat /\ Offset0 <= MaxOffset
  /\ LongMax \in Nat /\ MaxOffset < LongMax /\ MaxHours \in Nat

VARIABLES
  hw,           \* partition -> messages in the log
  fetch,        \* partition -> next offset to fetch, or Pending or Stopped
  eof,          \* partition -> its end was signalled
  rkq,          \* events [part, off, eof], in the order they were fetched
  pc, batch, j,
  hour,         \* an hour has passed since start
  over,         \* difftime(end, start) >= 60*60
  newset, lastset, trueset,
  hours,
  got, skipped, seen  \* history: offsets given to Parser; passed over by a
                      \* restart; of the events of this hour

broker == <<hw, fetch, eof>>
sets == <<newset, lastset, trueset>>
hist == <<got, skipped, seen>>
vars == <<broker, rkq, pc, batch, j, hour, over, sets, hours, hist>>

Pending == -1
Stopped == -2
All(v) == [p \in Partitions |-> v]

(* rd_kafka_consume_start_queue at RD_KAFKA_OFFSET_END, and the first hour *)
Init ==
  /\ hw = All(Offset0) /\ fetch = All(Pending) /\ eof = All(FALSE) /\ rkq = <<>>
  /\ pc = "loop" /\ batch = <<>> /\ j = 1
  /\ hour = FALSE /\ over = FALSE
  /\ newset = All(LongMax) /\ lastset = All(0) /\ trueset = All(LongMax)
  /\ hours = 0
  /\ got = All({}) /\ skipped = All({}) /\ seen = All({})

-----------------------------------------------------------------------------
(* External: the broker and the thread of librdkafka. *)
Produce(p) ==
  /\ hw[p] < MaxOffset
  /\ hw' = [hw EXCEPT ![p] = @ + 1]
  /\ UNCHANGED <<fetch, eof, rkq, pc, batch, j, hour, over, sets, hours, hist>>

(* The end of the partition is looked up after the start, not at it. *)
Resolve(p) ==
  /\ fetch[p] = Pending
  /\ fetch' = [fetch EXCEPT ![p] = hw[p]]
  /\ skipped' = [skipped EXCEPT ![p] = (0 .. hw[p] - 1) \ got[p]]
  /\ UNCHANGED <<hw, eof, rkq, pc, batch, j, hour, over, sets, hours, got, seen>>

Event(p, end) == [part |-> p, off |-> fetch[p], eof |-> end]

Fetch(p) ==
  /\ fetch[p] \in 0 .. hw[p] - 1
  /\ rkq' = Append(rkq, Event(p, FALSE))
  /\ fetch' = [fetch EXCEPT ![p] = @ + 1] /\ eof' = [eof EXCEPT ![p] = FALSE]
  /\ UNCHANGED <<hw, pc, batch, j, hour, over, sets, hours, hist>>

SignalEnd(p) ==
  /\ fetch[p] = hw[p] /\ ~eof[p]
  /\ rkq' = Append(rkq, Event(p, TRUE)) /\ eof' = [eof EXCEPT ![p] = TRUE]
  /\ UNCHANGED <<hw, fetch, pc, batch, j, hour, over, sets, hours, hist>>

HourPasses ==
  /\ ~hour /\ hours < MaxHours
  /\ hour' = TRUE
  /\ UNCHANGED <<broker, rkq, pc, batch, j, over, sets, hours, hist>>

-----------------------------------------------------------------------------
(* The hour's loop.  rd_kafka_consume_batch_queue returns what there is,   *)
(* up to the size of the array.                                            *)
TakeUpTo(size, from, to) ==
  /\ pc = from /\ rkq # <<>>
  /\ \E r \in 1 .. Len(rkq) :
       /\ r <= size
       /\ batch' = SubSeq(rkq, 1, r) /\ rkq' = SubSeq(rkq, r + 1, Len(rkq))
  /\ pc' = to
  /\ UNCHANGED <<broker, j, hour, over, sets, hours, hist>>

(* r == 0, or r < 1: again.  end keeps its value. *)
Poll ==
  /\ (pc = "loop" /\ ~over) \/ pc = "await"
  /\ rkq = <<>>
  /\ UNCHANGED vars

TakeBatch == ~over /\ TakeUpTo(MsgSize, "loop", "handle")

(* callback: Parser drops what is not a message. *)
Given(e) == IF e.eof THEN got ELSE [got EXCEPT ![e.part] = @ \cup {e.off}]

(* Mutant: newset takes every offset, not the lowest. *)
MutRecord(e) ==
  /\ newset' = [newset EXCEPT ![e.part] = e.off]
  /\ lastset' = [lastset EXCEPT ![e.part] = IF e.off > @ THEN e.off ELSE @]

(* newset takes a lower offset, else lastset a higher one. *)
Record(e) ==
  LET lower == e.off < newset[e.part]
      higher == ~lower /\ e.off > lastset[e.part]
  IN  /\ newset' = [newset EXCEPT ![e.part] = IF lower THEN e.off ELSE @]
      /\ lastset' = [lastset EXCEPT ![e.part] = IF higher THEN e.off ELSE @]

Handle ==
  /\ pc = "handle" /\ batch # <<>>
  /\ LET e == Head(batch)
     IN  /\ Record(e)
         /\ got' = Given(e)
         /\ seen' = [seen EXCEPT ![e.part] = @ \cup {e.off}]
  /\ batch' = Tail(batch)
  /\ UNCHANGED <<broker, rkq, pc, j, hour, over, trueset, hours, skipped>>

(* Mutant: end is not read again. *)
MutBatchDone ==
  /\ pc = "handle" /\ batch = <<>>
  /\ pc' = "loop"
  /\ UNCHANGED <<broker, rkq, batch, j, hour, over, sets, hours, hist>>

(* end = time(NULL) *)
BatchDone ==
  /\ pc = "handle" /\ batch = <<>>
  /\ over' = hour
  /\ pc' = "loop"
  /\ UNCHANGED <<broker, rkq, batch, j, hour, sets, hours, hist>>

HourOver ==
  /\ pc = "loop" /\ over
  /\ pc' = "restart" /\ j' = 1
  /\ UNCHANGED <<broker, rkq, batch, hour, over, sets, hours, hist>>

-----------------------------------------------------------------------------
(* rd_kafka_consume_stop drops what is queued of the partition; then       *)
(* rd_kafka_consume_start_queue at RD_KAFKA_OFFSET_END.                    *)
RestartAt(start) ==
  /\ pc = "restart" /\ j <= Parts
  /\ rkq' = Subsequence(rkq, {i \in 1 .. Len(rkq) : rkq[i].part # j})
  /\ fetch' = [fetch EXCEPT ![j] = start] /\ eof' = [eof EXCEPT ![j] = FALSE]
  /\ j' = j + 1
  /\ UNCHANGED <<hw, pc, batch, hour, over, sets, hours, hist>>

MutBeginning == RestartAt(0)      \* mutant: RD_KAFKA_OFFSET_BEGINNING
MutStop == RestartAt(Stopped)     \* mutant: stop without start

RestartPartition == RestartAt(Pending)

Restarted ==
  /\ pc = "restart" /\ j > Parts
  /\ pc' = "await"
  /\ UNCHANGED <<broker, rkq, batch, j, hour, over, sets, hours, hist>>

(* while (r < 1) *)
Await == TakeUpTo(AwaitSize, "await", "true")

TrueSet(e) ==
  trueset' = [trueset EXCEPT ![e.part] = IF e.off < @ THEN e.off ELSE @]

(* Mutant: what the wait returned is only measured. *)
MutHandleTrue ==
  /\ pc = "true" /\ batch # <<>>
  /\ TrueSet(Head(batch))
  /\ batch' = Tail(batch)
  /\ UNCHANGED <<broker, rkq, pc, j, hour, over, newset, lastset, hours, hist>>

HandleTrue ==
  /\ pc = "true" /\ batch # <<>>
  /\ TrueSet(Head(batch))
  /\ got' = Given(Head(batch))
  /\ batch' = Tail(batch)
  /\ UNCHANGED <<broker, rkq, pc, j, hour, over, newset, lastset, hours, skipped,
                 seen>>

(* The offsets file is written, and the next hour starts. *)
Report ==
  /\ pc = "true" /\ batch = <<>>
  /\ newset' = All(LongMax) /\ lastset' = All(0) /\ trueset' = All(LongMax)
  /\ hour' = FALSE /\ over' = FALSE
  /\ hours' = hours + 1 /\ seen' = All({})
  /\ pc' = "loop"
  /\ UNCHANGED <<broker, rkq, batch, j, got, skipped>>

-----------------------------------------------------------------------------
Process == \/ TakeBatch \/ Handle \/ BatchDone \/ HourOver
           \/ RestartPartition \/ Restarted \/ Await \/ HandleTrue \/ Report
Library(p) == Resolve(p) \/ Fetch(p) \/ SignalEnd(p)

Next == \/ Process \/ Poll \/ HourPasses
        \/ \E p \in Partitions : Produce(p) \/ Library(p)

Spec == Init /\ [][Next]_vars

(* The consumer's thread runs, and librdkafka fetches what there is. *)
FairSpec == Spec /\ WF_vars(Process) /\ \A p \in Partitions : WF_vars(Library(p))

-----------------------------------------------------------------------------
(* Properties. *)
(* What is fetched and not yet handled, and the positions of the messages  *)
(* of a partition in it.                                                   *)
InFlight == batch \o rkq
Messages(p) == {i \in 1 .. Len(InFlight) : InFlight[i].part = p /\ ~InFlight[i].eof}

(* No message is given to Parser twice, or after a later one of its        *)
(* partition, whatever is queued when the partitions are started again     *)
(* (76-135).                                                               *)
AtMostOnceInOrder ==
  \A p \in Partitions : \A i \in Messages(p) :
    /\ \A o \in got[p] : o < InFlight[i].off
    /\ \A k \in Messages(p) : k < i => InFlight[k].off < InFlight[i].off

(* Messages are passed over only by starting at the end: what the library  *)
(* has fetched is given to Parser, also what the wait after the restart    *)
(* returns (112-135), unless a restart dropped it.                         *)
LossOnlyAtRestart ==
  \A p \in Partitions : fetch[p] >= 0 =>
    0 .. fetch[p] - 1 \subseteq
      got[p] \cup skipped[p] \cup {InFlight[i].off : i \in Messages(p)}

(* When the report is written, a partition with two events or more in the  *)
(* hour has its first offset in newset and its last in lastset, and what   *)
(* the restart finds is not before them: the ratio res is at most one      *)
(* (97-103, 145).                                                          *)
ReportBrackets ==
  pc = "true" /\ batch = <<>> =>
    \A p \in Partitions : Cardinality(seen[p]) >= 2 =>
      /\ newset[p] \in seen[p] /\ lastset[p] \in seen[p]
      /\ \A o \in seen[p] : newset[p] <= o /\ o <= lastset[p]
      /\ lastset[p] <= trueset[p]

(* The wait for a first message after the restart ends, even if nothing is *)
(* produced any more (121-123).                                            *)
AwaitEnds == (pc = "await") ~> (pc # "await")

(* Once an hour has passed, a message that is queued brings the restart    *)
(* (83, 109); without one the loop goes on with the old value of end.      *)
HourEnds == (hour /\ pc = "loop" /\ rkq # <<>>) ~> (pc = "restart")
=============================================================================
