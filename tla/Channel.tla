------------------------------ MODULE Channel ------------------------------
(***************************************************************************)
(* Channel<T> (channel.h): a bounded queue between threads with a close    *)
(* for each side.  A call is two steps: entering it, and its critical      *)
(* section, which runs when the condition it awaits holds (absl::Mutex     *)
(* evaluates the conditions of waiting threads itself at every unlock).    *)
(***************************************************************************)
EXTENDS Integers, Sequences

CONSTANTS
  Writers, Readers,     \* threads that call Write() and Read()
  Values,
  Capacity,             \* capacity_
  MaxWritten,           \* bound: no call of Write() begins after that many values
  NoValue               \* what a thread that is not in Write() holds

ASSUME ChannelAssumption ==
  /\ Capacity \in Nat \ {0}     \* channel.h:39
  /\ MaxWritten \in Nat
  /\ Writers \cap Readers = {}
  /\ NoValue \notin Values

VARIABLES
  queue,                \* queue_
  writer_closed, reader_closed,
  calling,              \* whether each thread is inside its call
  holds,                \* the value each writer is about to write
  status,               \* what each thread's latest call returned
  written, received     \* history: values accepted and values handed out

channelVars == <<queue, writer_closed, reader_closed, calling, holds, status,
                 written, received>>

Threads  == Writers \cup Readers
Statuses == {"none", "OK", "CANCELLED", "FAILED_PRECONDITION"}

TypeOK ==
  /\ queue \in Seq(Values)
  /\ writer_closed \in BOOLEAN
  /\ reader_closed \in BOOLEAN
  /\ calling \in [Threads -> BOOLEAN]
  /\ holds \in [Writers -> Values \cup {NoValue}]
  /\ \A w \in Writers : calling[w] => holds[w] \in Values
  /\ status \in [Threads -> Statuses]
  /\ written \in Seq(Values)
  /\ received \in Seq(Values)

Init ==
  /\ queue = <<>>
  /\ writer_closed = FALSE
  /\ reader_closed = FALSE
  /\ calling = [t \in Threads |-> FALSE]
  /\ holds = [w \in Writers |-> NoValue]
  /\ status = [t \in Threads |-> "none"]
  /\ written = <<>>
  /\ received = <<>>

\* Mutant: the bound is off by one.
CanWriteOneMore == Len(queue) <= Capacity \/ reader_closed \/ writer_closed

\* Mutant: a closed writer side does not wake the writers.
CanWriteIgnoringWriter == Len(queue) < Capacity \/ reader_closed

CanWrite == Len(queue) < Capacity \/ reader_closed \/ writer_closed
CanRead  == queue # <<>> \/ writer_closed \/ reader_closed

EnterWrite(w, v) ==
  /\ ~calling[w] /\ Len(written) < MaxWritten
  /\ calling' = [calling EXCEPT ![w] = TRUE]
  /\ holds' = [holds EXCEPT ![w] = v]
  /\ UNCHANGED <<queue, writer_closed, reader_closed, status, written, received>>

EnterRead(r) ==
  /\ ~calling[r]
  /\ calling' = [calling EXCEPT ![r] = TRUE]
  /\ UNCHANGED <<queue, writer_closed, reader_closed, holds, status, written, received>>

Return(t, s) ==
  /\ calling' = [calling EXCEPT ![t] = FALSE]
  /\ status' = [status EXCEPT ![t] = s]

Write(w) ==
  /\ calling[w] /\ CanWrite
  /\ holds' = [holds EXCEPT ![w] = NoValue]
  /\ IF reader_closed THEN Return(w, "CANCELLED") /\ UNCHANGED <<queue, written>>
     ELSE IF writer_closed
       THEN Return(w, "FAILED_PRECONDITION") /\ UNCHANGED <<queue, written>>
     ELSE /\ queue' = Append(queue, holds[w])
          /\ written' = Append(written, holds[w])
          /\ Return(w, "OK")
  /\ UNCHANGED <<writer_closed, reader_closed, received>>

\* Mutant: the value is read but not taken off the queue.
ReadPeeking(r) ==
  /\ calling[r] /\ CanRead
  /\ IF queue # <<>>
       THEN received' = Append(received, Head(queue)) /\ Return(r, "OK")
       ELSE /\ Return(r, IF reader_closed THEN "CANCELLED" ELSE "FAILED_PRECONDITION")
            /\ UNCHANGED received
  /\ UNCHANGED <<queue, writer_closed, reader_closed, holds, written>>

\* Mutant: a closed writer is reported before the queue is drained.
ReadWithoutDraining(r) ==
  /\ calling[r] /\ CanRead
  /\ IF queue # <<>> /\ ~writer_closed
       THEN /\ received' = Append(received, Head(queue))
            /\ queue' = Tail(queue)
            /\ Return(r, "OK")
       ELSE /\ Return(r, IF reader_closed THEN "CANCELLED" ELSE "FAILED_PRECONDITION")
            /\ UNCHANGED <<queue, received>>
  /\ UNCHANGED <<writer_closed, reader_closed, holds, written>>

Read(r) ==
  /\ calling[r] /\ CanRead
  /\ IF queue # <<>>
       THEN /\ received' = Append(received, Head(queue))
            /\ queue' = Tail(queue)
            /\ Return(r, "OK")
       ELSE /\ Return(r, IF reader_closed THEN "CANCELLED" ELSE "FAILED_PRECONDITION")
            /\ UNCHANGED <<queue, received>>
  /\ UNCHANGED <<writer_closed, reader_closed, holds, written>>

CloseWriter ==
  /\ writer_closed' = TRUE
  /\ UNCHANGED <<queue, reader_closed, calling, holds, status, written, received>>

CloseReader ==
  /\ reader_closed' = TRUE
  /\ queue' = <<>>
  /\ UNCHANGED <<writer_closed, calling, holds, status, written, received>>

Next ==
  \/ \E w \in Writers : (\E v \in Values : EnterWrite(w, v)) \/ Write(w)
  \/ \E r \in Readers : EnterRead(r) \/ Read(r)
  \/ CloseWriter \/ CloseReader

Spec == Init /\ [][Next]_channelVars

\* A thread whose condition stays true gets the mutex.
Fairness == /\ \A w \in Writers : WF_channelVars(Write(w))
            /\ \A r \in Readers : WF_channelVars(Read(r))

FairSpec == Spec /\ Fairness

-----------------------------------------------------------------------------
\* Properties

\* The queue never holds more than its capacity.
Bounded == Len(queue) <= Capacity

\* Values come out in the order they were accepted, each once; none is lost
\* unless the reader side was closed, which drops exactly those in the queue.
Fifo ==
  IF reader_closed
    THEN /\ queue = <<>>
         /\ Len(received) <= Len(written)
         /\ received = SubSeq(written, 1, Len(received))
    ELSE written = received \o queue

\* A reader is told that the writer side is closed only when it, or another
\* reader, has been given every value that was accepted (channel.h:22-24).
DrainedBeforeClosed ==
  \A r \in Readers : status[r] = "FAILED_PRECONDITION" => writer_closed /\ received = written

\* Closing either side lets every blocked thread go, reader or writer.
CloseUnblocks ==
  \A t \in Threads : calling[t] /\ (reader_closed \/ writer_closed) ~> ~calling[t]
=============================================================================
