--------------------------- MODULE ChannelProofs ---------------------------
(***************************************************************************)
(* Proofs about Channel for any threads, values, capacity and bound.       *)
(***************************************************************************)
EXTENDS Channel, SequenceTheorems, TLAPS

(* Handing out the oldest value in transit.                                *)
LEMMA HeadInTransit ==
  ASSUME NEW S, NEW r \in Seq(S), NEW q \in Seq(S), q # <<>>
  PROVE  r \o q = Append(r, Head(q)) \o Tail(q)
  <1>1. Head(q) \in S /\ Tail(q) \in Seq(S) /\ <<Head(q)>> \in Seq(S)
    BY HeadTailProperties
  <1>2. q = <<Head(q)>> \o Tail(q)
    <2> DEFINE t == <<Head(q)>> \o Tail(q)
    <2>1. /\ t \in Seq(S)
          /\ Len(t) = 1 + Len(Tail(q))
          /\ \A i \in 1 .. 1 + Len(Tail(q)) :
               t[i] = IF i <= 1 THEN Head(q) ELSE Tail(q)[i - 1]
      BY <1>1, ConcatProperties
    <2>2. Len(Tail(q)) = Len(q) - 1 /\ Head(q) = q[1]
          /\ \A i \in 1 .. Len(Tail(q)) : Tail(q)[i] = q[i + 1]
      BY HeadTailProperties
    <2>3. Len(q) = Len(t) /\ \A i \in 1 .. Len(q) : q[i] = t[i]
      BY <2>1, <2>2
    <2>4. QED
      BY <2>1, <2>3, SeqEqual
  <1>3. Append(r, Head(q)) = r \o <<Head(q)>>
    BY <1>1, AppendIsConcat
  <1>4. QED
    BY <1>1, <1>2, <1>3, ConcatAssociative

(* Dropping what is in transit leaves a prefix of what was accepted.       *)
LEMMA DropInTransit ==
  ASSUME NEW S, NEW r \in Seq(S), NEW q \in Seq(S)
  PROVE  Len(r) <= Len(r \o q) /\ r = SubSeq(r \o q, 1, Len(r))
  <1> DEFINE w == r \o q
  <1>1. /\ w \in Seq(S) /\ Len(w) = Len(r) + Len(q)
        /\ \A i \in 1 .. Len(r) : w[i] = r[i]
    BY ConcatProperties
  <1>2. Len(r) \in Nat /\ Len(q) \in Nat /\ \A i \in 1 .. Len(r) : w[i] \in S
    BY <1>1
  <1>3. /\ SubSeq(w, 1, Len(r)) \in Seq(S)
        /\ Len(SubSeq(w, 1, Len(r))) = Len(r)
        /\ \A i \in 1 .. Len(r) : SubSeq(w, 1, Len(r))[i] = w[i]
    BY <1>2, SubSeqProperties
  <1>4. QED
    BY <1>1, <1>2, <1>3, SeqEqual

-----------------------------------------------------------------------------
IInv == TypeOK /\ Bounded /\ Fifo /\ DrainedBeforeClosed

(* A new channel satisfies the invariant.                                  *)
LEMMA InitIInv == Init => IInv
  <1> SUFFICES ASSUME Init PROVE IInv
    OBVIOUS
  <1>1. <<>> \in Seq(Values) /\ Len(<<>>) = 0 /\ <<>> \o <<>> = <<>>
    BY EmptySeq, ConcatEmptySeq
  <1>2. TypeOK
    BY <1>1, ChannelAssumption DEF Init, TypeOK, Threads, Statuses
  <1>3. Bounded
    BY <1>1, ChannelAssumption DEF Init, Bounded
  <1>4. Fifo
    BY <1>1 DEF Init, Fifo
  <1>5. DrainedBeforeClosed
    BY DEF Init, DrainedBeforeClosed, Threads
  <1>6. QED
    BY <1>2, <1>3, <1>4, <1>5 DEF IInv

(* Every critical section, every call and every close preserves it.        *)
LEMMA NextIInv == IInv /\ [Next]_channelVars => IInv'
  <1> SUFFICES ASSUME IInv, [Next]_channelVars PROVE IInv'
    OBVIOUS
  <1> USE ChannelAssumption DEF IInv, TypeOK, Bounded, DrainedBeforeClosed, Threads, Statuses
  <1>1. ASSUME NEW w \in Writers, NEW v \in Values, EnterWrite(w, v) PROVE IInv'
    BY <1>1 DEF EnterWrite, Fifo
  <1>2. ASSUME NEW r \in Readers, EnterRead(r) PROVE IInv'
    BY <1>2 DEF EnterRead, Fifo
  <1>3. ASSUME NEW w \in Writers, Write(w) PROVE IInv'
    <2>1. CASE reader_closed \/ writer_closed
      BY <1>3, <2>1 DEF Write, Return, Fifo
    <2>2. CASE ~reader_closed /\ ~writer_closed
      <3>1. /\ queue' = Append(queue, holds[w]) /\ written' = Append(written, holds[w])
            /\ received' = received /\ Len(queue) < Capacity /\ holds[w] \in Values
            /\ ~reader_closed' /\ ~writer_closed'
        BY <1>3, <2>2 DEF Write, CanWrite
      <3>2. written' = received' \o queue'
        <4>1. written = received \o queue
          BY <2>2 DEF Fifo
        <4>2. Append(received \o queue, holds[w]) = received \o Append(queue, holds[w])
          BY <3>1
        <4>3. QED
          BY <3>1, <4>1, <4>2
      <3>3. Bounded'
        BY <3>1, AppendProperties
      <3>4. TypeOK'
        BY <1>3, <2>2, <3>1, AppendProperties DEF Write, Return
      <3>5. DrainedBeforeClosed'
        BY <1>3, <2>2 DEF Write, Return
      <3>6. QED
        BY <3>1, <3>2, <3>3, <3>4, <3>5 DEF Fifo
    <2>3. QED
      BY <2>1, <2>2
  <1>4. ASSUME NEW r \in Readers, Read(r) PROVE IInv'
    <2>1. CASE queue # <<>>
      <3>1. /\ received' = Append(received, Head(queue)) /\ queue' = Tail(queue)
            /\ written' = written /\ reader_closed' = reader_closed
        BY <1>4, <2>1 DEF Read
      <3>2. ~reader_closed /\ written = received \o queue
        BY <2>1 DEF Fifo
      <3>3. written' = received' \o queue'
        BY <2>1, <3>1, <3>2, HeadInTransit
      <3>4. Bounded'
        BY <2>1, <3>1, HeadTailProperties
      <3>5. TypeOK'
        <4>1. Head(queue) \in Values /\ Tail(queue) \in Seq(Values)
          BY <2>1, HeadTailProperties
        <4>2. queue' \in Seq(Values) /\ received' \in Seq(Values)
          BY <3>1, <4>1, AppendProperties
        <4>3. QED
          BY <1>4, <2>1, <4>2 DEF Read, Return
      <3>6. \A q \in Readers : status[q] # "FAILED_PRECONDITION"
        BY <2>1, <3>2, ConcatEqualIffEmpty
      <3>7. DrainedBeforeClosed'
        BY <1>4, <2>1, <3>6 DEF Read, Return
      <3>8. QED
        BY <3>1, <3>2, <3>3, <3>4, <3>5, <3>7 DEF Fifo
    <2>2. CASE queue = <<>>
      <3>1. ~reader_closed => written = received
        BY <2>2, ConcatEmptySeq DEF Fifo
      <3>2. QED
        BY <1>4, <2>2, <3>1 DEF Read, Return, CanRead, Fifo
    <2>3. QED
      BY <2>1, <2>2
  <1>5. CASE CloseWriter
    BY <1>5 DEF CloseWriter, Fifo
  <1>6. CASE CloseReader
    <2>1. /\ queue' = <<>> /\ reader_closed' /\ written' = written
          /\ received' = received
      BY <1>6 DEF CloseReader
    <2>2. Len(received) <= Len(written) /\ received = SubSeq(written, 1, Len(received))
      BY DropInTransit DEF Fifo
    <2>3. Fifo'
      BY <2>1, <2>2 DEF Fifo
    <2>4. TypeOK' /\ Bounded' /\ DrainedBeforeClosed'
      BY <1>6, <2>1, EmptySeq DEF CloseReader
    <2>5. QED
      BY <2>3, <2>4
  <1>7. CASE UNCHANGED channelVars
    BY <1>7 DEF channelVars, Fifo
  <1>8. QED
    BY <1>1, <1>2, <1>3, <1>4, <1>5, <1>6, <1>7 DEF Next

(* The conjunction is an inductive invariant of the channel.               *)
THEOREM Invariance == Spec => []IInv
  BY InitIInv, NextIInv, PTL DEF Spec

-----------------------------------------------------------------------------
(* The members and the threads' calls always have their types.             *)
THEOREM TypeCorrect == Spec => []TypeOK
  <1>1. IInv => TypeOK
    BY DEF IInv
  <1>2. QED
    BY Invariance, <1>1, PTL

(* The queue never outgrows its capacity, however many writers block on it. *)
THEOREM BoundedQueue == Spec => []Bounded
  <1>1. IInv => Bounded
    BY DEF IInv
  <1>2. QED
    BY Invariance, <1>1, PTL

(* Values come out once each and in order, and until the reader side is    *)
(* closed none is lost.                                                    *)
THEOREM InOrder == Spec => []Fifo
  <1>1. IInv => Fifo
    BY DEF IInv
  <1>2. QED
    BY Invariance, <1>1, PTL

(* A reader told that the writer side is closed has left no value behind.  *)
THEOREM Drained == Spec => []DrainedBeforeClosed
  <1>1. IInv => DrainedBeforeClosed
    BY DEF IInv
  <1>2. QED
    BY Invariance, <1>1, PTL
=============================================================================
