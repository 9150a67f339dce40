---------------------- MODULE StreamEventsClientProofs ----------------------
(***************************************************************************)
(* Proofs about StreamEventsClient for any capacity of its queue and any   *)
(* number of captured events.  What holds of the queue is ChannelProofs'.  *)
(***************************************************************************)
EXTENDS StreamEventsClient, SequenceTheorems, TLAPS

QueueProofs == INSTANCE ChannelProofs WITH
  Writers <- {"main"}, Readers <- {"sender"}, Values <- Events,
  NoValue <- NoEvent, MaxWritten <- MaxEvents

(* The threads' own variables, and what they say about calls of the queue.  *)
Control ==
  /\ stop_requested \in BOOLEAN
  /\ loop_stopped \in BOOLEAN
  /\ main \in {"run_loop", "callback", "close_reader", "close_writer", "join", "exited"}
  /\ sender \in {"top", "connecting", "streaming", "reading", "sending", "finishing", "done"}
  /\ event \in Events \cup {NoEvent}
  /\ calling["main"] => main = "callback"
  /\ calling["sender"] => sender = "reading"

(* The events are written as they are captured, and no call changes hands.  *)
Captured ==
  /\ \A i \in 1 .. Len(written) : written[i] = i
  /\ main = "callback" => holds["main"] = Len(written) + 1

(* What the server has got and what gRPC has are in order, the one before   *)
(* the other, and neither goes beyond what was read off the queue.          *)
Ordered ==
  /\ connected \in BOOLEAN
  /\ got \in Seq(Events) /\ stream \in Seq(Events) /\ Len(stream) <= Window
  /\ \A i, j \in DOMAIN got : i < j => got[i] < got[j]
  /\ \A i, j \in DOMAIN stream : i < j => stream[i] < stream[j]
  /\ \A i \in DOMAIN got, j \in DOMAIN stream : got[i] < stream[j]

(* Every event read is accounted for; the one the sender has in its hands   *)
(* is the latest.                                                           *)
Streamed ==
  /\ lost \subseteq Events /\ failed \subseteq Events
  /\ sender = "sending" => event = Len(received) /\ event \in Events
  /\ \A e \in Range(got) \cup Range(stream) :
       e <= Len(received) /\ (sender = "sending" => e < Len(received))
  /\ \A e \in 1 .. Len(received) :
       \/ e \in Range(got) \cup Range(stream) \cup lost \cup failed
       \/ sender = "sending" /\ e = event

IInv == QueueProofs!IInv /\ Control /\ Captured /\ Ordered /\ Streamed

-----------------------------------------------------------------------------
(* The client's queue satisfies what Channel asks of its constants.         *)
LEMMA QueueAssumption == QueueProofs!ChannelAssumption
  BY ClientAssumption DEF QueueProofs!ChannelAssumption, Events

(* Whatever the threads of the client do to the queue is a call of Channel. *)
LEMMA QueueSteps == QueueProofs!IInv /\ [Next]_vars => [EventQueue!Next]_channelVars
  <1> SUFFICES ASSUME QueueProofs!IInv, [Next]_vars
               PROVE  EventQueue!Next \/ UNCHANGED channelVars
    OBVIOUS
  <1>1. CASE Callback
    <2>1. Len(written) + 1 \in Events
      <3>1. written \in Seq(Events) /\ Len(written) < MaxEvents
        BY <1>1 DEF Callback, EventQueue!EnterWrite, QueueProofs!IInv, QueueProofs!TypeOK
      <3>2. QED
        BY <3>1, ClientAssumption DEF Events
    <2>2. QED
      BY <1>1, <2>1 DEF Callback, EventQueue!Next
  <1>2. CASE CallbackReturns \/ CloseReader \/ CloseWriter \/ StreamReads \/ ReadReturns
    BY <1>2 DEF CallbackReturns, CloseReader, CloseWriter, StreamReads, ReadReturns,
       EventQueue!Next
  <1>3. CASE \/ SignalHandler \/ RunLoopReturns \/ Join \/ Top \/ Connect \/ ConnectFails
             \/ StreamStops \/ Send \/ SendFails \/ FinishFails \/ Take \/ Answer \/ Break
    BY <1>3 DEF SignalHandler, RunLoopReturns, Join, Top, Connect, ConnectFails, StreamStops,
       Send, SendFails, FinishFails, Take, Answer, Break
  <1>4. CASE UNCHANGED vars
    BY <1>4 DEF vars
  <1>5. QED
    BY <1>1, <1>2, <1>3, <1>4 DEF Next, MainThread, SenderThread, Server

(* So the queue keeps the invariant of a channel.                           *)
LEMMA QueueNext ==
  QueueProofs!IInv /\ [EventQueue!Next]_channelVars => QueueProofs!IInv'
  <1> SUFFICES ASSUME QueueProofs!IInv, [EventQueue!Next]_channelVars
               PROVE  QueueProofs!IInv'
    OBVIOUS
  <1>1. [QueueProofs!Next]_(QueueProofs!channelVars)
    BY DEF EventQueue!Next, EventQueue!EnterWrite, EventQueue!Write, EventQueue!EnterRead,
       EventQueue!Read, EventQueue!CloseWriter, EventQueue!CloseReader, EventQueue!CanWrite,
       EventQueue!CanRead, EventQueue!Return, QueueProofs!Next, QueueProofs!EnterWrite,
       QueueProofs!Write, QueueProofs!EnterRead, QueueProofs!Read, QueueProofs!CloseWriter,
       QueueProofs!CloseReader, QueueProofs!CanWrite, QueueProofs!CanRead,
       QueueProofs!Return, channelVars, QueueProofs!channelVars
  <1>2. QED
    BY <1>1, QueueAssumption, QueueProofs!NextIInv

-----------------------------------------------------------------------------
(* The client before its first event, with an empty queue.                  *)
LEMMA InitIInv == Init => IInv
  <1> SUFFICES ASSUME Init PROVE IInv
    OBVIOUS
  <1>1. QueueProofs!Init
    BY DEF Init, EventQueue!Init, EventQueue!Threads, QueueProofs!Init, QueueProofs!Threads
  <1>2. QueueProofs!IInv
    BY <1>1, QueueAssumption, QueueProofs!InitIInv
  <1>3. calling["main"] = FALSE /\ calling["sender"] = FALSE /\ written = <<>> /\ received = <<>>
    BY DEF Init, EventQueue!Init, EventQueue!Threads
  <1>4. Control
    BY <1>3 DEF Init, Control
  <1>5. Captured
    BY <1>3 DEF Init, Captured
  <1>6. stream = <<>> /\ got = <<>> /\ Range(stream) = {} /\ Range(got) = {}
    BY DEF Init, Range
  <1>7. Ordered
    <2>1. Len(stream) = 0 /\ 0 <= Window /\ DOMAIN stream = {} /\ DOMAIN got = {}
      BY <1>6, ClientAssumption
    <2>2. connected \in BOOLEAN
      BY DEF Init
    <2>3. stream \in Seq(Events) /\ got \in Seq(Events)
      BY <1>6
    <2>4. QED
      BY <2>1, <2>2, <2>3 DEF Ordered
  <1>8. Streamed
    BY <1>3, <1>6 DEF Init, Streamed
  <1>9. QED
    BY <1>2, <1>4, <1>5, <1>7, <1>8 DEF IInv

(* Appending one, taking the first one, of a sequence.                      *)
LEMMA RangeFacts ==
  ASSUME NEW s \in Seq(Events), NEW e \in Events
  PROVE  /\ Append(s, e) \in Seq(Events) /\ Len(Append(s, e)) = Len(s) + 1
         /\ Range(Append(s, e)) = Range(s) \cup {e}
         /\ Range(s) \subseteq Events
         /\ s # <<>> => /\ Tail(s) \in Seq(Events) /\ Len(Tail(s)) = Len(s) - 1
                       /\ Head(s) = s[1] /\ 1 \in DOMAIN s /\ Head(s) \in Events
                       /\ Range(s) = {Head(s)} \cup Range(Tail(s))
                       /\ \A i \in DOMAIN Tail(s) :
                            i \in Nat /\ i + 1 \in DOMAIN s /\ i + 1 # 1 /\ Tail(s)[i] = s[i + 1]
  <1>1. /\ Append(s, e) \in Seq(Events) /\ Len(Append(s, e)) = Len(s) + 1
        /\ \A i \in 1 .. Len(s) : Append(s, e)[i] = s[i]
        /\ Append(s, e)[Len(s) + 1] = e
        /\ DOMAIN s = 1 .. Len(s) /\ DOMAIN Append(s, e) = 1 .. Len(s) + 1 /\ Len(s) \in Nat
    OBVIOUS
  <1>2. \A i \in 1 .. Len(s) + 1 : i \in 1 .. Len(s) \/ i = Len(s) + 1
    BY <1>1
  <1>3. Range(Append(s, e)) = Range(s) \cup {e}
    <2>1. \A x \in Range(Append(s, e)) : x \in Range(s) \cup {e}
      BY <1>1, <1>2 DEF Range
    <2>2. Range(s) \subseteq Range(Append(s, e))
      <3>1. 1 .. Len(s) \subseteq 1 .. Len(s) + 1
        BY <1>1
      <3>2. QED
        BY <1>1, <3>1 DEF Range
    <2>3. e \in Range(Append(s, e))
      <3>1. Len(s) + 1 \in DOMAIN Append(s, e)
        BY <1>1
      <3>2. QED
        BY <1>1, <3>1 DEF Range
    <2>4. QED
      BY <2>1, <2>2, <2>3
  <1>4. Range(s) \subseteq Events
    BY <1>1 DEF Range
  <1>5. ASSUME s # <<>>
        PROVE  /\ Tail(s) \in Seq(Events) /\ Len(Tail(s)) = Len(s) - 1
               /\ Head(s) = s[1] /\ 1 \in DOMAIN s /\ Head(s) \in Events
               /\ Range(s) = {Head(s)} \cup Range(Tail(s))
               /\ \A i \in DOMAIN Tail(s) :
                    i \in Nat /\ i + 1 \in DOMAIN s /\ i + 1 # 1 /\ Tail(s)[i] = s[i + 1]
    <2>1. /\ Tail(s) \in Seq(Events) /\ Len(Tail(s)) = Len(s) - 1 /\ Len(s) >= 1
          /\ Head(s) = s[1] /\ 1 \in DOMAIN s /\ Head(s) \in Events
          /\ DOMAIN Tail(s) = 1 .. Len(s) - 1
      BY <1>5
    <2>2. \A i \in DOMAIN Tail(s) :
            i \in Nat /\ i + 1 \in DOMAIN s /\ i + 1 # 1 /\ Tail(s)[i] = s[i + 1]
      BY <1>1, <1>5, <2>1
    <2>3. {Head(s)} \cup Range(Tail(s)) \subseteq Range(s)
      BY <2>1, <2>2 DEF Range
    <2>4. ASSUME NEW x \in Range(s) PROVE x \in {Head(s)} \cup Range(Tail(s))
      <3>1. PICK i \in 1 .. Len(s) : x = s[i]
        BY <1>1 DEF Range
      <3>2. CASE i = 1
        BY <2>1, <3>1, <3>2
      <3>3. CASE i # 1
        <4>1. i - 1 \in DOMAIN Tail(s) /\ (i - 1) + 1 = i
          BY <1>1, <2>1, <3>1, <3>3
        <4>2. QED
          BY <2>2, <3>1, <4>1 DEF Range
      <3>4. QED
        BY <3>2, <3>3
    <2>5. QED
      BY <2>1, <2>2, <2>3, <2>4
  <1>6. QED
    BY <1>1, <1>3, <1>4, <1>5

(* The oldest event in the queue is the one captured after those read.      *)
LEMMA NextToRead ==
  ASSUME QueueProofs!IInv, Captured, queue # <<>>
  PROVE  Head(queue) = Len(received) + 1 /\ Head(queue) \in Events
  <1>1. received \in Seq(Events) /\ queue \in Seq(Events) /\ written \in Seq(Events)
    BY DEF QueueProofs!IInv, QueueProofs!TypeOK
  <1>2. written = received \o queue
    BY DEF QueueProofs!IInv, QueueProofs!Fifo
  <1>3. Len(received) + 1 \in 1 .. Len(written) /\ written[Len(received) + 1] = queue[1]
    BY <1>1, <1>2, ConcatProperties
  <1>4. Head(queue) = queue[1] /\ Head(queue) \in Events
    BY <1>1, HeadTailProperties
  <1>5. QED
    BY <1>3, <1>4 DEF Captured

(* Every step of the two threads and of the signal preserves the invariant. *)
LEMMA NextIInv == IInv /\ [Next]_vars => IInv'
  <1> SUFFICES ASSUME IInv, [Next]_vars PROVE IInv'
    OBVIOUS
  <1> USE DEF mainVars, callVars, channelVars
  <1>0. QueueProofs!IInv /\ Control /\ Captured /\ Ordered /\ Streamed
    BY DEF IInv
  <1>1. QueueProofs!IInv'
    BY <1>0, QueueSteps, QueueNext
  <1>2. /\ received \in Seq(Events) /\ queue \in Seq(Events) /\ written \in Seq(Events)
        /\ calling \in [{"main", "sender"} -> BOOLEAN] /\ holds \in [{"main"} -> Events \cup {NoEvent}]
        /\ Len(received) \in Nat /\ Len(written) \in Nat
    <2>1. QueueProofs!TypeOK
      BY <1>0 DEF QueueProofs!IInv
    <2>2. {"main"} \cup {"sender"} = {"main", "sender"}
      OBVIOUS
    <2>3. QED
      BY <2>1, <2>2 DEF QueueProofs!TypeOK, QueueProofs!Threads
  <1>3. CASE SignalHandler
    BY <1>0, <1>1, <1>3 DEF SignalHandler, IInv, Control, Captured, Ordered, Streamed
  <1>4. CASE Callback
    <2>1. /\ calling' = [calling EXCEPT !["main"] = TRUE]
          /\ holds' = [holds EXCEPT !["main"] = Len(written) + 1]
          /\ main' = "callback"
          /\ UNCHANGED <<stop_requested, loop_stopped, sender, event, callVars, written, received>>
      BY <1>4 DEF Callback, EventQueue!EnterWrite
    <2>2. calling'["sender"] = calling["sender"] /\ holds'["main"] = Len(written) + 1
      BY <1>2, <2>1
    <2>3. QED
      BY <1>0, <1>1, <2>1, <2>2 DEF IInv, Control, Captured, Ordered, Streamed
  <1>5. CASE CallbackReturns
    <2>1. /\ calling' = [calling EXCEPT !["main"] = FALSE]
          /\ main = "callback" /\ main' = "run_loop"
          /\ UNCHANGED <<stop_requested, loop_stopped, sender, event, callVars, received>>
          /\ written' = written \/ written' = Append(written, holds["main"])
      BY <1>5 DEF CallbackReturns, EventQueue!Write, EventQueue!Return
    <2>2. calling'["sender"] = calling["sender"] /\ calling'["main"] = FALSE
      BY <1>2, <2>1
    <2>3. \A i \in 1 .. Len(written') : written'[i] = i
      <3>1. CASE written' = written
        BY <1>0, <3>1 DEF Captured
      <3>2. CASE written' = Append(written, holds["main"])
        <4>1. holds["main"] = Len(written) + 1 /\ holds["main"] \in Events \cup {NoEvent}
          BY <1>0, <1>2, <2>1 DEF Captured
        <4>2. /\ Len(written') = Len(written) + 1 /\ written'[Len(written) + 1] = Len(written) + 1
              /\ \A i \in 1 .. Len(written) : written'[i] = written[i]
          BY <1>2, <3>2, <4>1
        <4>3. ASSUME NEW i \in 1 .. Len(written') PROVE written'[i] = i
          <5>1. i \in 1 .. Len(written) \/ i = Len(written) + 1
            BY <1>2, <4>2
          <5>2. QED
            BY <1>0, <4>2, <5>1 DEF Captured
        <4>4. QED
          BY <4>3
      <3>3. QED
        BY <2>1, <3>1, <3>2
    <2>4. QED
      BY <1>0, <1>1, <2>1, <2>2, <2>3 DEF IInv, Control, Captured, Ordered, Streamed
  <1>6. CASE RunLoopReturns \/ Join
    BY <1>0, <1>1, <1>6 DEF RunLoopReturns, Join, IInv, Control, Captured, Ordered, Streamed
  <1>7. CASE CloseReader \/ CloseWriter
    <2>1. /\ UNCHANGED <<stop_requested, loop_stopped, sender, event, callVars>>
          /\ UNCHANGED <<calling, holds, written, received>>
          /\ main \in {"close_reader", "close_writer"} /\ main' \in {"close_writer", "join"}
      BY <1>7 DEF CloseReader, CloseWriter, EventQueue!CloseReader, EventQueue!CloseWriter
    <2>2. QED
      BY <1>0, <1>1, <2>1 DEF IInv, Control, Captured, Ordered, Streamed
  <1>8. CASE Top \/ Connect \/ ConnectFails
    <2>1. /\ sender \in {"top", "connecting"}
          /\ sender' \in {"top", "connecting", "streaming", "done"}
          /\ connected' \in BOOLEAN
          /\ UNCHANGED <<mainVars, event, stream, got, lost, failed, channelVars>>
      BY <1>0, <1>8 DEF Top, Connect, ConnectFails, TestStop, Ordered
    <2>2. QED
      BY <1>0, <1>1, <2>1 DEF IInv, Control, Captured, Ordered, Streamed
  <1>9. CASE StreamReads
    <2>1. /\ calling' = [calling EXCEPT !["sender"] = TRUE]
          /\ sender = "streaming" /\ sender' = "reading"
          /\ UNCHANGED <<mainVars, event, callVars, holds, written, received>>
      BY <1>9 DEF StreamReads, EventQueue!EnterRead
    <2>2. calling'["main"] = calling["main"]
      BY <1>2, <2>1
    <2>3. QED
      BY <1>0, <1>1, <2>1, <2>2 DEF IInv, Control, Captured, Ordered, Streamed
  <1>10. CASE ReadReturns
    <2>1. /\ calling' = [calling EXCEPT !["sender"] = FALSE]
          /\ sender = "reading"
          /\ UNCHANGED <<mainVars, callVars, holds, written>>
      BY <1>10 DEF ReadReturns, EventQueue!Read, EventQueue!Return
    <2>2. calling'["main"] = calling["main"] /\ calling'["sender"] = FALSE
      BY <1>2, <2>1
    <2>3. DOMAIN status = {"main", "sender"}
      BY <1>0 DEF QueueProofs!IInv, QueueProofs!TypeOK, QueueProofs!Threads
    <2>4. CASE queue # <<>>
      <3>1. status'["sender"] = "OK" /\ received' = Append(received, Head(queue))
        BY <1>10, <2>3, <2>4 DEF ReadReturns, EventQueue!Read, EventQueue!Return
      <3>2. sender' = "sending" /\ event' = Head(queue)
        BY <1>10, <3>1 DEF ReadReturns
      <3>3. event' = Len(received) + 1 /\ event' \in Events
        BY <1>0, <2>4, <3>2, NextToRead
      <3>4. Len(received') = Len(received) + 1
        BY <1>2, <3>1
      <3>5. Control' /\ Captured'
        BY <1>0, <2>1, <2>2, <3>2, <3>3 DEF Control, Captured
      <3>6. \A e \in Range(got) \cup Range(stream) : e <= Len(received') /\ e < Len(received')
        <4>1. Range(got) \cup Range(stream) \subseteq Events /\ Events \subseteq Int
          BY <1>0, <3>3, RangeFacts DEF Ordered, Events
        <4>2. \A e \in Range(got) \cup Range(stream) : e \in Int /\ e <= Len(received)
          BY <1>0, <4>1 DEF Streamed
        <4>3. QED
          BY <1>2, <3>4, <4>2
      <3>7. \A e \in 1 .. Len(received') : e \in 1 .. Len(received) \/ e = event'
        BY <1>2, <3>3, <3>4
      <3>8. Streamed'
        BY <1>0, <2>1, <3>2, <3>3, <3>4, <3>6, <3>7 DEF Streamed
      <3>9. QED
        BY <1>0, <1>1, <2>1, <3>5, <3>8 DEF IInv, Ordered
    <2>5. CASE queue = <<>>
      <3>1. status'["sender"] # "OK" /\ received' = received
        BY <1>10, <2>3, <2>5 DEF ReadReturns, EventQueue!Read, EventQueue!Return
      <3>2. sender' = "finishing" /\ event' = event
        BY <1>10, <3>1 DEF ReadReturns
      <3>3. QED
        BY <1>0, <1>1, <2>1, <2>2, <3>1, <3>2 DEF IInv, Control, Captured, Ordered, Streamed
    <2>6. QED
      BY <2>4, <2>5
  <1>11. CASE Send
    <2>1. /\ sender = "sending" /\ sender' = "streaming" /\ stream' = Append(stream, event)
          /\ Len(stream) < Window /\ event = Len(received) /\ event \in Events
          /\ UNCHANGED <<mainVars, event, connected, got, lost, failed, channelVars>>
      BY <1>0, <1>11 DEF Send, Streamed
    <2>2. /\ stream \in Seq(Events) /\ Len(stream) \in Nat /\ DOMAIN stream = 1 .. Len(stream)
          /\ got \in Seq(Events) /\ Window \in Int
          /\ Range(stream) \subseteq Events /\ Range(got) \subseteq Events /\ Events \subseteq Int
      BY <1>0, <2>1, RangeFacts, ClientAssumption DEF Ordered, Events
    <2>3. /\ stream' \in Seq(Events) /\ Len(stream') = Len(stream) + 1
          /\ Range(stream') = Range(stream) \cup {event}
      BY <2>1, <2>2, RangeFacts
    <2>4. /\ DOMAIN stream' = 1 .. Len(stream) + 1
          /\ \A i \in DOMAIN stream' : i \in DOMAIN stream \/ i = Len(stream) + 1
          /\ \A i \in DOMAIN stream : stream'[i] = stream[i]
          /\ stream'[Len(stream) + 1] = event
      BY <2>1, <2>2, <2>3
    <2>5. /\ \A i \in DOMAIN stream : stream[i] \in Range(stream)
          /\ \A i \in DOMAIN got : got[i] \in Range(got)
      BY DEF Range
    <2>6. /\ \A i \in DOMAIN stream : stream[i] < event
          /\ \A i \in DOMAIN got : got[i] < event
      BY <1>0, <2>1, <2>5 DEF Streamed
    <2>7. ASSUME NEW i \in DOMAIN stream', NEW j \in DOMAIN stream', i < j
          PROVE  stream'[i] < stream'[j]
      <3>1. i \in DOMAIN stream
        BY <2>2, <2>4, <2>7
      <3>2. QED
        BY <1>0, <2>4, <2>6, <2>7, <3>1 DEF Ordered
    <2>8. ASSUME NEW i \in DOMAIN got', NEW j \in DOMAIN stream'
          PROVE  got'[i] < stream'[j]
      BY <1>0, <2>1, <2>4, <2>6, <2>8 DEF Ordered
    <2>9. Len(stream') <= Window
      BY <2>1, <2>2, <2>3
    <2>10. Ordered'
      BY <1>0, <2>1, <2>3, <2>7, <2>8, <2>9 DEF Ordered
    <2>11. ASSUME NEW e \in Range(got') \cup Range(stream') PROVE e <= Len(received')
      <3>1. e \in Range(got) \cup Range(stream) \/ e = event
        BY <2>1, <2>3
      <3>2. QED
        BY <1>0, <1>2, <2>1, <2>2, <3>1 DEF Streamed
    <2>12. Streamed'
      BY <1>0, <2>1, <2>3, <2>11 DEF Streamed
    <2>13. Control' /\ Captured'
      BY <1>0, <2>1 DEF Control, Captured
    <2>14. QED
      BY <1>1, <2>10, <2>12, <2>13 DEF IInv
  <1>12. CASE SendFails
    <2>1. /\ sender = "sending" /\ sender' = "top" /\ failed' = failed \cup {event}
          /\ event \in Events
          /\ UNCHANGED <<mainVars, event, connected, stream, got, lost, channelVars>>
      BY <1>0, <1>12 DEF SendFails, Streamed
    <2>2. Streamed'
      BY <1>0, <2>1 DEF Streamed
    <2>3. Control' /\ Captured' /\ Ordered'
      BY <1>0, <2>1 DEF Control, Captured, Ordered
    <2>4. QED
      BY <1>1, <2>2, <2>3 DEF IInv
  <1>13. CASE FinishFails \/ Answer
    <2>1. /\ sender = "finishing" /\ sender' = "done" /\ connected' \in BOOLEAN
          /\ UNCHANGED <<mainVars, event, stream, got, lost, failed, channelVars>>
      BY <1>0, <1>13 DEF FinishFails, Answer, Ordered
    <2>2. QED
      BY <1>0, <1>1, <2>1 DEF IInv, Control, Captured, Ordered, Streamed
  <1>14. CASE StreamStops \/ Break
    <2>1. /\ sender' = sender \/ (sender = "streaming" /\ sender' = "top")
          /\ connected' = FALSE /\ lost' = lost \cup Range(stream) /\ stream' = <<>>
          /\ UNCHANGED <<mainVars, event, got, failed, channelVars>>
      BY <1>14 DEF StreamStops, Break, Disconnect
    <2>2. Range(stream') = {} /\ stream' \in Seq(Events) /\ Len(stream') = 0 /\ DOMAIN stream' = {}
      BY <2>1 DEF Range
    <2>3. Range(stream) \subseteq Events
      BY <1>0 DEF Ordered, Range
    <2>4. Streamed'
      BY <1>0, <2>1, <2>2, <2>3 DEF Streamed
    <2>5. Ordered'
      <3>1. 0 <= Window
        BY ClientAssumption
      <3>2. got' = got /\ connected' = FALSE
        BY <2>1
      <3>3. QED
        BY <1>0, <2>2, <3>1, <3>2 DEF Ordered
    <2>6. Control' /\ Captured'
      BY <1>0, <2>1 DEF Control, Captured
    <2>7. QED
      BY <1>1, <2>4, <2>5, <2>6 DEF IInv
  <1>15. CASE Take
    <2>1. /\ stream # <<>> /\ got' = Append(got, Head(stream)) /\ stream' = Tail(stream)
          /\ UNCHANGED <<mainVars, sender, event, connected, lost, failed, channelVars>>
      BY <1>15 DEF Take
    <2>2. /\ got \in Seq(Events) /\ stream \in Seq(Events)
          /\ DOMAIN got = 1 .. Len(got) /\ Len(got) \in Nat /\ Len(stream) \in Nat /\ Window \in Int
      BY <1>0, ClientAssumption DEF Ordered
    <2>3. /\ stream' \in Seq(Events) /\ Len(stream') = Len(stream) - 1
          /\ Head(stream) = stream[1] /\ 1 \in DOMAIN stream /\ Head(stream) \in Events
          /\ Range(stream) = {Head(stream)} \cup Range(stream')
          /\ \A i \in DOMAIN stream' :
               i \in Nat /\ i + 1 \in DOMAIN stream /\ i + 1 # 1 /\ stream'[i] = stream[i + 1]
      BY <2>1, <2>2, HeadTailProperties, RangeFacts
    <2>4. /\ got' \in Seq(Events) /\ Len(got') = Len(got) + 1
          /\ Range(got') = Range(got) \cup {Head(stream)}
      BY <2>1, <2>2, <2>3, RangeFacts
    <2>5. /\ \A i \in DOMAIN got' : i \in DOMAIN got \/ i = Len(got) + 1
          /\ \A i \in DOMAIN got : got'[i] = got[i]
          /\ got'[Len(got) + 1] = stream[1]
      BY <2>1, <2>2, <2>3, <2>4
    <2>6. ASSUME NEW i \in DOMAIN got', NEW j \in DOMAIN got', i < j
          PROVE  got'[i] < got'[j]
      <3>1. i \in DOMAIN got
        BY <2>2, <2>4, <2>5, <2>6
      <3>2. QED
        BY <1>0, <2>3, <2>5, <2>6, <3>1 DEF Ordered
    <2>7. ASSUME NEW i \in DOMAIN stream', NEW j \in DOMAIN stream', i < j
          PROVE  stream'[i] < stream'[j]
      BY <1>0, <2>3, <2>7 DEF Ordered
    <2>8. ASSUME NEW i \in DOMAIN got', NEW j \in DOMAIN stream'
          PROVE  got'[i] < stream'[j]
      <3>1. stream'[j] = stream[j + 1] /\ j + 1 \in DOMAIN stream /\ 1 < j + 1
        BY <2>3, <2>8
      <3>2. QED
        BY <1>0, <2>3, <2>5, <3>1 DEF Ordered
    <2>9. Len(stream') <= Window
      BY <1>0, <2>2, <2>3 DEF Ordered
    <2>10. Ordered'
      BY <1>0, <2>1, <2>3, <2>4, <2>6, <2>7, <2>8, <2>9 DEF Ordered
    <2>11. Range(got') \cup Range(stream') = Range(got) \cup Range(stream)
      BY <2>3, <2>4
    <2>12. Streamed'
      BY <1>0, <2>1, <2>11 DEF Streamed
    <2>13. Control' /\ Captured'
      BY <1>0, <2>1 DEF Control, Captured
    <2>14. QED
      BY <1>1, <2>10, <2>12, <2>13 DEF IInv
  <1>16. CASE UNCHANGED vars
    BY <1>0, <1>1, <1>16 DEF vars, IInv, Control, Captured, Ordered, Streamed
  <1>17. QED
    BY <1>3, <1>4, <1>5, <1>6, <1>7, <1>8, <1>9, <1>10, <1>11, <1>12, <1>13, <1>14, <1>15, <1>16
       DEF Next, MainThread, SenderThread, Server

(* In every state of the client each event read is accounted for.           *)
THEOREM Invariance == Spec => []IInv
  BY InitIInv, NextIInv, PTL DEF Spec

-----------------------------------------------------------------------------
(* The server gets the events in the order they were captured, each once,   *)
(* and misses of those read only what failed, or what gRPC had when the     *)
(* connection broke or Ctrl+C dropped the call.                             *)
THEOREM InOrder == Spec => []StreamedInOrder
  <1>1. IInv => EventQueue!TypeOK
    BY DEF IInv, QueueProofs!IInv, QueueProofs!TypeOK, QueueProofs!Threads,
       QueueProofs!Statuses, EventQueue!TypeOK, EventQueue!Threads, EventQueue!Statuses
  <1>2. IInv => StreamedInOrder
    BY <1>1 DEF IInv, Control, Ordered, Streamed, StreamedInOrder, TypeOK
  <1>3. QED
    BY Invariance, <1>2, PTL

(* The client is a legal user of its queue.                                 *)
THEOREM ClientOfQueue == Spec => EventQueue!Spec
  <1>1. Init => EventQueue!Init
    BY DEF Init
  <1>2. IInv /\ [Next]_vars => [EventQueue!Next]_(EventQueue!channelVars)
    BY QueueSteps DEF IInv, channelVars, EventQueue!channelVars
  <1>3. QED
    BY Invariance, <1>1, <1>2, PTL DEF Spec, EventQueue!Spec
=============================================================================
