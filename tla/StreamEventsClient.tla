------------------------- MODULE StreamEventsClient -------------------------
(***************************************************************************)
(* tools/stream-events-client.cc: the event tap's callback, on the main    *)
(* thread's run loop, writes the swipe events it captures into a Channel;  *)
(* a sender thread reads them and streams them to a server; Ctrl+C stops   *)
(* both.  The server, the run loop and the signal are external, and so is  *)
(* gRPC: it takes messages over while they fit its window, and sends them  *)
(* on as the server takes them; those it still has are lost when the       *)
(* connection breaks or the client drops the call.                         *)
(***************************************************************************)
EXTENDS Integers, Sequences, Functions

CONSTANTS
  Capacity,             \* of the event queue: 1000
  Window,               \* external: messages gRPC takes over before Write() blocks
  MaxEvents,            \* bound: events captured
  NoEvent

ASSUME ClientAssumption ==
  /\ {Capacity, Window} \subseteq Nat \ {0}
  /\ MaxEvents \in Nat /\ NoEvent \notin 1 .. MaxEvents

VARIABLES
  stop_requested,
  loop_stopped,         \* CFRunLoopStop has been called
  main,                 \* where the main thread is
  sender,               \* where SenderThreadLoop is
  event,                \* the event the sender has read
  connected,            \* the sender has a call, and its connection is not broken
  stream,               \* events gRPC has taken over and the server has not got
  got, lost, failed,    \* history: events the server got, those gRPC lost, and
                        \* those whose Write() failed
  \* of the event queue (Channel)
  queue, writer_closed, reader_closed, calling, holds, status, written, received

channelVars == <<queue, writer_closed, reader_closed, calling, holds, status,
                 written, received>>
mainVars == <<stop_requested, loop_stopped, main>>
callVars == <<connected, stream, got, lost, failed>>
vars == <<mainVars, sender, event, callVars, channelVars>>

Events == 1 .. MaxEvents

EventQueue == INSTANCE Channel WITH
  Writers <- {"main"}, Readers <- {"sender"}, Values <- Events,
  NoValue <- NoEvent, MaxWritten <- MaxEvents

TypeOK ==
  /\ EventQueue!TypeOK
  /\ stop_requested \in BOOLEAN
  /\ loop_stopped \in BOOLEAN
  /\ main \in {"run_loop", "callback", "close_reader", "close_writer", "join", "exited"}
  /\ sender \in {"top", "connecting", "streaming", "reading", "sending", "finishing", "done"}
  /\ event \in Events \cup {NoEvent}
  /\ connected \in BOOLEAN
  /\ {stream, got} \subseteq Seq(Events) /\ Len(stream) <= Window
  /\ lost \subseteq Events /\ failed \subseteq Events

\* The main thread has started the sender and entered CFRunLoopRun.
Init ==
  /\ EventQueue!Init
  /\ stop_requested = FALSE
  /\ loop_stopped = FALSE
  /\ main = "run_loop"
  /\ sender = "top"
  /\ event = NoEvent
  /\ connected = FALSE
  /\ stream = <<>> /\ got = <<>>
  /\ lost = {} /\ failed = {}

-----------------------------------------------------------------------------
\* Ctrl+C: SignalHandler runs on whatever thread the signal interrupts.

\* Mutant: the signal only stops the run loop.
SignalLoopOnly ==
  /\ loop_stopped' = TRUE
  /\ UNCHANGED <<stop_requested, main, sender, event, callVars, channelVars>>

SignalHandler ==
  /\ stop_requested' = TRUE
  /\ loop_stopped' = TRUE
  /\ UNCHANGED <<main, sender, event, callVars, channelVars>>

-----------------------------------------------------------------------------
\* The main thread

\* The callback calls Write() with the next event of the OS.
Callback ==
  /\ main = "run_loop" /\ ~loop_stopped
  /\ EventQueue!EnterWrite("main", Len(written) + 1)
  /\ main' = "callback"
  /\ UNCHANGED <<stop_requested, loop_stopped, sender, event, callVars>>

CallbackReturns ==
  /\ main = "callback"
  /\ EventQueue!Write("main")
  /\ main' = "run_loop"
  /\ UNCHANGED <<stop_requested, loop_stopped, sender, event, callVars>>

RunLoopReturns ==
  /\ main = "run_loop" /\ loop_stopped
  /\ main' = "close_reader"
  /\ UNCHANGED <<stop_requested, loop_stopped, sender, event, callVars, channelVars>>

CloseReader ==
  /\ main = "close_reader"
  /\ EventQueue!CloseReader
  /\ main' = "close_writer"
  /\ UNCHANGED <<stop_requested, loop_stopped, sender, event, callVars>>

CloseWriter ==
  /\ main = "close_writer"
  /\ EventQueue!CloseWriter
  /\ main' = "join"
  /\ UNCHANGED <<stop_requested, loop_stopped, sender, event, callVars>>

Join ==
  /\ main = "join" /\ sender = "done"
  /\ main' = "exited"
  /\ UNCHANGED <<stop_requested, loop_stopped, sender, event, callVars, channelVars>>

-----------------------------------------------------------------------------
\* The sender thread

TestStop(from, stopped, going) ==
  /\ sender = from
  /\ sender' = IF stop_requested THEN stopped ELSE going

\* The outer loop's test.
Top ==
  /\ TestStop("top", "done", "connecting")
  /\ UNCHANGED <<mainVars, event, callVars, channelVars>>

\* WaitForConnected succeeds, or fails and stop_requested is tested again, or
\* the stream cannot be created; both failures sleep before the next attempt.
Connect ==
  /\ sender = "connecting" /\ sender' = "streaming"
  /\ connected' = TRUE
  /\ UNCHANGED <<mainVars, event, stream, got, lost, failed, channelVars>>

ConnectFails ==
  /\ \/ sender = "connecting" /\ sender' = "top"
     \/ TestStop("connecting", "done", "top")
  /\ UNCHANGED <<mainVars, event, callVars, channelVars>>

\* What gRPC still has of a call that breaks or is dropped is lost.
Disconnect ==
  /\ connected' = FALSE
  /\ lost' = lost \cup Range(stream)
  /\ stream' = <<>>
  /\ UNCHANGED got

\* The inner loop's test, and the call of Read().  A stop destroys the writer and
\* its context without WritesDone() and Finish(), which cancels the call.
StreamStops ==
  /\ sender = "streaming" /\ stop_requested
  /\ sender' = "top"
  /\ Disconnect
  /\ UNCHANGED <<mainVars, event, failed, channelVars>>

StreamReads ==
  /\ sender = "streaming" /\ ~stop_requested
  /\ EventQueue!EnterRead("sender")
  /\ sender' = "reading"
  /\ UNCHANGED <<mainVars, event, callVars>>

\* Mutant: the status of Read() is not looked at.
ReadReturnsUnchecked ==
  /\ sender = "reading"
  /\ EventQueue!Read("sender")
  /\ sender' = "sending"
  /\ event' = IF queue # <<>> THEN Head(queue) ELSE event
  /\ UNCHANGED <<mainVars, callVars>>

\* A closed queue ends the stream and the thread: WritesDone() and Finish().
ReadReturns ==
  /\ sender = "reading"
  /\ EventQueue!Read("sender")
  /\ IF status'["sender"] = "OK"
       THEN sender' = "sending" /\ event' = Head(queue)
       ELSE sender' = "finishing" /\ UNCHANGED event
  /\ UNCHANGED <<mainVars, callVars>>

\* writer->Write() blocks while gRPC has its window full.  TRUE says that gRPC
\* has taken the event over, not that the server will get it.
Send ==
  /\ sender = "sending" /\ connected /\ Len(stream) < Window
  /\ stream' = Append(stream, event)
  /\ sender' = "streaming"
  /\ UNCHANGED <<mainVars, event, connected, got, lost, failed, channelVars>>

\* FALSE: the connection is broken, the event is gone and the sender reconnects.
SendFails ==
  /\ sender = "sending" /\ ~connected
  /\ failed' = failed \cup {event}
  /\ sender' = "top"
  /\ UNCHANGED <<mainVars, event, connected, stream, got, lost, channelVars>>

\* Finish() blocks until the server has answered, or the connection is broken.
FinishFails ==
  /\ sender = "finishing" /\ ~connected
  /\ sender' = "done"
  /\ UNCHANGED <<mainVars, event, callVars, channelVars>>

-----------------------------------------------------------------------------
\* External: the server and the connection

\* The server gets the oldest event gRPC has.
Take ==
  /\ stream # <<>>
  /\ got' = Append(got, Head(stream)) /\ stream' = Tail(stream)
  /\ UNCHANGED <<mainVars, sender, event, connected, lost, failed, channelVars>>

\* Having got everything, it answers, and Finish() returns.
Answer ==
  /\ sender = "finishing" /\ connected /\ stream = <<>>
  /\ sender' = "done" /\ connected' = FALSE
  /\ UNCHANGED <<mainVars, event, stream, got, lost, failed, channelVars>>

\* The network fails, or the server ends the call.
Break ==
  /\ connected
  /\ Disconnect
  /\ UNCHANGED <<mainVars, sender, event, failed, channelVars>>

-----------------------------------------------------------------------------
MainThread == CallbackReturns \/ RunLoopReturns \/ CloseReader \/ CloseWriter \/ Join
SenderThread ==
  \/ Top \/ Connect \/ ConnectFails
  \/ StreamStops \/ StreamReads \/ ReadReturns \/ Send \/ SendFails \/ FinishFails
Server == Take \/ Answer

Next == SignalHandler \/ Callback \/ MainThread \/ SenderThread \/ Server \/ Break

Spec == Init /\ [][Next]_vars

\* Both threads run whenever they are not blocked: connecting and sleeping end by
\* themselves, while Write() and Finish() wait for the server without a deadline.
\* No event and no Ctrl+C need come, and the server need do nothing.
FairSpec == Spec /\ WF_vars(MainThread) /\ WF_vars(SenderThread)

-----------------------------------------------------------------------------
\* Properties

\* The server gets the events in the order they were captured, none twice, and
\* of the events read off the queue it misses only those whose Write() failed
\* and those gRPC had when a connection broke or Ctrl+C dropped it: across
\* reconnections the client skips, repeats and reorders nothing.
StreamedInOrder ==
  /\ TypeOK
  /\ \A i, j \in DOMAIN got : i < j => got[i] < got[j]
  /\ \A e \in 1 .. Len(received) :
       \/ e \in Range(got) \cup Range(stream) \cup lost \cup failed
       \/ sender = "sending" /\ e = event

\* A server that goes on taking events and answers at the end.
RespondingServer == WF_vars(Server)

\* Once the run loop has returned the client exits, if its server responds: the
\* sender, wherever it is, reading, connecting, blocked in Write() or sleeping,
\* sees the stop or the closed queue, or the broken connection.  (A server that
\* stalls with the connection up keeps the client: Write() and Finish() have no
\* deadline, and Join waits for them.)
ShutdownCompletes ==
  RespondingServer => (main = "close_reader" ~> main = "exited")

\* stream-events-client.cc:158: "Press Ctrl+C to stop."  With a server that
\* responds, at least.
CtrlCStops == RespondingServer => (stop_requested ~> main = "exited")
=============================================================================
