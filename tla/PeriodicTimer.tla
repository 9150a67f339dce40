--------------------------- MODULE PeriodicTimer ---------------------------
(***************************************************************************)
(* One PeriodicTimer (src/periodic-timer.cc): a serial dispatch queue runs *)
(* the tick handler and, once, the cancel handler, while other threads     *)
(* call Cancel() and finally the destructor.  A step is one access to an   *)
(* atomic member, one call of libdispatch or one callback of the user, so  *)
(* every interleaving of the two sides that the memory model allows is a   *)
(* behaviour (the atomics are sequentially consistent).                    *)
(***************************************************************************)
EXTENDS Naturals, Sequences

CONSTANT Callers          \* threads that may call Cancel() or the destructor

VARIABLES
  stop_requested,         \* std::atomic_flag
  stop_reason,            \* std::atomic<PeriodicTimerStopReason>
  stopped,                \* std::atomic<bool>
  source_cancelled,       \* dispatch_source_cancel(timer_) has been called
  queue,                  \* where the dispatch queue's thread is
  pc,                     \* where each caller is
  lifetime,               \* of the C++ object
  winner,                 \* history: who set stop_requested first
  finish_asked,           \* history: a tick callback returned kFinishTimer
  reports,                \* history: arguments of the stopped callback calls
  cancel_returned         \* history: a call of Cancel() has returned

vars == <<stop_requested, stop_reason, stopped, source_cancelled, queue, pc,
          lifetime, winner, finish_asked, reports, cancel_returned>>
flags == <<stop_requested, stop_reason, stopped, source_cancelled>>
history == <<winner, finish_asked, reports, cancel_returned>>

Reasons == {"kFinished", "kCancelled"}

\* The cancel handler is the last block the queue runs for this timer.
CancelHandler == {"check", "report", "store", "notify"}
TickHandler   == {"test", "callback", "finish_tas", "finish_reason", "finish_source"}
QueuePlaces   == {"idle", "done", "fatal"} \cup CancelHandler \cup TickHandler
CallerPlaces  == {"idle", "tas", "reason", "source", "wait", "asleep"}

TypeOK ==
  /\ stop_requested \in BOOLEAN
  /\ stop_reason \in Reasons
  /\ stopped \in BOOLEAN
  /\ source_cancelled \in BOOLEAN
  /\ queue \in QueuePlaces
  /\ pc \in [Callers -> CallerPlaces]
  /\ lifetime \in {"live", "destroying", "released"}
  /\ winner \in {"none", "queue", "caller"}
  /\ finish_asked \in BOOLEAN
  /\ reports \in Seq(Reasons)
  /\ cancel_returned \in BOOLEAN

\* Mutant: the default member initialiser of stop_reason_ is missing.
InitNoReason ==
  /\ stop_requested = FALSE /\ stopped = FALSE /\ source_cancelled = FALSE
  /\ stop_reason = "indeterminate"
  /\ queue = "idle" /\ pc = [c \in Callers |-> "idle"] /\ lifetime = "live"
  /\ winner = "none" /\ finish_asked = FALSE
  /\ reports = <<>> /\ cancel_returned = FALSE

\* The constructor: everything is set up before dispatch_resume lets the
\* queue touch the object, so the object appears in one step.  (A period of
\* zero ends the process before there is a timer.)
Init ==
  /\ stop_requested = FALSE
  /\ stop_reason = "kCancelled"
  /\ stopped = FALSE
  /\ source_cancelled = FALSE
  /\ queue = "idle"
  /\ pc = [c \in Callers |-> "idle"]
  /\ lifetime = "live"
  /\ winner = "none"
  /\ finish_asked = FALSE
  /\ reports = <<>>
  /\ cancel_returned = FALSE

-----------------------------------------------------------------------------
\* libdispatch: an event handler may start only while the source is not
\* cancelled; after the cancellation the cancel handler is run once.

FireTick ==
  /\ queue = "idle" /\ ~source_cancelled
  /\ queue' = "test"
  /\ UNCHANGED <<flags, pc, lifetime, history>>

FireCancelHandler ==
  /\ queue = "idle" /\ source_cancelled
  /\ queue' = "check"
  /\ UNCHANGED <<flags, pc, lifetime, history>>

-----------------------------------------------------------------------------
\* HandleTick()

TestStopRequested ==
  /\ queue = "test"
  /\ queue' = IF stop_requested THEN "idle" ELSE "callback"
  /\ UNCHANGED <<flags, pc, lifetime, history>>

TickCallback(finish) ==
  /\ queue = "callback"
  /\ queue' = IF finish THEN "finish_tas" ELSE "idle"
  /\ finish_asked' = (finish_asked \/ finish)
  /\ UNCHANGED <<flags, pc, lifetime, winner, reports, cancel_returned>>

\* Mutant: a tick that finishes the timer ignores that Cancel() came first.
FinishSet ==
  /\ queue = "finish_tas"
  /\ stop_requested' = TRUE
  /\ queue' = "finish_reason"
  /\ winner' = IF stop_requested THEN winner ELSE "queue"
  /\ UNCHANGED <<stop_reason, stopped, source_cancelled, pc, lifetime,
                 finish_asked, reports, cancel_returned>>

FinishTestAndSet ==
  /\ queue = "finish_tas"
  /\ stop_requested' = TRUE
  /\ IF stop_requested
       THEN queue' = "idle" /\ UNCHANGED winner
       ELSE queue' = "finish_reason" /\ winner' = "queue"
  /\ UNCHANGED <<stop_reason, stopped, source_cancelled, pc, lifetime,
                 finish_asked, reports, cancel_returned>>

FinishStoreReason ==
  /\ queue = "finish_reason"
  /\ stop_reason' = "kFinished"
  /\ queue' = "finish_source"
  /\ UNCHANGED <<stop_requested, stopped, source_cancelled, pc, lifetime, history>>

FinishCancelSource ==
  /\ queue = "finish_source"
  /\ source_cancelled' = TRUE
  /\ queue' = "idle"
  /\ UNCHANGED <<stop_requested, stop_reason, stopped, pc, lifetime, history>>

-----------------------------------------------------------------------------
\* The cancel handler

\* Mutant: stopped_ is stored before the stopped callback is run.
CheckAndStore ==
  /\ queue = "check"
  /\ stop_requested' = TRUE
  /\ stopped' = TRUE
  /\ queue' = IF stop_requested THEN "report" ELSE "fatal"
  /\ UNCHANGED <<stop_reason, source_cancelled, pc, lifetime, history>>

CheckStopRequested ==
  /\ queue = "check"
  /\ stop_requested' = TRUE
  /\ queue' = IF stop_requested THEN "report" ELSE "fatal"
  /\ UNCHANGED <<stop_reason, stopped, source_cancelled, pc, lifetime, history>>

StoppedCallback ==
  /\ queue = "report"
  /\ reports' = Append(reports, stop_reason)
  /\ queue' = "store"
  /\ UNCHANGED <<flags, pc, lifetime, winner, finish_asked, cancel_returned>>

\* Mutant: notify_all() is forgotten.
StoreWithoutNotify ==
  /\ queue = "store"
  /\ stopped' = TRUE
  /\ queue' = "done"
  /\ UNCHANGED <<stop_requested, stop_reason, source_cancelled, pc, lifetime, history>>

StoreStopped ==
  /\ queue = "store"
  /\ stopped' = TRUE
  /\ queue' = "notify"
  /\ UNCHANGED <<stop_requested, stop_reason, source_cancelled, pc, lifetime, history>>

NotifyAll ==
  /\ queue = "notify"
  /\ pc' = [c \in Callers |-> IF pc[c] = "asleep" THEN "wait" ELSE pc[c]]
  /\ queue' = "done"
  /\ UNCHANGED <<flags, lifetime, history>>

-----------------------------------------------------------------------------
\* Cancel(), and the destructor, which is Cancel() and two releases.  Nobody
\* may call into an object that is being destroyed.

Goto(c, place) == pc' = [pc EXCEPT ![c] = place]

CallCancel(c) ==
  /\ lifetime = "live" /\ pc[c] = "idle"
  /\ Goto(c, "tas")
  /\ UNCHANGED <<flags, queue, lifetime, history>>

CallDestructor(c) ==
  /\ lifetime = "live" /\ \A d \in Callers : pc[d] = "idle"
  /\ lifetime' = "destroying"
  /\ Goto(c, "tas")
  /\ UNCHANGED <<flags, queue, history>>

\* Mutant: Cancel() returns at once when the timer is already stopping.
CancelTestAndReturn(c) ==
  /\ pc[c] = "tas"
  /\ stop_requested' = TRUE
  /\ IF stop_requested
       THEN Goto(c, "idle") /\ cancel_returned' = TRUE /\ UNCHANGED winner
       ELSE Goto(c, "reason") /\ winner' = "caller" /\ UNCHANGED cancel_returned
  /\ UNCHANGED <<stop_reason, stopped, source_cancelled, queue, lifetime,
                 finish_asked, reports>>

CancelTestAndSet(c) ==
  /\ pc[c] = "tas"
  /\ stop_requested' = TRUE
  /\ IF stop_requested
       THEN Goto(c, "wait") /\ UNCHANGED winner
       ELSE Goto(c, "reason") /\ winner' = "caller"
  /\ UNCHANGED <<stop_reason, stopped, source_cancelled, queue, lifetime,
                 finish_asked, reports, cancel_returned>>

CancelStoreReason(c) ==
  /\ pc[c] = "reason"
  /\ stop_reason' = "kCancelled"
  /\ Goto(c, "source")
  /\ UNCHANGED <<stop_requested, stopped, source_cancelled, queue, lifetime, history>>

CancelSource(c) ==
  /\ pc[c] = "source"
  /\ source_cancelled' = TRUE
  /\ Goto(c, "wait")
  /\ UNCHANGED <<stop_requested, stop_reason, stopped, queue, lifetime, history>>

\* stopped_.wait(false): compare and sleep are one step against notify_all.
WaitSleep(c) ==
  /\ pc[c] = "wait" /\ ~stopped
  /\ Goto(c, "asleep")
  /\ UNCHANGED <<flags, queue, lifetime, history>>

WaitReturn(c) ==
  /\ pc[c] = "wait" /\ stopped
  /\ Goto(c, "idle")
  /\ lifetime' = IF lifetime = "destroying" THEN "released" ELSE lifetime
  /\ cancel_returned' = TRUE
  /\ UNCHANGED <<flags, queue, winner, finish_asked, reports>>

-----------------------------------------------------------------------------
Tick == TestStopRequested \/ (\E finish \in BOOLEAN : TickCallback(finish))
          \/ FinishTestAndSet \/ FinishStoreReason \/ FinishCancelSource

Stop == CheckStopRequested \/ StoppedCallback \/ StoreStopped \/ NotifyAll

Cancel(c) == CancelTestAndSet(c) \/ CancelStoreReason(c) \/ CancelSource(c)
               \/ WaitSleep(c) \/ WaitReturn(c)

Next ==
  \/ FireTick \/ FireCancelHandler \/ Tick \/ Stop
  \/ \E c \in Callers : CallCancel(c) \/ CallDestructor(c) \/ Cancel(c)

Spec == Init /\ [][Next]_vars

\* The queue's thread runs what was submitted to it, callbacks return, and a
\* thread inside Cancel() goes on; nobody is obliged to call it, and a timer
\* source need not fire.
Fairness == /\ WF_vars(Tick) /\ WF_vars(Stop) /\ WF_vars(FireCancelHandler)
            /\ \A c \in Callers : WF_vars(Cancel(c))

FairSpec == Spec /\ Fairness

-----------------------------------------------------------------------------
\* Properties

\* A callback of the user is running.
InCallback == queue \in {"callback", "report"}

\* Once a call of Cancel() has returned no callback runs or will run: the
\* animator frees what the callbacks captured (swipe-animator.cc:134-151).
QuietAfterCancel == cancel_returned => ~InCallback /\ Len(reports) = 1

\* periodic-timer.h:51: Cancel() "blocks until the timer is guaranteed to no
\* longer be executing": no block of the timer runs on the queue after it.
NotExecutingAfterCancel == cancel_returned => queue \in {"idle", "done"}

\* The stopped callback is called at most once, and the reason it is given is
\* that of whoever set stop_requested_ first, kFinished only after a tick
\* asked for it: SwipeAnimator commits the gesture on kFinished.
ReportsTheWinner ==
  /\ Len(reports) <= 1
  /\ \A i \in DOMAIN reports :
       /\ winner # "none"
       /\ (reports[i] = "kFinished") = (winner = "queue")
       /\ winner = "queue" => finish_asked

\* The check in the cancel handler (cc:30-32) can never fail.
NeverFatal == queue # "fatal"

\* Every thread that enters Cancel() returns from it: no wakeup is lost.
CancelReturns == \A c \in Callers : pc[c] # "idle" ~> pc[c] = "idle"

\* The detailed timer implements its contract: the callbacks are the
\* contract's, and the outcome is decided by the stop reason that the cancel
\* handler finds when it starts the stopped callback.
Running == IF queue = "callback" THEN "tick"
           ELSE IF queue = "report" THEN "stopped" ELSE "none"
Outcome == IF queue = "report" THEN stop_reason
           ELSE IF reports = <<>> THEN "none" ELSE reports[1]
CancelAsked == cancel_returned \/ \E c \in Callers : pc[c] # "idle"

Contract == INSTANCE TimerContract WITH
  running <- Running, outcome <- Outcome, cancel_asked <- CancelAsked

ImplementsContract == Contract!Spec
=============================================================================
