--------------------------- MODULE SwipeAnimator ---------------------------
(***************************************************************************)
(* A SwipeAnimator (engine/swipe-animator.cc): the thread of the event tap *)
(* moves, animates, stops and destroys it, while the dispatch queue of the *)
(* current PeriodicTimer runs the tick and stopped callbacks.  The timer   *)
(* is its contract, which PeriodicTimer implements.  The operation's mutex *)
(* makes each of its methods one step.                                     *)
(***************************************************************************)
EXTENDS Naturals

CONSTANTS
  Positions,      \* of the operation, and goals of animations
  MaxFrames       \* frames after which an animation's duration has elapsed

ASSUME AnimatorAssumption == MaxFrames \in Nat

VARIABLES
  \* of the current timer (TimerContract), at their initial values without one
  running, outcome, finish_asked, cancel_asked, cancel_returned,
  timer,          \* timer_ is not null
  frames,         \* frames of the current animation, for its elapsed time
  future,         \* pending_future_: "invalid", "pending", or its value
  goal,           \* target_position of the current animation
  position,       \* of the operation
  op_committed,   \* the operation's is_committed_
  call, argument, \* the method the owner is in, and its position argument
  place,          \* where in it
  status,         \* what the latest call returned
  destroyed

timerVars == <<running, outcome, finish_asked, cancel_asked, cancel_returned>>
animation == <<timer, frames, goal>>
operation == <<position, op_committed>>
owner     == <<call, argument, place, status, destroyed>>
vars      == <<timerVars, animation, future, operation, owner>>

Timer == INSTANCE TimerContract

Calls == {"SetPosition", "AnimateToPosition", "CancelAnimation", "~SwipeAnimator"}
Results == {"kCancelled", "kCommitted"}

TypeOK ==
  /\ running \in {"none", "tick", "stopped"}
  /\ outcome \in {"none", "kFinished", "kCancelled"}
  /\ {finish_asked, cancel_asked, cancel_returned} \subseteq BOOLEAN
  /\ timer \in BOOLEAN
  /\ frames \in 0 .. MaxFrames + 1
  /\ future \in {"invalid", "pending"} \cup Results
  /\ goal \in Positions
  /\ position \in Positions
  /\ op_committed \in BOOLEAN
  /\ call \in Calls \cup {"none"}
  /\ argument \in Positions
  /\ place \in {"outside", "reset", "wait", "get", "proceed"}
  /\ status \in Results \cup {"none", "ok", "FailedPrecondition"}
  /\ destroyed \in BOOLEAN

Init ==
  /\ Timer!Init
  /\ timer = FALSE
  /\ frames = 0
  /\ future = "invalid"
  /\ position \in Positions
  /\ goal = position
  /\ op_committed = FALSE
  /\ call = "none"
  /\ argument = position
  /\ place = "outside"
  /\ status = "none"
  /\ destroyed = FALSE

-----------------------------------------------------------------------------
\* The timer's queue

\* The timer fires until it is stopped.
TickBegin ==
  /\ timer
  /\ Timer!BeginTick
  /\ UNCHANGED <<animation, future, operation, owner>>

\* Mutant: the last frame shows the interpolated position, not the goal.
TickInterpolated(p) ==
  /\ Timer!EndTick(p = goal \/ frames >= MaxFrames)
  /\ position' = p
  /\ frames' = IF frames > MaxFrames THEN frames ELSE frames + 1
  /\ UNCHANGED <<timer, goal, future, op_committed, owner>>

\* Mutant: an animation whose duration has elapsed goes on.
TickEndless(p) ==
  /\ frames >= MaxFrames => p = goal
  /\ Timer!EndTick(FALSE)
  /\ position' = p
  /\ frames' = IF frames > MaxFrames THEN frames ELSE frames + 1
  /\ UNCHANGED <<timer, goal, future, op_committed, owner>>

\* The tick callback: the position of this frame, which the easing function
\* may put anywhere, or the goal when the duration has elapsed.
Tick(p) ==
  /\ frames >= MaxFrames => p = goal
  /\ Timer!EndTick(p = goal)
  /\ position' = p
  /\ frames' = IF frames > MaxFrames THEN frames ELSE frames + 1
  /\ UNCHANGED <<timer, goal, future, op_committed, owner>>

StoppedBegin(reason) ==
  /\ timer
  /\ Timer!BeginStopped(reason)
  /\ UNCHANGED <<animation, future, operation, owner>>

\* The stopped callback of a finished animation commits the operation first.
StoppedCommit ==
  /\ running = "stopped" /\ outcome = "kFinished" /\ ~op_committed
  /\ op_committed' = TRUE
  /\ UNCHANGED <<timerVars, animation, future, position, owner>>

\* Mutant: a cancelled animation does not keep its promise.
StoppedPromiseFinishedOnly ==
  /\ outcome = "kFinished" => op_committed
  /\ Timer!EndStopped
  /\ future' = IF outcome = "kFinished" THEN "kCommitted" ELSE future
  /\ UNCHANGED <<animation, operation, owner>>

\* ... and then keeps the promise.
StoppedPromise ==
  /\ outcome = "kFinished" => op_committed
  /\ Timer!EndStopped
  /\ future' = IF outcome = "kFinished" THEN "kCommitted" ELSE "kCancelled"
  /\ UNCHANGED <<animation, operation, owner>>

-----------------------------------------------------------------------------
\* The owner's thread.  Every method begins with CancelAnimation().

Return(result) ==
  /\ call' = "none" /\ place' = "outside" /\ status' = result

Enter(method, p) ==
  /\ call = "none" /\ ~destroyed
  /\ call' = method
  /\ argument' = p
  /\ place' = IF future = "invalid" THEN "proceed" ELSE "reset"
  /\ UNCHANGED <<timerVars, animation, future, operation, status, destroyed>>

\* Mutant: the timer is told to stop, but not waited for.
ResetTimerDetached ==
  /\ place = "reset"
  /\ IF timer THEN Timer!AskCancel ELSE UNCHANGED timerVars
  /\ place' = "get"
  /\ UNCHANGED <<animation, future, operation, call, argument, status, destroyed>>

\* timer_.reset(): the timer's destructor cancels it and waits.
ResetTimer ==
  /\ place = "reset"
  /\ IF timer THEN Timer!AskCancel /\ place' = "wait"
              ELSE UNCHANGED timerVars /\ place' = "get"
  /\ UNCHANGED <<animation, future, operation, call, argument, status, destroyed>>

TimerGone ==
  /\ place = "wait"
  /\ Timer!ReturnFromCancel
  /\ timer' = FALSE
  /\ place' = "get"
  /\ UNCHANGED <<frames, goal, future, operation, call, argument, status, destroyed>>

\* pending_future_.get() waits for the promise.
GetFuture ==
  /\ place = "get" /\ future # "pending"
  /\ place' = "proceed"
  /\ UNCHANGED <<timerVars, animation, future, operation, call, argument,
                 status, destroyed>>

Committed == future = "kCommitted"

\* Mutant: SetPosition() does not look at how the animation ended.
SetPositionUnchecked ==
  /\ call = "SetPosition" /\ place = "proceed"
  /\ Return("ok") /\ position' = argument
  /\ UNCHANGED <<timerVars, animation, future, op_committed, argument, destroyed>>

SetPosition ==
  /\ call = "SetPosition" /\ place = "proceed"
  /\ IF Committed THEN Return("FailedPrecondition") /\ UNCHANGED position
                  ELSE Return("ok") /\ position' = argument
  /\ UNCHANGED <<timerVars, animation, future, op_committed, argument, destroyed>>

\* A new timer, promise and future.
StartAnimation ==
  /\ timer' = TRUE /\ frames' = 0 /\ goal' = argument /\ future' = "pending"
  /\ running' = "none" /\ outcome' = "none" /\ finish_asked' = FALSE
  /\ cancel_asked' = FALSE /\ cancel_returned' = FALSE

AnimateToPosition ==
  /\ call = "AnimateToPosition" /\ place = "proceed"
  /\ IF Committed
       THEN Return("FailedPrecondition") /\ UNCHANGED <<timerVars, animation, future>>
       ELSE Return("ok") /\ StartAnimation
  /\ UNCHANGED <<operation, argument, destroyed>>

CancelAnimation ==
  /\ call = "CancelAnimation" /\ place = "proceed"
  /\ Return(IF Committed THEN "kCommitted" ELSE "kCancelled")
  /\ UNCHANGED <<timerVars, animation, future, operation, argument, destroyed>>

\* The destructor commits; the operation does so at most once.
Destroy ==
  /\ call = "~SwipeAnimator" /\ place = "proceed"
  /\ Return("none")
  /\ op_committed' = TRUE
  /\ destroyed' = TRUE
  /\ UNCHANGED <<timerVars, animation, future, position, argument>>

-----------------------------------------------------------------------------
Queue ==
  \/ TickBegin \/ (\E p \in Positions : Tick(p))
  \/ (\E reason \in {"kFinished", "kCancelled"} : StoppedBegin(reason))
  \/ StoppedCommit \/ StoppedPromise

Proceed == SetPosition \/ AnimateToPosition \/ CancelAnimation \/ Destroy
Owner   == ResetTimer \/ TimerGone \/ GetFuture \/ Proceed

Next == (\E m \in Calls, p \in Positions : Enter(m, p)) \/ Owner \/ Queue

Spec == Init /\ [][Next]_vars

\* The owner goes on with a call it is in.  The timer fires periodically and
\* its callbacks return; a stop that was asked for is carried out, however
\* many ticks come first (CancelReturns of PeriodicTimer).
Fairness ==
  /\ WF_vars(Owner)
  /\ WF_vars(TickBegin) /\ WF_vars(\E p \in Positions : Tick(p))
  /\ SF_vars((finish_asked \/ cancel_asked)
               /\ \E reason \in {"kFinished", "kCancelled"} : StoppedBegin(reason))
  /\ WF_vars(StoppedCommit) /\ WF_vars(StoppedPromise)

FairSpec == Spec /\ Fairness

-----------------------------------------------------------------------------
\* Properties

\* The members have their types.  While the owner uses the operation, the event sink or the future no callback
\* runs and none can start; a destroyed animator is captured by no callback.
OwnerAlone ==
  /\ TypeOK
  /\ place = "proceed" \/ destroyed => ~timer /\ running = "none" /\ future # "pending"

\* The future says kCommitted only of an operation committed at the goal, and an
\* animator is destroyed only with its operation committed, else the operation's
\* destructor aborts (space-switch-operation.cc:67-73).
CommittedAtGoal ==
  /\ Committed => op_committed /\ position = goal
  /\ destroyed => op_committed

\* A call of the owner returns.
CallReturns == call # "none" ~> call = "none"

\* An animation ends, cancelled or committed.
AnimationEnds == future = "pending" ~> future # "pending"

\* The animator implements its contract; the owner learns of the commit from
\* the future (is_committed()), or because it destroyed the animator.
ContractState == IF Committed \/ destroyed THEN "committed"
                 ELSE IF future # "pending" THEN "still"
                 ELSE IF outcome = "kFinished" THEN "committing"
                 ELSE "running"

Contract == INSTANCE AnimatorContract WITH state <- ContractState

ImplementsContract == Contract!Spec
=============================================================================
