------------------------ MODULE SwipeAnimatorProofs ------------------------
(***************************************************************************)
(* Proofs about SwipeAnimator for any positions and any duration of the    *)
(* animations.                                                             *)
(***************************************************************************)
EXTENDS SwipeAnimator, TLAPS

(* What the timer's callbacks have done so far: the stopped callback is the *)
(* last, and it is told kFinished only of an animation a tick has finished. *)
CallbacksInOrder ==
  /\ running = "tick" => outcome = "none" /\ ~finish_asked
  /\ running = "stopped" => outcome # "none"
  /\ outcome = "kFinished" => finish_asked

(* The promise of an animation is open exactly until its timer's stopped    *)
(* callback has ended; only that callback commits while it is open.         *)
PromiseFollowsTimer ==
  /\ future = "pending" <=> timer /\ ~(running = "none" /\ outcome # "none")
  /\ future = "invalid" => ~timer
  /\ future # "pending" => running = "none"
  /\ op_committed => \/ destroyed \/ Committed
                     \/ future = "pending" /\ outcome = "kFinished"
  /\ Committed => op_committed

(* Once a tick has finished the animation the operation stays at its goal,  *)
(* until the owner has stopped it before its commit.                        *)
FinishedAtGoal ==
  (future = "pending" /\ finish_asked) \/ Committed => position = goal

(* What the owner has established by the place it has reached.              *)
OwnerProgress ==
  /\ call = "none" <=> place = "outside"
  /\ place \in {"get", "proceed"} => ~timer
  /\ place \in {"reset", "wait", "get"} => future # "invalid"
  /\ destroyed => call = "none" /\ ~timer /\ op_committed

IInv == TypeOK /\ CallbacksInOrder /\ PromiseFollowsTimer /\ FinishedAtGoal /\ OwnerProgress

-----------------------------------------------------------------------------
(* The constructor (swipe-animator.cc:44-51) establishes the invariant.     *)
LEMMA InitIInv == Init => IInv
  <1> SUFFICES ASSUME Init PROVE IInv
    OBVIOUS
  <1> USE DEF Init, Committed, Results, Calls, Timer!Init
  <1>1. TypeOK
    <2>1. {finish_asked, cancel_asked, cancel_returned} \subseteq BOOLEAN
      BY Zenon
    <2>2. frames \in 0 .. MaxFrames + 1
      BY AnimatorAssumption
    <2>3. {timer, op_committed, destroyed} \subseteq BOOLEAN
      BY Zenon
    <2>4. QED
      BY <2>1, <2>2, <2>3 DEF TypeOK
  <1>2. CallbacksInOrder /\ PromiseFollowsTimer /\ FinishedAtGoal /\ OwnerProgress
    BY DEF CallbacksInOrder, PromiseFollowsTimer, FinishedAtGoal, OwnerProgress
  <1>3. QED
    BY <1>1, <1>2 DEF IInv

(* Every callback of the timer and every step of the owner preserves it.    *)
LEMMA NextIInv == IInv /\ [Next]_vars => IInv'
  <1> SUFFICES ASSUME IInv, [Next]_vars PROVE IInv'
    OBVIOUS
  <1> USE AnimatorAssumption
      DEF IInv, TypeOK, CallbacksInOrder, PromiseFollowsTimer, FinishedAtGoal,
          OwnerProgress, Committed, Results, Calls, timerVars, animation, operation, owner,
          Return
  <1>1. CASE TickBegin
    BY <1>1 DEF TickBegin, Timer!BeginTick
  <1>2. ASSUME NEW p \in Positions, Tick(p) PROVE IInv'
    <2>1. future = "pending" /\ outcome = "none" /\ ~finish_asked
      BY <1>2 DEF Tick, Timer!EndTick
    <2>2. running' = "none" /\ position' = p /\ finish_asked' = (p = goal)
      BY <1>2, <2>1 DEF Tick, Timer!EndTick
    <2>3. finish_asked' \in BOOLEAN
      BY <2>2, Zenon
    <2>4. frames' \in 0 .. MaxFrames + 1
      BY <1>2 DEF Tick
    <2>5. QED
      BY <1>2, <2>1, <2>2, <2>3, <2>4 DEF Tick, Timer!EndTick
  <1>3. ASSUME NEW reason \in {"kFinished", "kCancelled"}, StoppedBegin(reason) PROVE IInv'
    BY <1>3 DEF StoppedBegin, Timer!BeginStopped
  <1>4. CASE StoppedCommit
    BY <1>4 DEF StoppedCommit
  <1>5. CASE StoppedPromise
    BY <1>5 DEF StoppedPromise, Timer!EndStopped
  <1>6. ASSUME NEW m \in Calls, NEW p \in Positions, Enter(m, p) PROVE IInv'
    BY <1>6 DEF Enter
  <1>7. CASE ResetTimer
    BY <1>7 DEF ResetTimer, Timer!AskCancel
  <1>8. CASE TimerGone
    BY <1>8 DEF TimerGone, Timer!ReturnFromCancel
  <1>9. CASE GetFuture
    BY <1>9 DEF GetFuture
  <1>10. CASE SetPosition
    BY <1>10 DEF SetPosition
  <1>11. CASE AnimateToPosition
    <2>1. CASE Committed
      BY <1>11, <2>1 DEF AnimateToPosition
    <2>2. CASE ~Committed
      <3>1. StartAnimation /\ Return("ok") /\ UNCHANGED <<operation, argument, destroyed>>
        BY <1>11, <2>2 DEF AnimateToPosition
      <3>2. {finish_asked', cancel_asked', cancel_returned'} \subseteq BOOLEAN
        BY <3>1, Zenon DEF StartAnimation
      <3>3. QED
        BY <1>11, <2>2, <3>1, <3>2 DEF AnimateToPosition, StartAnimation
    <2>3. QED
      BY <2>1, <2>2
  <1>12. CASE CancelAnimation
    BY <1>12 DEF CancelAnimation
  <1>13. CASE Destroy
    BY <1>13 DEF Destroy
  <1>14. CASE UNCHANGED vars
    BY <1>14 DEF vars
  <1>15. QED
    BY <1>1, <1>2, <1>3, <1>4, <1>5, <1>6, <1>7, <1>8, <1>9, <1>10, <1>11, <1>12,
       <1>13, <1>14 DEF Next, Owner, Proceed, Queue

(* In every state of an animator the promise follows the timer, and the     *)
(* owner is past the timer wherever it relies on being alone.               *)
THEOREM Invariance == Spec => []IInv
  BY InitIInv, NextIInv, PTL DEF Spec

-----------------------------------------------------------------------------
(* The owner uses the operation, the event sink and the future only while   *)
(* no callback of the timer runs or can start, and a destroyed animator is  *)
(* captured by none (swipe-animator.cc:60-126).                             *)
THEOREM Alone == Spec => []OwnerAlone
  <1>1. IInv => OwnerAlone
    BY DEF IInv, PromiseFollowsTimer, OwnerProgress, OwnerAlone
  <1>2. QED
    BY Invariance, <1>1, PTL

(* A future that says kCommitted is of an operation committed at the goal   *)
(* of its animation, and a destroyed animator has committed its operation.  *)
THEOREM CommitTold == Spec => []CommittedAtGoal
  <1>1. IInv => CommittedAtGoal
    BY DEF IInv, PromiseFollowsTimer, FinishedAtGoal, OwnerProgress, CommittedAtGoal
  <1>2. QED
    BY Invariance, <1>1, PTL

(* pending_future_.get() (swipe-animator.cc:135) finds the promise kept:    *)
(* the destructor of the timer has waited for the callback that keeps it.   *)
FutureReady == place = "get" => future \in Results

(* So CancelAnimation never blocks on the future.                           *)
THEOREM GetNeverBlocks == Spec => []FutureReady
  <1>1. IInv => FutureReady
    BY DEF IInv, TypeOK, PromiseFollowsTimer, OwnerProgress, FutureReady
  <1>2. QED
    BY Invariance, <1>1, PTL

-----------------------------------------------------------------------------
(* Every step of the animator is one its contract allows, or leaves the     *)
(* position and what the owner has been told alone.                         *)
LEMMA StepRefines ==
        IInv /\ [Next]_vars => [Contract!Next]_(Contract!animatorVars)
  <1> SUFFICES ASSUME IInv, [Next]_vars
               PROVE  Contract!Next \/ UNCHANGED Contract!animatorVars
    BY DEF Contract!animatorVars
  <1> USE DEF ContractState, Committed, Contract!animatorVars, timerVars, animation,
              operation, owner, Return
  <1>0. TypeOK /\ CallbacksInOrder /\ PromiseFollowsTimer /\ FinishedAtGoal /\ OwnerProgress
    BY DEF IInv
  <1>1. CASE TickBegin
    BY <1>1 DEF TickBegin, Timer!BeginTick
  <1>2. ASSUME NEW p \in Positions, Tick(p) PROVE Contract!Next
    <2>1. Contract!Frame(p)
      BY <1>0, <1>2 DEF Tick, Timer!EndTick, CallbacksInOrder, PromiseFollowsTimer,
         OwnerProgress, Contract!Frame
    <2>2. QED
      BY <2>1 DEF Contract!Next
  <1>3. ASSUME NEW reason \in {"kFinished", "kCancelled"}, StoppedBegin(reason)
        PROVE  Contract!Next \/ UNCHANGED Contract!animatorVars
    <2>1. future = "pending" /\ ~destroyed
      BY <1>0, <1>3 DEF StoppedBegin, Timer!BeginStopped, PromiseFollowsTimer, OwnerProgress
    <2>2. CASE reason = "kFinished"
      <3>1. Contract!Finish
        BY <1>0, <1>3, <2>1, <2>2 DEF StoppedBegin, Timer!BeginStopped, FinishedAtGoal,
           Contract!Finish
      <3>2. QED
        BY <3>1 DEF Contract!Next
    <2>3. CASE reason = "kCancelled"
      BY <1>3, <2>1, <2>3 DEF StoppedBegin, Timer!BeginStopped
    <2>4. QED
      BY <2>2, <2>3
  <1>4. CASE StoppedCommit
    BY <1>4 DEF StoppedCommit
  <1>5. CASE StoppedPromise
    <2>1. future = "pending" /\ ~destroyed /\ outcome # "none"
      BY <1>0, <1>5 DEF StoppedPromise, Timer!EndStopped, CallbacksInOrder,
         PromiseFollowsTimer, OwnerProgress
    <2>2. Contract!Commit \/ Contract!Stop
      BY <1>5, <2>1 DEF StoppedPromise, Timer!EndStopped, Contract!Commit, Contract!Stop
    <2>3. QED
      BY <2>2 DEF Contract!Next
  <1>6. ASSUME NEW m \in Calls, NEW p \in Positions, Enter(m, p)
        PROVE  UNCHANGED Contract!animatorVars
    BY <1>6 DEF Enter
  <1>7. CASE ResetTimer
    BY <1>7 DEF ResetTimer, Timer!AskCancel
  <1>8. CASE TimerGone
    BY <1>8 DEF TimerGone, Timer!ReturnFromCancel
  <1>9. CASE GetFuture
    BY <1>9 DEF GetFuture
  <1>10. CASE SetPosition
    <2>1. argument \in Positions /\ future # "pending" /\ ~destroyed
      BY <1>0, <1>10 DEF SetPosition, TypeOK, PromiseFollowsTimer, OwnerProgress
    <2>2. Contract!Move(argument) \/ UNCHANGED Contract!animatorVars
      BY <1>10, <2>1 DEF SetPosition, Contract!Move
    <2>3. QED
      BY <2>1, <2>2 DEF Contract!Next
  <1>11. CASE AnimateToPosition
    <2>1. argument \in Positions /\ future # "pending" /\ ~destroyed
      BY <1>0, <1>11 DEF AnimateToPosition, TypeOK, PromiseFollowsTimer, OwnerProgress
    <2>2. Contract!Run(argument) \/ UNCHANGED Contract!animatorVars
      BY <1>11, <2>1 DEF AnimateToPosition, StartAnimation, Contract!Run
    <2>3. QED
      BY <2>1, <2>2 DEF Contract!Next
  <1>12. CASE CancelAnimation
    BY <1>12 DEF CancelAnimation
  <1>13. CASE Destroy
    <2>1. future # "pending" /\ ~destroyed
      BY <1>0, <1>13 DEF Destroy, PromiseFollowsTimer, OwnerProgress
    <2>2. Contract!Commit \/ UNCHANGED Contract!animatorVars
      BY <1>13, <2>1 DEF Destroy, Contract!Commit
    <2>3. QED
      BY <2>2 DEF Contract!Next
  <1>14. CASE UNCHANGED vars
    BY <1>14 DEF vars
  <1>15. QED
    BY <1>1, <1>2, <1>3, <1>4, <1>5, <1>6, <1>7, <1>8, <1>9, <1>10, <1>11, <1>12,
       <1>13, <1>14 DEF Next, Owner, Proceed, Queue

(* The animator, on top of the timer's contract, implements the contract    *)
(* the event handler relies on.                                             *)
THEOREM Refinement == Spec => ImplementsContract
  <1>1. Init => Contract!Init
    BY DEF Init, Timer!Init, ContractState, Committed, Contract!Init
  <1>2. QED
    BY Invariance, StepRefines, <1>1, PTL DEF Spec, ImplementsContract, Contract!Spec

(* What has been committed, at the end of an animation or by the            *)
(* destructor, is neither moved nor animated again.                         *)
CommittedForGood ==
  [][Committed \/ destroyed => UNCHANGED <<position, op_committed, goal>>]_vars

(* An operation is committed once, where it then stays.                     *)
THEOREM CommitIsFinal == Spec => CommittedForGood
  <1>1. IInv /\ [Next]_vars =>
          [Committed \/ destroyed => UNCHANGED <<position, op_committed, goal>>]_vars
    <2> SUFFICES ASSUME IInv, [Next]_vars, Committed \/ destroyed
                 PROVE  UNCHANGED <<position, op_committed, goal>>
      OBVIOUS
    <2>1. op_committed
      BY DEF IInv, PromiseFollowsTimer, OwnerProgress
    <2>2. ContractState = "committed"
      BY DEF ContractState
    <2>3. UNCHANGED <<position, goal>>
      BY <2>2, StepRefines DEF Contract!Next, Contract!animatorVars, Contract!Move,
         Contract!Run, Contract!Frame, Contract!Finish, Contract!Stop, Contract!Commit
    <2>4. UNCHANGED op_committed
      <3>1. op_committed = TRUE
        BY <2>1 DEF IInv, TypeOK
      <3>2. op_committed' = op_committed \/ op_committed' = TRUE
        BY DEF vars, timerVars, animation, operation, owner, Next, Owner, Proceed, Queue, TickBegin,
           Tick, StoppedBegin, StoppedCommit, StoppedPromise, Enter, ResetTimer, TimerGone,
           GetFuture, SetPosition, AnimateToPosition, CancelAnimation, Destroy
      <3>3. QED
        BY <3>1, <3>2
    <2>5. QED
      BY <2>3, <2>4
  <1>2. QED
    BY Invariance, <1>1, PTL DEF Spec, CommittedForGood
=============================================================================
