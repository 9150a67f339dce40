-------------------------- MODULE SegmentedSwitch --------------------------
(***************************************************************************)
(* SegmentedSpaceSwitchOperation: one Dock gesture for every space that is *)
(* crossed.  The operation's mutex makes a call of SetPosition or Commit   *)
(* exclusive; one iteration of SetPosition's loop is one step, because the *)
(* Dock sees the events of an iteration before the next one begins.        *)
(***************************************************************************)
EXTENDS DockGestures

CONSTANTS
  Origin,               \* committed position when the operation is created
  SoftMin, SoftMax,     \* the axis adapter's position_soft_limits()
  Targets               \* positions SetPosition is called with

VARIABLES
  position,             \* current_position_
  active,               \* state_ is GestureActive
  gesture_origin,       \* its origin_position
  moving,               \* inside SetPosition's loop
  target,               \* new_position of the latest SetPosition
  committed,            \* is_committed_
  logged_error,         \* history: LOG(ERROR) of EndGesture (cc:314-316)
  dock                  \* external: what the Dock made of the events posted

vars == <<position, active, gesture_origin, moving, target, committed,
          logged_error, dock>>

-----------------------------------------------------------------------------
TypeOK ==
  /\ position \in Position
  /\ active \in BOOLEAN
  /\ gesture_origin \in Int
  /\ moving \in BOOLEAN
  /\ target \in Int
  /\ committed \in BOOLEAN
  /\ logged_error \in BOOLEAN
  /\ dock \in Dock

Init ==
  /\ position = At(Origin)
  /\ active = FALSE
  /\ gesture_origin = Origin
  /\ moving = FALSE
  /\ target = Origin
  /\ committed = FALSE
  /\ logged_error = FALSE
  /\ dock = DockAt(Origin)

\* Mutant: the soft limits are forgotten.
NextBoundaryUnlimited(origin, up) ==
  {IF up THEN ((origin + 1) \div One + 1) * One ELSE ((origin - 1) \div One) * One}

\* GetNextBoundary(): the boundary that ends the gesture, none (the limits of
\* int64_t in the code) when moving on past a soft limit.
NextBoundary(origin, up) ==
  LET b == IF up THEN ((origin + 1) \div One + 1) * One
                 ELSE ((origin - 1) \div One) * One
  IN  IF b < SoftMin THEN IF up THEN {SoftMin} ELSE {}
      ELSE IF b > SoftMax THEN IF up THEN {} ELSE {SoftMax}
      ELSE {b}

\* Mutant: a gesture that comes back to its origin is ended, not cancelled.
EndGestureAlways(p, origin, d) ==
  LET progress == p.deferred - origin
      sign     == Sign(p.deferred - p.effective)
  IN  /\ dock' = Ended(Changed(d, progress, 0), One * sign, sign)
      /\ position' = CommitDeferred(p)
      /\ active' = FALSE
      /\ logged_error' = (logged_error \/ ~p.has_deferred)

\* Mutant: the deferred position is not committed with the gesture.
EndGestureStillDeferred(p, origin, d) ==
  LET progress == p.deferred - origin
      sign     == Sign(p.deferred - p.effective)
  IN  /\ dock' = IF progress = 0
                   THEN Cancelled(Changed(d, 0, sign), sign)
                   ELSE Ended(Changed(d, progress, 0), progress, sign)
      /\ position' = p
      /\ active' = FALSE
      /\ logged_error' = (logged_error \/ ~p.has_deferred)

\* Mutant: is_rubberbanding is not asked for.
EndGestureInside(p, origin, d) ==
  LET progress == p.deferred - origin
      sign     == Sign(p.deferred - p.effective)
  IN  /\ dock' = IF progress = 0
                   THEN Cancelled(Changed(d, 0, sign), sign)
                   ELSE Ended(Changed(d, progress, 0), progress, sign)
      /\ position' = CommitDeferred(p)
      /\ active' = FALSE
      /\ logged_error' = (logged_error \/ ~p.has_deferred)

\* EndGesture(): back on the origin cancels, anywhere else ends.  The velocity
\* is kEpsilon in the direction in which the boundary was reached, or, when
\* the cancelled gesture was outside of the limits, the other one.
EndGesture(p, origin, d) ==
  LET progress         == p.deferred - origin
      sign             == Sign(p.deferred - p.effective)
      is_rubberbanding == \/ p.effective < SoftMin /\ sign > 0
                          \/ p.effective > SoftMax /\ sign < 0
      effective_sign   == IF is_rubberbanding THEN -sign ELSE sign
  IN  /\ dock' = IF progress = 0
                   THEN Cancelled(Changed(d, 0, effective_sign), effective_sign)
                   ELSE Ended(Changed(d, progress, 0), progress, sign)
      /\ position' = CommitDeferred(p)
      /\ active' = FALSE
      /\ logged_error' = (logged_error \/ ~p.has_deferred)

\* SetPosition(): the early return leaves even a different deferred_ alone.
SetPosition(n) ==
  /\ ~moving /\ ~committed
  /\ target' = n
  /\ moving' = (n # position.effective)
  /\ UNCHANGED <<position, active, gesture_origin, committed, logged_error, dock>>

\* Mutant: the position stops at the first boundary (if instead of while).
MoveOnce ==
  /\ moving /\ position.deferred # target
  /\ LET up     == target > position.effective
         origin == IF active THEN gesture_origin ELSE position.deferred
         d      == IF active THEN dock ELSE Began(dock, IF up THEN 1 ELSE -1)
         bounds == NextBoundary(origin, up)
         passed == {b \in bounds : IF up THEN target >= b ELSE target <= b}
         p      == Set(position, IF passed = {} THEN target
                                 ELSE CHOOSE b \in passed : TRUE)
     IN  /\ gesture_origin' = origin
         /\ IF p.deferred \in bounds
              THEN EndGesture(p, origin, d)
              ELSE /\ active' = TRUE
                   /\ position' = p
                   /\ dock' = Changed(d, p.effective - origin, 0)
                   /\ UNCHANGED logged_error
  /\ moving' = FALSE
  /\ UNCHANGED <<target, committed>>

\* One iteration of the loop.
Move ==
  /\ moving /\ position.deferred # target
  /\ LET up     == target > position.effective
         origin == IF active THEN gesture_origin ELSE position.deferred
         d      == IF active THEN dock ELSE Began(dock, IF up THEN 1 ELSE -1)
         bounds == NextBoundary(origin, up)
         passed == {b \in bounds : IF up THEN target >= b ELSE target <= b}
         p      == Set(position, IF passed = {} THEN target
                                 ELSE CHOOSE b \in passed : TRUE)
     IN  /\ gesture_origin' = origin
         /\ IF p.deferred \in bounds
              THEN EndGesture(p, origin, d)
              ELSE /\ active' = TRUE
                   /\ position' = p
                   /\ dock' = Changed(d, p.effective - origin, 0)
                   /\ UNCHANGED logged_error
  /\ UNCHANGED <<moving, target, committed>>

\* Mutant: the loop compares the position shown with the target.
MoveDoneEffective ==
  /\ moving /\ position.deferred = target /\ position.effective = target
  /\ moving' = FALSE
  /\ UNCHANGED <<position, active, gesture_origin, target, committed,
                 logged_error, dock>>

MoveDone ==
  /\ moving /\ position.deferred = target
  /\ moving' = FALSE
  /\ UNCHANGED <<position, active, gesture_origin, target, committed,
                 logged_error, dock>>

\* Commit(): the boundary below the position ends a gesture in progress.
Commit ==
  /\ ~moving /\ ~committed
  /\ committed' = TRUE
  /\ IF active
       THEN EndGesture(IF OnBoundary(position.deferred) THEN position
                       ELSE Set(position, (position.deferred \div One) * One),
                       gesture_origin, dock)
       ELSE UNCHANGED <<position, active, logged_error, dock>>
  /\ UNCHANGED <<gesture_origin, moving, target>>

Next == (\E n \in Targets : SetPosition(n)) \/ Move \/ MoveDone \/ Commit

Spec == Init /\ [][Next]_vars
=============================================================================
