------------------------ MODULE SpaceSwitchOperation ------------------------
(***************************************************************************)
(* engine/space-switch-operation.cc: the operation a gesture gets, of the  *)
(* one kind on the desktop and of the other everywhere else                *)
(* (SetUpForNewGesture), with what both promise about the events they      *)
(* post.  The kinds share the position, the commit and the Dock.           *)
(***************************************************************************)
EXTENDS DockGestures

CONSTANTS
  Origin,               \* committed position when the operation is created
  SoftMin, SoftMax,     \* the axis adapter's position_soft_limits()
  Targets               \* positions SetPosition is called with

ASSUME OperationAssumption ==
  /\ OnBoundary(Origin) /\ OnBoundary(SoftMin) /\ OnBoundary(SoftMax)
  /\ {Origin, SoftMin, SoftMax} \cup Targets \subseteq Int
  /\ SoftMin <= SoftMax

VARIABLES
  segmented,            \* the kind of the operation
  position, target, committed, dock,
  active, gesture_origin, moving, logged_error,
  gesture_started, latest_direction, turned

ofSegmented == <<active, gesture_origin, moving, logged_error>>
ofContinuous == <<gesture_started, latest_direction, turned>>
vars == <<segmented, position, target, committed, dock, ofSegmented, ofContinuous>>

Segmented == INSTANCE SegmentedSwitch
Continuous == INSTANCE ContinuousSwitch

TypeOK ==
  /\ segmented \in BOOLEAN
  /\ Segmented!TypeOK /\ Continuous!TypeOK

Init == segmented \in BOOLEAN /\ Segmented!Init /\ Continuous!Init

SetPosition(n) ==
  /\ \/ segmented /\ Segmented!SetPosition(n) /\ UNCHANGED ofContinuous
     \/ ~segmented /\ Continuous!SetPosition(n) /\ UNCHANGED ofSegmented
  /\ UNCHANGED segmented

\* The loop of a segmented operation's SetPosition, under way.
Move == segmented /\ Segmented!Move /\ UNCHANGED <<segmented, ofContinuous>>
MoveDone == segmented /\ Segmented!MoveDone /\ UNCHANGED <<segmented, ofContinuous>>

Commit ==
  /\ \/ segmented /\ Segmented!Commit /\ UNCHANGED ofContinuous
     \/ ~segmented /\ Continuous!Commit /\ UNCHANGED ofSegmented
  /\ UNCHANGED segmented

Next == (\E n \in Targets : SetPosition(n)) \/ Move \/ MoveDone \/ Commit

Spec == Init /\ [][Next]_vars

\* A thread inside SetPosition goes on with its loop.
FairSpec == Spec /\ WF_vars(Move) /\ WF_vars(MoveDone)

-----------------------------------------------------------------------------
\* Properties

\* The events posted always form gestures, one at a time.  Those of a segmented
\* operation leave the Dock, between gestures, at the operation's position, a
\* whole number of spaces, and EndGesture is only ever called with a deferred
\* position (cc:314-316).  Those of a continuous one form a single gesture,
\* open from its first movement to its commit; the exception the code makes: an
\* operation committed where it started without having moved posts a Cancelled
\* that nothing began.  "Gesture change events directly on a boundary" are
\* avoided until the gesture is committed (deferred-position.h:12-14): the only
\* one that is posted is the Changed before EndGesture's Ended (cc:353-355), so
\* no call leaves a gesture open on a boundary, and inside of a gesture no
\* Changed comes after one that is on a boundary.
GesturesWellFormed ==
  /\ segmented =>
       /\ ~dock.confused /\ ~logged_error
       /\ dock.open = active
       /\ active => dock.home = gesture_origin
       /\ ~active => /\ OnBoundary(dock.home)
                     /\ dock.home = position.effective
                     /\ dock.home = position.deferred
  /\ ~segmented =>
       /\ dock.open = (gesture_started /\ ~committed)
       /\ dock.confused => committed /\ ~gesture_started /\ position.effective = Origin
  /\ ~dock.lingered
  /\ dock.open => ~ShownOnBoundary(dock)

\* A gesture that is ended is flung the way it moved, so the Dock does not turn
\* back, but for two cases.  A segmented operation committed from outside of the
\* soft limits ends on the boundary below, which may be behind (GetNextBoundary
\* gives no boundary out there).  A continuous one is flung in the direction
\* of its latest movement (cc:214-223), which is not the way from its origin
\* when a position was asked for that is nearer to the origin than the last.
FlungForward ==
  dock.moved # 0 /\ (IF segmented THEN ~committed \/ target \in SoftMin .. SoftMax
                                  ELSE ~turned) =>
    dock.flung = Sign(dock.moved)

\* A gesture of a segmented operation that is cancelled on the first or the last
\* space, whichever side it came back from, is flung out of the limits, never
\* on to the next space (is_rubberbanding, cc:335-348).
CancelledOutward ==
  segmented /\ ~dock.open /\ dock.moved = 0 /\ dock.flung # 0 /\ SoftMin < SoftMax =>
    /\ dock.home = SoftMin => dock.flung = -1
    /\ dock.home = SoftMax => dock.flung = 1

\* Rubber-banding: until it is committed, an operation dragged past the first
\* or the last space never takes the Dock out there, however far it is dragged.
WithinLimits == ~dock.open /\ ~committed => dock.home \in SoftMin .. SoftMax

\* After SetPosition the deferred position is the one asked for, and the one
\* shown is no further from it than the deferral explains.
CloseToTarget ==
  ~moving /\ ~committed =>
    /\ Abs(position.effective - target) <= 2 * Defer
    /\ position.deferred = target \/ position.effective = target

\* A commit closes the gesture on a boundary.  That of a segmented operation is
\* the target, when the target is one.  A continuous operation whose flicks agree
\* in progress and velocity also leaves the Dock exactly on such a target, and
\* less than a space away from any other (committed in the middle of a space by
\* its animator's destructor); where opposite ones take it the code cannot know.
CommitLandsOnTarget ==
  committed =>
    /\ ~dock.open /\ OnBoundary(dock.home)
    /\ segmented /\ OnBoundary(target) => dock.home = target
    /\ ~segmented /\ dock.flung = Sign(dock.moved) =>
         /\ OnBoundary(target) => dock.home = target
         /\ Abs(dock.home - position.effective) < One

\* SetPosition returns: its loop reaches the target.
MoveReturns == moving ~> ~moving
=============================================================================
