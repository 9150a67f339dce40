-------------------------- MODULE ContinuousSwitch --------------------------
(***************************************************************************)
(* ContinuousSpaceSwitchOperation, used on the desktop: one Dock gesture   *)
(* follows the position, and the commit replaces it by instant flicks, one *)
(* for each space crossed.  The mutex of the operation makes each call     *)
(* exclusive, and nothing in a call depends on the Dock: a call is a step. *)
(***************************************************************************)
EXTENDS DockGestures

CONSTANTS
  Origin,               \* origin_position_
  Targets               \* positions SetPosition is called with

VARIABLES
  position,             \* current_position_
  gesture_started,
  latest_direction,
  target,               \* new_position of the latest SetPosition
  turned,               \* history: a position nearer to the origin was asked for
  committed,            \* is_committed_
  dock                  \* external: what the Dock made of the events posted

vars == <<position, gesture_started, latest_direction, target, turned, committed,
          dock>>

TypeOK ==
  /\ position \in Position
  /\ gesture_started \in BOOLEAN
  /\ latest_direction \in {-1, 0, 1}
  /\ target \in Int
  /\ turned \in BOOLEAN
  /\ committed \in BOOLEAN
  /\ dock \in Dock

Init ==
  /\ position = At(Origin)
  /\ gesture_started = FALSE
  /\ latest_direction = 0
  /\ target = Origin
  /\ turned = FALSE
  /\ committed = FALSE
  /\ dock = DockAt(Origin)

SetPosition(n) ==
  /\ ~committed
  /\ target' = n
  /\ turned' = \/ turned
               \/ Origin < target /\ n < target
               \/ target < Origin /\ target < n
  /\ IF n = position.effective
       THEN UNCHANGED <<position, gesture_started, latest_direction, dock>>
       ELSE /\ latest_direction' = Sign(n - position.effective)
            /\ position' = Set(position, n)
            /\ gesture_started' = TRUE
            /\ dock' = Changed(IF gesture_started THEN dock
                                 ELSE Began(dock, latest_direction'),
                               position'.effective - Origin, 0)
  /\ UNCHANGED committed

\* kGestureEnded at kInstantSwitchVelocity takes the Dock one whole space from
\* its home, however far it was dragged; the first flick ends the gesture in
\* progress, each later one begins its own.  Their velocity is that of
\* latest_direction_, and when it does not agree with their progress nothing
\* in the code says where the Dock stops: anywhere their number can take it.
Flicks(d, direction, n) ==
  {[Ended(d, direction * One, latest_direction) EXCEPT !.home = home] :
     home \in IF latest_direction = direction
                THEN {d.home + n * direction * One}
                ELSE {d.home + k * One : k \in -n .. n}}

Commit ==
  LET p          == CommitDeferred(position)
      distance   == p.effective - Origin
      num_spaces == Abs(TruncateToSpace(distance)) \div One
      flicks     == IF num_spaces > 1 THEN num_spaces ELSE 1
  IN  /\ ~committed
      /\ committed' = TRUE
      /\ position' = p
      /\ IF distance = 0
           THEN dock' = Cancelled(dock, latest_direction)
           ELSE dock' \in Flicks(dock, Sign(distance), flicks)
      /\ UNCHANGED <<gesture_started, latest_direction, target, turned>>

Next == (\E n \in Targets : SetPosition(n)) \/ Commit

Spec == Init /\ [][Next]_vars
=============================================================================
