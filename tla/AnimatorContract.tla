-------------------------- MODULE AnimatorContract --------------------------
(***************************************************************************)
(* What a SwipeAnimator promises the event handler that owns it: the owner *)
(* moves the swipe or lets it run to a goal; a run can be stopped until it *)
(* has reached its goal, and from then on it will be committed whatever    *)
(* the owner does, after which the position never changes again.           *)
(***************************************************************************)
CONSTANT Positions

VARIABLES
  state,       \* "still", "running", "committing", "committed"
  position,    \* of the operation
  goal         \* of the latest run

animatorVars == <<state, position, goal>>

Init ==
  /\ state = "still"
  /\ position \in Positions
  /\ goal = position

\* The owner moves a swipe that is not running.
Move(p) ==
  /\ state = "still"
  /\ position' = p
  /\ UNCHANGED <<state, goal>>

\* The owner starts a run; one in progress has been stopped first.
Run(p) ==
  /\ state = "still"
  /\ state' = "running"
  /\ goal' = p
  /\ UNCHANGED position

\* A frame of the run.
Frame(p) ==
  /\ state = "running"
  /\ position' = p
  /\ UNCHANGED <<state, goal>>

\* The run has reached its goal before the owner stopped it.
Finish ==
  /\ state = "running" /\ position = goal
  /\ state' = "committing"
  /\ UNCHANGED <<position, goal>>

\* The owner has stopped it.
Stop ==
  /\ state = "running"
  /\ state' = "still"
  /\ UNCHANGED <<position, goal>>

\* Committed at the end of a run, or because the owner destroyed the animator.
Commit ==
  /\ state \in {"committing", "still"}
  /\ state' = "committed"
  /\ UNCHANGED <<position, goal>>

Next ==
  \/ \E p \in Positions : Move(p) \/ Run(p) \/ Frame(p)
  \/ Finish \/ Stop \/ Commit

Spec == Init /\ [][Next]_animatorVars
=============================================================================
