---------------------------- MODULE DockGestures ----------------------------
(***************************************************************************)
(* The Dock, which reads the dock-control events the operations post: a    *)
(* gesture is Began, Changed any number of times, then Ended (the Dock     *)
(* stays where the gesture took it) or Cancelled (it goes back to where    *)
(* the gesture began).  A progress is a number of nanoswipes, plus at most *)
(* one kEpsilon either way.                                                *)
(***************************************************************************)
EXTENDS DeferredPosition

Dock == [open     : BOOLEAN,   \* a gesture has begun and not ended
         home     : Int,       \* where the Dock is between gestures
         shown    : Int,       \* progress of the latest event, in nanoswipes
         nudge    : {-1, 0, 1},\* and in kEpsilon
         lingered : BOOLEAN,   \* a Changed came after one on a boundary
         moved    : Int,       \* progress of the latest end, 0 if a Cancelled
         flung    : {-1, 0, 1},\* sign of the velocity of the latest end
         confused : BOOLEAN]   \* an event came that no gesture allows

DockAt(p) == [open |-> FALSE, home |-> p, shown |-> 0, nudge |-> 0,
              lingered |-> FALSE, moved |-> 0, flung |-> 0, confused |-> FALSE]

Sign(n) == IF n > 0 THEN 1 ELSE IF n < 0 THEN -1 ELSE 0

\* The latest event is directly on a boundary, a gesture's origin being on one.
ShownOnBoundary(d) == OnBoundary(d.shown) /\ d.nudge = 0

Began(d, nudge) ==
  [d EXCEPT !.open = TRUE, !.confused = @ \/ d.open, !.shown = 0, !.nudge = nudge]

Changed(d, progress, nudge) ==
  [d EXCEPT !.shown = progress, !.nudge = nudge,
            !.lingered = @ \/ ShownOnBoundary(d), !.confused = @ \/ ~d.open]

Ended(d, progress, velocity) ==
  [d EXCEPT !.open = FALSE, !.confused = @ \/ ~d.open, !.home = @ + progress,
            !.moved = progress, !.flung = Sign(velocity)]

Cancelled(d, velocity) ==
  [d EXCEPT !.open = FALSE, !.confused = @ \/ ~d.open,
            !.moved = 0, !.flung = Sign(velocity)]
=============================================================================
