-------------------------- MODULE MCSwipeAnimator --------------------------
(* Three positions and animations of at most two unfinished frames.        *)
EXTENDS SwipeAnimator
=============================================================================
