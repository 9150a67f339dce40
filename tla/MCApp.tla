------------------------------- MODULE MCApp -------------------------------
(* First launches over the options of three older versions and of this one, *)
(* and three changes.                                                       *)
EXTENDS App
MCDurations == {100, 200}
MCCurves == {"curve"}
MCFramerates == {60, 240}
MCOptions == Message
Nothing == [duration |-> Unset, easing |-> Unset, bezier |-> Unset, fps |-> Unset,
            intercept |-> Unset, jump |-> Unset, horizontal |-> Unset, vertical |-> Unset]
MCStored ==
  {[Nothing EXCEPT !.duration = 100, !.easing = Bezier, !.bezier = "curve", !.fps = 60,
                   !.intercept = FALSE],
   [Nothing EXCEPT !.duration = 200, !.easing = Quadratic, !.jump = FALSE],
   [Nothing EXCEPT !.horizontal = [DefaultGestureSettings("horizontal") EXCEPT !.enabled = FALSE]],
   [DefaultDaemonOptions EXCEPT !.vertical.easing = Linear]}
=============================================================================
