--------------------------- MODULE TimerContract ---------------------------
(***************************************************************************)
(* What a PeriodicTimer promises the code that creates it, with no atomics *)
(* and no dispatch source: callbacks never overlap, one of them is the     *)
(* last and says why the timer stopped, and whoever cancels it gets the    *)
(* control back only after that one.                                       *)
(***************************************************************************)
EXTENDS Naturals

VARIABLES
  running,         \* the callback being run: "none", "tick" or "stopped"
  outcome,         \* "none", or the reason given to the stopped callback
  finish_asked,    \* a tick callback has returned kFinishTimer
  cancel_asked,    \* somebody has called Cancel()
  cancel_returned  \* and has got the control back

contractVars == <<running, outcome, finish_asked, cancel_asked, cancel_returned>>

Init ==
  /\ running = "none"
  /\ outcome = "none"
  /\ finish_asked = FALSE
  /\ cancel_asked = FALSE
  /\ cancel_returned = FALSE

\* No tick follows one that finished the timer.
BeginTick ==
  /\ running = "none" /\ outcome = "none" /\ ~finish_asked
  /\ running' = "tick"
  /\ UNCHANGED <<outcome, finish_asked, cancel_asked, cancel_returned>>

EndTick(finish) ==
  /\ running = "tick"
  /\ running' = "none"
  /\ finish_asked' = (finish_asked \/ finish)
  /\ UNCHANGED <<outcome, cancel_asked, cancel_returned>>

AskCancel ==
  /\ cancel_asked' = TRUE
  /\ UNCHANGED <<running, outcome, finish_asked, cancel_returned>>

\* A timer may finish only if a tick asked for it, and may be cancelled only
\* if somebody called Cancel(); when both happened either reason is given.
BeginStopped(reason) ==
  /\ running = "none" /\ outcome = "none"
  /\ reason = "kFinished" => finish_asked
  /\ reason = "kCancelled" => cancel_asked
  /\ running' = "stopped"
  /\ outcome' = reason
  /\ UNCHANGED <<finish_asked, cancel_asked, cancel_returned>>

EndStopped ==
  /\ running = "stopped"
  /\ running' = "none"
  /\ UNCHANGED <<outcome, finish_asked, cancel_asked, cancel_returned>>

ReturnFromCancel ==
  /\ cancel_asked /\ running = "none" /\ outcome # "none"
  /\ cancel_returned' = TRUE
  /\ UNCHANGED <<running, outcome, finish_asked, cancel_asked>>

Next ==
  \/ BeginTick \/ (\E finish \in BOOLEAN : EndTick(finish))
  \/ AskCancel \/ ReturnFromCancel
  \/ (\E reason \in {"kFinished", "kCancelled"} : BeginStopped(reason))
  \/ EndStopped

Spec == Init /\ [][Next]_contractVars
=============================================================================
