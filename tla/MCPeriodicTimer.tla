-------------------------- MODULE MCPeriodicTimer --------------------------
(* A PeriodicTimer with two threads that cancel or destroy it.             *)
EXTENDS PeriodicTimer
=============================================================================
