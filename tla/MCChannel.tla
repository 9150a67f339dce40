----------------------------- MODULE MCChannel -----------------------------
(* Two writers and two readers of a queue of two.                          *)
EXTENDS Channel
=============================================================================
