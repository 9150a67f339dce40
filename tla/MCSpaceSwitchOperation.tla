----------------------- MODULE MCSpaceSwitchOperation -----------------------
(* Three spaces of ten nanoswipes; targets up to a space and a half outside. *)
EXTENDS SpaceSwitchOperation
MCTargets == -14 .. 38
=============================================================================
