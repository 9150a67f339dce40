---------------------------- MODULE MCSpaceSync ----------------------------
(* A display of three spaces, the last no desktop, and one of a single      *)
(* space; the user interferes once.                                         *)
EXTENDS SpaceSync
MCDisplays == {"main", "second"}
MCInitialSpaces ==
  [main |-> <<[id |-> 1, is_desktop |-> TRUE], [id |-> 2, is_desktop |-> TRUE],
              [id |-> 3, is_desktop |-> FALSE]>>,
   second |-> <<[id |-> 4, is_desktop |-> TRUE]>>]
MCNewSpaces == {[id |-> 5, is_desktop |-> TRUE]}
=============================================================================
