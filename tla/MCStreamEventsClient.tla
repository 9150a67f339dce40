------------------------ MODULE MCStreamEventsClient ------------------------
(* A queue of two events, gRPC's window of two and four events captured.   *)
EXTENDS StreamEventsClient
=============================================================================
