---------------------------- MODULE MCTraceCapture ----------------------------
(* Instances of TraceCapture for TLC. *)
EXTENDS TraceCapture

CONSTANTS c1, c2, c3, c4

=============================================================================
