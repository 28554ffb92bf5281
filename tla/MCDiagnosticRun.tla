---------------------------- MODULE MCDiagnosticRun ----------------------------
(* An instance of DiagnosticRun for TLC. *)
EXTENDS DiagnosticRun

AllKinds == {"open", "screenshot", "trace", "console", "persisted_console"}

=============================================================================
