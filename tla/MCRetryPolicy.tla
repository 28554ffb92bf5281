---------------------------- MODULE MCRetryPolicy ----------------------------
(* An instance of RetryPolicy for TLC. *)
EXTENDS RetryPolicy

\* A failure to retry, one to refuse, a cancellation and an interrupt.
MCFailures ==
    {"BrowserRuntimeError", "SecurityRefusal", "CancelledError", "KeyboardInterrupt"}

MCKinds == {"browser_runtime", "security_refusal", "internal"}

=============================================================================
