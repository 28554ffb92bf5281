---------------------------- MODULE FailureTaxonomy ----------------------------
(***************************************************************************)
(* The taxonomy every failure is mapped to (resilience/errors.py,          *)
(* resilience/classification.py): an exception class to its public label,  *)
(* kind, recoverability and process exit code.  The messages are left out. *)
(***************************************************************************)
EXTENDS Naturals

Outcome(type, kind, recoverability, exit) ==
    [type |-> type, kind |-> kind, recoverability |-> recoverability, exit |-> exit]

\* The project's own errors carry their taxonomy as class attributes.
Native == [
    UsageError          |-> Outcome("UsageError", "usage", "user_action_required", 2),
    ConfigurationError  |-> Outcome("UsageError", "configuration", "user_action_required", 2),
    SecurityRefusal     |-> Outcome("SecurityError", "security_refusal", "do_not_retry", 6),
    BrowserRuntimeError |-> Outcome("BrowserError", "browser_runtime", "user_action_required", 4),
    PersistenceFailure  |-> Outcome("PersistenceError", "persistence", "user_action_required", 3),
    DiagnosticFailure   |-> Outcome("DiagnosticError", "diagnostic", "unknown", 5),
    ResilienceError     |-> Outcome("InternalError", "internal", "unknown", 1),
    TimeoutFailure      |-> Outcome("InternalError", "timeout", "unknown", 1)]

SightStalkerErrors == DOMAIN Native

\* _kind_for_cli_label over the labels of the command line's errors.
KindOfLabel == [
    UsageError       |-> "usage",
    PersistenceError |-> "persistence",
    BrowserError     |-> "browser_runtime",
    DiagnosticError  |-> "diagnostic",
    SecurityError    |-> "security_refusal"]

RecoverabilityOf(kind) ==
    CASE kind \in {"usage", "configuration", "browser_runtime", "persistence"} ->
             "user_action_required"
      [] kind = "security_refusal" -> "do_not_retry"
      [] OTHER -> "unknown"

\* The labels and exit codes of the CliError classes.
Cli == [
    CliUsageError       |-> [label |-> "UsageError", exit |-> 2],
    CliPersistenceError |-> [label |-> "PersistenceError", exit |-> 3],
    CliBrowserError     |-> [label |-> "BrowserError", exit |-> 4],
    CliDiagnosticError  |-> [label |-> "DiagnosticError", exit |-> 5],
    CliSecurityError    |-> [label |-> "SecurityError", exit |-> 6]]

CliOutcome(e) ==
    Outcome(Cli[e].label, KindOfLabel[Cli[e].label],
            RecoverabilityOf(KindOfLabel[Cli[e].label]), Cli[e].exit)

\* The service layers' exceptions, the most specific class first.
Service == [
    PersistenceSecurityError |-> Outcome("SecurityError", "security_refusal", "do_not_retry", 6),
    PersistenceError         |-> Outcome("PersistenceError", "persistence", "user_action_required", 3),
    DiagnosticError          |-> Outcome("DiagnosticError", "diagnostic", "unknown", 5),
    SessionLifecycleError    |-> Outcome("BrowserError", "browser_runtime", "unknown", 4),
    SessionStateError        |-> Outcome("StateError", "integrity", "unknown", 1),
    ArtifactError            |-> Outcome("ArtifactError", "artifact", "unknown", 1),
    SQLAlchemyError          |-> Outcome("PersistenceError", "persistence", "user_action_required", 3)]

\* Everything else, a cancellation among it, is a bug of the program.
Internal == Outcome("InternalError", "internal", "bug", 1)

Classify(e) ==
    IF e \in SightStalkerErrors THEN Native[e]
    ELSE IF e \in DOMAIN Cli THEN CliOutcome(e)
    ELSE IF e \in DOMAIN Service THEN Service[e]
    ELSE Internal

\* These are raised again unchanged and never classified.
ProcessControl == {"KeyboardInterrupt", "SystemExit"}

=============================================================================
