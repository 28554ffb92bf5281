--------------------------- MODULE OperatorCommand ---------------------------
(***************************************************************************)
(* One browser command from its arguments to its exit code: the run and    *)
(* diag commands (cli/runs.py, cli/diagnostics.py), execute_managed_run    *)
(* (ops/runs.py), the configuration the run is given                       *)
(* (environment/resolver.py) and the report (cli/output.py).  A library    *)
(* caller of execute_managed_run is the same command with more inputs: a   *)
(* resolver, run overrides, initializers and a plan of its own.            *)
(*                                                                         *)
(* A configuration is abstracted to one launch field both a flag and an    *)
(* override may set (the mode), one context field an environment profile   *)
(* may set as well (the locale), one it may not (a timeout), the           *)
(* fingerprint, and the set of the private fields that are set.  A value   *)
(* names the tier it comes from.  What the managed lifecycle does between  *)
(* entry and exit is SessionLifecycle's subject: here it succeeds or       *)
(* raises.                                                                 *)
(***************************************************************************)
EXTENDS Naturals, Sequences, FailureTaxonomy

CONSTANTS
    Null,          \* Python's None
    Requests,      \* the calls: who calls, and with which arguments
    Configurations, \* what a session may have been created with
    Additions,     \* bound: the private fields a caller's own resolver may set
    Environments   \* the environment store: profile id -> locale or Null

Fields == {"mode", "locale", "timeout"}

\* Secrets, and paths of the machine: never to be stored.
Private == {"env", "executable_path", "user_data_dir", "proxy_password",
            "fingerprint_extra", "sensitive_header", "record_har_path", "record_video_dir"}

Overrides == [mode : {Null, "headed", "headless"}, locale : {Null, "run"},
              timeout : {Null, "run"}, environment : {Null} \cup DOMAIN Environments \cup {"e?"}]

\* What a configuration may hold, whichever tier its values come from.
Settings ==
    [mode : {"headed", "headless"} \cup {c.mode : c \in Configurations},
     locale : {"run"} \cup {c.locale : c \in Configurations}
                 \cup {Environments[id] : id \in DOMAIN Environments},
     timeout : {"run"} \cup {c.timeout : c \in Configurations},
     environment : DOMAIN Environments \cup {c.environment : c \in Configurations},
     captures : BOOLEAN,
     fingerprint : {Null, "reference", "reference and agent"},
     private : SUBSET Private]

\* What may be raised on the way from the arguments to the report.
Exceptions == SightStalkerErrors \cup DOMAIN Cli \cup DOMAIN Service
                 \cup {"PlaywrightError", "ValueError", "CancelledError"}

\* None is neither a configuration nor an exception.
ASSUME NullAssumption == Null \notin Settings /\ Null \notin Exceptions

ASSUME CommandAssumption ==
    /\ Requests \subseteq
          [caller : {"cli", "library"}, headed : {Null, TRUE, FALSE},
           url : {"good", "malformed", "unparsable", "unsafe"},
           timeout : {"none", "nonpositive", "outside", "good"},
           resolver : {Null, "default", "custom"}, overrides : {Null} \cup Overrides,
           initializers : Nat, navigations : Nat]
    /\ \A q \in Requests : q.caller = "cli" =>
          q.resolver = Null /\ q.overrides = Null /\ q.initializers = 0 /\ q.navigations = 1
    /\ Configurations \subseteq Settings
    /\ Additions \subseteq SUBSET Private

VARIABLES
    request,     \* what the caller asks for
    asked,       \* what the session was created with (history)
    stored,      \* the session's configuration as the database returns it
    phase,       \* how far the command is
    config,      \* the configuration of the run, once resolved
    applied,     \* the fields the resolution says the environment supplied
    launched,    \* the configuration the browser was launched with, or Null
    open,        \* the managed context is entered: the lock held, a browser up
    navigated,   \* navigations made
    files,       \* artifact files the run has written
    recorded,    \* the run's rows are committed
    cause,       \* the exception as it was raised, or Null (history)
    error,       \* the exception on its way to the caller, or Null
    warned,      \* the exception carries the orphan warning
    report       \* what the operator is told, or Null

vars == <<request, asked, stored, phase, config, applied, launched, open, navigated, files,
          recorded, cause, error, warned, report>>

-----------------------------------------------------------------------------
(***************************************************************************)
(* What is stored of a configuration: an allow-list of its fields, with    *)
(* nothing masked.  A fingerprint is stored without its user agent.        *)
(***************************************************************************)
Persistable(c) == c.private = {}

Projected(c) ==
    [f \in DOMAIN c \ {"private"} |->
        IF f = "fingerprint" /\ c[f] # Null THEN "reference" ELSE c[f]]

Rebuilt(p) == [f \in DOMAIN p \cup {"private"} |-> IF f = "private" THEN {} ELSE p[f]]

\* The session was created before: one that may not be stored was refused.
Init ==
    /\ request \in Requests
    /\ asked \in {c \in Configurations : Persistable(c)}
    /\ stored = Rebuilt(Projected(asked))
    /\ phase = "parse"
    /\ config = Null
    /\ applied = {}
    /\ launched = Null
    /\ open = FALSE
    /\ navigated = 0
    /\ files = {}
    /\ recorded = FALSE
    /\ cause = Null
    /\ error = Null
    /\ warned = FALSE
    /\ report = Null

\* An exception leaves the command, wrapped in another or as it was raised.
RaiseAs(raw, e) == phase' = "report" /\ cause' = raw /\ error' = e

Raise(e) == RaiseAs(e, e)

Go(next) == phase' = next /\ UNCHANGED <<cause, error>>

-----------------------------------------------------------------------------
(***************************************************************************)
(* The configuration of the run.                                           *)
(***************************************************************************)
FlagMode(headed) == IF headed = Null THEN Null ELSE IF headed THEN "headed" ELSE "headless"

OverrideMode(q) == IF q.overrides = Null THEN Null ELSE q.overrides.mode

\* _normalize_mode_overrides: the flag and the override must not disagree.
ModesConflict(q) ==
    /\ FlagMode(q.headed) # Null
    /\ OverrideMode(q) # Null
    /\ OverrideMode(q) # FlagMode(q.headed)

\* The override tier, the flag folded into it.
RunTier(q) ==
    [f \in Fields |->
        IF f = "mode" /\ FlagMode(q.headed) # Null THEN FlagMode(q.headed)
        ELSE IF q.overrides = Null THEN Null ELSE q.overrides[f]]

\* DefaultEnvironmentProfileSelector: the override's id, else the session's.
SelectedEnvironment(q, c) ==
    IF q.overrides # Null /\ q.overrides.environment # Null THEN q.overrides.environment
    ELSE c.environment

\* Each of these tiers replaces the fields it has a value for.
Apply(base, tier) ==
    [f \in DOMAIN base |->
        IF f \in DOMAIN tier /\ tier[f] # Null THEN tier[f] ELSE base[f]]

\* DefaultEnvironmentProfileApplicator: its fields and, always, its own id.
EnvironmentTier(id) ==
    IF id = Null THEN <<>> ELSE [locale |-> Environments[id], environment |-> id]

\* Slip: the environment profile is applied last.
EnvironmentLast(q, c) ==
    Apply(Apply(c, RunTier(q)), EnvironmentTier(SelectedEnvironment(q, c)))

Resolved(q, c) ==
    Apply(Apply(c, EnvironmentTier(SelectedEnvironment(q, c))), RunTier(q))

\* A caller's own resolver may set anything: here, the same and private fields.
Resolutions(q, c) ==
    {[Resolved(q, c) EXCEPT !.private = @ \cup more] :
        more \in IF q.resolver = "custom" THEN Additions ELSE {{}}}

AppliedFields(q, c) ==
    {f \in {"locale"} : /\ SelectedEnvironment(q, c) # Null
                        /\ Environments[SelectedEnvironment(q, c)] # Null
                        /\ RunTier(q)[f] = Null}

-----------------------------------------------------------------------------
(***************************************************************************)
(* The command's arguments: the order of the checks is the code's.  A URL  *)
(* that urllib cannot take apart, at its brackets or its port, raises a    *)
(* plain ValueError.  A library caller hands over a URL as it is.          *)
(***************************************************************************)
Parse ==
    /\ phase = "parse"
    /\ IF request.caller = "library" THEN Go("load")
       ELSE IF request.url = "malformed" THEN Raise("CliUsageError")
       ELSE IF request.url = "unparsable" THEN Raise("ValueError")
       ELSE IF request.url = "unsafe" THEN Raise("CliSecurityError")
       ELSE IF request.timeout = "nonpositive" THEN Raise("CliUsageError")
       ELSE Go("load")
    /\ UNCHANGED <<request, asked, stored, config, applied, launched, open, navigated, files,
                   recorded, warned, report>>

\* The session and its profile are read; neither the ids nor the schema need exist,
\* and a stored row need not be one a record can be rebuilt from.
LoadRecords ==
    /\ phase = "load"
    /\ \/ Go("request")
       \/ \E e \in {"PersistenceError", "SQLAlchemyError", "ValueError", "CancelledError"} :
             Raise(e)
    /\ UNCHANGED <<request, asked, stored, config, applied, launched, open, navigated, files,
                   recorded, warned, report>>

\* RunRequest bounds the timeout more narrowly than the command line does.
BuildRequest ==
    /\ phase = "request"
    /\ IF request.timeout \in {"nonpositive", "outside"} THEN Raise("UsageError")
       ELSE Go("resolve")
    /\ UNCHANGED <<request, asked, stored, config, applied, launched, open, navigated, files,
                   recorded, warned, report>>

ResolveConfig ==
    /\ phase = "resolve"
    /\ request.resolver # Null
    /\ IF ModesConflict(request)
       THEN Raise("UsageError") /\ UNCHANGED <<config, applied>>
       ELSE IF SelectedEnvironment(request, stored) \notin {Null} \cup DOMAIN Environments
       THEN Raise("UsageError") /\ UNCHANGED <<config, applied>>
       ELSE /\ config' \in Resolutions(request, stored)
            /\ applied' = AppliedFields(request, stored)
            /\ Go("check")
    /\ UNCHANGED <<request, asked, stored, launched, open, navigated, files, recorded, warned,
                   report>>

\* Without a resolver only the mode flag counts: _apply_mode_override.
KeepConfig ==
    /\ phase = "resolve"
    /\ request.resolver = Null
    /\ IF request.overrides # Null THEN Raise("UsageError") /\ UNCHANGED config
       ELSE /\ config' = [stored EXCEPT !.mode = IF FlagMode(request.headed) = Null
                                                 THEN @ ELSE FlagMode(request.headed)]
            /\ Go("check")
    /\ UNCHANGED <<request, asked, stored, applied, launched, open, navigated, files, recorded,
                   warned, report>>

\* Slip: the session's configuration is checked, and not the one it resolves to.
CheckStored ==
    /\ phase = "check"
    /\ IF Persistable(stored) THEN Go("engine") ELSE Raise("SecurityRefusal")
    /\ UNCHANGED <<request, asked, stored, config, applied, launched, open, navigated, files,
                   recorded, warned, report>>

\* What may not be stored may not be run.
CheckConfig ==
    /\ phase = "check"
    /\ IF Persistable(config) THEN Go("engine") ELSE Raise("SecurityRefusal")
    /\ UNCHANGED <<request, asked, stored, config, applied, launched, open, navigated, files,
                   recorded, warned, report>>

\* create_engine_for_name refuses every engine but one.
BuildEngine ==
    /\ phase = "engine"
    /\ Go("enter") \/ Raise("CliBrowserError")
    /\ UNCHANGED <<request, asked, stored, config, applied, launched, open, navigated, files,
                   recorded, warned, report>>

\* The manager and the engine refuse a configuration with a fingerprint.
Runnable == config.fingerprint = Null

\* The initial snapshot is written before the browser is launched.
Enter ==
    /\ phase = "enter"
    /\ Runnable
    /\ launched' = config
    /\ open' = TRUE
    /\ files' = IF config.captures THEN {"initial"} ELSE {}
    /\ Go(IF request.initializers > 0 THEN "initialize" ELSE "plan")
    /\ UNCHANGED <<request, asked, stored, config, applied, navigated, recorded, warned, report>>

\* It fails before or after that, and cleans up after itself.
EnterFails ==
    /\ phase = "enter"
    /\ files' \in {{}, IF Runnable /\ config.captures THEN {"initial"} ELSE {}}
    /\ \/ RaiseAs(IF Runnable THEN "PlaywrightError" ELSE "ValueError", "BrowserRuntimeError")
       \/ Runnable /\ Raise("CancelledError")
    /\ UNCHANGED <<request, asked, stored, config, applied, launched, open, navigated,
                   recorded, warned, report>>

\* What the body of the run raises waits for the context to be closed.
RaiseInBody(raw, e) == phase' = "exit" /\ cause' = raw /\ error' = e

\* A foreign exception of an initializer is the caller's mistake.
Initialize ==
    /\ phase = "initialize"
    /\ \/ Go("plan")
       \/ RaiseInBody("PlaywrightError", "UsageError")
       \/ RaiseInBody("BrowserRuntimeError", "BrowserRuntimeError")
    /\ UNCHANGED <<request, asked, stored, config, applied, launched, open, navigated, files,
                   recorded, warned, report>>

-----------------------------------------------------------------------------
(***************************************************************************)
(* The plan: navigation, capture, result.                                  *)
(***************************************************************************)
\* What a plan's exception is turned into once the context is closed.
PlanError(e) ==
    IF e \in SightStalkerErrors \cup {"KeyboardInterrupt", "CancelledError"} THEN e
    ELSE "BrowserRuntimeError"

NavigationAllowed == navigated = 0

Navigate ==
    /\ phase = "plan"
    /\ IF NavigationAllowed
       THEN /\ navigated < request.navigations
            /\ navigated' = navigated + 1
            /\ Go("plan") \/ RaiseInBody("PlaywrightError", PlanError("PlaywrightError"))
       ELSE /\ navigated < request.navigations
            /\ RaiseInBody("SecurityRefusal", PlanError("SecurityRefusal"))
            /\ UNCHANGED navigated
    /\ UNCHANGED <<request, asked, stored, config, applied, launched, open, files, recorded,
                   warned, report>>

\* A diagnostic service writes its artifact, or raises a DiagnosticError.
Capture ==
    /\ phase = "plan"
    /\ "capture" \notin files
    /\ \/ files' = files \cup {"capture"} /\ Go("plan")
       \/ /\ files' \in {files, files \cup {"capture"}}
          /\ RaiseInBody("DiagnosticError", PlanError("DiagnosticError"))
    /\ UNCHANGED <<request, asked, stored, config, applied, launched, open, navigated, recorded,
                   warned, report>>

PlanEnds ==
    /\ phase = "plan"
    /\ navigated = request.navigations
    /\ Go("exit")
    /\ UNCHANGED <<request, asked, stored, config, applied, launched, open, navigated, files,
                   recorded, warned, report>>

\* Ctrl-C cancels the task: the context is closed, then it goes on its way.
Interrupt ==
    /\ phase \in {"initialize", "plan"}
    /\ RaiseInBody("CancelledError", PlanError("CancelledError"))
    /\ UNCHANGED <<request, asked, stored, config, applied, launched, open, navigated, files,
                   recorded, warned, report>>

\* Slip: an exception on its way out leaves the context open.
ClosedOnSuccess == IF error = Null THEN FALSE ELSE open

Closed == FALSE

(***************************************************************************)
(* __aexit__: a final snapshot is tried, the browser closed, the lock      *)
(* given back.  What goes wrong in it is the run's failure only when the   *)
(* body did not fail already, and then it leaves as it was raised.         *)
(***************************************************************************)
Exit ==
    /\ phase = "exit"
    /\ open' = Closed
    /\ files' \in {files, IF config.captures THEN files \cup {"final"} ELSE files}
    /\ IF error # Null
       THEN phase' = "report" /\ UNCHANGED <<cause, error>>
       ELSE \/ (config.captures => "final" \in files') /\ Go("extra")
            \/ \E e \in {"SessionStateError", "ArtifactError", "PlaywrightError",
                         "CancelledError"} : Raise(e)
    /\ UNCHANGED <<request, asked, stored, config, applied, launched, navigated, recorded, warned,
                   report>>

\* Only a plan of the library's can produce an extra that is not JSON.
CheckExtra ==
    /\ phase = "extra"
    /\ \/ Go("persist")
       \/ request.caller = "library" /\ Raise("BrowserRuntimeError")
    /\ UNCHANGED <<request, asked, stored, config, applied, launched, open, navigated, files,
                   recorded, warned, report>>

Persist ==
    /\ phase = "persist"
    /\ recorded' = TRUE
    /\ Go("result")
    /\ UNCHANGED <<request, asked, stored, config, applied, launched, open, navigated, files,
                   warned, report>>

\* Slip: what was flushed before the failure is committed.
RowsStay == recorded' = TRUE

RowsRollBack == UNCHANGED recorded

\* The transaction rolls back: OpsPersistenceFailure with the orphan warning.
PersistFails ==
    /\ phase = "persist"
    /\ RowsRollBack
    /\ warned' = TRUE
    /\ RaiseAs("SQLAlchemyError", "PersistenceFailure")
    /\ UNCHANGED <<request, asked, stored, config, applied, launched, open, navigated, files,
                   report>>

\* Ctrl-C reaches the transaction before or after its commit.
InterruptPersist ==
    /\ phase = "persist"
    /\ recorded' \in BOOLEAN
    /\ Raise("CancelledError")
    /\ UNCHANGED <<request, asked, stored, config, applied, launched, open, navigated, files,
                   warned, report>>

\* The result is put together after the commit; the page's final URL may not parse.
BuildResult ==
    /\ phase = "result"
    /\ Go("report") \/ Raise("ValueError")
    /\ UNCHANGED <<request, asked, stored, config, applied, launched, open, navigated, files,
                   recorded, warned, report>>

Aborted == {"KeyboardInterrupt", "CancelledError"}

(***************************************************************************)
(* run_cli_command: one envelope and an exit code for a result or an       *)
(* Exception.  An interrupt is neither: it goes through unreported.        *)
(***************************************************************************)
Report ==
    /\ phase = "report"
    /\ phase' = "done"
    /\ report' = IF error \in Aborted THEN Null
                 ELSE IF error = Null
                 THEN [ok |-> TRUE, exit |-> 0, type |-> "none", warned |-> FALSE]
                 ELSE [ok |-> FALSE, exit |-> Classify(error).exit,
                       type |-> Classify(error).type, warned |-> warned]
    /\ UNCHANGED <<request, asked, stored, config, applied, launched, open, navigated, files,
                   recorded, cause, error, warned>>

(***************************************************************************)
(* What is printed is printed outside the try: a page's title is printed   *)
(* as markup, JSON as it is, and either may be refused, or the stream be   *)
(* closed.  The process then exits with 1 and no envelope.                 *)
(***************************************************************************)
ReportFails ==
    /\ phase = "report"
    /\ error \notin Aborted
    /\ phase' = "done"
    /\ report' = [ok |-> FALSE, exit |-> 1, type |-> "unprinted", warned |-> FALSE]
    /\ UNCHANGED <<request, asked, stored, config, applied, launched, open, navigated, files,
                   recorded, cause, error, warned>>

Next ==
    \/ Parse \/ LoadRecords \/ BuildRequest \/ ResolveConfig \/ KeepConfig
    \/ CheckConfig \/ BuildEngine \/ Enter \/ EnterFails \/ Initialize
    \/ Navigate \/ Capture \/ PlanEnds \/ Interrupt \/ Exit \/ CheckExtra
    \/ Persist \/ PersistFails \/ InterruptPersist \/ BuildResult \/ Report \/ ReportFails

Spec == Init /\ [][Next]_vars

-----------------------------------------------------------------------------
(***************************************************************************)
(* Properties                                                              *)
(***************************************************************************)
(***************************************************************************)
(* The exit code of a command says how far it got.  A usage error or a     *)
(* refusal (2, 6) took no lock, launched nothing and wrote nothing; 3 is a *)
(* database that could not be read, with nothing done, or one that could   *)
(* not be written, with the warning that the files stayed; a reported 1 is *)
(* never a run broken off in its plan: either nothing was done (a URL or a *)
(* stored row that could not be read) or the plan had ended and its        *)
(* closing, or the result of a recorded run, failed.  Whatever it is, no   *)
(* browser is left open behind it (execute_managed_run, run_cli_command,   *)
(* classify_error).                                                        *)
(***************************************************************************)
Untouched == launched = Null /\ files = {}

ExitCodeTellsTheStage ==
    request.caller = "cli" /\ report # Null =>
        /\ ~open
        /\ report.exit \in {2, 6} => Untouched
        /\ report.exit = 3 => IF report.warned THEN launched # Null ELSE Untouched
        /\ report.exit = 1 /\ report.type # "unprinted" =>
              Untouched \/ (launched # Null /\ navigated = 1)

(***************************************************************************)
(* What the operator is told of a run, against what the database says of   *)
(* it.  A success is reported only of a run whose transaction committed,   *)
(* and an exit code that names a failure (2, 3, 4, 6) only of one that     *)
(* left no row.  A recorded run that is not reported a success was whole,  *)
(* all its navigations made and its context closed, and exits with 1: its  *)
(* result could not be put together or printed (execute_managed_run,       *)
(* run_cli_command).                                                       *)
(***************************************************************************)
ReportAgreesWithDatabase ==
    report # Null =>
        /\ report.ok => recorded
        /\ report.exit \notin {0, 1} => ~recorded
        /\ recorded /\ ~report.ok =>
              /\ report.exit = 1 /\ report.type \in {"InternalError", "unprinted"}
              /\ launched # Null /\ navigated = request.navigations /\ ~open

(***************************************************************************)
(* The browser is launched with each field from the highest tier that has  *)
(* a value for it: the run's flag and overrides, the environment profile,  *)
(* the session (DefaultContextConfigResolver.resolve, ENVIRONMENT-1); and  *)
(* the fields the resolution attributes to the profile are the ones it won.*)
(* The session's tier is what the session was created with, although that  *)
(* went through the database (persistable_session_config).                 *)
(***************************************************************************)
Winner(tiers) ==
    LET set == {i \in 1..Len(tiers) : tiers[i] # Null} IN
    IF set = {} THEN Null ELSE tiers[CHOOSE i \in set : \A j \in set : i <= j]

ProfileLocale ==
    LET id == SelectedEnvironment(request, asked) IN
    IF request.resolver = Null \/ id = Null THEN Null ELSE Environments[id]

OverrideOf(f) == IF request.overrides = Null THEN Null ELSE request.overrides[f]

ConfigFollowsPrecedence ==
    launched # Null =>
        /\ launched.mode =
              Winner(<<FlagMode(request.headed), OverrideOf("mode"), asked.mode>>)
        /\ launched.locale = Winner(<<OverrideOf("locale"), ProfileLocale, asked.locale>>)
        /\ launched.timeout = Winner(<<OverrideOf("timeout"), asked.timeout>>)
        /\ "locale" \in applied <=> ProfileLocale # Null /\ OverrideOf("locale") = Null

(***************************************************************************)
(* Whoever supplied it, the configuration a browser is launched with is    *)
(* one the database would take: no secret and no path that could not be    *)
(* stored, and no fingerprint, which is stored and cannot be run           *)
(* (execute_managed_run checks the configuration once it is resolved).     *)
(***************************************************************************)
NothingPrivateIsLaunched ==
    launched # Null => launched.private = {} /\ launched.fingerprint = Null

(***************************************************************************)
(* "Exit codes are stable: ... 5 diagnostic" (README.md:224-225).  Not so: *)
(* a DiagnosticError inside a plan leaves execute_managed_run as a         *)
(* BrowserRuntimeError, and the diag commands exit with 4.                 *)
(***************************************************************************)
DiagnosticFailuresExitAsDiagnostic ==
    /\ cause = "DiagnosticError"
    /\ report # Null /\ report.type # "unprinted"
    => report.exit = 5

(***************************************************************************)
(* "CliUsageError: for empty / scheme-less / malformed input (exit code    *)
(* 2)" (cli/redaction.py:73).  Not so: a URL that urlsplit refuses, or     *)
(* whose port it cannot read, is an InternalError that exits with 1.       *)
(***************************************************************************)
MalformedUrlIsUsageError ==
    /\ request.caller = "cli" /\ request.url \in {"malformed", "unparsable"}
    /\ report # Null /\ report.type # "unprinted"
    => report.exit = 2

=============================================================================
