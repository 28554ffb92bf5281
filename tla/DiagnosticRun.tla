---------------------------- MODULE DiagnosticRun ----------------------------
(***************************************************************************)
(* One diagnostic run against the browser: the capture plans               *)
(* (cli/diagnostics.py, ops/surface.py; "persisted_console" is a plan a    *)
(* library caller may write), the context initializers                     *)
(* (ops/initializers.py), console, trace and screenshot capture            *)
(* (diagnostics/), and the adapter's runtime and context handles           *)
(* (engines/camoufox.py), from the launch to the close of the managed      *)
(* context.                                                                *)
(*                                                                         *)
(* The browser runs on its own: it sends console messages whenever the run *)
(* awaits something, and a native call that raises, or whose await is      *)
(* cancelled, may have taken effect all the same.  The lock and the        *)
(* snapshots are SessionLifecycle's subject, and the calls of one trace    *)
(* handle that overlap are TraceCapture's.                                 *)
(***************************************************************************)
EXTENDS Naturals, Sequences

CONSTANTS
    Kinds,         \* the plans the run may be given
    Initializers,  \* how many context initializers it may be given, at most
    MaxEvents,     \* bound: console messages the page sends
    None           \* no artifact, no count, no exception

ASSUME DiagnosticAssumption ==
    /\ Kinds \subseteq {"open", "screenshot", "trace", "console", "persisted_console"}
    /\ Initializers \in Nat
    /\ MaxEvents \in Nat
    /\ None \notin Nat /\ None \notin {"raised", "CancelledError"}

VARIABLES
    kind,        \* the plan of the run
    chain,       \* how many initializers it was given
    phase,       \* "enter", "body", "exit" or "ended"
    todo,        \* the steps of the phase that are left
    browser,     \* the native browser: "none", "up" or "down"
    stacked,     \* the runtime's exit stack holds the browser's manager
    context,     \* the native context: "none", "open" or "closed"
    handle,      \* CamoufoxContextHandle: "none", "open" or "closed"
    runtime,     \* CamoufoxRuntime: "none", "open" or "closed"
    applied,     \* initializers that have run to their end
    recording,   \* the native context records a trace
    listening,   \* the native page calls the console listener
    events,      \* messages the listener has kept
    navigations, \* RunSurface._goto_count
    temp,        \* the hardened temporary file: "none", "there", or "stuck" for good
    artifact,    \* the messages, or captures, in the artifact written
    count,       \* the event count the plan reports
    error        \* the exception the run ends with

native == <<browser, stacked, context, handle, runtime>>
plan == <<applied, recording, listening, events, navigations, temp, artifact, count>>
vars == <<kind, chain, phase, todo, native, plan, error>>

-----------------------------------------------------------------------------
\* Slip: the console listener is removed at the very end of the plan.
StepsLateDetach(k) ==
    CASE k = "open" -> <<"page", "navigate", "title">>
      [] k = "screenshot" -> <<"page", "navigate", "capture", "title">>
      [] k = "trace" -> <<"start", "page", "navigate", "capture", "title">>
      [] OTHER -> <<"page", "attach", "navigate", "write", "title", "detach">>

\* The awaits of each plan, in order, and what console capture does between.
Steps(k) ==
    CASE k = "open" -> <<"page", "navigate", "title">>
      [] k = "screenshot" -> <<"page", "navigate", "capture", "title">>
      [] k = "trace" -> <<"start", "page", "navigate", "capture", "title">>
      [] k = "console" -> <<"page", "attach", "navigate", "write", "detach", "title">>
      [] k = "persisted_console" ->
             <<"page", "attach", "navigate", "write", "persist", "detach", "title">>

Begin(n) == [i \in 1..n |-> "initialize"]

Init ==
    /\ kind \in Kinds
    /\ chain \in 0..Initializers
    /\ phase = "enter"
    /\ todo = <<"launch", "context">>
    /\ browser = "none"
    /\ stacked = FALSE
    /\ context = "none"
    /\ handle = "none"
    /\ runtime = "none"
    /\ applied = 0
    /\ recording = FALSE
    /\ listening = FALSE
    /\ events = 0
    /\ navigations = 0
    /\ temp = "none"
    /\ artifact = None
    /\ count = None
    /\ error = None

At(p, step) == phase = p /\ todo # <<>> /\ Head(todo) = step

Done == todo' = Tail(todo) /\ UNCHANGED <<kind, chain, phase, error>>

Failures == {"raised", "CancelledError"}

\* An exception leaves the body: __aexit__ captures the state, then closes.
Leave(e) ==
    /\ phase' = "exit"
    /\ todo' = <<"final", "context", "runtime">>
    /\ error' = e
    /\ UNCHANGED <<kind, chain>>

\* One leaves the entry: no state to capture, the rest is the same.
Abort(e) ==
    /\ phase' = "exit"
    /\ todo' = <<"context", "runtime">>
    /\ error' = e
    /\ UNCHANGED <<kind, chain>>

-----------------------------------------------------------------------------
(***************************************************************************)
(* The adapter.  The manager's __aenter__ starts the browser, and the exit *)
(* stack holds the manager only when that has returned: what a failing     *)
(* __aenter__ leaves, the manager has to clean up itself.                  *)
(***************************************************************************)
Launch ==
    /\ At("enter", "launch")
    /\ browser' = "up"
    /\ stacked' = TRUE
    /\ runtime' = "open"
    /\ Done
    /\ UNCHANGED <<context, handle, plan>>

LaunchRaises ==
    /\ At("enter", "launch")
    /\ browser' \in {"none", "up"}
    /\ \E e \in Failures : Abort(e)
    /\ UNCHANGED <<stacked, context, handle, runtime, plan>>

NewContext ==
    /\ At("enter", "context")
    /\ context' = "open"
    /\ handle' = "open"
    /\ phase' = "body"
    /\ todo' = Begin(chain) \o Steps(kind)
    /\ UNCHANGED <<kind, chain, browser, stacked, runtime, plan, error>>

\* The native context may be there already when a timeout cannot be set on it.
NewContextRaises ==
    /\ At("enter", "context")
    /\ context' \in {"none", "open"}
    /\ \E e \in Failures : Abort(e)
    /\ UNCHANGED <<browser, stacked, handle, runtime, plan>>

-----------------------------------------------------------------------------
(***************************************************************************)
(* The body of the run.                                                    *)
(***************************************************************************)
Initialize ==
    /\ At("body", "initialize")
    /\ applied' = applied + 1
    /\ Done
    /\ UNCHANGED <<native, recording, listening, events, navigations, temp, artifact, count>>

\* Slip: the chain goes on with the next initializer.
InitializerSkipped ==
    /\ At("body", "initialize")
    /\ Done
    /\ UNCHANGED <<native, plan>>

\* The ones before it stay applied, the ones after it are not run.
InitializerRaises ==
    /\ At("body", "initialize")
    /\ \E e \in Failures : Leave(e)
    /\ UNCHANGED <<native, plan>>

\* TraceService.start, of the whole context.
StartTracing ==
    /\ At("body", "start")
    /\ recording' = TRUE
    /\ Done
    /\ UNCHANGED <<native, applied, listening, events, navigations, temp, artifact, count>>

\* It raises with no handle returned: nothing but the context's close stops it.
StartTracingRaises ==
    /\ At("body", "start")
    /\ recording' \in BOOLEAN
    /\ \E e \in Failures : Leave(e)
    /\ UNCHANGED <<native, applied, listening, events, navigations, temp, artifact, count>>

\* The page itself lives and dies with its context.
NewPage ==
    /\ At("body", "page")
    /\ Done
    /\ UNCHANGED <<native, plan>>

AskPage ==
    /\ At("body", "title")
    /\ Done
    /\ UNCHANGED <<native, plan>>

PageRaises ==
    /\ At("body", "page") \/ At("body", "title")
    /\ \E e \in Failures : Leave(e)
    /\ UNCHANGED <<native, plan>>

\* The navigation is counted before it is awaited.
Navigate ==
    /\ At("body", "navigate")
    /\ navigations' = navigations + 1
    /\ Done \/ \E e \in Failures : Leave(e)
    /\ UNCHANGED <<native, applied, recording, listening, events, temp, artifact, count>>

\* A native page without listeners is refused.
Attach ==
    /\ At("body", "attach")
    /\ \/ listening' = TRUE /\ Done
       \/ listening' = FALSE /\ Leave("raised")
    /\ UNCHANGED <<native, applied, recording, events, navigations, temp, artifact, count>>

\* The page sends a message while the run awaits something else.
Awaited == {"navigate", "persist", "title", "final", "context", "runtime"}

OnConsole ==
    /\ listening
    /\ todo # <<>> /\ Head(todo) \in Awaited
    /\ events < MaxEvents
    /\ events' = events + 1
    /\ UNCHANGED <<kind, chain, phase, todo, native, applied, recording, listening,
                   navigations, temp, artifact, count, error>>

\* What is kept so far becomes the artifact, in one go.
WriteConsole ==
    /\ At("body", "write")
    /\ \/ artifact' = events /\ Done
       \/ artifact' = None /\ Leave("raised")
    /\ UNCHANGED <<native, applied, recording, listening, events, navigations, temp, count>>

\* A plan of the library's may have the artifact's metadata stored at once.
PersistConsole ==
    /\ At("body", "persist")
    /\ Done \/ \E e \in Failures : Leave(e)
    /\ UNCHANGED <<native, plan>>

\* A listener that cannot be removed is left where it is, without a word.
Detach ==
    /\ At("body", "detach")
    /\ listening' \in {FALSE, listening}
    /\ Done
    /\ UNCHANGED <<native, applied, recording, events, navigations, temp, artifact, count>>

\* The cleanup is best effort: an unlink that fails leaves the file, without a word.
CleanedUp == {"none", "stuck"}

\* Screenshot and trace: the browser writes into a file of the run's own.
CaptureBegins ==
    /\ At("body", "capture")
    /\ temp = "none"
    /\ \/ temp' = "there" /\ UNCHANGED <<kind, chain, phase, todo, error>>
       \/ temp' \in CleanedUp /\ Leave("raised")
    /\ UNCHANGED <<native, applied, recording, listening, events, navigations, artifact, count>>

CaptureReturns ==
    /\ At("body", "capture")
    /\ temp = "there"
    /\ recording' = FALSE
    /\ artifact' = 1
    /\ temp' \in CleanedUp
    /\ Done
    /\ UNCHANGED <<native, applied, listening, events, navigations, count>>

\* The native call, the reading back or the writing of the artifact raises.
CaptureRaises ==
    /\ At("body", "capture")
    /\ temp = "there"
    /\ recording' \in {FALSE, recording}
    /\ temp' \in CleanedUp
    /\ \E e \in Failures : Leave(e)
    /\ UNCHANGED <<native, applied, listening, events, navigations, artifact, count>>

\* PlanResult: the event count is read last.
PlanReturns ==
    /\ phase = "body"
    /\ todo = <<>>
    /\ count' = events
    /\ phase' = "exit"
    /\ todo' = <<"final", "context", "runtime">>
    /\ UNCHANGED <<kind, chain, native, applied, recording, listening, events, navigations,
                   temp, artifact, error>>

-----------------------------------------------------------------------------
(***************************************************************************)
(* The close.  Each step is tried whatever became of the one before it,    *)
(* and the first exception is the run's.  A handle calls itself closed     *)
(* before it awaits the native close, so that one which raised is not      *)
(* tried again.                                                            *)
(***************************************************************************)
\* Slip: a close that raises ends the cleanup.
OnwardUnlessRaised(e) ==
    /\ todo' = IF e = None THEN Tail(todo) ELSE <<>>
    /\ error' = IF error = None THEN e ELSE error
    /\ UNCHANGED <<kind, chain, phase>>

Onward(e) ==
    /\ todo' = Tail(todo)
    /\ error' = IF error = None THEN e ELSE error
    /\ UNCHANGED <<kind, chain, phase>>

CaptureFinal ==
    /\ At("exit", "final")
    /\ \E e \in Failures \cup {None} : Onward(e)
    /\ UNCHANGED <<native, plan>>

\* Its pages and its recording go with the native context.
ContextGoes ==
    /\ context' = IF context = "open" THEN "closed" ELSE context
    /\ recording' = FALSE
    /\ listening' = FALSE

CloseContext ==
    /\ At("exit", "context")
    /\ handle' = IF handle = "none" THEN "none" ELSE "closed"
    /\ IF handle = "open"
       THEN \/ ContextGoes /\ Onward(None)
            \/ \E e \in Failures : Onward(e)
               /\ (ContextGoes \/ UNCHANGED <<context, recording, listening>>)
       ELSE Onward(None) /\ UNCHANGED <<context, recording, listening>>
    /\ UNCHANGED <<browser, stacked, runtime, applied, events, navigations, temp, artifact, count>>

\* The exit stack closes the browser, and with it every context it has.
BrowserGoes == browser' = "down" /\ ContextGoes

CloseRuntime ==
    /\ At("exit", "runtime")
    /\ runtime' = IF runtime = "none" THEN "none" ELSE "closed"
    /\ stacked' = FALSE
    /\ IF runtime = "open" /\ stacked
       THEN \/ BrowserGoes /\ Onward(None)
            \/ \E e \in Failures : Onward(e)
               /\ (BrowserGoes \/ UNCHANGED <<browser, context, recording, listening>>)
       ELSE Onward(None) /\ UNCHANGED <<browser, context, recording, listening>>
    /\ UNCHANGED <<handle, applied, events, navigations, temp, artifact, count>>

End ==
    /\ phase = "exit"
    /\ todo = <<>>
    /\ phase' = "ended"
    /\ UNCHANGED <<kind, chain, todo, native, plan, error>>

Next ==
    \/ Launch \/ LaunchRaises \/ NewContext \/ NewContextRaises
    \/ Initialize \/ InitializerRaises \/ StartTracing \/ StartTracingRaises
    \/ NewPage \/ AskPage \/ PageRaises \/ Navigate \/ Attach \/ OnConsole
    \/ WriteConsole \/ PersistConsole \/ Detach
    \/ CaptureBegins \/ CaptureReturns \/ CaptureRaises \/ PlanReturns
    \/ CaptureFinal \/ CloseContext \/ CloseRuntime \/ End

Spec == Init /\ [][Next]_vars

-----------------------------------------------------------------------------
(***************************************************************************)
(* Properties                                                              *)
(***************************************************************************)
(***************************************************************************)
(* Whatever raised or was cancelled, a run that has ended holds nothing it *)
(* did not try to give back: a temporary file is left only if its removal  *)
(* failed, and a recording, a listener or a context only in a browser that *)
(* is still up.  A browser is still up in two cases, and the run has       *)
(* failed in both: its close was tried and raised, or its manager raised   *)
(* while starting it, and then the run, which holds no runtime to close,   *)
(* opened no context in it and leaves it to the manager                    *)
(* (HardenedTempFile.cleanup, CamoufoxRuntime.close,                       *)
(* CamoufoxEngine.launch, ManagedSessionContext.__aexit__).                *)
(***************************************************************************)
NothingOutlivesTheRun ==
    phase = "ended" =>
        /\ temp # "there"
        /\ recording \/ listening \/ context = "open" => browser = "up"
        /\ browser = "up" => /\ error # None
                             /\ \/ runtime = "closed"
                                \/ runtime = "none" /\ context = "none" /\ applied = 0

(***************************************************************************)
(* The event count a console diagnostic reports is the number of events in *)
(* its artifact, although it is read two awaits after the artifact was     *)
(* written: the listener is removed in between.  It is larger only if the  *)
(* removal failed, or if an await (of the metadata's storage) came first   *)
(* (_console_plan, ConsoleCaptureHandle.write_artifact and detach).        *)
(***************************************************************************)
CountMatchesArtifact ==
    count # None /\ kind \in {"console", "persisted_console"} =>
        /\ artifact # None
        /\ artifact <= count
        /\ kind = "console" /\ ~listening /\ handle = "open" => artifact = count

(***************************************************************************)
(* Evidence is of the navigation, in the context as its initializers made  *)
(* it: an artifact is written only after all of them have run and the one  *)
(* navigation was made, and a diagnostic that succeeds has its artifact    *)
(* and has stopped its trace before the final state is captured            *)
(* (ContextInitializerChain.initialize, the plans of cli/diagnostics.py).  *)
(***************************************************************************)
EvidenceIsOfTheNavigation ==
    /\ artifact # None => applied = chain /\ navigations = 1
    /\ count # None /\ kind # "open" => artifact # None
    /\ count # None => ~recording

=============================================================================
