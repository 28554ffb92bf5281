----------------------------- MODULE TraceCapture -----------------------------
(***************************************************************************)
(* One trace capture (diagnostics/tracing.py): a handle whose stop and     *)
(* discard may be called by several tasks, once each, while the browser's  *)
(* tracing is on.  The await of stop_tracing separates the test of the     *)
(* handle's state from its update.                                         *)
(***************************************************************************)
EXTENDS Naturals, FiniteSets

CONSTANTS
    Callers,     \* the tasks that call stop or discard, once each
    Persisting,  \* those whose stop asks for the metadata to be persisted
    Faulty,      \* those whose native stop, write or persistence may raise
    Cancelled,   \* those that may be cancelled in an await
    Overlapping  \* may a call begin while another is under way?

ASSUME CallersAssumption == IsFiniteSet(Callers)

ASSUME OverlappingAssumption == Overlapping \in BOOLEAN

VARIABLES
    state,      \* the handle's _state
    tracing,    \* is the browser context recording
    pc,         \* where each call is
    stops,      \* native stop_tracing calls so far
    artifacts   \* the callers that wrote a trace artifact

vars == <<state, tracing, pc, stops, artifacts>>

InFlight == {"stopping", "discarding", "persisting"}

TypeOK ==
    /\ state \in {"active", "stopped", "discarded", "failed"}
    /\ tracing \in BOOLEAN
    /\ pc \in [Callers -> {"idle", "returned", "ignored", "raised"} \cup InFlight]
    /\ stops \in 0..Cardinality(Callers)
    /\ artifacts \subseteq Callers

\* TraceService.start has returned a handle.
Init ==
    /\ state = "active"
    /\ tracing = TRUE
    /\ pc = [c \in Callers |-> "idle"]
    /\ stops = 0
    /\ artifacts = {}

Goto(c, step) == pc' = [pc EXCEPT ![c] = step]
MayBegin(c) == pc[c] = "idle" /\ (Overlapping \/ \A d \in Callers : pc[d] \notin InFlight)

-----------------------------------------------------------------------------
\* stop: the state is tested, then the native stop is awaited.
StopBegins(c) ==
    /\ MayBegin(c)
    /\ state = "active"
    /\ Goto(c, "stopping")
    /\ stops' = stops + 1
    /\ UNCHANGED <<state, tracing, artifacts>>

\* Slip: discard only marks the handle.
DiscardMarks(c) ==
    /\ MayBegin(c)
    /\ state = "active"
    /\ state' = "discarded"
    /\ Goto(c, "returned")
    /\ UNCHANGED <<tracing, stops, artifacts>>

\* discard from active awaits the native stop as well.
DiscardBegins(c) ==
    /\ MayBegin(c)
    /\ state = "active"
    /\ Goto(c, "discarding")
    /\ stops' = stops + 1
    /\ UNCHANGED <<state, tracing, artifacts>>

\* The temporary file cannot be made: nothing has happened yet.
BeginRaises(c) ==
    /\ MayBegin(c)
    /\ state = "active"
    /\ c \in Faulty
    /\ Goto(c, "raised")
    /\ UNCHANGED <<state, tracing, stops, artifacts>>

\* In a terminal state stop is refused ...
StopRefused(c) ==
    /\ MayBegin(c)
    /\ state # "active"
    /\ Goto(c, "raised")
    /\ UNCHANGED <<state, tracing, stops, artifacts>>

\* ... and discard returns, having done nothing.
DiscardIgnored(c) ==
    /\ MayBegin(c)
    /\ state # "active"
    /\ Goto(c, "ignored")
    /\ UNCHANGED <<state, tracing, stops, artifacts>>

\* The native stop returned and the artifact is written.
StopReturns(c) ==
    /\ pc[c] = "stopping"
    /\ tracing
    /\ tracing' = FALSE
    /\ artifacts' = artifacts \cup {c}
    /\ IF c \in Persisting
       THEN Goto(c, "persisting") /\ UNCHANGED state
       ELSE Goto(c, "returned") /\ state' = "stopped"
    /\ UNCHANGED stops

\* Slip: the state is set to stopped whatever became of the write.
WriteFailsStopped(c) ==
    /\ pc[c] = "stopping" /\ c \in Faulty /\ tracing
    /\ tracing' = FALSE
    /\ state' = "stopped"
    /\ Goto(c, "raised")
    /\ UNCHANGED <<stops, artifacts>>

\* The native stop returned but the artifact could not be written.
WriteFails(c) ==
    /\ pc[c] = "stopping"
    /\ c \in Faulty
    /\ tracing
    /\ tracing' = FALSE
    /\ state' = "failed"
    /\ Goto(c, "raised")
    /\ UNCHANGED <<stops, artifacts>>

\* The native stop raises, with the recording stopped or not; on a context that
\* is not recording it always does.
NativeStopRaises(c) ==
    /\ pc[c] \in {"stopping", "discarding"}
    /\ c \in Faulty \/ ~tracing
    /\ tracing' \in {tracing, FALSE}
    /\ state' = "failed"
    /\ Goto(c, "raised")
    /\ UNCHANGED <<stops, artifacts>>

PersistReturns(c) ==
    /\ pc[c] = "persisting"
    /\ state' = "stopped"
    /\ Goto(c, "returned")
    /\ UNCHANGED <<tracing, stops, artifacts>>

\* Slip: the outcome of the call is written into the handle.
PersistRaisesInto(c) ==
    /\ pc[c] = "persisting" /\ c \in Faulty
    /\ Goto(c, "raised")
    /\ state' = "raised"
    /\ UNCHANGED <<tracing, stops, artifacts>>

\* The persistence of the metadata raises past every handler of stop.
PersistRaises(c) ==
    /\ pc[c] = "persisting"
    /\ c \in Faulty
    /\ Goto(c, "raised")
    /\ UNCHANGED <<state, tracing, stops, artifacts>>

DiscardReturns(c) ==
    /\ pc[c] = "discarding"
    /\ tracing
    /\ tracing' = FALSE
    /\ state' = "discarded"
    /\ Goto(c, "returned")
    /\ UNCHANGED <<stops, artifacts>>

\* A cancellation is no Exception: the state stays as it is, whether or not
\* the browser got to stop recording.
CallCancelled(c) ==
    /\ pc[c] \in InFlight
    /\ c \in Cancelled
    /\ tracing' \in {tracing, FALSE}
    /\ Goto(c, "raised")
    /\ UNCHANGED <<state, stops, artifacts>>

Next ==
    \E c \in Callers :
        \/ StopBegins(c) \/ DiscardBegins(c) \/ BeginRaises(c)
        \/ StopRefused(c) \/ DiscardIgnored(c)
        \/ StopReturns(c) \/ WriteFails(c) \/ NativeStopRaises(c)
        \/ PersistReturns(c) \/ PersistRaises(c)
        \/ DiscardReturns(c) \/ CallCancelled(c)

Spec == Init /\ [][Next]_vars

-----------------------------------------------------------------------------
(***************************************************************************)
(* A capture yields at most one trace, whichever calls overlap, raise or   *)
(* are cancelled, and each state of the handle says what it can about it:  *)
(* "stopped" that a trace is kept, "discarded" that none is, "active" that *)
(* none is but for a call that is persisting it or raised doing so.        *)
(* "failed" only says that a call raised which kept nothing: another may   *)
(* have kept its trace, as a second native stop turns even a stopped       *)
(* handle into a failed one.                                               *)
(***************************************************************************)
StateTellsWhatWasKept ==
    /\ Cardinality(artifacts) <= 1
    /\ state = "stopped" => ~tracing /\ artifacts # {}
    /\ state = "discarded" => ~tracing /\ artifacts = {}
    /\ state = "active" => \A c \in artifacts : pc[c] \in {"persisting", "raised"}
    /\ state = "failed" => \E c \in Callers \ artifacts : pc[c] = "raised"

(***************************************************************************)
(* A stop that returned, or a discard that did not find the handle settled *)
(* already, left the browser not recording.  A discard that did returns    *)
(* without a look at the browser: it may still be recording, if the handle *)
(* had failed, and then only the call that raised has told of it.          *)
(***************************************************************************)
ReturnMeansTracingSettled ==
    \A c \in Callers :
        /\ pc[c] = "returned" => ~tracing
        /\ pc[c] = "ignored" /\ tracing =>
              state = "failed" /\ \E d \in Callers : pc[d] = "raised"

(***************************************************************************)
(* "From here, tracing IS stopped.  Any failure -> failed, no re-stop."    *)
(* (diagnostics/tracing.py:82): calls that follow one another stop the     *)
(* browser's tracing at most once.                                         *)
(***************************************************************************)
StoppedAtMostOnce == stops <= 1

=============================================================================
