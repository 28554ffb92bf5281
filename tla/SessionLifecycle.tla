--------------------------- MODULE SessionLifecycle ---------------------------
(***************************************************************************)
(* One managed run of a browser session, from ManagedSessionContext's      *)
(* __aenter__ to the end of its __aexit__ (sessions/manager.py), with the  *)
(* profile lock it works under (sessions/locks.py) and the immutable       *)
(* storage-state snapshots it reads and writes (sessions/state_store.py    *)
(* over artifacts/manager.py).                                             *)
(*                                                                         *)
(* An action is what a run does between two awaits.  A call handed to      *)
(* asyncio.to_thread runs on its own (thread), and outlives a run that was *)
(* cancelled while awaiting it.  The browser state a snapshot holds is     *)
(* abstracted to its lineage: the set of runs whose work it includes.      *)
(***************************************************************************)
EXTENDS Naturals, FiniteSets

CONSTANTS
    Runs,           \* every run ever opened; each has a fresh run id
    Sessions,
    Profiles,
    SessionOf,      \* the session of each run
    ProfileOf,      \* the profile of each session
    PersistState,   \* the runs opened over a record with persist_storage_state
    CaptureInitial, \* ... with capture_initial_storage_state
    CaptureFinal,   \* ... with capture_final_storage_state
    Unsupported,    \* ... with a deferred launch feature in its config
    Faulty,         \* the runs whose awaits may raise or be cancelled
    Mortal,         \* the runs whose process may die
    Fragile,        \* the runs whose final snapshot may be damaged on disk
    NoRun

ASSUME NoRunAssumption == NoRun \notin Runs
ASSUME SessionOfAssumption == SessionOf \in [Runs -> Sessions]
ASSUME ProfileOfAssumption == ProfileOf \in [Sessions -> Profiles]

Kinds == {"initial", "final"}
Files == Runs \X Kinds

VARIABLES
    pc,       \* where each run is
    thread,   \* the to_thread call of the run, awaited or abandoned
    lock,     \* does the run hold a lock handle (self._lock)
    holder,   \* whose file lock is on each profile (the operating system's view)
    runtime,  \* the browser of the run
    file,     \* each snapshot file
    content,  \* the lineage of the browser state each file was written with
    prior,    \* the run whose final snapshot the session record refers to
    base,     \* the lineage of the run's resolved initial state
    refs,     \* the kinds of snapshot the run has references to
    faulted   \* the body or an exit step of the run raised

vars == <<pc, thread, lock, holder, runtime, file, content, prior, base, refs,
          faulted>>
lockVars == <<lock, holder>>
diskVars == <<file, content>>
dataVars == <<prior, base, refs>>

EnterSteps == {"layout", "acquire", "run_layout", "resolve", "write_initial",
               "launch", "new_context"}
ExitSteps == {"snapshot", "write_final", "close_context", "close_runtime"}
ActiveSteps == EnterSteps \cup ExitSteps \cup {"body", "cleanup"}
EndSteps == {"rejected", "not_entered", "succeeded", "failed", "crashed"}
ThreadAwaits == {"acquire", "write_initial", "write_final"}

Active(r) == pc[r] \in ActiveSteps
Ended(r) == pc[r] \in EndSteps
ProfileOfRun(r) == ProfileOf[SessionOf[r]]

\* A run goes by the record it was given: the session's may be edited between runs.
Persists(r) == r \in PersistState
CapturesInitial(r) == Persists(r) /\ r \in CaptureInitial
CapturesFinal(r) == Persists(r) /\ r \in CaptureFinal

(***************************************************************************)
(* The session record of the result: a succeeded run that captured a final *)
(* snapshot advances latest_final_state to it, any other run leaves it.    *)
(***************************************************************************)
Carried(r) == IF pc[r] = "succeeded" /\ "final" \in refs[r] THEN r ELSE prior[r]

TypeOK ==
    /\ pc \in [Runs -> {"idle"} \cup ActiveSteps \cup EndSteps]
    /\ thread \in [Runs -> {"none", "acquiring", "acquired", "written",
                            "raised"} \cup Kinds]
    /\ lock \in [Runs -> BOOLEAN]
    /\ holder \in [Profiles -> Runs \cup {NoRun}]
    /\ runtime \in [Runs -> {"none", "open", "closed", "lost"}]
    /\ file \in [Files -> {"absent", "partial", "whole", "damaged"}]
    /\ content \in [Files -> SUBSET Runs]
    /\ prior \in [Runs -> Runs \cup {NoRun}]
    /\ base \in [Runs -> SUBSET Runs]
    /\ refs \in [Runs -> SUBSET Kinds]
    /\ faulted \in [Runs -> BOOLEAN]

Init ==
    /\ pc = [r \in Runs |-> "idle"]
    /\ thread = [r \in Runs |-> "none"]
    /\ lock = [r \in Runs |-> FALSE]
    /\ holder = [p \in Profiles |-> NoRun]
    /\ runtime = [r \in Runs |-> "none"]
    /\ file = [f \in Files |-> "absent"]
    /\ content = [f \in Files |-> {}]
    /\ prior = [r \in Runs |-> NoRun]
    /\ base = [r \in Runs |-> {}]
    /\ refs = [r \in Runs |-> {}]
    /\ faulted = [r \in Runs |-> FALSE]

Goto(r, step) == pc' = [pc EXCEPT ![r] = step]
Submit(r, call) == thread' = [thread EXCEPT ![r] = call]

\* Slip: a step that went well forgets the one before that did not.
NoteLast(r, raised) == faulted' = [faulted EXCEPT ![r] = raised]

\* The first exception of the body and the exit steps is remembered.
Note(r, raised) == faulted' = [faulted EXCEPT ![r] = @ \/ raised]

\* The locks once every handle of run r is released.
Freed(r) == [p \in Profiles |-> IF holder[p] = r THEN NoRun ELSE holder[p]]

\* Slip: the handle is dropped, but its lock is another thread's to release.
ForgetLock(r) ==
    /\ lock' = [lock EXCEPT ![r] = FALSE]
    /\ UNCHANGED holder

\* _release_lock: a run without a handle releases nothing.
ReleaseLock(r) ==
    /\ holder' = IF lock[r] THEN Freed(r) ELSE holder
    /\ lock' = [lock EXCEPT ![r] = FALSE]

-----------------------------------------------------------------------------
(***************************************************************************)
(* __aenter__                                                              *)
(***************************************************************************)

(***************************************************************************)
(* Open a context for run r over a session record that refers to the final *)
(* snapshot of run w (none when w = NoRun).  A deferred launch feature is  *)
(* rejected before any work.                                               *)
(***************************************************************************)
Open(r, w) ==
    /\ pc[r] = "idle"
    /\ Goto(r, IF r \in Unsupported THEN "rejected" ELSE "layout")
    /\ prior' = [prior EXCEPT ![r] = w]
    /\ UNCHANGED <<thread, lockVars, runtime, diskVars, base, refs, faulted>>

EnsureProfileLayout(r) ==
    /\ pc[r] = "layout"
    /\ Goto(r, "acquire")
    /\ Submit(r, "acquiring")
    /\ UNCHANGED <<lockVars, runtime, diskVars, dataVars, faulted>>

\* The awaited acquire returned a handle.
LockAcquired(r) ==
    /\ pc[r] = "acquire"
    /\ thread[r] = "acquired"
    /\ Goto(r, "run_layout")
    /\ Submit(r, "none")
    /\ lock' = [lock EXCEPT ![r] = TRUE]
    /\ UNCHANGED <<holder, runtime, diskVars, dataVars, faulted>>

EnsureRunLayout(r) ==
    /\ pc[r] = "run_layout"
    /\ Goto(r, "resolve")
    /\ UNCHANGED <<thread, lockVars, runtime, diskVars, dataVars, faulted>>

(***************************************************************************)
(* _resolve_initial_state, and the submission of the initial snapshot.  A  *)
(* carried snapshot that cannot be read back intact fails the run: it is   *)
(* never replaced by a blank state.                                        *)
(***************************************************************************)
\* Slip: an unreadable snapshot counts as none.
ReadsPriorIfIntact(r) ==
    /\ Persists(r) /\ prior[r] # NoRun
    /\ file[<<prior[r], "final">>] = "whole"

ReadsPrior(r) == Persists(r) /\ prior[r] # NoRun

ResolveInitialState(r) ==
    /\ pc[r] = "resolve"
    /\ ReadsPrior(r) => file[<<prior[r], "final">>] = "whole"
    /\ base' = [base EXCEPT ![r] =
                   IF ReadsPrior(r) THEN content[<<prior[r], "final">>] ELSE {}]
    /\ IF CapturesInitial(r)
       THEN Goto(r, "write_initial") /\ Submit(r, "initial")
       ELSE Goto(r, "launch") /\ UNCHANGED thread
    /\ UNCHANGED <<lockVars, runtime, diskVars, prior, refs, faulted>>

\* Slip: the read is tried again until the snapshot is whole.
RereadPrior(r) ==
    /\ pc[r] = "resolve"
    /\ ReadsPrior(r)
    /\ file[<<prior[r], "final">>] # "whole"
    /\ UNCHANGED vars

RefusePrior(r) ==
    /\ pc[r] = "resolve"
    /\ ReadsPrior(r)
    /\ file[<<prior[r], "final">>] # "whole"
    /\ Goto(r, "cleanup")
    /\ UNCHANGED <<thread, lockVars, runtime, diskVars, dataVars, faulted>>

\* Slip: the run notes what its thread reported for the kind of snapshot.
InitialReported(r) ==
    /\ pc[r] = "write_initial"
    /\ thread[r] = "written"
    /\ Goto(r, "launch")
    /\ Submit(r, "none")
    /\ refs' = [refs EXCEPT ![r] = @ \cup {thread[r]}]
    /\ UNCHANGED <<lockVars, runtime, diskVars, prior, base, faulted>>

InitialWritten(r) ==
    /\ pc[r] = "write_initial"
    /\ thread[r] = "written"
    /\ Goto(r, "launch")
    /\ Submit(r, "none")
    /\ refs' = [refs EXCEPT ![r] = @ \cup {"initial"}]
    /\ UNCHANGED <<lockVars, runtime, diskVars, prior, base, faulted>>

Launch(r) ==
    /\ pc[r] = "launch"
    /\ Goto(r, "new_context")
    /\ runtime' = [runtime EXCEPT ![r] = "open"]
    /\ UNCHANGED <<thread, lockVars, diskVars, dataVars, faulted>>

NewContext(r) ==
    /\ pc[r] = "new_context"
    /\ Goto(r, "body")
    /\ UNCHANGED <<thread, lockVars, runtime, diskVars, dataVars, faulted>>

(***************************************************************************)
(* What becomes of the awaited to_thread call of a run that stops waiting  *)
(* for it: a call not yet started may be dropped from the executor's       *)
(* queue, a started one goes on, and a result nobody takes is gone; but a  *)
(* lock handle among the results holds its lock until it is collected.     *)
(***************************************************************************)
StopWaiting(r) ==
    \/ /\ thread[r] \in {"acquiring", "acquired"} \cup Kinds
       /\ UNCHANGED thread
    \/ /\ thread[r] # "acquired"
       /\ thread[r] \in Kinds => file[<<r, thread[r]>>] = "absent"
       /\ Submit(r, "none")

\* An await of __aenter__ raises: an error, a to_thread call's or a cancellation.
EnterRaises(r) ==
    /\ pc[r] \in EnterSteps
    /\ r \in Faulty \/ thread[r] = "raised"
    /\ Goto(r, "cleanup")
    /\ StopWaiting(r)
    /\ UNCHANGED <<lockVars, runtime, diskVars, dataVars, faulted>>

(***************************************************************************)
(* Closing the browser: a close that raises may leave it alive, and nobody *)
(* closes it again.                                                        *)
(***************************************************************************)
\* Slip: the close is left out.
LeaveRunning(r, outcome) == outcome = "closed" /\ UNCHANGED runtime

ShutDown(r, outcome) ==
    /\ outcome \in {"closed"} \cup (IF r \in Faulty THEN {"lost"} ELSE {})
    /\ runtime' = [runtime EXCEPT ![r] = IF @ = "open" THEN outcome ELSE @]

\* _enter_failure_cleanup: close what was opened, release, re-raise.
EnterCleanup(r) ==
    /\ pc[r] = "cleanup"
    /\ \E outcome \in {"closed", "lost"} : ShutDown(r, outcome)
    /\ ReleaseLock(r)
    /\ Goto(r, "not_entered")
    /\ UNCHANGED <<thread, diskVars, dataVars, faulted>>

-----------------------------------------------------------------------------
(***************************************************************************)
(* The body and __aexit__                                                  *)
(***************************************************************************)

\* The body ends, normally or by raising; the final capture starts if enabled.
BodyEnds(r) ==
    /\ pc[r] = "body"
    /\ Goto(r, IF CapturesFinal(r) THEN "snapshot" ELSE "close_context")
    /\ \E raised \in BOOLEAN :
          /\ raised => r \in Faulty
          /\ Note(r, raised)
    /\ UNCHANGED <<thread, lockVars, runtime, diskVars, dataVars>>

\* storage_state() returned: hand the snapshot to a thread.
CaptureFinalState(r) ==
    /\ pc[r] = "snapshot"
    /\ Goto(r, "write_final")
    /\ Submit(r, "final")
    /\ UNCHANGED <<lockVars, runtime, diskVars, dataVars, faulted>>

\* Slip: the write is started and its end not awaited.
FinalAssumed(r) ==
    /\ pc[r] = "write_final"
    /\ Goto(r, "close_context")
    /\ refs' = [refs EXCEPT ![r] = @ \cup {"final"}]
    /\ UNCHANGED <<thread, lockVars, runtime, diskVars, prior, base, faulted>>

FinalWritten(r) ==
    /\ pc[r] = "write_final"
    /\ thread[r] = "written"
    /\ Goto(r, "close_context")
    /\ Submit(r, "none")
    /\ refs' = [refs EXCEPT ![r] = @ \cup {"final"}]
    /\ UNCHANGED <<lockVars, runtime, diskVars, prior, base, faulted>>

\* The capture raises: noted, and the exit goes on to close the context.
CaptureRaises(r) ==
    /\ pc[r] \in {"snapshot", "write_final"}
    /\ r \in Faulty \/ thread[r] = "raised"
    /\ Goto(r, "close_context")
    /\ StopWaiting(r)
    /\ Note(r, TRUE)
    /\ UNCHANGED <<lockVars, runtime, diskVars, dataVars>>

CloseContext(r) ==
    /\ pc[r] = "close_context"
    /\ Goto(r, "close_runtime")
    /\ \E raised \in BOOLEAN :
          /\ raised => r \in Faulty
          /\ Note(r, raised)
    /\ UNCHANGED <<thread, lockVars, runtime, diskVars, dataVars>>

\* Close the browser, release the lock, build the terminal record and result.
CloseRuntime(r) ==
    /\ pc[r] = "close_runtime"
    /\ \E outcome \in {"closed", "lost"} :
          /\ ShutDown(r, outcome)
          /\ Note(r, outcome = "lost")
          /\ Goto(r, IF faulted'[r] THEN "failed" ELSE "succeeded")
    /\ ReleaseLock(r)
    /\ UNCHANGED <<thread, diskVars, dataVars>>

-----------------------------------------------------------------------------
(***************************************************************************)
(* The executor's threads                                                  *)
(***************************************************************************)

\* A call's result is kept for a run that still waits for it.
Report(r, result) ==
    Submit(r, IF pc[r] \in ThreadAwaits THEN result ELSE "none")

\* Slip: one lock object for the process, which its next taker re-enters.
ThreadReenters(r) ==
    /\ thread[r] = "acquiring"
    /\ holder' = [holder EXCEPT ![ProfileOfRun(r)] = r]
    /\ Submit(r, "acquired")
    /\ UNCHANGED <<pc, lock, runtime, diskVars, dataVars, faulted>>

\* ProfileLockManager.acquire takes a free lock, awaited or not ...
ThreadAcquires(r) ==
    /\ thread[r] = "acquiring"
    /\ holder[ProfileOfRun(r)] = NoRun
    /\ holder' = [holder EXCEPT ![ProfileOfRun(r)] = r]
    /\ Submit(r, "acquired")
    /\ UNCHANGED <<pc, lock, runtime, diskVars, dataVars, faulted>>

\* ... and times out on a held one (at once with the default timeout of 0).
ThreadTimesOut(r) ==
    /\ thread[r] = "acquiring"
    /\ holder[ProfileOfRun(r)] # NoRun
    /\ Report(r, "raised")
    /\ UNCHANGED <<pc, lockVars, runtime, diskVars, dataVars, faulted>>

\* A snapshot file is created exclusively; it is visible while it is written.
ThreadCreates(r) ==
    /\ thread[r] \in Kinds
    /\ file[<<r, thread[r]>>] = "absent"
    /\ file' = [file EXCEPT ![<<r, thread[r]>>] = "partial"]
    /\ UNCHANGED <<pc, thread, lockVars, runtime, content, dataVars, faulted>>

\* Slip: the final snapshot is the state the browser started with.
SnapshotAtEntry(r, kind) == base[r]

Snapshot(r, kind) == IF kind = "initial" THEN base[r] ELSE base[r] \cup {r}

ThreadWrites(r) ==
    /\ thread[r] \in Kinds
    /\ file[<<r, thread[r]>>] = "partial"
    /\ file' = [file EXCEPT ![<<r, thread[r]>>] = "whole"]
    /\ content' = [content EXCEPT ![<<r, thread[r]>>] = Snapshot(r, thread[r])]
    /\ Report(r, "written")
    /\ UNCHANGED <<pc, lockVars, runtime, dataVars, faulted>>

(***************************************************************************)
(* A failed write removes the file it created, if it can; the file is      *)
(* whole, and stays, when it is only the confirmation that fails.          *)
(***************************************************************************)
ThreadFails(r) ==
    /\ r \in Faulty
    /\ thread[r] \in Kinds
    /\ \E left \in {"absent", "partial", "whole"} :
          /\ left # "absent" => file[<<r, thread[r]>>] = "partial"
          /\ file' = [file EXCEPT ![<<r, thread[r]>>] = left]
          /\ content' = IF left = "whole"
                        THEN [content EXCEPT ![<<r, thread[r]>>] = Snapshot(r, thread[r])]
                        ELSE content
    /\ Report(r, "raised")
    /\ UNCHANGED <<pc, lockVars, runtime, dataVars, faulted>>

\* The handle of an abandoned acquire is collected, which releases its lock.
CollectHandle(r) ==
    /\ thread[r] = "acquired"
    /\ pc[r] # "acquire"
    /\ holder' = Freed(r)
    /\ Submit(r, "none")
    /\ UNCHANGED <<pc, lock, runtime, diskVars, dataVars, faulted>>

-----------------------------------------------------------------------------
(***************************************************************************)
(* The environment                                                         *)
(***************************************************************************)

\* The process of a run dies: the operating system frees its file lock.
Crash(r) ==
    /\ r \in Mortal
    /\ Active(r) \/ thread[r] # "none"
    /\ Goto(r, IF Active(r) THEN "crashed" ELSE pc[r])
    /\ Submit(r, "none")
    /\ holder' = Freed(r)
    /\ lock' = [lock EXCEPT ![r] = FALSE]
    /\ runtime' = [runtime EXCEPT ![r] = IF @ = "open" THEN "lost" ELSE @]
    /\ UNCHANGED <<diskVars, dataVars, faulted>>

\* A snapshot is corrupted, truncated or removed behind the program's back.
Damage(w) ==
    /\ w \in Fragile
    /\ file[<<w, "final">>] = "whole"
    /\ file' = [file EXCEPT ![<<w, "final">>] = "damaged"]
    /\ UNCHANGED <<pc, thread, lockVars, runtime, content, dataVars, faulted>>

-----------------------------------------------------------------------------
RunStep(r) ==
    \/ EnsureProfileLayout(r) \/ LockAcquired(r) \/ EnsureRunLayout(r)
    \/ ResolveInitialState(r) \/ RefusePrior(r) \/ InitialWritten(r)
    \/ Launch(r) \/ NewContext(r) \/ EnterRaises(r) \/ EnterCleanup(r)
    \/ BodyEnds(r) \/ CaptureFinalState(r) \/ FinalWritten(r)
    \/ CaptureRaises(r) \/ CloseContext(r) \/ CloseRuntime(r)

ThreadStep(r) ==
    \/ ThreadAcquires(r) \/ ThreadTimesOut(r)
    \/ ThreadCreates(r) \/ ThreadWrites(r) \/ ThreadFails(r)

Environment(r) == Crash(r) \/ Damage(r)

\* Slip: a session takes over what any session of its profile left.
OfferedByProfile(r) ==
    {NoRun} \cup {Carried(w) : w \in {x \in Runs : /\ Ended(x)
                                                   /\ ProfileOfRun(x) = ProfileOfRun(r)}}

\* The session records a caller can hold: a new one, or an earlier result's.
Offered(r) ==
    {NoRun} \cup {Carried(w) : w \in {x \in Runs : /\ Ended(x)
                                                   /\ SessionOf[x] = SessionOf[r]}}

Next ==
    \E r \in Runs :
        \/ \E w \in Offered(r) : Open(r, w)
        \/ RunStep(r)
        \/ ThreadStep(r)
        \/ CollectHandle(r)
        \/ Environment(r)

Spec == Init /\ [][Next]_vars

(***************************************************************************)
(* Every await returns or raises, every submitted call is run, and a       *)
(* dropped handle is collected.  Nothing obliges anyone to open a run, or  *)
(* a fault to happen.                                                      *)
(***************************************************************************)
Fairness ==
    \A r \in Runs :
        /\ WF_vars(RunStep(r))
        /\ WF_vars(ThreadStep(r))
        /\ WF_vars(CollectHandle(r))

FairSpec == Spec /\ Fairness

-----------------------------------------------------------------------------
(***************************************************************************)
(* Properties                                                              *)
(***************************************************************************)

(***************************************************************************)
(* A browser that may be alive has its run holding the lock of the profile *)
(* or was lost: its close raised, or its process died.  The lock is given  *)
(* back even so, and the next run may browse beside it; but its own run    *)
(* ended, and never as a success.  On every other path out of __aenter__   *)
(* and __aexit__ the close comes before the release.                       *)
(***************************************************************************)
MayBeAlive(r) == runtime[r] \in {"open", "lost"}

LostByItsRun(r) ==
    runtime[r] = "lost" /\ pc[r] \in {"not_entered", "failed", "crashed"}

LiveRuntimeUnderLock ==
    \A r \in Runs :
        MayBeAlive(r) => holder[ProfileOfRun(r)] = r \/ LostByItsRun(r)

(***************************************************************************)
(* Two browsers are on one profile only when one of them was lost.         *)
(***************************************************************************)
OneBrowserPerProfile ==
    \A r, w \in Runs :
        /\ r # w /\ ProfileOfRun(r) = ProfileOfRun(w)
        /\ MayBeAlive(r) /\ MayBeAlive(w)
        => LostByItsRun(r) \/ LostByItsRun(w)

(***************************************************************************)
(* A profile is locked only for a run that is under way and knows it, or   *)
(* by the uncollected handle of an acquire its run was cancelled out of:   *)
(* no ended run leaks a lock.                                              *)
(***************************************************************************)
NoLockLeak ==
    \A p \in Profiles : \A r \in Runs :
        holder[p] = r => \/ Active(r) /\ lock[r]
                         \/ thread[r] = "acquired"

(***************************************************************************)
(* Fail closed: a run that got as far as launching a browser for a session *)
(* with a carried snapshot starts from exactly the state that snapshot was *)
(* written with, and its own initial snapshot says so.                     *)
(***************************************************************************)
PastResolve == {"write_initial", "launch", "new_context", "body"} \cup ExitSteps
                  \cup {"succeeded", "failed"}

StartsFromPrior ==
    \A r \in Runs :
        pc[r] \in PastResolve =>
            /\ Persists(r) /\ prior[r] # NoRun =>
                  base[r] = content[<<prior[r], "final">>]
            /\ "initial" \in refs[r] => content[<<r, "initial">>] = base[r]

(***************************************************************************)
(* A reference a run hands out names a snapshot that was written to its    *)
(* end, never a partial file, and whose lineage is the run's own: for the  *)
(* final one, also when the capture was cancelled or the run failed later. *)
(***************************************************************************)
RefsAreComplete ==
    \A r \in Runs : \A kind \in refs[r] :
        /\ file[<<r, kind>>] \in {"whole", "damaged"}
        /\ content[<<r, kind>>] = Snapshot(r, kind)

(***************************************************************************)
(* A run that ends "succeeded" left nothing behind: the browser is closed, *)
(* the lock is back, no call of it is still running and, where the session *)
(* asks for it, the final snapshot is there.  Any exit step that raised    *)
(* must have made the run "failed".                                        *)
(***************************************************************************)
SuccessIsClean ==
    \A r \in Runs : pc[r] = "succeeded" =>
        /\ runtime[r] = "closed"
        /\ ~lock[r]
        /\ thread[r] = "none"
        /\ CapturesFinal(r) <=> "final" \in refs[r]

(***************************************************************************)
(* Browser state never crosses from one session to another, even when they *)
(* share a profile.                                                        *)
(***************************************************************************)
SessionsAreIsolated ==
    \A f \in Files : \A w \in content[f] : SessionOf[w] = SessionOf[f[1]]

(***************************************************************************)
(* Every run that is opened ends, whatever raises, dies or is cancelled    *)
(* and whoever else wants its profile.                                     *)
(***************************************************************************)
OpenedRunsEnd == \A r \in Runs : Active(r) ~> Ended(r)

\* Every profile ends up unlocked once the runs stop coming.
LocksDrain == \A p \in Profiles : <>[](holder[p] = NoRun)

=============================================================================
