------------------------ MODULE SessionLifecycleProofs ------------------------
(***************************************************************************)
(* Proofs about SessionLifecycle, for every set of runs, sessions and      *)
(* profiles and every choice of faults: its types, its locks, its          *)
(* snapshots, and the custody of profiles it implements.                   *)
(***************************************************************************)
EXTENDS LifecycleCustody, TLAPS

USE DEF EnterSteps, ExitSteps, ActiveSteps, EndSteps, ThreadAwaits, Kinds, Files

(***************************************************************************)
(* Every variable keeps its type along every step of a run, of its threads *)
(* and of the environment.                                                 *)
(***************************************************************************)
LEMMA TypeInit == Init => TypeOK
  BY NoRunAssumption DEF Init, TypeOK

LEMMA TypeRunStep ==
  ASSUME TypeOK, NEW r \in Runs, RunStep(r)
  PROVE  TypeOK'
<1> USE DEF TypeOK, Goto, Submit, Note, lockVars, diskVars, dataVars
<1>1. CASE EnsureProfileLayout(r)
  BY <1>1 DEF EnsureProfileLayout
<1>2. CASE LockAcquired(r)
  BY <1>2 DEF LockAcquired
<1>3. CASE EnsureRunLayout(r)
  BY <1>3 DEF EnsureRunLayout
<1>4. CASE ResolveInitialState(r)
  <2>1. ReadsPrior(r) => content[<<prior[r], "final">>] \in SUBSET Runs
    BY NoRunAssumption DEF ReadsPrior
  <2>2. base' \in [Runs -> SUBSET Runs]
    BY <1>4, <2>1 DEF ResolveInitialState
  <2>3. /\ pc' \in [Runs -> {"idle"} \cup ActiveSteps \cup EndSteps]
        /\ thread' \in [Runs -> {"none", "acquiring", "acquired", "written",
                                 "raised"} \cup Kinds]
    BY <1>4 DEF ResolveInitialState
  <2> QED
    BY <1>4, <2>2, <2>3 DEF ResolveInitialState
<1>5. CASE RefusePrior(r)
  BY <1>5 DEF RefusePrior
<1>6. CASE InitialWritten(r)
  BY <1>6 DEF InitialWritten
<1>7. CASE Launch(r)
  BY <1>7 DEF Launch
<1>8. CASE NewContext(r)
  BY <1>8 DEF NewContext
<1>9. CASE EnterRaises(r)
  BY <1>9 DEF EnterRaises, StopWaiting
<1>10. CASE EnterCleanup(r)
  BY <1>10 DEF EnterCleanup, ShutDown, ReleaseLock, Freed
<1>11. CASE BodyEnds(r)
  BY <1>11 DEF BodyEnds
<1>12. CASE CaptureFinalState(r)
  BY <1>12 DEF CaptureFinalState
<1>13. CASE FinalWritten(r)
  BY <1>13 DEF FinalWritten
<1>14. CASE CaptureRaises(r)
  BY <1>14 DEF CaptureRaises, StopWaiting
<1>15. CASE CloseContext(r)
  BY <1>15 DEF CloseContext
<1>16. CASE CloseRuntime(r)
  BY <1>16 DEF CloseRuntime, ShutDown, ReleaseLock, Freed
<1> QED
  BY <1>1, <1>2, <1>3, <1>4, <1>5, <1>6, <1>7, <1>8, <1>9, <1>10, <1>11,
     <1>12, <1>13, <1>14, <1>15, <1>16 DEF RunStep

LEMMA TypeOtherStep ==
  ASSUME TypeOK, NEW r \in Runs,
         \/ \E w \in Offered(r) : Open(r, w)
         \/ ThreadStep(r) \/ CollectHandle(r) \/ Environment(r)
  PROVE  TypeOK'
<1> USE SessionOfAssumption, ProfileOfAssumption, NoRunAssumption
    DEF TypeOK, Goto, Submit, lockVars, diskVars, dataVars, Report
<1>1. ASSUME NEW w \in Offered(r), Open(r, w) PROVE TypeOK'
  <2>1. w \in Runs \cup {NoRun}
    BY DEF Offered, Carried
  <2> QED
    BY <1>1, <2>1 DEF Open
<1>2. CASE ThreadAcquires(r)
  BY <1>2 DEF ThreadAcquires, ProfileOfRun
<1>3. CASE ThreadTimesOut(r)
  BY <1>3 DEF ThreadTimesOut
<1>4. CASE ThreadCreates(r)
  BY <1>4 DEF ThreadCreates
<1>5. CASE ThreadWrites(r)
  BY <1>5 DEF ThreadWrites, Snapshot
<1>6. CASE ThreadFails(r)
  BY <1>6 DEF ThreadFails, Snapshot
<1>7. CASE CollectHandle(r)
  BY <1>7 DEF CollectHandle, Freed
<1>8. CASE Crash(r)
  BY <1>8 DEF Crash, Freed
<1>9. CASE Damage(r)
  BY <1>9 DEF Damage
<1> QED
  BY <1>1, <1>2, <1>3, <1>4, <1>5, <1>6, <1>7, <1>8, <1>9
     DEF ThreadStep, Environment

LEMMA TypeStep == TypeOK /\ [Next]_vars => TypeOK'
<1> SUFFICES ASSUME TypeOK, [Next]_vars PROVE TypeOK'
  OBVIOUS
<1>1. CASE UNCHANGED vars
  BY <1>1 DEF TypeOK, vars, lockVars, diskVars, dataVars
<1>2. CASE Next
  BY <1>2, TypeRunStep, TypeOtherStep DEF Next
<1> QED
  BY <1>1, <1>2

(***************************************************************************)
(* Type correctness of the managed run.                                    *)
(***************************************************************************)
THEOREM TypeCorrect == Spec => []TypeOK
  BY TypeInit, TypeStep, PTL DEF Spec

-----------------------------------------------------------------------------
(***************************************************************************)
(* The strengthening of LiveRuntimeUnderLock and NoLockLeak: who holds a   *)
(* profile's file lock is exactly who has a handle of it, in self._lock or *)
(* in the result of an acquire; a handle in self._lock is there at every   *)
(* step from the acquisition to the release and at no other; an open       *)
(* browser is inside that span, and a lost one after it.                   *)
(***************************************************************************)
LockedSteps == {"run_layout", "resolve", "write_initial", "launch",
                "new_context", "body"} \cup ExitSteps

HandleInv(r) ==
    /\ lock[r] => /\ holder[ProfileOfRun(r)] = r
                  /\ pc[r] \in LockedSteps \cup {"cleanup"}
    /\ pc[r] \in LockedSteps => lock[r]
    /\ thread[r] = "acquired" => holder[ProfileOfRun(r)] = r
    /\ thread[r] \in {"acquiring", "acquired"} => ~lock[r]
    /\ pc[r] \in {"idle", "layout"} => thread[r] = "none"
    /\ runtime[r] = "open" => lock[r]
    /\ pc[r] \in {"run_layout", "resolve", "write_initial", "launch"} =>
          runtime[r] # "open"
    /\ runtime[r] = "lost" => pc[r] \in {"not_entered", "failed", "crashed"}

HolderInv ==
    \A p \in Profiles, r \in Runs :
        holder[p] = r => /\ p = ProfileOfRun(r)
                         /\ lock[r] \/ thread[r] = "acquired"

LockInv ==
    /\ \A r \in Runs : HandleInv(r)
    /\ HolderInv

\* Nobody but run r moves, and no lock but r's own changes hands.
OnlyMoves(r) ==
    /\ \A x \in Runs \ {r} : /\ pc'[x] = pc[x] /\ thread'[x] = thread[x]
                              /\ lock'[x] = lock[x] /\ runtime'[x] = runtime[x]
    /\ \A p \in Profiles : \A x \in Runs \ {r} : (holder'[p] = x) <=> (holder[p] = x)

RunHolds(r) ==
    \A p \in Profiles :
        holder[p] = r => /\ p = ProfileOfRun(r)
                         /\ lock[r] \/ thread[r] = "acquired"

LEMMA FrameLockInv ==
  ASSUME LockInv, NEW r \in Runs, OnlyMoves(r), HandleInv(r)', RunHolds(r)'
  PROVE  LockInv'
<1>1. \A x \in Runs : ProfileOfRun(x) \in Profiles
  BY SessionOfAssumption, ProfileOfAssumption DEF ProfileOfRun
<1>2. ASSUME NEW x \in Runs, x # r PROVE HandleInv(x)'
  BY <1>1, <1>2 DEF OnlyMoves, LockInv, HandleInv, ProfileOfRun
<1>3. ASSUME NEW x \in Runs, x # r, NEW p \in Profiles, holder'[p] = x
      PROVE  p = ProfileOfRun(x) /\ (lock'[x] \/ thread'[x] = "acquired")
  BY <1>3 DEF OnlyMoves, LockInv, HolderInv
<1> QED
  BY <1>2, <1>3 DEF LockInv, HolderInv, RunHolds, ProfileOfRun

LEMMA LockInvStep ==
  ASSUME TypeOK, LockInv, NEW r \in Runs,
         \/ \E w \in Offered(r) : Open(r, w)
         \/ RunStep(r) \/ ThreadStep(r) \/ CollectHandle(r) \/ Environment(r)
  PROVE  LockInv'
<1>1. HandleInv(r) /\ RunHolds(r) /\ ProfileOfRun(r) \in Profiles
  BY SessionOfAssumption, ProfileOfAssumption
     DEF LockInv, HolderInv, RunHolds, ProfileOfRun
<1> USE <1>1, NoRunAssumption
    DEF TypeOK, HandleInv, RunHolds, OnlyMoves, LockedSteps, ProfileOfRun,
        Goto, Submit, lockVars, diskVars, dataVars
<1>2. ASSUME NEW w \in Offered(r), Open(r, w)
      PROVE  LockInv'
  <2>1. OnlyMoves(r) /\ HandleInv(r)' /\ RunHolds(r)'
    BY <1>2 DEF Open
  <2> QED
    BY <2>1, FrameLockInv
<1>3. CASE EnsureProfileLayout(r)
  <2>1. OnlyMoves(r) /\ HandleInv(r)' /\ RunHolds(r)'
    BY <1>3 DEF EnsureProfileLayout
  <2> QED
    BY <2>1, FrameLockInv
<1>4. CASE LockAcquired(r)
  <2>1. OnlyMoves(r) /\ HandleInv(r)' /\ RunHolds(r)'
    BY <1>4 DEF LockAcquired
  <2> QED
    BY <2>1, FrameLockInv
<1>5. CASE EnsureRunLayout(r)
  <2>1. OnlyMoves(r) /\ HandleInv(r)' /\ RunHolds(r)'
    BY <1>5 DEF EnsureRunLayout
  <2> QED
    BY <2>1, FrameLockInv
<1>6. CASE ResolveInitialState(r)
  <2>1. OnlyMoves(r) /\ HandleInv(r)' /\ RunHolds(r)'
    BY <1>6 DEF ResolveInitialState
  <2> QED
    BY <2>1, FrameLockInv
<1>7. CASE RefusePrior(r)
  <2>1. OnlyMoves(r) /\ HandleInv(r)' /\ RunHolds(r)'
    BY <1>7 DEF RefusePrior
  <2> QED
    BY <2>1, FrameLockInv
<1>8. CASE InitialWritten(r)
  <2>1. OnlyMoves(r) /\ HandleInv(r)' /\ RunHolds(r)'
    BY <1>8 DEF InitialWritten
  <2> QED
    BY <2>1, FrameLockInv
<1>9. CASE Launch(r)
  <2>1. OnlyMoves(r) /\ HandleInv(r)' /\ RunHolds(r)'
    BY <1>9 DEF Launch
  <2> QED
    BY <2>1, FrameLockInv
<1>10. CASE NewContext(r)
  <2>1. OnlyMoves(r) /\ HandleInv(r)' /\ RunHolds(r)'
    BY <1>10 DEF NewContext
  <2> QED
    BY <2>1, FrameLockInv
<1>11. CASE EnterRaises(r)
  <2>1. OnlyMoves(r) /\ HandleInv(r)' /\ RunHolds(r)'
    BY <1>11 DEF EnterRaises, StopWaiting
  <2> QED
    BY <2>1, FrameLockInv
<1>12. CASE EnterCleanup(r)
  <2>1. OnlyMoves(r) /\ HandleInv(r)' /\ RunHolds(r)'
    BY <1>12 DEF EnterCleanup, ShutDown, ReleaseLock, Freed
  <2> QED
    BY <2>1, FrameLockInv
<1>13. CASE BodyEnds(r)
  <2>1. OnlyMoves(r) /\ HandleInv(r)' /\ RunHolds(r)'
    BY <1>13 DEF BodyEnds
  <2> QED
    BY <2>1, FrameLockInv
<1>14. CASE CaptureFinalState(r)
  <2>1. OnlyMoves(r) /\ HandleInv(r)' /\ RunHolds(r)'
    BY <1>14 DEF CaptureFinalState
  <2> QED
    BY <2>1, FrameLockInv
<1>15. CASE FinalWritten(r)
  <2>1. OnlyMoves(r) /\ HandleInv(r)' /\ RunHolds(r)'
    BY <1>15 DEF FinalWritten
  <2> QED
    BY <2>1, FrameLockInv
<1>16. CASE CaptureRaises(r)
  <2>1. OnlyMoves(r) /\ HandleInv(r)' /\ RunHolds(r)'
    BY <1>16 DEF CaptureRaises, StopWaiting
  <2> QED
    BY <2>1, FrameLockInv
<1>17. CASE CloseContext(r)
  <2>1. OnlyMoves(r) /\ HandleInv(r)' /\ RunHolds(r)'
    BY <1>17 DEF CloseContext
  <2> QED
    BY <2>1, FrameLockInv
<1>18. CASE CloseRuntime(r)
  <2>1. OnlyMoves(r) /\ HandleInv(r)' /\ RunHolds(r)'
    BY <1>18 DEF CloseRuntime, ShutDown, ReleaseLock, Freed, Note
  <2> QED
    BY <2>1, FrameLockInv
<1>19. CASE ThreadAcquires(r)
  <2>1. OnlyMoves(r) /\ HandleInv(r)' /\ RunHolds(r)'
    BY <1>19 DEF ThreadAcquires
  <2> QED
    BY <2>1, FrameLockInv
<1>20. CASE ThreadTimesOut(r)
  <2>1. OnlyMoves(r) /\ HandleInv(r)' /\ RunHolds(r)'
    BY <1>20 DEF ThreadTimesOut, Report
  <2> QED
    BY <2>1, FrameLockInv
<1>21. CASE ThreadCreates(r)
  <2>1. OnlyMoves(r) /\ HandleInv(r)' /\ RunHolds(r)'
    BY <1>21 DEF ThreadCreates
  <2> QED
    BY <2>1, FrameLockInv
<1>22. CASE ThreadWrites(r)
  <2>1. OnlyMoves(r) /\ HandleInv(r)' /\ RunHolds(r)'
    BY <1>22 DEF ThreadWrites, Report
  <2> QED
    BY <2>1, FrameLockInv
<1>23. CASE ThreadFails(r)
  <2>1. OnlyMoves(r) /\ HandleInv(r)' /\ RunHolds(r)'
    BY <1>23 DEF ThreadFails, Report
  <2> QED
    BY <2>1, FrameLockInv
<1>24. CASE CollectHandle(r)
  <2>1. OnlyMoves(r) /\ HandleInv(r)' /\ RunHolds(r)'
    BY <1>24 DEF CollectHandle, Freed
  <2> QED
    BY <2>1, FrameLockInv
<1>25. CASE Crash(r)
  <2>1. OnlyMoves(r) /\ HandleInv(r)' /\ RunHolds(r)'
    BY <1>25 DEF Crash, Freed, Active
  <2> QED
    BY <2>1, FrameLockInv
<1>26. CASE Damage(r)
  <2>1. OnlyMoves(r) /\ HandleInv(r)' /\ RunHolds(r)'
    BY <1>26 DEF Damage
  <2> QED
    BY <2>1, FrameLockInv
<1> QED
  BY <1>2, <1>3, <1>4, <1>5, <1>6, <1>7, <1>8, <1>9, <1>10, <1>11, <1>12, <1>13, <1>14, <1>15, <1>16, <1>17, <1>18, <1>19, <1>20, <1>21, <1>22, <1>23, <1>24, <1>25, <1>26
     DEF RunStep, ThreadStep, Environment

THEOREM LocksCorrect == Spec => [](TypeOK /\ LockInv)
<1>1. Init => LockInv
  BY NoRunAssumption, SessionOfAssumption, ProfileOfAssumption
     DEF Init, LockInv, HandleInv, HolderInv, LockedSteps, ProfileOfRun
<1>2. TypeOK /\ LockInv /\ [Next]_vars => LockInv'
  <2> SUFFICES ASSUME TypeOK, LockInv, [Next]_vars PROVE LockInv'
    OBVIOUS
  <2>1. CASE UNCHANGED vars
    BY <2>1 DEF LockInv, HandleInv, HolderInv, ProfileOfRun, vars, lockVars
  <2>2. CASE Next
    BY <2>2, LockInvStep DEF Next
  <2> QED
    BY <2>1, <2>2
<1> QED
  BY <1>1, <1>2, TypeCorrect, PTL DEF Spec

(***************************************************************************)
(* A browser that may be alive is under its profile's lock, unless it was  *)
(* lost by a run that ended without success.                               *)
(***************************************************************************)
THEOREM BrowserUnderLock == Spec => []LiveRuntimeUnderLock
<1>1. LockInv => LiveRuntimeUnderLock
  BY DEF LockInv, HandleInv, LiveRuntimeUnderLock, MayBeAlive, LostByItsRun
<1> QED
  BY <1>1, LocksCorrect, PTL

(***************************************************************************)
(* Of two browsers on one profile, one was lost.                           *)
(***************************************************************************)
THEOREM TwoBrowsersMeanALostOne == Spec => []OneBrowserPerProfile
<1>1. TypeOK /\ LiveRuntimeUnderLock => OneBrowserPerProfile
  BY DEF LiveRuntimeUnderLock, OneBrowserPerProfile
<1> QED
  BY <1>1, TypeCorrect, BrowserUnderLock, PTL

(***************************************************************************)
(* No ended run leaves its profile locked, but for a handle to collect.    *)
(***************************************************************************)
THEOREM LocksNeverLeak == Spec => []NoLockLeak
<1>1. LockInv => NoLockLeak
  BY DEF LockInv, HandleInv, HolderInv, NoLockLeak, Active, LockedSteps
<1> QED
  BY <1>1, LocksCorrect, PTL

-----------------------------------------------------------------------------
(***************************************************************************)
(* The snapshots: what a run starts from, what its references name, whom   *)
(* its state belongs to, and what success means.                           *)
(***************************************************************************)
(***************************************************************************)
(* Which call a run can have under way at each step.                       *)
(***************************************************************************)
CallInv(r) ==
    /\ pc[r] \in {"idle", "layout", "run_layout", "resolve", "launch",
                  "new_context", "body", "snapshot"} => thread[r] = "none"
    /\ pc[r] = "acquire" => thread[r] \in {"acquiring", "acquired", "raised"}
    /\ pc[r] = "write_initial" => thread[r] \in {"initial", "written", "raised"}
    /\ pc[r] = "write_final" => thread[r] \in {"final", "written", "raised"}
    /\ thread[r] = "written" => pc[r] \in {"write_initial", "write_final"}

(***************************************************************************)
(* A snapshot is complete from the moment its writer reports it, and no    *)
(* call writes a file the run already has a reference to.                  *)
(***************************************************************************)
IsComplete(r, kind) ==
    /\ file[<<r, kind>>] \in {"whole", "damaged"}
    /\ content[<<r, kind>>] = Snapshot(r, kind)

SnapshotInv(r) ==
    /\ "initial" \in refs[r] =>
          pc[r] \notin {"idle", "layout", "acquire", "run_layout", "resolve",
                       "write_initial"}
    /\ "final" \in refs[r] =>
          pc[r] \in {"close_context", "close_runtime", "succeeded", "failed",
                    "crashed"}
    /\ thread[r] \in Kinds => thread[r] \notin refs[r]
    /\ "initial" \in refs[r] => IsComplete(r, "initial")
    /\ "final" \in refs[r] => IsComplete(r, "final")
    /\ pc[r] = "write_initial" /\ thread[r] = "written" => IsComplete(r, "initial")
    /\ pc[r] = "write_final" /\ thread[r] = "written" => IsComplete(r, "final")

(***************************************************************************)
(* The carried snapshot is one its run has a reference to, so it is never  *)
(* written again, and it is one of the session.                            *)
(***************************************************************************)
SameSession(S, r) == \A w \in S : SessionOf[w] = SessionOf[r]

LineageInv(r) ==
    /\ prior[r] # NoRun => /\ "final" \in refs[prior[r]]
                           /\ SessionOf[prior[r]] = SessionOf[r]
    /\ pc[r] \in PastResolve /\ Persists(r) /\ prior[r] # NoRun =>
          base[r] = content[<<prior[r], "final">>]

IsolationInv(r) ==
    /\ SameSession(base[r], r)
    /\ SameSession(content[<<r, "initial">>], r)
    /\ SameSession(content[<<r, "final">>], r)

(***************************************************************************)
(* From the body on the browser is open until it is closed, and a run that *)
(* has not faulted has what it was to capture.                             *)
(***************************************************************************)
Captured(r) == thread[r] = "none" /\ (CapturesFinal(r) <=> "final" \in refs[r])

SuccessInv(r) ==
    /\ pc[r] \in {"new_context", "body"} \cup ExitSteps => runtime[r] = "open"
    /\ pc[r] \in {"snapshot", "write_final"} => CapturesFinal(r)
    /\ pc[r] \in {"close_context", "close_runtime"} /\ ~faulted[r] => Captured(r)
    /\ pc[r] = "succeeded" => Captured(r) /\ runtime[r] = "closed"

RunInv(r) ==
    CallInv(r) /\ SnapshotInv(r) /\ LineageInv(r) /\ IsolationInv(r) /\ SuccessInv(r)

DataInv == \A r \in Runs : RunInv(r)

\* A step of run r leaves the other runs, and their snapshots, alone ...
OthersKept(r) ==
    \A x \in Runs \ {r} :
        /\ pc'[x] = pc[x] /\ thread'[x] = thread[x] /\ runtime'[x] = runtime[x]
        /\ prior'[x] = prior[x] /\ base'[x] = base[x] /\ refs'[x] = refs[x]
        /\ faulted'[x] = faulted[x]

SnapshotsKept(r) ==
    \A x \in Runs \ {r} :
        /\ content'[<<x, "initial">>] = content[<<x, "initial">>]
        /\ content'[<<x, "final">>] = content[<<x, "final">>]
        /\ file[<<x, "initial">>] \in {"whole", "damaged"} =>
              file'[<<x, "initial">>] \in {"whole", "damaged"}
        /\ file[<<x, "final">>] \in {"whole", "damaged"} =>
              file'[<<x, "final">>] \in {"whole", "damaged"}

\* ... and what r itself has handed out a reference to.
RefsKept(r) ==
    "final" \in refs[r] => /\ "final" \in refs'[r]
                          /\ content'[<<r, "final">>] = content[<<r, "final">>]

OnlyTouches(r) == OthersKept(r) /\ SnapshotsKept(r) /\ RefsKept(r)

\* A function updated at one point is unchanged at every other.
LEMMA ExceptElsewhere ==
  ASSUME NEW S, NEW T, NEW f \in [S -> T], NEW i, NEW v, NEW x \in S, x # i
  PROVE  [f EXCEPT ![i] = v][x] = f[x]
OBVIOUS

\* Such a step keeps the invariant of every run if it keeps that of run r.
LEMMA FrameDataInv ==
  ASSUME TypeOK, DataInv, NEW r \in Runs, OnlyTouches(r), RunInv(r)'
  PROVE  DataInv'
<1> SUFFICES ASSUME NEW x \in Runs, x # r PROVE RunInv(x)'
  BY DEF DataInv
<1>1. RunInv(x)
  BY DEF DataInv
<1>2. CallInv(x)' /\ SuccessInv(x)'
  BY <1>1 DEF RunInv, CallInv, SuccessInv, OnlyTouches, OthersKept,
             Captured, CapturesFinal, Persists
<1>3. SnapshotInv(x)'
  <2>1. /\ IsComplete(x, "initial") => IsComplete(x, "initial")'
        /\ IsComplete(x, "final") => IsComplete(x, "final")'
    BY DEF IsComplete, Snapshot, OnlyTouches, OthersKept, SnapshotsKept
  <2>2. /\ pc'[x] = pc[x] /\ thread'[x] = thread[x] /\ refs'[x] = refs[x]
        /\ prior'[x] = prior[x]
    BY DEF OnlyTouches, OthersKept
  <2> QED
    BY <1>1, <2>1, <2>2 DEF RunInv, SnapshotInv, OnlyTouches, SnapshotsKept
<1>4. LineageInv(x)'
  <2>1. prior[x] # NoRun => /\ prior[x] \in Runs
                            /\ "final" \in refs[prior[x]]
                            /\ SessionOf[prior[x]] = SessionOf[x]
    BY <1>1 DEF RunInv, LineageInv, TypeOK
  <2>2. prior[x] # NoRun => /\ "final" \in refs'[prior[x]]
                            /\ content'[<<prior[x], "final">>] = content[<<prior[x], "final">>]
    BY <2>1 DEF OnlyTouches, OthersKept, SnapshotsKept, RefsKept
  <2> QED
    BY <1>1, <2>1, <2>2 DEF RunInv, LineageInv, OnlyTouches,
                              OthersKept, Persists, PastResolve
<1>5. IsolationInv(x)'
  BY <1>1 DEF RunInv, IsolationInv, OnlyTouches, OthersKept, SnapshotsKept
<1> QED
  BY <1>2, <1>3, <1>4, <1>5 DEF RunInv

\* A step of run r that neither writes a snapshot nor hands one out.
LEMMA QuietStep ==
  ASSUME TypeOK, DataInv, NEW r \in Runs, UNCHANGED <<diskVars, dataVars>>,
         OthersKept(r), pc'[r] \in PastResolve => pc[r] \in PastResolve,
         CallInv(r)', SnapshotInv(r)', SuccessInv(r)'
  PROVE  DataInv'
<1>1. LineageInv(r) /\ IsolationInv(r)
  BY DEF DataInv, RunInv
<1>2. OnlyTouches(r)
  BY DEF OnlyTouches, SnapshotsKept, RefsKept, diskVars, dataVars
<1>3. LineageInv(r)' /\ IsolationInv(r)'
  BY <1>1 DEF LineageInv, IsolationInv, Persists, diskVars, dataVars
<1> QED
  BY <1>2, <1>3, FrameDataInv DEF RunInv

LEMMA DataInvStep ==
  ASSUME TypeOK, TypeOK', DataInv, NEW r \in Runs,
         \/ \E w \in Offered(r) : Open(r, w)
         \/ RunStep(r) \/ ThreadStep(r) \/ CollectHandle(r) \/ Environment(r)
  PROVE  DataInv'
<1>1. CallInv(r) /\ SnapshotInv(r) /\ LineageInv(r) /\ IsolationInv(r) /\ SuccessInv(r)
  BY DEF DataInv, RunInv
<1> USE <1>1, NoRunAssumption
    DEF TypeOK, Goto, Submit, lockVars, diskVars, dataVars
<1>2. ASSUME NEW w \in Offered(r), Open(r, w) PROVE DataInv'
  <2>1. w # NoRun => w \in Runs /\ "final" \in refs[w] /\ SessionOf[w] = SessionOf[r]
    <3>1. SUFFICES ASSUME w # NoRun
                   PROVE  w \in Runs /\ "final" \in refs[w] /\ SessionOf[w] = SessionOf[r]
      OBVIOUS
    <3>2. PICK x \in Runs : SessionOf[x] = SessionOf[r] /\ w = Carried(x)
      BY <3>1 DEF Offered
    <3>3. CASE pc[x] = "succeeded" /\ "final" \in refs[x]
      BY <3>2, <3>3 DEF Carried
    <3>4. CASE ~(pc[x] = "succeeded" /\ "final" \in refs[x])
      <4>1. w = prior[x]
        BY <3>2, <3>4 DEF Carried
      <4>2. LineageInv(x)
        BY <3>2 DEF DataInv, RunInv
      <4> QED
        BY <3>1, <3>2, <4>1, <4>2 DEF LineageInv
    <3> QED
      BY <3>3, <3>4
  <2>2. OnlyTouches(r)
    BY <1>2 DEF Open, OnlyTouches, OthersKept, SnapshotsKept, RefsKept
  <2>3. CallInv(r)' /\ SuccessInv(r)'
    BY <1>2 DEF Open, CallInv, SuccessInv, Captured, CapturesFinal, Persists
  <2>4. SnapshotInv(r)'
    <3>1. /\ IsComplete(r, "initial") => IsComplete(r, "initial")'
          /\ IsComplete(r, "final") => IsComplete(r, "final")'
      BY <1>2 DEF Open, IsComplete, Snapshot
    <3> QED
      BY <1>2, <3>1 DEF Open, SnapshotInv, CallInv
  <2>5. LineageInv(r)'
    BY <1>2, <2>1 DEF Open, LineageInv, PastResolve
  <2>6. IsolationInv(r)'
    BY <1>2 DEF Open, IsolationInv
  <2> QED
    BY <2>2, <2>3, <2>4, <2>5, <2>6, FrameDataInv DEF RunInv
<1>3. CASE EnsureProfileLayout(r)
  <2>1. /\ OthersKept(r)
        /\ pc'[r] \in PastResolve => pc[r] \in PastResolve
    BY <1>3 DEF EnsureProfileLayout, OthersKept, PastResolve
  <2>2. CallInv(r)'
    BY <1>3 DEF EnsureProfileLayout, CallInv
  <2>3. SnapshotInv(r)'
    <3>1. /\ IsComplete(r, "initial") => IsComplete(r, "initial")'
          /\ IsComplete(r, "final") => IsComplete(r, "final")'
      BY <1>3 DEF EnsureProfileLayout, IsComplete, Snapshot
    <3> QED
      BY <1>3, <3>1 DEF EnsureProfileLayout, SnapshotInv, CallInv
  <2>4. SuccessInv(r)'
    BY <1>3 DEF EnsureProfileLayout, SuccessInv, SnapshotInv, CallInv,
                  Captured, CapturesFinal, Persists
  <2>5. UNCHANGED <<diskVars, dataVars>>
    BY <1>3 DEF EnsureProfileLayout
  <2> QED
    BY <2>1, <2>2, <2>3, <2>4, <2>5, QuietStep
<1>4. CASE LockAcquired(r)
  <2>1. /\ OthersKept(r)
        /\ pc'[r] \in PastResolve => pc[r] \in PastResolve
    BY <1>4 DEF LockAcquired, OthersKept, PastResolve
  <2>2. CallInv(r)'
    BY <1>4 DEF LockAcquired, CallInv
  <2>3. SnapshotInv(r)'
    <3>1. /\ IsComplete(r, "initial") => IsComplete(r, "initial")'
          /\ IsComplete(r, "final") => IsComplete(r, "final")'
      BY <1>4 DEF LockAcquired, IsComplete, Snapshot
    <3> QED
      BY <1>4, <3>1 DEF LockAcquired, SnapshotInv, CallInv
  <2>4. SuccessInv(r)'
    BY <1>4 DEF LockAcquired, SuccessInv, SnapshotInv, CallInv,
                  Captured, CapturesFinal, Persists
  <2>5. UNCHANGED <<diskVars, dataVars>>
    BY <1>4 DEF LockAcquired
  <2> QED
    BY <2>1, <2>2, <2>3, <2>4, <2>5, QuietStep
<1>5. CASE EnsureRunLayout(r)
  <2>1. /\ OthersKept(r)
        /\ pc'[r] \in PastResolve => pc[r] \in PastResolve
    BY <1>5 DEF EnsureRunLayout, OthersKept, PastResolve
  <2>2. CallInv(r)'
    BY <1>5 DEF EnsureRunLayout, CallInv
  <2>3. SnapshotInv(r)'
    <3>1. /\ IsComplete(r, "initial") => IsComplete(r, "initial")'
          /\ IsComplete(r, "final") => IsComplete(r, "final")'
      BY <1>5 DEF EnsureRunLayout, IsComplete, Snapshot
    <3> QED
      BY <1>5, <3>1 DEF EnsureRunLayout, SnapshotInv, CallInv
  <2>4. SuccessInv(r)'
    BY <1>5 DEF EnsureRunLayout, SuccessInv, SnapshotInv, CallInv,
                  Captured, CapturesFinal, Persists
  <2>5. UNCHANGED <<diskVars, dataVars>>
    BY <1>5 DEF EnsureRunLayout
  <2> QED
    BY <2>1, <2>2, <2>3, <2>4, <2>5, QuietStep
<1>6. CASE ResolveInitialState(r)
  <2>1. OnlyTouches(r)
    <3>1. OthersKept(r)
      BY <1>6 DEF ResolveInitialState, OthersKept
    <3>2. SnapshotsKept(r)
      BY <1>6 DEF ResolveInitialState, SnapshotsKept
    <3>3. RefsKept(r)
      BY <1>6 DEF ResolveInitialState, RefsKept, SnapshotInv
    <3> QED
      BY <3>1, <3>2, <3>3 DEF OnlyTouches
  <2>2. CallInv(r)'
    BY <1>6 DEF ResolveInitialState, CallInv
  <2>3. SnapshotInv(r)'
    <3>1. "initial" \notin refs[r] /\ "final" \notin refs[r] /\ refs'[r] = refs[r]
      BY <1>6 DEF ResolveInitialState, SnapshotInv
    <3>2. thread[r] = "none" /\ thread'[r] \in {"none", "initial"}
      BY <1>6 DEF ResolveInitialState, CallInv
    <3> QED
      BY <3>1, <3>2 DEF SnapshotInv
  <2>4. LineageInv(r)'
    <3>1. /\ prior' = prior /\ refs' = refs /\ content' = content
          /\ base'[r] = IF ReadsPrior(r) THEN content[<<prior[r], "final">>] ELSE {}
      BY <1>6 DEF ResolveInitialState
    <3> QED
      BY <3>1 DEF LineageInv, ReadsPrior, Persists
  <2>5. SuccessInv(r)'
    BY <1>6 DEF ResolveInitialState, SuccessInv, SnapshotInv, CallInv,
                  Captured, CapturesFinal, Persists
  <2>6. IsolationInv(r)'
    <3>1. /\ prior' = prior /\ content' = content
          /\ base'[r] = IF ReadsPrior(r) THEN content[<<prior[r], "final">>] ELSE {}
      BY <1>6 DEF ResolveInitialState
    <3>2. ASSUME ReadsPrior(r)
          PROVE  SameSession(content[<<prior[r], "final">>], r)
      <4>1. prior[r] \in Runs /\ SessionOf[prior[r]] = SessionOf[r]
        BY <3>2 DEF ReadsPrior, LineageInv
      <4>2. IsolationInv(prior[r])
        BY <4>1 DEF DataInv, RunInv
      <4> QED
        BY <4>1, <4>2 DEF IsolationInv, SameSession
    <3>3. SameSession(base'[r], r)
      BY <3>1, <3>2 DEF SameSession
    <3> QED
      BY <3>1, <3>3 DEF IsolationInv
  <2> QED
    BY <2>1, <2>2, <2>3, <2>4, <2>5, <2>6, FrameDataInv DEF RunInv
<1>7. CASE RefusePrior(r)
  <2>1. /\ OthersKept(r)
        /\ pc'[r] \in PastResolve => pc[r] \in PastResolve
    BY <1>7 DEF RefusePrior, OthersKept, PastResolve
  <2>2. CallInv(r)'
    BY <1>7 DEF RefusePrior, CallInv
  <2>3. SnapshotInv(r)'
    <3>1. /\ IsComplete(r, "initial") => IsComplete(r, "initial")'
          /\ IsComplete(r, "final") => IsComplete(r, "final")'
      BY <1>7 DEF RefusePrior, IsComplete, Snapshot
    <3> QED
      BY <1>7, <3>1 DEF RefusePrior, SnapshotInv, CallInv
  <2>4. SuccessInv(r)'
    BY <1>7 DEF RefusePrior, SuccessInv, SnapshotInv, CallInv,
                  Captured, CapturesFinal, Persists
  <2>5. UNCHANGED <<diskVars, dataVars>>
    BY <1>7 DEF RefusePrior
  <2> QED
    BY <2>1, <2>2, <2>3, <2>4, <2>5, QuietStep
<1>8. CASE InitialWritten(r)
  <2>1. OnlyTouches(r)
    <3>1. OthersKept(r)
      BY <1>8 DEF InitialWritten, OthersKept
    <3>2. SnapshotsKept(r)
      BY <1>8 DEF InitialWritten, SnapshotsKept
    <3>3. RefsKept(r)
      BY <1>8 DEF InitialWritten, RefsKept, SnapshotInv
    <3> QED
      BY <3>1, <3>2, <3>3 DEF OnlyTouches
  <2>2. CallInv(r)'
    BY <1>8 DEF InitialWritten, CallInv
  <2>3. SnapshotInv(r)'
    <3>1. /\ IsComplete(r, "initial") => IsComplete(r, "initial")'
          /\ IsComplete(r, "final") => IsComplete(r, "final")'
      BY <1>8 DEF InitialWritten, IsComplete, Snapshot
    <3> QED
      BY <1>8, <3>1 DEF InitialWritten, SnapshotInv, CallInv
  <2>4. LineageInv(r)'
    BY <1>8 DEF InitialWritten, LineageInv, SnapshotInv, PastResolve, Persists
  <2>5. SuccessInv(r)'
    BY <1>8 DEF InitialWritten, SuccessInv, SnapshotInv, CallInv,
                  Captured, CapturesFinal, Persists
  <2>6. IsolationInv(r)'
    BY <1>8 DEF InitialWritten, IsolationInv
  <2> QED
    BY <2>1, <2>2, <2>3, <2>4, <2>5, <2>6, FrameDataInv DEF RunInv
<1>9. CASE Launch(r)
  <2>1. /\ OthersKept(r)
        /\ pc'[r] \in PastResolve => pc[r] \in PastResolve
    BY <1>9 DEF Launch, OthersKept, PastResolve
  <2>2. CallInv(r)'
    BY <1>9 DEF Launch, CallInv
  <2>3. SnapshotInv(r)'
    <3>1. /\ IsComplete(r, "initial") => IsComplete(r, "initial")'
          /\ IsComplete(r, "final") => IsComplete(r, "final")'
      BY <1>9 DEF Launch, IsComplete, Snapshot
    <3> QED
      BY <1>9, <3>1 DEF Launch, SnapshotInv, CallInv
  <2>4. SuccessInv(r)'
    BY <1>9 DEF Launch, SuccessInv, SnapshotInv, CallInv,
                  Captured, CapturesFinal, Persists
  <2>5. UNCHANGED <<diskVars, dataVars>>
    BY <1>9 DEF Launch
  <2> QED
    BY <2>1, <2>2, <2>3, <2>4, <2>5, QuietStep
<1>10. CASE NewContext(r)
  <2>1. /\ OthersKept(r)
        /\ pc'[r] \in PastResolve => pc[r] \in PastResolve
    BY <1>10 DEF NewContext, OthersKept, PastResolve
  <2>2. CallInv(r)'
    BY <1>10 DEF NewContext, CallInv
  <2>3. SnapshotInv(r)'
    <3>1. /\ IsComplete(r, "initial") => IsComplete(r, "initial")'
          /\ IsComplete(r, "final") => IsComplete(r, "final")'
      BY <1>10 DEF NewContext, IsComplete, Snapshot
    <3> QED
      BY <1>10, <3>1 DEF NewContext, SnapshotInv, CallInv
  <2>4. SuccessInv(r)'
    BY <1>10 DEF NewContext, SuccessInv, SnapshotInv, CallInv,
                  Captured, CapturesFinal, Persists
  <2>5. UNCHANGED <<diskVars, dataVars>>
    BY <1>10 DEF NewContext
  <2> QED
    BY <2>1, <2>2, <2>3, <2>4, <2>5, QuietStep
<1>11. CASE EnterRaises(r)
  <2>1. /\ OthersKept(r)
        /\ pc'[r] \in PastResolve => pc[r] \in PastResolve
    BY <1>11 DEF EnterRaises, StopWaiting, OthersKept, PastResolve
  <2>2. CallInv(r)'
    BY <1>11 DEF EnterRaises, StopWaiting, CallInv
  <2>3. SnapshotInv(r)'
    <3>1. /\ IsComplete(r, "initial") => IsComplete(r, "initial")'
          /\ IsComplete(r, "final") => IsComplete(r, "final")'
      BY <1>11 DEF EnterRaises, StopWaiting, IsComplete, Snapshot
    <3> QED
      BY <1>11, <3>1 DEF EnterRaises, StopWaiting, SnapshotInv, CallInv
  <2>4. SuccessInv(r)'
    BY <1>11 DEF EnterRaises, StopWaiting, SuccessInv, SnapshotInv, CallInv,
                  Captured, CapturesFinal, Persists
  <2>5. UNCHANGED <<diskVars, dataVars>>
    BY <1>11 DEF EnterRaises, StopWaiting
  <2> QED
    BY <2>1, <2>2, <2>3, <2>4, <2>5, QuietStep
<1>12. CASE EnterCleanup(r)
  <2>1. /\ OthersKept(r)
        /\ pc'[r] \in PastResolve => pc[r] \in PastResolve
    BY <1>12 DEF EnterCleanup, ShutDown, ReleaseLock, OthersKept, PastResolve
  <2>2. CallInv(r)'
    BY <1>12 DEF EnterCleanup, ShutDown, ReleaseLock, CallInv
  <2>3. SnapshotInv(r)'
    <3>1. /\ IsComplete(r, "initial") => IsComplete(r, "initial")'
          /\ IsComplete(r, "final") => IsComplete(r, "final")'
      BY <1>12 DEF EnterCleanup, ShutDown, ReleaseLock, IsComplete, Snapshot
    <3> QED
      BY <1>12, <3>1 DEF EnterCleanup, ShutDown, ReleaseLock, SnapshotInv, CallInv
  <2>4. SuccessInv(r)'
    BY <1>12 DEF EnterCleanup, ShutDown, ReleaseLock, SuccessInv, SnapshotInv, CallInv,
                  Captured, CapturesFinal, Persists
  <2>5. UNCHANGED <<diskVars, dataVars>>
    BY <1>12 DEF EnterCleanup, ShutDown, ReleaseLock
  <2> QED
    BY <2>1, <2>2, <2>3, <2>4, <2>5, QuietStep
<1>13. CASE BodyEnds(r)
  <2>1. /\ OthersKept(r)
        /\ pc'[r] \in PastResolve => pc[r] \in PastResolve
    BY <1>13 DEF BodyEnds, Note, OthersKept, PastResolve
  <2>2. CallInv(r)'
    BY <1>13 DEF BodyEnds, Note, CallInv
  <2>3. SnapshotInv(r)'
    <3>1. /\ IsComplete(r, "initial") => IsComplete(r, "initial")'
          /\ IsComplete(r, "final") => IsComplete(r, "final")'
      BY <1>13 DEF BodyEnds, Note, IsComplete, Snapshot
    <3> QED
      BY <1>13, <3>1 DEF BodyEnds, Note, SnapshotInv, CallInv
  <2>4. SuccessInv(r)'
    BY <1>13 DEF BodyEnds, Note, SuccessInv, SnapshotInv, CallInv,
                  Captured, CapturesFinal, Persists
  <2>5. UNCHANGED <<diskVars, dataVars>>
    BY <1>13 DEF BodyEnds, Note
  <2> QED
    BY <2>1, <2>2, <2>3, <2>4, <2>5, QuietStep
<1>14. CASE CaptureFinalState(r)
  <2>1. /\ OthersKept(r)
        /\ pc'[r] \in PastResolve => pc[r] \in PastResolve
    BY <1>14 DEF CaptureFinalState, OthersKept, PastResolve
  <2>2. CallInv(r)'
    BY <1>14 DEF CaptureFinalState, CallInv
  <2>3. SnapshotInv(r)'
    <3>1. /\ IsComplete(r, "initial") => IsComplete(r, "initial")'
          /\ IsComplete(r, "final") => IsComplete(r, "final")'
      BY <1>14 DEF CaptureFinalState, IsComplete, Snapshot
    <3> QED
      BY <1>14, <3>1 DEF CaptureFinalState, SnapshotInv, CallInv
  <2>4. SuccessInv(r)'
    BY <1>14 DEF CaptureFinalState, SuccessInv, SnapshotInv, CallInv,
                  Captured, CapturesFinal, Persists
  <2>5. UNCHANGED <<diskVars, dataVars>>
    BY <1>14 DEF CaptureFinalState
  <2> QED
    BY <2>1, <2>2, <2>3, <2>4, <2>5, QuietStep
<1>15. CASE FinalWritten(r)
  <2>1. OnlyTouches(r)
    <3>1. OthersKept(r)
      BY <1>15 DEF FinalWritten, OthersKept
    <3>2. SnapshotsKept(r)
      BY <1>15 DEF FinalWritten, SnapshotsKept
    <3>3. RefsKept(r)
      BY <1>15 DEF FinalWritten, RefsKept, SnapshotInv
    <3> QED
      BY <3>1, <3>2, <3>3 DEF OnlyTouches
  <2>2. CallInv(r)'
    BY <1>15 DEF FinalWritten, CallInv
  <2>3. SnapshotInv(r)'
    <3>1. /\ IsComplete(r, "initial") => IsComplete(r, "initial")'
          /\ IsComplete(r, "final") => IsComplete(r, "final")'
      BY <1>15 DEF FinalWritten, IsComplete, Snapshot
    <3> QED
      BY <1>15, <3>1 DEF FinalWritten, SnapshotInv, CallInv
  <2>4. LineageInv(r)'
    BY <1>15 DEF FinalWritten, LineageInv, SnapshotInv, PastResolve, Persists
  <2>5. SuccessInv(r)'
    BY <1>15 DEF FinalWritten, SuccessInv, SnapshotInv, CallInv,
                  Captured, CapturesFinal, Persists
  <2>6. IsolationInv(r)'
    BY <1>15 DEF FinalWritten, IsolationInv
  <2> QED
    BY <2>1, <2>2, <2>3, <2>4, <2>5, <2>6, FrameDataInv DEF RunInv
<1>16. CASE CaptureRaises(r)
  <2>1. /\ OthersKept(r)
        /\ pc'[r] \in PastResolve => pc[r] \in PastResolve
    BY <1>16 DEF CaptureRaises, StopWaiting, Note, OthersKept, PastResolve
  <2>2. CallInv(r)'
    BY <1>16 DEF CaptureRaises, StopWaiting, Note, CallInv
  <2>3. SnapshotInv(r)'
    <3>1. /\ IsComplete(r, "initial") => IsComplete(r, "initial")'
          /\ IsComplete(r, "final") => IsComplete(r, "final")'
      BY <1>16 DEF CaptureRaises, StopWaiting, Note, IsComplete, Snapshot
    <3> QED
      BY <1>16, <3>1 DEF CaptureRaises, StopWaiting, Note, SnapshotInv, CallInv
  <2>4. SuccessInv(r)'
    <3>1. faulted'[r]
      <4>1. Note(r, TRUE)
        BY <1>16 DEF CaptureRaises
      <4>2. faulted' = [faulted EXCEPT ![r] = faulted[r] \/ TRUE]
        BY <4>1, Zenon DEF Note
      <4>3. faulted'[r] = (faulted[r] \/ TRUE)
        BY <4>2 DEF TypeOK
      <4> QED
        BY <4>3
    <3>2. /\ pc[r] \in {"snapshot", "write_final"} /\ pc'[r] = "close_context"
          /\ runtime' = runtime
      BY <1>16 DEF CaptureRaises
    <3> QED
      BY <3>1, <3>2 DEF SuccessInv
  <2>5. UNCHANGED <<diskVars, dataVars>>
    BY <1>16 DEF CaptureRaises, StopWaiting, Note
  <2> QED
    BY <2>1, <2>2, <2>3, <2>4, <2>5, QuietStep
<1>17. CASE CloseContext(r)
  <2>1. /\ OthersKept(r)
        /\ pc'[r] \in PastResolve => pc[r] \in PastResolve
    BY <1>17 DEF CloseContext, Note, OthersKept, PastResolve
  <2>2. CallInv(r)'
    BY <1>17 DEF CloseContext, Note, CallInv
  <2>3. SnapshotInv(r)'
    <3>1. /\ IsComplete(r, "initial") => IsComplete(r, "initial")'
          /\ IsComplete(r, "final") => IsComplete(r, "final")'
      BY <1>17 DEF CloseContext, IsComplete, Snapshot
    <3> QED
      BY <1>17, <3>1 DEF CloseContext, Note, SnapshotInv, CallInv
  <2>4. SuccessInv(r)'
    BY <1>17 DEF CloseContext, Note, SuccessInv, SnapshotInv, CallInv,
                  Captured, CapturesFinal, Persists
  <2>5. UNCHANGED <<diskVars, dataVars>>
    BY <1>17 DEF CloseContext, Note
  <2> QED
    BY <2>1, <2>2, <2>3, <2>4, <2>5, QuietStep
<1>18. CASE CloseRuntime(r)
  <2>1. /\ OthersKept(r)
        /\ pc'[r] \in PastResolve => pc[r] \in PastResolve
    BY <1>18 DEF CloseRuntime, ShutDown, ReleaseLock, Note, OthersKept, PastResolve
  <2>2. CallInv(r)'
    BY <1>18 DEF CloseRuntime, ShutDown, ReleaseLock, Note, CallInv
  <2>3. SnapshotInv(r)'
    <3>1. /\ IsComplete(r, "initial") => IsComplete(r, "initial")'
          /\ IsComplete(r, "final") => IsComplete(r, "final")'
      BY <1>18 DEF CloseRuntime, IsComplete, Snapshot
    <3> QED
      BY <1>18, <3>1 DEF CloseRuntime, ShutDown, ReleaseLock, Note, SnapshotInv, CallInv
  <2>4. SuccessInv(r)'
    <3>1. PICK outcome \in {"closed", "lost"} :
             /\ ShutDown(r, outcome)
             /\ Note(r, outcome = "lost")
             /\ Goto(r, IF faulted'[r] THEN "failed" ELSE "succeeded")
      BY <1>18 DEF CloseRuntime
    <3>2. faulted'[r] = (faulted[r] \/ outcome = "lost")
      BY <3>1 DEF Note
    <3>3. /\ pc[r] = "close_runtime" /\ thread' = thread /\ refs' = refs
          /\ pc'[r] = IF faulted'[r] THEN "failed" ELSE "succeeded"
      BY <1>18, <3>1 DEF CloseRuntime
    <3>4. runtime'[r] = outcome
      BY <3>1, <3>3 DEF ShutDown, SuccessInv
    <3>5. CASE faulted'[r]
      BY <3>3, <3>5 DEF SuccessInv
    <3>6. CASE ~faulted'[r]
      <4>1. ~faulted[r] /\ outcome = "closed"
        BY <3>2, <3>6
      <4>2. Captured(r)
        BY <3>3, <4>1 DEF SuccessInv
      <4> QED
        BY <3>3, <3>4, <4>1, <4>2 DEF SuccessInv, Captured, CapturesFinal, Persists
    <3> QED
      BY <3>5, <3>6
  <2>5. UNCHANGED <<diskVars, dataVars>>
    BY <1>18 DEF CloseRuntime, ShutDown, ReleaseLock, Note
  <2> QED
    BY <2>1, <2>2, <2>3, <2>4, <2>5, QuietStep
<1>19. CASE ThreadAcquires(r)
  <2>1. /\ OthersKept(r)
        /\ pc'[r] \in PastResolve => pc[r] \in PastResolve
    BY <1>19 DEF ThreadAcquires, OthersKept, PastResolve
  <2>2. CallInv(r)'
    BY <1>19 DEF ThreadAcquires, CallInv
  <2>3. SnapshotInv(r)'
    <3>1. /\ IsComplete(r, "initial") => IsComplete(r, "initial")'
          /\ IsComplete(r, "final") => IsComplete(r, "final")'
      BY <1>19 DEF ThreadAcquires, IsComplete, Snapshot
    <3> QED
      BY <1>19, <3>1 DEF ThreadAcquires, SnapshotInv, CallInv
  <2>4. SuccessInv(r)'
    BY <1>19 DEF ThreadAcquires, SuccessInv, SnapshotInv, CallInv,
                  Captured, CapturesFinal, Persists
  <2>5. UNCHANGED <<diskVars, dataVars>>
    BY <1>19 DEF ThreadAcquires
  <2> QED
    BY <2>1, <2>2, <2>3, <2>4, <2>5, QuietStep
<1>20. CASE ThreadTimesOut(r)
  <2>1. /\ OthersKept(r)
        /\ pc'[r] \in PastResolve => pc[r] \in PastResolve
    BY <1>20 DEF ThreadTimesOut, Report, OthersKept, PastResolve
  <2>2. CallInv(r)'
    BY <1>20 DEF ThreadTimesOut, Report, CallInv
  <2>3. SnapshotInv(r)'
    <3>1. /\ IsComplete(r, "initial") => IsComplete(r, "initial")'
          /\ IsComplete(r, "final") => IsComplete(r, "final")'
      BY <1>20 DEF ThreadTimesOut, Report, IsComplete, Snapshot
    <3> QED
      BY <1>20, <3>1 DEF ThreadTimesOut, Report, SnapshotInv, CallInv
  <2>4. SuccessInv(r)'
    BY <1>20 DEF ThreadTimesOut, Report, SuccessInv, SnapshotInv, CallInv,
                  Captured, CapturesFinal, Persists
  <2>5. UNCHANGED <<diskVars, dataVars>>
    BY <1>20 DEF ThreadTimesOut, Report
  <2> QED
    BY <2>1, <2>2, <2>3, <2>4, <2>5, QuietStep
<1>21. CASE ThreadCreates(r)
  <2>1. OnlyTouches(r)
    <3>1. OthersKept(r)
      BY <1>21 DEF ThreadCreates, OthersKept
    <3>2. SnapshotsKept(r)
      BY <1>21 DEF ThreadCreates, SnapshotsKept
    <3>3. RefsKept(r)
      BY <1>21 DEF ThreadCreates, RefsKept, SnapshotInv
    <3> QED
      BY <3>1, <3>2, <3>3 DEF OnlyTouches
  <2>2. CallInv(r)'
    BY <1>21 DEF ThreadCreates, CallInv
  <2>3. SnapshotInv(r)'
    <3>1. /\ IsComplete(r, "initial") => IsComplete(r, "initial")'
          /\ IsComplete(r, "final") => IsComplete(r, "final")'
      <4>1. PICK k \in Kinds : thread[r] = k
        BY <1>21 DEF ThreadCreates
      <4>2. /\ file[<<r, k>>] = "absent"
            /\ file' = [file EXCEPT ![<<r, k>>] = "partial"]
            /\ content' = content /\ base' = base
        BY <1>21, <4>1 DEF ThreadCreates
      <4>3. ASSUME NEW f \in Files, f # <<r, k>> PROVE file'[f] = file[f]
        <5>1. file \in [Files -> {"absent", "partial", "whole", "damaged"}]
          BY Zenon DEF TypeOK
        <5>2. [file EXCEPT ![<<r, k>>] = "partial"][f] = file[f]
          BY <4>3, <5>1, ExceptElsewhere, Zenon
        <5> QED
          BY <4>2, <5>2, Zenon
      <4>4. ASSUME NEW j \in Kinds, file[<<r, j>>] \in {"whole", "damaged"}
            PROVE  file'[<<r, j>>] = file[<<r, j>>]
        <5>1. <<r, j>> \in Files
          BY DEF Files
        <5>2. file[<<r, j>>] # "absent"
          BY <4>4
        <5>3. <<r, j>> # <<r, k>>
          BY <4>2, <5>2, Zenon
        <5> QED
          BY <4>3, <5>1, <5>3, Zenon
      <4> QED
        BY <4>2, <4>4 DEF IsComplete, Snapshot
    <3>2. pc'[r] = pc[r] /\ thread'[r] = thread[r] /\ refs'[r] = refs[r]
      BY <1>21 DEF ThreadCreates
    <3> QED
      BY <3>1, <3>2 DEF SnapshotInv
  <2>4. LineageInv(r)'
    BY <1>21 DEF ThreadCreates, LineageInv, SnapshotInv, PastResolve, Persists
  <2>5. SuccessInv(r)'
    BY <1>21 DEF ThreadCreates, SuccessInv, SnapshotInv, CallInv,
                  Captured, CapturesFinal, Persists
  <2>6. IsolationInv(r)'
    BY <1>21 DEF ThreadCreates, IsolationInv
  <2> QED
    BY <2>1, <2>2, <2>3, <2>4, <2>5, <2>6, FrameDataInv DEF RunInv
<1>22. CASE ThreadWrites(r)
  <2>1. OnlyTouches(r)
    <3>1. OthersKept(r)
      BY <1>22 DEF ThreadWrites, Report, OthersKept
    <3>2. SnapshotsKept(r)
      BY <1>22 DEF ThreadWrites, Report, SnapshotsKept
    <3>3. RefsKept(r)
      BY <1>22 DEF ThreadWrites, Report, RefsKept, SnapshotInv
    <3> QED
      BY <3>1, <3>2, <3>3 DEF OnlyTouches
  <2>2. CallInv(r)'
    BY <1>22 DEF ThreadWrites, Report, CallInv
  <2>3. SnapshotInv(r)'
    <3>1. ASSUME NEW kind \in Kinds, kind # thread[r], IsComplete(r, kind)
          PROVE  IsComplete(r, kind)'
      BY <1>22, <3>1 DEF ThreadWrites, IsComplete, Snapshot
    <3>2. /\ thread[r] = "initial" => IsComplete(r, "initial")'
          /\ thread[r] = "final" => IsComplete(r, "final")'
      <4>1. <<r, thread[r]>> \in Files /\ base' = base
        BY <1>22 DEF ThreadWrites
      <4>2. /\ file'[<<r, thread[r]>>] = "whole"
            /\ content'[<<r, thread[r]>>] = Snapshot(r, thread[r])
        BY <1>22, <4>1 DEF ThreadWrites
      <4>3. ASSUME NEW kind PROVE Snapshot(r, kind)' = Snapshot(r, kind)
        BY <4>1 DEF Snapshot
      <4>4. thread[r] = "initial" \/ thread[r] = "final"
        BY <1>22 DEF ThreadWrites
      <4> QED
        BY <4>2, <4>3 DEF IsComplete
    <3>3. thread[r] \in Kinds /\ refs' = refs /\ pc' = pc
      BY <1>22 DEF ThreadWrites
    <3>4. thread'[r] = IF pc[r] \in ThreadAwaits THEN "written" ELSE "none"
      BY <1>22 DEF ThreadWrites, Report
    <3>5. /\ pc[r] = "write_initial" => thread[r] = "initial"
          /\ pc[r] = "write_final" => thread[r] = "final"
      BY <3>3 DEF CallInv
    <3> QED
      <4>1. CASE thread[r] = "initial"
        <5>1. IsComplete(r, "initial")'
          BY <3>2, <4>1
        <5>2. "final" \in refs[r] => IsComplete(r, "final")'
          BY <3>1, <4>1 DEF SnapshotInv
        <5>3. thread'[r] \notin Kinds
          BY <3>4
        <5> QED
          BY <3>3, <3>5, <4>1, <5>1, <5>2, <5>3 DEF SnapshotInv
      <4>2. CASE thread[r] = "final"
        <5>1. IsComplete(r, "final")'
          BY <3>2, <4>2
        <5>2. "initial" \in refs[r] => IsComplete(r, "initial")'
          BY <3>1, <4>2 DEF SnapshotInv
        <5>3. thread'[r] \notin Kinds
          BY <3>4
        <5> QED
          BY <3>3, <3>5, <4>2, <5>1, <5>2, <5>3 DEF SnapshotInv
      <4> QED
        BY <3>3, <4>1, <4>2
  <2>4. LineageInv(r)'
    BY <1>22 DEF ThreadWrites, Report, LineageInv, SnapshotInv, PastResolve, Persists
  <2>5. SuccessInv(r)'
    BY <1>22 DEF ThreadWrites, Report, SuccessInv, SnapshotInv, CallInv,
                  Captured, CapturesFinal, Persists
  <2>6. IsolationInv(r)'
    <3>1. /\ <<r, "initial">> \in Files /\ <<r, "final">> \in Files
          /\ base' = base /\ thread[r] \in Kinds
          /\ content' = [content EXCEPT ![<<r, thread[r]>>] = Snapshot(r, thread[r])]
      BY <1>22 DEF ThreadWrites
    <3>2. SameSession(Snapshot(r, thread[r]), r)
      BY DEF Snapshot, SameSession, IsolationInv
    <3>3. /\ SameSession(content'[<<r, "initial">>], r)
          /\ SameSession(content'[<<r, "final">>], r)
      BY <3>1, <3>2 DEF IsolationInv
    <3> QED
      BY <3>1, <3>3 DEF IsolationInv
  <2> QED
    BY <2>1, <2>2, <2>3, <2>4, <2>5, <2>6, FrameDataInv DEF RunInv
<1>23. CASE ThreadFails(r)
  <2>1. OnlyTouches(r)
    <3>1. OthersKept(r)
      BY <1>23 DEF ThreadFails, Report, OthersKept
    <3>2. SnapshotsKept(r)
      BY <1>23 DEF ThreadFails, Report, SnapshotsKept
    <3>3. RefsKept(r)
      BY <1>23 DEF ThreadFails, Report, RefsKept, SnapshotInv
    <3> QED
      BY <3>1, <3>2, <3>3 DEF OnlyTouches
  <2>2. CallInv(r)'
    BY <1>23 DEF ThreadFails, Report, CallInv
  <2>3. SnapshotInv(r)'
    <3>1. ASSUME NEW kind \in Kinds, kind # thread[r], IsComplete(r, kind)
          PROVE  IsComplete(r, kind)'
      <4>1. /\ file'[<<r, kind>>] = file[<<r, kind>>]
            /\ content'[<<r, kind>>] = content[<<r, kind>>]
            /\ base' = base
        BY <1>23, <3>1 DEF ThreadFails
      <4> QED
        BY <3>1, <4>1 DEF IsComplete, Snapshot
    <3>2. thread[r] \in Kinds /\ refs' = refs /\ pc' = pc
      BY <1>23 DEF ThreadFails
    <3>3. thread'[r] = IF pc[r] \in ThreadAwaits THEN "raised" ELSE "none"
      BY <1>23 DEF ThreadFails, Report
    <3> QED
      BY <3>1, <3>2, <3>3 DEF SnapshotInv
  <2>4. LineageInv(r)'
    BY <1>23 DEF ThreadFails, Report, LineageInv, SnapshotInv, PastResolve, Persists
  <2>5. SuccessInv(r)'
    BY <1>23 DEF ThreadFails, Report, SuccessInv, SnapshotInv, CallInv,
                  Captured, CapturesFinal, Persists
  <2>6. IsolationInv(r)'
    <3>1. /\ <<r, "initial">> \in Files /\ <<r, "final">> \in Files
          /\ base' = base /\ thread[r] \in Kinds
          /\ \/ content' = content
             \/ content' = [content EXCEPT ![<<r, thread[r]>>] = Snapshot(r, thread[r])]
      BY <1>23, Zenon DEF ThreadFails, Files, TypeOK, dataVars
    <3>2. SameSession(Snapshot(r, thread[r]), r)
      BY DEF Snapshot, SameSession, IsolationInv
    <3>3. /\ SameSession(content'[<<r, "initial">>], r)
          /\ SameSession(content'[<<r, "final">>], r)
      <4>1. CASE content' = content
        BY <4>1 DEF IsolationInv
      <4>2. CASE content' = [content EXCEPT ![<<r, thread[r]>>] = Snapshot(r, thread[r])]
        BY <3>1, <3>2, <4>2 DEF IsolationInv
      <4> QED
        BY <3>1, <4>1, <4>2
    <3> QED
      BY <3>1, <3>3 DEF IsolationInv
  <2> QED
    BY <2>1, <2>2, <2>3, <2>4, <2>5, <2>6, FrameDataInv DEF RunInv
<1>24. CASE CollectHandle(r)
  <2>1. /\ OthersKept(r)
        /\ pc'[r] \in PastResolve => pc[r] \in PastResolve
    BY <1>24 DEF CollectHandle, OthersKept, PastResolve
  <2>2. CallInv(r)'
    BY <1>24 DEF CollectHandle, CallInv
  <2>3. SnapshotInv(r)'
    <3>1. /\ IsComplete(r, "initial") => IsComplete(r, "initial")'
          /\ IsComplete(r, "final") => IsComplete(r, "final")'
      BY <1>24 DEF CollectHandle, IsComplete, Snapshot
    <3> QED
      BY <1>24, <3>1 DEF CollectHandle, SnapshotInv, CallInv
  <2>4. SuccessInv(r)'
    BY <1>24 DEF CollectHandle, SuccessInv, SnapshotInv, CallInv,
                  Captured, CapturesFinal, Persists
  <2>5. UNCHANGED <<diskVars, dataVars>>
    BY <1>24 DEF CollectHandle
  <2> QED
    BY <2>1, <2>2, <2>3, <2>4, <2>5, QuietStep
<1>25. CASE Crash(r)
  <2>1. /\ OthersKept(r)
        /\ pc'[r] \in PastResolve => pc[r] \in PastResolve
    BY <1>25 DEF Crash, Active, OthersKept, PastResolve
  <2>2. CallInv(r)'
    BY <1>25 DEF Crash, Active, CallInv
  <2>3. SnapshotInv(r)'
    <3>1. /\ IsComplete(r, "initial") => IsComplete(r, "initial")'
          /\ IsComplete(r, "final") => IsComplete(r, "final")'
      BY <1>25 DEF Crash, IsComplete, Snapshot
    <3> QED
      BY <1>25, <3>1 DEF Crash, Active, SnapshotInv, CallInv
  <2>4. SuccessInv(r)'
    BY <1>25 DEF Crash, Active, SuccessInv, SnapshotInv, CallInv,
                  Captured, CapturesFinal, Persists
  <2>5. UNCHANGED <<diskVars, dataVars>>
    BY <1>25 DEF Crash, Active
  <2> QED
    BY <2>1, <2>2, <2>3, <2>4, <2>5, QuietStep
<1>26. CASE Damage(r)
  <2>1. OnlyTouches(r)
    <3>1. OthersKept(r)
      BY <1>26 DEF Damage, OthersKept
    <3>2. SnapshotsKept(r)
      BY <1>26 DEF Damage, SnapshotsKept
    <3>3. RefsKept(r)
      BY <1>26 DEF Damage, RefsKept, SnapshotInv
    <3> QED
      BY <3>1, <3>2, <3>3 DEF OnlyTouches
  <2>2. CallInv(r)'
    BY <1>26 DEF Damage, CallInv
  <2>3. SnapshotInv(r)'
    <3>1. \A k \in Kinds :
             /\ content'[<<r, k>>] = content[<<r, k>>]
             /\ file[<<r, k>>] \in {"whole", "damaged"} =>
                   file'[<<r, k>>] \in {"whole", "damaged"}
      BY <1>26 DEF Damage
    <3>2. /\ IsComplete(r, "initial") => IsComplete(r, "initial")'
          /\ IsComplete(r, "final") => IsComplete(r, "final")'
      BY <1>26, <3>1 DEF Damage, IsComplete, Snapshot
    <3>3. pc'[r] = pc[r] /\ thread'[r] = thread[r] /\ refs'[r] = refs[r]
      BY <1>26 DEF Damage
    <3> QED
      BY <3>2, <3>3 DEF SnapshotInv
  <2>4. LineageInv(r)'
    BY <1>26 DEF Damage, LineageInv, SnapshotInv, PastResolve, Persists
  <2>5. SuccessInv(r)'
    BY <1>26 DEF Damage, SuccessInv, SnapshotInv, CallInv,
                  Captured, CapturesFinal, Persists
  <2>6. IsolationInv(r)'
    BY <1>26 DEF Damage, IsolationInv
  <2> QED
    BY <2>1, <2>2, <2>3, <2>4, <2>5, <2>6, FrameDataInv DEF RunInv
<1> QED
  BY <1>2, <1>3, <1>4, <1>5, <1>6, <1>7, <1>8, <1>9, <1>10,
     <1>11, <1>12, <1>13, <1>14, <1>15, <1>16, <1>17, <1>18, <1>19,
     <1>20, <1>21, <1>22, <1>23, <1>24, <1>25, <1>26
     DEF RunStep, ThreadStep, Environment

THEOREM DataCorrect == Spec => [](TypeOK /\ DataInv)
<1>1. Init => DataInv
  BY NoRunAssumption, SessionOfAssumption
     DEF Init, DataInv, RunInv, CallInv, SnapshotInv, LineageInv, IsolationInv, SuccessInv,
         SameSession, PastResolve
<1>2. TypeOK /\ TypeOK' /\ DataInv /\ [Next]_vars => DataInv'
  <2> SUFFICES ASSUME TypeOK, TypeOK', DataInv, [Next]_vars PROVE DataInv'
    OBVIOUS
  <2>1. CASE UNCHANGED vars
    <3> SUFFICES ASSUME NEW r \in Runs PROVE RunInv(r)'
      BY DEF DataInv
    <3>1. RunInv(r)
      BY DEF DataInv
    <3>2. UNCHANGED <<pc, thread, runtime, file, content, prior, base, refs, faulted>>
      BY <2>1 DEF vars
    <3>3. CallInv(r)' /\ LineageInv(r)' /\ IsolationInv(r)'
      BY <3>1, <3>2 DEF RunInv, CallInv, LineageInv, IsolationInv, Persists
    <3>4. SnapshotInv(r)'
      BY <3>1, <3>2 DEF RunInv, SnapshotInv, IsComplete, Snapshot
    <3>5. SuccessInv(r)'
      BY <3>1, <3>2 DEF RunInv, SuccessInv, Captured, CapturesFinal, Persists
    <3> QED
      BY <3>3, <3>4, <3>5 DEF RunInv
  <2>2. CASE Next
    BY <2>2, DataInvStep DEF Next
  <2> QED
    BY <2>1, <2>2
<1> QED
  BY <1>1, <1>2, TypeCorrect, PTL DEF Spec

(***************************************************************************)
(* A browser starts from exactly the snapshot its session carried.         *)
(***************************************************************************)
THEOREM FailsClosed == Spec => []StartsFromPrior
<1>1. DataInv => StartsFromPrior
  BY DEF DataInv, RunInv, LineageInv, SnapshotInv, IsComplete, Snapshot, StartsFromPrior
<1> QED
  BY <1>1, DataCorrect, PTL

(***************************************************************************)
(* A reference never names a partial file or another's state.              *)
(***************************************************************************)
THEOREM ReferencesAreComplete == Spec => []RefsAreComplete
<1>1. TypeOK /\ DataInv => RefsAreComplete
  <2> SUFFICES ASSUME TypeOK, DataInv, NEW r \in Runs, NEW kind \in refs[r]
               PROVE  IsComplete(r, kind)
    BY DEF RefsAreComplete, IsComplete
  <2>1. kind \in {"initial", "final"}
    BY DEF TypeOK
  <2>2. SnapshotInv(r)
    BY DEF DataInv, RunInv
  <2> QED
    BY <2>1, <2>2 DEF SnapshotInv
<1> QED
  BY <1>1, DataCorrect, PTL

(***************************************************************************)
(* A run that succeeded left nothing behind.                               *)
(***************************************************************************)
THEOREM SuccessLeavesNothing == Spec => []SuccessIsClean
<1>1. DataInv /\ LockInv => SuccessIsClean
  BY DEF DataInv, RunInv, SuccessInv, Captured, LockInv, HandleInv, LockedSteps, SuccessIsClean
<1> QED
  BY <1>1, DataCorrect, LocksCorrect, PTL

(***************************************************************************)
(* Browser state never crosses from one session to another.                *)
(***************************************************************************)
THEOREM SessionsStayApart == Spec => []SessionsAreIsolated
<1>1. DataInv => SessionsAreIsolated
  <2> SUFFICES ASSUME DataInv, NEW f \in Files, NEW w \in content[f]
               PROVE  SessionOf[w] = SessionOf[f[1]]
    BY DEF SessionsAreIsolated
  <2>1. PICK r \in Runs, kind \in Kinds : f = <<r, kind>>
    OBVIOUS
  <2>2. IsolationInv(r)
    BY DEF DataInv, RunInv
  <2> QED
    BY <2>1, <2>2 DEF IsolationInv, SameSession
<1> QED
  BY <1>1, DataCorrect, PTL

-----------------------------------------------------------------------------
(***************************************************************************)
(* The four steps of custody and the stutter, said of run r alone.         *)
(***************************************************************************)
Stutters(r) ==
    /\ holder' = holder
    /\ Browses(r)' <=> Browses(r)
    /\ IsDone(r)' <=> IsDone(r)

Takes(r) ==
    /\ holder[ProfileOfRun(r)] = NoRun
    /\ holder' = [holder EXCEPT ![ProfileOfRun(r)] = r]
    /\ Browses(r)' <=> Browses(r)
    /\ ~IsDone(r) /\ ~IsDone(r)'

Starts(r) ==
    /\ holder[ProfileOfRun(r)] = r
    /\ holder' = holder
    /\ ~Browses(r) /\ Browses(r)'
    /\ ~IsDone(r) /\ ~IsDone(r)'

Leaves(r) ==
    /\ holder[ProfileOfRun(r)] = r
    /\ holder' = [holder EXCEPT ![ProfileOfRun(r)] = NoRun]
    /\ ~Browses(r)'
    /\ IsDone(r)'

GivesUp(r) ==
    /\ holder[ProfileOfRun(r)] # r
    /\ holder' = holder
    /\ Browses(r)' <=> Browses(r)
    /\ ~IsDone(r) /\ IsDone(r)'

CustodyMove(r) == Stutters(r) \/ Takes(r) \/ Starts(r) \/ Leaves(r) \/ GivesUp(r)

CustodyStep(r) ==
    \/ Custody!Take(r) \/ Custody!Browse(r) \/ Custody!Leave(r) \/ Custody!GiveUp(r)
    \/ UNCHANGED <<holder, Browsing, Done>>

LEMMA MoveIsCustodyStep ==
  ASSUME NEW r \in Runs, OnlyMoves(r), CustodyMove(r)
  PROVE  CustodyStep(r)
<1>0. \A x \in Runs : ProfileOfRun(x) \in Profiles
  BY SessionOfAssumption, ProfileOfAssumption DEF ProfileOfRun
<1>1. [x \in Runs |-> ProfileOfRun(x)][r] = ProfileOfRun(r)
  OBVIOUS
<1>2. \A x \in Runs \ {r} : (Browses(x)' <=> Browses(x)) /\ (IsDone(x)' <=> IsDone(x))
  BY <1>0 DEF OnlyMoves, Browses, IsDone, ProfileOfRun
<1>3. (Browses(r)' <=> Browses(r)) => Browsing' = Browsing
  BY <1>2 DEF Browsing
<1>4. (IsDone(r)' <=> IsDone(r)) => Done' = Done
  BY <1>2 DEF Done
<1>5. Browses(r)' => Browsing' = Browsing \cup {r}
  BY <1>2 DEF Browsing
<1>6. ~Browses(r)' => Browsing' = Browsing \ {r}
  BY <1>2 DEF Browsing
<1>7. IsDone(r)' => Done' = Done \cup {r}
  BY <1>2 DEF Done
<1>8. CASE Stutters(r)
  BY <1>8, <1>3, <1>4 DEF Stutters, CustodyStep
<1>9. CASE Takes(r)
  BY <1>9, <1>1, <1>3, <1>4 DEF Takes, CustodyStep, Custody!Take, Done
<1>10. CASE Starts(r)
  BY <1>10, <1>1, <1>4, <1>5 DEF Starts, CustodyStep, Custody!Browse, Browsing
<1>11. CASE Leaves(r)
  BY <1>11, <1>1, <1>6, <1>7 DEF Leaves, CustodyStep, Custody!Leave
<1>12. CASE GivesUp(r)
  BY <1>12, <1>1, <1>3, <1>7 DEF GivesUp, CustodyStep, Custody!GiveUp, Done
<1> QED
  BY <1>8, <1>9, <1>10, <1>11, <1>12 DEF CustodyMove

LEMMA StepIsCustodyMove ==
  ASSUME TypeOK, LockInv, NEW r \in Runs,
         \/ \E w \in Offered(r) : Open(r, w)
         \/ RunStep(r) \/ ThreadStep(r) \/ CollectHandle(r) \/ Environment(r)
  PROVE  OnlyMoves(r) /\ CustodyMove(r)
<1>1. /\ ProfileOfRun(r) \in Profiles
      /\ HandleInv(r)
      /\ \A p \in Profiles : holder[p] = r => p = ProfileOfRun(r)
  BY SessionOfAssumption, ProfileOfAssumption
     DEF LockInv, HolderInv, ProfileOfRun
<1>f. /\ holder[ProfileOfRun(r)] = r =>
             Freed(r) = [holder EXCEPT ![ProfileOfRun(r)] = NoRun]
      /\ holder[ProfileOfRun(r)] # r => Freed(r) = holder
  <2>1. holder = [p \in Profiles |-> holder[p]]
    BY DEF TypeOK
  <2>2. CASE holder[ProfileOfRun(r)] = r
    <3>1. \A p \in Profiles : holder[p] = r <=> p = ProfileOfRun(r)
      BY <1>1, <2>2
    <3> QED
      BY <2>1, <2>2, <3>1 DEF Freed
  <2>3. CASE holder[ProfileOfRun(r)] # r
    <3>1. \A p \in Profiles : holder[p] # r
      BY <1>1, <2>3
    <3> QED
      BY <2>1, <2>3, <3>1 DEF Freed
  <2> QED
    BY <2>2, <2>3
<1> USE <1>1, NoRunAssumption
    DEF TypeOK, HandleInv, LockedSteps, OnlyMoves, ProfileOfRun, Browses, IsDone,
        Goto, Submit, lockVars
<1>2. ASSUME NEW w \in Offered(r), Open(r, w) PROVE OnlyMoves(r) /\ CustodyMove(r)
  BY <1>2 DEF Open, CustodyMove, Stutters, GivesUp
<1>3. CASE EnsureProfileLayout(r)
  <2>1. OnlyMoves(r)
    BY <1>3 DEF EnsureProfileLayout
  <2>2. CustodyMove(r)
    BY <1>3 DEF EnsureProfileLayout, CustodyMove, Stutters
  <2> QED
    BY <2>1, <2>2
<1>4. CASE LockAcquired(r)
  <2>1. OnlyMoves(r)
    BY <1>4 DEF LockAcquired
  <2>2. CustodyMove(r)
    BY <1>4 DEF LockAcquired, CustodyMove, Stutters
  <2> QED
    BY <2>1, <2>2
<1>5. CASE EnsureRunLayout(r)
  <2>1. OnlyMoves(r)
    BY <1>5 DEF EnsureRunLayout
  <2>2. CustodyMove(r)
    BY <1>5 DEF EnsureRunLayout, CustodyMove, Stutters
  <2> QED
    BY <2>1, <2>2
<1>6. CASE ResolveInitialState(r)
  <2>1. OnlyMoves(r)
    BY <1>6 DEF ResolveInitialState
  <2>2. CustodyMove(r)
    BY <1>6 DEF ResolveInitialState, CustodyMove, Stutters
  <2> QED
    BY <2>1, <2>2
<1>7. CASE RefusePrior(r)
  <2>1. OnlyMoves(r)
    BY <1>7 DEF RefusePrior
  <2>2. CustodyMove(r)
    BY <1>7 DEF RefusePrior, CustodyMove, Stutters
  <2> QED
    BY <2>1, <2>2
<1>8. CASE InitialWritten(r)
  <2>1. OnlyMoves(r)
    BY <1>8 DEF InitialWritten
  <2>2. CustodyMove(r)
    BY <1>8 DEF InitialWritten, CustodyMove, Stutters
  <2> QED
    BY <2>1, <2>2
<1>9. CASE Launch(r)
  <2>1. OnlyMoves(r)
    BY <1>9 DEF Launch
  <2>2. CustodyMove(r)
    BY <1>9 DEF Launch, CustodyMove, Starts
  <2> QED
    BY <2>1, <2>2
<1>10. CASE NewContext(r)
  <2>1. OnlyMoves(r)
    BY <1>10 DEF NewContext
  <2>2. CustodyMove(r)
    BY <1>10 DEF NewContext, CustodyMove, Stutters
  <2> QED
    BY <2>1, <2>2
<1>11. CASE EnterRaises(r)
  <2>1. OnlyMoves(r)
    BY <1>11 DEF EnterRaises, StopWaiting
  <2>2. CustodyMove(r)
    BY <1>11 DEF EnterRaises, StopWaiting, CustodyMove, GivesUp, Stutters
  <2> QED
    BY <2>1, <2>2
<1>12. CASE EnterCleanup(r)
  <2>1. OnlyMoves(r)
    BY <1>12 DEF EnterCleanup, ShutDown, ReleaseLock, Freed
  <2>2. CustodyMove(r)
    <3>1. runtime'[r] # "open" /\ pc'[r] = "not_entered" /\ thread' = thread
      BY <1>12 DEF EnterCleanup, ShutDown
    <3>2. CASE lock[r]
      <4>1. /\ holder[ProfileOfRun(r)] = r
            /\ holder' = [holder EXCEPT ![ProfileOfRun(r)] = NoRun]
            /\ thread[r] # "acquiring"
        BY <1>12, <1>f, <3>2 DEF EnterCleanup, ReleaseLock
      <4> QED
        BY <3>1, <4>1 DEF CustodyMove, Leaves
    <3>3. CASE ~lock[r]
      <4>1. holder' = holder /\ runtime[r] # "open" /\ pc[r] = "cleanup"
        BY <1>12, <3>3 DEF EnterCleanup, ReleaseLock
      <4> QED
        BY <3>1, <4>1 DEF CustodyMove, Stutters
    <3> QED
      BY <3>2, <3>3
  <2> QED
    BY <2>1, <2>2
<1>13. CASE BodyEnds(r)
  <2>1. OnlyMoves(r)
    BY <1>13 DEF BodyEnds
  <2>2. CustodyMove(r)
    BY <1>13 DEF BodyEnds, CustodyMove, Stutters
  <2> QED
    BY <2>1, <2>2
<1>14. CASE CaptureFinalState(r)
  <2>1. OnlyMoves(r)
    BY <1>14 DEF CaptureFinalState
  <2>2. CustodyMove(r)
    BY <1>14 DEF CaptureFinalState, CustodyMove, Stutters
  <2> QED
    BY <2>1, <2>2
<1>15. CASE FinalWritten(r)
  <2>1. OnlyMoves(r)
    BY <1>15 DEF FinalWritten
  <2>2. CustodyMove(r)
    BY <1>15 DEF FinalWritten, CustodyMove, Stutters
  <2> QED
    BY <2>1, <2>2
<1>16. CASE CaptureRaises(r)
  <2>1. OnlyMoves(r)
    BY <1>16 DEF CaptureRaises, StopWaiting
  <2>2. CustodyMove(r)
    BY <1>16 DEF CaptureRaises, StopWaiting, CustodyMove, Stutters
  <2> QED
    BY <2>1, <2>2
<1>17. CASE CloseContext(r)
  <2>1. OnlyMoves(r)
    BY <1>17 DEF CloseContext
  <2>2. CustodyMove(r)
    BY <1>17 DEF CloseContext, CustodyMove, Stutters
  <2> QED
    BY <2>1, <2>2
<1>18. CASE CloseRuntime(r)
  <2>1. OnlyMoves(r)
    BY <1>18 DEF CloseRuntime, ShutDown, ReleaseLock, Freed
  <2>2. CustodyMove(r)
    <3>1. /\ runtime'[r] # "open" /\ thread' = thread
          /\ pc'[r] \in {"succeeded", "failed"}
      BY <1>18 DEF CloseRuntime, ShutDown
    <3>2. /\ holder[ProfileOfRun(r)] = r
          /\ holder' = [holder EXCEPT ![ProfileOfRun(r)] = NoRun]
          /\ thread[r] # "acquiring"
      BY <1>18, <1>f DEF CloseRuntime, ReleaseLock
    <3> QED
      BY <3>1, <3>2 DEF CustodyMove, Leaves
  <2> QED
    BY <2>1, <2>2
<1>19. CASE ThreadAcquires(r)
  <2>1. OnlyMoves(r)
    BY <1>19 DEF ThreadAcquires
  <2>2. CustodyMove(r)
    BY <1>19 DEF ThreadAcquires, CustodyMove, Takes
  <2> QED
    BY <2>1, <2>2
<1>20. CASE ThreadTimesOut(r)
  <2>1. OnlyMoves(r)
    BY <1>20 DEF ThreadTimesOut, Report
  <2>2. CustodyMove(r)
    BY <1>20 DEF ThreadTimesOut, Report, CustodyMove, GivesUp, Stutters
  <2> QED
    BY <2>1, <2>2
<1>21. CASE ThreadCreates(r)
  <2>1. OnlyMoves(r)
    BY <1>21 DEF ThreadCreates
  <2>2. CustodyMove(r)
    BY <1>21 DEF ThreadCreates, CustodyMove, Stutters
  <2> QED
    BY <2>1, <2>2
<1>22. CASE ThreadWrites(r)
  <2>1. OnlyMoves(r)
    BY <1>22 DEF ThreadWrites, Report
  <2>2. CustodyMove(r)
    BY <1>22 DEF ThreadWrites, Report, CustodyMove, Stutters
  <2> QED
    BY <2>1, <2>2
<1>23. CASE ThreadFails(r)
  <2>1. OnlyMoves(r)
    BY <1>23 DEF ThreadFails, Report
  <2>2. CustodyMove(r)
    BY <1>23 DEF ThreadFails, Report, CustodyMove, Stutters
  <2> QED
    BY <2>1, <2>2
<1>24. CASE CollectHandle(r)
  <2>1. OnlyMoves(r)
    BY <1>24 DEF CollectHandle, Freed
  <2>2. CustodyMove(r)
    <3>1. holder[ProfileOfRun(r)] = r
      BY <1>24 DEF CollectHandle
    <3>2. holder' = [holder EXCEPT ![ProfileOfRun(r)] = NoRun]
      BY <1>24, <1>f, <3>1 DEF CollectHandle
    <3>3. ~Browses(r)' /\ IsDone(r)'
      <4>1. holder'[ProfileOfRun(r)] = NoRun
        BY <3>2
      <4>2. /\ pc' = pc /\ runtime' = runtime /\ thread'[r] = "none"
            /\ pc[r] \notin {"idle", "layout", "acquire"} /\ ~lock[r]
        BY <1>24 DEF CollectHandle
      <4> QED
        BY <4>1, <4>2
    <3> QED
      BY <3>1, <3>2, <3>3 DEF CustodyMove, Leaves
  <2> QED
    BY <2>1, <2>2
<1>25. CASE Crash(r)
  <2>1. OnlyMoves(r)
    BY <1>25 DEF Crash, Freed, Active
  <2>2. CustodyMove(r)
    <3>1. /\ runtime'[r] # "open" /\ thread'[r] = "none"
          /\ pc'[r] \notin {"idle", "layout", "acquire"}
          /\ pc'[r] = IF Active(r) THEN "crashed" ELSE pc[r]
      BY <1>25 DEF Crash, Active
    <3>2. CASE holder[ProfileOfRun(r)] = r
      <4>1. holder' = [holder EXCEPT ![ProfileOfRun(r)] = NoRun]
        BY <1>25, <1>f, <3>2 DEF Crash
      <4> QED
        BY <3>1, <3>2, <4>1 DEF CustodyMove, Leaves
    <3>3. CASE holder[ProfileOfRun(r)] # r
      <4>1. holder' = holder /\ runtime[r] # "open"
        BY <1>25, <1>f, <3>3 DEF Crash
      <4> QED
        BY <3>1, <3>3, <4>1 DEF CustodyMove, GivesUp, Stutters
    <3> QED
      BY <3>2, <3>3
  <2> QED
    BY <2>1, <2>2
<1>26. CASE Damage(r)
  <2>1. OnlyMoves(r)
    BY <1>26 DEF Damage
  <2>2. CustodyMove(r)
    BY <1>26 DEF Damage, CustodyMove, Stutters
  <2> QED
    BY <2>1, <2>2
<1> QED
  BY <1>2, <1>3, <1>4, <1>5, <1>6, <1>7, <1>8, <1>9, <1>10, <1>11, <1>12, <1>13, <1>14, <1>15, <1>16, <1>17, <1>18, <1>19, <1>20, <1>21, <1>22, <1>23, <1>24, <1>25, <1>26
     DEF RunStep, ThreadStep, Environment

(***************************************************************************)
(* The managed run implements the custody of its profile.                  *)
(***************************************************************************)
THEOREM LifecycleImplementsCustody == Spec => CustodySpec
<1>1. Init => Custody!Init
  BY NoRunAssumption, ProfileOfAssumption, SessionOfAssumption
     DEF Init, Custody!Init, Browsing, Done, Browses, IsDone, ProfileOfRun
<1>2. TypeOK /\ LockInv /\ [Next]_vars => [Custody!Next]_(Custody!custodyVars)
  <2> SUFFICES ASSUME TypeOK, LockInv, [Next]_vars
               PROVE  Custody!Next \/ UNCHANGED <<holder, Browsing, Done>>
    BY DEF Custody!custodyVars
  <2>1. CASE UNCHANGED vars
    BY <2>1 DEF vars, lockVars, Browsing, Done, Browses, IsDone, ProfileOfRun
  <2>2. CASE Next
    <3>1. PICK r \in Runs : \/ \E w \in Offered(r) : Open(r, w)
                            \/ RunStep(r) \/ ThreadStep(r)
                            \/ CollectHandle(r) \/ Environment(r)
      BY <2>2 DEF Next
    <3>2. CustodyStep(r)
      BY <3>1, StepIsCustodyMove, MoveIsCustodyStep
    <3> QED
      BY <3>2 DEF CustodyStep, Custody!Next
  <2> QED
    BY <2>1, <2>2
<1> QED
  BY <1>1, <1>2, LocksCorrect, PTL DEF Spec, CustodySpec, Custody!Spec

(***************************************************************************)
(* What custody is for, from the custody protocol alone: no profile is     *)
(* browsed by two users, and nobody browses after leaving.  Browsing       *)
(* happens in custody, and whoever is in custody is not done.              *)
(***************************************************************************)
CustodyInv ==
    /\ Custody!CustodyTypeOK
    /\ \A u \in Browsing : holder[ProfileOfRun(u)] = u
    /\ \A u \in Done : holder[ProfileOfRun(u)] # u

LEMMA CustodyInvStep ==
  ASSUME CustodyInv, NEW u \in Runs,
         Custody!Take(u) \/ Custody!Browse(u) \/ Custody!Leave(u) \/ Custody!GiveUp(u)
  PROVE  CustodyInv'
<1>0. \A x \in Runs : /\ ProfileOfRun(x) \in Profiles
                      /\ [y \in Runs |-> ProfileOfRun(y)][x] = ProfileOfRun(x)
  BY SessionOfAssumption, ProfileOfAssumption DEF ProfileOfRun
<1> HIDE DEF ProfileOfRun
<1> USE <1>0, NoRunAssumption DEF CustodyInv, Custody!CustodyTypeOK
<1>1. CASE Custody!Take(u)
  BY <1>1 DEF Custody!Take
<1>2. CASE Custody!Browse(u)
  BY <1>2 DEF Custody!Browse
<1>3. CASE Custody!Leave(u)
  BY <1>3 DEF Custody!Leave
<1>4. CASE Custody!GiveUp(u)
  BY <1>4 DEF Custody!GiveUp
<1> QED
  BY <1>1, <1>2, <1>3, <1>4

THEOREM CustodyIsExclusive == CustodySpec => []Custody!ExclusiveBrowsing
<1>1. Custody!Init => CustodyInv
  BY NoRunAssumption DEF Custody!Init, CustodyInv, Custody!CustodyTypeOK
<1>2. CustodyInv /\ [Custody!Next]_(Custody!custodyVars) => CustodyInv'
  <2> SUFFICES ASSUME CustodyInv, [Custody!Next]_(Custody!custodyVars) PROVE CustodyInv'
    OBVIOUS
  <2>1. CASE UNCHANGED Custody!custodyVars
    BY <2>1 DEF Custody!custodyVars, CustodyInv, Custody!CustodyTypeOK
  <2>2. CASE Custody!Next
    BY <2>2, CustodyInvStep DEF Custody!Next
  <2> QED
    BY <2>1, <2>2
<1>3. CustodyInv => Custody!ExclusiveBrowsing
  BY DEF CustodyInv, Custody!CustodyTypeOK, Custody!ExclusiveBrowsing
<1> QED
  BY <1>1, <1>2, <1>3, PTL DEF CustodySpec, Custody!Spec

=============================================================================
