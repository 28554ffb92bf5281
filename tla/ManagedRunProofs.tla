--------------------------- MODULE ManagedRunProofs ---------------------------
(***************************************************************************)
(* Proofs about ManagedRun: a run as the operator starts it is a managed   *)
(* run of SessionLifecycle, so all that is proved there holds of it, and   *)
(* what the database names as latest is recorded and complete.             *)
(***************************************************************************)
EXTENDS ManagedRun, SessionLifecycleProofs

USE DEF EnterSteps, ExitSteps, ActiveSteps, EndSteps, ThreadAwaits, Kinds, Files

(***************************************************************************)
(* The run orders of a run's rows.                                         *)
(***************************************************************************)
LEMMA OrdersAreNat ==
  ASSUME NEW r \in Runs
  PROVE  /\ Orders(r) \in Seq(Nat)
         /\ OrdersOf(r) \subseteq Nat
         /\ "initial" \in refs[r] => InitialOrder \in OrdersOf(r)
         /\ "final" \in refs[r] => FinalOrder \in OrdersOf(r)
<1> DEFINE A == IF "initial" \in refs[r] THEN <<InitialOrder>> ELSE <<>>
           D == DiagnosticOrders[r]
           B == IF "final" \in refs[r] THEN <<FinalOrder>> ELSE <<>>
<1>1. A \in Seq(Nat) /\ D \in Seq(Nat) /\ B \in Seq(Nat)
  BY DiagnosticOrdersAssumption DEF InitialOrder, FinalOrder
<1>2. Orders(r) = (A \o D) \o B
  BY DEF Orders
<1>3. /\ "initial" \in refs[r] => Len(A) = 1 /\ A[1] = InitialOrder
      /\ "final" \in refs[r] => Len(B) = 1 /\ B[1] = FinalOrder
  OBVIOUS
<1> HIDE DEF A, D, B
<1>4. Orders(r) \in Seq(Nat) /\ Len(Orders(r)) = Len(A) + Len(D) + Len(B)
  BY <1>1, <1>2
<1>5. "initial" \in refs[r] => Orders(r)[1] = InitialOrder /\ Len(Orders(r)) >= 1
  BY <1>1, <1>2, <1>3, <1>4
<1>6. "final" \in refs[r] => /\ Orders(r)[Len(Orders(r))] = FinalOrder
                             /\ Len(Orders(r)) >= 1
  BY <1>1, <1>2, <1>3, <1>4
<1>7. OrdersOf(r) \subseteq Nat
  BY <1>4 DEF OrdersOf
<1> QED
  BY <1>4, <1>5, <1>6, <1>7 DEF OrdersOf

(***************************************************************************)
(* A latest snapshot is one of a run of the session that succeeded, has a  *)
(* reference to it and is recorded with its row.                           *)
(***************************************************************************)
IsRecordOf(w, s, kind, order) ==
    /\ outcome[w] = "recorded" /\ SessionOf[w] = s /\ pc[w] = "succeeded"
    /\ kind \in refs[w] /\ <<w, order>> \in rows

LatestInv ==
    \A s \in Sessions : \A w \in Runs :
        /\ latestFinal[s] = w => IsRecordOf(w, s, "final", FinalOrder)
        /\ latestInitial[s] = w => IsRecordOf(w, s, "initial", InitialOrder)

RecordTypeOK ==
    /\ latestInitial \in [Sessions -> Runs \cup {NoRun}]
    /\ latestFinal \in [Sessions -> Runs \cup {NoRun}]
    /\ rows \subseteq Runs \X Nat
    /\ outcome \in [Runs -> {"pending", "recorded", "orphaned", "dropped"}]

OpsInv == TypeOK /\ RecordTypeOK /\ LatestInv

\* A run that succeeded stays so, with the references it has.
LEMMA SuccessIsFinal ==
  ASSUME TypeOK, [Next]_vars, NEW w \in Runs, pc[w] = "succeeded"
  PROVE  pc'[w] = "succeeded" /\ refs'[w] = refs[w]
<1> USE DEF TypeOK, Goto, lockVars, diskVars, dataVars
<1>1. CASE UNCHANGED vars
  BY <1>1 DEF vars
<1>2. ASSUME NEW r \in Runs, NEW v \in Offered(r), Open(r, v)
      PROVE  pc'[w] = "succeeded" /\ refs'[w] = refs[w]
  BY <1>2 DEF Open
<1>3. ASSUME NEW r \in Runs,
             \/ EnsureProfileLayout(r) \/ LockAcquired(r) \/ EnsureRunLayout(r)
             \/ ResolveInitialState(r) \/ RefusePrior(r) \/ InitialWritten(r)
             \/ Launch(r) \/ NewContext(r) \/ EnterRaises(r) \/ EnterCleanup(r)
      PROVE  pc'[w] = "succeeded" /\ refs'[w] = refs[w]
  BY <1>3 DEF EnsureProfileLayout, LockAcquired, EnsureRunLayout,
              ResolveInitialState, RefusePrior, InitialWritten, Launch,
              NewContext, EnterRaises, EnterCleanup
<1>4. ASSUME NEW r \in Runs,
             \/ BodyEnds(r) \/ CaptureFinalState(r) \/ FinalWritten(r)
             \/ CaptureRaises(r) \/ CloseContext(r) \/ CloseRuntime(r)
      PROVE  pc'[w] = "succeeded" /\ refs'[w] = refs[w]
  <2>1. CASE BodyEnds(r)
    BY <2>1 DEF BodyEnds
  <2>2. CASE CaptureFinalState(r)
    BY <2>2 DEF CaptureFinalState
  <2>3. CASE FinalWritten(r)
    BY <2>3 DEF FinalWritten
  <2>4. CASE CaptureRaises(r)
    BY <2>4 DEF CaptureRaises
  <2>5. CASE CloseContext(r)
    BY <2>5 DEF CloseContext
  <2>6. CASE CloseRuntime(r)
    BY <2>6 DEF CloseRuntime
  <2> QED
    BY <1>4, <2>1, <2>2, <2>3, <2>4, <2>5, <2>6
<1>5. ASSUME NEW r \in Runs,
             ThreadStep(r) \/ CollectHandle(r) \/ Environment(r)
      PROVE  pc'[w] = "succeeded" /\ refs'[w] = refs[w]
  BY <1>5 DEF ThreadStep, ThreadAcquires, ThreadTimesOut, ThreadCreates,
              ThreadWrites, ThreadFails, CollectHandle, Environment, Crash,
              Damage, Active
<1> QED
  BY <1>1, <1>2, <1>3, <1>4, <1>5 DEF Next, RunStep

\* What the operator loads is a session record a caller could hold.
LEMMA LoadsWhatIsOffered ==
  ASSUME OpsInv, NEW r \in Runs, Load(r)
  PROVE  \E w \in Offered(r) : Open(r, w)
<1> DEFINE w == latestFinal[SessionOf[r]]
<1>1. SessionOf[r] \in Sessions /\ w \in Runs \cup {NoRun}
  BY SessionOfAssumption DEF OpsInv, RecordTypeOK
<1>2. CASE w = NoRun
  BY <1>2 DEF Load, Offered
<1>3. CASE w \in Runs
  <2>1. /\ SessionOf[w] = SessionOf[r] /\ pc[w] = "succeeded" /\ "final" \in refs[w]
    <3>1. IsRecordOf(w, SessionOf[r], "final", FinalOrder)
      BY <1>1, <1>3, Zenon DEF OpsInv, LatestInv
    <3> QED
      BY <3>1 DEF IsRecordOf
  <2>2. Carried(w) = w /\ Ended(w)
    BY <2>1 DEF Carried, Ended
  <2>3. w \in Offered(r)
    BY <1>3, <2>1, <2>2 DEF Offered
  <2> QED
    BY <2>3 DEF Load
<1> QED
  BY <1>1, <1>2, <1>3

LEMMA StepsAreManaged == OpsInv /\ [OpsNext]_allVars => [Next]_vars
<1> SUFFICES ASSUME OpsInv, [OpsNext]_allVars PROVE [Next]_vars
  OBVIOUS
<1>1. ASSUME NEW r \in Runs, Load(r) PROVE Next
  BY <1>1, LoadsWhatIsOffered DEF Next
<1>2. ASSUME NEW r \in Runs, LifecycleStep(r) PROVE Next
  BY <1>2 DEF LifecycleStep, Next
<1>3. ASSUME NEW r \in Runs, SettleStep(r) PROVE UNCHANGED vars
  BY <1>3 DEF SettleStep, PersistRun, PersistFails, DropRun
<1>4. CASE UNCHANGED allVars
  BY <1>4 DEF allVars
<1> QED
  BY <1>1, <1>2, <1>3, <1>4 DEF OpsNext

LEMMA RecordStep == OpsInv /\ [OpsNext]_allVars => RecordTypeOK' /\ LatestInv'
<1> SUFFICES ASSUME OpsInv, [OpsNext]_allVars PROVE RecordTypeOK' /\ LatestInv'
  OBVIOUS
<1>1. [Next]_vars
  BY StepsAreManaged
<1>2. ASSUME UNCHANGED opsVars PROVE RecordTypeOK' /\ LatestInv'
  BY <1>1, <1>2, SuccessIsFinal
     DEF OpsInv, RecordTypeOK, LatestInv, IsRecordOf, opsVars
<1>3. ASSUME NEW r \in Runs, PersistRun(r) PROVE RecordTypeOK' /\ LatestInv'
  <2>1. /\ OrdersOf(r) \subseteq Nat
        /\ "initial" \in refs[r] => InitialOrder \in OrdersOf(r)
        /\ "final" \in refs[r] => FinalOrder \in OrdersOf(r)
    BY OrdersAreNat
  <2>2. RecordTypeOK'
    <3>1. \A kind \in Kinds : RefOf(r, kind) \in Runs \cup {NoRun}
      BY DEF RefOf
    <3>2. /\ latestInitial' \in [Sessions -> Runs \cup {NoRun}]
          /\ latestFinal' \in [Sessions -> Runs \cup {NoRun}]
      BY <1>3, <3>1 DEF PersistRun, OpsInv, RecordTypeOK
    <3>3. rows' \subseteq Runs \X Nat
      BY <1>3, <2>1 DEF PersistRun, OpsInv, RecordTypeOK
    <3>4. outcome' \in [Runs -> {"pending", "recorded", "orphaned", "dropped"}]
      BY <1>3 DEF PersistRun, Settle, OpsInv, RecordTypeOK
    <3> QED
      BY <3>2, <3>3, <3>4 DEF RecordTypeOK
  <2>3. LatestInv'
    <3> SUFFICES ASSUME NEW s \in Sessions, NEW w \in Runs
                 PROVE  /\ latestFinal'[s] = w => IsRecordOf(w, s, "final", FinalOrder)'
                        /\ latestInitial'[s] = w => IsRecordOf(w, s, "initial", InitialOrder)'
      BY DEF LatestInv
    <3>1. CASE s = SessionOf[r]
      BY <1>3, <2>1, <3>1, NoRunAssumption
         DEF PersistRun, Unsettled, Settle, RefOf, OpsInv, RecordTypeOK, IsRecordOf, vars
    <3>2. CASE s # SessionOf[r]
      BY <1>3, <3>2
         DEF PersistRun, Settle, OpsInv, RecordTypeOK, LatestInv, IsRecordOf, vars
    <3> QED
      BY <3>1, <3>2
  <2> QED
    BY <2>2, <2>3
<1>4. ASSUME NEW r \in Runs, PersistFails(r) \/ DropRun(r)
      PROVE  RecordTypeOK' /\ LatestInv'
  BY <1>4 DEF PersistFails, DropRun, Unsettled, Settle, OpsInv, RecordTypeOK,
              LatestInv, IsRecordOf, vars
<1> QED
  BY <1>2, <1>3, <1>4 DEF OpsNext, Load, LifecycleStep, SettleStep, allVars

LEMMA OpsCorrect == OpsSpec => []OpsInv
<1>1. OpsInit => OpsInv
  BY TypeInit, NoRunAssumption
     DEF OpsInit, OpsInv, RecordTypeOK, LatestInv
<1>2. OpsInv /\ [OpsNext]_allVars => OpsInv'
  BY StepsAreManaged, RecordStep, TypeStep DEF OpsInv
<1> QED
  BY <1>1, <1>2, PTL DEF OpsSpec

(***************************************************************************)
(* Running through the operator is running through the managed lifecycle:  *)
(* every theorem of SessionLifecycle is one of ManagedRun.                 *)
(***************************************************************************)
THEOREM OperatorRunsAreManaged == OpsSpec => Spec
<1>1. OpsInit => Init
  BY DEF OpsInit
<1> QED
  BY <1>1, OpsCorrect, StepsAreManaged, PTL DEF OpsSpec, Spec

(***************************************************************************)
(* Every state of the composition is well typed.                           *)
(***************************************************************************)
THEOREM OpsTypeCorrect == OpsSpec => []OpsTypeOK
<1>1. OpsInv => OpsTypeOK
  BY DEF OpsInv, RecordTypeOK, OpsTypeOK
<1> QED
  BY <1>1, OpsCorrect, PTL

(***************************************************************************)
(* What the database says is latest is recorded, and its file complete.    *)
(***************************************************************************)
THEOREM LatestIsThere == OpsSpec => []LatestIsRecorded
<1>1. OpsInv /\ RefsAreComplete => LatestIsRecorded
  BY DEF OpsInv, LatestInv, IsRecordOf, RefsAreComplete, LatestIsRecorded, Recorded
<1> QED
  BY <1>1, OpsCorrect, OperatorRunsAreManaged, ReferencesAreComplete, PTL

-----------------------------------------------------------------------------
(***************************************************************************)
(* What the runs start from and hand on.  A run's base is set once, when   *)
(* it resolves its initial state, from the snapshot it loaded; the final   *)
(* snapshot adds the run itself; and a snapshot that was handed out stays  *)
(* as it is.                                                               *)
(***************************************************************************)
StartOf(x) == IF ReadsPrior(x) THEN content[<<prior[x], "final">>] ELSE {}

Effects(x) ==
    /\ base'[x] # base[x] => pc[x] = "resolve" /\ base'[x] = StartOf(x)
    /\ prior'[x] # prior[x] => pc[x] = "idle"
    /\ pc'[x] = "idle" => pc[x] = "idle"
    /\ "final" \in refs[x] => /\ "final" \in refs'[x]
                              /\ content'[<<x, "final">>] = content[<<x, "final">>]
    /\ "final" \in refs'[x] \ refs[x] => pc[x] = "write_final"
    /\ content'[<<x, "final">>] \in {content[<<x, "final">>], base[x] \cup {x}}

\* Run x is where it was, with what it had.
Unmoved(x) ==
    /\ pc'[x] = pc[x] /\ prior'[x] = prior[x] /\ base'[x] = base[x]
    /\ refs'[x] = refs[x] /\ content'[<<x, "final">>] = content[<<x, "final">>]

LEMMA UnmovedEffects == ASSUME NEW x, Unmoved(x) PROVE Effects(x)
  BY DEF Unmoved, Effects

LEMMA StepEffects ==
  ASSUME TypeOK, DataInv, [Next]_vars, NEW x \in Runs
  PROVE  Effects(x)
<1> USE DEF TypeOK, Goto, lockVars, diskVars, dataVars
<1>0. CallInv(x) /\ SnapshotInv(x)
  BY DEF DataInv, RunInv
<1>1. CASE UNCHANGED vars
  <2>1. Unmoved(x)
    BY <1>1 DEF vars, Unmoved
  <2> QED
    BY <2>1, UnmovedEffects
<1>2. ASSUME NEW r \in Runs, NEW v \in Offered(r), Open(r, v) PROVE Effects(x)
  BY <1>2 DEF Open, Effects
<1>3. ASSUME NEW r \in Runs, ResolveInitialState(r) PROVE Effects(x)
  <2>1. pc[x] # "idle" => pc'[x] # "idle"
    BY <1>3 DEF ResolveInitialState
  <2>2. base'[x] # base[x] => pc[x] = "resolve" /\ base'[x] = StartOf(x)
    BY <1>3 DEF ResolveInitialState, StartOf
  <2> QED
    BY <1>3, <2>1, <2>2 DEF ResolveInitialState, Effects
<1>4. ASSUME NEW r \in Runs,
             \/ EnsureProfileLayout(r) \/ LockAcquired(r) \/ EnsureRunLayout(r)
             \/ RefusePrior(r) \/ InitialWritten(r) \/ Launch(r) \/ NewContext(r)
             \/ EnterRaises(r) \/ EnterCleanup(r)
      PROVE  Effects(x)
  BY <1>4 DEF EnsureProfileLayout, LockAcquired, EnsureRunLayout, RefusePrior,
              InitialWritten, Launch, NewContext, EnterRaises, EnterCleanup, Effects
<1>5. ASSUME NEW r \in Runs,
             \/ BodyEnds(r) \/ CaptureFinalState(r) \/ FinalWritten(r)
             \/ CaptureRaises(r) \/ CloseContext(r) \/ CloseRuntime(r)
      PROVE  Effects(x)
  <2>1. CASE BodyEnds(r) \/ CloseContext(r)
    BY <2>1 DEF BodyEnds, CloseContext, Effects
  <2>2. CASE CaptureFinalState(r) \/ CaptureRaises(r)
    BY <2>2 DEF CaptureFinalState, CaptureRaises, Effects
  <2>3. CASE FinalWritten(r)
    BY <2>3 DEF FinalWritten, Effects
  <2>4. CASE CloseRuntime(r)
    BY <2>4 DEF CloseRuntime, Effects
  <2> QED
    BY <1>5, <2>1, <2>2, <2>3, <2>4
<1>6. ASSUME NEW r \in Runs, ThreadWrites(r) \/ ThreadFails(r) PROVE Effects(x)
  <2>0. CASE pc' = pc /\ prior' = prior /\ base' = base /\ refs' = refs /\ content' = content
    <3>1. Unmoved(x)
      BY <2>0 DEF Unmoved
    <3> QED
      BY <3>1, UnmovedEffects
  <2>1. /\ pc' = pc /\ prior' = prior /\ base' = base /\ refs' = refs
        /\ \/ content' = content
           \/ content' = [content EXCEPT ![<<r, thread[r]>>] = Snapshot(r, thread[r])]
        /\ thread[r] \in Kinds
    BY <1>6 DEF ThreadWrites, ThreadFails
  <2> SUFFICES ASSUME content' = [content EXCEPT ![<<r, thread[r]>>] = Snapshot(r, thread[r])]
               PROVE  Effects(x)
    BY <2>0, <2>1
  <2>2. CASE x = r /\ thread[r] = "final"
    <3>1. content'[<<x, "final">>] = base[x] \cup {x}
      BY <2>1, <2>2 DEF Snapshot
    <3>2. "final" \notin refs[x]
      BY <1>0, <2>2 DEF SnapshotInv
    <3> QED
      BY <2>1, <3>1, <3>2 DEF Effects
  <2>3. CASE ~(x = r /\ thread[r] = "final")
    <3>1. <<x, "final">> # <<r, thread[r]>>
      BY <2>3
    <3>2. content'[<<x, "final">>] = content[<<x, "final">>]
      BY <2>1, <3>1
    <3>3. Unmoved(x)
      BY <2>1, <3>2 DEF Unmoved
    <3> QED
      BY <3>3, UnmovedEffects
  <2> QED
    BY <2>2, <2>3
<1>7. ASSUME NEW r \in Runs,
             \/ ThreadAcquires(r) \/ ThreadTimesOut(r) \/ ThreadCreates(r)
             \/ CollectHandle(r) \/ Environment(r)
      PROVE  Effects(x)
  BY <1>7 DEF ThreadAcquires, ThreadTimesOut, ThreadCreates,
              CollectHandle, Environment, Crash, Damage, Active, Effects
<1> QED
  BY <1>1, <1>2, <1>3, <1>4, <1>5, <1>6, <1>7 DEF Next, RunStep, ThreadStep

(***************************************************************************)
(* A run without a carried snapshot starts blank, and who has a final      *)
(* snapshot captures them and started from the one it loaded.              *)
(***************************************************************************)
BaseInv(r) ==
    /\ pc[r] = "idle" \/ ~ReadsPrior(r) => base[r] = {}
    /\ "final" \in refs[r] =>
          /\ CapturesFinal(r)
          /\ base[r] = IF prior[r] = NoRun THEN {} ELSE content[<<prior[r], "final">>]

LEMMA BaseInvStep ==
  ASSUME TypeOK, DataInv, [Next]_vars, NEW r \in Runs, BaseInv(r)
  PROVE  BaseInv(r)'
<1>1. Effects(r)
  BY StepEffects
<1>2. SnapshotInv(r) /\ LineageInv(r) /\ SuccessInv(r)
  BY DEF DataInv, RunInv
<1>3. (pc[r] = "idle" \/ ~ReadsPrior(r) => base[r] = {})'
  BY <1>1 DEF Effects, BaseInv, StartOf, ReadsPrior, Persists
<1>4. prior[r] # NoRun =>
        content'[<<prior[r], "final">>] = content[<<prior[r], "final">>]
  <2> SUFFICES ASSUME prior[r] # NoRun
               PROVE  content'[<<prior[r], "final">>] = content[<<prior[r], "final">>]
    OBVIOUS
  <2>1. prior[r] \in Runs /\ "final" \in refs[prior[r]]
    BY <1>2 DEF LineageInv, TypeOK
  <2> QED
    BY <2>1, StepEffects DEF Effects
<1>5. ASSUME "final" \in refs'[r]
      PROVE  /\ CapturesFinal(r)
             /\ prior'[r] = prior[r] /\ base'[r] = base[r]
             /\ base[r] = IF prior[r] = NoRun THEN {} ELSE content[<<prior[r], "final">>]
  <2>1. CASE "final" \in refs[r]
    BY <1>1, <1>2, <2>1 DEF Effects, SnapshotInv, BaseInv
  <2>2. CASE "final" \notin refs[r]
    <3>1. pc[r] = "write_final"
      BY <1>1, <1>5, <2>2 DEF Effects
    <3>2. CapturesFinal(r) /\ prior'[r] = prior[r] /\ base'[r] = base[r]
      BY <1>1, <1>2, <3>1 DEF Effects, SuccessInv
    <3>3. prior[r] # NoRun => base[r] = content[<<prior[r], "final">>]
      BY <1>2, <3>1, <3>2 DEF LineageInv, PastResolve, CapturesFinal
    <3>4. prior[r] = NoRun => base[r] = {}
      BY DEF BaseInv, ReadsPrior
    <3> QED
      BY <3>2, <3>3, <3>4
  <2> QED
    BY <2>1, <2>2
<1>6. CapturesFinal(r)' <=> CapturesFinal(r)
  BY DEF CapturesFinal, Persists
<1> QED
  BY <1>3, <1>4, <1>5, <1>6 DEF BaseInv

(***************************************************************************)
(* Only recorded runs are loaded, so their work and a run's own is all     *)
(* that its final snapshot can hold.                                       *)
(***************************************************************************)
WorkInv(r) ==
    /\ base[r] \subseteq Recorded
    /\ content[<<r, "final">>] \subseteq Recorded \cup {r}
    /\ prior[r] # NoRun => prior[r] \in Recorded

WorkIsRecorded == \A r \in Runs : BaseInv(r) /\ WorkInv(r)

\* What is recorded stays so.
LEMMA RecordsStay == OpsInv /\ [OpsNext]_allVars => Recorded \subseteq Recorded'
<1> SUFFICES ASSUME OpsInv, [OpsNext]_allVars, NEW w \in Runs, outcome[w] = "recorded"
             PROVE  outcome'[w] = "recorded"
  BY DEF Recorded
<1> USE DEF OpsInv, RecordTypeOK
<1>1. ASSUME NEW r \in Runs, SettleStep(r) PROVE outcome'[w] = "recorded"
  BY <1>1 DEF SettleStep, PersistRun, PersistFails, DropRun, Unsettled, Settle
<1>2. CASE UNCHANGED opsVars
  BY <1>2 DEF opsVars
<1> QED
  BY <1>1, <1>2 DEF OpsNext, Load, LifecycleStep, allVars

\* A step that gives a run a carried snapshot is the load of a recorded one.
LEMMA PriorsAreRecorded ==
  ASSUME OpsInv, DataInv, [OpsNext]_allVars, NEW x \in Runs, WorkInv(x),
         prior'[x] # NoRun
  PROVE  prior'[x] \in Recorded
<1> USE DEF OpsInv, TypeOK
<1>1. ASSUME NEW r \in Runs, Load(r) PROVE prior'[x] \in Recorded
  <2>1. CASE x = r
    <3>1. prior'[x] = latestFinal[SessionOf[x]] /\ SessionOf[x] \in Sessions
      BY <1>1, <2>1, SessionOfAssumption DEF Load, Open
    <3>2. prior'[x] \in Runs
      BY <3>1 DEF RecordTypeOK
    <3>3. IsRecordOf(prior'[x], SessionOf[x], "final", FinalOrder)
      BY <3>1, <3>2, Zenon DEF LatestInv
    <3> QED
      BY <3>2, <3>3 DEF IsRecordOf, Recorded
  <2>2. CASE x # r
    BY <1>1, <2>2 DEF Load, Open, WorkInv
  <2> QED
    BY <2>1, <2>2
<1>2. ASSUME NEW r \in Runs, LifecycleStep(r) PROVE prior' = prior
  <2>1. CASE RunStep(r)
    BY <2>1 DEF RunStep, EnsureProfileLayout, LockAcquired, EnsureRunLayout,
                ResolveInitialState, RefusePrior, InitialWritten, Launch, NewContext,
                EnterRaises, EnterCleanup, BodyEnds, CaptureFinalState, FinalWritten,
                CaptureRaises, CloseContext, CloseRuntime, dataVars
  <2>2. CASE ThreadStep(r) \/ CollectHandle(r) \/ Environment(r)
    BY <2>2 DEF ThreadStep, ThreadAcquires, ThreadTimesOut, ThreadCreates,
                ThreadWrites, ThreadFails, CollectHandle, Environment, Crash, Damage,
                dataVars
  <2> QED
    BY <1>2, <2>1, <2>2 DEF LifecycleStep
<1>3. CASE UNCHANGED vars
  BY <1>3 DEF vars, WorkInv
<1>4. ASSUME NEW r \in Runs, SettleStep(r) PROVE UNCHANGED vars
  BY <1>4 DEF SettleStep, PersistRun, PersistFails, DropRun
<1> QED
  BY <1>1, <1>2, <1>3, <1>4 DEF OpsNext, allVars, WorkInv

LEMMA WorkStep ==
  OpsInv /\ DataInv /\ WorkIsRecorded /\ [OpsNext]_allVars => WorkIsRecorded'
<1> SUFFICES ASSUME OpsInv, DataInv, WorkIsRecorded, [OpsNext]_allVars, NEW r \in Runs
             PROVE  BaseInv(r)' /\ WorkInv(r)'
  BY DEF WorkIsRecorded
<1>1. [Next]_vars /\ TypeOK
  BY StepsAreManaged DEF OpsInv
<1>2. BaseInv(r)'
  BY <1>1, BaseInvStep DEF WorkIsRecorded
<1>3. Effects(r)
  BY <1>1, StepEffects
<1>4. Recorded \subseteq Recorded'
  BY RecordsStay
<1>5. WorkInv(r)
  BY DEF WorkIsRecorded
<1>6. StartOf(r) \subseteq Recorded
  <2>1. prior[r] # NoRun => prior[r] \in Recorded /\ prior[r] \in Runs
    BY <1>1, <1>5 DEF WorkInv, TypeOK
  <2>2. prior[r] # NoRun => content[<<prior[r], "final">>] \subseteq Recorded \cup {prior[r]}
    BY <2>1 DEF WorkIsRecorded, WorkInv
  <2> QED
    BY <2>1, <2>2 DEF StartOf, ReadsPrior
<1>7. base'[r] \subseteq Recorded'
  BY <1>3, <1>4, <1>5, <1>6 DEF Effects, WorkInv
<1>8. content'[<<r, "final">>] \subseteq Recorded' \cup {r}
  BY <1>3, <1>4, <1>5 DEF Effects, WorkInv
<1>9. prior'[r] # NoRun => prior'[r] \in Recorded'
  BY <1>4, <1>5, PriorsAreRecorded
<1> QED
  BY <1>2, <1>7, <1>8, <1>9 DEF WorkInv

LEMMA WorkCorrect == OpsSpec => [](OpsInv /\ DataInv /\ WorkIsRecorded)
<1>1. OpsInit => WorkIsRecorded
  BY DEF OpsInit, Init, WorkIsRecorded, BaseInv, WorkInv
<1> QED
  BY <1>1, WorkStep, OpsCorrect, OperatorRunsAreManaged, DataCorrect, PTL DEF OpsSpec

(***************************************************************************)
(* No browser starts from work of a run that was not recorded.             *)
(***************************************************************************)
THEOREM CarriedWorkIsRecorded == OpsSpec => []OnlyRecordedWorkIsCarried
<1>1. WorkIsRecorded => OnlyRecordedWorkIsCarried
  BY DEF WorkIsRecorded, WorkInv, OnlyRecordedWorkIsCarried
<1> QED
  BY <1>1, WorkCorrect, PTL

LEMMA LineageOfFinal ==
  ASSUME DataInv, WorkIsRecorded, NEW r \in Runs, "final" \in refs[r]
  PROVE  content[<<r, "final">>] =
            {r} \cup (IF prior[r] = NoRun THEN {}
                                          ELSE content[<<prior[r], "final">>])
<1>1. SnapshotInv(r) /\ BaseInv(r)
  BY DEF DataInv, RunInv, WorkIsRecorded
<1>2. content[<<r, "final">>] = base[r] \cup {r}
  BY <1>1 DEF SnapshotInv, IsComplete, Snapshot
<1> QED
  BY <1>1, <1>2 DEF BaseInv

(***************************************************************************)
(* A final snapshot adds its run's own work to the one it started from.    *)
(***************************************************************************)
THEOREM LineagesAreFormed == OpsSpec => []SnapshotsFormLineages
<1>1. DataInv /\ WorkIsRecorded => SnapshotsFormLineages
  BY LineageOfFinal DEF SnapshotsFormLineages
<1> QED
  BY <1>1, WorkCorrect, PTL

(***************************************************************************)
(* A run nobody overtook adds its work to its session's when it commits,   *)
(* or clears it if it captured none.                                       *)
(***************************************************************************)
THEOREM UndisturbedRunsKeepAll == OpsSpec => UndisturbedRunsAccumulate
<1> DEFINE Accumulates(r) ==
      PersistRun(r) /\ prior[r] = latestFinal[SessionOf[r]] =>
          LatestWork(SessionOf[r])' =
              IF CapturesFinal(r) THEN LatestWork(SessionOf[r]) \cup {r} ELSE {}
<1>1. ASSUME OpsInv, DataInv, WorkIsRecorded, NEW r \in Runs, PersistRun(r),
             prior[r] = latestFinal[SessionOf[r]]
      PROVE  LatestWork(SessionOf[r])' =
                 IF CapturesFinal(r) THEN LatestWork(SessionOf[r]) \cup {r} ELSE {}
  <2> DEFINE s == SessionOf[r]
  <2>1. s \in Sessions
    BY SessionOfAssumption
  <2>2. latestFinal'[s] = RefOf(r, "final") /\ content' = content
    BY <1>1, <2>1 DEF PersistRun, OpsInv, RecordTypeOK, vars
  <2>3. CapturesFinal(r) <=> "final" \in refs[r]
    BY <1>1 DEF PersistRun, Unsettled, DataInv, RunInv, SuccessInv, Captured
  <2>4. CASE "final" \in refs[r]
    <3>1. LatestWork(s)' = content[<<r, "final">>]
      BY <2>2, <2>4, NoRunAssumption DEF LatestWork, RefOf
    <3>2. content[<<r, "final">>] = {r} \cup LatestWork(s)
      BY <1>1, <2>4, LineageOfFinal DEF LatestWork
    <3> QED
      BY <2>3, <2>4, <3>1, <3>2
  <2>5. CASE "final" \notin refs[r]
    <3>1. LatestWork(s)' = {}
      BY <2>2, <2>5 DEF LatestWork, RefOf
    <3> QED
      BY <2>3, <2>5, <3>1
  <2> QED
    BY <2>4, <2>5
<1>2. OpsInv /\ DataInv /\ WorkIsRecorded => \A r \in Runs : Accumulates(r)
  BY <1>1
<1> QED
  BY <1>2, WorkCorrect, PTL DEF UndisturbedRunsAccumulate

=============================================================================
