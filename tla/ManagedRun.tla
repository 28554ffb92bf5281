------------------------------ MODULE ManagedRun ------------------------------
(***************************************************************************)
(* execute_managed_run (ops/runs.py): a run as the operator starts it.     *)
(* The session record is loaded from the database before the profile lock  *)
(* is asked for; the run then goes through the managed lifecycle; and only *)
(* after the lock is given back is a succeeded run recorded, in one        *)
(* transaction that also moves the session's latest snapshots              *)
(* (SessionRepository.set_latest_artifacts, persistence/repositories.py).  *)
(***************************************************************************)
EXTENDS SessionLifecycle, Sequences

CONSTANT DiagnosticOrders  \* the run orders of the artifacts each run's plan reports

ASSUME DiagnosticOrdersAssumption == DiagnosticOrders \in [Runs -> Seq(Nat)]

VARIABLES
    latestInitial,  \* per session: the run whose initial snapshot is the latest
    latestFinal,    \* ... and whose final snapshot is
    rows,           \* the artifact rows: a run and a run order, a unique pair
    outcome         \* what became of the record of each run

opsVars == <<latestInitial, latestFinal, rows, outcome>>
allVars == <<vars, opsVars>>

InitialOrder == 0
FinalOrder == 100

OpsTypeOK ==
    /\ TypeOK
    /\ latestInitial \in [Sessions -> Runs \cup {NoRun}]
    /\ latestFinal \in [Sessions -> Runs \cup {NoRun}]
    /\ rows \subseteq Runs \X Nat
    /\ outcome \in [Runs -> {"pending", "recorded", "orphaned", "dropped"}]

OpsInit ==
    /\ Init
    /\ latestInitial = [s \in Sessions |-> NoRun]
    /\ latestFinal = [s \in Sessions |-> NoRun]
    /\ rows = {}
    /\ outcome = [r \in Runs |-> "pending"]

-----------------------------------------------------------------------------
\* Slip: the session record is the one the caller still has from a result.
LoadFromResult(r) ==
    /\ \E w \in Offered(r) : Open(r, w)
    /\ UNCHANGED opsVars

(***************************************************************************)
(* Load the session record, with its latest final snapshot, and open the   *)
(* managed context over it.  Nothing is locked yet: the record is the run's*)
(* own copy from here on.                                                  *)
(***************************************************************************)
Load(r) ==
    /\ Open(r, latestFinal[SessionOf[r]])
    /\ UNCHANGED opsVars

\* The run orders of the rows the transaction creates, in order of creation.
Orders(r) ==
    (IF "initial" \in refs[r] THEN <<InitialOrder>> ELSE <<>>)
        \o DiagnosticOrders[r]
        \o (IF "final" \in refs[r] THEN <<FinalOrder>> ELSE <<>>)

OrdersOf(r) == {Orders(r)[i] : i \in 1..Len(Orders(r))}

\* Two rows of one run with one order break the unique constraint.
OrdersClash(r) == Cardinality(OrdersOf(r)) # Len(Orders(r))

\* Slip: the reference itself is stored for its run.
RefPair(r, kind) == IF kind \in refs[r] THEN <<r, kind>> ELSE NoRun

\* The reference a run hands on: none when it took no snapshot of that kind.
RefOf(r, kind) == IF kind \in refs[r] THEN r ELSE NoRun

\* Slip: failed runs are recorded as well.
UnsettledOrFailed(r) == pc[r] \in {"succeeded", "failed"} /\ outcome[r] = "pending"

Unsettled(r) == pc[r] = "succeeded" /\ outcome[r] = "pending"

Settle(r, o) == outcome' = [outcome EXCEPT ![r] = o]

\* _persist_run commits: rows and the session's latest snapshots, all at once.
PersistRun(r) ==
    /\ Unsettled(r)
    /\ ~OrdersClash(r)
    /\ rows' = rows \cup {<<r, o>> : o \in OrdersOf(r)}
    /\ latestInitial' = [latestInitial EXCEPT ![SessionOf[r]] = RefOf(r, "initial")]
    /\ latestFinal' = [latestFinal EXCEPT ![SessionOf[r]] = RefOf(r, "final")]
    /\ Settle(r, "recorded")
    /\ UNCHANGED vars

\* Slip: the session is updated before the rows, in a transaction of its own.
PersistHalf(r) ==
    /\ Unsettled(r)
    /\ r \in Faulty \/ OrdersClash(r)
    /\ latestFinal' = [latestFinal EXCEPT ![SessionOf[r]] = RefOf(r, "final")]
    /\ Settle(r, "orphaned")
    /\ UNCHANGED <<vars, latestInitial, rows>>

\* The transaction rolls back: the files stay, with a warning to the operator.
PersistFails(r) ==
    /\ Unsettled(r)
    /\ r \in Faulty \/ OrdersClash(r)
    /\ Settle(r, "orphaned")
    /\ UNCHANGED <<vars, latestInitial, latestFinal, rows>>

(***************************************************************************)
(* The run is never recorded although it succeeded: its plan's extra is    *)
(* rejected (_safe_extra), the task is cancelled, or the process dies.     *)
(***************************************************************************)
DropRun(r) ==
    /\ Unsettled(r)
    /\ r \in Faulty \cup Mortal
    /\ Settle(r, "dropped")
    /\ UNCHANGED <<vars, latestInitial, latestFinal, rows>>

-----------------------------------------------------------------------------
LifecycleStep(r) ==
    /\ RunStep(r) \/ ThreadStep(r) \/ CollectHandle(r) \/ Environment(r)
    /\ UNCHANGED opsVars

SettleStep(r) == PersistRun(r) \/ PersistFails(r) \/ DropRun(r)

OpsNext == \E r \in Runs : Load(r) \/ LifecycleStep(r) \/ SettleStep(r)

OpsSpec == OpsInit /\ [][OpsNext]_allVars

-----------------------------------------------------------------------------
(***************************************************************************)
(* Properties                                                              *)
(***************************************************************************)
Recorded == {r \in Runs : outcome[r] = "recorded"}

(***************************************************************************)
(* What the database says is latest is there: the run succeeded and is     *)
(* recorded with the rows of its snapshots, it is one of the session, and  *)
(* the file was written to its end.  This spans a commit made after the    *)
(* lock was given back, and runs that fail or die at any point before it.  *)
(***************************************************************************)
LatestIsRecorded ==
    \A s \in Sessions : \A w \in Runs :
        /\ latestFinal[s] = w =>
              /\ w \in Recorded /\ SessionOf[w] = s /\ pc[w] = "succeeded"
              /\ <<w, FinalOrder>> \in rows
              /\ file[<<w, "final">>] \in {"whole", "damaged"}
        /\ latestInitial[s] = w =>
              /\ w \in Recorded /\ SessionOf[w] = s
              /\ <<w, InitialOrder>> \in rows
              /\ file[<<w, "initial">>] \in {"whole", "damaged"}

(***************************************************************************)
(* The work of a run that failed, died or could not be recorded never      *)
(* reaches a later run: every browser starts from a state made by recorded *)
(* runs only.                                                              *)
(***************************************************************************)
OnlyRecordedWorkIsCarried == \A r \in Runs : base[r] \subseteq Recorded

(***************************************************************************)
(* Each final snapshot extends the one its run started from by that run's  *)
(* own work and nothing else: the snapshots of a session form a lineage,   *)
(* also when runs overlap and commit out of order.                         *)
(***************************************************************************)
SnapshotsFormLineages ==
    \A r \in Runs : "final" \in refs[r] =>
        content[<<r, "final">>] =
            {r} \cup (IF prior[r] = NoRun THEN {}
                                          ELSE content[<<prior[r], "final">>])

(***************************************************************************)
(* A run that was not overtaken between its load and its commit adds its   *)
(* own work to what the session had, if its record captures a final        *)
(* snapshot.  If not, its commit leaves the session without one, whatever  *)
(* the session had (set_latest_artifacts stores NULL for it).              *)
(***************************************************************************)
LatestWork(s) ==
    IF latestFinal[s] = NoRun THEN {} ELSE content[<<latestFinal[s], "final">>]

UndisturbedRunsAccumulate ==
    [][\A r \in Runs :
          PersistRun(r) /\ prior[r] = latestFinal[SessionOf[r]] =>
              LatestWork(SessionOf[r])' =
                  IF CapturesFinal(r) THEN LatestWork(SessionOf[r]) \cup {r} ELSE {}]_allVars

(***************************************************************************)
(* "carries a session's last final state forward as the next run's initial *)
(* state" (README.md:116): what is recorded in a session stays in it.      *)
(***************************************************************************)
NoRecordedWorkIsForgotten ==
    \A s \in Sessions : \A w \in Recorded :
        SessionOf[w] = s /\ "final" \in refs[w] => w \in LatestWork(s)

=============================================================================
