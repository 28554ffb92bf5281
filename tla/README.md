# A TLA+ verification of SightStalker

SightStalker is an async Python toolkit that drives a browser, one *managed run* at a
time, against a *session* of a *profile*, and keeps what the run produced: storage-state
snapshots, diagnostics, and rows in a database. This directory holds TLA+ models of the
parts where order, failure and concurrency matter, TLC runs that check them on small
instances, and TLAPS proofs that hold for every instance. All source paths below are
relative to `src/sightstalker/` in the repository.

## 1. The system

| Component | State it keeps | Operations | Talks to |
|---|---|---|---|
| Session lifecycle (`sessions/manager.py`) | of a run: lock handle, runtime, context, references to snapshots, records | `__aenter__`, `__aexit__` and their helpers | locks, state store (through `asyncio.to_thread`), engine (awaits) |
| Profile locks (`sessions/locks.py`) | one file lock per profile, held by the operating system | `acquire`, `release` | `filelock` |
| State store (`sessions/state_store.py`) | immutable `storage_state.{initial,final}.json` per run | `write_state`, `read_state` | artifact store |
| Artifact store (`artifacts/`) | files under the data directory | exclusive write, verified read | file system |
| Managed-run operation (`ops/runs.py`) | the loaded session record, the plan's result | `execute_managed_run`, `_persist_run` | repositories, lifecycle |
| Persistence (`persistence/`) | profiles, sessions, runs, contexts, artifacts, health rows | create, get, list, update, archive, `set_latest_artifacts` | SQLAlchemy |
| Diagnostics (`diagnostics/`) | trace handle state, console events, temporary files | start/stop/discard, attach/detach/write, capture | browser context, artifact store |
| Engine (`engines/camoufox.py`) | exit stack, closed flags | launch, new_context, close | Camoufox/Playwright |
| Environment (`environment/`) | none (configuration layers) | resolve, select, apply | — |
| Resilience (`resilience/`) | none per call (attempt counters) | retry, classify, redact | tenacity |
| Command line (`cli/`) | none | parsing, plans, output | operations |

**How they interact.** A command builds a plan and calls `execute_managed_run`. It loads
the session and profile records in one database session, builds the effective
configuration, opens a `ManagedSessionContext` and enters it: profile directory, profile
lock, run directory, carried snapshot, initial snapshot, browser, context. The plan runs
in the body. `__aexit__` captures the final snapshot, closes context and browser,
releases the lock and builds the records; only then does `_persist_run` write them in one
transaction and move the session's latest snapshots.

**What is hard.** Blocking calls run in worker threads that a cancelled task stops
waiting for but does not stop. Each step of the exit may raise and the next must still
run. The lock is taken in one thread and released in another. The process may die
anywhere. The session record a run works with was read before it had the lock, and is
written back after. Two tasks may stop one trace. Two writers may want one file.

**What makes each part correct.**

- *Lifecycle*: a browser only under the lock, but for one lost by a close that raised; the
  lock back on every path; a run starts from exactly the snapshot its session carries or
  fails; "succeeded" means nothing is left behind; every opened run ends.
- *Artifact store*: what a reference was handed out for is never overwritten; a reader
  gets the bytes the reference describes or an error.
- *Managed-run operation*: what the database calls latest is recorded, complete and of
  that session; work of failed or unrecorded runs is never carried; state accumulates.
- *Trace capture*: at most one artifact; each state of the handle is true of it; tracing
  is stopped once.
- *Persistence*: no row refers to a missing one; a reader sees all of a run or none of
  it; one command does not undo another; the write lock comes back.
- *Diagnostics and engine*: whatever raises, nothing outlives the run that the code could
  have closed; a console count is that of its artifact; evidence is of the page asked for.
- *Resilience*: a retry repeats only what is safe to repeat, and reports the last failure.
- *Environment and command line*: a browser gets each field from the highest tier that
  has it and nothing private; the exit code says what was touched, and neither a success
  nor a named failure is reported against what the database says.

## 2. Modules

| Module | Models | Extends |
|---|---|---|
| `SessionLifecycle` | one entry and exit of managed contexts, locks, snapshots | |
| `ProfileCustody` | abstract: a profile has one custodian, who alone browses | |
| `LifecycleCustody` | the refinement mapping of the first to the second | `SessionLifecycle` |
| `ManagedRun` | `execute_managed_run`: load, lifecycle, commit | `SessionLifecycle` |
| `TraceCapture` | one trace handle and its concurrent callers | |
| `ArtifactStore` | racing exclusive writers, readers, tampering | |
| `SessionCatalog` | the database: tables, statements, transactions, commands | |
| `OperatorCommand` | one command from its arguments to its exit code | `FailureTaxonomy` |
| `DiagnosticRun` | one plan over the engine's calls, from launch to close | |
| `RetryPolicy` | a retried call | `FailureTaxonomy` |
| `FailureTaxonomy` | exception classes, their kinds and exit codes | |
| `MC*` | constants of the TLC instances | the module they name |
| `*Proofs` | theorems about the module they name; `SessionLifecycleProofs` also about `LifecycleCustody` and the `ProfileCustody` it instantiates | the module they name |

### SessionLifecycle

Atomicity is the await: what a run does between two awaits is one action, and each call
given to `asyncio.to_thread` is an actor of its own (`thread`). The steps in `pc` follow
the numbered comments of `__aenter__` and the helpers of `__aexit__`:

| `pc` | the run is |
|---|---|
| `layout`, `acquire`, `run_layout` | in `ensure_profile_layout`, `acquire`, `ensure_run_layout` |
| `resolve`, `write_initial` | in `_resolve_initial_state`, `write_initial_state` |
| `launch`, `new_context`, `body` | awaiting the engine; in the caller's block |
| `cleanup` | in `_enter_failure_cleanup` |
| `snapshot`, `write_final` | in `_capture_and_record_final_state` |
| `close_context`, `close_runtime` | in the two closes; the last also releases the lock and builds the records |
| `rejected`, `not_entered`, `succeeded`, `failed`, `crashed` | through |

`lock` is `self._lock`, `holder` the operating system's view of the lock file: they
differ exactly when an acquire was abandoned. `runtime = "lost"` is a browser whose close
raised or whose process died: it may still be alive and the program has no handle of it.
`MayBeAlive` counts it with the open ones, and `LiveRuntimeUnderLock` and
`OneBrowserPerProfile` name it as the one way to a browser without the lock, or to two on
one profile. `file` and
`content` are the snapshot files; a snapshot's content is abstracted to its *lineage*,
the set of runs whose work it contains, which is all the properties tell apart. `prior`
is the `latest_final_state` of the record the run was given, `refs` the references it
built, `faulted` the first exception of the body and the exit.

`PersistState`, `CaptureInitial`, `CaptureFinal` and `Unsupported` are sets of runs and
not of sessions: a run goes by the configuration in the record it was given, and
`SessionRepository.update` may have changed the session's between two runs. `Faulty`,
`Mortal` and `Fragile` say which runs may meet raising or cancelled awaits,
process death, and damage of their final snapshot. A cancelled await may come with the
thread call not yet started, running, or finished with a result nobody takes
(`StopWaiting`); an abandoned lock handle keeps its lock until it is collected
(`CollectHandle`). The choice of a session record (`Offered`) allows every record a
caller could hold from results of earlier runs, stale ones included.

### ManagedRun

Adds the database: per session the runs whose snapshots are latest, the artifact rows
with their run order, and what became of each run's record. `Load` reads the record and
opens the context in one step, because nothing between the two changes shared state;
everything after is interleaved. `PersistRun` is the whole transaction; `PersistFails`
its rollback with the orphan warning (an injected fault, or two rows of one run with one
order); `DropRun` a success that is never recorded (rejected extra, cancellation, death).
A failed run raises out of `execute_managed_run` and is not recorded, as in the code.

### TraceCapture

The handle's `_state`, whether the browser records, and callers that call `stop` or
`discard` once each. The await of `stop_tracing` separates test and update of the state.
A native stop on a context that is not recording raises (the browser's behaviour); one
that raises may have stopped the recording or not. A `stop` in a terminal state raises
(`StopRefused`), a `discard` returns having done nothing (`DiscardIgnored`): the step
"ignored" keeps that return apart from the others.

### ArtifactStore

Writers and readers step at system-call granularity: check, exclusive create, write,
confirm. The bytes of a file are abstracted to the writer whose payload they are, or
torn, or tampered; the hash is taken to be faithful, and is of the data the caller handed
over, not of the file (`write_bytes` does not read back). Other programs may change or
remove any file that no writer is in the middle of; one removed under its writer's feet is outside the
model, as there the failing writer's own `unlink` could take another writer's file.

### SessionCatalog

The tables as functions from ids to rows, the foreign keys between them, and clients that
give commands. A command is the list of SQL statements its repository calls issue
(`todo`), executed one at a time: a `SELECT` reads the committed tables (`db`), the first
`INSERT` or `UPDATE` begins the transaction (`work`, `writer`) if no other is open, and
every later statement of the command sees its own writes. A statement may be refused
(missing row, foreign key, duplicate key or run order), may find the database locked, and
the process may die between any two; each rolls back. `Changed` is the unit of work: of
the columns a repository assigns, those that differ from what was *loaded* are written.
That is what makes an `update` with an old record overwrite newer columns, and an
`archive` harmless. A record that was read carries the rows that were looked up for it
(`_rehydrate`, `_artifacts_for_run`), each by a `SELECT` of its own. The order and limits
of listings are left out; a session's configuration is a version number here.

### OperatorCommand

The stages of a command in the order of the code (`phase`), with the exception on its way
out (`error`), what it was before it was wrapped (`cause`) and what is visible outside:
the browser launched, files written, rows committed, the report. A configuration has one
field for each way a field can be set: by flag and override (mode), by override and
environment profile (locale), by override alone (timeout). `stored` is what the
allow-list of `persistable_session_config` and the rebuilding of a row make of `asked`,
the configuration the session was created with. A library caller may bring overrides, a
resolver, initializers and a plan; a command brings none of them. What may fail after the
commit has its own steps: the result is put together (`BuildResult`), and printed outside
the `try` of `run_cli_command` (`ReportFails`, whose report has the type "unprinted": the
process exits with 1 and no envelope). The sanitized messages of failures are printed in
the same way, so a closed stream can break any report.

### DiagnosticRun

The awaits of the command line's four plans (open, screenshot, trace, console) and of one
a library caller may write (console with stored metadata) between launch and close, over
the adapter's exit stack and closed flags. Each
native call may raise or be cancelled with or without having taken effect; the browser
sends console messages while the run awaits. Clean-up follows `__aexit__`: capture, close
context, close runtime, each whatever became of the one before. The temporary file of a
capture is cleaned up on every way out, but at best effort: `temp` is "stuck" when its
unlink failed, of which nobody is told.

### RetryPolicy and FailureTaxonomy

`FailureTaxonomy` gives each exception class the kind, exit code and public type that
`classify_exception` gives it. `RetryPolicy` is the tenacity loop under a policy: an
attempt that fails may have taken effect all the same (`effects`), a wait between two
attempts may be cancelled.

## 3. What TLC checks

| Run | Question | Instance | Distinct states |
|---|---|---|---|
| `lifecycle` | the safety invariants of a run; does it implement exclusive custody; do runs end and locks drain | 4 runs, 3 sessions, 1 profile; 2 runs (of different sessions) faulty and mortal, one snapshot fragile, one run unsupported; 3 configurations | 112k |
| `managed_records` | is the record true to overlapping runs; refinement of the lifecycle | 4 runs of one session, one faulty, one with clashing orders; 3 configurations | 340k |
| `managed_stale_load` | is recorded work kept (it is not) | 4 runs of one session, no faults | counterexample |
| `trace_overlapping` | is a handle's state true under overlap and cancellation | 4 callers | 4k |
| `trace_restop` | is tracing stopped once by serial calls (it is not) | 4 callers, serial | counterexample |
| `artifact_races` | no overwrite, faithful reads | 3 writers, 2 readers, 2 paths | 46k |
| `catalog` | do interleaved commands keep the tables sound, whole and each other's | 2 clients, 1 profile, 1 session, 2 runs | 163k |
| `retry` | what is repeated, what is reported, how long it waits | 4 exception classes, 3 kinds, 3 attempts | 107k |
| `command` | exit codes, reports, precedence, privacy | every request of a command, selected requests of a library caller, 17 configurations of which 9 can be stored | 145k |
| `command_diagnostic_exit` | do diagnostic failures exit with 5 (they do not) | the same | counterexample |
| `command_malformed_url` | is a malformed URL a usage error (not always) | the same | counterexample |
| `diagnostics` | what outlives a run, counts, evidence | 5 plans, 2 initializers, 3 console messages | 8k |

**Bounds and why they are enough.** Little is counted, so most bounds are numbers of
actors. Two runs of a session are what it takes to contend for a lock or to
overtake a load; a third, of the same session, makes a chain (carry, extend, carry) and
one of another session on the same profile makes leaks between sessions possible. In the
lifecycle two runs are faulty and mortal so that one fault meets another; the others are
left sound so that a sound run is seen beside a faulty one. The two runs of one session
have different configurations (one captures its final state, one does not), as have the
four of `managed_records`, of which one does not persist at all: its commit empties the
session that the others filled. There one run is faulty, and what its faults leave (a
failed run, a lost lock handle, a damaged snapshot) meets three sound ones. For traces four callers are two pairs
(stop/stop and stop/discard) at once. For artifacts two writers race and a third shows
that another path is undisturbed. In the catalogue
one client records runs and the other reads and edits: SQLite admits one writer, so two
clients are every conflict there is; of two runs of the session one leaves both snapshots
and one only the first, which is what `LatestPairIsOneRuns` is about. `MaxHealth` counts
health rows (the only table whose keys the database makes up) and `Editable` the tables
whose old records a library caller writes back; the other two are edited in the same way
and nothing refers to their columns. For retries, `MaxAttempts` 3 has a first, a middle and a
last attempt (the field allows 10) and `Delays` a zero and a value that grows past it; the
proofs hold for all. The 4 exception classes are one of each way the loop treats a
failure. For commands the configurations and requests are enumerated in `MCOperatorCommand`:
all a command line can say, every override of a library caller, and every combination of
its other extensions. `MaxEvents` 3 allows a message before the artifact, one between it
and the removal of the listener, and one to spare.

`CHECK_DEADLOCK FALSE` is set where the system may come to rest: every run has ended,
every call has returned, the process has exited. `catalog` is checked for
deadlock: a database takes commands for ever. That nothing rests *early* is what the liveness
properties say.

**Fairness.** `Fairness` gives weak fairness to a run's next step, to its worker thread
and to the collection of a dropped handle: the event loop resumes a task whose await is
settled, the executor runs what was submitted to it, every acquire has a timeout (zero
by default), and CPython's reference counting collects a handle nobody refers to. It
assumes the engine's own awaits settle; the code puts no timeout around them, so a hung
browser is outside these properties. Nothing obliges a run to open, a fault to happen or
a process to die. In
`SessionCatalog` a command that was given executes its next statement: nothing in it
waits, not even for the write lock, whose busy timeout is bounded. `lifecycle` runs under
`FairSpec`, whose reachable states are those of `Spec`.

**Findings.**

1. *Stale load* (`managed_stale_load`). `ops/runs.py:311` loads the session before the
   lock is held and `ops/runs.py:238` commits after it was released. Two overlapping
   invocations that are perfectly serialised by the lock still lose one's state, against
   the README's "carries a session's last final state forward as the next run's initial
   state" (`README.md:116`). `UndisturbedRunsAccumulate` is the strongest form that
   holds: it needs the session's latest snapshot at the commit to be the one loaded.
2. *Re-stop* (`trace_restop`). A failing `persist_artifact_result`
   (`diagnostics/tracing.py:99`) leaves the handle `active`, against the comment at
   line 82 ("Any failure -> failed, no re-stop"). The command line passes no policy, so
   it does not meet this; library callers with a persistence policy do.
3. *Lost exit code* (`command_diagnostic_exit`). `DiagnosticError` is not a
   `SightStalkerError`, so one raised by a plan is wrapped as `BrowserRuntimeError`
   (`ops/runs.py:431`) and the `diag` commands exit with 4, against "`5` diagnostic" in
   `README.md:225`.
4. *Malformed URL* (`command_malformed_url`). `urlsplit` (`cli/redaction.py:92`) and
   `parts.port` (`resilience/operator_redaction.py:164`) raise a plain `ValueError` for an
   unclosed bracket or a port out of range. The docstring of `prepare_navigation_url`
   promises a `CliUsageError` and exit code 2 for malformed input; the command exits with
   1, as after a bug, with nothing launched.

Other things the modelling showed, for a reader of the code:

- `persistable_session_config` refuses private fields but silently drops
  `fingerprint.user_agent`; and a session with any fingerprint can be stored and never run,
  as `ManagedSessionContext.__aenter__` refuses it (`NothingPrivateIsLaunched`).
- The orphan warning of a failed commit is given even if the run has written no file.
- A close of the browser that raises (`engines/camoufox.py:411-417`) is followed by the
  release of the profile lock (`sessions/manager.py:458-477`), so that the next run may
  browse on the profile beside the browser that was lost. Its own run has failed
  (`LiveRuntimeUnderLock`, `OneBrowserPerProfile`).
- A run whose record does not capture a final state empties the session: its commit writes
  NULL over the latest snapshots (`persistence/repositories.py:213-218`) while the record
  of its result keeps them (`UndisturbedRunsAccumulate`).
- `diagnostics/tracing.py:8-11` calls `stopped`, `discarded` and `failed` terminal. When
  two stops overlap, the second native stop raises and turns a `stopped` handle, with its
  artifact kept, into a `failed` one; and a `discard` of a failed handle returns normally
  while the browser may still record (`StateTellsWhatWasKept`,
  `ReturnMeansTracingSettled`).
- What fails after the commit (the sanitizing of `final_url` at `ops/runs.py:453`, the
  printing of a title as markup at `cli/output.py:120`) makes a recorded run exit with 1
  (`ReportAgreesWithDatabase`).
- `artifacts/manager.py:12` says the digest is "computed from the bytes actually on disk"
  (and `README.md:125` the like); `write_bytes` computes it from the data in memory.
- `HardenedTempFile.cleanup` swallows an unlink that fails, so a capture may leave its
  temporary file behind a successful run (`NothingOutlivesTheRun`).
- An exception of the browser while a context that went well is closed leaves `__aexit__`
  as it is and is reported as an internal error, exit code 1 (`ExitCodeTellsTheStage`).
- `engines/camoufox.py:452` unwinds a stack that is still empty when the manager's own
  `__aenter__` failed; cleaning up after that is the manager's business
  (`NothingOutlivesTheRun` excepts it).
- A `CancelledError` inside an attempt of `retry_async` is classified "internal", and a
  policy that lists this kind repeats the attempt (`NothingFinalIsRepeated` excepts it).
- A cancellation during the capture or the close of a run that has already failed is
  swallowed in favour of the first failure.

## 4. What is proved

Every theorem is for all values of the constants that satisfy the named assumptions:
`NoRun` is no run, every run has a session and every session a profile
(`SessionLifecycle`); run orders are numbers (`ManagedRun`); every writer has a path and
no writer is one of the marks (`ArtifactStore`); the ids, commands and columns of the
catalogue are of the kinds `CatalogAssumption` says; a policy allows at least one attempt
and delays are numbers (`RetryPolicy`); the callers of a trace handle are finitely many
(`TraceCapture`); the fields of a request are of the kinds the code validates, a command
line brings no overrides, resolver or initializers (`CommandAssumption`), and "absent" is
neither a configuration nor an exception (`NullAssumption`); the plans are the five of `DiagnosticRun`
and "none" is neither a number nor an exception (`DiagnosticAssumption`).

- **`SessionLifecycleProofs`** — `TypeCorrect`, `BrowserUnderLock`,
  `TwoBrowsersMeanALostOne`, `LocksNeverLeak`.
  Neither lock property is inductive: that an open browser's run is the holder depends
  on what the run's handle and its acquire call are. `LockInv` says it both ways. A run
  that has a handle, in `self._lock` or in the result of an acquire, is the holder
  (`HandleInv`, which also ties the handle, and what became of the browser, to the steps
  of the run); and a holder has a
  handle (`HolderInv`). `OnlyMoves` and `FrameLockInv` reduce each step to the run
  that takes it.
  Its second half proves `FailsClosed`, `ReferencesAreComplete`,
  `SuccessLeavesNothing`, `SessionsStayApart`. The invariant `DataInv` says of each run
  which call it can have under way at each step (`CallInv`), that a snapshot is complete
  from the moment its writer reports it and is never written again once referred to
  (`SnapshotInv`), that what a run carries is a referred-to snapshot of its session
  (`LineageInv`, `IsolationInv`), and what it must have captured by the time it closes
  (`SuccessInv`). The steps that neither write nor hand out a snapshot share `QuietStep`.
  Its last part is the refinement. `LifecycleImplementsCustody`: each step is one of
  take, browse, leave, give up, or a stutter of `ProfileCustody` under the mapping of
  `LifecycleCustody`, given `LockInv`. `CustodyIsExclusive` proves of the abstract protocol
  that two custodians never browse on one profile. The browsers a program still controls
  are all it can be about: `TwoBrowsersMeanALostOne` is the statement for those that may
  be alive.
- **`ManagedRunProofs`** — `OperatorRunsAreManaged` (`OpsSpec => Spec`), so that all of
  the above holds of runs as the operator starts them. It needs `LatestInv`: what the
  database calls latest is a reference of a recorded, succeeded run of the session, hence
  a record a caller could hold. From it and `ReferencesAreComplete` follows
  `LatestIsThere`. The work of runs has an invariant of its own, `WorkIsRecorded`, in two
  parts for each run. `BaseInv` says where a run's work started: from nothing until the
  carried snapshot is read, and from that snapshot's content once a final one is
  referred to (so `LineagesAreFormed`). `WorkInv` says whose work there is: the state it
  started from is of recorded runs, and its final snapshot adds at most its own (so
  `CarriedWorkIsRecorded`, and `UndisturbedRunsKeepAll` for the commit). It rests on
  `LatestInv`, because only what the database calls latest can be loaded, and on records
  staying recorded (`RecordsStay`). No part of it assumes that two runs of a session have
  the same configuration.
- **`ArtifactStoreProofs`** — `NoOverwrite` by `FileInv` (what a writer at each step
  knows of its file, and that two writers of a path never hold it at once), and
  `ReadsAreFaithful`, inductive as it stands.
- **`TraceCaptureProofs`** — `HandleTellsTheTruth` and `ReturnSettlesTracing` from
  `CaptureInv`: at most one caller's artifact exists; while the browser records there is
  none and the handle is active or failed; who persists has stopped tracing and written;
  and of a failed handle that some caller which kept nothing raised.
- **`SessionCatalogProofs`** — `RowsStaySound`, for any number of clients, rows and
  commands. `CatalogInv` says of both copies of the tables that every reference is to a
  row; the lemmas on `Put` say that a write that passes `KeysHold` keeps that, because
  rows are never deleted. The other properties need what a *half-executed command* may
  still do, and come in three layers, each inductive given the ones before it.
  `StatementsInv`: the statements left of a command are of the shapes its repository calls
  issue, only the writer's copy of the tables differs from the committed one, and what was
  read is a row that was there (`TypeCorrect`). `RunsInv`: a run in the writer's tables has
  each of its artifacts, or the insert of it is still to come in the same transaction, and
  a record being read has all of them or has that SELECT to come (`RunsAreReadWhole`:
  rollback and commit are the only ways out of a transaction, and neither splits a run).
  `SessionsInv`: what each command may write of a session's row, and that a difference
  between the two copies is explained by the command of the transaction or by a stale edit
  (`SnapshotsComeInPairs`, and the action property `NothingElseIsUndone`, which is about
  the commit).
- **`OperatorCommandProofs`** — `PrecedenceHolds`, `PrivateIsNotLaunched`,
  `ReportsAreTrue`, `ExitCodesTellTheStage`, for every set of environment profiles,
  configurations and requests. `CommandInv` is indexed by phase: where the configuration
  is checked relative to where it is replaced (`ConfigInv`), what each exception on its way
  out says of what was done (`ErrorInv`), what was done by each phase (`StageInv`), and how
  the report is made of both (`ReportInv`). That a closing error, for instance, means the
  plan was through is in no state the report is written from: it has to be carried along,
  as has whether a `ValueError` is of the arguments and rows, or of the result of a
  recorded run.
- **`DiagnosticRunProofs`** — `NothingIsLeft`, `CountsAreTrue`, `EvidenceIsSound`, for any
  number of initializers and of console messages. `RunInv` says of the body that what is
  left of the plan determines what has been done (`Progress(i)` at its `i`th step): before
  the navigation there is no artifact, a temporary file is there only at a capture, and the
  console artifact has all messages kept so far until the listener is asked to go. Of the
  close it says what is still open at each step, and that a browser still up at the end
  goes with an exception. The plans' own shape is in `PlanFacts`, and how
  initializers come before them in `InitializersLeft`.
- **`RetryPolicyProofs`** — `DeclaredSafetyHolds`, `FinalFailuresEndTheCall`,
  `CallerLearnsTheLast` from `LoopInv`: attempts made, failures seen, waits taken and
  effects had count each other at every phase, and each failure but the last was
  retryable. The classification of each final exception class is a lemma of its own.
  `DelaysStayBounded` rests on `WaitsAreCapped`: the cap holds whatever integer the power
  of two is, which is all the provers know of one.

**Only model-checked.** `OpenedRunsEnd`, `LocksDrain` and `WriteLockComesBack`, because
liveness under fairness is beyond the proof system; and the four violations, which are counterexamples. Every safety property the passing runs check,
invariant, action property or refinement, is a theorem.

## 5. Not modelled, and the plan

Left out for good: argument parsing and the text of outputs (`cli/`), the pydantic models
and identifiers, redaction and logging (text processing), the formats of serialized
values, the hash function, migrations of an existing schema (there is one revision),
`TimeoutPolicy` (no code uses it). A `ManagedSessionContext` entered twice, whose
`_entered` flag is never read, is not modelled: `execute_managed_run`, the only code that
opens one, enters it once.

Next, in this order:

1. An abstract specification of the catalogue (commands as atomic steps) and the
   refinement that shows the statement-level one implements it, up to stale edits.
2. The composition of `ManagedRun` with `SessionCatalog`, in which a run's session may be
   archived or edited between its load and its commit.
