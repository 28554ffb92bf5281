---------------------------- MODULE SessionCatalog ----------------------------
(***************************************************************************)
(* The metadata database and the commands that read and write it: the      *)
(* repositories (persistence/repositories.py), the tables they flush to    *)
(* (persistence/models.py), the rows made of each record                   *)
(* (persistence/serialization.py), the profile and session commands        *)
(* (cli/profiles.py, cli/sessions.py) and the recording of a run           *)
(* (ops/runs.py).                                                          *)
(*                                                                         *)
(* A command is a list of SQL statements in one AsyncSession.  The driver  *)
(* begins a transaction at the first INSERT or UPDATE, and one connection  *)
(* at a time may write: a SELECT before that point reads what the others   *)
(* have committed, and may be out of date when the command writes.         *)
(*                                                                         *)
(* A row is abstracted to its keys, its references and the columns the     *)
(* commands change; paths, hashes, times and names are left out, and with  *)
(* the times the order and the limit of a listing.                         *)
(***************************************************************************)
EXTENDS Naturals, Sequences, FiniteSets

CONSTANTS
    Profiles, Sessions, Runs,   \* the ids the commands name
    Clients,                    \* the processes, one AsyncSession each
    Gives,                      \* bound: the kinds of command each of them gives
    ProfileOf,                  \* the profile each session is created for
    SessionOf,                  \* the session each run belongs to
    Snapshots,                  \* the snapshots each run takes: "initial", "final"
    DiagnosticOrder,            \* the run order of each run's diagnostic, or Null
    Editable,                   \* bound: the tables whose records a reader edits
    MaxHealth,                  \* bound: health records
    Null                        \* SQL NULL, and no client

ASSUME CatalogAssumption ==
    /\ Gives \in [Clients -> SUBSET {"profile", "session", "run", "health", "show", "edit"}]
    /\ ProfileOf \in [Sessions -> Profiles]
    /\ SessionOf \in [Runs -> Sessions]
    /\ Snapshots \in [Runs -> SUBSET {"initial", "final"}]
    /\ DiagnosticOrder \in [Runs -> Nat \cup {Null}]
    /\ Editable \subseteq {"sessions", "runs", "contexts"}
    /\ MaxHealth \in Nat
    /\ Null \notin Profiles \cup Sessions \cup Runs \cup Clients

VARIABLES
    db,      \* the committed tables: table -> id -> row
    work,    \* the tables as the open transaction sees them
    writer,  \* the client whose transaction is open, or Null
    op,      \* per client: the command it executes
    todo,    \* per client: the statements the command has left
    row,     \* per client: the row its AsyncSession has loaded
    lookups, \* per client: artifact references it has yet to resolve
    got      \* per client: the records its last read returned

vars == <<db, work, writer, op, todo, row, lookups, got>>

-----------------------------------------------------------------------------
(***************************************************************************)
(* The tables.  Every foreign key is ON DELETE RESTRICT, and nothing is    *)
(* ever deleted.                                                           *)
(***************************************************************************)
ForeignKey == [
    profiles  |-> <<>>,
    sessions  |-> [profile |-> "profiles", initial |-> "artifacts", final |-> "artifacts"],
    runs      |-> [session |-> "sessions"],
    contexts  |-> [run |-> "runs", session |-> "sessions",
                   initial |-> "artifacts", final |-> "artifacts"],
    artifacts |-> [session |-> "sessions", run |-> "runs"],
    health    |-> [session |-> "sessions", good |-> "runs", bad |-> "runs"]]

Tables == DOMAIN ForeignKey

ProfileRow == [archived |-> FALSE]

SessionRow(s) ==
    [profile |-> ProfileOf[s], config |-> 0, initial |-> Null, final |-> Null,
     archived |-> FALSE]

RunRow(r) == [session |-> SessionOf[r], status |-> 0]

ArtifactRow(r, order) == [session |-> SessionOf[r], run |-> r, order |-> order]

\* The column of a record's reference: its artifact's id, or NULL without one.
RefOf(r, kind) == IF kind \in Snapshots[r] THEN <<r, kind>> ELSE Null

ContextRow(r) ==
    [run |-> r, session |-> SessionOf[r], closed |-> 0,
     initial |-> RefOf(r, "initial"), final |-> RefOf(r, "final")]

HealthRow(s, good, bad) == [session |-> s, good |-> good, bad |-> bad]

\* The column an editor of the library changes in a record it has read.
Edited == [sessions |-> "config", runs |-> "status", contexts |-> "closed"]

\* Slip: foreign keys are declared, and the connection does not enforce them.
KeysNotEnforced(tables, t, new) == TRUE

\* PRAGMA foreign_keys=ON: what a row refers to is there when it is written.
KeysHold(tables, t, new) ==
    \A col \in DOMAIN ForeignKey[t] :
        new[col] # Null => new[col] \in DOMAIN tables[ForeignKey[t][col]]

\* uq_artifacts_run_order: no two artifacts of a run in one place.
OrderFree(tables, t, new) ==
    t = "artifacts" =>
        \A a \in DOMAIN tables.artifacts :
            tables.artifacts[a].run = new.run => tables.artifacts[a].order # new.order

Put(tables, t, id, new) ==
    [tables EXCEPT ![t] = [i \in DOMAIN tables[t] \cup {id} |->
                              IF i = id THEN new ELSE tables[t][i]]]

-----------------------------------------------------------------------------
(***************************************************************************)
(* Statements, and the repository methods as lists of them.                *)
(***************************************************************************)
Get(t, id) == [kind |-> "get", table |-> t, id |-> id]
Read(t, id) == [kind |-> "read", table |-> t, id |-> id]
List(t, owner) == [kind |-> "list", table |-> t, id |-> owner]
Insert(t, id, new) == [kind |-> "insert", table |-> t, id |-> id, new |-> new]
Update(t, id, cols) == [kind |-> "update", table |-> t, id |-> id, new |-> cols]

Archive(t, id) == <<Get(t, id), Update(t, id, [archived |-> TRUE])>>

\* Slip: a snapshot the run did not take keeps the session's older one.
SetLatestTaken(r) ==
    <<Get("sessions", SessionOf[r]),
      Update("sessions", SessionOf[r], [k \in Snapshots[r] |-> RefOf(r, k)])>>

SetLatest(r) ==
    <<Get("sessions", SessionOf[r]),
      Update("sessions", SessionOf[r],
             [k \in {"initial", "final"} |-> RefOf(r, k)])>>

CreateArtifact(r, kind, order) ==
    <<Insert("artifacts", <<r, kind>>, ArtifactRow(r, order))>>

\* The transaction that records a run, in the order of its statements.
RecordRun(r) ==
    <<Insert("runs", r, RunRow(r))>>
    \o (IF "initial" \in Snapshots[r] THEN CreateArtifact(r, "initial", 0) ELSE <<>>)
    \o (IF DiagnosticOrder[r] # Null
        THEN CreateArtifact(r, "diagnostic", DiagnosticOrder[r]) ELSE <<>>)
    \o (IF "final" \in Snapshots[r] THEN CreateArtifact(r, "final", 100) ELSE <<>>)
    \o <<Insert("contexts", r, ContextRow(r))>>
    \o SetLatest(r)

\* cli create_session: the profile is looked for first.
CreateSession(s) ==
    <<Read("profiles", ProfileOf[s]), Insert("sessions", s, SessionRow(s))>>

\* A record as read: a reference is there if its artifact was found.
RecordOf(view) ==
    [col \in DOMAIN view.row |->
        IF col \in {"initial", "final"} /\ view.row[col] \notin view.refs
        THEN Null ELSE view.row[col]]

\* SessionRepository.update and its siblings: every column of a record edited.
Rewrite(view) ==
    <<Get(view.table, view.id),
      Update(view.table, view.id,
             [RecordOf(view) EXCEPT ![Edited[view.table]] = 1])>>

-----------------------------------------------------------------------------
(***************************************************************************)
(* The commands.  Each opens an AsyncSession of its own.                   *)
(***************************************************************************)
Idle(c) == todo[c] = <<>> /\ lookups[c] = {}

Start(c, name, statements) ==
    /\ Idle(c)
    /\ op' = [op EXCEPT ![c] = name]
    /\ todo' = [todo EXCEPT ![c] = statements]
    /\ got' = [got EXCEPT ![c] = IF name = "edit" THEN @ ELSE {}]
    /\ UNCHANGED <<db, work, writer, row, lookups>>

\* A command that shows records: nothing in it begins a transaction.
Show(c, statement) == "show" \in Gives[c] /\ Start(c, "read", <<statement>>)

ProfileCommand(c) ==
    \E p \in Profiles :
        \/ /\ "profile" \in Gives[c]
           /\ \/ Start(c, "create", <<Insert("profiles", p, ProfileRow)>>)
              \/ Start(c, "archive", Archive("profiles", p))
        \/ Show(c, List("profiles", Null))

SessionCommand(c) ==
    \/ /\ "session" \in Gives[c]
       /\ \E s \in Sessions :
             \/ Start(c, "create", CreateSession(s))
             \/ Start(c, "archive", Archive("sessions", s))
    \/ \E s \in Sessions : Show(c, Read("sessions", s))
    \/ \E p \in Profiles : Show(c, List("sessions", p))

RunCommand(c) ==
    \/ "run" \in Gives[c] /\ \E r \in Runs : Start(c, "record", RecordRun(r))
    \/ \E r \in Runs : Show(c, Read("runs", r))
    \/ \E s \in Sessions : Show(c, List("runs", s))
    \/ \E r \in Runs : Show(c, List("contexts", r))

\* A health record may name a run that never was recorded: a failed one is not.
HealthCommand(c) ==
    /\ "health" \in Gives[c]
    /\ Cardinality(DOMAIN db.health) < MaxHealth
    /\ \E s \in Sessions, r \in Runs :
          Start(c, "create", <<Insert("health", Null, HealthRow(s, Null, r))>>)

\* A record read earlier is edited and written back: only the library does it.
EditCommand(c) ==
    /\ "edit" \in Gives[c]
    /\ \E view \in got[c] :
          /\ view.table \in Editable
          /\ Start(c, "edit", Rewrite(view))

-----------------------------------------------------------------------------
(***************************************************************************)
(* Their statements.                                                       *)
(***************************************************************************)
Visible(c) == IF writer = c THEN work ELSE db

Next1(c) == Head(todo[c])

Ready(c, kind) == todo[c] # <<>> /\ lookups[c] = {} /\ Next1(c).kind = kind

Advance(c) == todo' = [todo EXCEPT ![c] = Tail(@)]

\* The references of a record a read has yet to look up.
RefsOf(t, id, r) ==
    {<<id, col>> : col \in IF t = "runs" THEN {"artifacts"}
                           ELSE {k \in {"initial", "final"} \cap DOMAIN r : r[k] # Null}}

\* The rows a listing selects: those of an owner, not the archived ones.
Listed(tables, t, owner) ==
    {id \in DOMAIN tables[t] :
        CASE t = "profiles" -> ~tables[t][id].archived
          [] t = "sessions" -> tables[t][id].profile = owner /\ ~tables[t][id].archived
          [] t = "runs"     -> tables[t][id].session = owner
          [] t = "contexts" -> tables[t][id].run = owner}

\* AsyncSession.get for a row about to be changed.
GetRow(c) ==
    /\ Ready(c, "get")
    /\ Next1(c).id \in DOMAIN Visible(c)[Next1(c).table]
    /\ row' = [row EXCEPT ![c] = Visible(c)[Next1(c).table][Next1(c).id]]
    /\ Advance(c)
    /\ UNCHANGED <<db, work, writer, op, lookups, got>>

\* One SELECT of rows; their references are resolved by SELECTs of their own.
ReadRows(c, ids) ==
    LET t == Next1(c).table
        tables == Visible(c) IN
    /\ got' = [got EXCEPT ![c] =
                  {[table |-> t, id |-> id, row |-> tables[t][id], refs |-> {}] : id \in ids}]
    /\ lookups' = [lookups EXCEPT ![c] =
                      UNION {RefsOf(t, id, tables[t][id]) : id \in ids}]
    /\ Advance(c)
    /\ UNCHANGED <<db, work, writer, op, row>>

ReadRow(c) ==
    /\ Ready(c, "read")
    /\ Next1(c).id \in DOMAIN Visible(c)[Next1(c).table]
    /\ ReadRows(c, {Next1(c).id})

ListRows(c) ==
    /\ Ready(c, "list")
    /\ ReadRows(c, Listed(Visible(c), Next1(c).table, Next1(c).id))

\* _rehydrate and _artifacts_for_run: what one more SELECT finds for a record.
Found(tables, view, col) ==
    IF col = "artifacts"
    THEN {a \in DOMAIN tables.artifacts : tables.artifacts[a].run = view.id}
    ELSE {view.row[col]} \cap DOMAIN tables.artifacts

Rehydrate(c) ==
    \E look \in lookups[c] : \E view \in got[c] :
        /\ view.id = look[1]
        /\ got' = [got EXCEPT ![c] =
                      (@ \ {view}) \cup
                      {[view EXCEPT !.refs = @ \cup Found(Visible(c), view, look[2])]}]
        /\ lookups' = [lookups EXCEPT ![c] = @ \ {look}]
        /\ UNCHANGED <<db, work, writer, op, todo, row>>

\* The first write of a command begins its transaction when no other is open.
MayWrite(c) == writer \in {Null, c}

\* Slip: every statement is committed as it is flushed.
FlushCommitted(c, tables) ==
    /\ work' = tables
    /\ writer' = c
    /\ db' = tables
    /\ Advance(c)

Flush(c, tables) ==
    /\ work' = tables
    /\ writer' = c
    /\ db' = db
    /\ Advance(c)

\* Slip: a health record is filed under the id it came with: it has none.
OwnKey(tables, new) == new.id

\* The key of a new row: a health record gets the next one of its table.
KeyOf(tables, new) ==
    IF new.table = "health" THEN Cardinality(DOMAIN tables.health) + 1 ELSE new.id

InsertRow(c) ==
    LET new == Next1(c) IN
    /\ Ready(c, "insert")
    /\ MayWrite(c)
    /\ new.id \notin DOMAIN Visible(c)[new.table]
    /\ KeysHold(Visible(c), new.table, new.new)
    /\ OrderFree(Visible(c), new.table, new.new)
    /\ Flush(c, Put(Visible(c), new.table, KeyOf(Visible(c), new), new.new))
    /\ UNCHANGED <<op, row, lookups, got>>

\* Slip: the whole row goes out, as it was when it was loaded.
WholeRow(loaded, current, cols) ==
    [col \in DOMAIN current |-> IF col \in DOMAIN cols THEN cols[col] ELSE loaded[col]]

\* The unit of work writes the columns whose value is not the one it loaded.
Changed(loaded, current, cols) ==
    [col \in DOMAIN current |->
        IF col \in DOMAIN cols /\ cols[col] # loaded[col] THEN cols[col] ELSE current[col]]

UpdateRow(c) ==
    LET new == Next1(c)
        after == Changed(row[c], Visible(c)[new.table][new.id], new.new) IN
    /\ Ready(c, "update")
    /\ MayWrite(c)
    /\ KeysHold(Visible(c), new.table, after)
    /\ Flush(c, Put(Visible(c), new.table, new.id, after))
    /\ row' = [row EXCEPT ![c] = Null]
    /\ UNCHANGED <<op, lookups, got>>

\* Slip: the transaction stays open when its changes have been committed.
CommitAndHold(c) ==
    /\ writer = c
    /\ todo[c] = <<>>
    /\ db' = work
    /\ UNCHANGED <<work, writer, op, todo, row, lookups, got>>

Commit(c) ==
    /\ writer = c
    /\ todo[c] = <<>>
    /\ db' = work
    /\ writer' = Null
    /\ UNCHANGED <<work, op, todo, row, lookups, got>>

RollBack(c) ==
    /\ work' = IF writer = c THEN db ELSE work
    /\ writer' = IF writer = c THEN Null ELSE writer

\* What a statement raises on: PersistenceNotFoundError, PersistenceIntegrityError.
Refused(c) ==
    LET new == Next1(c) IN
    \/ /\ new.kind \in {"get", "read"}
       /\ new.id \notin DOMAIN Visible(c)[new.table]
    \/ /\ new.kind = "insert"
       /\ MayWrite(c)
       /\ \/ new.id \in DOMAIN Visible(c)[new.table]
          \/ ~KeysHold(Visible(c), new.table, new.new)
          \/ ~OrderFree(Visible(c), new.table, new.new)

\* "database is locked": the wait for the other writer's commit is bounded.
LockedOut(c) == Next1(c).kind \in {"insert", "update"} /\ ~MayWrite(c)

(***************************************************************************)
(* The command fails: what it flushed is rolled back and it returns no     *)
(* record.  The process may also die between any two statements, with the  *)
(* same effect on the database.                                            *)
(***************************************************************************)
Abandon(c) ==
    /\ RollBack(c)
    /\ todo' = [todo EXCEPT ![c] = <<>>]
    /\ lookups' = [lookups EXCEPT ![c] = {}]
    /\ got' = [got EXCEPT ![c] = {}]
    /\ row' = [row EXCEPT ![c] = Null]
    /\ UNCHANGED <<db, op>>

Fail(c) ==
    /\ todo[c] # <<>>
    /\ lookups[c] = {}
    /\ Refused(c) \/ LockedOut(c)
    /\ Abandon(c)

Die(c) ==
    /\ ~Idle(c) \/ writer = c
    /\ Abandon(c)

-----------------------------------------------------------------------------
Empty == [t \in Tables |-> <<>>]

Init ==
    /\ db = Empty
    /\ work = Empty
    /\ writer = Null
    /\ op = [c \in Clients |-> "none"]
    /\ todo = [c \in Clients |-> <<>>]
    /\ row = [c \in Clients |-> Null]
    /\ lookups = [c \in Clients |-> {}]
    /\ got = [c \in Clients |-> {}]

\* A command is one call: its transaction is over before the next begins.
Command(c) ==
    /\ writer # c
    /\ \/ ProfileCommand(c) \/ SessionCommand(c) \/ RunCommand(c)
       \/ HealthCommand(c) \/ EditCommand(c)

Statement(c) ==
    \/ GetRow(c) \/ ReadRow(c) \/ ListRows(c) \/ Rehydrate(c)
    \/ InsertRow(c) \/ UpdateRow(c) \/ Commit(c) \/ Fail(c)

Next == \E c \in Clients : Command(c) \/ Statement(c) \/ Die(c)

Spec == Init /\ [][Next]_vars

\* A command runs to its end; none has to be given, and no process has to die.
Fairness == \A c \in Clients : WF_vars(Statement(c))

FairSpec == Spec /\ Fairness

-----------------------------------------------------------------------------
(***************************************************************************)
(* Properties                                                              *)
(***************************************************************************)
(***************************************************************************)
(* Type correctness: the tables hold rows by id, an open transaction has   *)
(* an owner, and what a client loaded or read is a row or nothing.         *)
(***************************************************************************)
TypeOK ==
    /\ writer \in Clients \cup {Null}
    /\ DOMAIN db = Tables /\ DOMAIN work = Tables
    /\ DOMAIN db.profiles \subseteq Profiles
    /\ DOMAIN db.sessions \subseteq Sessions
    /\ DOMAIN db.runs \subseteq Runs /\ DOMAIN db.contexts \subseteq Runs
    /\ DOMAIN db.artifacts \subseteq Runs \X {"initial", "diagnostic", "final"}
    /\ DOMAIN db.health \subseteq Nat
    /\ op \in [Clients -> {"none", "create", "read", "archive", "record", "edit"}]
    /\ \A c \in Clients : \A view \in got[c] :
          view.table \in Tables

(***************************************************************************)
(* No committed row refers to a row that is not there, and no open         *)
(* transaction would make one (_flush under PRAGMA foreign_keys=ON),       *)
(* whatever commands run in whatever order and whichever of them fail.     *)
(***************************************************************************)
Sound(tables) ==
    \A t \in Tables : \A id \in DOMAIN tables[t] : \A col \in DOMAIN ForeignKey[t] :
        tables[t][id][col] \in DOMAIN tables[ForeignKey[t][col]] \cup {Null}

RowsReferToRows == Sound(db) /\ Sound(work)

\* The artifacts a run's plan and snapshots left.
ArtifactsOf(r) ==
    {<<r, kind>> : kind \in Snapshots[r]}
        \cup (IF DiagnosticOrder[r] = Null THEN {} ELSE {<<r, "diagnostic">>})

(***************************************************************************)
(* A run that a command is shown is whole: RunRepository.get and           *)
(* list_for_session read the run's row and its artifacts with one SELECT   *)
(* after the other, outside any transaction, while other processes record  *)
(* runs, fail and die; they return all the artifacts of the run or no run. *)
(***************************************************************************)
ReadersSeeWholeRuns ==
    \A c \in Clients : Idle(c) =>
        \A view \in got[c] :
            view.table = "runs" => view.refs = ArtifactsOf(view.id)

(***************************************************************************)
(* The two latest snapshots of a session that a command is shown were      *)
(* taken by one run: set_latest_artifacts replaces both, with NULL for one *)
(* the run did not take, and no reader finds a row half replaced.  Only    *)
(* SessionRepository.update can mix two runs' snapshots, by writing one    *)
(* column of a record that had gone stale and not the other.               *)
(***************************************************************************)
PairOfOneRun(s) ==
    s.initial # Null /\ s.final # Null => s.initial[1] = s.final[1]

LatestPairIsOneRuns ==
    \A c \in Clients : \A view \in got[c] :
        view.table = "sessions" =>
            PairOfOneRun(view.row) \/ view.row.config # 0

\* The columns each command is about.
Intended(c) ==
    CASE op[c] = "archive" -> {"archived"}
      [] op[c] = "record"  -> {"initial", "final"}
      [] op[c] = "edit"    -> {"config", "status", "closed"}
      [] OTHER             -> {}

\* The record a client edits is not what is committed any more.
EditsStale(c, s) ==
    op[c] = "edit" /\ \E view \in got[c] :
        view.table = "sessions" /\ view.id = s /\ view.row # db.sessions[s]

(***************************************************************************)
(* No command undoes another's: what a commit changes in a session's row   *)
(* is a column the command is about, although every command but the        *)
(* recording of a run loads the row before its transaction begins.  The    *)
(* exception is SessionRepository.update with a record that had gone stale *)
(* since it was read: it may unarchive a session or restore old snapshots. *)
(***************************************************************************)
OnlyStaleEditsUndo ==
    [][\A s \in DOMAIN db.sessions : \A col \in DOMAIN db.sessions[s] :
          db'.sessions[s][col] # db.sessions[s][col] =>
              col \in Intended(writer) \/ EditsStale(writer, s)]_vars

(***************************************************************************)
(* The one write transaction the database allows always ends: committed,   *)
(* rolled back on an error, or dropped with its process.  A command that   *)
(* waits for it is never kept out for good.                                *)
(***************************************************************************)
WriteLockComesBack == []<>(writer = Null)

=============================================================================
