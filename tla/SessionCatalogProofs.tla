------------------------- MODULE SessionCatalogProofs -------------------------
(***************************************************************************)
(* Proofs about SessionCatalog, for every set of profiles, sessions, runs  *)
(* and clients, and every interleaving of their commands.                  *)
(***************************************************************************)
EXTENDS SessionCatalog, FiniteSetTheorems, TLAPS

(***************************************************************************)
(* The tables, without the strings: each foreign key is a table's.         *)
(***************************************************************************)
LEMMA KeysAreTables ==
    ASSUME NEW t \in Tables, NEW col \in DOMAIN ForeignKey[t]
    PROVE  ForeignKey[t][col] \in Tables
<1>1. Tables = {"profiles", "sessions", "runs", "contexts", "artifacts", "health"}
  BY DEF Tables, ForeignKey
<1>2. CASE t = "profiles"
  <2>1. ForeignKey["profiles"] = <<>>
    BY DEF ForeignKey
  <2> QED
    BY <1>2, <2>1
<1>3. CASE t = "sessions"
  <2>1. ForeignKey[t] = [profile |-> "profiles", initial |-> "artifacts", final |-> "artifacts"]
    BY <1>3 DEF ForeignKey
  <2> QED
    BY <1>1, <2>1
<1>4. CASE t = "runs"
  <2>1. ForeignKey[t] = [session |-> "sessions"]
    BY <1>4 DEF ForeignKey
  <2> QED
    BY <1>1, <2>1
<1>5. CASE t = "contexts"
  <2>1. ForeignKey[t] = [run |-> "runs", session |-> "sessions",
                         initial |-> "artifacts", final |-> "artifacts"]
    BY <1>5 DEF ForeignKey
  <2> QED
    BY <1>1, <2>1
<1>6. CASE t = "artifacts"
  <2>1. ForeignKey[t] = [session |-> "sessions", run |-> "runs"]
    BY <1>6 DEF ForeignKey
  <2> QED
    BY <1>1, <2>1
<1>7. CASE t = "health"
  <2>1. ForeignKey[t] = [session |-> "sessions", good |-> "runs", bad |-> "runs"]
    BY <1>7 DEF ForeignKey
  <2> QED
    BY <1>1, <2>1
<1> QED
  BY <1>1, <1>2, <1>3, <1>4, <1>5, <1>6, <1>7

(***************************************************************************)
(* A row whose keys hold leaves sound tables sound: what other rows refer  *)
(* to stays where it is, for a write adds ids and never removes one.       *)
(***************************************************************************)
Database(tables) ==
    /\ tables = [t \in Tables |-> tables[t]]
    /\ Sound(tables)

LEMMA PutKeeps ==
    ASSUME NEW tables, Database(tables), NEW t, NEW id, NEW new,
           KeysHold(tables, t, new)
    PROVE  Database(Put(tables, t, id, new))
<1> DEFINE after == Put(tables, t, id, new)
<1>1. after = [u \in Tables |-> after[u]]
  BY DEF Database, Put
<1>2. \A u \in Tables : u # t => after[u] = tables[u]
  BY DEF Database, Put
<1>3. t \in Tables =>
        after[t] = [i \in DOMAIN tables[t] \cup {id} |-> IF i = id THEN new ELSE tables[t][i]]
  BY DEF Database, Put
<1>4. \A u \in Tables : DOMAIN tables[u] \subseteq DOMAIN after[u]
  BY <1>2, <1>3
<1>5. ASSUME NEW u \in Tables, NEW i \in DOMAIN after[u], NEW col \in DOMAIN ForeignKey[u]
      PROVE  after[u][i][col] \in DOMAIN after[ForeignKey[u][col]] \cup {Null}
  <2> DEFINE to == ForeignKey[u][col]
  <2>1. to \in Tables
    BY KeysAreTables
  <2>2. DOMAIN tables[to] \subseteq DOMAIN after[to]
    BY <1>4, <2>1
  <2>3. CASE u = t /\ i = id
    <3>1. after[u][i] = new
      BY <1>3, <1>5, <2>3
    <3>2. new[col] = Null \/ new[col] \in DOMAIN tables[to]
      BY <1>5, <2>3 DEF KeysHold
    <3> QED
      BY <2>2, <3>1, <3>2
  <2>4. CASE ~(u = t /\ i = id)
    <3>1. i \in DOMAIN tables[u] /\ after[u][i] = tables[u][i]
      BY <1>2, <1>3, <1>5, <2>4
    <3>2. tables[u][i][col] \in DOMAIN tables[to] \cup {Null}
      BY <1>5, <3>1 DEF Database, Sound
    <3> QED
      BY <2>2, <3>1, <3>2
  <2> QED
    BY <2>3, <2>4
<1> HIDE DEF after
<1>6. Database(after)
  BY <1>1, <1>5 DEF Database, Sound
<1> QED
  BY <1>6 DEF after

(***************************************************************************)
(* The inductive invariant: both the committed tables and those of the     *)
(* open transaction are sound.                                             *)
(***************************************************************************)
CatalogInv == Database(db) /\ Database(work)

LEMMA CatalogInit == Init => CatalogInv
<1> SUFFICES ASSUME Init PROVE CatalogInv
  OBVIOUS
<1>1. db = Empty /\ work = Empty
  BY DEF Init
<1>2. \A t \in Tables : Empty[t] = <<>>
  BY DEF Empty
<1>3. Empty = [t \in Tables |-> Empty[t]]
  BY DEF Empty
<1>4. Sound(Empty)
  BY <1>2 DEF Sound
<1> QED
  BY <1>1, <1>3, <1>4 DEF CatalogInv, Database

\* A statement that writes nothing, and a command that begins.
LEMMA NothingWritten ==
    ASSUME CatalogInv, UNCHANGED <<db, work>>
    PROVE  CatalogInv'
BY DEF CatalogInv, Database, Sound

LEMMA FlushKeeps ==
    ASSUME CatalogInv, NEW c, NEW t, NEW id, NEW new,
           KeysHold(Visible(c), t, new),
           Flush(c, Put(Visible(c), t, id, new))
    PROVE  CatalogInv'
<1>1. Database(Visible(c))
  BY DEF CatalogInv, Visible
<1>2. Database(Put(Visible(c), t, id, new))
  BY <1>1, PutKeeps
<1>3. work' = Put(Visible(c), t, id, new) /\ db' = db
  BY DEF Flush
<1>4. Database(work)' /\ Database(db)'
  BY <1>2, <1>3 DEF CatalogInv, Database, Sound
<1> QED
  BY <1>4 DEF CatalogInv

LEMMA CommandsWriteNothing ==
    ASSUME NEW c \in Clients, Command(c)
    PROVE  UNCHANGED <<db, work>>
BY DEF Command, ProfileCommand, SessionCommand, RunCommand, HealthCommand, EditCommand,
       Show, Start

LEMMA CatalogStep == CatalogInv /\ [Next]_vars => CatalogInv'
<1> SUFFICES ASSUME CatalogInv, [Next]_vars PROVE CatalogInv'
  OBVIOUS
<1>1. ASSUME NEW c \in Clients, Command(c) PROVE CatalogInv'
  BY <1>1, CommandsWriteNothing, NothingWritten
<1>2. ASSUME NEW c \in Clients, GetRow(c) \/ ReadRow(c) \/ ListRows(c) \/ Rehydrate(c)
      PROVE  CatalogInv'
  <2>1. UNCHANGED <<db, work>>
    BY <1>2 DEF GetRow, ReadRow, ListRows, ReadRows, Rehydrate
  <2> QED
    BY <2>1, NothingWritten
<1>3. ASSUME NEW c \in Clients, InsertRow(c) PROVE CatalogInv'
  <2> DEFINE new == Next1(c)
  <2>1. /\ KeysHold(Visible(c), new.table, new.new)
        /\ Flush(c, Put(Visible(c), new.table, KeyOf(Visible(c), new), new.new))
    BY <1>3 DEF InsertRow
  <2> QED
    BY <2>1, FlushKeeps
<1>4. ASSUME NEW c \in Clients, UpdateRow(c) PROVE CatalogInv'
  <2> DEFINE new == Next1(c)
             after == Changed(row[c], Visible(c)[new.table][new.id], new.new)
  <2>1. /\ KeysHold(Visible(c), new.table, after)
        /\ Flush(c, Put(Visible(c), new.table, new.id, after))
    BY <1>4 DEF UpdateRow
  <2> QED
    BY <2>1, FlushKeeps
<1>5. ASSUME NEW c \in Clients, Commit(c) PROVE CatalogInv'
  <2>1. db' = work /\ work' = work
    BY <1>5 DEF Commit
  <2> QED
    BY <2>1 DEF CatalogInv, Database, Sound
<1>6. ASSUME NEW c \in Clients, Fail(c) \/ Die(c) PROVE CatalogInv'
  <2>1. db' = db /\ work' \in {db, work}
    BY <1>6 DEF Fail, Die, Abandon, RollBack
  <2> QED
    BY <2>1 DEF CatalogInv, Database, Sound
<1>7. CASE UNCHANGED vars
  BY <1>7, NothingWritten DEF vars
<1> QED
  BY <1>1, <1>2, <1>3, <1>4, <1>5, <1>6, <1>7 DEF Next, Statement

(***************************************************************************)
(* No row, committed or about to be, refers to a row that is not there,    *)
(* whatever commands run in whatever order and whichever fail or die.      *)
(***************************************************************************)
THEOREM RowsStaySound == Spec => []RowsReferToRows
<1>1. CatalogInv => RowsReferToRows
  BY DEF CatalogInv, Database, RowsReferToRows
<1> QED
  BY <1>1, CatalogInit, CatalogStep, PTL DEF Spec

-----------------------------------------------------------------------------
(***************************************************************************)
(* The commands.  What a client has left to do, what it loaded and what it *)
(* read are tied to the tables by three invariants, each resting on those  *)
(* before it: the statements, the runs, and the sessions.                  *)
(***************************************************************************)
(***************************************************************************)
(* The statements a command has left: a SELECT of records and the insert   *)
(* of a run only come first, an update right after the load of its row,    *)
(* and with a run's insert come those of all its artifacts.                *)
(***************************************************************************)
Elements(s) == {s[i] : i \in 1..Len(s)}

Reads(x) == x.kind \in {"read", "list"}
InsertsInto(x, t) == x.kind = "insert" /\ x.table = t
Inserts(s, a) == \E x \in Elements(s) : InsertsInto(x, "artifacts") /\ x.id = a

KeyTyped(t, id) ==
    /\ t = "profiles" => id \in Profiles
    /\ t = "sessions" => id \in Sessions
    /\ t \in {"runs", "contexts"} => id \in Runs
    /\ t = "artifacts" => id[1] \in Runs /\ id \in ArtifactsOf(id[1])

WellFormed(x) ==
    /\ x.table \in Tables
    /\ x.kind \in {"get", "read", "list", "insert", "update"}
    /\ x.kind \in {"get", "insert", "update"} => KeyTyped(x.table, x.id)
    /\ x.kind \in {"get", "update"} => x.table \notin {"artifacts", "health"}
    /\ InsertsInto(x, "sessions") => x.new = SessionRow(x.id)
    /\ InsertsInto(x, "artifacts") => x.new.run = x.id[1]

Ordered(s) ==
    \A i \in 2..Len(s) :
        /\ ~Reads(s[i]) /\ ~InsertsInto(s[i], "runs")
        /\ s[i].kind = "update" =>
              s[i-1].kind = "get" /\ s[i-1].table = s[i].table /\ s[i-1].id = s[i].id

Statements(s) ==
    /\ s \in Seq(Elements(s))
    /\ \A x \in Elements(s) : WellFormed(x)
    /\ Ordered(s)

ScriptOK(s) ==
    /\ Statements(s)
    /\ \A x \in Elements(s) :
          InsertsInto(x, "runs") => \A a \in ArtifactsOf(x.id) : Inserts(s, a)

(***************************************************************************)
(* The first invariant: ids are of their tables' kinds, an open            *)
(* transaction only adds rows, and a command that writes is done reading.  *)
(***************************************************************************)
Keyed(tables) ==
    /\ \A t \in Tables : \A id \in DOMAIN tables[t] : KeyTyped(t, id)
    /\ IsFiniteSet(DOMAIN tables.health) /\ DOMAIN tables.health \subseteq Nat

TransactionOK ==
    /\ writer \in Clients \cup {Null}
    /\ writer = Null => work = db
    /\ \A t \in Tables : DOMAIN db[t] \subseteq DOMAIN work[t]

Arrays ==
    /\ op = [c \in Clients |-> op[c]]
    /\ DOMAIN todo = Clients /\ DOMAIN row = Clients
    /\ DOMAIN lookups = Clients /\ DOMAIN got = Clients

Writes(c) == op[c] \in {"archive", "record", "edit"} \/ writer = c

CommandOK(c) ==
    /\ op[c] \in {"none", "create", "read", "archive", "record", "edit"}
    /\ ScriptOK(todo[c])
    /\ Writes(c) => lookups[c] = {} /\ \A x \in Elements(todo[c]) : ~Reads(x)
    /\ todo[c] # <<>> /\ Next1(c).kind = "update" =>
          Next1(c).id \in DOMAIN Visible(c)[Next1(c).table]

ViewsOK(c) ==
    /\ \A v \in got[c] :
          /\ v = [table |-> v.table, id |-> v.id, row |-> v.row, refs |-> v.refs]
          /\ v.table \in Tables /\ KeyTyped(v.table, v.id)
    /\ \A v, w \in got[c] : v.id = w.id => v = w

StatementsInv ==
    /\ CatalogInv
    /\ Keyed(db) /\ Keyed(work)
    /\ TransactionOK
    /\ Arrays
    /\ \A c \in Clients : CommandOK(c) /\ ViewsOK(c)

(***************************************************************************)
(* The second: a committed run has all its artifacts, the open transaction *)
(* will have inserted those of its own, and a record of a run has them all *)
(* or is still to be resolved, from tables that only grow.                 *)
(***************************************************************************)
FiledUnderTheirRuns(tables) ==
    \A a \in DOMAIN tables.artifacts : tables.artifacts[a].run = a[1]

Promised(a) == writer # Null /\ Inserts(todo[writer], a)

RunView(c, v) ==
    /\ v.id \in DOMAIN db.runs
    /\ v.refs \subseteq ArtifactsOf(v.id)
    /\ <<v.id, "artifacts">> \in lookups[c] \/ v.refs = ArtifactsOf(v.id)
    /\ \A look \in lookups[c] : look[2] = "artifacts"

RunsInv ==
    /\ FiledUnderTheirRuns(db) /\ FiledUnderTheirRuns(work)
    /\ \A r \in DOMAIN db.runs : ArtifactsOf(r) \subseteq DOMAIN db.artifacts
    /\ \A r \in DOMAIN work.runs : \A a \in ArtifactsOf(r) :
          a \in DOMAIN work.artifacts \/ Promised(a)
    /\ \A c \in Clients : \A v \in got[c] : v.table = "runs" => RunView(c, v)

(***************************************************************************)
(* The third: a session's two latest snapshots are one run's unless its    *)
(* record was edited; which columns of a session a command writes, and how *)
(* recent the row is that it compares them with; and what the open         *)
(* transaction changed of a session is what its command is about, unless   *)
(* it edits a stale record.                                                *)
(***************************************************************************)
SessionColumns == {"profile", "config", "initial", "final", "archived"}

SessionRowOK(s) ==
    /\ DOMAIN s = SessionColumns
    /\ s.config \in {0, 1}
    /\ PairOfOneRun(s) \/ s.config # 0

SessionUpdate(c, name, x) ==
    \/ name = "archive" /\ x.new = [archived |-> TRUE]
    \/ /\ name = "record"
       /\ \E r \in Runs : x.new = [k \in {"initial", "final"} |-> RefOf(r, k)]
    \/ /\ name = "edit"
       /\ \E view \in got[c] : /\ view.table = "sessions" /\ view.id = x.id
                               /\ x.new = [RecordOf(view) EXCEPT !["config"] = 1]

UpdatesSession(x) == x.kind = "update" /\ x.table = "sessions"

Loaded(c, x) ==
    /\ row[c].config = 1 => Visible(c).sessions[x.id].config = 1
    /\ op[c] = "record" => writer = c /\ row[c] = work.sessions[x.id]

SessionCommandOK(c) ==
    /\ \A x \in Elements(todo[c]) : UpdatesSession(x) => SessionUpdate(c, op[c], x)
    /\ op[c] = "record" /\ todo[c] # <<>> /\ writer # c => Next1(c).kind = "insert"
    /\ todo[c] # <<>> /\ UpdatesSession(Next1(c)) => Loaded(c, Next1(c))

SessionView(c, v) ==
    /\ SessionRowOK(v.row)
    /\ \A k \in {"initial", "final"} :
          v.row[k] # Null => /\ v.row[k] \in DOMAIN db.artifacts
                             /\ <<v.id, k>> \in lookups[c] \/ v.row[k] \in v.refs

Explained(s, col) ==
    writer # Null /\ (col \in Intended(writer) \/ EditsStale(writer, s))

SessionsInv ==
    /\ \A s \in DOMAIN db.sessions : SessionRowOK(db.sessions[s])
    /\ \A s \in DOMAIN work.sessions : SessionRowOK(work.sessions[s])
    /\ \A s \in DOMAIN db.sessions :
          /\ db.sessions[s].config = 1 => work.sessions[s].config = 1
          /\ \A col \in SessionColumns :
                work.sessions[s][col] # db.sessions[s][col] => Explained(s, col)
    /\ \A c \in Clients : SessionCommandOK(c)
    /\ \A c \in Clients : \A v \in got[c] : v.table = "sessions" => SessionView(c, v)


(***************************************************************************)
(* Sequences of statements.                                                *)
(***************************************************************************)
LEMMA TableNames ==
    Tables = {"profiles", "sessions", "runs", "contexts", "artifacts", "health"}
BY DEF Tables, ForeignKey

LEMMA ElementsOne ==
    ASSUME NEW x
    PROVE  Elements(<<x>>) = {x} /\ <<x>> \in Seq({x})
BY DEF Elements

LEMMA ElementsTwo ==
    ASSUME NEW x, NEW y
    PROVE  Elements(<<x, y>>) = {x, y} /\ <<x, y>> \in Seq({x, y})
<1>1. Len(<<x, y>>) = 2 /\ <<x, y>>[1] = x /\ <<x, y>>[2] = y
  OBVIOUS
<1>2. Elements(<<x, y>>) = {x, y}
  BY <1>1 DEF Elements
<1> QED
  BY <1>2

LEMMA ElementsConcat ==
    ASSUME NEW s, NEW t, s \in Seq(Elements(s)), t \in Seq(Elements(t))
    PROVE  /\ s \o t \in Seq(Elements(s \o t))
           /\ Elements(s \o t) = Elements(s) \cup Elements(t)
<1> DEFINE S == Elements(s) \cup Elements(t)
           u == s \o t
<1>1. s \in Seq(S) /\ t \in Seq(S)
  OBVIOUS
<1>2. /\ u \in Seq(S)
      /\ Len(s) \in Nat /\ Len(t) \in Nat /\ Len(u) = Len(s) + Len(t)
      /\ \A i \in 1..Len(s) : u[i] = s[i]
      /\ \A i \in 1..Len(t) : u[Len(s) + i] = t[i]
  BY <1>1
<1>3. Elements(s) \subseteq Elements(u)
  <2> SUFFICES ASSUME NEW i \in 1..Len(s) PROVE s[i] \in Elements(u)
    BY DEF Elements
  <2>1. i \in 1..Len(u) /\ u[i] = s[i]
    BY <1>2
  <2> QED
    BY <2>1 DEF Elements
<1>4. Elements(t) \subseteq Elements(u)
  <2> SUFFICES ASSUME NEW i \in 1..Len(t) PROVE t[i] \in Elements(u)
    BY DEF Elements
  <2>1. Len(s) + i \in 1..Len(u) /\ u[Len(s) + i] = t[i]
    BY <1>2
  <2> QED
    BY <2>1 DEF Elements
<1>5. Elements(u) \subseteq S
  BY <1>2 DEF Elements
<1>6. Elements(u) = S
  BY <1>3, <1>4, <1>5
<1> QED
  BY <1>2, <1>6

LEMMA ElementsTail ==
    ASSUME NEW s, s \in Seq(Elements(s)), s # <<>>
    PROVE  /\ Tail(s) \in Seq(Elements(Tail(s)))
           /\ Len(s) \in Nat /\ Len(s) >= 1 /\ Len(Tail(s)) = Len(s) - 1
           /\ \A i \in 1..Len(Tail(s)) : Tail(s)[i] = s[i+1]
           /\ Head(s) = s[1] /\ Head(s) \in Elements(s)
           /\ \A x \in Elements(s) : x = Head(s) \/ x \in Elements(Tail(s))
           /\ \A x \in Elements(Tail(s)) : x \in Elements(s) /\ \E i \in 2..Len(s) : x = s[i]
<1> DEFINE t == Tail(s)
<1>1. /\ Len(s) \in Nat /\ Len(s) >= 1
      /\ t \in Seq(Elements(s)) /\ Len(t) = Len(s) - 1
      /\ \A i \in 1..Len(t) : t[i] = s[i+1]
      /\ Head(s) = s[1]
  OBVIOUS
<1> HIDE DEF t
<1>2. Head(s) \in Elements(s)
  BY <1>1 DEF Elements
<1>3. ASSUME NEW x \in Elements(s) PROVE x = Head(s) \/ x \in Elements(t)
  <2>1. PICK i \in 1..Len(s) : x = s[i]
    BY <1>3 DEF Elements
  <2>2. CASE i = 1
    BY <1>1, <2>1, <2>2
  <2>3. CASE i # 1
    <3>1. i - 1 \in 1..Len(t) /\ t[i - 1] = s[i]
      BY <1>1, <2>3
    <3> QED
      BY <2>1, <3>1 DEF Elements
  <2> QED
    BY <2>2, <2>3
<1>4. ASSUME NEW x \in Elements(t)
      PROVE  x \in Elements(s) /\ \E i \in 2..Len(s) : x = s[i]
  <2>1. PICK i \in 1..Len(t) : x = t[i]
    BY <1>4 DEF Elements
  <2>2. i + 1 \in 2..Len(s) /\ x = s[i + 1] /\ i + 1 \in 1..Len(s)
    BY <1>1, <2>1
  <2> QED
    BY <2>2 DEF Elements
<1>5. t \in Seq(Elements(t))
  <2>1. \A i \in 1..Len(t) : t[i] \in Elements(t)
    BY DEF Elements
  <2> QED
    BY <1>1, <2>1
<1> QED
  BY <1>1, <1>2, <1>3, <1>4, <1>5 DEF t

(***************************************************************************)
(* What is left of a script once its first statement is done.              *)
(***************************************************************************)
LEMMA TailOfScript ==
    ASSUME NEW s, ScriptOK(s), s # <<>>
    PROVE  /\ ScriptOK(Tail(s))
           /\ Head(s) \in Elements(s) /\ WellFormed(Head(s))
           /\ \A x \in Elements(Tail(s)) :
                 x \in Elements(s) /\ ~Reads(x) /\ ~InsertsInto(x, "runs")
           /\ \A x \in Elements(s) : x = Head(s) \/ x \in Elements(Tail(s))
           /\ Tail(s) # <<>> /\ Head(Tail(s)).kind = "update" =>
                 /\ Head(s).kind = "get"
                 /\ Head(s).table = Head(Tail(s)).table /\ Head(s).id = Head(Tail(s)).id
<1> DEFINE t == Tail(s)
<1>1. s \in Seq(Elements(s)) /\ Ordered(s) /\ \A x \in Elements(s) : WellFormed(x)
  BY DEF ScriptOK, Statements
<1>2. /\ t \in Seq(Elements(t))
      /\ Len(s) \in Nat /\ Len(s) >= 1 /\ Len(t) = Len(s) - 1
      /\ \A i \in 1..Len(t) : t[i] = s[i+1]
      /\ Head(s) = s[1] /\ Head(s) \in Elements(s)
      /\ \A x \in Elements(s) : x = Head(s) \/ x \in Elements(t)
      /\ \A x \in Elements(t) : x \in Elements(s) /\ \E i \in 2..Len(s) : x = s[i]
  BY <1>1, ElementsTail
<1> HIDE DEF t
<1>3. \A x \in Elements(t) : x \in Elements(s) /\ ~Reads(x) /\ ~InsertsInto(x, "runs")
  BY <1>1, <1>2 DEF Ordered
<1>4. Ordered(t)
  <2> SUFFICES ASSUME NEW i \in 2..Len(t)
               PROVE  /\ ~Reads(t[i]) /\ ~InsertsInto(t[i], "runs")
                      /\ t[i].kind = "update" =>
                            /\ t[i-1].kind = "get"
                            /\ t[i-1].table = t[i].table /\ t[i-1].id = t[i].id
    BY DEF Ordered
  <2>1. t[i] = s[i+1] /\ t[i-1] = s[i] /\ i+1 \in 2..Len(s) /\ (i+1)-1 = i
    BY <1>2
  <2> QED
    BY <1>1, <2>1 DEF Ordered
<1>5. ScriptOK(t)
  BY <1>1, <1>2, <1>3, <1>4 DEF ScriptOK, Statements
<1>6. ASSUME t # <<>>, Head(t).kind = "update"
      PROVE  Head(s).kind = "get" /\ Head(s).table = Head(t).table /\ Head(s).id = Head(t).id
  <2>1. Head(t) = t[1] /\ Len(t) >= 1
    BY <1>2, <1>6
  <2>2. Head(t) = s[2] /\ 2 \in 2..Len(s) /\ s[2-1] = Head(s)
    BY <1>2, <2>1
  <2> QED
    BY <1>1, <1>6, <2>2 DEF Ordered
<1> QED
  BY <1>1, <1>2, <1>3, <1>5, <1>6 DEF t

(***************************************************************************)
(* The scripts of the commands.                                            *)
(***************************************************************************)
LEMMA OneStatement ==
    ASSUME NEW x, WellFormed(x), ~InsertsInto(x, "runs")
    PROVE  ScriptOK(<<x>>) /\ Elements(<<x>>) = {x} /\ Head(<<x>>) = x /\ <<x>> # <<>>
<1>1. Elements(<<x>>) = {x} /\ <<x>> \in Seq({x}) /\ Len(<<x>>) = 1
  BY ElementsOne
<1>2. Ordered(<<x>>)
  BY <1>1 DEF Ordered
<1> QED
  BY <1>1, <1>2 DEF ScriptOK, Statements

LEMMA TwoStatements ==
    ASSUME NEW x, NEW y, WellFormed(x), WellFormed(y),
           ~InsertsInto(x, "runs"), ~InsertsInto(y, "runs"), ~Reads(y),
           y.kind = "update" => x.kind = "get" /\ x.table = y.table /\ x.id = y.id
    PROVE  /\ ScriptOK(<<x, y>>) /\ Elements(<<x, y>>) = {x, y}
           /\ Head(<<x, y>>) = x /\ <<x, y>> # <<>>
<1> DEFINE s == <<x, y>>
<1>1. Elements(s) = {x, y} /\ s \in Seq({x, y})
  BY ElementsTwo
<1>2. Len(s) = 2 /\ s[1] = x /\ s[2] = y /\ Head(s) = x /\ s # <<>>
  OBVIOUS
<1> HIDE DEF s
<1>3. Ordered(s)
  <2> SUFFICES ASSUME NEW i \in 2..Len(s)
               PROVE  /\ ~Reads(s[i]) /\ ~InsertsInto(s[i], "runs")
                      /\ s[i].kind = "update" =>
                            /\ s[i-1].kind = "get"
                            /\ s[i-1].table = s[i].table /\ s[i-1].id = s[i].id
    BY DEF Ordered
  <2>1. i = 2 /\ s[i] = y /\ s[i-1] = x
    BY <1>2
  <2> QED
    BY <2>1
<1>4. ScriptOK(s)
  BY <1>1, <1>3 DEF ScriptOK, Statements
<1> QED
  BY <1>1, <1>2, <1>4 DEF s

\* What may come after other statements: nothing has to be first.
Follows(s) ==
    /\ Statements(s)
    /\ s # <<>> =>
          /\ ~Reads(Head(s)) /\ ~InsertsInto(Head(s), "runs")
          /\ Head(s).kind # "update"

LEMMA AppendStatements ==
    ASSUME NEW s, NEW t, Statements(s), s # <<>>, Follows(t)
    PROVE  /\ Statements(s \o t) /\ s \o t # <<>>
           /\ Elements(s \o t) = Elements(s) \cup Elements(t)
           /\ Head(s \o t) = Head(s)
<1> DEFINE u == s \o t
           S == Elements(s) \cup Elements(t)
<1>1. s \in Seq(Elements(s)) /\ t \in Seq(Elements(t))
  BY DEF Statements, Follows
<1>2. u \in Seq(Elements(u)) /\ Elements(u) = S
  BY <1>1, ElementsConcat
<1>3. s \in Seq(S) /\ t \in Seq(S)
  BY <1>1
<1>4. /\ Len(s) \in Nat /\ Len(t) \in Nat /\ Len(u) = Len(s) + Len(t) /\ Len(s) >= 1
      /\ \A i \in 1..Len(s) : u[i] = s[i]
      /\ \A i \in 1..Len(t) : u[Len(s) + i] = t[i]
      /\ Head(u) = s[1] /\ Head(s) = s[1] /\ u # <<>>
      /\ Len(t) >= 1 => t # <<>> /\ Head(t) = t[1]
  BY <1>3
<1> HIDE DEF u
<1>5. Ordered(s) /\ Ordered(t)
  BY DEF Statements, Follows
<1>6. Ordered(u)
  <2> SUFFICES ASSUME NEW i \in 2..Len(u)
               PROVE  /\ ~Reads(u[i]) /\ ~InsertsInto(u[i], "runs")
                      /\ u[i].kind = "update" =>
                            /\ u[i-1].kind = "get"
                            /\ u[i-1].table = u[i].table /\ u[i-1].id = u[i].id
    BY DEF Ordered
  <2>1. CASE i <= Len(s)
    <3>1. i \in 2..Len(s) /\ u[i] = s[i] /\ u[i-1] = s[i-1]
      BY <1>4, <2>1
    <3> QED
      BY <1>5, <3>1 DEF Ordered
  <2>2. CASE i = Len(s) + 1
    <3>1. u[i] = Head(t) /\ t # <<>>
      BY <1>4, <2>2
    <3> QED
      BY <3>1 DEF Follows
  <2>3. CASE i > Len(s) + 1
    <3> DEFINE j == i - Len(s)
    <3>1. j \in 2..Len(t) /\ u[i] = t[j] /\ u[i-1] = t[j-1]
      <4>1. j \in 2..Len(t) /\ i = Len(s) + j /\ i - 1 = Len(s) + (j - 1) /\ j - 1 \in 1..Len(t)
        BY <1>4, <2>3
      <4> HIDE DEF j
      <4> QED
        BY <1>4, <4>1
    <3> HIDE DEF j
    <3> QED
      BY <1>5, <3>1 DEF Ordered
  <2> QED
    BY <1>4, <2>1, <2>2, <2>3
<1>7. Statements(u)
  BY <1>2, <1>6 DEF Statements, Follows
<1> QED
  BY <1>2, <1>4, <1>7 DEF u

LEMMA NoStatement == Follows(<<>>) /\ Elements(<<>>) = {}
<1>1. Elements(<<>>) = {}
  BY DEF Elements
<1>2. Ordered(<<>>)
  BY DEF Ordered
<1> QED
  BY <1>1, <1>2 DEF Follows, Statements

LEMMA EmptyScript == ScriptOK(<<>>)
BY NoStatement DEF Follows, ScriptOK, Statements

\* The recording of a run: each of its parts may follow the one before.
LEMMA RecordRunScript ==
    ASSUME NEW r \in Runs
    PROVE  /\ ScriptOK(RecordRun(r)) /\ RecordRun(r) # <<>>
           /\ Head(RecordRun(r)).kind = "insert"
           /\ \A x \in Elements(RecordRun(r)) :
                 /\ ~Reads(x)
                 /\ UpdatesSession(x) =>
                       x.new = [k \in {"initial", "final"} |-> RefOf(r, k)]
<1> DEFINE run == Insert("runs", r, RunRow(r))
           one(kind, order) == Insert("artifacts", <<r, kind>>, ArtifactRow(r, order))
           A == IF "initial" \in Snapshots[r] THEN CreateArtifact(r, "initial", 0) ELSE <<>>
           D == IF DiagnosticOrder[r] # Null
                THEN CreateArtifact(r, "diagnostic", DiagnosticOrder[r]) ELSE <<>>
           F == IF "final" \in Snapshots[r] THEN CreateArtifact(r, "final", 100) ELSE <<>>
           ctx == Insert("contexts", r, ContextRow(r))
           load == Get("sessions", SessionOf[r])
           set == Update("sessions", SessionOf[r],
                         [k \in {"initial", "final"} |-> RefOf(r, k)])
<1>1. SessionOf[r] \in Sessions /\ Snapshots[r] \subseteq {"initial", "final"}
  BY CatalogAssumption
<1>2. /\ run.kind = "insert" /\ run.table = "runs" /\ run.id = r
      /\ ctx.kind = "insert" /\ ctx.table = "contexts" /\ ctx.id = r
      /\ load.kind = "get" /\ load.table = "sessions" /\ load.id = SessionOf[r]
      /\ set.kind = "update" /\ set.table = "sessions" /\ set.id = SessionOf[r]
      /\ set.new = [k \in {"initial", "final"} |-> RefOf(r, k)]
  BY DEF Insert, Get, Update
<1>3. \A kind, order :
         LET x == one(kind, order) IN
         /\ x.kind = "insert" /\ x.table = "artifacts" /\ x.id = <<r, kind>>
         /\ x.new.run = r
  BY DEF Insert, ArtifactRow
<1>4. CreateArtifact(r, "initial", 0) = <<one("initial", 0)>>
      /\ CreateArtifact(r, "diagnostic", DiagnosticOrder[r])
            = <<one("diagnostic", DiagnosticOrder[r])>>
      /\ CreateArtifact(r, "final", 100) = <<one("final", 100)>>
  BY DEF CreateArtifact
<1>5. SetLatest(r) = <<load, set>>
  BY DEF SetLatest
<1>6. RecordRun(r) = ((((<<run>> \o A) \o D) \o F) \o <<ctx>>) \o <<load, set>>
  BY <1>5 DEF RecordRun
<1> HIDE DEF run, one, ctx, load, set
<1>7. WellFormed(run) /\ WellFormed(ctx) /\ WellFormed(load) /\ WellFormed(set)
  BY <1>1, <1>2, TableNames DEF WellFormed, KeyTyped, InsertsInto
<1>8. ASSUME NEW kind, NEW order, <<r, kind>> \in ArtifactsOf(r)
      PROVE  /\ Follows(<<one(kind, order)>>)
             /\ Elements(<<one(kind, order)>>) = {one(kind, order)}
  <2>1. WellFormed(one(kind, order)) /\ ~InsertsInto(one(kind, order), "runs")
    BY <1>3, <1>8, TableNames DEF WellFormed, KeyTyped, InsertsInto
  <2>2. ScriptOK(<<one(kind, order)>>)
    BY <2>1, OneStatement
  <2> QED
    BY <1>3, <2>1, <2>2, OneStatement DEF Follows, ScriptOK, Reads
<1>9. /\ Follows(A)
      /\ \A x \in Elements(A) : x = one("initial", 0)
      /\ "initial" \in Snapshots[r] => one("initial", 0) \in Elements(A)
  <2>1. CASE "initial" \in Snapshots[r]
    <3>1. <<r, "initial">> \in ArtifactsOf(r)
      BY <2>1 DEF ArtifactsOf
    <3> QED
      BY <1>4, <1>8, <2>1, <3>1
  <2>2. CASE "initial" \notin Snapshots[r]
    BY <2>2, NoStatement
  <2> QED
    BY <2>1, <2>2
<1>10. /\ Follows(F)
       /\ \A x \in Elements(F) : x = one("final", 100)
       /\ "final" \in Snapshots[r] => one("final", 100) \in Elements(F)
  <2>1. CASE "final" \in Snapshots[r]
    <3>1. <<r, "final">> \in ArtifactsOf(r)
      BY <2>1 DEF ArtifactsOf
    <3> QED
      BY <1>4, <1>8, <2>1, <3>1
  <2>2. CASE "final" \notin Snapshots[r]
    BY <2>2, NoStatement
  <2> QED
    BY <2>1, <2>2
<1>11. /\ Follows(D)
       /\ \A x \in Elements(D) : x = one("diagnostic", DiagnosticOrder[r])
       /\ DiagnosticOrder[r] # Null => one("diagnostic", DiagnosticOrder[r]) \in Elements(D)
  <2>1. CASE DiagnosticOrder[r] # Null
    <3>1. <<r, "diagnostic">> \in ArtifactsOf(r)
      BY <2>1 DEF ArtifactsOf
    <3> QED
      BY <1>4, <1>8, <2>1, <3>1
  <2>2. CASE DiagnosticOrder[r] = Null
    BY <2>2, NoStatement
  <2> QED
    BY <2>1, <2>2
<1>12. Statements(<<run>>) /\ Elements(<<run>>) = {run} /\ Head(<<run>>) = run
  <2>1. Elements(<<run>>) = {run} /\ <<run>> \in Seq({run}) /\ Len(<<run>>) = 1
    BY ElementsOne
  <2>2. Ordered(<<run>>)
    BY <2>1 DEF Ordered
  <2> QED
    BY <1>7, <2>1, <2>2 DEF Statements
<1>13. Follows(<<ctx>>) /\ Elements(<<ctx>>) = {ctx}
  BY <1>2, <1>7, OneStatement DEF Follows, ScriptOK, Reads, InsertsInto
<1>14. Follows(<<load, set>>) /\ Elements(<<load, set>>) = {load, set}
  BY <1>2, <1>7, TwoStatements DEF Follows, ScriptOK, Reads, InsertsInto
<1> HIDE DEF A, D, F
<1> DEFINE s1 == <<run>> \o A
           s2 == s1 \o D
           s3 == s2 \o F
           s4 == s3 \o <<ctx>>
           s == s4 \o <<load, set>>
<1>15. Statements(s1) /\ s1 # <<>> /\ Elements(s1) = {run} \cup Elements(A) /\ Head(s1) = run
  BY <1>9, <1>12, AppendStatements
<1> HIDE DEF s1
<1>16. Statements(s2) /\ s2 # <<>> /\ Elements(s2) = Elements(s1) \cup Elements(D) /\ Head(s2) = run
  BY <1>11, <1>15, AppendStatements
<1> HIDE DEF s2
<1>17. Statements(s3) /\ s3 # <<>> /\ Elements(s3) = Elements(s2) \cup Elements(F) /\ Head(s3) = run
  BY <1>10, <1>16, AppendStatements
<1> HIDE DEF s3
<1>18. Statements(s4) /\ s4 # <<>> /\ Elements(s4) = Elements(s3) \cup {ctx} /\ Head(s4) = run
  BY <1>13, <1>17, AppendStatements
<1> HIDE DEF s4
<1>19. Statements(s) /\ s # <<>> /\ Elements(s) = Elements(s4) \cup {load, set} /\ Head(s) = run
  BY <1>14, <1>18, AppendStatements
<1>20. RecordRun(r) = s
  BY <1>6 DEF s1, s2, s3, s4
<1> HIDE DEF s
<1>21. Elements(s) = {run, ctx, load, set} \cup Elements(A) \cup Elements(D) \cup Elements(F)
  BY <1>15, <1>16, <1>17, <1>18, <1>19
<1>22. \A x \in Elements(s) :
          \/ x \in {run, ctx, load, set}
          \/ x = one("initial", 0) \/ x = one("diagnostic", DiagnosticOrder[r])
          \/ x = one("final", 100)
  BY <1>9, <1>10, <1>11, <1>21
<1>23. ASSUME NEW x \in Elements(s), InsertsInto(x, "runs"), NEW a \in ArtifactsOf(x.id)
       PROVE  Inserts(s, a)
  <2>1. x = run /\ x.id = r
    BY <1>2, <1>3, <1>22, <1>23 DEF InsertsInto
  <2>2. \/ a = <<r, "initial">> /\ "initial" \in Snapshots[r]
        \/ a = <<r, "final">> /\ "final" \in Snapshots[r]
        \/ a = <<r, "diagnostic">> /\ DiagnosticOrder[r] # Null
    BY <1>1, <1>23, <2>1 DEF ArtifactsOf
  <2>3. \/ a = <<r, "initial">> /\ one("initial", 0) \in Elements(s)
        \/ a = <<r, "final">> /\ one("final", 100) \in Elements(s)
        \/ a = <<r, "diagnostic">> /\ one("diagnostic", DiagnosticOrder[r]) \in Elements(s)
    BY <1>9, <1>10, <1>11, <1>21, <2>2
  <2> QED
    BY <1>3, <2>3 DEF Inserts, InsertsInto
<1>24. ScriptOK(s)
  BY <1>19, <1>23 DEF ScriptOK
<1>25. ASSUME NEW x \in Elements(s)
       PROVE  /\ ~Reads(x)
              /\ UpdatesSession(x) => x.new = [k \in {"initial", "final"} |-> RefOf(r, k)]
  BY <1>2, <1>3, <1>22 DEF Reads, UpdatesSession
<1> QED
  BY <1>2, <1>19, <1>20, <1>24, <1>25

(***************************************************************************)
(* How a command begins.                                                   *)
(***************************************************************************)
Begins(c, name, s) ==
    /\ name \in {"create", "read", "archive", "record", "edit"}
    /\ ScriptOK(s) /\ s # <<>> /\ Head(s).kind # "update"
    /\ name \in {"archive", "record", "edit"} => \A x \in Elements(s) : ~Reads(x)
    /\ name = "record" => Head(s).kind = "insert"
    /\ \A x \in Elements(s) : UpdatesSession(x) => SessionUpdate(c, name, x)

LEMMA ShowBegins ==
    ASSUME NEW c, NEW t \in Tables, NEW id, NEW x \in {Read(t, id), List(t, id)}
    PROVE  Begins(c, "read", <<x>>)
<1>1. x.kind \in {"read", "list"} /\ x.table = t
  BY DEF Read, List
<1>2. WellFormed(x) /\ ~InsertsInto(x, "runs")
  BY <1>1 DEF WellFormed, InsertsInto
<1> QED
  BY <1>1, <1>2, OneStatement DEF Begins, UpdatesSession

LEMMA InsertBegins ==
    ASSUME NEW c, NEW t \in {"profiles", "health"}, NEW id, NEW new, KeyTyped(t, id)
    PROVE  Begins(c, "create", <<Insert(t, id, new)>>)
<1> DEFINE x == Insert(t, id, new)
<1>1. x.kind = "insert" /\ x.table = t /\ x.id = id /\ x.new = new
  BY DEF Insert
<1> HIDE DEF x
<1>2. WellFormed(x) /\ ~InsertsInto(x, "runs")
  BY <1>1, TableNames DEF WellFormed, InsertsInto
<1>3. Begins(c, "create", <<x>>)
  BY <1>1, <1>2, OneStatement DEF Begins, UpdatesSession
<1> QED
  BY <1>3 DEF x

LEMMA ArchiveBegins ==
    ASSUME NEW c, NEW t \in {"profiles", "sessions"}, NEW id, KeyTyped(t, id)
    PROVE  Begins(c, "archive", Archive(t, id))
<1> DEFINE x == Get(t, id)
           y == Update(t, id, [archived |-> TRUE])
<1>1. /\ x.kind = "get" /\ x.table = t /\ x.id = id
      /\ y.kind = "update" /\ y.table = t /\ y.id = id /\ y.new = [archived |-> TRUE]
  BY DEF Get, Update
<1>2. Archive(t, id) = <<x, y>>
  BY DEF Archive
<1> HIDE DEF x, y
<1>3. WellFormed(x) /\ WellFormed(y)
  BY <1>1, TableNames DEF WellFormed, InsertsInto
<1>4. /\ ScriptOK(<<x, y>>) /\ Elements(<<x, y>>) = {x, y}
      /\ Head(<<x, y>>) = x /\ <<x, y>> # <<>>
  BY <1>1, <1>3, TwoStatements DEF InsertsInto, Reads
<1> QED
  BY <1>1, <1>2, <1>4 DEF Begins, SessionUpdate, Reads, UpdatesSession

LEMMA CreateSessionBegins ==
    ASSUME NEW c, NEW s \in Sessions
    PROVE  Begins(c, "create", CreateSession(s))
<1> DEFINE x == Read("profiles", ProfileOf[s])
           y == Insert("sessions", s, SessionRow(s))
<1>1. /\ x.kind = "read" /\ x.table = "profiles"
      /\ y.kind = "insert" /\ y.table = "sessions" /\ y.id = s /\ y.new = SessionRow(s)
  BY DEF Read, Insert
<1>2. CreateSession(s) = <<x, y>>
  BY DEF CreateSession
<1> HIDE DEF x, y
<1>3. WellFormed(x) /\ WellFormed(y)
  BY <1>1, TableNames DEF WellFormed, InsertsInto, KeyTyped
<1>4. /\ ScriptOK(<<x, y>>) /\ Elements(<<x, y>>) = {x, y}
      /\ Head(<<x, y>>) = x /\ <<x, y>> # <<>>
  BY <1>1, <1>3, TwoStatements DEF InsertsInto, Reads
<1> QED
  BY <1>1, <1>2, <1>4 DEF Begins, UpdatesSession

LEMMA RecordBegins ==
    ASSUME NEW c, NEW r \in Runs
    PROVE  Begins(c, "record", RecordRun(r))
BY RecordRunScript DEF Begins, SessionUpdate

LEMMA EditBegins ==
    ASSUME NEW c, NEW view \in got[c], view.table \in Editable, KeyTyped(view.table, view.id)
    PROVE  Begins(c, "edit", Rewrite(view))
<1> DEFINE t == view.table
           id == view.id
           x == Get(t, id)
           y == Update(t, id, [RecordOf(view) EXCEPT ![Edited[t]] = 1])
<1>1. /\ x.kind = "get" /\ x.table = t /\ x.id = id
      /\ y.kind = "update" /\ y.table = t /\ y.id = id
      /\ y.new = [RecordOf(view) EXCEPT ![Edited[t]] = 1]
  BY DEF Get, Update
<1>2. Rewrite(view) = <<x, y>>
  BY DEF Rewrite
<1> HIDE DEF x, y
<1>3. t \in {"sessions", "runs", "contexts"}
  BY CatalogAssumption
<1>4. WellFormed(x) /\ WellFormed(y)
  BY <1>1, <1>3, TableNames DEF WellFormed, InsertsInto
<1>5. /\ ScriptOK(<<x, y>>) /\ Elements(<<x, y>>) = {x, y}
      /\ Head(<<x, y>>) = x /\ <<x, y>> # <<>>
  BY <1>1, <1>4, TwoStatements DEF InsertsInto, Reads
<1>6. UpdatesSession(y) => SessionUpdate(c, "edit", y)
  <2> SUFFICES ASSUME UpdatesSession(y) PROVE SessionUpdate(c, "edit", y)
    OBVIOUS
  <2>1. t = "sessions" /\ Edited[t] = "config"
    BY <1>1 DEF UpdatesSession, Edited
  <2> QED
    BY <1>1, <2>1 DEF SessionUpdate
<1>7. ~UpdatesSession(x) /\ ~Reads(x) /\ ~Reads(y) /\ Head(<<x, y>>).kind # "update"
  BY <1>1, <1>5 DEF UpdatesSession, Reads
<1>8. Begins(c, "edit", <<x, y>>)
  BY <1>5, <1>6, <1>7 DEF Begins
<1> QED
  BY <1>2, <1>8

Opens(c) == \E name, s : Start(c, name, s) /\ Begins(c, name, s)

LEMMA CommandBegins ==
    ASSUME StatementsInv, NEW c \in Clients, Command(c)
    PROVE  writer # c /\ Opens(c)
<1> writer # c
  BY DEF Command
<1> SUFFICES Opens(c)
  OBVIOUS
<1>1. ASSUME NEW name, NEW s, Start(c, name, s), Begins(c, name, s) PROVE Opens(c)
  BY <1>1 DEF Opens
<1>2. ASSUME NEW t \in Tables, NEW id, Show(c, Read(t, id)) \/ Show(c, List(t, id))
      PROVE  Opens(c)
  BY <1>1, <1>2, ShowBegins DEF Show
<1>3. CASE ProfileCommand(c)
  <2>1. PICK p \in Profiles :
           \/ Start(c, "create", <<Insert("profiles", p, ProfileRow)>>)
           \/ Start(c, "archive", Archive("profiles", p))
           \/ Show(c, List("profiles", Null))
    BY <1>3 DEF ProfileCommand
  <2>2. KeyTyped("profiles", p) /\ "profiles" \in Tables
    BY TableNames DEF KeyTyped
  <2>3. CASE Start(c, "create", <<Insert("profiles", p, ProfileRow)>>)
    BY <1>1, <2>2, <2>3, InsertBegins
  <2>4. CASE Start(c, "archive", Archive("profiles", p))
    BY <1>1, <2>2, <2>4, ArchiveBegins
  <2> QED
    BY <1>2, <2>1, <2>2, <2>3, <2>4
<1>4. CASE SessionCommand(c)
  <2>1. "sessions" \in Tables
    BY TableNames
  <2>2. ASSUME NEW s \in Sessions, Start(c, "create", CreateSession(s)) PROVE Opens(c)
    BY <1>1, <2>2, CreateSessionBegins
  <2>3. ASSUME NEW s \in Sessions, Start(c, "archive", Archive("sessions", s)) PROVE Opens(c)
    <3>1. KeyTyped("sessions", s)
      BY DEF KeyTyped
    <3> QED
      BY <1>1, <2>3, <3>1, ArchiveBegins
  <2> QED
    BY <1>2, <1>4, <2>1, <2>2, <2>3 DEF SessionCommand
<1>5. CASE RunCommand(c)
  <2>1. "runs" \in Tables /\ "contexts" \in Tables
    BY TableNames
  <2>2. ASSUME NEW r \in Runs, Start(c, "record", RecordRun(r)) PROVE Opens(c)
    BY <1>1, <2>2, RecordBegins
  <2> QED
    BY <1>2, <1>5, <2>1, <2>2 DEF RunCommand
<1>6. CASE HealthCommand(c)
  <2>1. PICK s \in Sessions, r \in Runs :
           Start(c, "create", <<Insert("health", Null, HealthRow(s, Null, r))>>)
    BY <1>6 DEF HealthCommand
  <2>2. KeyTyped("health", Null)
    BY DEF KeyTyped
  <2> QED
    BY <1>1, <2>1, <2>2, InsertBegins
<1>7. CASE EditCommand(c)
  <2>1. PICK view \in got[c] : view.table \in Editable /\ Start(c, "edit", Rewrite(view))
    BY <1>7 DEF EditCommand
  <2>2. KeyTyped(view.table, view.id)
    BY DEF StatementsInv, ViewsOK
  <2> QED
    BY <1>1, <2>1, <2>2, EditBegins
<1> QED
  BY <1>3, <1>4, <1>5, <1>6, <1>7 DEF Command

-----------------------------------------------------------------------------
(***************************************************************************)
(* What a step of one client changes.                                      *)
(***************************************************************************)
Others(c) ==
    \A d \in Clients \ {c} :
        /\ op'[d] = op[d] /\ todo'[d] = todo[d] /\ row'[d] = row[d]
        /\ lookups'[d] = lookups[d] /\ got'[d] = got[d]

LEMMA StartEffect ==
    ASSUME Arrays, NEW c \in Clients, NEW name, NEW s, Start(c, name, s)
    PROVE  /\ Arrays' /\ Others(c)
           /\ Idle(c) /\ UNCHANGED <<db, work, writer>>
           /\ op'[c] = name /\ todo'[c] = s
           /\ lookups'[c] = lookups[c] /\ row'[c] = row[c]
           /\ got'[c] = IF name = "edit" THEN got[c] ELSE {}
BY DEF Start, Arrays, Others

LEMMA GetEffect ==
    ASSUME Arrays, NEW c \in Clients, GetRow(c)
    PROVE  /\ Arrays' /\ Others(c)
           /\ todo[c] # <<>> /\ lookups[c] = {} /\ Next1(c).kind = "get"
           /\ Next1(c).id \in DOMAIN Visible(c)[Next1(c).table]
           /\ UNCHANGED <<db, work, writer>>
           /\ row'[c] = Visible(c)[Next1(c).table][Next1(c).id]
           /\ op'[c] = op[c] /\ todo'[c] = Tail(todo[c])
           /\ lookups'[c] = lookups[c] /\ got'[c] = got[c]
BY DEF GetRow, Ready, Advance, Arrays, Others

\* What ReadRow and ListRows have in common.
ReadEffect(c, ids) ==
    LET t == Next1(c).table IN
    /\ todo[c] # <<>> /\ lookups[c] = {} /\ Next1(c).kind \in {"read", "list"}
    /\ UNCHANGED <<db, work, writer>>
    /\ op'[c] = op[c] /\ todo'[c] = Tail(todo[c]) /\ row'[c] = row[c]
    /\ ids \subseteq DOMAIN Visible(c)[t]
    /\ got'[c] = {[table |-> t, id |-> id, row |-> Visible(c)[t][id], refs |-> {}] : id \in ids}
    /\ lookups'[c] = UNION {RefsOf(t, id, Visible(c)[t][id]) : id \in ids}

LEMMA ReadRowsEffect ==
    ASSUME Arrays, NEW c \in Clients, NEW ids, ReadRows(c, ids), todo[c] # <<>>,
           lookups[c] = {}, Next1(c).kind \in {"read", "list"},
           ids \subseteq DOMAIN Visible(c)[Next1(c).table]
    PROVE  Arrays' /\ Others(c) /\ ReadEffect(c, ids)
BY DEF ReadRows, Advance, Arrays, Others, ReadEffect

LEMMA SelectEffect ==
    ASSUME Arrays, NEW c \in Clients, ReadRow(c) \/ ListRows(c)
    PROVE  Arrays' /\ Others(c) /\ \E ids : ReadEffect(c, ids)
<1>1. CASE ReadRow(c)
  <2>1. /\ ReadRows(c, {Next1(c).id}) /\ todo[c] # <<>> /\ lookups[c] = {}
        /\ Next1(c).kind \in {"read", "list"}
        /\ {Next1(c).id} \subseteq DOMAIN Visible(c)[Next1(c).table]
    BY <1>1 DEF ReadRow, Ready
  <2>2. Arrays' /\ Others(c) /\ ReadEffect(c, {Next1(c).id})
    BY <2>1, ReadRowsEffect
  <2> QED
    BY <2>2
<1>2. CASE ListRows(c)
  <2> DEFINE ids == Listed(Visible(c), Next1(c).table, Next1(c).id)
  <2>1. ids \subseteq DOMAIN Visible(c)[Next1(c).table]
    BY DEF Listed
  <2>2. /\ ReadRows(c, ids) /\ todo[c] # <<>> /\ lookups[c] = {}
        /\ Next1(c).kind \in {"read", "list"}
    BY <1>2 DEF ListRows, Ready
  <2> HIDE DEF ids
  <2>3. Arrays' /\ Others(c) /\ ReadEffect(c, ids)
    BY <2>1, <2>2, ReadRowsEffect
  <2> QED
    BY <2>3
<1> QED
  BY <1>1, <1>2

RehydrateEffect(c, look, view) ==
    /\ look \in lookups[c] /\ view \in got[c] /\ view.id = look[1]
    /\ UNCHANGED <<db, work, writer>>
    /\ op'[c] = op[c] /\ todo'[c] = todo[c] /\ row'[c] = row[c]
    /\ lookups'[c] = lookups[c] \ {look}
    /\ got'[c] = (got[c] \ {view}) \cup
                 {[view EXCEPT !.refs = @ \cup Found(Visible(c), view, look[2])]}

LEMMA ResolveEffect ==
    ASSUME Arrays, NEW c \in Clients, Rehydrate(c)
    PROVE  Arrays' /\ Others(c) /\ \E look, view : RehydrateEffect(c, look, view)
<1>1. PICK look \in lookups[c], view \in got[c] :
        /\ view.id = look[1]
        /\ got' = [got EXCEPT ![c] =
                      (@ \ {view}) \cup
                      {[view EXCEPT !.refs = @ \cup Found(Visible(c), view, look[2])]}]
        /\ lookups' = [lookups EXCEPT ![c] = @ \ {look}]
        /\ UNCHANGED <<db, work, writer, op, todo, row>>
  BY DEF Rehydrate
<1>2. Arrays' /\ Others(c) /\ RehydrateEffect(c, look, view)
  BY <1>1 DEF Arrays, Others, RehydrateEffect
<1> QED
  BY <1>2

LEMMA MayWriteSeesWork ==
    ASSUME TransactionOK, NEW c, MayWrite(c)
    PROVE  Visible(c) = work
BY DEF TransactionOK, MayWrite, Visible

LEMMA InsertEffect ==
    ASSUME Arrays, TransactionOK, NEW c \in Clients, InsertRow(c)
    PROVE  /\ Arrays' /\ Others(c)
           /\ todo[c] # <<>> /\ lookups[c] = {} /\ Next1(c).kind = "insert"
           /\ writer \in {Null, c} /\ writer' = c /\ db' = db
           /\ Next1(c).id \notin DOMAIN work[Next1(c).table]
           /\ work' = Put(work, Next1(c).table, KeyOf(work, Next1(c)), Next1(c).new)
           /\ op'[c] = op[c] /\ todo'[c] = Tail(todo[c]) /\ row'[c] = row[c]
           /\ lookups'[c] = lookups[c] /\ got'[c] = got[c]
<1>1. MayWrite(c) /\ Visible(c) = work
  BY MayWriteSeesWork DEF InsertRow
<1>2. /\ Arrays' /\ Others(c)
      /\ todo[c] # <<>> /\ lookups[c] = {} /\ Next1(c).kind = "insert"
      /\ op'[c] = op[c] /\ todo'[c] = Tail(todo[c]) /\ row'[c] = row[c]
      /\ lookups'[c] = lookups[c] /\ got'[c] = got[c]
  BY DEF InsertRow, Ready, Flush, Advance, Arrays, Others
<1>3. /\ Next1(c).id \notin DOMAIN Visible(c)[Next1(c).table]
      /\ Flush(c, Put(Visible(c), Next1(c).table, KeyOf(Visible(c), Next1(c)), Next1(c).new))
  BY DEF InsertRow
<1> QED
  BY <1>1, <1>2, <1>3 DEF Flush, MayWrite

LEMMA UpdateEffect ==
    ASSUME Arrays, TransactionOK, NEW c \in Clients, UpdateRow(c)
    PROVE  LET x == Next1(c)
               after == Changed(row[c], work[x.table][x.id], x.new) IN
           /\ Arrays' /\ Others(c)
           /\ todo[c] # <<>> /\ lookups[c] = {} /\ x.kind = "update"
           /\ writer \in {Null, c} /\ writer' = c /\ db' = db
           /\ work' = Put(work, x.table, x.id, after)
           /\ op'[c] = op[c] /\ todo'[c] = Tail(todo[c])
           /\ lookups'[c] = lookups[c] /\ got'[c] = got[c]
<1>1. MayWrite(c) /\ Visible(c) = work
  BY MayWriteSeesWork DEF UpdateRow
<1>2. /\ Arrays' /\ Others(c)
      /\ todo[c] # <<>> /\ lookups[c] = {} /\ Next1(c).kind = "update"
      /\ op'[c] = op[c] /\ todo'[c] = Tail(todo[c])
      /\ lookups'[c] = lookups[c] /\ got'[c] = got[c]
  BY DEF UpdateRow, Ready, Flush, Advance, Arrays, Others
<1> DEFINE x == Next1(c)
<1>3. Flush(c, Put(Visible(c), x.table, x.id,
                   Changed(row[c], Visible(c)[x.table][x.id], x.new)))
  BY DEF UpdateRow
<1> HIDE DEF x
<1>4. writer' = c /\ db' = db
      /\ work' = Put(work, x.table, x.id, Changed(row[c], work[x.table][x.id], x.new))
  BY <1>1, <1>3 DEF Flush
<1> QED
  BY <1>1, <1>2, <1>4 DEF MayWrite, x

LEMMA CommitEffect ==
    ASSUME Arrays, NEW c \in Clients, Commit(c)
    PROVE  /\ Arrays' /\ Others(c)
           /\ writer = c /\ todo[c] = <<>> /\ db' = work /\ work' = work /\ writer' = Null
           /\ op'[c] = op[c] /\ todo'[c] = todo[c] /\ row'[c] = row[c]
           /\ lookups'[c] = lookups[c] /\ got'[c] = got[c]
BY DEF Commit, Arrays, Others

LEMMA AbandonEffect ==
    ASSUME Arrays, NEW c \in Clients, Fail(c) \/ Die(c)
    PROVE  /\ Arrays' /\ Others(c) /\ db' = db
           /\ work' = IF writer = c THEN db ELSE work
           /\ writer' = IF writer = c THEN Null ELSE writer
           /\ op'[c] = op[c] /\ todo'[c] = <<>> /\ lookups'[c] = {} /\ got'[c] = {}
BY DEF Fail, Die, Abandon, RollBack, Arrays, Others

\* A row that is written: the others stay, and none is taken away.
LEMMA PutRows ==
    ASSUME NEW tables, Database(tables), NEW t \in Tables, NEW id, NEW new, NEW after,
           after = Put(tables, t, id, new)
    PROVE  /\ \A u \in Tables : u # t => after[u] = tables[u]
           /\ DOMAIN after[t] = DOMAIN tables[t] \cup {id} /\ after[t][id] = new
           /\ \A i \in DOMAIN tables[t] : i # id => after[t][i] = tables[t][i]
BY DEF Database, Put

-----------------------------------------------------------------------------
(***************************************************************************)
(* The first invariant is inductive.  A step of a client is one of these.  *)
(***************************************************************************)
Acts(c) == Command(c) \/ Statement(c) \/ Die(c)

\* The committed tables and those of another client's transaction only grow.
Grows(c) ==
    /\ \A t \in Tables : DOMAIN db[t] \subseteq DOMAIN db'[t]
    /\ \A d \in Clients \ {c} :
          /\ writer' = d <=> writer = d
          /\ writer = d => work' = work
          /\ \A t \in Tables : DOMAIN Visible(d)[t] \subseteq DOMAIN Visible(d)'[t]

LEMMA QuietGrows ==
    ASSUME NEW c, UNCHANGED <<db, work, writer>>
    PROVE  Grows(c)
BY DEF Grows, Visible

LEMMA PutGrows ==
    ASSUME CatalogInv, TransactionOK, NEW c \in Clients, writer \in {Null, c},
           NEW t \in Tables, NEW id, NEW new,
           work' = Put(work, t, id, new), writer' = c, db' = db
    PROVE  Grows(c) /\ TransactionOK'
<1>1. Database(work)
  BY DEF CatalogInv
<1>2. \A u \in Tables : DOMAIN work[u] \subseteq DOMAIN work'[u]
  BY <1>1, PutRows
<1>3. TransactionOK'
  BY <1>2, CatalogAssumption DEF TransactionOK
<1>4. \A d \in Clients \ {c} : writer # d /\ writer' # d
  BY CatalogAssumption
<1>5. Grows(c)
  BY <1>4 DEF Grows, Visible
<1> QED
  BY <1>3, <1>5

LEMMA HealthKeys ==
    ASSUME NEW keys, IsFiniteSet(keys), keys \subseteq Nat
    PROVE  LET new == keys \cup {Cardinality(keys) + 1} IN
           IsFiniteSet(new) /\ new \subseteq Nat
<1>1. Cardinality(keys) \in Nat
  BY FS_CardinalityType
<1>2. IsFiniteSet(keys \cup {Cardinality(keys) + 1})
  BY FS_AddElement
<1>3. keys \cup {Cardinality(keys) + 1} \subseteq Nat
  <2>1. PICK n \in Nat : n = Cardinality(keys)
    BY <1>1
  <2>2. n + 1 \in Nat /\ Cardinality(keys) + 1 = n + 1
    BY <2>1
  <2> QED
    BY <2>2
<1> QED
  BY <1>2, <1>3

LEMMA InsertKeyed ==
    ASSUME CatalogInv, Keyed(work), NEW x, WellFormed(x), x.kind = "insert",
           work' = Put(work, x.table, KeyOf(work, x), x.new)
    PROVE  Keyed(work)'
<1> DEFINE key == KeyOf(work, x)
<1>1. Database(work) /\ x.table \in Tables /\ KeyTyped(x.table, x.id)
  BY DEF CatalogInv, WellFormed
<1>2. /\ \A u \in Tables : u # x.table => work'[u] = work[u]
      /\ DOMAIN work'[x.table] = DOMAIN work[x.table] \cup {key}
  BY <1>1, PutRows
<1>3. KeyTyped(x.table, key)
  BY <1>1 DEF KeyOf, KeyTyped
<1>4. \A t \in Tables : \A id \in DOMAIN work'[t] : KeyTyped(t, id)
  BY <1>2, <1>3 DEF Keyed
<1>5. x.table = "health" => key = Cardinality(DOMAIN work.health) + 1
  BY DEF KeyOf
<1> HIDE DEF key
<1>6. IsFiniteSet(DOMAIN work.health) /\ DOMAIN work.health \subseteq Nat
  BY DEF Keyed
<1>7. IsFiniteSet(DOMAIN work'.health) /\ DOMAIN work'.health \subseteq Nat
  <2>1. CASE x.table = "health"
    <3>1. DOMAIN work'.health = DOMAIN work.health \cup {Cardinality(DOMAIN work.health) + 1}
      BY <1>2, <1>5, <2>1
    <3> DEFINE keys == DOMAIN work.health
    <3>2. IsFiniteSet(keys) /\ keys \subseteq Nat
      BY <1>6
    <3> HIDE DEF keys
    <3>3. LET new == keys \cup {Cardinality(keys) + 1} IN
          IsFiniteSet(new) /\ new \subseteq Nat
      BY <3>2, HealthKeys
    <3> QED
      BY <3>1, <3>3 DEF keys
  <2>2. CASE x.table # "health"
    <3>1. work'.health = work.health
      BY <1>2, <2>2, TableNames
    <3> QED
      BY <1>6, <3>1
  <2> QED
    BY <2>1, <2>2
<1> QED
  BY <1>4, <1>7 DEF Keyed

LEMMA UpdateKeyed ==
    ASSUME CatalogInv, Keyed(work), NEW t \in Tables, NEW id \in DOMAIN work[t], NEW new,
           work' = Put(work, t, id, new)
    PROVE  Keyed(work)' /\ \A u \in Tables : DOMAIN work'[u] = DOMAIN work[u]
<1>1. /\ \A u \in Tables : u # t => work'[u] = work[u]
      /\ DOMAIN work'[t] = DOMAIN work[t] \cup {id}
  BY PutRows DEF CatalogInv
<1>2. \A u \in Tables : DOMAIN work'[u] = DOMAIN work[u]
  BY <1>1
<1>3. DOMAIN work'.health = DOMAIN work.health
  BY <1>2, TableNames
<1>4. IsFiniteSet(DOMAIN work'.health) /\ DOMAIN work'.health \subseteq Nat
  BY <1>3 DEF Keyed
<1>5. \A u \in Tables : \A i \in DOMAIN work'[u] : KeyTyped(u, i)
  BY <1>2 DEF Keyed
<1> QED
  BY <1>2, <1>4, <1>5 DEF Keyed

\* The other clients: their statements wait, and their rows are still there.
LEMMA OthersKeep ==
    ASSUME NEW c \in Clients, NEW d \in Clients \ {c}, Others(c), Grows(c),
           CommandOK(d), ViewsOK(d)
    PROVE  CommandOK(d)' /\ ViewsOK(d)'
<1>1. op'[d] = op[d] /\ todo'[d] = todo[d] /\ lookups'[d] = lookups[d] /\ got'[d] = got[d]
  BY DEF Others
<1>2. ViewsOK(d)'
  BY <1>1 DEF ViewsOK, KeyTyped
<1>3. Writes(d)' <=> Writes(d)
  BY <1>1 DEF Writes, Grows
<1>4. Next1(d)' = Next1(d)
  BY <1>1 DEF Next1
<1>5. ScriptOK(todo[d])' <=> ScriptOK(todo[d])
  BY <1>1
<1>6. todo[d] # <<>> /\ Next1(d).kind = "update" =>
         Next1(d).table \in Tables /\ Next1(d).id \in DOMAIN Visible(d)[Next1(d).table]
  BY TailOfScript DEF CommandOK, Next1, WellFormed
<1>7. \A t \in Tables : DOMAIN Visible(d)[t] \subseteq DOMAIN Visible(d)'[t]
  BY DEF Grows
<1> QED
  BY <1>1, <1>2, <1>3, <1>4, <1>5, <1>6, <1>7 DEF CommandOK

StatementsKept(c) ==
    /\ Keyed(db)' /\ Keyed(work)' /\ TransactionOK' /\ Arrays'
    /\ Others(c) /\ Grows(c)
    /\ CommandOK(c)' /\ ViewsOK(c)'

LEMMA QuietTables ==
    ASSUME StatementsInv, UNCHANGED <<db, work, writer>>
    PROVE  Keyed(db)' /\ Keyed(work)' /\ TransactionOK'
BY DEF StatementsInv, Keyed, TransactionOK

LEMMA CommandKeepsStatements ==
    ASSUME StatementsInv, NEW c \in Clients, Command(c)
    PROVE  StatementsKept(c)
<1>1. PICK name, s : Start(c, name, s) /\ Begins(c, name, s)
  BY CommandBegins DEF Opens
<1>2. writer # c
  BY CommandBegins
<1>3. /\ Arrays' /\ Others(c)
      /\ Idle(c) /\ UNCHANGED <<db, work, writer>>
      /\ op'[c] = name /\ todo'[c] = s /\ lookups'[c] = lookups[c]
      /\ got'[c] = IF name = "edit" THEN got[c] ELSE {}
  BY <1>1, StartEffect DEF StatementsInv
<1>4. Keyed(db)' /\ Keyed(work)' /\ TransactionOK' /\ Grows(c)
  BY <1>3, QuietTables, QuietGrows
<1>5. ViewsOK(c)'
  BY <1>3 DEF StatementsInv, ViewsOK
<1>6. CommandOK(c)'
  <2>1. Writes(c)' => name \in {"archive", "record", "edit"}
    BY <1>2, <1>3 DEF Writes
  <2>2. Next1(c)' = Head(s)
    BY <1>3 DEF Next1
  <2> QED
    BY <1>1, <1>3, <2>1, <2>2 DEF CommandOK, Begins, Idle
<1> QED
  BY <1>3, <1>4, <1>5, <1>6 DEF StatementsKept

LEMMA GetKeepsStatements ==
    ASSUME StatementsInv, NEW c \in Clients, GetRow(c)
    PROVE  StatementsKept(c)
<1>1. /\ Arrays' /\ Others(c)
      /\ todo[c] # <<>> /\ lookups[c] = {} /\ Next1(c).kind = "get"
      /\ Next1(c).id \in DOMAIN Visible(c)[Next1(c).table]
      /\ UNCHANGED <<db, work, writer>>
      /\ op'[c] = op[c] /\ todo'[c] = Tail(todo[c])
      /\ lookups'[c] = lookups[c] /\ got'[c] = got[c]
  BY GetEffect DEF StatementsInv
<1>2. CommandOK(c) /\ ViewsOK(c)
  BY DEF StatementsInv
<1>3. Keyed(db)' /\ Keyed(work)' /\ TransactionOK' /\ Grows(c)
  BY <1>1, QuietTables, QuietGrows
<1>4. ViewsOK(c)'
  BY <1>1, <1>2 DEF ViewsOK
<1>5. /\ ScriptOK(Tail(todo[c]))
      /\ \A x \in Elements(Tail(todo[c])) : ~Reads(x)
      /\ Tail(todo[c]) # <<>> /\ Head(Tail(todo[c])).kind = "update" =>
            /\ Next1(c).table = Head(Tail(todo[c])).table
            /\ Next1(c).id = Head(Tail(todo[c])).id
  BY <1>1, <1>2, TailOfScript DEF CommandOK, Next1
<1>6. Next1(c)' = Head(Tail(todo[c])) /\ Visible(c)' = Visible(c)
  BY <1>1 DEF Next1, Visible
<1>7. CommandOK(c)'
  BY <1>1, <1>2, <1>5, <1>6 DEF CommandOK
<1> QED
  BY <1>1, <1>3, <1>4, <1>7 DEF StatementsKept

LEMMA SelectKeepsStatements ==
    ASSUME StatementsInv, NEW c \in Clients, ReadRow(c) \/ ListRows(c)
    PROVE  StatementsKept(c) /\ writer # c
<1>1. PICK ids : Arrays' /\ Others(c) /\ ReadEffect(c, ids)
  BY SelectEffect DEF StatementsInv
<1> DEFINE x == Next1(c)
           t == x.table
<1>2. CommandOK(c) /\ ViewsOK(c)
  BY DEF StatementsInv
<1>3. /\ todo[c] # <<>> /\ lookups[c] = {} /\ x.kind \in {"read", "list"}
      /\ UNCHANGED <<db, work, writer>>
      /\ op'[c] = op[c] /\ todo'[c] = Tail(todo[c])
      /\ ids \subseteq DOMAIN Visible(c)[t]
      /\ got'[c] = {[table |-> t, id |-> id, row |-> Visible(c)[t][id], refs |-> {}] : id \in ids}
  BY <1>1 DEF ReadEffect
<1>4. /\ ScriptOK(Tail(todo[c])) /\ WellFormed(x) /\ x \in Elements(todo[c])
      /\ Tail(todo[c]) # <<>> /\ Head(Tail(todo[c])).kind = "update" => x.kind = "get"
  BY <1>2, <1>3, TailOfScript DEF CommandOK, Next1
<1> HIDE DEF x
<1>5. ~Writes(c)
  BY <1>2, <1>3, <1>4 DEF CommandOK, Reads
<1>6. ~Writes(c)' /\ writer # c
  BY <1>3, <1>5 DEF Writes
<1>7. Keyed(db)' /\ Keyed(work)' /\ TransactionOK' /\ Grows(c)
  BY <1>3, QuietTables, QuietGrows
<1>8. Next1(c)' = Head(Tail(todo[c]))
  BY <1>3 DEF Next1
<1>9. CommandOK(c)'
  BY <1>2, <1>3, <1>4, <1>6, <1>8 DEF CommandOK
<1>10. t \in Tables /\ \A id \in ids : KeyTyped(t, id)
  <2>1. t \in Tables /\ Visible(c) = db
    BY <1>4, <1>6 DEF WellFormed, Visible
  <2> QED
    BY <1>3, <2>1 DEF StatementsInv, Keyed
<1>11. ViewsOK(c)'
  <2>1. ASSUME NEW v \in got'[c]
        PROVE  /\ v = [table |-> v.table, id |-> v.id, row |-> v.row, refs |-> v.refs]
               /\ v.table \in Tables /\ KeyTyped(v.table, v.id)
               /\ v = [table |-> t, id |-> v.id, row |-> Visible(c)[t][v.id], refs |-> {}]
    <3>1. PICK id \in ids :
             v = [table |-> t, id |-> id, row |-> Visible(c)[t][id], refs |-> {}]
      BY <1>3, <2>1
    <3>2. v.table = t /\ v.id = id /\ v.row = Visible(c)[t][id] /\ v.refs = {}
      BY <3>1
    <3> QED
      BY <1>10, <3>1, <3>2
  <2>2. \A v, w \in got'[c] : v.id = w.id => v = w
    BY <2>1
  <2> QED
    BY <2>1, <2>2 DEF ViewsOK
<1> QED
  BY <1>1, <1>6, <1>7, <1>9, <1>11 DEF StatementsKept

\* A record with more of its references found.
LEMMA ViewResolved ==
    ASSUME NEW v, NEW more,
           v = [table |-> v.table, id |-> v.id, row |-> v.row, refs |-> v.refs]
    PROVE  LET w == [v EXCEPT !.refs = @ \cup more] IN
           /\ w.table = v.table /\ w.id = v.id /\ w.row = v.row /\ w.refs = v.refs \cup more
           /\ w = [table |-> w.table, id |-> w.id, row |-> w.row, refs |-> w.refs]
OBVIOUS

LEMMA ResolveKeepsStatements ==
    ASSUME StatementsInv, NEW c \in Clients, Rehydrate(c)
    PROVE  StatementsKept(c) /\ writer # c
<1>1. PICK look, view : Arrays' /\ Others(c) /\ RehydrateEffect(c, look, view)
  BY ResolveEffect DEF StatementsInv
<1>2. CommandOK(c) /\ ViewsOK(c)
  BY DEF StatementsInv
<1> DEFINE new == [view EXCEPT !.refs = @ \cup Found(Visible(c), view, look[2])]
<1>3. /\ look \in lookups[c] /\ view \in got[c]
      /\ UNCHANGED <<db, work, writer>>
      /\ op'[c] = op[c] /\ todo'[c] = todo[c] /\ lookups'[c] = lookups[c] \ {look}
      /\ got'[c] = (got[c] \ {view}) \cup {new}
  BY <1>1 DEF RehydrateEffect
<1>4. /\ new.table = view.table /\ new.id = view.id
      /\ new = [table |-> new.table, id |-> new.id, row |-> new.row, refs |-> new.refs]
  BY <1>2, <1>3, ViewResolved DEF ViewsOK
<1> HIDE DEF new
<1>5. ~Writes(c)
  BY <1>2, <1>3 DEF CommandOK
<1>6. ~Writes(c)' /\ writer # c
  BY <1>3, <1>5 DEF Writes
<1>7. Keyed(db)' /\ Keyed(work)' /\ TransactionOK' /\ Grows(c)
  BY <1>3, QuietTables, QuietGrows
<1>8. Next1(c)' = Next1(c) /\ Visible(c)' = Visible(c)
  BY <1>3 DEF Next1, Visible
<1>9. CommandOK(c)'
  BY <1>2, <1>3, <1>6, <1>8 DEF CommandOK
<1>10. ViewsOK(c)'
  <2>1. \A v \in got'[c] : v = new \/ (v \in got[c] /\ v # view)
    BY <1>3
  <2>2. \A v \in got[c] : v # view => v.id # view.id
    BY <1>2, <1>3 DEF ViewsOK
  <2>3. \A v, w \in got'[c] : v.id = w.id => v = w
    BY <1>2, <1>4, <2>1, <2>2 DEF ViewsOK
  <2>4. \A v \in got'[c] :
           /\ v = [table |-> v.table, id |-> v.id, row |-> v.row, refs |-> v.refs]
           /\ v.table \in Tables /\ KeyTyped(v.table, v.id)
    BY <1>2, <1>3, <1>4, <2>1 DEF ViewsOK
  <2> QED
    BY <2>3, <2>4 DEF ViewsOK
<1> QED
  BY <1>1, <1>6, <1>7, <1>9, <1>10 DEF StatementsKept

LEMMA InsertKeepsStatements ==
    ASSUME StatementsInv, NEW c \in Clients, InsertRow(c)
    PROVE  StatementsKept(c)
<1> DEFINE x == Next1(c)
<1>1. /\ Arrays' /\ Others(c)
      /\ todo[c] # <<>> /\ lookups[c] = {} /\ x.kind = "insert"
      /\ writer \in {Null, c} /\ writer' = c /\ db' = db
      /\ work' = Put(work, x.table, KeyOf(work, x), x.new)
      /\ op'[c] = op[c] /\ todo'[c] = Tail(todo[c])
      /\ lookups'[c] = lookups[c] /\ got'[c] = got[c]
  BY InsertEffect DEF StatementsInv
<1>2. CatalogInv /\ TransactionOK /\ Keyed(db) /\ Keyed(work) /\ CommandOK(c) /\ ViewsOK(c)
  BY DEF StatementsInv
<1>3. /\ ScriptOK(Tail(todo[c])) /\ WellFormed(x)
      /\ \A y \in Elements(Tail(todo[c])) : ~Reads(y)
      /\ Tail(todo[c]) # <<>> /\ Head(Tail(todo[c])).kind = "update" => x.kind = "get"
  BY <1>1, <1>2, TailOfScript DEF CommandOK, Next1
<1>4. Next1(c)' = Head(Tail(todo[c]))
  BY <1>1 DEF Next1
<1> HIDE DEF x
<1>5. x.table \in Tables
  BY <1>3 DEF WellFormed
<1>6. Grows(c) /\ TransactionOK'
  BY <1>1, <1>2, <1>5, PutGrows
<1>7. Keyed(work)'
  BY <1>1, <1>2, <1>3, InsertKeyed
<1>8. Keyed(db)'
  BY <1>1, <1>2 DEF Keyed
<1>9. CommandOK(c)'
  BY <1>1, <1>2, <1>3, <1>4 DEF CommandOK
<1>10. ViewsOK(c)'
  BY <1>1, <1>2 DEF ViewsOK
<1> QED
  BY <1>1, <1>6, <1>7, <1>8, <1>9, <1>10 DEF StatementsKept

LEMMA UpdateKeepsStatements ==
    ASSUME StatementsInv, NEW c \in Clients, UpdateRow(c)
    PROVE  /\ StatementsKept(c) /\ \A u \in Tables : DOMAIN work'[u] = DOMAIN work[u]
           /\ Next1(c).id \in DOMAIN work[Next1(c).table]
<1> DEFINE x == Next1(c)
           after == Changed(row[c], work[x.table][x.id], x.new)
<1>1. /\ Arrays' /\ Others(c)
      /\ todo[c] # <<>> /\ lookups[c] = {} /\ x.kind = "update"
      /\ writer \in {Null, c} /\ writer' = c /\ db' = db
      /\ work' = Put(work, x.table, x.id, after)
      /\ op'[c] = op[c] /\ todo'[c] = Tail(todo[c])
      /\ lookups'[c] = lookups[c] /\ got'[c] = got[c]
  BY UpdateEffect DEF StatementsInv
<1> HIDE DEF after
<1>2. CatalogInv /\ TransactionOK /\ Keyed(db) /\ Keyed(work) /\ CommandOK(c) /\ ViewsOK(c)
  BY DEF StatementsInv
<1>3. /\ ScriptOK(Tail(todo[c])) /\ WellFormed(x)
      /\ \A y \in Elements(Tail(todo[c])) : ~Reads(y)
      /\ Tail(todo[c]) # <<>> /\ Head(Tail(todo[c])).kind = "update" => x.kind = "get"
  BY <1>1, <1>2, TailOfScript DEF CommandOK, Next1
<1>4. Next1(c)' = Head(Tail(todo[c]))
  BY <1>1 DEF Next1
<1>5. x.table \in Tables /\ x.id \in DOMAIN work[x.table]
  <2>1. Visible(c) = work
    BY <1>1, <1>2 DEF Visible, TransactionOK
  <2> QED
    BY <1>1, <1>2, <1>3, <2>1 DEF CommandOK, WellFormed
<1> HIDE DEF x
<1>6. Grows(c) /\ TransactionOK'
  BY <1>1, <1>2, <1>5, PutGrows
<1>7. Keyed(work)' /\ \A u \in Tables : DOMAIN work'[u] = DOMAIN work[u]
  BY <1>1, <1>2, <1>5, UpdateKeyed
<1>8. Keyed(db)'
  BY <1>1, <1>2 DEF Keyed
<1>9. CommandOK(c)'
  BY <1>1, <1>2, <1>3, <1>4 DEF CommandOK
<1>10. ViewsOK(c)'
  BY <1>1, <1>2 DEF ViewsOK
<1>11. StatementsKept(c)
  BY <1>1, <1>6, <1>7, <1>8, <1>9, <1>10 DEF StatementsKept
<1> QED
  BY <1>5, <1>7, <1>11 DEF x

LEMMA CommitKeepsStatements ==
    ASSUME StatementsInv, NEW c \in Clients, Commit(c)
    PROVE  StatementsKept(c)
<1>1. /\ Arrays' /\ Others(c)
      /\ writer = c /\ todo[c] = <<>> /\ db' = work /\ work' = work /\ writer' = Null
      /\ op'[c] = op[c] /\ todo'[c] = todo[c]
      /\ lookups'[c] = lookups[c] /\ got'[c] = got[c]
  BY CommitEffect DEF StatementsInv
<1>2. TransactionOK /\ Keyed(work) /\ CommandOK(c) /\ ViewsOK(c)
  BY DEF StatementsInv
<1>3. Keyed(db)' /\ Keyed(work)' /\ TransactionOK'
  BY <1>1, <1>2 DEF Keyed, TransactionOK
<1>4. Grows(c)
  <2>1. \A d \in Clients \ {c} : writer # d /\ writer' # d
    BY <1>1, CatalogAssumption
  <2> QED
    BY <1>1, <1>2, <2>1 DEF Grows, TransactionOK, Visible
<1>5. CommandOK(c)'
  <2>1. Writes(c)' => Writes(c)
    BY <1>1 DEF Writes
  <2> QED
    BY <1>1, <1>2, <2>1 DEF CommandOK
<1>6. ViewsOK(c)'
  BY <1>1, <1>2 DEF ViewsOK
<1> QED
  BY <1>1, <1>3, <1>4, <1>5, <1>6 DEF StatementsKept

LEMMA AbandonKeepsStatements ==
    ASSUME StatementsInv, NEW c \in Clients, Fail(c) \/ Die(c)
    PROVE  StatementsKept(c)
<1>1. /\ Arrays' /\ Others(c) /\ db' = db
      /\ work' = IF writer = c THEN db ELSE work
      /\ writer' = IF writer = c THEN Null ELSE writer
      /\ op'[c] = op[c] /\ todo'[c] = <<>> /\ lookups'[c] = {} /\ got'[c] = {}
  BY AbandonEffect DEF StatementsInv
<1>2. TransactionOK /\ Keyed(work) /\ Keyed(db) /\ CommandOK(c)
  BY DEF StatementsInv
<1>3. Keyed(db)' /\ Keyed(work)' /\ TransactionOK'
  BY <1>1, <1>2 DEF Keyed, TransactionOK
<1>4. Grows(c)
  <2>1. \A d \in Clients \ {c} : writer' = d <=> writer = d
    BY <1>1, CatalogAssumption
  <2> QED
    BY <1>1, <2>1 DEF Grows, Visible
<1>5. CommandOK(c)'
  BY <1>1, <1>2, EmptyScript, NoStatement DEF CommandOK
<1>6. ViewsOK(c)'
  BY <1>1 DEF ViewsOK
<1> QED
  BY <1>1, <1>3, <1>4, <1>5, <1>6 DEF StatementsKept

LEMMA ActsKeepStatements ==
    ASSUME StatementsInv, NEW c \in Clients, Acts(c)
    PROVE  StatementsKept(c)
BY CommandKeepsStatements, GetKeepsStatements, SelectKeepsStatements,
   ResolveKeepsStatements, InsertKeepsStatements, UpdateKeepsStatements,
   CommitKeepsStatements, AbandonKeepsStatements DEF Acts, Statement

LEMMA StatementsInit == Init => StatementsInv
<1> SUFFICES ASSUME Init PROVE StatementsInv
  OBVIOUS
<1>1. db = Empty /\ work = Empty /\ writer = Null
  BY DEF Init
<1>2. \A t \in Tables : DOMAIN Empty[t] = {}
  BY DEF Empty
<1>3. DOMAIN Empty.health = {}
  BY <1>2, TableNames
<1>4. Keyed(Empty)
  BY <1>2, <1>3, FS_EmptySet DEF Keyed
<1>5. TransactionOK /\ Arrays
  BY <1>1 DEF Init, TransactionOK, Arrays
<1>6. \A c \in Clients : CommandOK(c) /\ ViewsOK(c)
  BY EmptyScript, NoStatement DEF Init, CommandOK, ViewsOK
<1> QED
  BY <1>1, <1>4, <1>5, <1>6, CatalogInit DEF StatementsInv

LEMMA StatementsStep == StatementsInv /\ [Next]_vars => StatementsInv'
<1> SUFFICES ASSUME StatementsInv, [Next]_vars PROVE StatementsInv'
  OBVIOUS
<1>1. CatalogInv'
  BY CatalogStep DEF StatementsInv
<1>2. ASSUME NEW c \in Clients, Acts(c) PROVE StatementsInv'
  <2>1. StatementsKept(c)
    BY <1>2, ActsKeepStatements
  <2>2. \A d \in Clients \ {c} : CommandOK(d)' /\ ViewsOK(d)'
    BY <2>1, OthersKeep DEF StatementsInv, StatementsKept
  <2> QED
    BY <1>1, <2>1, <2>2 DEF StatementsInv, StatementsKept
<1>3. CASE UNCHANGED vars
  <2>1. Keyed(db)' /\ Keyed(work)' /\ TransactionOK' /\ Arrays'
    BY <1>3, QuietTables DEF vars, StatementsInv, Arrays
  <2>2. ASSUME NEW c \in Clients PROVE CommandOK(c)' /\ ViewsOK(c)'
    BY <1>3 DEF vars, StatementsInv, CommandOK, ViewsOK, Writes, Next1, Visible
  <2> QED
    BY <1>1, <2>1, <2>2 DEF StatementsInv
<1> QED
  BY <1>2, <1>3 DEF Next, Acts

(***************************************************************************)
(* The tables hold rows by id and an open transaction has an owner,        *)
(* whatever commands run and wherever they fail.                           *)
(***************************************************************************)
THEOREM TypeCorrect == Spec => []TypeOK
<1>1. StatementsInv => TypeOK
  <2> SUFFICES ASSUME StatementsInv PROVE TypeOK
    OBVIOUS
  <2>1. writer \in Clients \cup {Null}
    BY DEF StatementsInv, TransactionOK
  <2>2. DOMAIN db = Tables /\ DOMAIN work = Tables
    BY DEF StatementsInv, CatalogInv, Database
  <2>3. /\ DOMAIN db.profiles \subseteq Profiles
        /\ DOMAIN db.sessions \subseteq Sessions
        /\ DOMAIN db.runs \subseteq Runs /\ DOMAIN db.contexts \subseteq Runs
        /\ DOMAIN db.health \subseteq Nat
    BY TableNames DEF StatementsInv, Keyed, KeyTyped
  <2>4. DOMAIN db.artifacts \subseteq Runs \X {"initial", "diagnostic", "final"}
    <3> SUFFICES ASSUME NEW a \in DOMAIN db.artifacts
                 PROVE  a \in Runs \X {"initial", "diagnostic", "final"}
      OBVIOUS
    <3>1. a[1] \in Runs /\ a \in ArtifactsOf(a[1])
      BY TableNames DEF StatementsInv, Keyed, KeyTyped
    <3> QED
      BY <3>1, CatalogAssumption DEF ArtifactsOf
  <2>5. op \in [Clients -> {"none", "create", "read", "archive", "record", "edit"}]
    <3>1. op = [c \in Clients |-> op[c]]
      BY DEF StatementsInv, Arrays
    <3>2. \A c \in Clients : op[c] \in {"none", "create", "read", "archive", "record", "edit"}
      BY DEF StatementsInv, CommandOK
    <3> QED
      BY <3>1, <3>2
  <2>6. \A c \in Clients : \A view \in got[c] : view.table \in Tables
    BY DEF StatementsInv, ViewsOK
  <2> QED
    BY <2>1, <2>2, <2>3, <2>4, <2>5, <2>6 DEF TypeOK
<1> QED
  BY <1>1, StatementsInit, StatementsStep, PTL DEF Spec

-----------------------------------------------------------------------------
(***************************************************************************)
(* The second invariant is inductive, given the first.                     *)
(***************************************************************************)
LEMMA ArtifactKeys ==
    ASSUME NEW r, NEW a \in ArtifactsOf(r)
    PROVE  a[1] = r
BY DEF ArtifactsOf

\* Nothing is promised by a transaction that is not open or has no statement left.
LEMMA NoPromise ==
    ASSUME NEW a, Promised(a)
    PROVE  writer # Null /\ todo[writer] # <<>>
BY NoStatement DEF Promised, Inserts

Promises ==
    \A r \in DOMAIN work.runs : \A a \in ArtifactsOf(r) :
        a \in DOMAIN work.artifacts \/ Promised(a)

\* Another client's transaction keeps its promises while this one acts.
LEMMA OthersPromise ==
    ASSUME NEW c \in Clients, Others(c), Grows(c), Promises,
           writer \in Clients \ {c}
    PROVE  Promises'
<1>1. writer' = writer /\ work' = work /\ todo'[writer] = todo[writer]
  BY DEF Grows, Others
<1>2. ASSUME NEW a, Promised(a) PROVE Promised(a)'
  BY <1>1, <1>2 DEF Promised
<1> QED
  BY <1>1, <1>2 DEF Promises

LEMMA OthersSeeRuns ==
    ASSUME NEW c \in Clients, Others(c), Grows(c), NEW d \in Clients \ {c},
           NEW v \in got'[d], v.table = "runs",
           \A w \in got[d] : w.table = "runs" => RunView(d, w)
    PROVE  RunView(d, v)'
<1>1. got'[d] = got[d] /\ lookups'[d] = lookups[d] /\ DOMAIN db.runs \subseteq DOMAIN db'.runs
  BY TableNames DEF Others, Grows
<1>2. RunView(d, v)
  BY <1>1
<1> QED
  BY <1>1, <1>2 DEF RunView

\* The records stay as they were.
LEMMA SameRunViews ==
    ASSUME NEW c \in Clients, Grows(c), NEW v \in got[c], lookups'[c] = lookups[c],
           RunView(c, v)
    PROVE  RunView(c, v)'
<1>1. DOMAIN db.runs \subseteq DOMAIN db'.runs
  BY TableNames DEF Grows
<1> QED
  BY <1>1 DEF RunView

RunsKept(c) ==
    /\ FiledUnderTheirRuns(work)'
    /\ writer \in {Null, c} => Promises'
    /\ \A v \in got'[c] : v.table = "runs" => RunView(c, v)'

\* Without an open transaction nothing is promised: a committed run is whole.
LEMMA CommittedPromises ==
    ASSUME RunsInv, NEW r \in DOMAIN db.runs, NEW a \in ArtifactsOf(r)
    PROVE  a \in DOMAIN db.artifacts
BY DEF RunsInv

LEMMA CommandKeepsRuns ==
    ASSUME StatementsInv, RunsInv, NEW c \in Clients, Command(c), StatementsKept(c)
    PROVE  RunsKept(c)
<1>1. PICK name, s : Start(c, name, s) /\ Begins(c, name, s)
  BY CommandBegins DEF Opens
<1>2. writer # c
  BY CommandBegins
<1>3. /\ UNCHANGED <<db, work, writer>> /\ lookups'[c] = lookups[c]
      /\ got'[c] = IF name = "edit" THEN got[c] ELSE {}
  BY <1>1, StartEffect DEF StatementsInv
<1>4. FiledUnderTheirRuns(work)'
  BY <1>3 DEF RunsInv, FiledUnderTheirRuns
<1>5. writer = Null => Promises'
  BY <1>3, CommittedPromises DEF Promises, StatementsInv, TransactionOK
<1>6. \A v \in got'[c] : v.table = "runs" => RunView(c, v)'
  BY <1>3, SameRunViews DEF RunsInv, StatementsKept
<1> QED
  BY <1>2, <1>4, <1>5, <1>6 DEF RunsKept

LEMMA GetKeepsRuns ==
    ASSUME StatementsInv, RunsInv, NEW c \in Clients, GetRow(c), StatementsKept(c)
    PROVE  RunsKept(c)
<1>1. /\ todo[c] # <<>> /\ Next1(c).kind = "get"
      /\ UNCHANGED <<db, work, writer>>
      /\ todo'[c] = Tail(todo[c]) /\ lookups'[c] = lookups[c] /\ got'[c] = got[c]
  BY GetEffect DEF StatementsInv
<1>2. FiledUnderTheirRuns(work)'
  BY <1>1 DEF RunsInv, FiledUnderTheirRuns
<1>3. \A x \in Elements(todo[c]) : x = Next1(c) \/ x \in Elements(Tail(todo[c]))
  BY <1>1, TailOfScript DEF StatementsInv, CommandOK, Next1
<1>4. writer = Null => Promises'
  BY <1>1, CommittedPromises DEF Promises, StatementsInv, TransactionOK
<1>5. writer = c => Promises'
  <2> SUFFICES ASSUME writer = c, NEW a, Promised(a) PROVE Promised(a)'
    BY <1>1 DEF RunsInv, Promises
  <2> QED
    BY <1>1, <1>3 DEF Promised, Inserts, InsertsInto
<1>6. \A v \in got'[c] : v.table = "runs" => RunView(c, v)'
  BY <1>1, SameRunViews DEF RunsInv, StatementsKept
<1> QED
  BY <1>2, <1>4, <1>5, <1>6 DEF RunsKept

LEMMA SelectKeepsRuns ==
    ASSUME StatementsInv, RunsInv, NEW c \in Clients, ReadRow(c) \/ ListRows(c)
    PROVE  RunsKept(c)
<1>1. PICK ids : ReadEffect(c, ids)
  BY SelectEffect DEF StatementsInv
<1>2. writer # c
  BY SelectKeepsStatements
<1> DEFINE t == Next1(c).table
<1>3. /\ UNCHANGED <<db, work, writer>>
      /\ ids \subseteq DOMAIN db[t]
      /\ got'[c] = {[table |-> t, id |-> id, row |-> db[t][id], refs |-> {}] : id \in ids}
      /\ lookups'[c] = UNION {RefsOf(t, id, db[t][id]) : id \in ids}
  BY <1>1, <1>2 DEF ReadEffect, Visible
<1> HIDE DEF t
<1>4. FiledUnderTheirRuns(work)'
  BY <1>3 DEF RunsInv, FiledUnderTheirRuns
<1>5. writer = Null => Promises'
  BY <1>3, CommittedPromises DEF Promises, StatementsInv, TransactionOK
<1>6. ASSUME NEW v \in got'[c], v.table = "runs" PROVE RunView(c, v)'
  <2>1. PICK id \in ids : v = [table |-> t, id |-> id, row |-> db[t][id], refs |-> {}]
    BY <1>3, <1>6
  <2>2. t = "runs" /\ v.id = id /\ v.refs = {}
    BY <1>6, <2>1
  <2>3. \A i \in ids : RefsOf(t, i, db[t][i]) = {<<i, "artifacts">>}
    BY <2>2 DEF RefsOf
  <2>4. lookups'[c] = {<<i, "artifacts">> : i \in ids}
    BY <1>3, <2>3
  <2>5. <<v.id, "artifacts">> \in lookups'[c] /\ \A look \in lookups'[c] : look[2] = "artifacts"
    BY <2>2, <2>4
  <2>6. v.id \in DOMAIN db'.runs
    BY <1>3, <2>2
  <2> QED
    BY <2>2, <2>5, <2>6 DEF RunView
<1> QED
  BY <1>2, <1>4, <1>5, <1>6 DEF RunsKept

\* The SELECT of a run's artifacts finds all of them: none or all are committed.
LEMMA AllArtifactsFound ==
    ASSUME StatementsInv, RunsInv, NEW view, view.id \in DOMAIN db.runs
    PROVE  Found(db, view, "artifacts") = ArtifactsOf(view.id)
<1>1. Found(db, view, "artifacts")
        = {a \in DOMAIN db.artifacts : db.artifacts[a].run = view.id}
  BY DEF Found
<1>2. \A a \in DOMAIN db.artifacts :
         /\ db.artifacts[a].run = a[1]
         /\ a \in ArtifactsOf(a[1])
  BY TableNames DEF RunsInv, FiledUnderTheirRuns, StatementsInv, Keyed, KeyTyped
<1>3. ASSUME NEW a \in ArtifactsOf(view.id)
      PROVE  a \in DOMAIN db.artifacts /\ a[1] = view.id
  BY CommittedPromises, ArtifactKeys
<1> QED
  BY <1>1, <1>2, <1>3

LEMMA ResolveKeepsRuns ==
    ASSUME StatementsInv, RunsInv, NEW c \in Clients, Rehydrate(c), StatementsKept(c)
    PROVE  RunsKept(c)
<1>1. PICK look, view : RehydrateEffect(c, look, view)
  BY ResolveEffect DEF StatementsInv
<1>2. writer # c
  BY ResolveKeepsStatements
<1> DEFINE new == [view EXCEPT !.refs = @ \cup Found(db, view, look[2])]
<1>3. /\ look \in lookups[c] /\ view \in got[c] /\ view.id = look[1]
      /\ UNCHANGED <<db, work, writer>>
      /\ lookups'[c] = lookups[c] \ {look}
      /\ got'[c] = (got[c] \ {view}) \cup {new}
  BY <1>1, <1>2 DEF RehydrateEffect, Visible
<1>4. ViewsOK(c)
  BY DEF StatementsInv
<1>5. /\ new.table = view.table /\ new.id = view.id
      /\ new.refs = view.refs \cup Found(db, view, look[2])
  BY <1>3, <1>4, ViewResolved DEF ViewsOK
<1> HIDE DEF new
<1>6. FiledUnderTheirRuns(work)'
  BY <1>3 DEF RunsInv, FiledUnderTheirRuns
<1>7. writer = Null => Promises'
  BY <1>3, CommittedPromises DEF Promises, StatementsInv, TransactionOK
<1>8. ASSUME NEW v \in got'[c], v.table = "runs" PROVE RunView(c, v)'
  <2>1. CASE v = new
    <3>1. RunView(c, view)
      BY <1>3, <1>5, <1>8, <2>1 DEF RunsInv
    <3>2. look[2] = "artifacts" /\ view.id \in DOMAIN db.runs
      BY <1>3, <3>1 DEF RunView
    <3>3. Found(db, view, look[2]) = ArtifactsOf(view.id)
      BY <3>2, AllArtifactsFound
    <3>4. v.id = view.id /\ v.refs = ArtifactsOf(v.id)
      BY <1>5, <2>1, <3>1, <3>3 DEF RunView
    <3>5. \A l \in lookups'[c] : l[2] = "artifacts"
      BY <1>3, <3>1 DEF RunView
    <3> QED
      BY <1>3, <3>2, <3>4, <3>5 DEF RunView
  <2>2. CASE v # new
    <3>1. v \in got[c] /\ v # view
      BY <1>3, <1>8, <2>2
    <3>2. RunView(c, v) /\ v.id # view.id
      BY <1>3, <1>4, <1>8, <3>1 DEF RunsInv, ViewsOK
    <3>3. <<v.id, "artifacts">> # look
      BY <1>3, <3>2
    <3> QED
      BY <1>3, <3>2, <3>3 DEF RunView
  <2> QED
    BY <2>1, <2>2
<1> QED
  BY <1>2, <1>6, <1>7, <1>8 DEF RunsKept

LEMMA InsertKeepsRuns ==
    ASSUME StatementsInv, RunsInv, NEW c \in Clients, InsertRow(c), StatementsKept(c)
    PROVE  RunsKept(c)
<1> DEFINE x == Next1(c)
           rest == Tail(todo[c])
<1>1. /\ todo[c] # <<>> /\ x.kind = "insert"
      /\ writer \in {Null, c} /\ writer' = c /\ db' = db
      /\ work' = Put(work, x.table, KeyOf(work, x), x.new)
      /\ todo'[c] = rest /\ lookups'[c] = lookups[c] /\ got'[c] = got[c]
  BY InsertEffect DEF StatementsInv
<1>2. ScriptOK(todo[c]) /\ Database(work) /\ TransactionOK
  BY DEF StatementsInv, CommandOK, CatalogInv
<1>3. /\ WellFormed(x) /\ x \in Elements(todo[c])
      /\ \A y \in Elements(todo[c]) : y = x \/ y \in Elements(rest)
  BY <1>1, <1>2, TailOfScript DEF Next1
<1> HIDE DEF x, rest
<1>4. x.table \in Tables
  BY <1>3 DEF WellFormed
<1>5. x.table # "health" => KeyOf(work, x) = x.id
  BY DEF KeyOf
<1>6. /\ \A u \in Tables : u # x.table => work'[u] = work[u]
      /\ x.table # "health" =>
            /\ DOMAIN work'[x.table] = DOMAIN work[x.table] \cup {x.id}
            /\ work'[x.table][x.id] = x.new
            /\ \A i \in DOMAIN work[x.table] :
                  i # x.id => work'[x.table][i] = work[x.table][i]
  BY <1>1, <1>2, <1>4, <1>5, PutRows
<1>7. FiledUnderTheirRuns(work)'
  <2> SUFFICES ASSUME NEW a \in DOMAIN work'.artifacts
               PROVE  work'.artifacts[a].run = a[1]
    BY DEF FiledUnderTheirRuns
  <2>1. CASE x.table # "artifacts"
    <3>1. work'.artifacts = work.artifacts
      BY <1>6, <2>1, TableNames
    <3> QED
      BY <3>1 DEF RunsInv, FiledUnderTheirRuns
  <2>2. CASE x.table = "artifacts" /\ a = x.id
    BY <1>1, <1>3, <1>6, <2>2 DEF WellFormed, InsertsInto
  <2>3. CASE x.table = "artifacts" /\ a # x.id
    <3>1. a \in DOMAIN work.artifacts /\ work'.artifacts[a] = work.artifacts[a]
      BY <1>6, <2>3
    <3> QED
      BY <3>1 DEF RunsInv, FiledUnderTheirRuns
  <2> QED
    BY <2>1, <2>2, <2>3
<1>8. DOMAIN work.artifacts \subseteq DOMAIN work'.artifacts
  BY <1>6, TableNames
<1>9. ASSUME NEW a, Inserts(todo[c], a)
      PROVE  a \in DOMAIN work'.artifacts \/ Promised(a)'
  <2>1. PICK y \in Elements(todo[c]) : InsertsInto(y, "artifacts") /\ y.id = a
    BY <1>9 DEF Inserts
  <2>2. CASE y = x
    BY <1>6, <2>1, <2>2 DEF InsertsInto
  <2>3. CASE y # x
    <3>1. Inserts(rest, a)
      BY <1>3, <2>1, <2>3 DEF Inserts
    <3> QED
      BY <1>1, <3>1, CatalogAssumption DEF Promised
  <2> QED
    BY <2>2, <2>3
<1>10. Promises'
  <2> SUFFICES ASSUME NEW r \in DOMAIN work'.runs, NEW a \in ArtifactsOf(r)
               PROVE  a \in DOMAIN work'.artifacts \/ Promised(a)'
    BY DEF Promises
  <2>1. CASE r \in DOMAIN work.runs
    <3>1. a \in DOMAIN work.artifacts \/ Promised(a)
      BY <2>1 DEF RunsInv
    <3>2. Promised(a) => Inserts(todo[c], a)
      BY <1>1 DEF Promised
    <3> QED
      BY <1>8, <1>9, <3>1, <3>2
  <2>2. CASE r \notin DOMAIN work.runs
    <3>1. InsertsInto(x, "runs") /\ x.id = r
      BY <1>1, <1>6, <2>2, TableNames DEF InsertsInto
    <3>2. Inserts(todo[c], a)
      BY <1>2, <1>3, <3>1 DEF ScriptOK
    <3> QED
      BY <1>9, <3>2
  <2> QED
    BY <2>1, <2>2
<1>11. \A v \in got'[c] : v.table = "runs" => RunView(c, v)'
  BY <1>1, SameRunViews DEF RunsInv, StatementsKept
<1> QED
  BY <1>7, <1>10, <1>11 DEF RunsKept

LEMMA UpdateKeepsRuns ==
    ASSUME StatementsInv, RunsInv, NEW c \in Clients, UpdateRow(c), StatementsKept(c)
    PROVE  RunsKept(c)
<1> DEFINE x == Next1(c)
           after == Changed(row[c], work[x.table][x.id], x.new)
           rest == Tail(todo[c])
<1>1. /\ todo[c] # <<>> /\ x.kind = "update"
      /\ writer \in {Null, c} /\ writer' = c /\ db' = db
      /\ work' = Put(work, x.table, x.id, after)
      /\ todo'[c] = rest /\ lookups'[c] = lookups[c] /\ got'[c] = got[c]
  BY UpdateEffect DEF StatementsInv
<1>2. ScriptOK(todo[c]) /\ Database(work) /\ TransactionOK
  BY DEF StatementsInv, CommandOK, CatalogInv
<1>3. /\ WellFormed(x)
      /\ \A y \in Elements(todo[c]) : y = x \/ y \in Elements(rest)
  BY <1>1, <1>2, TailOfScript DEF Next1
<1> HIDE DEF x, rest, after
<1>4. \A u \in Tables : DOMAIN work'[u] = DOMAIN work[u]
  BY UpdateKeepsStatements
<1>5. DOMAIN work'.runs = DOMAIN work.runs /\ DOMAIN work'.artifacts = DOMAIN work.artifacts
  BY <1>4, TableNames
<1>6. work'.artifacts = work.artifacts
  <2>1. x.table \in Tables /\ x.table # "artifacts"
    BY <1>1, <1>3 DEF WellFormed
  <2> QED
    BY <1>1, <1>2, <2>1, PutRows, TableNames
<1>7. FiledUnderTheirRuns(work)'
  BY <1>6 DEF RunsInv, FiledUnderTheirRuns
<1>8. ASSUME NEW a, Promised(a) PROVE Promised(a)'
  <2>1. PICK y \in Elements(todo[c]) : InsertsInto(y, "artifacts") /\ y.id = a
    BY <1>1, <1>8 DEF Promised, Inserts
  <2>2. y \in Elements(rest)
    BY <1>1, <1>3, <2>1 DEF InsertsInto
  <2> QED
    BY <1>1, <2>1, <2>2, CatalogAssumption DEF Promised, Inserts
<1>9. Promises'
  BY <1>5, <1>8 DEF RunsInv, Promises
<1>10. \A v \in got'[c] : v.table = "runs" => RunView(c, v)'
  BY <1>1, SameRunViews DEF RunsInv, StatementsKept
<1> QED
  BY <1>7, <1>9, <1>10 DEF RunsKept

LEMMA CommitKeepsRuns ==
    ASSUME StatementsInv, RunsInv, NEW c \in Clients, Commit(c), StatementsKept(c)
    PROVE  /\ RunsKept(c)
           /\ \A r \in DOMAIN db'.runs : ArtifactsOf(r) \subseteq DOMAIN db'.artifacts
<1>1. /\ writer = c /\ todo[c] = <<>> /\ db' = work /\ work' = work /\ writer' = Null
      /\ lookups'[c] = lookups[c] /\ got'[c] = got[c]
  BY CommitEffect DEF StatementsInv
<1>2. FiledUnderTheirRuns(work)'
  BY <1>1 DEF RunsInv, FiledUnderTheirRuns
<1>3. \A r \in DOMAIN work.runs : \A a \in ArtifactsOf(r) : a \in DOMAIN work.artifacts
  BY <1>1, NoPromise DEF RunsInv
<1>4. Promises'
  BY <1>1, <1>3 DEF Promises
<1>5. \A v \in got'[c] : v.table = "runs" => RunView(c, v)'
  BY <1>1, SameRunViews DEF RunsInv, StatementsKept
<1> QED
  BY <1>1, <1>2, <1>3, <1>4, <1>5 DEF RunsKept

LEMMA AbandonKeepsRuns ==
    ASSUME StatementsInv, RunsInv, NEW c \in Clients, Fail(c) \/ Die(c)
    PROVE  RunsKept(c)
<1>1. /\ db' = db /\ got'[c] = {}
      /\ work' = IF writer = c THEN db ELSE work
      /\ writer' = IF writer = c THEN Null ELSE writer
  BY AbandonEffect DEF StatementsInv
<1>2. FiledUnderTheirRuns(work)'
  BY <1>1 DEF RunsInv, FiledUnderTheirRuns
<1>3. writer \in {Null, c} => work' = db
  BY <1>1 DEF StatementsInv, TransactionOK
<1>4. writer \in {Null, c} => Promises'
  BY <1>3, CommittedPromises DEF Promises
<1> QED
  BY <1>1, <1>2, <1>4 DEF RunsKept

LEMMA ActsKeepRuns ==
    ASSUME StatementsInv, RunsInv, NEW c \in Clients, Acts(c), StatementsKept(c)
    PROVE  RunsKept(c)
BY CommandKeepsRuns, GetKeepsRuns, SelectKeepsRuns, ResolveKeepsRuns, InsertKeepsRuns,
   UpdateKeepsRuns, CommitKeepsRuns, AbandonKeepsRuns DEF Acts, Statement

\* Only a commit changes what is committed.
LEMMA OnlyCommits ==
    ASSUME StatementsInv, NEW c \in Clients, Acts(c), ~Commit(c)
    PROVE  db' = db
<1>1. CASE Command(c)
  BY <1>1, CommandsWriteNothing
<1>2. CASE GetRow(c) \/ ReadRow(c) \/ ListRows(c) \/ Rehydrate(c)
  BY <1>2 DEF GetRow, ReadRow, ListRows, ReadRows, Rehydrate
<1>3. CASE InsertRow(c) \/ UpdateRow(c)
  BY <1>3 DEF InsertRow, UpdateRow, Flush
<1>4. CASE Fail(c) \/ Die(c)
  BY <1>4 DEF Fail, Die, Abandon
<1> QED
  BY <1>1, <1>2, <1>3, <1>4 DEF Acts, Statement

LEMMA RunsInit == Init => RunsInv
<1> SUFFICES ASSUME Init PROVE RunsInv
  OBVIOUS
<1>1. db = Empty /\ work = Empty
  BY DEF Init
<1>2. DOMAIN Empty.artifacts = {} /\ DOMAIN Empty.runs = {}
  BY TableNames DEF Empty
<1>3. \A c \in Clients : got[c] = {}
  BY DEF Init
<1> QED
  BY <1>1, <1>2, <1>3 DEF RunsInv, FiledUnderTheirRuns

LEMMA RunsStep == StatementsInv /\ RunsInv /\ [Next]_vars => RunsInv'
<1> SUFFICES ASSUME StatementsInv, RunsInv, [Next]_vars PROVE RunsInv'
  OBVIOUS
<1>1. ASSUME NEW c \in Clients, Acts(c) PROVE RunsInv'
  <2>1. StatementsKept(c) /\ RunsKept(c)
    BY <1>1, ActsKeepStatements, ActsKeepRuns
  <2>2. Others(c) /\ Grows(c)
    BY <2>1 DEF StatementsKept
  <2>3. Promises'
    <3>1. CASE writer \in {Null, c}
      BY <2>1, <3>1 DEF RunsKept
    <3>2. CASE writer \notin {Null, c}
      <4>1. writer \in Clients \ {c} /\ Promises
        BY <3>2 DEF StatementsInv, TransactionOK, RunsInv, Promises
      <4> QED
        BY <2>2, <4>1, OthersPromise
    <3> QED
      BY <3>1, <3>2
  <2>4. FiledUnderTheirRuns(db)' /\ \A r \in DOMAIN db'.runs : ArtifactsOf(r) \subseteq DOMAIN db'.artifacts
    <3>1. CASE Commit(c)
      <4>1. db' = work
        BY <3>1 DEF Commit
      <4>2. FiledUnderTheirRuns(db)'
        BY <4>1 DEF RunsInv, FiledUnderTheirRuns
      <4> QED
        BY <2>1, <3>1, <4>2, CommitKeepsRuns
    <3>2. CASE ~Commit(c)
      <4>1. db' = db
        BY <1>1, <3>2, OnlyCommits
      <4> QED
        BY <4>1 DEF RunsInv, FiledUnderTheirRuns
    <3> QED
      BY <3>1, <3>2
  <2>5. ASSUME NEW d \in Clients, NEW v \in got'[d], v.table = "runs" PROVE RunView(d, v)'
    <3>1. CASE d = c
      BY <2>1, <2>5, <3>1 DEF RunsKept
    <3>2. CASE d # c
      BY <2>2, <2>5, <3>2, OthersSeeRuns DEF RunsInv
    <3> QED
      BY <3>1, <3>2
  <2> QED
    BY <2>1, <2>3, <2>4, <2>5 DEF RunsInv, RunsKept, Promises
<1>2. CASE UNCHANGED vars
  BY <1>2 DEF vars, RunsInv, FiledUnderTheirRuns, Promised, RunView
<1> QED
  BY <1>1, <1>2 DEF Next, Acts

(***************************************************************************)
(* A run that a command is shown has all its artifacts, although they are  *)
(* read by SELECTs of their own while other processes record runs, fail    *)
(* and die: a run's row and its artifacts are committed together, and what *)
(* is committed stays.                                                     *)
(***************************************************************************)
THEOREM RunsAreReadWhole == Spec => []ReadersSeeWholeRuns
<1>1. RunsInv => ReadersSeeWholeRuns
  <2> SUFFICES ASSUME RunsInv, NEW c \in Clients, Idle(c), NEW view \in got[c],
                      view.table = "runs"
               PROVE  view.refs = ArtifactsOf(view.id)
    BY DEF ReadersSeeWholeRuns
  <2> QED
    BY DEF RunsInv, RunView, Idle
<1>2. Init => StatementsInv /\ RunsInv
  BY StatementsInit, RunsInit
<1>3. StatementsInv /\ RunsInv /\ [Next]_vars => StatementsInv' /\ RunsInv'
  BY StatementsStep, RunsStep
<1> QED
  BY <1>1, <1>2, <1>3, PTL DEF Spec

-----------------------------------------------------------------------------
(***************************************************************************)
(* The third invariant is inductive, given the first.                      *)
(***************************************************************************)
SessionRows(tables) == \A s \in DOMAIN tables.sessions : SessionRowOK(tables.sessions[s])

Differences ==
    \A s \in DOMAIN db.sessions :
        /\ db.sessions[s].config = 1 => work.sessions[s].config = 1
        /\ \A col \in SessionColumns :
              work.sessions[s][col] # db.sessions[s][col] => Explained(s, col)

SessionsKept(c) ==
    /\ SessionRows(work)' /\ Differences'
    /\ SessionCommandOK(c)'
    /\ \A v \in got'[c] : v.table = "sessions" => SessionView(c, v)'

\* Tables that agree have no differences to explain.
LEMMA NoDifferences == db' = work' => Differences'
BY DEF Differences

\* A step that leaves the tables alone, and what the writer means to do.
LEMMA SameDifferences ==
    ASSUME StatementsInv, SessionsInv, NEW c \in Clients, Others(c),
           UNCHANGED <<db, work, writer>>,
           writer = c => op'[c] = op[c] /\ got'[c] = got[c]
    PROVE  SessionRows(work)' /\ Differences'
<1>1. SessionRows(work)'
  BY DEF SessionsInv, SessionRows
<1> SUFFICES Differences'
  BY <1>1
<1>2. CASE writer = Null
  BY <1>2, NoDifferences DEF StatementsInv, TransactionOK
<1>3. CASE writer # Null
  <2>1. writer \in Clients /\ op'[writer] = op[writer] /\ got'[writer] = got[writer]
    BY <1>3 DEF StatementsInv, TransactionOK, Others
  <2>2. ASSUME NEW s, NEW col, Explained(s, col) PROVE Explained(s, col)'
    BY <2>1, <2>2 DEF Explained, Intended, EditsStale
  <2> QED
    BY <2>2 DEF SessionsInv, Differences
<1> QED
  BY <1>2, <1>3

\* The records stay as they were.
LEMMA SameSessionViews ==
    ASSUME NEW c \in Clients, Grows(c), NEW d \in Clients, NEW v,
           lookups'[d] = lookups[d], SessionView(d, v)
    PROVE  SessionView(d, v)'
<1>1. DOMAIN db.artifacts \subseteq DOMAIN db'.artifacts
  BY TableNames DEF Grows
<1> QED
  BY <1>1 DEF SessionView, SessionRowOK, PairOfOneRun

LEMMA CommandKeepsSessions ==
    ASSUME StatementsInv, SessionsInv, NEW c \in Clients, Command(c), StatementsKept(c)
    PROVE  SessionsKept(c)
<1>1. PICK name, s : Start(c, name, s) /\ Begins(c, name, s)
  BY CommandBegins DEF Opens
<1>2. writer # c
  BY CommandBegins
<1>3. /\ Others(c) /\ UNCHANGED <<db, work, writer>>
      /\ op'[c] = name /\ todo'[c] = s
      /\ lookups'[c] = lookups[c]
      /\ got'[c] = IF name = "edit" THEN got[c] ELSE {}
  BY <1>1, StartEffect DEF StatementsInv
<1>4. SessionRows(work)' /\ Differences'
  BY <1>2, <1>3, SameDifferences
<1>5. SessionCommandOK(c)'
  <2>1. \A x \in Elements(s) : UpdatesSession(x) => SessionUpdate(c, name, x)'
    BY <1>1, <1>3 DEF Begins, SessionUpdate
  <2>2. Next1(c)' = Head(s)
    BY <1>3 DEF Next1
  <2> QED
    BY <1>1, <1>3, <2>1, <2>2 DEF SessionCommandOK, Begins, UpdatesSession
<1>6. \A v \in got'[c] : v.table = "sessions" => SessionView(c, v)'
  BY <1>3, SameSessionViews DEF SessionsInv, StatementsKept
<1> QED
  BY <1>4, <1>5, <1>6 DEF SessionsKept

\* The updates of a session that are left are still its command's.
LEMMA UpdatesLeft ==
    ASSUME NEW c \in Clients, SessionCommandOK(c), op'[c] = op[c], got'[c] = got[c],
           \A x \in Elements(todo'[c]) : x \in Elements(todo[c])
    PROVE  \A x \in Elements(todo'[c]) : UpdatesSession(x) => SessionUpdate(c, op[c], x)'
BY DEF SessionCommandOK, SessionUpdate

LEMMA GetKeepsSessions ==
    ASSUME StatementsInv, SessionsInv, NEW c \in Clients, GetRow(c), StatementsKept(c)
    PROVE  SessionsKept(c)
<1> DEFINE x == Next1(c)
           rest == Tail(todo[c])
<1>1. /\ Others(c)
      /\ todo[c] # <<>> /\ x.kind = "get"
      /\ UNCHANGED <<db, work, writer>>
      /\ row'[c] = Visible(c)[x.table][x.id]
      /\ op'[c] = op[c] /\ todo'[c] = rest
      /\ lookups'[c] = lookups[c] /\ got'[c] = got[c]
  BY GetEffect DEF StatementsInv
<1>2. SessionCommandOK(c) /\ ScriptOK(todo[c])
  BY DEF SessionsInv, StatementsInv, CommandOK
<1>3. /\ \A y \in Elements(rest) : y \in Elements(todo[c])
      /\ rest # <<>> /\ Head(rest).kind = "update" =>
            x.table = Head(rest).table /\ x.id = Head(rest).id
  BY <1>1, <1>2, TailOfScript DEF Next1
<1>4. Next1(c)' = Head(rest) /\ Visible(c)' = Visible(c)
  BY <1>1 DEF Next1, Visible
<1>5. op[c] = "record" => writer = c
  BY <1>1, <1>2 DEF SessionCommandOK
<1> HIDE DEF x, rest
<1>6. SessionRows(work)' /\ Differences'
  BY <1>1, SameDifferences
<1>7. ASSUME NEW y, y = Head(rest), rest # <<>>, UpdatesSession(y) PROVE Loaded(c, y)'
  <2>1. row'[c] = Visible(c).sessions[y.id]
    BY <1>1, <1>3, <1>7 DEF UpdatesSession
  <2>2. op[c] = "record" => writer = c /\ row'[c] = work.sessions[y.id]
    BY <1>5, <2>1 DEF Visible
  <2> QED
    BY <1>1, <1>4, <2>1, <2>2 DEF Loaded
<1>8. SessionCommandOK(c)'
  <2>1. \A y \in Elements(todo'[c]) : UpdatesSession(y) => SessionUpdate(c, op[c], y)'
    BY <1>1, <1>2, <1>3, UpdatesLeft
  <2> QED
    BY <1>1, <1>4, <1>5, <1>7, <2>1 DEF SessionCommandOK
<1>9. \A v \in got'[c] : v.table = "sessions" => SessionView(c, v)'
  BY <1>1, SameSessionViews DEF SessionsInv, StatementsKept
<1> QED
  BY <1>6, <1>8, <1>9 DEF SessionsKept

\* A command that reads has no session to update.
LEMMA ReadersUpdateNothing ==
    ASSUME NEW c \in Clients, SessionCommandOK(c), ~Writes(c), op'[c] = op[c],
           \A x \in Elements(todo'[c]) : x \in Elements(todo[c]),
           todo'[c] # <<>> => Next1(c)' \in Elements(todo'[c])
    PROVE  SessionCommandOK(c)'
<1>1. op[c] \notin {"archive", "record", "edit"}
  BY DEF Writes
<1>2. \A x \in Elements(todo[c]) : ~UpdatesSession(x)
  BY <1>1 DEF SessionCommandOK, SessionUpdate
<1> QED
  BY <1>1, <1>2 DEF SessionCommandOK

LEMMA HeadIsLeft ==
    ASSUME NEW s, ScriptOK(s), s # <<>>
    PROVE  Head(s) \in Elements(s)
BY TailOfScript

LEMMA SelectKeepsSessions ==
    ASSUME StatementsInv, SessionsInv, NEW c \in Clients, ReadRow(c) \/ ListRows(c),
           StatementsKept(c)
    PROVE  SessionsKept(c)
<1>1. PICK ids : ReadEffect(c, ids) /\ Others(c)
  BY SelectEffect DEF StatementsInv
<1>2. writer # c
  BY SelectKeepsStatements
<1> DEFINE t == Next1(c).table
           rest == Tail(todo[c])
<1>3. /\ UNCHANGED <<db, work, writer>>
      /\ todo[c] # <<>> /\ Next1(c).kind \in {"read", "list"}
      /\ op'[c] = op[c] /\ todo'[c] = rest
      /\ ids \subseteq DOMAIN db[t]
      /\ got'[c] = {[table |-> t, id |-> id, row |-> db[t][id], refs |-> {}] : id \in ids}
      /\ lookups'[c] = UNION {RefsOf(t, id, db[t][id]) : id \in ids}
  BY <1>1, <1>2 DEF ReadEffect, Visible
<1>4. CommandOK(c) /\ SessionCommandOK(c)
  BY DEF SessionsInv, StatementsInv
<1>5. /\ \A y \in Elements(rest) : y \in Elements(todo[c])
      /\ Next1(c) \in Elements(todo[c]) /\ ScriptOK(rest)
  BY <1>3, <1>4, TailOfScript DEF Next1, CommandOK
<1> HIDE DEF t, rest
<1>6. SessionRows(work)' /\ Differences'
  BY <1>1, <1>2, <1>3, SameDifferences
<1>7. ~Writes(c)
  BY <1>3, <1>4, <1>5 DEF CommandOK, Reads
<1>8. todo'[c] # <<>> => Next1(c)' \in Elements(todo'[c])
  BY <1>3, <1>5, HeadIsLeft DEF Next1
<1>9. SessionCommandOK(c)'
  BY <1>3, <1>4, <1>5, <1>7, <1>8, ReadersUpdateNothing
<1>10. ASSUME NEW v \in got'[c], v.table = "sessions" PROVE SessionView(c, v)'
  <2>1. PICK id \in ids : v = [table |-> t, id |-> id, row |-> db[t][id], refs |-> {}]
    BY <1>3, <1>10
  <2>2. t = "sessions" /\ v.id = id /\ v.row = db.sessions[id] /\ id \in DOMAIN db.sessions
    BY <1>3, <1>10, <2>1
  <2>3. SessionRowOK(v.row)
    BY <2>2 DEF SessionsInv
  <2>4. ASSUME NEW k \in {"initial", "final"}, v.row[k] # Null
        PROVE  v.row[k] \in DOMAIN db.artifacts /\ <<v.id, k>> \in lookups'[c]
    <3>1. k \in DOMAIN ForeignKey["sessions"] /\ ForeignKey["sessions"][k] = "artifacts"
      BY DEF ForeignKey
    <3>2. v.row[k] \in DOMAIN db.artifacts
      BY <2>2, <2>4, <3>1, TableNames DEF StatementsInv, CatalogInv, Database, Sound
    <3>3. k \in DOMAIN v.row
      BY <2>3 DEF SessionRowOK, SessionColumns
    <3>4. <<id, k>> \in RefsOf("sessions", id, db.sessions[id])
      BY <2>2, <2>4, <3>3 DEF RefsOf
    <3>5. RefsOf("sessions", id, db.sessions[id]) \subseteq lookups'[c]
      BY <1>3, <2>2
    <3> QED
      BY <2>2, <3>2, <3>4, <3>5
  <2>5. SessionRowOK(v.row)'
    BY <2>3 DEF SessionRowOK, PairOfOneRun
  <2> QED
    BY <1>3, <2>4, <2>5 DEF SessionView
<1> QED
  BY <1>6, <1>9, <1>10 DEF SessionsKept

LEMMA ResolveKeepsSessions ==
    ASSUME StatementsInv, SessionsInv, NEW c \in Clients, Rehydrate(c), StatementsKept(c)
    PROVE  SessionsKept(c)
<1>1. PICK look, view : RehydrateEffect(c, look, view) /\ Others(c)
  BY ResolveEffect DEF StatementsInv
<1>2. writer # c
  BY ResolveKeepsStatements
<1> DEFINE new == [view EXCEPT !.refs = @ \cup Found(db, view, look[2])]
<1>3. /\ look \in lookups[c] /\ view \in got[c] /\ view.id = look[1]
      /\ UNCHANGED <<db, work, writer>>
      /\ op'[c] = op[c] /\ todo'[c] = todo[c]
      /\ lookups'[c] = lookups[c] \ {look}
      /\ got'[c] = (got[c] \ {view}) \cup {new}
  BY <1>1, <1>2 DEF RehydrateEffect, Visible
<1>4. ViewsOK(c) /\ CommandOK(c) /\ SessionCommandOK(c)
  BY DEF StatementsInv, SessionsInv
<1>5. /\ new.table = view.table /\ new.id = view.id /\ new.row = view.row
      /\ new.refs = view.refs \cup Found(db, view, look[2])
  BY <1>3, <1>4, ViewResolved DEF ViewsOK
<1> HIDE DEF new
<1>6. SessionRows(work)' /\ Differences'
  BY <1>1, <1>2, <1>3, SameDifferences
<1>7. ~Writes(c)
  BY <1>3, <1>4 DEF CommandOK
<1>8. todo'[c] # <<>> => Next1(c)' \in Elements(todo'[c])
  BY <1>3, <1>4, HeadIsLeft DEF Next1, CommandOK
<1>9. SessionCommandOK(c)'
  BY <1>3, <1>4, <1>7, <1>8, ReadersUpdateNothing
<1>10. ASSUME NEW v \in got'[c], v.table = "sessions" PROVE SessionView(c, v)'
  <2>1. CASE v = new
    <3>1. SessionView(c, view) /\ v.id = view.id /\ v.row = view.row
      BY <1>3, <1>5, <1>10, <2>1 DEF SessionsInv
    <3>2. ASSUME NEW k \in {"initial", "final"}, v.row[k] # Null
          PROVE  /\ v.row[k] \in DOMAIN db.artifacts
                 /\ <<v.id, k>> \in lookups'[c] \/ v.row[k] \in v.refs
      <4>1. /\ v.row[k] \in DOMAIN db.artifacts
            /\ <<view.id, k>> \in lookups[c] \/ v.row[k] \in view.refs
        BY <3>1, <3>2 DEF SessionView
      <4>2. CASE <<view.id, k>> = look
        <5>1. look[2] = k /\ k # "artifacts"
          BY <4>2
        <5>2. v.row[k] \in Found(db, view, look[2])
          BY <3>1, <4>1, <5>1 DEF Found
        <5> QED
          BY <1>5, <2>1, <4>1, <5>2
      <4>3. CASE <<view.id, k>> # look
        BY <1>3, <1>5, <2>1, <3>1, <4>1, <4>3
      <4> QED
        BY <4>2, <4>3
    <3>3. SessionRowOK(v.row)'
      BY <3>1 DEF SessionView, SessionRowOK, PairOfOneRun
    <3> QED
      BY <1>3, <3>2, <3>3 DEF SessionView
  <2>2. CASE v # new
    <3>1. v \in got[c] /\ v # view
      BY <1>3, <1>10, <2>2
    <3>2. SessionView(c, v) /\ v.id # view.id
      BY <1>3, <1>4, <1>10, <3>1 DEF SessionsInv, ViewsOK
    <3>3. \A k : <<v.id, k>> # look
      BY <1>3, <3>2
    <3>4. SessionRowOK(v.row)'
      BY <3>2 DEF SessionView, SessionRowOK, PairOfOneRun
    <3> QED
      BY <1>3, <3>2, <3>3, <3>4 DEF SessionView
  <2> QED
    BY <2>1, <2>2
<1> QED
  BY <1>6, <1>9, <1>10 DEF SessionsKept

LEMMA InsertKeepsSessions ==
    ASSUME StatementsInv, SessionsInv, NEW c \in Clients, InsertRow(c), StatementsKept(c)
    PROVE  SessionsKept(c)
<1> DEFINE x == Next1(c)
           rest == Tail(todo[c])
<1>1. /\ todo[c] # <<>> /\ x.kind = "insert" /\ x.id \notin DOMAIN work[x.table]
      /\ writer \in {Null, c} /\ writer' = c /\ db' = db
      /\ work' = Put(work, x.table, KeyOf(work, x), x.new)
      /\ op'[c] = op[c] /\ todo'[c] = rest
      /\ lookups'[c] = lookups[c] /\ got'[c] = got[c]
  BY InsertEffect DEF StatementsInv
<1>2. Database(work) /\ TransactionOK /\ ScriptOK(todo[c]) /\ SessionCommandOK(c)
  BY DEF StatementsInv, CatalogInv, CommandOK, SessionsInv
<1>3. /\ WellFormed(x)
      /\ \A y \in Elements(rest) : y \in Elements(todo[c])
      /\ rest # <<>> /\ Head(rest).kind = "update" => x.kind = "get"
  BY <1>1, <1>2, TailOfScript DEF Next1
<1>4. Next1(c)' = Head(rest)
  BY <1>1 DEF Next1
<1> HIDE DEF x, rest
<1>5. x.table \in Tables
  BY <1>3 DEF WellFormed
<1>6. \A s \in DOMAIN work.sessions :
         s \in DOMAIN work'.sessions /\ work'.sessions[s] = work.sessions[s]
  <2>1. CASE x.table # "sessions"
    <3>1. work'.sessions = work.sessions
      BY <1>1, <1>2, <1>5, <2>1, PutRows, TableNames
    <3> QED
      BY <3>1
  <2>2. CASE x.table = "sessions"
    <3>1. KeyOf(work, x) = x.id
      BY <2>2 DEF KeyOf
    <3> QED
      BY <1>1, <1>2, <1>5, <2>2, <3>1, PutRows
  <2> QED
    BY <2>1, <2>2
<1>7. \A s \in DOMAIN work'.sessions :
         \/ s \in DOMAIN work.sessions
         \/ work'.sessions[s] = SessionRow(s)
  <2>1. CASE x.table # "sessions"
    <3>1. work'.sessions = work.sessions
      BY <1>1, <1>2, <1>5, <2>1, PutRows, TableNames
    <3> QED
      BY <3>1
  <2>2. CASE x.table = "sessions"
    <3>1. KeyOf(work, x) = x.id /\ x.new = SessionRow(x.id)
      BY <1>1, <1>3, <2>2 DEF KeyOf, WellFormed, InsertsInto
    <3> QED
      BY <1>1, <1>2, <1>5, <2>2, <3>1, PutRows
  <2> QED
    BY <2>1, <2>2
<1>8. \A s : SessionRowOK(SessionRow(s))
  BY DEF SessionRow, SessionRowOK, SessionColumns, PairOfOneRun
<1>9. SessionRows(work)'
  <2>1. \A s \in DOMAIN work'.sessions : SessionRowOK(work'.sessions[s])
    BY <1>6, <1>7, <1>8 DEF SessionsInv
  <2> QED
    BY <2>1 DEF SessionRows, SessionRowOK, PairOfOneRun
<1>10. DOMAIN db.sessions \subseteq DOMAIN work.sessions
  BY <1>2, TableNames DEF TransactionOK
<1>11. ASSUME NEW s, NEW col, Explained(s, col) PROVE Explained(s, col)'
  BY <1>1, <1>11, CatalogAssumption DEF Explained, Intended, EditsStale
<1>12. Differences'
  BY <1>1, <1>6, <1>10, <1>11 DEF SessionsInv, Differences
<1>13. \A y \in Elements(todo'[c]) : UpdatesSession(y) => SessionUpdate(c, op[c], y)'
  BY <1>1, <1>2, <1>3, UpdatesLeft
<1>14. SessionCommandOK(c)'
  BY <1>1, <1>3, <1>4, <1>13 DEF SessionCommandOK, UpdatesSession
<1>15. \A v \in got'[c] : v.table = "sessions" => SessionView(c, v)'
  BY <1>1, SameSessionViews DEF SessionsInv, StatementsKept
<1> QED
  BY <1>9, <1>12, <1>14, <1>15 DEF SessionsKept

(***************************************************************************)
(* What an update makes of a session's row: the archiving of a session,    *)
(* both snapshots of one run, or the columns of a record read earlier.     *)
(***************************************************************************)
LEMMA SessionUpdated ==
    ASSUME StatementsInv, SessionsInv, NEW c \in Clients,
           NEW x, UpdatesSession(x), SessionUpdate(c, op[c], x),
           row[c].config = 1 => work.sessions[x.id].config = 1,
           op[c] = "record" => row[c] = work.sessions[x.id],
           x.id \in DOMAIN work.sessions,
           NEW after, after = Changed(row[c], work.sessions[x.id], x.new)
    PROVE  /\ SessionRowOK(after)
           /\ work.sessions[x.id].config = 1 => after.config = 1
           /\ \A col \in SessionColumns :
                 \/ after[col] = work.sessions[x.id][col]
                 \/ col \in Intended(c)
                 \/ /\ op[c] = "edit"
                    /\ \E view \in got[c] : /\ view.table = "sessions" /\ view.id = x.id
                                            /\ after[col] = view.row[col]
<1> DEFINE current == work.sessions[x.id]
           cols == x.new
<1>1. SessionRowOK(current)
  BY DEF SessionsInv
<1>2. DOMAIN current = SessionColumns /\ current.config \in {0, 1}
  BY <1>1 DEF SessionRowOK
<1>3. /\ DOMAIN after = SessionColumns
      /\ \A col \in SessionColumns :
            after[col] = IF col \in DOMAIN cols /\ cols[col] # row[c][col]
                         THEN cols[col] ELSE current[col]
  BY <1>2 DEF Changed
<1>4. SessionColumns = {"profile", "config", "initial", "final", "archived"}
  BY DEF SessionColumns
<1>5. CASE op[c] = "archive" /\ cols = [archived |-> TRUE]
  <2>1. \A col \in SessionColumns : col # "archived" => after[col] = current[col]
    BY <1>3, <1>5
  <2>2. after.initial = current.initial /\ after.final = current.final
        /\ after.config = current.config
    BY <1>4, <2>1
  <2>3. SessionRowOK(after)
    BY <1>1, <1>3, <2>2 DEF SessionRowOK, PairOfOneRun
  <2>4. Intended(c) = {"archived"}
    BY <1>5 DEF Intended
  <2> QED
    BY <2>1, <2>2, <2>3, <2>4
<1>6. CASE /\ op[c] = "record"
           /\ \E r \in Runs : cols = [k \in {"initial", "final"} |-> RefOf(r, k)]
  <2>1. PICK r \in Runs : cols = [k \in {"initial", "final"} |-> RefOf(r, k)]
    BY <1>6
  <2>2. \A col \in SessionColumns : col \notin {"initial", "final"} => after[col] = current[col]
    BY <1>3, <2>1
  <2>3. row[c] = current
    BY <1>6
  <2>4. after.initial = RefOf(r, "initial") /\ after.final = RefOf(r, "final")
    BY <1>3, <1>4, <2>1, <2>3
  <2>5. after.config = current.config
    BY <1>4, <2>2
  <2>6. PairOfOneRun(after)
    BY <2>4 DEF PairOfOneRun, RefOf
  <2>7. SessionRowOK(after)
    BY <1>2, <1>3, <2>5, <2>6 DEF SessionRowOK
  <2>8. Intended(c) = {"initial", "final"}
    BY <1>6 DEF Intended
  <2> QED
    BY <2>2, <2>5, <2>7, <2>8
<1>7. CASE /\ op[c] = "edit"
           /\ \E view \in got[c] : /\ view.table = "sessions" /\ view.id = x.id
                                   /\ cols = [RecordOf(view) EXCEPT !["config"] = 1]
  <2>1. PICK view \in got[c] : /\ view.table = "sessions" /\ view.id = x.id
                               /\ cols = [RecordOf(view) EXCEPT !["config"] = 1]
    BY <1>7
  <2>2. lookups[c] = {} /\ SessionView(c, view)
    BY <1>7, <2>1 DEF StatementsInv, CommandOK, Writes, SessionsInv
  <2>3. /\ DOMAIN view.row = SessionColumns
        /\ \A k \in {"initial", "final"} : view.row[k] = Null \/ view.row[k] \in view.refs
    BY <2>2 DEF SessionView, SessionRowOK
  <2>4. /\ DOMAIN RecordOf(view) = SessionColumns
        /\ \A col \in SessionColumns : RecordOf(view)[col] = view.row[col]
    BY <2>3 DEF RecordOf
  <2>5. /\ DOMAIN cols = SessionColumns /\ cols["config"] = 1
        /\ \A col \in SessionColumns : col # "config" => cols[col] = view.row[col]
    BY <1>4, <2>1, <2>4
  <2>6. after["config"] = 1
    BY <1>3, <1>4, <2>5
  <2>7. Intended(c) = {"config", "status", "closed"}
    BY <1>7 DEF Intended
  <2>8. \A col \in SessionColumns :
           after[col] = current[col] \/ col = "config" \/ after[col] = view.row[col]
    BY <1>3, <2>5
  <2>9. SessionRowOK(after)
    BY <1>3, <2>6 DEF SessionRowOK
  <2> QED
    BY <1>7, <2>1, <2>6, <2>7, <2>8, <2>9
<1> QED
  BY <1>5, <1>6, <1>7 DEF SessionUpdate

LEMMA UpdateKeepsSessions ==
    ASSUME StatementsInv, SessionsInv, NEW c \in Clients, UpdateRow(c), StatementsKept(c)
    PROVE  SessionsKept(c)
<1> DEFINE x == Next1(c)
           after == Changed(row[c], work[x.table][x.id], x.new)
           rest == Tail(todo[c])
<1>1. /\ todo[c] # <<>> /\ x.kind = "update"
      /\ writer \in {Null, c} /\ writer' = c /\ db' = db
      /\ work' = Put(work, x.table, x.id, after)
      /\ op'[c] = op[c] /\ todo'[c] = rest
      /\ lookups'[c] = lookups[c] /\ got'[c] = got[c]
  BY UpdateEffect DEF StatementsInv
<1>2. Database(work) /\ TransactionOK /\ ScriptOK(todo[c]) /\ SessionCommandOK(c)
  BY DEF StatementsInv, CatalogInv, CommandOK, SessionsInv
<1>3. /\ WellFormed(x) /\ x \in Elements(todo[c])
      /\ \A y \in Elements(rest) : y \in Elements(todo[c])
      /\ rest # <<>> /\ Head(rest).kind = "update" => x.kind = "get"
  BY <1>1, <1>2, TailOfScript DEF Next1
<1>4. Next1(c)' = Head(rest) /\ Visible(c) = work
  BY <1>1, <1>2 DEF Next1, Visible, TransactionOK
<1>5. x.table \in Tables /\ x.id \in DOMAIN work[x.table]
  BY <1>3, UpdateKeepsStatements DEF WellFormed
<1>6. x.table = "sessions" =>
         /\ SessionUpdate(c, op[c], x) /\ Loaded(c, x) /\ UpdatesSession(x)
         /\ after = Changed(row[c], work.sessions[x.id], x.new)
  BY <1>1, <1>2, <1>3 DEF SessionCommandOK, UpdatesSession
<1> HIDE DEF x, rest, after
<1>7. ASSUME NEW s, NEW col, Explained(s, col) PROVE Explained(s, col)'
  BY <1>1, <1>7, CatalogAssumption DEF Explained, Intended, EditsStale
<1>8. SessionRows(work)' /\ Differences'
  <2>1. CASE x.table # "sessions"
    <3>1. work'.sessions = work.sessions
      BY <1>1, <1>2, <1>5, <2>1, PutRows, TableNames
    <3>2. SessionRows(work)'
      BY <3>1 DEF SessionsInv, SessionRows, SessionRowOK, PairOfOneRun
    <3>3. Differences'
      BY <1>1, <1>7, <3>1 DEF SessionsInv, Differences
    <3> QED
      BY <3>2, <3>3
  <2>2. CASE x.table = "sessions"
    <3>1. /\ DOMAIN work'.sessions = DOMAIN work.sessions
          /\ x.id \in DOMAIN work.sessions /\ work'.sessions[x.id] = after
          /\ \A s \in DOMAIN work.sessions : s # x.id => work'.sessions[s] = work.sessions[s]
      <4>1. /\ DOMAIN work'[x.table] = DOMAIN work[x.table] \cup {x.id}
            /\ work'[x.table][x.id] = after
            /\ \A i \in DOMAIN work[x.table] :
                  i # x.id => work'[x.table][i] = work[x.table][i]
        BY <1>1, <1>2, <1>5, PutRows
      <4> QED
        BY <1>5, <2>2, <4>1
    <3>2. /\ SessionRowOK(after)
          /\ work.sessions[x.id].config = 1 => after.config = 1
          /\ \A col \in SessionColumns :
                \/ after[col] = work.sessions[x.id][col]
                \/ col \in Intended(c)
                \/ /\ op[c] = "edit"
                   /\ \E view \in got[c] : /\ view.table = "sessions" /\ view.id = x.id
                                           /\ after[col] = view.row[col]
      <4>1. /\ row[c].config = 1 => work.sessions[x.id].config = 1
            /\ op[c] = "record" => row[c] = work.sessions[x.id]
        BY <1>4, <1>6, <2>2 DEF Loaded
      <4> QED
        BY <1>6, <2>2, <3>1, <4>1, SessionUpdated
    <3>3. SessionRows(work)'
      <4>1. \A s \in DOMAIN work'.sessions : SessionRowOK(work'.sessions[s])
        BY <3>1, <3>2 DEF SessionsInv
      <4> QED
        BY <4>1 DEF SessionRows, SessionRowOK, PairOfOneRun
    <3>4. ASSUME NEW s \in DOMAIN db.sessions
          PROVE  /\ db.sessions[s].config = 1 => work'.sessions[s].config = 1
                 /\ \A col \in SessionColumns :
                       work'.sessions[s][col] # db.sessions[s][col] => Explained(s, col)'
      <4>1. s \in DOMAIN work.sessions
        BY <1>2, TableNames DEF TransactionOK
      <4>2. /\ db.sessions[s].config = 1 => work.sessions[s].config = 1
            /\ \A col \in SessionColumns :
                  work.sessions[s][col] # db.sessions[s][col] => Explained(s, col)
        BY DEF SessionsInv
      <4>3. CASE s # x.id
        BY <1>7, <3>1, <4>1, <4>2, <4>3
      <4>4. CASE s = x.id
        <5>1. db.sessions[s].config = 1 => work'.sessions[s].config = 1
          BY <3>1, <3>2, <4>2, <4>4
        <5>2. ASSUME NEW col \in SessionColumns,
                     work'.sessions[s][col] # db.sessions[s][col]
              PROVE  Explained(s, col)'
          <6>1. after[col] # db.sessions[s][col]
            BY <3>1, <4>4, <5>2
          <6>2. CASE after[col] = work.sessions[s][col]
            BY <1>7, <4>2, <6>1, <6>2
          <6>3. CASE col \in Intended(c)
            BY <1>1, <6>3, CatalogAssumption DEF Explained, Intended
          <6>4. CASE /\ op[c] = "edit"
                     /\ \E view \in got[c] : /\ view.table = "sessions" /\ view.id = s
                                             /\ after[col] = view.row[col]
            <7>1. EditsStale(c, s)'
              BY <1>1, <6>1, <6>4 DEF EditsStale
            <7>2. EditsStale(writer, s)'
              BY <1>1, <7>1 DEF EditsStale
            <7> QED
              BY <1>1, <7>2, CatalogAssumption DEF Explained
          <6> QED
            BY <3>2, <4>4, <6>2, <6>3, <6>4
        <5> QED
          BY <5>1, <5>2
      <4> QED
        BY <4>3, <4>4
    <3>5. Differences'
      BY <1>1, <3>4 DEF Differences
    <3> QED
      BY <3>3, <3>5
  <2> QED
    BY <2>1, <2>2
<1>9. \A y \in Elements(todo'[c]) : UpdatesSession(y) => SessionUpdate(c, op[c], y)'
  BY <1>1, <1>2, <1>3, UpdatesLeft
<1>10. SessionCommandOK(c)'
  BY <1>1, <1>3, <1>4, <1>9 DEF SessionCommandOK, UpdatesSession
<1>11. \A v \in got'[c] : v.table = "sessions" => SessionView(c, v)'
  BY <1>1, SameSessionViews DEF SessionsInv, StatementsKept
<1> QED
  BY <1>8, <1>10, <1>11 DEF SessionsKept

LEMMA CommitKeepsSessions ==
    ASSUME StatementsInv, SessionsInv, NEW c \in Clients, Commit(c), StatementsKept(c)
    PROVE  SessionsKept(c) /\ SessionRows(db)'
<1>1. /\ writer = c /\ todo[c] = <<>> /\ db' = work /\ work' = work /\ writer' = Null
      /\ op'[c] = op[c] /\ todo'[c] = todo[c]
      /\ lookups'[c] = lookups[c] /\ got'[c] = got[c]
  BY CommitEffect DEF StatementsInv
<1>2. SessionRows(work)' /\ SessionRows(db)'
  BY <1>1 DEF SessionsInv, SessionRows, SessionRowOK, PairOfOneRun
<1>3. Differences'
  BY <1>1, NoDifferences
<1>4. SessionCommandOK(c)'
  BY <1>1, NoStatement DEF SessionCommandOK
<1>5. \A v \in got'[c] : v.table = "sessions" => SessionView(c, v)'
  BY <1>1, SameSessionViews DEF SessionsInv, StatementsKept
<1> QED
  BY <1>2, <1>3, <1>4, <1>5 DEF SessionsKept

LEMMA AbandonKeepsSessions ==
    ASSUME StatementsInv, SessionsInv, NEW c \in Clients, Fail(c) \/ Die(c),
           StatementsKept(c)
    PROVE  SessionsKept(c)
<1>1. /\ Others(c) /\ db' = db /\ got'[c] = {} /\ todo'[c] = <<>>
      /\ work' = IF writer = c THEN db ELSE work
      /\ writer' = IF writer = c THEN Null ELSE writer
  BY AbandonEffect DEF StatementsInv
<1>2. SessionRows(work)' /\ Differences'
  <2>1. CASE writer = c
    <3>1. SessionRows(work)'
      BY <1>1, <2>1 DEF SessionsInv, SessionRows, SessionRowOK, PairOfOneRun
    <3>2. Differences'
      BY <1>1, <2>1, NoDifferences
    <3> QED
      BY <3>1, <3>2
  <2>2. CASE writer # c
    <3>1. UNCHANGED <<db, work, writer>>
      BY <1>1, <2>2
    <3> QED
      BY <1>1, <2>2, <3>1, SameDifferences
  <2> QED
    BY <2>1, <2>2
<1>3. SessionCommandOK(c)'
  BY <1>1, NoStatement DEF SessionCommandOK
<1> QED
  BY <1>1, <1>2, <1>3 DEF SessionsKept

LEMMA ActsKeepSessions ==
    ASSUME StatementsInv, SessionsInv, NEW c \in Clients, Acts(c), StatementsKept(c)
    PROVE  SessionsKept(c)
BY CommandKeepsSessions, GetKeepsSessions, SelectKeepsSessions, ResolveKeepsSessions,
   InsertKeepsSessions, UpdateKeepsSessions, CommitKeepsSessions, AbandonKeepsSessions
   DEF Acts, Statement

\* A session's configuration, once edited, stays so in what a client sees.
LEMMA EditedStaysEdited ==
    ASSUME StatementsInv, SessionsInv, NEW c \in Clients, Acts(c), StatementsKept(c),
           NEW d \in Clients \ {c}, NEW s \in DOMAIN Visible(d).sessions,
           Visible(d).sessions[s].config = 1
    PROVE  Visible(d)'.sessions[s].config = 1
<1>1. /\ writer' = d <=> writer = d
      /\ writer = d => work' = work
  BY DEF StatementsKept, Grows
<1>2. CASE writer = d
  BY <1>1, <1>2 DEF Visible
<1>3. CASE writer # d /\ ~Commit(c)
  BY <1>1, <1>3, OnlyCommits DEF Visible
<1>4. CASE writer # d /\ Commit(c)
  <2>1. db' = work /\ Visible(d) = db /\ Visible(d)' = db'
    BY <1>1, <1>4 DEF Commit, Visible
  <2> QED
    BY <2>1 DEF SessionsInv
<1> QED
  BY <1>2, <1>3, <1>4

LEMMA OthersKeepSessions ==
    ASSUME StatementsInv, SessionsInv, NEW c \in Clients, Acts(c), StatementsKept(c),
           NEW d \in Clients \ {c}
    PROVE  SessionCommandOK(d)' /\ \A v \in got'[d] : v.table = "sessions" => SessionView(d, v)'
<1>1. /\ op'[d] = op[d] /\ todo'[d] = todo[d] /\ row'[d] = row[d]
      /\ lookups'[d] = lookups[d] /\ got'[d] = got[d]
  BY DEF StatementsKept, Others
<1>2. /\ writer' = d <=> writer = d
      /\ writer = d => work' = work
  BY DEF StatementsKept, Grows
<1>3. SessionCommandOK(d) /\ CommandOK(d)
  BY DEF SessionsInv, StatementsInv
<1>4. ASSUME NEW x, todo[d] # <<>>, x = Next1(d), UpdatesSession(x) PROVE Loaded(d, x)'
  <2>1. Loaded(d, x) /\ x.id \in DOMAIN Visible(d).sessions
    BY <1>3, <1>4 DEF SessionCommandOK, CommandOK, UpdatesSession
  <2>2. row[d].config = 1 => Visible(d)'.sessions[x.id].config = 1
    BY <2>1, EditedStaysEdited DEF Loaded
  <2> QED
    BY <1>1, <1>2, <2>1, <2>2 DEF Loaded
<1>5. Next1(d)' = Next1(d)
  BY <1>1 DEF Next1
<1>6. \A x \in Elements(todo'[d]) : UpdatesSession(x) => SessionUpdate(d, op[d], x)'
  BY <1>1, <1>3, UpdatesLeft
<1>7. SessionCommandOK(d)'
  BY <1>1, <1>2, <1>3, <1>4, <1>5, <1>6 DEF SessionCommandOK
<1>8. \A v \in got'[d] : v.table = "sessions" => SessionView(d, v)'
  BY <1>1, SameSessionViews DEF SessionsInv, StatementsKept
<1> QED
  BY <1>7, <1>8

LEMMA SessionsInit == Init => SessionsInv
<1> SUFFICES ASSUME Init PROVE SessionsInv
  OBVIOUS
<1>1. db = Empty /\ work = Empty
  BY DEF Init
<1>2. DOMAIN Empty.sessions = {}
  BY TableNames DEF Empty
<1>3. \A c \in Clients : got[c] = {} /\ todo[c] = <<>>
  BY DEF Init
<1>4. \A c \in Clients : SessionCommandOK(c)
  BY <1>3, NoStatement DEF SessionCommandOK
<1> QED
  BY <1>1, <1>2, <1>3, <1>4 DEF SessionsInv

LEMMA SessionsStep == StatementsInv /\ SessionsInv /\ [Next]_vars => SessionsInv'
<1> SUFFICES ASSUME StatementsInv, SessionsInv, [Next]_vars PROVE SessionsInv'
  OBVIOUS
<1>1. ASSUME NEW c \in Clients, Acts(c) PROVE SessionsInv'
  <2>1. StatementsKept(c) /\ SessionsKept(c)
    BY <1>1, ActsKeepStatements, ActsKeepSessions
  <2>2. SessionRows(db)'
    <3>1. CASE Commit(c)
      BY <2>1, <3>1, CommitKeepsSessions
    <3>2. CASE ~Commit(c)
      <4>1. db' = db
        BY <1>1, <3>2, OnlyCommits
      <4> QED
        BY <4>1 DEF SessionsInv, SessionRows, SessionRowOK, PairOfOneRun
    <3> QED
      BY <3>1, <3>2
  <2>3. \A d \in Clients : SessionCommandOK(d)' /\ \A v \in got'[d] : v.table = "sessions" => SessionView(d, v)'
    BY <1>1, <2>1, OthersKeepSessions DEF SessionsKept
  <2> QED
    BY <2>1, <2>2, <2>3 DEF SessionsInv, SessionsKept, SessionRows, Differences
<1>2. CASE UNCHANGED vars
  <2>1. UNCHANGED <<db, work, writer, op, todo, row, lookups, got>>
    BY <1>2 DEF vars
  <2>2. SessionRows(db)' /\ SessionRows(work)'
    BY <2>1 DEF SessionsInv, SessionRows, SessionRowOK, PairOfOneRun
  <2>3. ASSUME NEW s, NEW col, Explained(s, col) PROVE Explained(s, col)'
    BY <2>1, <2>3 DEF Explained, Intended, EditsStale
  <2>4. Differences'
    BY <2>1, <2>3 DEF SessionsInv, Differences
  <2>5. ASSUME NEW c \in Clients PROVE SessionCommandOK(c)'
    <3>1. SessionCommandOK(c)
      BY DEF SessionsInv
    <3>2. ASSUME NEW x, Loaded(c, x) PROVE Loaded(c, x)'
      BY <2>1, <3>2 DEF Loaded, Visible
    <3>3. \A x \in Elements(todo'[c]) : UpdatesSession(x) => SessionUpdate(c, op[c], x)'
      BY <2>1, <3>1, UpdatesLeft
    <3> QED
      BY <2>1, <3>1, <3>2, <3>3 DEF SessionCommandOK, Next1
  <2>6. ASSUME NEW c \in Clients, NEW v \in got'[c], v.table = "sessions"
        PROVE  SessionView(c, v)'
    BY <2>1, <2>6 DEF SessionsInv, SessionView, SessionRowOK, PairOfOneRun
  <2> QED
    BY <2>2, <2>4, <2>5, <2>6 DEF SessionsInv, SessionRows, Differences
<1> QED
  BY <1>1, <1>2 DEF Next, Acts

LEMMA SessionsAlways == Spec => [](StatementsInv /\ SessionsInv)
<1>1. Init => StatementsInv /\ SessionsInv
  BY StatementsInit, SessionsInit
<1>2. (StatementsInv /\ SessionsInv) /\ [Next]_vars => (StatementsInv /\ SessionsInv)'
  BY StatementsStep, SessionsStep
<1> QED
  BY <1>1, <1>2, PTL DEF Spec

(***************************************************************************)
(* The two latest snapshots of a session that a command is shown are one   *)
(* run's, unless the session's record was edited: the recording of a run   *)
(* replaces both in one transaction, compares them with a row no other     *)
(* process can have changed since, and archiving touches neither.          *)
(***************************************************************************)
THEOREM SnapshotsComeInPairs == Spec => []LatestPairIsOneRuns
<1>1. SessionsInv => LatestPairIsOneRuns
  BY DEF SessionsInv, SessionView, SessionRowOK, LatestPairIsOneRuns
<1> QED
  BY <1>1, SessionsAlways, PTL

(***************************************************************************)
(* What a commit changes in a session's row is a column its command is     *)
(* about, or a record that had gone stale was edited: no other command     *)
(* undoes another's, whatever it read before its transaction began.        *)
(***************************************************************************)
THEOREM NothingElseIsUndone == Spec => OnlyStaleEditsUndo
<1> DEFINE Told == \A s \in DOMAIN db.sessions : \A col \in DOMAIN db.sessions[s] :
                      db'.sessions[s][col] # db.sessions[s][col] =>
                          col \in Intended(writer) \/ EditsStale(writer, s)
<1>1. StatementsInv /\ SessionsInv /\ [Next]_vars => [Told]_vars
  <2> SUFFICES ASSUME StatementsInv, SessionsInv, NEW c \in Clients, Acts(c) PROVE Told
    BY DEF Next, Acts
  <2>1. CASE ~Commit(c)
    <3>1. db' = db
      BY <2>1, OnlyCommits
    <3> QED
      BY <3>1
  <2>2. CASE Commit(c)
    <3>1. db' = work
      BY <2>2 DEF Commit
    <3> QED
      BY <3>1 DEF SessionsInv, SessionRowOK, Explained
  <2> QED
    BY <2>1, <2>2
<1> QED
  BY <1>1, SessionsAlways, PTL DEF Spec, OnlyStaleEditsUndo


=============================================================================
