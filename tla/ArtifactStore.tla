----------------------------- MODULE ArtifactStore -----------------------------
(***************************************************************************)
(* ArtifactManager (artifacts/manager.py over artifacts/paths.py): several *)
(* writers, in threads or processes of their own, write artifacts to paths *)
(* they may share, and readers read them back by reference.  There is no   *)
(* lock: what orders the writers is the exclusive creation of the file.    *)
(* The bytes of a file are abstracted to the writer whose payload they     *)
(* are, "torn" while it is incomplete, "tampered" when they are nobody's.  *)
(***************************************************************************)
CONSTANTS
    Writers,   \* the write_bytes calls, each with a payload of its own
    Readers,   \* the read_bytes calls
    Paths,
    PathOf,    \* the path each writer is given
    Faulty,    \* the writers whose input or disk may fail them
    Mortal     \* the writers whose process may die

Marks == {"absent", "torn", "tampered"}

ASSUME PathOfAssumption == PathOf \in [Writers -> Paths]
ASSUME MarksAssumption == Marks \cap Writers = {}

VARIABLES
    bytes,     \* what is at each path
    wpc,       \* where each writer is
    rpc,       \* where each reader is
    wanted,    \* the writer whose reference each reader reads
    buffer,    \* what each reader read
    meddled    \* the paths someone else has tampered with or emptied

vars == <<bytes, wpc, rpc, wanted, buffer, meddled>>
readVars == <<rpc, wanted, buffer>>

TypeOK ==
    /\ bytes \in [Paths -> Writers \cup Marks]
    /\ wpc \in [Writers -> {"idle", "checked", "writing", "written", "returned",
                            "raised", "dead"}]
    /\ rpc \in [Readers -> {"idle", "read", "returned", "raised"}]
    /\ wanted \in [Readers -> Writers \cup {"absent"}]
    /\ buffer \in [Readers -> Writers \cup Marks]
    /\ meddled \subseteq Paths

Init ==
    /\ bytes = [p \in Paths |-> "absent"]
    /\ wpc = [w \in Writers |-> "idle"]
    /\ rpc = [x \in Readers |-> "idle"]
    /\ wanted = [x \in Readers |-> "absent"]
    /\ buffer = [x \in Readers |-> "absent"]
    /\ meddled = {}

Goto(w, step) == wpc' = [wpc EXCEPT ![w] = step]
Put(w, b) == bytes' = [bytes EXCEPT ![PathOf[w]] = b]

-----------------------------------------------------------------------------
\* write_bytes: validate, reject symlinks, make the parent directories.
CheckPath(w) ==
    /\ wpc[w] = "idle"
    /\ Goto(w, "checked") \/ (w \in Faulty /\ Goto(w, "raised"))
    /\ UNCHANGED <<bytes, readVars, meddled>>

\* Slip: without O_EXCL.
CreateOrTruncate(w) ==
    /\ wpc[w] = "checked"
    /\ Put(w, "torn")
    /\ Goto(w, "writing")
    /\ UNCHANGED <<readVars, meddled>>

\* Slip: the file's mark is the writer's step.
CreateMarked(w) ==
    /\ wpc[w] = "checked"
    /\ bytes[PathOf[w]] = "absent"
    /\ Put(w, "writing")
    /\ Goto(w, "writing")
    /\ UNCHANGED <<readVars, meddled>>

\* _exclusive_write: only an absent file is created.
CreateExclusive(w) ==
    /\ wpc[w] = "checked"
    /\ bytes[PathOf[w]] = "absent"
    /\ Put(w, "torn")
    /\ Goto(w, "writing")
    /\ UNCHANGED <<readVars, meddled>>

RefuseExisting(w) ==
    /\ wpc[w] = "checked"
    /\ bytes[PathOf[w]] # "absent"
    /\ Goto(w, "raised")
    /\ UNCHANGED <<bytes, readVars, meddled>>

\* The payload is written, flushed and synced.
WritePayload(w) ==
    /\ wpc[w] = "writing"
    /\ Put(w, w)
    /\ Goto(w, "written")
    /\ UNCHANGED <<readVars, meddled>>

\* The write fails: the writer unlinks its own file, best effort.
WriteRaises(w) ==
    /\ wpc[w] = "writing"
    /\ w \in Faulty
    /\ Put(w, "absent") \/ UNCHANGED bytes
    /\ Goto(w, "raised")
    /\ UNCHANGED <<readVars, meddled>>

\* Containment is confirmed again and the reference is built.
ReturnRef(w) ==
    /\ wpc[w] = "written"
    /\ Goto(w, "returned")
    /\ UNCHANGED <<bytes, readVars, meddled>>

\* It is not, or the MIME type does not fit: the file stays, without reference.
ConfirmRaises(w) ==
    /\ wpc[w] = "written"
    /\ w \in Faulty
    /\ Goto(w, "raised")
    /\ UNCHANGED <<bytes, readVars, meddled>>

Die(w) ==
    /\ w \in Mortal
    /\ wpc[w] \in {"checked", "writing", "written"}
    /\ Goto(w, "dead")
    /\ UNCHANGED <<bytes, readVars, meddled>>

-----------------------------------------------------------------------------
\* read_bytes of a reference: the file is read once, into a buffer.
ReadBuffer(x, w) ==
    /\ rpc[x] = "idle"
    /\ wpc[w] = "returned"
    /\ wanted' = [wanted EXCEPT ![x] = w]
    /\ buffer' = [buffer EXCEPT ![x] = bytes[PathOf[w]]]
    /\ rpc' = [rpc EXCEPT ![x] =
                  IF bytes[PathOf[w]] = "absent" THEN "raised" ELSE "read"]
    /\ UNCHANGED <<bytes, wpc, meddled>>

\* The size and the hash are those of the buffer, which is what is returned.
Matches(x) == buffer[x] = wanted[x]

\* Slip: the file is read again once the buffer has been verified.
RereadVerified(x) ==
    /\ rpc[x] = "read"
    /\ rpc' = [rpc EXCEPT ![x] = IF Matches(x) THEN "returned" ELSE "raised"]
    /\ buffer' = [buffer EXCEPT ![x] = bytes[PathOf[wanted[x]]]]
    /\ UNCHANGED <<bytes, wpc, wanted, meddled>>

VerifyBuffer(x) ==
    /\ rpc[x] = "read"
    /\ rpc' = [rpc EXCEPT ![x] = IF Matches(x) THEN "returned" ELSE "raised"]
    /\ UNCHANGED <<bytes, wpc, wanted, buffer, meddled>>

-----------------------------------------------------------------------------
\* Someone else changes or removes a file nobody is writing.
Meddle(p) ==
    /\ bytes[p] # "absent"
    /\ \A w \in Writers : PathOf[w] = p => wpc[w] \notin {"writing", "written"}
    /\ \E b \in {"tampered", "absent"} : bytes' = [bytes EXCEPT ![p] = b]
    /\ meddled' = meddled \cup {p}
    /\ UNCHANGED <<wpc, readVars>>

Next ==
    \/ \E w \in Writers :
          \/ CheckPath(w) \/ CreateExclusive(w) \/ RefuseExisting(w)
          \/ WritePayload(w) \/ WriteRaises(w)
          \/ ReturnRef(w) \/ ConfirmRaises(w) \/ Die(w)
    \/ \E x \in Readers : VerifyBuffer(x) \/ \E w \in Writers : ReadBuffer(x, w)
    \/ \E p \in Paths : Meddle(p)

Spec == Init /\ [][Next]_vars

-----------------------------------------------------------------------------
(***************************************************************************)
(* No overwrite: an artifact whose reference was handed out stays as it    *)
(* was written, whatever other writers of the path do, fail at or die in;  *)
(* only someone else can change it.  So a path never has two references.   *)
(***************************************************************************)
ReturnedStaysWritten ==
    \A w \in Writers :
        wpc[w] = "returned" /\ PathOf[w] \notin meddled => bytes[PathOf[w]] = w

(***************************************************************************)
(* What a reader is given is what the writer of the reference wrote, even  *)
(* if the file is torn, replaced or removed while it is being read.        *)
(***************************************************************************)
ReadersGetWhatWasWritten ==
    \A x \in Readers : rpc[x] = "returned" => buffer[x] = wanted[x]

=============================================================================
