-------------------------- MODULE ArtifactStoreProofs --------------------------
(***************************************************************************)
(* Proofs about ArtifactStore, for every set of writers, readers and       *)
(* paths.  Paths do not interfere, so the invariant speaks of one writer   *)
(* and the file at its path, and of two writers of one path.               *)
(***************************************************************************)
EXTENDS ArtifactStore, TLAPS

LEMMA TypeStep == TypeOK /\ [Next]_vars => TypeOK'
<1> SUFFICES ASSUME TypeOK, [Next]_vars PROVE TypeOK'
  OBVIOUS
<1> USE PathOfAssumption DEF TypeOK, Marks, Goto, Put, readVars
<1>1. ASSUME NEW w \in Writers,
             \/ CheckPath(w) \/ CreateExclusive(w) \/ RefuseExisting(w)
             \/ WritePayload(w) \/ WriteRaises(w)
             \/ ReturnRef(w) \/ ConfirmRaises(w) \/ Die(w)
      PROVE  TypeOK'
  BY <1>1 DEF CheckPath, CreateExclusive, RefuseExisting, WritePayload,
              WriteRaises, ReturnRef, ConfirmRaises, Die
<1>2. ASSUME NEW x \in Readers, NEW w \in Writers, ReadBuffer(x, w) PROVE TypeOK'
  BY <1>2 DEF ReadBuffer
<1>3. ASSUME NEW x \in Readers, VerifyBuffer(x) PROVE TypeOK'
  BY <1>3 DEF VerifyBuffer
<1>4. ASSUME NEW p \in Paths, Meddle(p) PROVE TypeOK'
  BY <1>4 DEF Meddle
<1>5. CASE UNCHANGED vars
  BY <1>5 DEF vars
<1> QED
  BY <1>1, <1>2, <1>3, <1>4, <1>5 DEF Next

(***************************************************************************)
(* Every state of the store is well typed.                                 *)
(***************************************************************************)
THEOREM TypeCorrect == Spec => []TypeOK
<1>1. Init => TypeOK
  BY PathOfAssumption DEF Init, TypeOK, Marks
<1> QED
  BY <1>1, TypeStep, PTL DEF Spec

(***************************************************************************)
(* What a writer knows of the file at its path: while it holds the file    *)
(* open the file is torn, when it is done the file is its own, and nobody  *)
(* else of the path holds or is done with a file at the same time.         *)
(***************************************************************************)
Holds(w) == wpc[w] \in {"writing", "written"}

FileInv ==
    \A w \in Writers :
        /\ wpc[w] = "writing" => bytes[PathOf[w]] = "torn"
        /\ wpc[w] = "written" => bytes[PathOf[w]] = w
        /\ wpc[w] = "returned" /\ PathOf[w] \notin meddled => bytes[PathOf[w]] = w
        /\ \A v \in Writers \ {w} : PathOf[v] = PathOf[w] => ~(Holds(v) /\ Holds(w))

LEMMA FileStep == TypeOK /\ FileInv /\ [Next]_vars => FileInv'
<1> SUFFICES ASSUME TypeOK, FileInv, [Next]_vars PROVE FileInv'
  OBVIOUS
<1> USE PathOfAssumption, MarksAssumption
        DEF TypeOK, FileInv, Holds, Marks, Goto, Put, readVars
<1>1. ASSUME NEW w \in Writers, CheckPath(w) \/ RefuseExisting(w) PROVE FileInv'
  BY <1>1 DEF CheckPath, RefuseExisting
<1>2. ASSUME NEW w \in Writers, CreateExclusive(w) PROVE FileInv'
  BY <1>2 DEF CreateExclusive
<1>3. ASSUME NEW w \in Writers, WritePayload(w) PROVE FileInv'
  BY <1>3 DEF WritePayload
<1>4. ASSUME NEW w \in Writers, WriteRaises(w) PROVE FileInv'
  BY <1>4 DEF WriteRaises
<1>5. ASSUME NEW w \in Writers, ReturnRef(w) \/ ConfirmRaises(w) \/ Die(w)
      PROVE  FileInv'
  BY <1>5 DEF ReturnRef, ConfirmRaises, Die
<1>6. ASSUME NEW x \in Readers, NEW w \in Writers, ReadBuffer(x, w) PROVE FileInv'
  BY <1>6 DEF ReadBuffer
<1>7. ASSUME NEW x \in Readers, VerifyBuffer(x) PROVE FileInv'
  BY <1>7 DEF VerifyBuffer
<1>8. ASSUME NEW p \in Paths, Meddle(p) PROVE FileInv'
  BY <1>8 DEF Meddle
<1>9. CASE UNCHANGED vars
  BY <1>9 DEF vars
<1> QED
  BY <1>1, <1>2, <1>3, <1>4, <1>5, <1>6, <1>7, <1>8, <1>9 DEF Next

(***************************************************************************)
(* No writer ever overwrites an artifact whose reference was handed out.   *)
(***************************************************************************)
THEOREM NoOverwrite == Spec => []ReturnedStaysWritten
<1>1. Init => FileInv
  BY DEF Init, FileInv, Holds
<1>2. FileInv => ReturnedStaysWritten
  BY DEF FileInv, ReturnedStaysWritten
<1> QED
  BY <1>1, <1>2, FileStep, TypeCorrect, PTL DEF Spec

(***************************************************************************)
(* A reader gets the bytes of the writer whose reference it reads, or an   *)
(* error.                                                                  *)
(***************************************************************************)
THEOREM ReadsAreFaithful == Spec => []ReadersGetWhatWasWritten
<1>1. Init => ReadersGetWhatWasWritten
  BY DEF Init, ReadersGetWhatWasWritten
<1>2. TypeOK /\ ReadersGetWhatWasWritten /\ [Next]_vars => ReadersGetWhatWasWritten'
  <2> SUFFICES ASSUME TypeOK, ReadersGetWhatWasWritten, [Next]_vars
               PROVE  ReadersGetWhatWasWritten'
    OBVIOUS
  <2> USE DEF TypeOK, ReadersGetWhatWasWritten, readVars
  <2>1. ASSUME NEW w \in Writers,
               \/ CheckPath(w) \/ CreateExclusive(w) \/ RefuseExisting(w)
               \/ WritePayload(w) \/ WriteRaises(w)
               \/ ReturnRef(w) \/ ConfirmRaises(w) \/ Die(w)
        PROVE  UNCHANGED readVars
    BY <2>1 DEF CheckPath, CreateExclusive, RefuseExisting, WritePayload,
                WriteRaises, ReturnRef, ConfirmRaises, Die
  <2>2. ASSUME NEW x \in Readers, NEW w \in Writers, ReadBuffer(x, w)
        PROVE  ReadersGetWhatWasWritten'
    BY <2>2 DEF ReadBuffer
  <2>3. ASSUME NEW x \in Readers, VerifyBuffer(x) PROVE ReadersGetWhatWasWritten'
    BY <2>3 DEF VerifyBuffer, Matches
  <2>4. ASSUME NEW p \in Paths, Meddle(p) PROVE UNCHANGED readVars
    BY <2>4 DEF Meddle
  <2>5. CASE UNCHANGED vars
    BY <2>5 DEF vars
  <2> QED
    BY <2>1, <2>2, <2>3, <2>4, <2>5 DEF Next
<1> QED
  BY <1>1, <1>2, TypeCorrect, PTL DEF Spec

=============================================================================
