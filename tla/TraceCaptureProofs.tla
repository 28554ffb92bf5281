-------------------------- MODULE TraceCaptureProofs --------------------------
(***************************************************************************)
(* Proofs about TraceCapture, for every finite set of callers and every    *)
(* overlap, fault and cancellation of their calls.                         *)
(***************************************************************************)
EXTENDS TraceCapture, FiniteSetTheorems, TLAPS

USE DEF InFlight, Goto, MayBegin

(***************************************************************************)
(* Types.  A native stop belongs to a call that has begun: each caller     *)
(* begins once, so there are no more stops than callers.                   *)
(***************************************************************************)
Begun == {c \in Callers : pc[c] # "idle"}

Types ==
    /\ state \in {"active", "stopped", "discarded", "failed"}
    /\ tracing \in BOOLEAN
    /\ pc \in [Callers -> {"idle", "returned", "ignored", "raised"} \cup InFlight]
    /\ artifacts \subseteq Callers

StopsOfCalls == stops \in Nat /\ stops <= Cardinality(Begun)

LEMMA TypesStep == Types /\ [Next]_vars => Types'
<1> SUFFICES ASSUME Types, [Next]_vars PROVE Types'
  OBVIOUS
<1> USE DEF Types
<1>1. ASSUME NEW c \in Callers,
             \/ StopBegins(c) \/ DiscardBegins(c) \/ BeginRaises(c)
             \/ StopRefused(c) \/ DiscardIgnored(c)
      PROVE  Types'
  BY <1>1 DEF StopBegins, DiscardBegins, BeginRaises, StopRefused, DiscardIgnored
<1>2. ASSUME NEW c \in Callers, StopReturns(c) PROVE Types'
  BY <1>2 DEF StopReturns
<1>3. ASSUME NEW c \in Callers, WriteFails(c) \/ NativeStopRaises(c) PROVE Types'
  BY <1>3 DEF WriteFails, NativeStopRaises
<1>4. ASSUME NEW c \in Callers, PersistReturns(c) \/ PersistRaises(c) PROVE Types'
  BY <1>4 DEF PersistReturns, PersistRaises
<1>5. ASSUME NEW c \in Callers, DiscardReturns(c) \/ CallCancelled(c) PROVE Types'
  BY <1>5 DEF DiscardReturns, CallCancelled
<1>6. CASE UNCHANGED vars
  BY <1>6 DEF vars
<1> QED
  BY <1>1, <1>2, <1>3, <1>4, <1>5, <1>6 DEF Next

\* A call that goes on, in any way, has begun already.
LEMMA GoesOn ==
    ASSUME Types, StopsOfCalls, NEW c \in Callers, NEW step,
           pc[c] # "idle", step # "idle", Goto(c, step), stops' = stops
    PROVE  StopsOfCalls'
<1>1. Begun' = Begun
  BY DEF Types, Begun
<1> QED
  BY <1>1 DEF StopsOfCalls

\* A call that begins makes one native stop at most.
LEMMA Begins ==
    ASSUME Types, StopsOfCalls, NEW c \in Callers, NEW step,
           pc[c] = "idle", step # "idle", Goto(c, step), stops' \in {stops, stops + 1}
    PROVE  StopsOfCalls'
<1>1. Begun' = Begun \cup {c} /\ c \notin Begun
  BY DEF Types, Begun
<1>2. IsFiniteSet(Begun)
  BY CallersAssumption, FS_Subset DEF Begun
<1>3. Cardinality(Begun') = Cardinality(Begun) + 1
  BY <1>1, <1>2, FS_AddElement
<1>4. Cardinality(Begun) \in Nat
  BY <1>2, FS_CardinalityType
<1> QED
  BY <1>3, <1>4 DEF StopsOfCalls

LEMMA StopsStep == Types /\ StopsOfCalls /\ [Next]_vars => StopsOfCalls'
<1> SUFFICES ASSUME Types, StopsOfCalls, [Next]_vars PROVE StopsOfCalls'
  OBVIOUS
<1>1. ASSUME NEW c \in Callers, StopBegins(c) PROVE StopsOfCalls'
  <2>1. pc[c] = "idle" /\ Goto(c, "stopping") /\ stops' = stops + 1
    BY <1>1 DEF StopBegins
  <2> QED
    BY <2>1, Begins
<1>2. ASSUME NEW c \in Callers, DiscardBegins(c) PROVE StopsOfCalls'
  <2>1. pc[c] = "idle" /\ Goto(c, "discarding") /\ stops' = stops + 1
    BY <1>2 DEF DiscardBegins
  <2> QED
    BY <2>1, Begins
<1>3. ASSUME NEW c \in Callers, BeginRaises(c) \/ StopRefused(c) \/ DiscardIgnored(c)
      PROVE  StopsOfCalls'
  <2>1. /\ pc[c] = "idle"
        /\ Goto(c, "raised") \/ Goto(c, "ignored")
        /\ stops' = stops
    BY <1>3 DEF BeginRaises, StopRefused, DiscardIgnored
  <2> QED
    BY <2>1, Begins
<1>4. ASSUME NEW c \in Callers,
             \/ StopReturns(c) \/ WriteFails(c) \/ NativeStopRaises(c)
             \/ PersistReturns(c) \/ PersistRaises(c)
             \/ DiscardReturns(c) \/ CallCancelled(c)
      PROVE  StopsOfCalls'
  <2>1. /\ pc[c] # "idle"
        /\ Goto(c, "raised") \/ Goto(c, "returned") \/ Goto(c, "persisting")
        /\ stops' = stops
    BY <1>4 DEF StopReturns, WriteFails, NativeStopRaises, PersistReturns, PersistRaises,
                DiscardReturns, CallCancelled
  <2> QED
    BY <2>1, GoesOn
<1>5. CASE UNCHANGED vars
  BY <1>5 DEF vars, StopsOfCalls, Begun
<1> QED
  BY <1>1, <1>2, <1>3, <1>4, <1>5 DEF Next

(***************************************************************************)
(* Every state of a handle and its calls is well typed.                    *)
(***************************************************************************)
THEOREM TypeCorrect == Spec => []TypeOK
<1>1. Init => Types /\ StopsOfCalls
  <2> SUFFICES ASSUME Init PROVE Types /\ StopsOfCalls
    OBVIOUS
  <2>1. Types
    BY DEF Init, Types
  <2>2. IsFiniteSet(Begun)
    BY CallersAssumption, FS_Subset DEF Begun
  <2>3. Cardinality(Begun) \in Nat
    BY <2>2, FS_CardinalityType
  <2> QED
    BY <2>1, <2>3 DEF Init, StopsOfCalls
<1>2. Types /\ StopsOfCalls => TypeOK
  <2> SUFFICES ASSUME Types, StopsOfCalls PROVE TypeOK
    OBVIOUS
  <2>1. Begun \subseteq Callers
    BY DEF Begun
  <2>2. /\ Cardinality(Begun) \in Nat
        /\ Cardinality(Callers) \in Nat
        /\ Cardinality(Begun) <= Cardinality(Callers)
    BY <2>1, CallersAssumption, FS_Subset, FS_CardinalityType
  <2>3. stops \in 0..Cardinality(Callers)
    BY <2>2 DEF StopsOfCalls
  <2> QED
    BY <2>3 DEF Types, TypeOK
<1> QED
  BY <1>1, <1>2, TypesStep, StopsStep, PTL DEF Spec

(***************************************************************************)
(* The inductive invariant: the native tracing goes off once and for all,  *)
(* with at most the one artifact of the call that saw it go off; a call    *)
(* that persists its metadata comes after that; a handle that is neither   *)
(* active nor failed is one whose tracing is off; and a handle that failed *)
(* did so in a call that raised before it could keep anything.             *)
(***************************************************************************)
CallerInv(c) ==
    /\ pc[c] = "persisting" => ~tracing /\ artifacts # {}
    /\ pc[c] = "returned" => ~tracing
    /\ pc[c] = "ignored" => state # "active"
    /\ c \in artifacts => pc[c] \notin {"idle", "stopping", "discarding"}
    /\ c \in artifacts /\ state = "active" => pc[c] \in {"persisting", "raised"}

CaptureInv ==
    /\ artifacts = {} \/ \E c \in Callers : artifacts = {c}
    /\ tracing => artifacts = {} /\ state \in {"active", "failed"}
    /\ state = "stopped" => artifacts # {}
    /\ state = "discarded" => artifacts = {}
    /\ state = "failed" => \E d \in Callers : pc[d] = "raised" /\ d \notin artifacts
    /\ \A c \in Callers : CallerInv(c)

LEMMA CaptureStep == Types /\ CaptureInv /\ [Next]_vars => CaptureInv'
<1> SUFFICES ASSUME Types, CaptureInv, [Next]_vars PROVE CaptureInv'
  OBVIOUS
<1> USE DEF Types, CaptureInv, CallerInv
<1>1. ASSUME NEW c \in Callers, StopBegins(c) \/ DiscardBegins(c) \/ BeginRaises(c)
      PROVE  CaptureInv'
  BY <1>1 DEF StopBegins, DiscardBegins, BeginRaises
<1>2. ASSUME NEW c \in Callers, StopRefused(c) \/ DiscardIgnored(c) PROVE CaptureInv'
  BY <1>2 DEF StopRefused, DiscardIgnored
<1>3. ASSUME NEW c \in Callers, StopReturns(c) PROVE CaptureInv'
  BY <1>3 DEF StopReturns
<1>4. ASSUME NEW c \in Callers, WriteFails(c) PROVE CaptureInv'
  BY <1>4 DEF WriteFails
<1>5. ASSUME NEW c \in Callers, NativeStopRaises(c) PROVE CaptureInv'
  <2>1. tracing' => tracing
    BY <1>5, Zenon DEF NativeStopRaises
  <2>2. /\ pc[c] \in {"stopping", "discarding"}
        /\ pc' = [pc EXCEPT ![c] = "raised"]
        /\ state' = "failed" /\ artifacts' = artifacts
    BY <1>5 DEF NativeStopRaises
  <2>3. \A d \in Callers : CallerInv(d)'
    BY <2>1, <2>2
  <2>4. pc'[c] = "raised" /\ c \notin artifacts'
    BY <2>2
  <2> QED
    BY <2>1, <2>2, <2>3, <2>4
<1>6. ASSUME NEW c \in Callers, PersistReturns(c) \/ PersistRaises(c) PROVE CaptureInv'
  BY <1>6 DEF PersistReturns, PersistRaises
<1>7. ASSUME NEW c \in Callers, DiscardReturns(c) PROVE CaptureInv'
  BY <1>7 DEF DiscardReturns
<1>8. ASSUME NEW c \in Callers, CallCancelled(c) PROVE CaptureInv'
  <2>1. tracing' => tracing
    BY <1>8, Zenon DEF CallCancelled
  <2>2. /\ pc' = [pc EXCEPT ![c] = "raised"]
        /\ state' = state /\ artifacts' = artifacts
    BY <1>8 DEF CallCancelled
  <2> QED
    BY <2>1, <2>2
<1>9. CASE UNCHANGED vars
  BY <1>9 DEF vars
<1> QED
  BY <1>1, <1>2, <1>3, <1>4, <1>5, <1>6, <1>7, <1>8, <1>9 DEF Next

LEMMA CaptureCorrect == Spec => [](Types /\ CaptureInv)
<1>1. Init => Types /\ CaptureInv
  BY DEF Init, Types, CaptureInv, CallerInv
<1> QED
  BY <1>1, TypesStep, CaptureStep, PTL DEF Spec

(***************************************************************************)
(* A capture yields at most one trace.  A stopped handle has it, an active *)
(* or discarded one has none (but for a call in persistence), and a failed *)
(* one has had a call raise that kept none.                                *)
(***************************************************************************)
THEOREM HandleTellsTheTruth == Spec => []StateTellsWhatWasKept
<1>1. Types /\ CaptureInv => StateTellsWhatWasKept
  <2> SUFFICES ASSUME Types, CaptureInv PROVE StateTellsWhatWasKept
    OBVIOUS
  <2>1. Cardinality(artifacts) <= 1
    <3>1. CASE artifacts = {}
      BY <3>1, FS_EmptySet
    <3>2. ASSUME NEW c \in Callers, artifacts = {c} PROVE Cardinality(artifacts) <= 1
      BY <3>2, FS_Singleton
    <3> QED
      BY <3>1, <3>2 DEF CaptureInv
  <2> QED
    BY <2>1 DEF Types, CaptureInv, CallerInv, StateTellsWhatWasKept
<1> QED
  BY <1>1, CaptureCorrect, PTL

(***************************************************************************)
(* A stop or discard that did its work and returned left no recording      *)
(* behind; one that had nothing to do may have, on a failed handle.        *)
(***************************************************************************)
THEOREM ReturnSettlesTracing == Spec => []ReturnMeansTracingSettled
<1>1. Types /\ CaptureInv => ReturnMeansTracingSettled
  BY DEF Types, CaptureInv, CallerInv, ReturnMeansTracingSettled
<1> QED
  BY <1>1, CaptureCorrect, PTL

=============================================================================
