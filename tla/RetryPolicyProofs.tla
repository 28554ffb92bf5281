-------------------------- MODULE RetryPolicyProofs --------------------------
(***************************************************************************)
(* Proofs about RetryPolicy, for every set of failures and kinds, every    *)
(* policy and every number of attempts.  The lengths of the delays are     *)
(* left to TLC: the provers know nothing of exponentiation.                *)
(***************************************************************************)
EXTENDS RetryPolicy, TLAPS

(***************************************************************************)
(* What the taxonomy says of the failures that are final: their kinds are  *)
(* never retried, and a cancellation is of the kind "internal".            *)
(***************************************************************************)
LEMMA FinalKinds ==
    ASSUME NEW e \in FinalFailures, NEW p
    PROVE  ~Retryable(e, p)
<1>1. CASE e \in ProcessControl
  BY <1>1 DEF Retryable
<1>2. CASE e \in {"SecurityRefusal", "UsageError", "ConfigurationError"}
  <2>1. Classify(e).kind \in NeverRetried
    BY <1>2 DEF Classify, SightStalkerErrors, Native, Outcome, NeverRetried
  <2> QED
    BY <2>1 DEF Retryable
<1>3. CASE e \in {"CliSecurityError", "CliUsageError"}
  <2>1. Classify(e) = CliOutcome(e)
    BY <1>3 DEF Classify, SightStalkerErrors, Native, Cli
  <2>2. Classify(e).kind \in NeverRetried
    BY <1>3, <2>1 DEF CliOutcome, Cli, KindOfLabel, Outcome, NeverRetried
  <2> QED
    BY <2>2 DEF Retryable
<1>4. CASE e = "PersistenceSecurityError"
  <2>1. Classify(e) = Service[e]
    BY <1>4 DEF Classify, SightStalkerErrors, Native, Cli, Service
  <2>2. Classify(e).kind \in NeverRetried
    BY <1>4, <2>1 DEF Service, Outcome, NeverRetried
  <2> QED
    BY <2>2 DEF Retryable
<1> QED
  BY <1>1, <1>2, <1>3, <1>4 DEF FinalFailures

LEMMA CancellationIsInternal ==
    ASSUME NEW p, Retryable("CancelledError", p)
    PROVE  "internal" \in p.retry_on_kinds
<1>1. Classify("CancelledError") = Internal
  BY DEF Classify, SightStalkerErrors, Native, Cli, Service
<1> QED
  BY <1>1 DEF Retryable, Internal, Outcome

LEMMA AttemptsBound ==
    ASSUME NEW p \in Policies, NEW s \in Safeties
    PROVE  /\ EffectiveAttempts(p, s) \in Nat
           /\ EffectiveAttempts(p, s) >= 1
           /\ EffectiveAttempts(p, s) <= p.max_attempts
           /\ s = "non_idempotent" => EffectiveAttempts(p, s) = 1
BY RetryAssumption DEF Policies, Safeties, EffectiveAttempts

\* The cap holds whatever the power of two, and with the jitter on top of it.
LEMMA WaitsAreCapped ==
    ASSUME NEW p \in Policies, NEW n \in Nat \ {0}, NEW d \in Waits(p, n)
    PROVE  IF p.max_delay > 0 THEN d <= p.max_delay + p.jitter
           ELSE d <= 60 * (p.initial_delay + 1) + p.jitter
<1>1. p.initial_delay \in Nat /\ p.max_delay \in Nat /\ p.jitter \in Nat
  BY RetryAssumption DEF Policies
<1>2. /\ MaxWait(p) \in Nat
      /\ MaxWait(p) <= IF p.max_delay > 0 THEN p.max_delay ELSE 60 * (p.initial_delay + 1)
  BY <1>1 DEF MaxWait
<1>3. ExponentialWait(p, n) \in Int /\ ExponentialWait(p, n) <= MaxWait(p)
  <2>1. n - 1 \in Nat
    OBVIOUS
  <2> DEFINE doubled == p.initial_delay * 2 ^ (n - 1)
  <2>2. doubled \in Int
    BY <1>1, <2>1
  <2>3. ExponentialWait(p, n) = IF doubled > MaxWait(p) THEN MaxWait(p) ELSE doubled
    BY DEF ExponentialWait
  <2> HIDE DEF doubled
  <2> QED
    BY <1>2, <2>2, <2>3
<1>4. PICK j \in 0..p.jitter : d = ExponentialWait(p, n) + j
  BY DEF Waits
<1> QED
  BY <1>1, <1>2, <1>3, <1>4

(***************************************************************************)
(* The inductive invariant: how many attempts there were when the loop is  *)
(* where it is, how many of them can have taken effect, and that each one  *)
(* that was followed by another had failed with something to retry.        *)
(***************************************************************************)
AnyDelay == UNION {Waits(p, n) : p \in Policies, n \in Nat}

Attempts == Len(failures)

Allowed == EffectiveAttempts(policy, safety)

LoopTypes ==
    /\ policy \in Policies
    /\ safety \in Safeties
    /\ phase \in {"calling", "failed", "waiting", "returned", "raised"}
    /\ failures \in Seq(Failures)
    /\ effects \in Nat
    /\ waited \in Seq(AnyDelay)

LoopCounts ==
    /\ phase \in {"calling", "waiting", "returned"} => Attempts < Allowed
    /\ phase \in {"failed", "raised"} => Attempts <= Allowed
    /\ phase \in {"failed", "waiting", "raised"} => Attempts > 0
    /\ effects <= Attempts + (IF phase = "returned" THEN 1 ELSE 0)
    /\ phase = "returned" => effects >= 1
    /\ phase \in {"calling", "waiting", "returned"} => Len(waited) = Attempts
    /\ phase = "failed" => Len(waited) + 1 = Attempts

LoopEnds ==
    phase = "raised" =>
        \/ raised = failures[Len(failures)] /\ Len(failures) > Len(waited)
        \/ raised \in {"CancelledError", "KeyboardInterrupt"} /\ Len(waited) = Len(failures)

LoopRetries ==
    \A i \in 1..Len(failures) :
        i < Len(failures) \/ phase \in {"waiting", "calling", "returned"} =>
            Retryable(failures[i], policy)

LoopInv == LoopTypes /\ LoopCounts /\ LoopEnds /\ LoopRetries

LEMMA LoopInit == Init => LoopInv
<1> SUFFICES ASSUME Init PROVE LoopInv
  OBVIOUS
<1>1. Allowed \in Nat /\ Allowed >= 1
  BY AttemptsBound DEF Init, Allowed
<1>2. failures = <<>> /\ Len(failures) = 0 /\ Len(waited) = 0
  BY DEF Init
<1> QED
  BY <1>1, <1>2 DEF Init, LoopInv, LoopTypes, LoopCounts, LoopEnds, LoopRetries, Attempts

LEMMA LoopStep == LoopInv /\ [Next]_vars => LoopInv'
<1> SUFFICES ASSUME LoopInv, [Next]_vars PROVE LoopInv'
  OBVIOUS
<1> USE DEF LoopInv, LoopTypes
<1>0. Allowed \in Nat /\ Len(failures) \in Nat /\ Len(waited) \in Nat
  BY AttemptsBound DEF Allowed
<1>1. CASE Succeed
  <2>1. LoopTypes' /\ LoopEnds' /\ LoopRetries'
    BY <1>1 DEF Succeed, LoopEnds, LoopRetries
  <2>2. LoopCounts'
    BY <1>0, <1>1 DEF Succeed, LoopCounts, Attempts, Allowed
  <2> QED
    BY <2>1, <2>2
<1>2. CASE FailAttempt
  <2>1. PICK e \in Failures : failures' = Append(failures, e)
    BY <1>2 DEF FailAttempt
  <2>2. /\ Len(failures') = Len(failures) + 1
        /\ \A i \in 1..Len(failures) : failures'[i] = failures[i]
        /\ failures' \in Seq(Failures)
    BY <2>1
  <2>3. LoopTypes' /\ LoopEnds'
    BY <1>2, <2>2 DEF FailAttempt, LoopEnds
  <2>4. LoopCounts'
    BY <1>0, <1>2, <2>2 DEF FailAttempt, LoopCounts, Attempts, Allowed
  <2>5. LoopRetries'
    BY <1>0, <1>2, <2>2 DEF FailAttempt, LoopRetries
  <2> QED
    BY <2>3, <2>4, <2>5
<1>3. CASE Wait
  <2>1. PICK d \in Waits(policy, Len(failures)) : waited' = Append(waited, d)
    BY <1>3 DEF Wait
  <2>2. d \in AnyDelay
    BY <1>0 DEF AnyDelay
  <2>3. Len(waited') = Len(waited) + 1 /\ waited' \in Seq(AnyDelay)
    BY <2>1, <2>2
  <2>4. LoopTypes' /\ LoopEnds'
    BY <1>3, <2>3 DEF Wait, LoopEnds
  <2>5. LoopCounts'
    BY <1>0, <1>3, <2>3 DEF Wait, MayRetry, LoopCounts, Attempts, Allowed
  <2>6. LoopRetries'
    BY <1>0, <1>3 DEF Wait, LastFailure, LoopRetries
  <2> QED
    BY <2>4, <2>5, <2>6
<1>4. CASE CallAgain
  BY <1>4 DEF CallAgain, LoopCounts, LoopEnds, LoopRetries, Attempts, Allowed
<1>5. CASE GiveUp
  <2>1. LoopTypes' /\ LoopCounts' /\ LoopRetries'
    BY <1>0, <1>5 DEF GiveUp, LoopCounts, LoopRetries, Attempts, Allowed
  <2>2. LoopEnds'
    BY <1>0, <1>5 DEF GiveUp, Reraised, LastFailure, LoopEnds, LoopCounts, Attempts
  <2> QED
    BY <2>1, <2>2
<1>6. CASE CancelWait
  <2>1. Attempts > 0
    BY <1>0, <1>6 DEF CancelWait, LoopCounts, Attempts
  <2> QED
    BY <1>0, <1>6, <2>1 DEF CancelWait, LoopCounts, LoopEnds, LoopRetries, Attempts, Allowed
<1>7. CASE UNCHANGED vars
  BY <1>7 DEF vars, LoopCounts, LoopEnds, LoopRetries, Attempts, Allowed
<1> QED
  BY <1>1, <1>2, <1>3, <1>4, <1>5, <1>6, <1>7 DEF Next

(***************************************************************************)
(* The loop invariant holds in every reachable state of a call.            *)
(***************************************************************************)
THEOREM LoopCorrect == Spec => []LoopInv
BY LoopInit, LoopStep, PTL DEF Spec

(***************************************************************************)
(* An operation takes effect no more often than its declared safety and    *)
(* the policy allow, whatever answers are lost.                            *)
(***************************************************************************)
THEOREM DeclaredSafetyHolds == Spec => []NeverMoreThanDeclared
<1>1. LoopInv => NeverMoreThanDeclared
  <2> SUFFICES ASSUME LoopInv PROVE NeverMoreThanDeclared
    OBVIOUS
  <2>1. /\ Allowed \in Nat
        /\ Allowed <= policy.max_attempts
        /\ safety = "non_idempotent" => Allowed = 1
    BY AttemptsBound DEF LoopInv, LoopTypes, Allowed
  <2>2. effects <= Allowed
    BY <2>1 DEF LoopInv, LoopTypes, LoopCounts, Attempts
  <2>3. policy.max_attempts \in Nat /\ effects \in Nat
    BY DEF LoopInv, LoopTypes, Policies
  <2> QED
    BY <2>1, <2>2, <2>3 DEF NeverMoreThanDeclared
<1> QED
  BY <1>1, LoopCorrect, PTL

(***************************************************************************)
(* No refusal, misuse or interrupt is ever followed by another attempt,    *)
(* and a cancellation only under a policy that lists "internal".           *)
(***************************************************************************)
THEOREM FinalFailuresEndTheCall == Spec => []NothingFinalIsRepeated
<1>1. LoopInv => NothingFinalIsRepeated
  BY FinalKinds, CancellationIsInternal DEF LoopInv, LoopRetries, NothingFinalIsRepeated
<1> QED
  BY <1>1, LoopCorrect, PTL

(***************************************************************************)
(* The caller is given the exception of the last attempt, or a result of   *)
(* an attempt that succeeded.                                              *)
(***************************************************************************)
THEOREM CallerLearnsTheLast == Spec => []CallerIsToldOfTheLast
<1>1. LoopInv => CallerIsToldOfTheLast
  BY DEF LoopInv, LoopEnds, LoopCounts, CallerIsToldOfTheLast, LastFailure, Attempts
<1> QED
  BY <1>1, LoopCorrect, PTL

LEMMA DelayStep == LoopInv /\ DelaysAreBounded /\ [Next]_vars => DelaysAreBounded'
<1> SUFFICES ASSUME LoopInv, DelaysAreBounded, [Next]_vars PROVE DelaysAreBounded'
  OBVIOUS
<1>1. CASE Wait
  <2>1. PICK d \in Waits(policy, Len(failures)) : waited' = Append(waited, d)
    BY <1>1 DEF Wait
  <2>2. policy \in Policies /\ policy' = policy /\ Len(failures) \in Nat \ {0}
    BY <1>1 DEF Wait, LoopInv, LoopTypes, LoopCounts, Attempts
  <2>3. IF policy.max_delay > 0 THEN d <= policy.max_delay + policy.jitter
        ELSE d <= 60 * (policy.initial_delay + 1) + policy.jitter
    BY <2>2, WaitsAreCapped
  <2>4. /\ d \in AnyDelay /\ waited \in Seq(AnyDelay)
        /\ Len(waited') = Len(waited) + 1
        /\ \A i \in 1..Len(waited) + 1 :
              waited'[i] = IF i = Len(waited) + 1 THEN d ELSE waited[i]
    BY <2>1, <2>2 DEF LoopInv, LoopTypes, AnyDelay
  <2> QED
    BY <2>2, <2>3, <2>4 DEF DelaysAreBounded
<1>2. CASE UNCHANGED <<policy, waited>>
  BY <1>2 DEF DelaysAreBounded
<1> QED
  BY <1>1, <1>2 DEF Next, vars, Succeed, FailAttempt, CallAgain, GiveUp, CancelWait

(***************************************************************************)
(* No delay exceeds the policy's maximum by more than its jitter, however  *)
(* many attempts have doubled it, and a policy without a maximum still     *)
(* has one (_build_wait, wait_exponential).                                *)
(***************************************************************************)
THEOREM DelaysStayBounded == Spec => []DelaysAreBounded
<1>1. Init => DelaysAreBounded
  BY DEF Init, DelaysAreBounded
<1> QED
  BY <1>1, DelayStep, LoopCorrect, PTL DEF Spec

=============================================================================
