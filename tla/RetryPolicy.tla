----------------------------- MODULE RetryPolicy -----------------------------
(***************************************************************************)
(* retry_sync and retry_async (resilience/retry.py): a call repeated under *)
(* a policy and the declared safety of its operation.  An attempt that     *)
(* fails may have taken effect all the same: its answer was lost.          *)
(***************************************************************************)
EXTENDS Integers, Sequences, FailureTaxonomy

CONSTANTS
    Failures,     \* the classes of exception an attempt may fail with
    Kinds,        \* the kinds a policy may list
    MaxAttempts,  \* the largest max_attempts of a policy (10)
    Delays,       \* the values a policy may give each of its delays
    NoFailure     \* no exception

ASSUME RetryAssumption ==
    /\ MaxAttempts \in Nat \ {0}
    /\ Delays \subseteq Nat
    /\ NoFailure \notin Failures

VARIABLES
    policy,   \* the RetryPolicy of the call
    safety,   \* the operation's declared safety
    phase,    \* what the retry loop is doing
    failures, \* the exceptions of the attempts that failed, in order
    effects,  \* how often the operation took effect
    waited,   \* the delay before each further attempt, in order
    raised    \* the exception the caller is given

vars == <<policy, safety, phase, failures, effects, waited, raised>>

Policies ==
    [max_attempts : 1..MaxAttempts, initial_delay : Delays, max_delay : Delays,
     jitter : Delays, retry_on_kinds : SUBSET Kinds]

Safeties == {"side_effect_free", "idempotent", "non_idempotent"}

NeverRetried == {"security_refusal", "usage", "configuration"}

\* Slip: the declared safety is not looked at.
AttemptsOfPolicy(p, s) == IF p.retry_on_kinds = {} THEN 1 ELSE p.max_attempts

EffectiveAttempts(p, s) ==
    IF s = "non_idempotent" \/ p.retry_on_kinds = {} THEN 1 ELSE p.max_attempts

\* Slip: what the policy lists is retried, whatever it is.
ListedByPolicy(e, p) ==
    e \notin ProcessControl /\ Classify(e).kind \in p.retry_on_kinds

Retryable(e, p) ==
    /\ e \notin ProcessControl
    /\ Classify(e).kind \notin NeverRetried
    /\ Classify(e).kind \in p.retry_on_kinds

\* Slip: a policy without a maximum waits for ever longer.
UncappedWait(p, n) == p.initial_delay * 2 ^ (n - 1)

\* wait_exponential: doubled for every attempt made, up to a cap.
MaxWait(p) ==
    IF p.max_delay > 0 THEN p.max_delay
    ELSE 60 * (IF p.initial_delay > 1 THEN p.initial_delay ELSE 1)

ExponentialWait(p, n) ==
    IF p.initial_delay * 2 ^ (n - 1) > MaxWait(p)
    THEN MaxWait(p) ELSE p.initial_delay * 2 ^ (n - 1)

\* The jitter comes on top of the capped delay.
Waits(p, n) == {ExponentialWait(p, n) + j : j \in 0..p.jitter}

Init ==
    /\ policy \in Policies
    /\ safety \in Safeties
    /\ phase = "calling"
    /\ failures = <<>>
    /\ effects = 0
    /\ waited = <<>>
    /\ raised = NoFailure

-----------------------------------------------------------------------------
Succeed ==
    /\ phase = "calling"
    /\ effects' = effects + 1
    /\ phase' = "returned"
    /\ UNCHANGED <<policy, safety, failures, waited, raised>>

\* The attempt raises, before or after the operation took effect.
FailAttempt ==
    /\ phase = "calling"
    /\ \E e \in Failures : failures' = Append(failures, e)
    /\ effects' \in {effects, effects + 1}
    /\ phase' = "failed"
    /\ UNCHANGED <<policy, safety, waited, raised>>

LastFailure == failures[Len(failures)]

MayRetry(n) == n < EffectiveAttempts(policy, safety)

Wait ==
    /\ phase = "failed"
    /\ Retryable(LastFailure, policy)
    /\ MayRetry(Len(failures))
    /\ \E d \in Waits(policy, Len(failures)) : waited' = Append(waited, d)
    /\ phase' = "waiting"
    /\ UNCHANGED <<policy, safety, failures, effects, raised>>

CallAgain ==
    /\ phase = "waiting"
    /\ phase' = "calling"
    /\ UNCHANGED <<policy, safety, failures, effects, waited, raised>>

\* Slip: the failure that is raised is the first one.
FirstFailure == failures[1]

\* reraise=True: the exception of the last attempt, and no RetryError.
Reraised == LastFailure

GiveUp ==
    /\ phase = "failed"
    /\ ~(Retryable(LastFailure, policy) /\ MayRetry(Len(failures)))
    /\ raised' = Reraised
    /\ phase' = "raised"
    /\ UNCHANGED <<policy, safety, failures, effects, waited>>

\* The caller is cancelled, or interrupted, while the loop sleeps.
CancelWait ==
    /\ phase = "waiting"
    /\ raised' \in {"CancelledError", "KeyboardInterrupt"}
    /\ phase' = "raised"
    /\ UNCHANGED <<policy, safety, failures, effects, waited>>

Next == Succeed \/ FailAttempt \/ Wait \/ CallAgain \/ GiveUp \/ CancelWait

Spec == Init /\ [][Next]_vars

-----------------------------------------------------------------------------
(***************************************************************************)
(* Properties                                                              *)
(***************************************************************************)
(* Type correctness of the retry loop's state. *)
TypeOK ==
    /\ policy \in Policies
    /\ safety \in Safeties
    /\ phase \in {"calling", "failed", "waiting", "returned", "raised"}
    /\ failures \in Seq(Failures)
    /\ effects \in Nat
    /\ waited \in Seq(Nat)
    /\ raised \in Failures \cup {NoFailure, "CancelledError", "KeyboardInterrupt"}

(***************************************************************************)
(* An operation declared non_idempotent takes effect once at most, even    *)
(* if its answer was lost and the policy would have it repeated            *)
(* (_effective_attempts).  Whatever the declaration, it takes effect no    *)
(* more often than the policy allows attempts.                             *)
(***************************************************************************)
NeverMoreThanDeclared ==
    /\ safety = "non_idempotent" => effects <= 1
    /\ effects <= policy.max_attempts

(***************************************************************************)
(* What must not be repeated is not: after a refusal, a misuse or an       *)
(* interrupt nothing is attempted again, whatever the policy lists; and a  *)
(* call whose task was cancelled inside an attempt only when the policy    *)
(* lists "internal", the kind a CancelledError is classified as.           *)
(***************************************************************************)
FinalFailures == {"SecurityRefusal", "CliSecurityError", "PersistenceSecurityError",
                  "UsageError", "CliUsageError", "ConfigurationError"} \cup ProcessControl

NothingFinalIsRepeated ==
    \A i \in 1..Len(failures) :
        i < Len(failures) \/ phase \in {"waiting", "calling", "returned"} =>
            /\ failures[i] \notin FinalFailures
            /\ failures[i] = "CancelledError" => "internal" \in policy.retry_on_kinds

(***************************************************************************)
(* The caller is told of what happened last: the exception it is given is  *)
(* that of the last attempt made, unless it cancelled the call between two *)
(* attempts itself; and it is given a result only of an attempt that       *)
(* succeeded (reraise=True, retry_async's "with attempt").                 *)
(***************************************************************************)
CallerIsToldOfTheLast ==
    /\ phase = "raised" =>
          \/ raised = LastFailure /\ Len(failures) > Len(waited)
          \/ raised \in {"CancelledError", "KeyboardInterrupt"} /\ Len(waited) = Len(failures)
    /\ phase = "returned" => effects >= 1 /\ Len(failures) = Len(waited)

(***************************************************************************)
(* No delay exceeds the policy's maximum by more than its jitter, and a    *)
(* policy without a maximum still has one (_build_wait).                   *)
(***************************************************************************)
DelaysAreBounded ==
    \A i \in 1..Len(waited) :
        IF policy.max_delay > 0 THEN waited[i] <= policy.max_delay + policy.jitter
        ELSE waited[i] <= 60 * (policy.initial_delay + 1) + policy.jitter

=============================================================================
