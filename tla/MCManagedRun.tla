----------------------------- MODULE MCManagedRun -----------------------------
(* Instances of ManagedRun for TLC. *)
EXTENDS ManagedRun, TLC

CONSTANTS r1, r2, r3, r4, s1, p1

\* One plan reports a diagnostic in its own place, one on the final snapshot's.
MCDiagnosticOrders == r1 :> <<10>> @@ r2 :> <<>> @@ r3 :> <<100>> @@ r4 :> <<>>

\* Runs of one session.
OneSessionOf == r1 :> s1 @@ r2 :> s1 @@ r3 :> s1 @@ r4 :> s1
OneProfileOf == s1 :> p1
NoDiagnosticOrders == [r \in {r1, r2, r3, r4} |-> <<>>]

=============================================================================
