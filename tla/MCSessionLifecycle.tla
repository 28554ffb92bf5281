-------------------------- MODULE MCSessionLifecycle --------------------------
(* Instances of SessionLifecycle and its refinement for TLC. *)
EXTENDS LifecycleCustody, TLC

CONSTANTS r1, r2, r3, r4, s1, s2, s3, p1

\* Two runs of one session and one of another on one profile; one of a session
\* whose config is not supported.
SharedSessionOf == r1 :> s1 @@ r2 :> s1 @@ r3 :> s2 @@ r4 :> s3
SharedProfileOf == s1 :> p1 @@ s2 :> p1 @@ s3 :> p1

=============================================================================
