---------------------------- MODULE MCArtifactStore ----------------------------
(* An instance of ArtifactStore for TLC. *)
EXTENDS ArtifactStore, TLC

CONSTANTS w1, w2, w3, x1, x2, p1, p2

\* Two writers race for one path; the third has another for itself.
MCPathOf == w1 :> p1 @@ w2 :> p1 @@ w3 :> p2

=============================================================================
