--------------------------- MODULE MCSessionCatalog ---------------------------
(* An instance of SessionCatalog for TLC. *)
EXTENDS SessionCatalog, TLC

CONSTANTS p1, s1, r1, r2, c1, c2

MCProfileOf == s1 :> p1

\* Two runs of one session: one takes both snapshots, the other only the initial.
MCSessionOf == r1 :> s1 @@ r2 :> s1
MCSnapshots == r1 :> {"initial", "final"} @@ r2 :> {"initial"}

\* The plan of the first reports a screenshot, that of the second nothing.
MCDiagnosticOrder == r1 :> 10 @@ r2 :> Null

\* One client records runs, the other reads and edits records: both write.
MCGives ==
    c1 :> {"profile", "session", "run", "health"} @@ c2 :> {"session", "show", "edit"}

=============================================================================
