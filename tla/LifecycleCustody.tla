--------------------------- MODULE LifecycleCustody ---------------------------
(***************************************************************************)
(* The managed run implements exclusive custody of its profile: the lock   *)
(* file's holder is the custodian, an open runtime is a browser (a lost    *)
(* one is nobody's), and a run is done with its profile once it neither    *)
(* holds the lock nor has a call under way that could still take it.       *)
(***************************************************************************)
EXTENDS SessionLifecycle

Browses(r) == runtime[r] = "open"

IsDone(r) ==
    /\ pc[r] \notin {"idle", "layout", "acquire"}
    /\ thread[r] # "acquiring"
    /\ holder[ProfileOfRun(r)] # r

Browsing == {r \in Runs : Browses(r)}
Done == {r \in Runs : IsDone(r)}

Custody == INSTANCE ProfileCustody
             WITH Users <- Runs,
                  Places <- Profiles,
                  PlaceOf <- [r \in Runs |-> ProfileOfRun(r)],
                  Nobody <- NoRun,
                  custodian <- holder,
                  browsing <- Browsing,
                  done <- Done

(***************************************************************************)
(* Whatever a run does, with its calls cancelled, its process killed and   *)
(* its abandoned handles collected at any time, is a step of the custody   *)
(* protocol or none: no run takes a held profile, takes a profile twice,   *)
(* or lets go of it with its browser still under its control.              *)
(***************************************************************************)
CustodySpec == Custody!Spec

=============================================================================
