---------------------------- MODULE ProfileCustody ----------------------------
(***************************************************************************)
(* What the profile lock promises the rest of the system: a profile has at *)
(* most one user at a time, a user has its profile at most once, and runs  *)
(* a browser only while it does.                                           *)
(***************************************************************************)
CONSTANTS Users, Places, PlaceOf, Nobody

VARIABLES
    custodian,  \* the user of each profile
    browsing,   \* the users with a browser
    done        \* the users that are through with their profile

custodyVars == <<custodian, browsing, done>>

Init ==
    /\ custodian = [p \in Places |-> Nobody]
    /\ browsing = {}
    /\ done = {}

\* A user takes its profile when nobody has it.
Take(u) ==
    /\ u \notin done
    /\ custodian[PlaceOf[u]] = Nobody
    /\ custodian' = [custodian EXCEPT ![PlaceOf[u]] = u]
    /\ UNCHANGED <<browsing, done>>

Browse(u) ==
    /\ u \notin browsing
    /\ custodian[PlaceOf[u]] = u
    /\ browsing' = browsing \cup {u}
    /\ UNCHANGED <<custodian, done>>

\* A user gives its profile back for good, and its browser with it.
Leave(u) ==
    /\ custodian[PlaceOf[u]] = u
    /\ custodian' = [custodian EXCEPT ![PlaceOf[u]] = Nobody]
    /\ browsing' = browsing \ {u}
    /\ done' = done \cup {u}

\* A user gives up without ever having had its profile.
GiveUp(u) ==
    /\ u \notin done
    /\ custodian[PlaceOf[u]] # u
    /\ done' = done \cup {u}
    /\ UNCHANGED <<custodian, browsing>>

Next == \E u \in Users : Take(u) \/ Browse(u) \/ Leave(u) \/ GiveUp(u)

Spec == Init /\ [][Next]_custodyVars

CustodyTypeOK ==
    /\ custodian \in [Places -> Users \cup {Nobody}]
    /\ browsing \subseteq Users
    /\ done \subseteq Users

(***************************************************************************)
(* No profile is browsed by two users, and no user browses after it left:  *)
(* what taking the profile lock before a launch is for.                    *)
(***************************************************************************)
ExclusiveBrowsing ==
    /\ \A u, v \in browsing : PlaceOf[u] = PlaceOf[v] => u = v
    /\ browsing \cap done = {}

=============================================================================
