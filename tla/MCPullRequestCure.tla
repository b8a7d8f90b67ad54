---- MODULE MCPullRequestCure ----
(***************************************************************************)
(* Instances of PullRequestCure for TLC.                                   *)
(***************************************************************************)
EXTENDS PullRequestCure, TLC

CONSTANTS p1, p2, r1, r2

(* One pull request, or one in each of two repositories.                   *)
OneHome == p1 :> r1
TwoHomes == p1 :> r1 @@ p2 :> r2

(* Only the first cure is worked on, and sweeps overlap only while nothing *)
(* has failed, nothing is opted out and no completion is being checked.    *)
Limited ==
  /\ \A i \in DOMAIN cures : i > 1 => cures[i].status = "queued"
  /\ \/ /\ cureFaults = 0 /\ optedIn = Repositories
        /\ \A i \in DOMAIN cures : cures[i].status \notin Calls
     \/ Cardinality({s \in CureSweeps : ~Sweeping(s, "idle")}) <= 1
====
