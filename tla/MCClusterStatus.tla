---------------------------- MODULE MCClusterStatus ----------------------------
(* Instances of ClusterStatus for TLC. *)
EXTENDS ClusterStatus, MCClusterState

(* All run but for one that broke; the second group is empty; one is stuck *)
(* and one is missing.                                                     *)
StatusObservation ==
    {Sees(n1 :> Running @@ n2 :> Running @@ n3 :> Broken, 2),
     Sees(n1 :> Running @@ n2 :> Deleted, 2),
     [Sees(n1 :> Stuck @@ n3 :> Starting, 2) EXCEPT !.listed = {n1, n2}]}
=============================================================================
