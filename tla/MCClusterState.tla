---------------------------- MODULE MCClusterState ----------------------------
(* Instances of ClusterState for TLC. *)
EXTENDS ClusterState, TLC

CONSTANTS g1, g2, n1, n2, n3, none

MCGroupOf == n1 :> g1 @@ n2 :> g1 @@ n3 :> IF g2 \in Group THEN g2 ELSE none

Early(s) == [type |-> "Ready", status |-> s, delay |-> 1]
Late(s) == [type |-> "Ready", status |-> s, delay |-> 9]
Looks(taint, age, c) == [tainted |-> taint, age |-> age, conditions |-> {c}]

Running == Looks("no", 9, Early("True"))
Starting == Looks("no", 1, Early("False"))
Stuck == Looks("no", 9, Early("False"))
Broken == Looks("no", 9, Late("Unknown"))
Deleted == Looks("yes", 9, Early("True"))

Sees(nodes, size) ==
    [nodes |-> nodes, listed |-> DOMAIN nodes, size |-> [g \in Group |-> size], lost |-> {}]

(* All run, but the group of one is not found; a node is being deleted;    *)
(* one is stuck and one missing; the groups are empty.                     *)
MCObservation ==
    {[Sees(n1 :> Running @@ n2 :> Running @@ n3 :> Broken, 2) EXCEPT !.lost = {n2}],
     Sees(n1 :> Running @@ n2 :> Deleted, 2),
     [Sees(n1 :> Stuck @@ n3 :> Starting, 2) EXCEPT !.listed = {n1, n2}],
     Sees(<< >>, 0)}
=============================================================================
