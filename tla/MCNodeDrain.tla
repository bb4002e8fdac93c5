------------------------------ MODULE MCNodeDrain ------------------------------
(***************************************************************************)
(* Instances of NodeDrain for TLC: a pod of a StatefulSet, a pod of a      *)
(* ReplicaSet and a pod the scheduler may still place on the node.         *)
(***************************************************************************)
EXTENDS NodeDrain, TLC

CONSTANTS web, db, late

Disturb(f) == [k \in Disturbance |-> IF k \in DOMAIN f THEN f[k] ELSE 0]

TwoOfAll ==
    Disturb([fault |-> 1, lost |-> 1, touch |-> 1, deleted |-> 1, recover |-> 1, any |-> 2])
RecoverOnce == Disturb([recover |-> 1, any |-> 1])
=============================================================================
