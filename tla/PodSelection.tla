----------------------------- MODULE PodSelection -----------------------------
(***************************************************************************)
(* Which pods of a node must be moved when it is drained, and which would  *)
(* be on it had it just been created: GetPodsForDeletionOnNodeDrain and    *)
(* its callers, evaluated while the pods of one node come and go.          *)
(* A result is [ok, pods]; the texts of the errors are left out, and with  *)
(* them the order in which the pods are looked at.                         *)
(***************************************************************************)
EXTENDS Integers, Sequences

CONSTANTS
    NodePod,
    About,              \* About[p]: [mirror, kind, owner, namespace, local, label]
    Budgets,            \* the lists of pod disruption budgets [namespace, selector, allowed]
    PodDeletionTimeout,
    Grace,              \* what a deletion adds to the time of the request
    MaxPodTime          \* bound

ASSUME PodsAssumption == PodDeletionTimeout \in Nat /\ Grace \in Nat \ {0}

VARIABLES
    currentTime,
    life,       \* life[p]: "absent", "running" or the deletion timestamp
    pdbs

podsVars == <<currentTime, life, pdbs>>

Absent == -1
Running == 0

PodsInit ==
    /\ currentTime = 0
    /\ life = [p \in NodePod |-> Absent]
    /\ pdbs = <<>>

-----------------------------------------------------------------------------
PodsOnNode == {p \in NodePod : life[p] # Absent}

LongDeleted_AtOnce(p) == life[p] > 0

(* DeletionTimestamp.Before(currentTime - PodDeletionTimeout) *)
LongDeleted(p) == life[p] > 0 /\ life[p] < currentTime - PodDeletionTimeout

Controllers == {"ReplicationController", "DaemonSet", "Job", "ReplicaSet", "StatefulSet"}
IsDaemonSetPod(p) == About[p].kind = "DaemonSet"
IsReplicated(p) == About[p].kind \in Controllers \ {"DaemonSet"}

(* minReplica is compared for replication controllers and replica sets. *)
ReferenceFails(p) ==
    \/ About[p].kind \in Controllers /\ About[p].owner = "gone"
    \/ About[p].kind \in {"ReplicationController", "ReplicaSet"} /\ About[p].owner = "few"

Matches(pdb, p) == About[p].label \in pdb.selector
Invalid(pdb) == "invalid" \in pdb.selector

(* The first budget of kube-system that matches, or does not parse. *)
checkKubeSystemPDBs(p, list) ==
    LET mine == SelectSeq(list, LAMBDA pdb : pdb.namespace = "kube-system")
        hits == {i \in 1 .. Len(mine) : Invalid(mine[i]) \/ Matches(mine[i], p)}
    IN \E i \in hits : ~Invalid(mine[i]) /\ \A j \in hits : i <= j

Blocks(p, list, system, local) ==
    \/ ~IsReplicated(p)
    \/ About[p].namespace = "kube-system" /\ system /\ ~checkKubeSystemPDBs(p, list)
    \/ About[p].local /\ local

Skipped(p) == About[p].mirror \/ LongDeleted(p) \/ IsDaemonSetPod(p)

GetPodsForDeletionOnNodeDrain(podList, list, deleteAll, system, local, checkReferences) ==
    LET failing == {p \in podList :
            /\ ~About[p].mirror /\ ~LongDeleted(p)
            /\ \/ checkReferences /\ ReferenceFails(p)
               \/ ~IsDaemonSetPod(p) /\ ~deleteAll /\ Blocks(p, list, system, local)}
    IN IF failing # {} THEN [ok |-> FALSE, pods |-> {}]
                       ELSE [ok |-> TRUE, pods |-> {p \in podList : ~Skipped(p)}]

-----------------------------------------------------------------------------
checkPdbs(pods, list) ==
    \A i \in 1 .. Len(list) :
        /\ ~Invalid(list[i])
        /\ \A p \in pods : About[p].namespace = list[i].namespace /\ Matches(list[i], p) => list[i].allowed >= 1

(* An error of checkPdbs discards the pods. *)
Checked(result, list) ==
    IF result.ok /\ checkPdbs(result.pods, list) THEN result ELSE [ok |-> FALSE, pods |-> {}]

FastGetPodsToMove(system, local, list) ==
    Checked(GetPodsForDeletionOnNodeDrain(PodsOnNode, list, FALSE, system, local, FALSE), list)

(* It passes deleteAll and not checkReferences, so it neither refuses an   *)
(* unreplicated pod nor looks for the controllers, as its comment says.    *)
DetailedGetPodsForMove(system, local, list) ==
    Checked(GetPodsForDeletionOnNodeDrain(PodsOnNode, list, TRUE, system, local, FALSE), list)

(* FindEmptyNodesToRemove, for this node; no budgets are passed. *)
IsEmptyNode == LET result == FastGetPodsToMove(TRUE, TRUE, <<>>) IN result.ok /\ result.pods = {}

GetRequiredPodsForNode ==
    {p \in PodsOnNode : life[p] = Running} \ GetPodsForDeletionOnNodeDrain(PodsOnNode, <<>>, TRUE, FALSE, FALSE, FALSE).pods

-----------------------------------------------------------------------------
Create(p) ==
    /\ life[p] = Absent
    /\ life' = [life EXCEPT ![p] = Running]
    /\ UNCHANGED <<currentTime, pdbs>>

Delete(p) ==
    /\ life[p] = Running
    /\ life' = [life EXCEPT ![p] = currentTime + Grace]
    /\ UNCHANGED <<currentTime, pdbs>>

PodEnded(p) ==
    /\ life[p] > 0
    /\ life' = [life EXCEPT ![p] = Absent]
    /\ UNCHANGED <<currentTime, pdbs>>

BudgetsChange ==
    /\ \E list \in Budgets \ {pdbs} : pdbs' = list
    /\ UNCHANGED <<currentTime, life>>

PodsTick ==
    /\ currentTime < MaxPodTime
    /\ currentTime' = currentTime + 1
    /\ UNCHANGED <<life, pdbs>>

PodsNext ==
    \/ PodsTick
    \/ BudgetsChange
    \/ \E p \in NodePod : Create(p) \/ Delete(p) \/ PodEnded(p)

PodsSpec == PodsInit /\ [][PodsNext]_podsVars

-----------------------------------------------------------------------------
(* A pod that is not being deleted is moved from the drained node or       *)
(* comes back by itself on a new one, never both and never neither.        *)
MovedOrRequired ==
    LET moved == DetailedGetPodsForMove(TRUE, TRUE, pdbs)
    IN moved.ok => \A p \in PodsOnNode : /\ life[p] = Running => (p \in moved.pods) # (p \in GetRequiredPodsForNode)
                                     /\ life[p] # Running => p \notin GetRequiredPodsForNode

(* A node FindEmptyNodesToRemove returns has no pod that its removal would *)
(* interrupt: no pod that still runs or is still given time to terminate,  *)
(* except the pods that are there on every node.                           *)
EmptyNodeIsEmpty ==
    IsEmptyNode => \A p \in PodsOnNode :
        About[p].mirror \/ IsDaemonSetPod(p) \/ (life[p] # Running /\ life[p] + PodDeletionTimeout < currentTime)

(* The selections of pods agree: those moved by a drain with those that a  *)
(* new node is expected to have, and those of an empty node with what its  *)
(* removal would interrupt.                                                *)
SelectionsAgree == MovedOrRequired /\ EmptyNodeIsEmpty
=============================================================================
