------------------------------ MODULE NodeRepair ------------------------------
(***************************************************************************)
(* The repair loop: StaticAutorepair.RunOnce and what it calls, down to    *)
(* the AWS calls that resize an Auto Scaling Group (ASG) and terminate an  *)
(* instance.  One controller process runs against a cluster that changes   *)
(* under it: nodes fail and recover, ASGs launch instances, somebody else  *)
(* resizes the groups, calls fail, replies get lost, the process restarts. *)
(*                                                                         *)
(* Every call that reads or writes the cluster is a step of its own, so    *)
(* anything may happen between reading a size and acting on it.  Lists of  *)
(* nodes are sets: the order of a lister's result is arbitrary, and the    *)
(* code only ever splits a list into a prefix and the rest.                *)
(***************************************************************************)
EXTENDS Integers, FiniteSets

CONSTANTS
    Node,          \* every instance that exists in a behaviour, with its node
    NGroups,       \* the managed ASGs are 1..NGroups, in registration order
    MinSize,       \* MinSize[g] and MaxSize[g]: the limits the controller is
    MaxSize,       \*   configured with
    AwsMin,        \* AwsMin[g] and AwsMax[g]: the limits AWS itself keeps for
    AwsMax,        \*   ASG g, which bind everybody who resizes it
    InitGroup,     \* InitGroup[n]: the group n runs in at the start, 0 if none
    InitSize,      \* InitSize[g]: the desired capacity at the start
    NoNode,        \* "no node"
    BadProvider,   \* nodes whose provider id AwsRefFromProviderId rejects
    Guarded,       \* nodes with a pod whose disruption budget allows no eviction
    ReadyPolls,    \* polls for new nodes to become ready (timeOut, 10)
    DeletePolls,   \* polls for deleted nodes to be gone (timeOut, 4)
    Budget         \* Budget[k]: how often disturbance k may happen

Groups == 1 .. NGroups

(***************************************************************************)
(* The ways the world disturbs the loop, each with a budget:               *)
(*   fail     a node turns NotReady         recover  ... and Ready again   *)
(*   resize   somebody else resizes an ASG within the limits configured    *)
(*   exceed   ... past them, where AWS allows more                         *)
(*   crash    the process restarts                                         *)
(*   fault    a call of the controller fails and has no effect             *)
(*   lost     a call takes effect but the controller sees an error         *)
(*   unclean  the taint cannot be removed after a failed deletion          *)
(*   linger   the node object of a terminated instance outlives a          *)
(*            whole repair period                                          *)
(*   any      the disturbances of all kinds together                       *)
(***************************************************************************)
Disturbance ==
    {"fail", "recover", "resize", "exceed", "crash", "fault", "lost", "unclean", "linger", "any"}

ASSUME NodeAssumption == IsFiniteSet(Node) /\ NoNode \notin Node
ASSUME GroupsAssumption == NGroups \in Nat
ASSUME SizeAssumption ==
    /\ MinSize \in [Groups -> Nat]
    /\ MaxSize \in [Groups -> Nat]
    /\ InitSize \in [Groups -> Nat]
    /\ \A g \in Groups : MinSize[g] <= InitSize[g] /\ InitSize[g] <= MaxSize[g]
(* What the controller may set is within what AWS accepts. *)
ASSUME LimitsAssumption ==
    /\ AwsMin \in [Groups -> Nat]
    /\ AwsMax \in [Groups -> Nat]
    /\ \A g \in Groups : AwsMin[g] <= MinSize[g] /\ MaxSize[g] <= AwsMax[g]
ASSUME InitGroupAssumption ==
    /\ InitGroup \in [Node -> Groups \cup {0}]
    /\ \A g \in Groups :
          InitSize[g] = Cardinality({n \in Node : InitGroup[n] = g})
ASSUME BadProviderAssumption == BadProvider \subseteq Node
ASSUME GuardedAssumption == Guarded \subseteq Node
ASSUME BoundAssumption ==
    /\ ReadyPolls \in Nat
    /\ DeletePolls \in Nat
    /\ Budget \in [Disturbance -> Nat]

VARIABLES
    (* The cluster. *)
    desired,        \* desired[g]: the desired capacity AWS keeps for ASG g
    inst,           \* inst[n]: "unused", "running" or "gone"
    asg,            \* asg[n]: the group that launched n, 0 if none
    status,         \* status[n]: "absent" (no node object), "ready", "notready"
    taint,          \* the nodes that carry the ToBeDeleted taint
    budget,         \* budget[k]: how often disturbance k may still happen
    (* The controller: where it is, and its local variables. *)
    pc,
    notReady,       \* RunOnce: notReadyNodes, the first sample
    stillNotReady,  \* RunOnce: stillNotReadyNodes, the second sample
    todo,           \* RunOnce: toBeRepairedNodes
    grp,            \* RepairNodes: the group of this iteration
    work,           \* AsgRepairNodes: toBeRepairedNodes of this group
    batch,          \* AsgRepairNodes: the slice [0:incSize] of work
    order,          \* AsgRepairNodes: "grow" or "delete", whichever comes first
    inc,            \* AsgRepairNodes: incSize
    prev,           \* IncreaseSize and DeleteNodes: prevSize
    cur,            \*   currSize
    iter,           \*   iter
    rest,           \* DeleteNodes: the nodes the loop has not come to
    lists,          \*   pdbs and allScheduledPods: "ok", or empty after an
                    \*   error that is dropped ("noPdbs", "noPods")
    node,           \* deleteNode: the node being deleted
    size            \* Asg.IncreaseSize and Asg.DeleteNodes: the size read

cluster == <<inst, asg, status>>
samples == <<notReady, stillNotReady, todo>>
round == <<grp, order, inc, batch>>
poll == <<prev, cur, iter>>
vars == <<desired, cluster, taint, budget, pc, samples, round, work, poll,
          rest, lists, node, size>>

-----------------------------------------------------------------------------
(* Disturbances and readings of the cluster. *)

Spend(k) ==
    /\ budget[k] > 0
    /\ budget["any"] > 0
    /\ budget' = [budget EXCEPT ![k] = @ - 1, !["any"] = @ - 1]

(* ReadyNodeLister.List and NotReadyNodeLister.List. *)
ReadyNodes == {n \in Node : status[n] = "ready"}
NotReadyNodes == {n \in Node : status[n] = "notready"}

(* Asg.TargetSize: the size, or -1 with an error that every caller drops. *)
TargetSize(g, r) ==
    \/ r = desired[g] /\ UNCHANGED budget
    \/ r = -1 /\ Spend("fault")

(***************************************************************************)
(* The nodes of S that NodeGroupForNode places in group g.  An instance    *)
(* that is gone is found only as long as the instance cache remembers it.  *)
(***************************************************************************)
NodesOfAsg(g, S) ==
    LET mine == {n \in S : asg[n] = g}
        gone == {n \in mine : inst[n] = "gone"}
    IN  {mine \ forgotten : forgotten \in SUBSET gone}

(***************************************************************************)
(* AsgNotReadyNodes and AsgReadyNodes: the nodes of S in group g, or none  *)
(* at all when the lookup of any node of S fails.                          *)
(***************************************************************************)
AsgNodes(g, S, res) ==
    \/ /\ S \cap BadProvider = {}
       /\ res \in NodesOfAsg(g, S)
       /\ UNCHANGED budget
    \/ /\ S \cap BadProvider # {}
       /\ res = {}
       /\ UNCHANGED budget
    \/ /\ S # {}
       /\ res = {}
       /\ Spend("fault")

-----------------------------------------------------------------------------
(* The decisions of the code.  A definition whose name ends in _Something  *)
(* is a plausible mistake in the one below it: the properties reject it.   *)

CommonNodes_SecondSampleOnly(nodelist1, nodelist2) == nodelist2

(* CommonNodes: the nodes of the first sample that are also in the second. *)
CommonNodes(nodelist1, nodelist2) == {n \in nodelist1 : n \in nodelist2}

CalcExpandSize_OffByOne(g, desiredSize, wanted) ==
    LET allowable == MaxSize[g] - desiredSize - 1
    IN  IF allowable >= wanted THEN wanted ELSE allowable

(* CalcExpandSize: as many new nodes as there are nodes to repair, or as   *)
(* many as fit below the maximum.                                          *)
CalcExpandSize(g, desiredSize, wanted) ==
    LET allowable == MaxSize[g] - desiredSize
    IN  IF allowable >= wanted THEN wanted ELSE allowable

DeleteFirst_Reversed(g, desiredSize) == desiredSize <= MaxSize[g]

(* AsgRepairNodes: a group at its maximum cannot grow first. *)
DeleteFirst(g, desiredSize) == desiredSize >= MaxSize[g]

(* Asg.IncreaseSize: the checks between reading the size and setting it. *)
MayIncrease(g, sz, delta) == delta > 0 /\ sz + delta <= MaxSize[g]

MustRestart_Maximum(g, sz) == sz <= MaxSize[g]
MustRestart_Strict(g, sz) == sz < MinSize[g]

(* Asg.DeleteNodes: at the minimum an instance is terminated without       *)
(* decrementing the desired capacity (RestartInstances).                   *)
MustRestart(g, sz) == sz <= MinSize[g]

(* The waiting loops of IncreaseSize and DeleteNodes. *)
StillWaiting(current, target, i, timeOut) == current # target /\ i < timeOut

WithoutTaint_Kept(tainted, n) == tainted

(* deletetaint.CleanToBeDeleted drops the taint and keeps all others. *)
WithoutTaint(tainted, n) == tainted \ {n}

-----------------------------------------------------------------------------
Init ==
    /\ desired = InitSize
    /\ inst = [n \in Node |-> IF InitGroup[n] = 0 THEN "unused" ELSE "running"]
    /\ asg = InitGroup
    /\ status \in {s \in [Node -> {"absent", "ready", "notready"}] :
                     \A n \in Node : s[n] = "absent" <=> InitGroup[n] = 0}
    /\ taint = {}
    /\ budget = Budget
    /\ pc = "idle"
    /\ notReady = {} /\ stillNotReady = {} /\ todo = {}
    /\ grp = 1 /\ order = "grow" /\ inc = 0 /\ batch = {}
    /\ work = {}
    /\ prev = 0 /\ cur = 0 /\ iter = 0
    /\ rest = {} /\ lists = "ok" /\ node = NoNode /\ size = 0

-----------------------------------------------------------------------------
(* RunOnce, up to the call of RepairNodes. *)

(* The locals of a pass are dead once RunOnce has returned. *)
ForgetPass ==
    /\ pc' = "idle"
    /\ notReady' = {} /\ stillNotReady' = {} /\ todo' = {}
    /\ grp' = 1 /\ order' = "grow" /\ inc' = 0 /\ batch' = {}
    /\ work' = {}
    /\ prev' = 0 /\ cur' = 0 /\ iter' = 0
    /\ rest' = {} /\ lists' = "ok" /\ node' = NoNode /\ size' = 0

(* RunOnce returns at once: the cluster is healthy, or the lister fails    *)
(* and the empty list it returns with the error passes for a healthy one.  *)
RunOnceHealthy ==
    /\ pc = "idle"
    /\ UNCHANGED vars

(* The first sample, then the sleep of a repair period. *)
RunOnce ==
    /\ pc = "idle"
    /\ NotReadyNodes # {}
    /\ notReady' = NotReadyNodes
    /\ pc' = "confirm"
    /\ UNCHANGED <<desired, cluster, taint, budget, stillNotReady, todo, round,
                   work, poll, rest, lists, node, size>>

(***************************************************************************)
(* The second sample, empty when the lister fails: its error is dropped.   *)
(* A repair period (10 minutes) is far longer than Kubernetes takes to     *)
(* remove the node object of a terminated instance; a slower removal is    *)
(* the disturbance "linger".                                               *)
(***************************************************************************)
Confirm ==
    /\ pc = "confirm"
    /\ LET confirmed == CommonNodes(notReady, NotReadyNodes)
           onTime == IF \E n \in confirmed : inst[n] = "gone" THEN Spend("linger") ELSE UNCHANGED budget
       IN  \/ /\ confirmed # {}
              /\ onTime
              /\ stillNotReady' = NotReadyNodes
              /\ todo' = confirmed
              /\ grp' = 1
              /\ pc' = "group"
              /\ UNCHANGED <<notReady, order, inc, batch, work, poll, rest, lists, node, size>>
           \/ confirmed = {} /\ ForgetPass /\ UNCHANGED budget
           \/ Spend("fault") /\ ForgetPass
    /\ UNCHANGED <<desired, cluster, taint>>

-----------------------------------------------------------------------------
(* RepairNodes and AsgRepairNodes. *)

(* One iteration of the loop of RepairNodes: the nodes of this group. *)
RepairGroup ==
    /\ pc = "group"
    /\ grp <= NGroups
    /\ \E res \in SUBSET todo :
          /\ AsgNodes(grp, todo, res)
          /\ work' = res
    /\ pc' = "repair"
    /\ UNCHANGED <<desired, cluster, taint, samples, round, poll, rest, lists, node, size>>

(* The loop of RepairNodes ends and RunOnce returns. *)
RepairDone ==
    /\ pc = "group"
    /\ grp > NGroups
    /\ ForgetPass
    /\ UNCHANGED <<desired, cluster, taint, budget>>

(* AsgRepairNodes with nothing left to repair: on to the next group. *)
GroupDone ==
    /\ pc = "repair"
    /\ work = {}
    /\ grp' = grp + 1
    /\ pc' = "group"
    /\ UNCHANGED <<desired, cluster, taint, budget, samples, order, inc, batch, work,
                   poll, rest, lists, node, size>>

(***************************************************************************)
(* AsgRepairNodes reads the size and decides: a group at its maximum       *)
(* deletes one node before it grows, any other grows first.                *)
(***************************************************************************)
AsgRepairNodes ==
    /\ pc = "repair"
    /\ work # {}
    /\ \E r \in {desired[grp], -1} :
          /\ TargetSize(grp, r)
          /\ \/ /\ DeleteFirst(grp, r)
                /\ order' = "delete"
                /\ inc' = 1
                /\ \E n \in work : batch' = {n}
                /\ pc' = "delete"
             \/ /\ ~DeleteFirst(grp, r)
                /\ order' = "grow"
                /\ inc' = 0
                /\ batch' = {}
                /\ pc' = "calc"
    /\ UNCHANGED <<desired, cluster, taint, samples, grp, work, poll, rest, lists, node, size>>

(* ... CalcExpandSize reads the size again, then the slice [0:incSize]. *)
Expand ==
    /\ pc = "calc"
    /\ \E r \in {desired[grp], -1} :
          /\ TargetSize(grp, r)
          /\ inc' = CalcExpandSize(grp, r, Cardinality(work))
    /\ \E b \in SUBSET work :
          /\ Cardinality(b) = inc'
          /\ batch' = b
    /\ pc' = "increase"
    /\ UNCHANGED <<desired, cluster, taint, samples, grp, order, work, poll, rest,
                   lists, node, size>>

(* A negative incSize: the slice panics, the process dies and is restarted. *)
SlicePanics ==
    /\ pc = "calc"
    /\ CalcExpandSize(grp, desired[grp], Cardinality(work)) < 0
    /\ ForgetPass
    /\ UNCHANGED <<desired, cluster, taint, budget>>

NextRound_NoRecursion ==
    /\ work' = {}
    /\ pc' = "repair"

NextRound_WholeList ==
    /\ work' = work
    /\ pc' = "repair"

(* What follows a round: AsgRepairNodes calls itself with [incSize:]. *)
NextRound ==
    /\ work' = work \ batch
    /\ pc' = "repair"

ReturnFromIncrease ==
    /\ prev' = 0 /\ cur' = 0 /\ iter' = 0 /\ size' = 0
    /\ IF order = "grow" THEN pc' = "delete" /\ UNCHANGED work ELSE NextRound

ReturnFromDelete ==
    /\ prev' = 0 /\ cur' = 0 /\ iter' = 0 /\ lists' = "ok"
    /\ IF order = "grow" THEN NextRound ELSE pc' = "increase" /\ UNCHANGED work

-----------------------------------------------------------------------------
(* IncreaseSize. *)

(* The ready nodes of the group before it grows. *)
CountReady ==
    /\ pc = "increase"
    /\ \E res \in SUBSET ReadyNodes :
          /\ AsgNodes(grp, ReadyNodes, res)
          /\ prev' = Cardinality(res)
          /\ cur' = Cardinality(res)
    /\ pc' = "readSize"
    /\ UNCHANGED <<desired, cluster, taint, samples, round, work, iter, rest, lists, node, size>>

(* Asg.IncreaseSize: read the size and check it. *)
ReadSize ==
    /\ pc = "readSize"
    /\ \/ /\ MayIncrease(grp, desired[grp], inc)
          /\ size' = desired[grp]
          /\ pc' = "setSize"
          /\ UNCHANGED <<budget, work, poll>>
       \/ /\ ~MayIncrease(grp, desired[grp], inc)
          /\ ReturnFromIncrease
          /\ UNCHANGED budget
       \/ /\ inc > 0
          /\ Spend("fault")
          /\ ReturnFromIncrease
    /\ UNCHANGED <<desired, cluster, taint, samples, round, rest, lists, node>>

(* AwsManager.SetAsgSize: the new size is computed from the size read. *)
SetSize ==
    /\ pc = "setSize"
    /\ \/ /\ desired' = [desired EXCEPT ![grp] = size + inc]
          /\ size' = 0
          /\ pc' = "awaitReady"
          /\ UNCHANGED <<budget, work, poll>>
       \/ /\ desired' = [desired EXCEPT ![grp] = size + inc]
          /\ Spend("lost")
          /\ ReturnFromIncrease
       \/ /\ Spend("fault")
          /\ ReturnFromIncrease
          /\ UNCHANGED desired
    /\ UNCHANGED <<cluster, taint, samples, round, rest, lists, node>>

(* One turn of the loop that waits for the new nodes to become ready. *)
AwaitReady ==
    /\ pc = "awaitReady"
    /\ \/ /\ StillWaiting(cur, prev + inc, iter, ReadyPolls)
          /\ \E res \in SUBSET ReadyNodes :
                /\ AsgNodes(grp, ReadyNodes, res)
                /\ cur' = Cardinality(res)
          /\ iter' = iter + 1
          /\ UNCHANGED <<pc, prev, work, size>>
       \/ /\ ~StillWaiting(cur, prev + inc, iter, ReadyPolls)
          /\ ReturnFromIncrease
          /\ UNCHANGED budget
    /\ UNCHANGED <<desired, cluster, taint, samples, round, rest, lists, node>>

-----------------------------------------------------------------------------
(* DeleteNodes. *)

(* The first of two readings of the size, either of which may fail. *)
BeginDelete ==
    /\ pc = "delete"
    /\ \E r \in {desired[grp], -1} : TargetSize(grp, r) /\ prev' = r
    /\ pc' = "deleteRead"
    /\ UNCHANGED <<desired, cluster, taint, samples, round, work, cur, iter, rest,
                   lists, node, size>>

(* The second one, and the lists of disruption budgets and pods: an outage *)
(* hits any of these calls, and each of their errors is dropped.           *)
BeginDeleteLoop ==
    /\ pc = "deleteRead"
    /\ \E r \in {desired[grp], -1}, l \in {"ok", "noPdbs", "noPods"} :
          /\ IF r = desired[grp] /\ l = "ok" THEN UNCHANGED budget ELSE Spend("fault")
          /\ cur' = r
          /\ lists' = l
    /\ rest' = batch
    /\ pc' = "deleteLoop"
    /\ UNCHANGED <<desired, cluster, taint, samples, round, work, prev, iter, node,
                   size>>

(* DetailedGetPodsForMove refuses a node by what it was given to look at.  *)
Refused(n) == n \in Guarded /\ lists = "ok"

(* It refuses the node, or fails: the loop continues. *)
SkipNode(n) ==
    /\ pc = "deleteLoop"
    /\ n \in rest
    /\ IF Refused(n) THEN UNCHANGED budget ELSE Spend("fault")
    /\ rest' = rest \ {n}
    /\ UNCHANGED <<desired, cluster, taint, pc, samples, round, work, poll, lists, node, size>>

MarkToBeDeleted_NoUpdate(n) ==
    /\ pc = "deleteLoop"
    /\ n \in rest /\ ~Refused(n)
    /\ status[n] # "absent"
    /\ node' = n
    /\ pc' = "drain"
    /\ UNCHANGED <<desired, cluster, taint, budget, samples, round, work, poll, rest, lists, size>>

(* deleteNode taints the node. *)
MarkToBeDeleted(n) ==
    /\ pc = "deleteLoop"
    /\ n \in rest /\ ~Refused(n)
    /\ status[n] # "absent"
    /\ taint' = taint \cup {n}
    /\ node' = n
    /\ pc' = "drain"
    /\ UNCHANGED <<desired, cluster, budget, samples, round, work, poll, rest, lists, size>>

(* Tainting fails: deleteNode returns before the clean-up is deferred, and *)
(* DeleteNodes returns with it.                                            *)
MarkFails(n) ==
    /\ pc = "deleteLoop"
    /\ n \in rest /\ ~Refused(n)
    /\ \/ status[n] = "absent" /\ UNCHANGED <<budget, taint>>
       \/ status[n] # "absent" /\ Spend("fault") /\ UNCHANGED taint
       \/ status[n] # "absent" /\ Spend("lost") /\ taint' = taint \cup {n}
    /\ rest' = {}
    /\ ReturnFromDelete
    /\ UNCHANGED <<desired, cluster, samples, round, node, size>>

(* Evictions answer to the disruption budgets, not to the list of them: a  *)
(* pod that is listed and guarded stays.                                   *)
EvictionRefused(n) == n \in Guarded /\ lists = "noPdbs"

(* drainNode, in one step: the pods are gone or the deletion is abandoned. *)
Drain ==
    /\ pc = "drain"
    /\ \/ ~EvictionRefused(node) /\ pc' = "findGroup" /\ UNCHANGED budget
       \/ EvictionRefused(node) /\ pc' = "cleanup" /\ UNCHANGED budget
       \/ pc' = "cleanup" /\ Spend("fault")
    /\ UNCHANGED <<desired, cluster, taint, samples, round, work, poll, rest, lists, node, size>>

(***************************************************************************)
(* deleteNodeFromCloudProvider up to the decision in Asg.DeleteNodes: the  *)
(* group of the node is looked up (in vain, perhaps, for an instance that  *)
(* is gone) and its size is read.                                          *)
(***************************************************************************)
FindGroup ==
    /\ pc = "findGroup"
    /\ \/ /\ size' = desired[grp]
          /\ pc' = "terminate"
          /\ UNCHANGED budget
       \/ /\ inst[node] = "gone"
          /\ pc' = "cleanup"
          /\ UNCHANGED <<budget, size>>
       \/ /\ Spend("fault")
          /\ pc' = "cleanup"
          /\ UNCHANGED size
    /\ UNCHANGED <<desired, cluster, taint, samples, round, work, poll, rest, lists, node>>

(* TerminateInstanceInAutoScalingGroup, as AWS carries it out: it refuses  *)
(* an instance that is gone and a decrement below the minimum.             *)
AwsAccepts(g, n, decrement) ==
    /\ inst[n] = "running"
    /\ decrement => desired[g] > AwsMin[g]

AwsTerminate(g, n, decrement) ==
    /\ inst' = [inst EXCEPT ![n] = "gone"]
    /\ desired' = IF decrement THEN [desired EXCEPT ![g] = @ - 1] ELSE desired

(***************************************************************************)
(* The end of Asg.DeleteNodes: DeleteInstances or RestartInstances,        *)
(* decided by the size read before.  After a success DeleteNodes goes on   *)
(* with the next node; after an error deleteNode cleans up.                *)
(***************************************************************************)
Terminate ==
    /\ pc = "terminate"
    /\ LET decrement == ~MustRestart(grp, size) IN
       \/ /\ AwsAccepts(grp, node, decrement)
          /\ AwsTerminate(grp, node, decrement)
          /\ rest' = rest \ {node}
          /\ node' = NoNode
          /\ pc' = "deleteLoop"
          /\ UNCHANGED budget
       \/ /\ AwsAccepts(grp, node, decrement)
          /\ AwsTerminate(grp, node, decrement)
          /\ Spend("lost")
          /\ pc' = "cleanup"
          /\ UNCHANGED <<rest, node>>
       \/ /\ ~AwsAccepts(grp, node, decrement)
          /\ pc' = "cleanup"
          /\ UNCHANGED <<desired, inst, budget, rest, node>>
       \/ /\ Spend("fault")
          /\ pc' = "cleanup"
          /\ UNCHANGED <<desired, inst, rest, node>>
    /\ size' = 0
    /\ UNCHANGED <<asg, status, taint, samples, round, work, poll, lists>>

(* The deferred clean-up of deleteNode; its own error is dropped.  Then    *)
(* DeleteNodes returns, whatever it has left to delete.                    *)
CleanToBeDeleted ==
    /\ pc = "cleanup"
    /\ \/ taint' = WithoutTaint(taint, node) /\ UNCHANGED budget
       \/ taint' = taint /\ Spend("unclean")
    /\ rest' = {}
    /\ node' = NoNode
    /\ size' = 0
    /\ ReturnFromDelete
    /\ UNCHANGED <<desired, cluster, samples, round>>

(* Every node was deleted or skipped: wait for the size to drop. *)
DeleteLoopEnds ==
    /\ pc = "deleteLoop"
    /\ rest = {}
    /\ pc' = "awaitDeleted"
    /\ UNCHANGED <<desired, cluster, taint, budget, samples, round, work, poll, rest,
                   lists, node, size>>

AwaitDeleted ==
    /\ pc = "awaitDeleted"
    /\ \/ /\ StillWaiting(cur, prev - Cardinality(batch), iter, DeletePolls)
          /\ \E r \in {desired[grp], -1} : TargetSize(grp, r) /\ cur' = r
          /\ iter' = iter + 1
          /\ UNCHANGED <<pc, prev, work, lists>>
       \/ /\ ~StillWaiting(cur, prev - Cardinality(batch), iter, DeletePolls)
          /\ ReturnFromDelete
          /\ UNCHANGED budget
    /\ UNCHANGED <<desired, cluster, taint, samples, round, rest, node, size>>

-----------------------------------------------------------------------------
(* The environment. *)

controller == <<pc, samples, round, work, poll, rest, lists, node, size>>

Running(g) == {n \in Node : inst[n] = "running" /\ asg[n] = g}

(* AWS launches an instance while a group is below its desired capacity. *)
Launch(g, n) ==
    /\ Cardinality(Running(g)) < desired[g]
    /\ inst[n] = "unused"
    /\ inst' = [inst EXCEPT ![n] = "running"]
    /\ asg' = [asg EXCEPT ![n] = g]
    /\ UNCHANGED <<desired, status, taint, budget, controller>>

(* AWS terminates an instance of its choice while a group is above it. *)
ScaleIn(g, n) ==
    /\ Cardinality(Running(g)) > desired[g]
    /\ n \in Running(g)
    /\ inst' = [inst EXCEPT ![n] = "gone"]
    /\ UNCHANGED <<desired, asg, status, taint, budget, controller>>

(* Somebody else sets the size of a group, within the limits AWS keeps. *)
Resize(g, d) ==
    /\ d \in AwsMin[g] .. AwsMax[g]
    /\ d # desired[g]
    /\ IF d \in MinSize[g] .. MaxSize[g] THEN Spend("resize") ELSE Spend("exceed")
    /\ desired' = [desired EXCEPT ![g] = d]
    /\ UNCHANGED <<cluster, taint, controller>>

(* A launched instance registers as a node and becomes ready. *)
Join(n) ==
    /\ inst[n] = "running"
    /\ status[n] = "absent"
    /\ status' = [status EXCEPT ![n] = "ready"]
    /\ UNCHANGED <<desired, inst, asg, taint, budget, controller>>

(* A node turns NotReady; that of a terminated instance certainly does. *)
Fail(n) ==
    /\ status[n] = "ready"
    /\ status' = [status EXCEPT ![n] = "notready"]
    /\ IF inst[n] = "gone" THEN UNCHANGED budget ELSE Spend("fail")
    /\ UNCHANGED <<desired, inst, asg, taint, controller>>

Recover(n) ==
    /\ status[n] = "notready"
    /\ inst[n] = "running"
    /\ Spend("recover")
    /\ status' = [status EXCEPT ![n] = "ready"]
    /\ UNCHANGED <<desired, inst, asg, taint, controller>>

(* Kubernetes removes the node object of a terminated instance. *)
RemoveNode(n) ==
    /\ inst[n] = "gone"
    /\ status[n] # "absent"
    /\ status' = [status EXCEPT ![n] = "absent"]
    /\ taint' = taint \ {n}
    /\ UNCHANGED <<desired, inst, asg, budget, controller>>

(* The controller's process dies and is started again. *)
Crash ==
    /\ pc # "idle"
    /\ Spend("crash")
    /\ ForgetPass
    /\ UNCHANGED <<desired, cluster, taint>>

Controller ==
    \/ RunOnceHealthy \/ RunOnce \/ Confirm
    \/ RepairGroup \/ RepairDone \/ GroupDone \/ AsgRepairNodes
    \/ Expand \/ SlicePanics \/ CountReady \/ ReadSize \/ SetSize \/ AwaitReady
    \/ BeginDelete \/ BeginDeleteLoop \/ DeleteLoopEnds \/ AwaitDeleted
    \/ \E n \in Node : SkipNode(n) \/ MarkToBeDeleted(n) \/ MarkFails(n)
    \/ Drain \/ FindGroup \/ Terminate \/ CleanToBeDeleted

Environment ==
    \/ \E g \in Groups :
          \/ \E n \in Node : Launch(g, n) \/ ScaleIn(g, n)
          \/ \E d \in 0 .. AwsMax[g] : Resize(g, d)
    \/ \E n \in Node : Join(n) \/ Fail(n) \/ Recover(n) \/ RemoveNode(n)
    \/ Crash

Next == Controller \/ Environment

(* The process keeps running and Kubernetes keeps removing the nodes of    *)
(* terminated instances; nothing else is assumed to happen.                *)
Fairness == WF_vars(Controller) /\ \A n \in Node : WF_vars(RemoveNode(n))

Spec == Init /\ [][Next]_vars /\ Fairness

-----------------------------------------------------------------------------
(* Properties. *)

TypeOK ==
    /\ desired \in [Groups -> Int]
    /\ inst \in [Node -> {"unused", "running", "gone"}]
    /\ asg \in [Node -> Groups \cup {0}]
    /\ status \in [Node -> {"absent", "ready", "notready"}]
    /\ taint \subseteq Node
    /\ budget \in [Disturbance -> Nat]
    /\ pc \in {"idle", "confirm", "group", "repair", "calc", "increase", "readSize",
               "setSize", "awaitReady", "delete", "deleteRead", "deleteLoop",
               "drain", "findGroup", "terminate", "cleanup", "awaitDeleted"}
    /\ notReady \subseteq Node /\ stillNotReady \subseteq Node /\ todo \subseteq Node
    /\ grp \in 1 .. NGroups + 1 /\ (pc \notin {"idle", "confirm", "group"} => grp \in Groups)
    /\ order \in {"grow", "delete"} /\ inc \in Int /\ batch \subseteq Node
    /\ work \subseteq Node
    /\ prev \in Int /\ cur \in Int /\ iter \in Nat
    /\ rest \subseteq Node /\ lists \in {"ok", "noPdbs", "noPods"} /\ node \in Node \cup {NoNode} /\ size \in Int

(* The control locations at which AsgRepairNodes is inside a round. *)
InRound == pc \notin {"idle", "confirm", "group", "repair", "calc"}

(* No disturbance of the kinds K has happened yet. *)
Untouched(K) == \A k \in K : budget[k] = Budget[k]

(* Whoever has resized a group kept to the limits it is configured with. *)
LimitsKept == Untouched({"exceed"})

(***************************************************************************)
(* Both operations on a size act on one they read before: Asg.IncreaseSize *)
(* sets what it read plus delta, Asg.DeleteNodes decides by what it read   *)
(* whether the termination may decrement.  No size above the maximum is    *)
(* ever set.  The minimum holds if nobody else resizes a group; if others  *)
(* do, within its limits, a decrement can come too late and take the group *)
(* below its minimum, but by one and no more: the next reading sees it.    *)
(* And whatever others do, the group stays within the limits AWS keeps.    *)
(***************************************************************************)
SizeWithinBounds ==
    /\ pc = "setSize" => size + inc <= MaxSize[grp]
    /\ \A g \in Groups :
          /\ desired[g] \in AwsMin[g] .. AwsMax[g]
          /\ LimitsKept => desired[g] \in MinSize[g] - 1 .. MaxSize[g]
          /\ Untouched({"resize", "exceed"}) => desired[g] >= MinSize[g]

(***************************************************************************)
(* AsgRepairNodes slices toBeRepairedNodes[0:incSize] within its bounds,   *)
(* although CalcExpandSize reads the size a second time and the first      *)
(* reading chose the branch: the slice of a round is part of the list; a   *)
(* negative incSize takes somebody who resized the group past a maximum    *)
(* that AWS does not know of; and if nobody resizes it at all and no       *)
(* reading fails, no slice is empty, so that each round gets on with the   *)
(* list.                                                                   *)
(***************************************************************************)
SliceInBounds ==
    /\ InRound => inc >= 0 /\ batch \subseteq work /\ Cardinality(batch) = inc
    /\ pc = "calc" =>
          LET incSize == CalcExpandSize(grp, desired[grp], Cardinality(work))
          IN  /\ incSize <= Cardinality(work)
              /\ LimitsKept => incSize >= 0
              /\ Untouched({"resize", "exceed", "fault"}) => incSize > 0

(***************************************************************************)
(* The controller terminates only an instance that was NotReady in both    *)
(* samples of RunOnce, that it has cordoned, and that belongs to the group *)
(* it is repairing (core/util.go, core/delete_nodes.go).  It terminates    *)
(* one with a guarded pod only if it could not list the pods: a list of    *)
(* disruption budgets that fails, whose error is overwritten, costs the    *)
(* node its taint for a while and no more.                                 *)
(***************************************************************************)
TerminatesOnlyConfirmed ==
    [][\A n \in Node :
         (pc = "terminate" /\ inst[n] # inst'[n] /\ pc' # pc) =>
           /\ n \in notReady \cap stillNotReady
           /\ n \in taint
           /\ asg[n] = grp
           /\ n \in Guarded => lists = "noPods"]_vars

(***************************************************************************)
(* A node carries the ToBeDeleted taint only while deleteNode works on it  *)
(* or when its instance is gone: an abandoned deletion never leaves a live *)
(* node unschedulable, unless the process dies, a reply is lost or the     *)
(* clean-up itself fails.                                                  *)
(***************************************************************************)
TaintAccounted ==
    Untouched({"crash", "lost", "unclean"}) =>
        \A n \in taint : n = node \/ inst[n] = "gone"

(* No call fails, nobody interferes, no dead node lingers and every pod    *)
(* may be evicted.  Nodes may still fail and recover, and new ones may     *)
(* take forever to come up.                                                *)
Undisturbed ==
    /\ Guarded = {}
    /\ Untouched({"resize", "exceed", "crash", "fault", "lost", "unclean", "linger"})

(***************************************************************************)
(* An undisturbed pass is neutral: whenever a group is not being repaired  *)
(* its desired capacity is what it was at the start, whichever order of    *)
(* growing and deleting AsgRepairNodes chose and however it split a batch. *)
(***************************************************************************)
SizeRestored ==
    Undisturbed =>
        \A g \in Groups : (~InRound \/ g # grp) => desired[g] = InitSize[g]

(***************************************************************************)
(* Undisturbed, a repair grows a group by no more than the nodes it still  *)
(* has to replace, and shrinks it only when the group started at its       *)
(* maximum, and then by one node at a time.                                *)
(***************************************************************************)
SurgeBounded ==
    Undisturbed =>
        \A g \in Groups :
            /\ desired[g] <= InitSize[g] + Cardinality(work)
            /\ desired[g] >= InitSize[g] - (IF InitSize[g] = MaxSize[g] THEN 1 ELSE 0)

(***************************************************************************)
(* When an undisturbed RepairNodes returns, every node it was called with  *)
(* has been deleted, in however many rounds, unless one of them has a      *)
(* provider id that cannot be parsed.                                      *)
(***************************************************************************)
ReplacedOnReturn ==
    [][RepairDone /\ Undisturbed /\ todo \cap BadProvider = {} =>
         \A n \in todo : inst[n] = "gone"]_vars

(***************************************************************************)
(* Every pass of RunOnce returns, even when no new node ever comes up: the *)
(* waiting loops give up and every round of AsgRepairNodes leaves less to  *)
(* do.                                                                     *)
(***************************************************************************)
PassTerminates == (pc # "idle") ~> (pc = "idle")

(***************************************************************************)
(* No node stays NotReady on a running instance for ever: once the         *)
(* disturbances stop the loop replaces it.                                 *)
(***************************************************************************)
NotReadyReplaced ==
    \A n \in Node \ (BadProvider \cup Guarded) :
        []<>~(status[n] = "notready" /\ inst[n] = "running" /\ asg[n] \in Groups)

(***************************************************************************)
(* IncreaseSize only ever raises the desired capacity.  Stated by the      *)
(* interface (cloudprovider/cloud_provider.go): "IncreaseSize increases    *)
(* the size of the node group."                                            *)
(***************************************************************************)
IncreaseRaises ==
    [][(pc = "setSize" /\ pc' # pc /\ pc' # "idle") =>
         \A g \in Groups : desired'[g] >= desired[g]]_vars

(***************************************************************************)
(* The whole controller, seen from one node: what a pass does to a node is *)
(* what DeleteContract allows deleteNode, so NodeDrain, which implements   *)
(* that too, is the detail of the steps from "drain" to "cleanup".         *)
(***************************************************************************)
Phase(n) ==
    CASE node = n /\ pc = "drain" -> "marked"
      [] node = n /\ pc \in {"findGroup", "terminate"} -> "drained"
      [] node = n /\ pc = "cleanup" -> "abandoned"
      [] OTHER -> "idle"

Tainted(n) == IF n \in taint THEN "yes" ELSE "no"

Instance(n) == IF inst[n] = "running" THEN "running" ELSE "gone"

Deletion(n) ==
    INSTANCE DeleteContract WITH phase <- Phase(n), taint <- Tainted(n), inst <- Instance(n)

(* Every deletion keeps DeleteContract: taint, drain, remove, or release. *)
KeepsContract ==
    [][\A n \in Node : [Deletion(n)!Next]_<<Phase(n), Tainted(n), Instance(n)>>]_vars
=============================================================================
