----------------------------- MODULE ClusterStatus -----------------------------
(***************************************************************************)
(* The status the registry reports: GetStatus builds three conditions for  *)
(* every node group and for the cluster from what ClusterState holds, and  *)
(* dates each from the report in which it last changed.  It takes no lock. *)
(* An UpdateNodes may therefore come between the conditions of two groups, *)
(* and between those of the groups and those of the cluster: a report is   *)
(* put together in several steps.  What it reads of one group is taken as  *)
(* one reading.  One report is made at a time.                             *)
(***************************************************************************)
EXTENDS ClusterState

CONSTANT Candidates     \* sets of nodes that can be candidates for scale-down

VARIABLES
    candidates,   \* candidatesForScaleDown: how many per group
    updated,      \* lastScaleDownUpdateTime
    status,       \* lastStatus
    asked,        \* now of the GetStatus under way, or 0
    draft         \* result.NodeGroupStatuses

reported == <<candidates, updated, status, asked, draft>>
statusVars == <<vars, reported>>

Conditions == {"Health", "ScaleUp", "ScaleDown"}
NoCondition == [status |-> "none", probe |-> 0, transition |-> 0]
Unbuilt == [c \in Conditions |-> [status |-> "none", probe |-> 0]]
Cluster == "cluster"    \* the cluster-wide conditions
Subject == Group \cup {Cluster}

ASSUME ClusterAssumption == Cluster \notin Group

StatusInit ==
    /\ Init
    /\ candidates = [g \in Group |-> 0]
    /\ updated = 0
    /\ status = [x \in Subject |-> [c \in Conditions |-> NoCondition]]
    /\ asked = 0
    /\ draft = [g \in Group |-> Unbuilt]

UpdateScaleDownCandidates(nodes) ==
    /\ Call
    /\ candidates' = [g \in Group |-> Cardinality({n \in nodes : GroupOf[n] = g})]
    /\ updated' = currentTime
    /\ UNCHANGED <<clock, requests, seen, backoff, fresh, status, asked, draft>>

-----------------------------------------------------------------------------
HealthStatus(healthy) == IF healthy THEN "Healthy" ELSE "Unhealthy"

ScaleDownStatus(n) == IF n > 0 THEN "CandidatesPresent" ELSE "NoCandidates"

ScaleUpStatus(g) ==
    IF IsNodeGroupScalingUp(g, ranges[g], readiness[g], ups) THEN "InProgress"
    ELSE IF IsNodeGroupSafeToScaleUp(g, asked) THEN "NoActivity" ELSE "Backoff"

GroupStatus(g, c) ==
    CASE c = "Health" -> HealthStatus(IsNodeGroupHealthy(g))
      [] c = "ScaleUp" -> ScaleUpStatus(g)
      [] c = "ScaleDown" -> ScaleDownStatus(candidates[g])

ScaleUpStatusClusterwide_ReadAgain ==
    IF \E g \in Group : ScaleUpStatus(g) = "InProgress" THEN "InProgress" ELSE "NoActivity"

(* buildScaleUpStatusClusterwide looks through the conditions built for    *)
(* the groups.                                                             *)
ScaleUpStatusClusterwide ==
    IF \E g \in Group : draft[g]["ScaleUp"].status = "InProgress" THEN "InProgress" ELSE "NoActivity"

ClusterStatusOf(c) ==
    CASE c = "Health" -> HealthStatus(IsClusterHealthy)
      [] c = "ScaleUp" -> ScaleUpStatusClusterwide
      [] c = "ScaleDown" -> ScaleDownStatus(MapThenSumSet(LAMBDA g : candidates[g], Group))

(* Readiness.Time of a group without nodes is the zero time. *)
ProbeTime(x, c) ==
    IF c = "ScaleDown" THEN updated
    ELSE IF x \in Group /\ readiness[x].Registered = 0 THEN 0 ELSE probed

Transition_Probe(old, new, probe) == probe

(* updateLastTransitionSingleList *)
Transition(old, new, probe) == IF old.status = new THEN old.transition ELSE probe

GetStatus ==
    /\ asked = 0
    /\ Call
    /\ asked' = currentTime
    /\ UNCHANGED <<clock, requests, seen, backoff, fresh, candidates, updated, status, draft>>

(* One round of the loop over the node groups. *)
BuildGroup(g) ==
    /\ asked > 0 /\ draft[g] = Unbuilt
    /\ draft' = [draft EXCEPT ![g] =
            [c \in Conditions |-> [status |-> GroupStatus(g, c), probe |-> ProbeTime(g, c)]]]
    /\ UNCHANGED <<vars, candidates, updated, status, asked>>

(* What the report says of x in the end. *)
Found(x, c) ==
    IF x = Cluster THEN [status |-> ClusterStatusOf(c), probe |-> ProbeTime(x, c)] ELSE draft[x][c]

(* The conditions of the cluster, and updateLastTransition. *)
Report ==
    /\ asked > 0 /\ \A g \in Group : draft[g] # Unbuilt
    /\ status' = [x \in Subject |-> [c \in Conditions |->
            [status |-> Found(x, c).status,
             probe |-> Found(x, c).probe,
             transition |-> Transition(status[x][c], Found(x, c).status, Found(x, c).probe)]]]
    /\ asked' = 0
    /\ draft' = [g \in Group |-> Unbuilt]
    /\ UNCHANGED <<vars, candidates, updated>>

StatusNext ==
    \/ Next /\ UNCHANGED reported
    \/ \E nodes \in Candidates : UpdateScaleDownCandidates(nodes)
    \/ GetStatus
    \/ \E g \in Group : BuildGroup(g)
    \/ Report

StatusSpec == StatusInit /\ [][StatusNext]_statusVars

-----------------------------------------------------------------------------
(* Successive reports date a condition later or the same, and keep the     *)
(* date exactly while they keep the status, as long as the subject has     *)
(* nodes to be probed: however late a report is dated after what it read.  *)
TransitionsAdvance ==
    [][\A x \in Subject, c \in Conditions :
        status'[x][c].probe > 0 =>
            IF status'[x][c].status = status[x][c].status
              THEN status'[x][c].transition = status[x][c].transition
              ELSE status'[x][c].transition >= status[x][c].transition]_statusVars

(* A report finds a group in back-off "Backoff", unless a scale-up of it   *)
(* is under way.  Even if the registry changed while the report was made,  *)
(* the report agrees with itself: the cluster is said to scale up exactly  *)
(* if a group is.                                                          *)
BackoffReported ==
    [][/\ \A g \in Group :
            /\ draft'[g] \notin {draft[g], Unbuilt}
            /\ HasBackoff(backoff[g]) /\ backoff[g].until >= asked
            => \/ draft'[g]["ScaleUp"].status = "Backoff"
               \/ HasRequest(ups, g) /\ draft'[g]["ScaleUp"].status = "InProgress"
       /\ status' # status =>
            (status'[Cluster]["ScaleUp"].status = "InProgress"
                <=> \E g \in Group : status'[g]["ScaleUp"].status = "InProgress")]_statusVars
=============================================================================
