----------------------------- MODULE ClusterState -----------------------------
(***************************************************************************)
(* ClusterStateRegistry: what has been requested of the node groups, what  *)
(* was last seen of them, and the verdicts drawn from both.                *)
(* One loop calls UpdateNodes, anybody registers requests, all under the   *)
(* registry's mutex: each operation is one action.  UpdateNodes asks the   *)
(* cloud provider before it takes the mutex, and for the group of a node   *)
(* one by one, so the answers it uses are arbitrary and need not fit       *)
(* together.  Times are naturals, 0 is Go's zero time.  Maps are total: a  *)
(* missing entry is the zero value.                                        *)
(* The slices of requests are sets, as no operation depends on their       *)
(* order; equal requests are told apart by the call that registered them.  *)
(***************************************************************************)
EXTENDS Integers, FiniteSets, FiniteSetsExt

CONSTANTS
    Group, Node,
    GroupOf,            \* GroupOf[n]: NodeGroupForNode, NoGroup for nil
    NoGroup,
    Observation,        \* what one UpdateNodes can find: the node objects,
                        \* the instances listed, the target sizes, and the
                        \* nodes for which NodeGroupForNode fails
    Increase,           \* increases of a scale-up request
    ProvisionTime,      \* how long a scale-up is expected to take
    MaxCloudProviderNodeDeletionTime,
    MaxNodeStartupTime, MaxStatusSettingDelayAfterCreation,
    InitialNodeGroupBackoffDuration, MaxNodeGroupBackoffDuration,
    NodeGroupBackoffResetTimeout,
    OkTotalUnreadyCount, MaxTotalUnreadyPercentage,
    MaxTime,            \* bounds: the time, the calls of UpdateNodes and
    MaxUpdates, MaxCalls  \* those of the other operations

ASSUME GroupAssumption ==
    /\ IsFiniteSet(Node)
    /\ NoGroup \notin Group
    /\ GroupOf \in [Node -> Group \cup {NoGroup}]

ASSUME ObservationAssumption ==
    \A o \in Observation :
        /\ DOMAIN o.nodes \subseteq Node
        /\ o.listed \subseteq Node
        /\ o.size \in [Group -> Nat]
        /\ o.lost \subseteq Node

ASSUME NumberAssumption ==
    /\ Increase \subseteq Nat \ {0}
    /\ ProvisionTime \in Nat /\ MaxCloudProviderNodeDeletionTime \in Nat
    /\ InitialNodeGroupBackoffDuration \in Nat \ {0}
    /\ MaxNodeGroupBackoffDuration \in Nat
    /\ InitialNodeGroupBackoffDuration <= MaxNodeGroupBackoffDuration
    /\ NodeGroupBackoffResetTimeout \in Nat
    /\ MaxTime \in Nat \ {0}

VARIABLES
    now,
    currentTime,  \* the time the caller's loop took when it began
    ups,          \* scaleUpRequests: [call, group, expected, increase]
    downs,        \* scaleDownRequests: [call, group, expected]
    probed,       \* totalReadiness.Time: 0 before the first UpdateNodes
    readiness,    \* perNodeGroupReadiness
    total,        \* totalReadiness
    ranges,       \* acceptableRanges: found once probed
    incorrect,    \* incorrectNodeGroupSizes
    missing,      \* unregisteredNodes: UnregisteredSince of a node, or 0
    backoff,      \* nodeGroupBackoffInfo
    updates,      \* how many calls of UpdateNodes
    calls,        \* how many calls of the other operations
    fresh         \* history: "yes" if nothing was registered since UpdateNodes

requests == <<ups, downs>>
seen == <<probed, readiness, total, ranges, incorrect, missing>>
clock == <<now, currentTime>>
vars == <<clock, requests, seen, backoff, updates, calls, fresh>>

Time == 0 .. MaxTime
Class == {"Ready", "Unready", "Deleted", "LongNotStarted", "NotStarted"}
NoNodes == [Ready |-> 0, Unready |-> 0, Deleted |-> 0, LongNotStarted |-> 0, NotStarted |-> 0, Registered |-> 0]
NoRange == [min |-> 0, max |-> 0, target |-> 0]
NoMismatch == [current |-> 0, expected |-> 0, first |-> 0]
NoBackoff == [duration |-> 0, until |-> 0, last |-> 0]

(* NewClusterStateRegistry *)
Init ==
    /\ now = 1 /\ currentTime = 1
    /\ ups = {} /\ downs = {}
    /\ probed = 0
    /\ readiness = [g \in Group |-> NoNodes] /\ total = NoNodes
    /\ ranges = [g \in Group |-> NoRange]
    /\ incorrect = [g \in Group |-> NoMismatch]
    /\ missing = [n \in Node |-> 0]
    /\ backoff = [g \in Group |-> NoBackoff]
    /\ updates = 0 /\ calls = 0
    /\ fresh = "no"

-----------------------------------------------------------------------------
(* Reading a node object. *)

NotStartedConditions == {<<"Ready", "False">>, <<"OutOfDisk", "True">>, <<"NetworkUnavailable", "True">>}

(* A condition that was bad from the start: set soon after the creation. *)
isNodeNotStarted(node) ==
    \E c \in node.conditions :
        /\ <<c.type, c.status>> \in NotStartedConditions
        /\ c.delay < MaxStatusSettingDelayAfterCreation

UnreadyConditions == NotStartedConditions \cup {<<"Ready", "Unknown">>, <<"DiskPressure", "True">>}

(* No Ready condition at all is an error and counts as not ready. *)
GetReadinessState(node) ==
    /\ \E c \in node.conditions : c.type = "Ready"
    /\ \A c \in node.conditions : <<c.type, c.status>> \notin UnreadyConditions

ClassOf(node) ==
    IF node.tainted = "yes" THEN "Deleted"
    ELSE IF isNodeNotStarted(node)
      THEN IF node.age > MaxNodeStartupTime THEN "LongNotStarted" ELSE "NotStarted"
      ELSE IF GetReadinessState(node) THEN "Ready" ELSE "Unready"

(* The closure "update" of updateReadinessStats over the nodes of S. *)
Count(nodes, S) ==
    LET In(class) == Cardinality({n \in S : ClassOf(nodes[n]) = class})
    IN [Ready |-> In("Ready"), Unready |-> In("Unready"), Deleted |-> In("Deleted"),
        LongNotStarted |-> In("LongNotStarted"), NotStarted |-> In("NotStarted"),
        Registered |-> Cardinality(S)]

-----------------------------------------------------------------------------
(* What the registry concludes. *)

Of(requested, g) == {r \in requested : r.group = g}

Increases(up, g) == MapThenSumSet(LAMBDA r : r.increase, Of(up, g))

(* MinNodes is lowered by every pending increase, MaxNodes raised by every *)
(* pending deletion.                                                       *)
AcceptableRanges(size, up, down) ==
    [g \in Group |->
        [min |-> size[g] - Increases(up, g),
         max |-> size[g] + Cardinality(Of(down, g)),
         target |-> size[g]]]

(* Nodes of the target that are neither running nor being deleted. *)
areThereUpcomingNodes(range, ready) ==
    range.target > ready.Registered - ready.NotStarted - ready.LongNotStarted

IsNodeGroupScalingUp(g, range, ready, up) ==
    /\ areThereUpcomingNodes(range, ready)
    /\ Of(up, g) # {}

TooMany(unready, all) ==
    /\ unready > OkTotalUnreadyCount
    /\ unready * 100 > MaxTotalUnreadyPercentage * all

IsClusterHealthy == ~TooMany(total.Unready + total.LongNotStarted, total.Registered)

IsNodeGroupHealthy(g) ==
    LET r == readiness[g]
        unjustifiedUnready == IF r.Ready < ranges[g].min THEN ranges[g].min - r.Ready ELSE 0
    IN /\ probed > 0
       /\ IF r.Registered = 0
            THEN ranges[g].target = 0 \/ ranges[g].min = 0
            ELSE ~TooMany(unjustifiedUnready, r.Ready + r.Unready + r.NotStarted + r.LongNotStarted)

HasBackoff(b) == b.duration > 0

IsNodeGroupSafeToScaleUp(g, time) ==
    /\ IsNodeGroupHealthy(g)
    /\ ~HasBackoff(backoff[g]) \/ backoff[g].until < time

-----------------------------------------------------------------------------
(* Back-off of a group whose scale-up failed. *)

Doubled(d) == IF 2 * d > MaxNodeGroupBackoffDuration THEN MaxNodeGroupBackoffDuration ELSE 2 * d

backoffNodeGroup_AlwaysDoubles(b, time) ==
    LET d == IF HasBackoff(b) THEN Doubled(b.duration) ELSE InitialNodeGroupBackoffDuration
    IN [duration |-> d, until |-> time + d, last |-> time]

backoffNodeGroup(b, time) ==
    LET d == IF HasBackoff(b) /\ b.until < time
               THEN Doubled(b.duration)
               ELSE InitialNodeGroupBackoffDuration
    IN [duration |-> d, until |-> time + d, last |-> time]

(* backoffNodeGroup for each of several requests that timed out.  From the *)
(* second call on the entry stays what it is.                              *)
BackoffTimes(b, times, time) ==
    CASE times = 0 -> b
      [] times = 1 -> backoffNodeGroup(b, time)
      [] OTHER -> backoffNodeGroup(backoffNodeGroup(b, time), time)

IsStale_AtEnd(b, time) == b.until < time

(* The clean-up of stale back-off entries. *)
IsStale(b, time) == b.last + NodeGroupBackoffResetTimeout < time

(* The part of updateScaleRequests that decides about scale-ups: which are *)
(* still waited for, how many of a group are not, and its back-off.        *)
StillExpected(up, ready, range, time) ==
    {r \in up : areThereUpcomingNodes(range[r.group], ready[r.group]) /\ r.expected > time}

TimedOut_Strict(g, up, time) == Cardinality({r \in Of(up, g) : r.expected < time})

TimedOut(g, up, time) == Cardinality({r \in Of(up, g) : r.expected <= time})

UpdatedBackoff_EachTimeout(up, ready, range, time) ==
    [g \in Group |->
        LET old == IF IsStale(backoff[g], time) THEN NoBackoff ELSE backoff[g]
        IN IF areThereUpcomingNodes(range[g], ready[g])
             THEN BackoffTimes(old, TimedOut(g, up, time), time)
             ELSE IF Of(up, g) # {} THEN NoBackoff ELSE old]

UpdatedBackoff(up, ready, range, time) ==
    [g \in Group |->
        LET old == IF IsStale(backoff[g], time) THEN NoBackoff ELSE backoff[g]
            upcoming == areThereUpcomingNodes(range[g], ready[g])
        IN IF ~upcoming
             THEN IF Of(up, g) # {} THEN NoBackoff ELSE old
             ELSE IF IsNodeGroupScalingUp(g, range[g], ready[g], StillExpected(up, ready, range, time))
               THEN old
               ELSE BackoffTimes(old, TimedOut(g, up, time), time)]

(* The last loop of updateScaleRequests. *)
StillDeleting(down, time) == {r \in down : r.expected > time}

-----------------------------------------------------------------------------
(* UpdateNodes, once the provider has answered: the target sizes, the      *)
(* instances it lists, and the node objects of the caller.  A node whose   *)
(* group cannot be found counts for the cluster only.                      *)

Mismatch(r, range) == r.Registered > range.max \/ r.Registered < range.min

IncorrectSizes_Restarted(ready, range, time) ==
    [g \in Group |->
        IF ready[g].Registered > 0 /\ Mismatch(ready[g], range[g])
          THEN [current |-> ready[g].Registered, expected |-> range[g].target, first |-> time]
          ELSE NoMismatch]

(* updateIncorrectNodeGroupSizes *)
IncorrectSizes(ready, range, time) ==
    [g \in Group |->
        LET new == [current |-> ready[g].Registered, expected |-> range[g].target, first |-> time]
            old == incorrect[g]
        IN IF ready[g].Registered > 0 /\ Mismatch(ready[g], range[g])
             THEN IF old.first > 0 /\ old.current = new.current /\ old.expected = new.expected THEN old ELSE new
             ELSE NoMismatch]

(* updateUnregisteredNodes of getNotRegisteredNodes *)
Unregistered(nodes, listed, time) ==
    [n \in Node |->
        IF n \in listed \ DOMAIN nodes
          THEN IF missing[n] > 0 THEN missing[n] ELSE time
          ELSE 0]

RangesAfter_NotRecalculated(size, up, down) == AcceptableRanges(size, ups, downs)

(* Recalculated "after removing timed out requests". *)
RangesAfter(size, up, down) == AcceptableRanges(size, up, down)

ReadinessOf(o) ==
    [g \in Group |-> Count(o.nodes, {n \in DOMAIN o.nodes \ o.lost : GroupOf[n] = g})]

UpdateNodes(o) ==
    LET ready == ReadinessOf(o)
        range == AcceptableRanges(o.size, ups, downs)
        up == StillExpected(ups, ready, range, currentTime)
        down == StillDeleting(downs, currentTime)
        after == RangesAfter(o.size, up, down)
    IN /\ updates < MaxUpdates
       /\ updates' = updates + 1
       /\ readiness' = ready
       /\ total' = Count(o.nodes, DOMAIN o.nodes)
       /\ probed' = currentTime
       /\ ups' = up
       /\ downs' = down
       /\ backoff' = UpdatedBackoff(ups, ready, range, currentTime)
       /\ ranges' = after
       /\ incorrect' = IncorrectSizes(ready, after, currentTime)
       /\ missing' = Unregistered(o.nodes, o.listed, currentTime)
       /\ fresh' = "yes"
       /\ UNCHANGED <<clock, calls>>

-----------------------------------------------------------------------------
(* The other operations. *)

Call == calls < MaxCalls /\ calls' = calls + 1 /\ UNCHANGED updates

RegisterScaleUp(g, increase) ==
    /\ Call
    /\ ups' = ups \cup {[call |-> calls, group |-> g, expected |-> now + ProvisionTime, increase |-> increase]}
    /\ fresh' = "no"
    /\ UNCHANGED <<clock, downs, seen, backoff>>

RegisterScaleDown(g) ==
    /\ Call
    /\ downs' = downs \cup {[call |-> calls, group |-> g, expected |-> now + MaxCloudProviderNodeDeletionTime]}
    /\ fresh' = "no"
    /\ UNCHANGED <<clock, ups, seen, backoff>>

(* Uses time.Now(), not the time of the loop. *)
RegisterFailedScaleUp(g) ==
    /\ Call
    /\ backoff' = [backoff EXCEPT ![g] = backoffNodeGroup(@, now)]
    /\ UNCHANGED <<clock, requests, seen, fresh>>

-----------------------------------------------------------------------------
Tick ==
    /\ now < MaxTime
    /\ now' = now + 1
    /\ UNCHANGED <<currentTime, requests, seen, backoff, updates, calls, fresh>>

(* The caller's loop begins anew. *)
StartLoop ==
    /\ currentTime' = now
    /\ UNCHANGED <<now, requests, seen, backoff, updates, calls, fresh>>

Next ==
    \/ Tick
    \/ StartLoop
    \/ \E o \in Observation : UpdateNodes(o)
    \/ \E g \in Group, increase \in Increase : RegisterScaleUp(g, increase)
    \/ \E g \in Group : RegisterScaleDown(g)
    \/ \E g \in Group : RegisterFailedScaleUp(g)

Spec == Init /\ [][Next]_vars

-----------------------------------------------------------------------------
HasRequest(up, g) == Of(up, g) # {}

Upcoming(g) == areThereUpcomingNodes(ranges[g], readiness[g])

(* UpdateNodes leaves only requests that are neither overdue nor fulfilled, *)
(* and ranges that account for exactly these: the ranges it computes first, *)
(* with the requests it is about to drop, must not survive.                 *)
RangesFollowRequests ==
    fresh = "yes" =>
        /\ \A r \in ups : r.expected > probed /\ Upcoming(r.group)
        /\ \A r \in downs : r.expected > probed
        /\ ranges = AcceptableRanges([g \in Group |-> ranges[g].target], ups, downs)

(* An overdue request is not taken for a failed scale-up while another one *)
(* of the same group is pending, in whatever order they were registered    *)
(* and run out: the nodes that are missing may be those of the other.  So  *)
(* an UpdateNodes that leaves a request of a group does not back it off.   *)
PendingSpares ==
    [][\A g \in Group :
        updates' # updates /\ HasRequest(ups', g) => backoff'[g] \in {backoff[g], NoBackoff}]_vars

(* A scale-up that leaves the registry with nodes still missing, and no    *)
(* other one to wait for, puts the group into back-off from this moment.   *)
FailureBacksOff ==
    [][\A g \in Group :
        HasRequest(ups, g) /\ ~HasRequest(ups', g) /\ Upcoming(g)' =>
            /\ backoff'[g].last = currentTime
            /\ backoff'[g].until >= currentTime + InitialNodeGroupBackoffDuration
            /\ ~IsNodeGroupSafeToScaleUp(g, currentTime)']_vars

(* The record of a group's failure outlives the back-off itself, so that   *)
(* the next one can be longer: it goes only because a scale-up was         *)
(* fulfilled or because the last failure is older than                     *)
(* NodeGroupBackoffResetTimeout.                                           *)
BackoffLeaves ==
    [][\A g \in Group :
        HasBackoff(backoff[g]) /\ ~HasBackoff(backoff'[g]) =>
            \/ backoff[g].last + NodeGroupBackoffResetTimeout < currentTime
            \/ HasRequest(ups, g) /\ ~Upcoming(g)']_vars

(* Several scale-ups that fail together do not add up: the back-off gets   *)
(* longer only if it had ended before, and then at most doubles.           *)
BackoffGrowth ==
    [][\A g \in Group :
        HasBackoff(backoff[g]) /\ backoff'[g].duration > backoff[g].duration =>
            /\ backoff[g].until < backoff'[g].last
            /\ backoff'[g].duration <= 2 * backoff[g].duration
            /\ backoff'[g].duration <= MaxNodeGroupBackoffDuration]_vars

(* A wrong size and an unregistered instance keep the time they were first *)
(* observed for as long as every UpdateNodes observes the same, and no     *)
(* longer: a size that is wrong in another way is dated anew, and what is  *)
(* observed again after a pass without it too.                             *)
ObservationsKeepStart ==
    [][/\ \A g \in Group :
            incorrect'[g].first > 0 =>
                IF /\ incorrect[g].first > 0
                   /\ incorrect[g].current = incorrect'[g].current
                   /\ incorrect[g].expected = incorrect'[g].expected
                  THEN incorrect'[g].first = incorrect[g].first
                  ELSE incorrect'[g].first = currentTime
       /\ \A n \in Node :
            missing'[n] > 0 => missing'[n] = IF missing[n] > 0 THEN missing[n] ELSE currentTime]_vars
=============================================================================
