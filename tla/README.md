# A TLA+ verification of auto-node-repair

auto-node-repair replaces Kubernetes nodes that stay `NotReady` on AWS: it grows the node's Auto
Scaling Group (ASG), waits for the new node, taints and drains the old one and terminates its
instance. It is one loop, but every step of it reads or writes something that others change at the
same time: node objects, desired capacities, pods. These modules model the loop and what it calls,
check it with TLC on small instances, and prove every safety property with TLAPS for all of them, under
the assumptions on AWS, on delays and on other users that are named below.

## The system

| Part | Source | State | Operations |
|---|---|---|---|
| repair loop | `core/static_autorepair.go`, `core/util.go` | locals of a pass: two samples, the list under repair, batch, sizes read | `RunOnce`, `RepairNodes`, `AsgRepairNodes`, `CalcExpandSize`, `IncreaseSize`, `DeleteNodes` |
| node deletion | `core/delete_nodes.go`, `utils/deletetaint` | the taint, pods to evict, eviction goroutines and their channel | `deleteNode`, `drainNode`, `evictPod`, `MarkToBeDeleted`, `CleanToBeDeleted` |
| AWS node groups | `cloudprovider/aws/aws_cloud_provider.go`, `aws_manager.go` | none (AWS has it) | `TargetSize`, `IncreaseSize`, `DecreaseTargetSize` (not called), `DeleteNodes`, `DeleteInstances`, `RestartInstances` |
| instance cache | `cloudprovider/aws/auto_scaling_groups.go` | registered groups, instance → group, negative memo, mutex | `Register`, `FindForInstance`, `regenerateCache`, the hourly goroutine |
| group discovery | `cloudprovider/aws/auto_scaling.go`, `cloudprovider/builder`, `config/dynamic/node_group_spec.go` | groups found so far | `BuildAwsCloudProvider`, `SpecFromString`, `getAutoscalingGroupsByTags` |
| cluster state registry | `clusterstate/clusterstate.go` | readiness statistics, scale requests, ranges, back-off, last report | `RegisterScaleDown` (the only one the controller calls), `RegisterScaleUp`, `RegisterFailedScaleUp`, `UpdateNodes`, `GetStatus` |
| log and status map | `clusterstate/utils` | recent messages; the map the recorder refers to | `Log`, `GetLogs`, `WriteStatusConfigMap`, `DeleteStatusConfigMap` |
| dynamic configuration | `config/dynamic` | the last configuration | `FetchConfigIfUpdated` (not called) |
| pod selection | `simulator/drain.go`, `simulator/nodes.go`, `utils/drain` | none | `DetailedGetPodsForMove`, `FastGetPodsToMove`, `GetRequiredPodsForNode` |
| scheduling simulator | `simulator` | usage tracker | `RegisterUsage`, `Unregister`, `CleanUp`, `RemoveNodeFromTracker`, `FindEmptyNodesToRemove` (not called) |
| balancing of groups | `utils/nodegroupset` | none | `BalanceScaleUpBetweenGroups` (not called) |
| readiness, listers | `utils/kubernetes` | caches of a library | `GetReadinessState`, the listers |
| leader election | `cmd/auto-node-repair/main.go`, vendored `leaderelection.go` | the lock record, what each replica has observed of it and when | `acquire`, `renew`, `tryAcquireOrRenew`, `run` |
| start-up | `core/autorepair*.go` | none | constructors |

How they interact: `RunOnce` samples the NotReady nodes twice, a repair period apart, and repairs
those in both samples, one group after the other. The instance cache says which group a node is in.
A group below its maximum grows by as many nodes as fit, waits for them, and deletes as many old
ones; a group at its maximum deletes one and then grows by one; then the rest of the list follows
in another round. A node is deleted by tainting it, evicting its pods from parallel goroutines,
waiting until they are gone, and terminating the instance, which shrinks the group again unless it
is at its minimum. Of several replicas only the one that holds a lease runs the loop, in a goroutine
that never looks at the lease: it is stopped by the end of its process.

What is hard here, and what each part has to get right:

- *Repair loop.* Sizes are read, then acted upon later; errors of `TargetSize` are dropped, leaving
  -1; waits time out and the loop goes on; a deletion that fails abandons the rest; the process can
  die anywhere. Correct means: groups stay within their limits, list slices in range, only nodes
  that were sampled twice are terminated, an undisturbed pass leaves every group at its size and
  really replaces what it set out to replace, every pass ends, a node that stays NotReady is replaced.
- *Node deletion.* Get/Update pairs conflict, answers get lost, goroutines outlive the drain that
  started them, pods are addressed by names that StatefulSets use again. Correct means: the drain
  reports success only for pods that left, abandoned deletions remove the taint, retries do not hit
  a re-created pod, nothing blocks for ever.
- *Instance cache.* Lookups race with a goroutine and with instances that move. Correct means:
  entries were true once, an instance that stays in its group is found.
- *AWS node groups.* Each operation is several requests, each of which may fail, while AWS launches
  and terminates instances. Correct means: taking back a request for nodes leaves room for all nodes
  that were there, and a list with a node of another group deletes nothing.
- *Leader election.* A leader cut off from the API server repairs on. Correct means: it is gone before
  another one starts to repair, and a lease whose leader died is taken over.
- *Registry.* Requests overlap, time out and are fulfilled in any order, and each may start, double
  or end the group's back-off. Correct means: a pending request keeps its group from being taken for
  failed, back-off follows failures and ends for a reason, ranges account for exactly the pending requests, and
  reports date their transitions consistently.
- *The parts of the library.* Pure or nearly so, but with caps, edges and retries: see the properties
  of the run `library`.

## The modules

- `NodeRepair`: the repair loop with AWS and Kubernetes as its environment. `pc` is the place in the
  code; each call that reads or writes the cluster is a step. Lists of nodes are sets: their order is
  arbitrary, and the code only splits them into a prefix and the rest. `Spend(k)` charges a
  disturbance (node failing, recovering, foreign resize, crash, failed call, lost answer, ...) to a
  budget; the properties of an undisturbed pass say which budgets must be untouched. A new node that
  comes up NotReady is `Join` followed by `Fail`. The drain is one step here. `lists` says which of the
  two lists `DeleteNodes` begins with could not be read; the code goes on with an empty one. A node in
  `Guarded` has a pod that a disruption budget keeps: `DetailedGetPodsForMove` refuses it, without the list of
  budgets its eviction is refused, and without the list of pods nothing is. The configured limits
  (`MinSize`, `MaxSize`) lie within those AWS enforces (`AwsMin`, `AwsMax`), and somebody else may
  resize a group within the former (`resize`) or anywhere within the latter (`exceed`). If that happens between the two readings of
  `AsgRepairNodes` and takes the group past its configured maximum, `CalcExpandSize` is negative and
  the slice panics: `SlicePanics`.
- `NodeDrain`: one deletion in full, from the listing of the pods to the clean-up, with one process
  per eviction goroutine. `clock` is the time relative to `retryUntil`: before it, within the five
  seconds `drainNode` adds, after. A pod is on the node, killed without grace, gone, or re-created
  elsewhere under its name; its state is also what a lookup by name sees.
- `DeleteContract`: what a deletion promises about one node (taint, then drain, then removal, or an
  attempt to release). `NodeDrain` implements it, and so does `NodeRepair` for every node
  (`KeepsContract` in both): this is how the one-step drain of `NodeRepair` and the detailed one
  fit together.
- `AsgCache`: the cache, the memo and the mutex of `autoScalingGroups`, a caller and the hourly
  goroutine, against instances that are launched, attached, detached and terminated.
- `LookupContract`: what a caller may rely on: an error, or a group the instance has been in at
  some time, or nil if it has been in none. `AsgCache` implements it (`KeepsLookup`), and the lookups of
  `NodeRepair` assume no more of an instance that does not move.
- `AsgOps`: the operations on one group that the repair loop does not use, or uses with one node only:
  `DecreaseTargetSize`, and `DeleteNodes` with any list, down to `DeleteInstances` and
  `RestartInstances`, one step per request. The two manager methods differ only in the decrement, so they
  share their steps.
- `LeaderElection`: replicas with two goroutines each, the elector and the repair loop, and the record
  in the API server. Time is kept as the ages of the timers the code compares; `now`, which
  `tryAcquireOrRenew` reads before it fetches the record, is what `BeginTry` settles. A repair pass
  is the interval between `BeginPass` and `EndPass`; `NodeRepair` says what happens in it, and
  `OneRepairer` is why one controller is enough there.
- `ClusterState`: the registry. `UpdateNodes` is one step, as it holds the lock; its time is the one
  the caller took at the start of its loop (`currentTime`), which the clock may have left behind.
  Observations of the cluster are inputs; those in `lost` are nodes whose group `NodeGroupForNode` fails to
  find, which count for the cluster and for no group. The slices of requests are sets of records (`ups`, `downs`):
  the code filters them and adds up what is in them, and never looks at their order; a number in
  the record keeps equal requests apart. `ClusterStatus` extends it by
  `UpdateScaleDownCandidates` and the reports of `GetStatus`, which takes no lock: a report is begun, built
  group by group, and completed, and the registry may change in between. What it reads of one group
  is taken as one reading.
- `UsageTracker`, `BalanceScaleUp`, `PodSelection`, `GroupDiscovery`, `DynamicConfig`, `StatusMap`,
  `LogCollector`: one module each for the remaining parts. `BalanceScaleUp` has one step per iteration of the
  loop, so that the loop invariants claimed in its comment can be checked at every one of them;
  `GroupDiscovery` one per page, as AWS changes between pages, and as the follow-up pages, asked for with
  the token alone, may tell more than was asked for; `StatusMap` separates the Get
  from the write. In `PodSelection` the code is operators, and the steps are the pods' lives.
- `MCNodeRepair`, `MCNodeDrain`, `MCAsgCache`, `MCClusterState`, `MCClusterStatus`, `MCLeaderElection`:
  instances for TLC.
- `Library` puts the eight small modules (these seven and `AsgOps`) side by side; `part` says which of
  them a behaviour belongs to, and the others stand still. This is why their `Init`, `Next`, `Spec` and
  clocks carry a prefix (`TrackerInit`, `BalanceNext`, `LogsTick`, ...). `MCLibrary` is its instance for TLC.
- `NodeRepairProofs`, `PlanProofs`, `NeutralityProofs` (each extends the one before; kept apart because
  the prover slows down on long modules): the proofs about the repair loop. `DrainProofs`: `NodeDrain`,
  `PodSelection`, `UsageTracker`. `AwsProofs`: `AsgCache`, `GroupDiscovery`. `SharedStateProofs`, about what
  several processes write: `LeaderElection`, `StatusMap`, `DynamicConfig`, `AsgOps`. `AlgorithmProofs`:
  `BalanceScaleUp`, `LogCollector`. `ClusterStateProofs`: the registry and its reports.

Operators named `X_Variant` next to `X` are plausible mistakes (a dropped guard, an off-by-one); no
action uses them. Replacing `X` by one of them makes TLC refute the property it is listed with in
`PROJECT.json`, which shows that the property depends on that piece of code.

## What is checked

| Run | Shows |
|---|---|
| `repair_safety` | one group at its minimum (sizes 2 to 3 configured, 0 to 4 in AWS, two nodes, one of them with a guarded pod, and a spare instance), any two disturbances of nine kinds: `SizeWithinBounds`, `SliceInBounds`, `TaintAccounted`, `TerminatesOnlyConfirmed`, `KeepsContract` |
| `repair_neutral` | a group of three that can take two more and a group of fixed size, nodes failing and recovering: `SizeRestored`, `SurgeBounded`, `ReplacedOnReturn` |
| `repair_liveness` | a group at its minimum and one of fixed size, any two disturbances: `PassTerminates`, `NotReadyReplaced` |
| `drain` | two listed pods, one of a StatefulSet, and one that may be scheduled later, any two disturbances: `DrainSound`, `AbandonReleases`, `SuccessorSpared`, `KeepsContract`, `EvictorsFinish`, `DeleteNodeReturns` |
| `cache` | two instances, two groups, two moves, one failing call: `KeepsLookup`, `FindsIfStable`, `EventuallyCached` |
| `leader` | two replicas, any two crashes or failed calls, every comparison of the times as tight as the assumption admits: `OneRepairer`, `LeaseReclaimed` |
| `registry` | one group with two nodes and a foreign node, four kinds of observation (one with a node whose group is not found), three requests or failures, three updates, time up to 5: `RangesFollowRequests`, `PendingSpares`, `FailureBacksOff`, `BackoffLeaves`, `BackoffGrowth`, `ObservationsKeepStart` |
| `status` | two groups, three kinds of observation, two updates at any point of a report, time up to 2: `TransitionsAdvance`, `BackoffReported` |
| `library` | the eight small modules, one at a time (table below) |

| Module | Properties in `library` |
|---|---|
| `UsageTracker` | no use is lost without marking the map overflown, and no map outgrows `maxUsageRecorded` (`UseIsRecorded`); a removal leaves no verdict that rests on the removed node or on one sharing its places (`NoOutdatedVerdict`) |
| `BalanceScaleUp` | the loop invariants, as far as those claimed hold (`LoopInvariant`); what fits is placed, as evenly as the limits allow (`Balanced`) |
| `PodSelection` | a running pod is either moved or required on a new node, an empty node interrupts nobody (`SelectionsAgree`) |
| `GroupDiscovery` | a provider that was built has the groups asked for: all those specified or, if the pages tell each tag once and none that was not asked for, those with all the tags, within proper limits (`GroupsAsAsked`) |
| `DynamicConfig` | "unchanged" is said only of what was handed out (`FetchedIsCurrent`) |
| `StatusMap` | a write does not undo what others wrote, and the recorder refers to a map this process wrote (`WritesOwnOnly`) |
| `LogCollector` | an access returns the young ones of the last `maxItems` messages (`LogIsRecent`) |
| `AsgOps` | the size `DecreaseTargetSize` sets is too small by no more than what AWS launched after it looked, so that without such a launch AWS terminates nothing because of it (`DecreaseSpares`); `DeleteNodes` terminates nothing if one node is not the group's, and k nodes take the group at most k - 1 below its minimum (`DeletesOwn`) |

Runs that end in a counterexample, because the code does not do what its documentation says:

| Run | Says | Happens |
|---|---|---|
| `readme_drained` | README: "Cordon and drain all `NotReady` nodes." | pods are listed before the taint; one scheduled in between goes down with the node |
| `increase_raises` | `IncreaseSize` "increases the size of the node group" | it can shrink a group enlarged between its read and its write |
| `bad_provider` | README: repairs nodes "by replacing them" | one unparsable provider id stops the repair of every group |

More differences are visible in the code without a run.

- "Create new nodes and wait until they are `Ready`" (README): the wait of `IncreaseSize` ends after ten
  polls, and the old nodes are deleted all the same (`AwaitReady` in `NodeRepair`).
- "`NotReady` since configurable amount of time" (README) means NotReady in two samples, with anything
  in between; a node that recovers after the second one is deleted all the same.
- "Unhealthy nodes have been replaced" is logged after every `RepairNodes`, which returns nothing, also
  when a disruption budget kept a node.
- An instance "already known to not belong to any configured ASG" (`FindForInstance`) may have been
  attached since; `EventuallyCached` bounds how long this lasts.
- `evictPod` asks for a grace period of 0 where the comment on `drainNode` speaks of
  MaxGracefulTerminationTime.
- `NodeGroupBackoffResetTimeout` "is the time after last failed scale-up when the backoff duration is
  reset"; a second failure while the group is backing off resets it as well.
- A scale-up "finished successfully" for the registry also when its nodes are missing and as many
  others carry the deletion taint; a group without nodes dates its transitions by the zero time.
- `DetailedGetPodsForMove` "raises error if there is an unreplicated pod" and "checks whether RC, DS, Jobs
  and RS that created these pods still exist" (`simulator/drain.go:63`); it passes `deleteAll` and not
  `checkReferences`, so it does neither.
- The loop invariants in `BalanceScaleUpBetweenGroups` speak of `CurrentSize`, which the loop does not
  change. Read for `NewSize`, 3 to 6 hold, and 1 and 2 do not: a group above its maximum stays above
  it when it is removed, and one that has just become full is still among those left.
  `LoopInvariant` states what holds in their place.
- `DecreaseTargetSize` "doesn't permit to delete any existing node" (`cloud_provider.go:91`); an instance
  launched between its listing and its write leaves the group with one too many, and AWS chooses which
  one to terminate.
- `asgNameOccurrences` counts tag descriptions, not distinct keys. That each is told once, also on
  pages asked for with the token alone, is left to AWS.

*Bounds.* The counters that cost states are the disturbances. Two of them at once cover every pair
(a lost answer and a crash, a resize between a read and a write and a failing call); the state left
behind by one is what the other meets. Polls are 1 instead of 10 and 4: their only effect is whether
the wait ends by success or by its limit, and both happen. The groups are chosen so that all cases
of `AsgRepairNodes` occur: below, at the maximum, at the minimum, of fixed size, and a list that
needs more than one round. In `registry` a request is overdue after 1, a back-off lasts 2 and then 3 at
most and is stale after 3: time 5 lets a request fail, the back-off end and grow, or become stale,
and the ends of all of these coincide with each other. In `status` all durations are 1 or 2, as the
question is which updates fall into a report; three observations make a scale-up start, end
and fail in the middle of one. The extra tags of a page in `GroupDiscovery` count as one of
its two changes. In `library` a map of the tracker is full with
one entry, three groups of up to three nodes make groups fill up in every position of the loop, and
the log holds two of six messages. In `AsgOps` a group of at most three
instances, one of another group and one of none give every mixture of a list. `Sweeps` = 2 lets a check of the pods fail and a later one succeed. The
proofs need none of these bounds.

*The times of the election.* `Stall` bounds every single delay: of an answer, and of a leader whose
deadline has passed. `TimesAssumption` asks that `RenewDeadline + 2 * Stall` be less than both
`LeaseDuration + StartUpDelay` and `2 * LeaseDuration`. With the defaults (15 s, 10 s and 10 min) delays
below 10 s are harmless; it is the start-up delay that gives this room, without it only delays
below 2.5 s are. TLC finds two repairers when either inequality is given up (lease 3 and
deadline 2 with stall 1 and delay 1, or with stall 2 and delay 4), so neither can be weakened.
Leader election is off by default; then nothing keeps two replicas apart.

*Deadlock* is checked except in `NodeDrain`, which describes one deletion and ends with it, and in the
registry and library runs, where the bounds on calls and time end every behaviour.

*Fairness.* `NodeRepair`: the process keeps running (its waits are bounded and its calls return) and
Kubernetes removes node objects of terminated instances. No instance is assumed to be launched, no
node to become Ready. `NodeDrain`: every goroutine runs, calls return, time passes; pods need not
terminate. `AsgCache`: calls return, the goroutine wakes up every hour, and Go's mutex serves every
waiter (its starvation mode), hence strong fairness of the steps that take it. `LeaderElection`: the
elector of a live process runs, its calls return, and time passes; a dead replica need not come back.

## What is proved

Proved means: of the modules, for all constants that satisfy the named assumptions. What a module
takes for granted about its environment is part of the statement. In particular `OneRepairerAlways` is
about replicas none of whose calls and stops takes longer than `Stall`: `Tick` does not let more time
pass, and no timeout of the client in `main.go:96-121` enforces it. `GroupsFoundAsAsked` speaks of tagged
groups only while the pages are clean (`clean`), and `SizesStayInBounds` says which clauses need that
nobody else resizes the group.

The assumptions on the constants (finite sets of nodes and pods, limits with
`AwsMin <= MinSize <= InitSize <= MaxSize <= AwsMax`, initial sizes that match the initial instances) are
named where they are used.

- `NodeRepairProofs`: `TypeCorrect`; `OnlyConfirmedTerminated`, from `NodesFlow`, which follows the nodes from
  the samples through `todo`, `work`, `batch` and `rest` to `node`, and `GuardedUnseen`: a guarded node reaches
  the termination only if the pods were not listed; `SizesStayInBounds`, from `BoundsInv`: what
  `SetSize` will write never exceeds the maximum; a decrement decided by an old reading takes the
  group to one below its minimum at worst, as the next reading restarts instead, and not below the
  minimum if nobody resizes it; `TaintsAreReleased`, from `WithinBudget` (a disturbance that
  has not happened by now has not happened before); `DeletionsKeepContract`, the step simulation onto
  `DeleteContract`.
- `PlanProofs`: `SlicesStayInBounds`, under the same proviso, from `SliceMatches` and `RoomToGrow` (between the
  two readings there is a node to repair, and room for a new one unless a reading failed or
  somebody resized the group).
- `PlanProofs`, `NeutralityProofs`: `RepairIsNeutral`, `SurgeStaysBounded`, `PassReplacesAll`. `SizeRestored` is
  not inductive: within a round the size is off by what has been added and not yet deleted.
  `NeutralInv` states the planned size at every place of the code, and that the nodes still to be
  deleted are alive and in the group, so that each deletion does shrink it; `DoneOrAhead` says that a
  node of the pass is gone or still ahead.
- `DrainProofs`, node deletion: `DrainTypeCorrect`, `DrainIsSound`, from `DrainInv`: no pod is confirmed
  twice, and the pods are only checked once all goroutines have ended, so none found gone can change
  again; `AbandonedIsReleased`; `SuccessorsSpared`, from the fact that a pod still to be evicted has
  never been away; `ImplementsContract`, the refinement of `DeleteContract`.
- `DrainProofs`, pods and tracker: `SelectionsAlwaysAgree`, for any pods, controllers, budgets and flags: the
  selections are reduced to the set of pods not skipped and a refusal (`Detailed`, `Fast`), and these
  are compared with the pods required and those of an empty node. `NoVerdictOutdated` and `UsesAreRecorded`, together inductive (`TrackerInv`): a removal finds
  all verdicts that share a place only because every use it cannot find has marked the record it is
  missing from as overflown.
- `AwsProofs`: `CacheTypeCorrect`, `StableIsFound` and `CacheKeepsLookup`, the refinement of
  `LookupContract`, from `HistoryInv`: what a regeneration has collected is true of the groups it has
  described, unless the instance moved, and an instance that moved has been outside.
  `GroupsFoundAsAsked`, for any flags and cuts into pages: `KeysCounted` and `CountedMeansAll` show that the
  count of tags, which is all the code compares, is the number of keys exactly for groups with all
  of them, as long as each tag is told once; `TagsInv` and `NamesInv` account for the pages read and those
  still to come.
- `SharedStateProofs`: `OneRepairerAlways`, for any number of replicas and all times that satisfy
  `TimesAssumption`, with every delay below `Stall`. The inductive `LeaseInv` bounds how long a leader can be without an effective
  renewal (`LeadBounded`), says that a replica has not observed a record for longer than it has been
  there (`ObservedBounded`), hence that a displaced leader is at least a lease older than its
  successor's reign (`DisplacedIsOld`), and that at most one is displaced at a time.
  `OnlyOwnWritten`, for any number of writers, from `StatusInv`: a writer whose version is still the
  map's has read the map's present notes. `FetchedStaysCurrent`, from `ConfigInv`: a version stands for
  the same settings for ever. `DecreaseAlwaysSpares` and `OnlyOwnDeleted`, for any finite group, from
  `OpsInv`: between the listing and the write the group exceeds the size to be set by what was launched
  since, and every node that has passed the check is the group's; and from `WriterInv`: a group has no
  instance too many unless somebody else, or a decrease that raced with a launch, set its size last.
- `AlgorithmProofs`: `LoopKeepsItsInvariant` and `ResultIsBalanced`, for any finite set of groups, any sizes
  and any request. The invariants of the loop are not inductive. `LoopInv` adds that the
  slice holds each group that was not full once (`Placement`); that the groups before the index are ahead
  of the one at the index by exactly one (`Ordered`), where the comment says at most one; that a group
  that grew is at most one ahead of any that is left (`Even`); and that the nodes placed and those still
  to be placed add up, with room left for the latter (`Count`), which is why the slice does not run out.
  `LogStaysRecent`, for any limits: what a cut has dropped is too old or too far back, and stays so.
- `ClusterStateProofs`: `BackoffGrowsSlowly`, `BackoffLeavesForAReason`, `AgesAreKept`. The first two rest on
  `BackoffInv` (an entry's end is its last failure plus its duration, the duration lies between the
  initial and the maximal one) and on a lemma that of several failures at one moment the third
  and later ones change nothing, so that two cover any number of them. `RangesAccountForRequests` and
  `PendingRequestsSpare`, from `RequestsInv`; `FailuresBackOff`, where `FailureFound` shows that the last
  request of a group to leave with nodes missing is one that timed out. `ReportsAdvance` and
  `BackoffIsReported`, from `ReportInv`: what a report has collected so far is dated between the transitions
  of the report before it and the observation now in the registry (`DraftInv`, `DatesInv`).

The assumptions on the constants of the small modules are those of their types: finite sets of
nodes, groups and instances, durations and limits that are natural numbers, bounds of a group that
are in order (`TrackerAssumption`, `PodsAssumption`, `LogsAssumption`, `OpsAssumption`,
`DiscoveryAssumption`, `BalanceAssumption`, `ClusterAssumption`); TLC evaluates each of them.

*Induction over data.* The prover cannot use an induction theorem that takes a predicate. Where a proof
needs induction it takes a least counterexample instead: `LeastNatural` and `SmallestSet` follow from the well-foundedness of the natural
numbers, which the library states for sets. The sums of `BalanceScaleUp` rest on them: `SumStep`,
`SumTake`, `SumUpdate` and `SumSign` say of the library's fold what is usually taken for granted.

Type correctness of `NodeRepair`, `NodeDrain` and `AsgCache` is only proved; no run repeats it.

Every safety property that a passing run checks is thereby proved, invariants and action properties
alike, and so are both refinements. Only model-checked are the liveness properties (`PassTerminates`,
`NotReadyReplaced`, `EvictorsFinish`, `DeleteNodeReturns`, `EventuallyCached`, `LeaseReclaimed`), as fairness and
`ENABLED` are outside TLAPS.

## Not modelled, and the plan

- Configured limits that are wider than those of AWS (`LimitsAssumption`).
- Two controllers at once: `OneRepairer` excludes them where the lease is used.
- `cleanToBeDeleted` has no caller.
- `FindNodesToRemove` and the search for places of the simulator are commented out in the source;
  `predicates.go` runs the scheduler's predicates one after the other; utilisation and the similarity
  of groups are quotients of floats; the template nodes of `AwsManager` are values computed from
  tags. None of these keeps state, and none has a caller in the controller.
- The reflectors behind the listers are a library's: their lag is the change of a node's state after
  it was sampled.
- The generated instance types, flags, metrics, and the constructors that only pass options on.
- That the list of scale-down requests grows for as long as the process runs: a bounded instance
  cannot show it.

Next, in this order:

1. `PodSelection` composed with `NodeDrain` in place of its choice of pods.
2. An abstract back-off refined by the registry.
3. Safety parts of the liveness arguments: a measure that every step of a pass decreases, so that
   only the fairness itself is left to TLC.
