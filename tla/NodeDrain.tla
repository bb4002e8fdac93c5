------------------------------- MODULE NodeDrain -------------------------------
(***************************************************************************)
(* The deletion of one node in detail: the iteration of DeleteNodes that   *)
(* lists its pods, then deleteNode, MarkToBeDeleted, drainNode with one    *)
(* goroutine per pod running evictPod, and CleanToBeDeleted.               *)
(*                                                                         *)
(* Pods are looked up and evicted by name.  A pod of a StatefulSet is      *)
(* created again under its old name, on another node, once it is gone.     *)
(***************************************************************************)
EXTENDS Integers, FiniteSets

CONSTANTS
    Pod,         \* the names of the pods that get scheduled on the node
    Stateful,    \* those that are created again under the same name
    Listed,      \* those on the node when the pods are listed, and of these
    Dying,       \*   the ones being terminated already
    Sweeps,      \* checks of the pods that fit in the time drainNode waits
    Budget       \* Budget[k]: how often disturbance k may happen

(***************************************************************************)
(*   fault    a call fails without effect    lost    it fails with effect  *)
(*   touch    somebody updates the node      deleted somebody deletes a    *)
(*            between our Get and Update             pod                   *)
(*   recover  the node becomes Ready and the scheduler may use it          *)
(*   any      the disturbances of all kinds together                       *)
(***************************************************************************)
Disturbance == {"fault", "lost", "touch", "deleted", "recover", "any"}

ASSUME PodAssumption ==
    /\ IsFiniteSet(Pod) /\ Stateful \subseteq Pod
    /\ Listed \subseteq Pod /\ Dying \subseteq Listed
ASSUME BoundAssumption == Sweeps \in Nat \ {0} /\ Budget \in [Disturbance -> Nat]

VARIABLES
    (* The cluster. *)
    pod,        \* pod[p]: "absent" (not yet there), "running", "terminating",
                \*   "killed" (without grace), "gone", "recreated" (elsewhere)
    ready,      \* "yes" once the node is Ready again
    taint,      \* "yes" while the node carries the ToBeDeleted taint
    inst,       \* "running" or "gone"
    clock,      \* 0 before retryUntil, 1 before retryUntil + 5s, 2 after
    budget,
    (* The thread that deletes the node. *)
    pc,
    pods,       \* podsToRemove
    copy,       \* freshNode: "none", "current", or "stale" if changed since
    arrived,    \* drainNode: the pods whose confirmation has been received
    errs,       \* drainNode: those of them with an error
    sweep,      \* drainNode: the pods this check has not come to
    allGone,    \* drainNode: allGone
    round,      \* drainNode: the checks begun
    outcome,    \* "none", "skipped", "deleted" or "failed"
    (* The goroutines. *)
    ev,         \* ev[p]: "none", "try", "sleep", "send", "done"
    res,        \* res[p]: what evictPod returns, "nil" or "error"
    confirmations  \* the channel

cluster == <<pod, ready, taint, inst, clock>>
drain == <<arrived, errs, sweep, allGone, round>>
evictors == <<ev, res, confirmations>>
vars == <<cluster, budget, pc, pods, copy, drain, outcome, evictors>>

Spend(k) ==
    /\ budget[k] > 0
    /\ budget["any"] > 0
    /\ budget' = [budget EXCEPT ![k] = @ - 1, !["any"] = @ - 1]

OnNode == {"running", "terminating"}

-----------------------------------------------------------------------------
(* The decisions of the code. *)

GracePeriodSeconds == 0

(* What the eviction of a pod makes of it: without a grace period the API  *)
(* server drops it at once, unless a finalizer holds it.                   *)
EvictedAs == {"terminating"} \cup (IF GracePeriodSeconds = 0 THEN {"killed"} ELSE {})

(* Does Get by name, or Evict, find a pod? *)
Found(p) == pod[p] \in OnNode \cup {"recreated"}

ChannelSize_Unbuffered == 0

(* make(chan error, toEvict) *)
ChannelSize == Cardinality(pods)

(* evictPod tries again only before retryUntil. *)
MayRetry == clock = 0

AfterSuccess_Repeat == "sleep"

(* evictPod returns once the eviction has been accepted. *)
AfterSuccess == "send"

AfterError_Ignored(p) == allGone

(* A Get that fails for any reason but NotFound tells nothing of the pod. *)
AfterError(p) == "no"

(* The goroutine ends with its one confirmation. *)
AfterSend == "done"

Elapsed_Restarted(r) == 1

(* The time spent waiting counts from the first check. *)
Elapsed(r) == r + 1

-----------------------------------------------------------------------------
Init ==
    /\ pod = [p \in Pod |-> IF p \in Dying THEN "terminating"
                            ELSE IF p \in Listed THEN "running" ELSE "absent"]
    /\ ready = "no" /\ taint \in {"no", "yes"} /\ inst = "running" /\ clock = 0
    /\ budget = Budget
    /\ pc = "list" /\ pods = {} /\ copy = "none"
    /\ arrived = {} /\ errs = {} /\ sweep = {} /\ allGone = "yes" /\ round = 0
    /\ outcome = "none"
    /\ ev = [p \in Pod |-> "none"] /\ res = [p \in Pod |-> "nil"] /\ confirmations = {}

Return(o) == pc' = "returned" /\ outcome' = o

(***************************************************************************)
(* DeleteNodes: list the pods and let DetailedGetPodsForMove choose; it    *)
(* refuses a node whose pods a disruption budget protects.  An error of    *)
(* the lister is logged, and the node then seems to have no pods.          *)
(***************************************************************************)
ListPods ==
    /\ pc = "list"
    /\ \/ pods' = {p \in Pod : pod[p] \in OnNode} /\ pc' = "mark" /\ UNCHANGED <<budget, outcome>>
       \/ pods' = {} /\ pc' = "mark" /\ Spend("fault") /\ UNCHANGED outcome
       \/ Return("skipped") /\ UNCHANGED <<pods, budget>>
    /\ UNCHANGED <<cluster, copy, drain, evictors>>

(* MarkToBeDeleted: Get; a node that has the taint already is left alone. *)
GetToMark ==
    /\ pc = "mark"
    /\ \/ /\ copy' = "current"
          /\ pc' = IF taint = "yes" THEN "drain" ELSE "taint"
          /\ UNCHANGED <<budget, outcome>>
       \/ Spend("fault") /\ Return("failed") /\ UNCHANGED copy
    /\ UNCHANGED <<cluster, pods, drain, evictors>>

MarkToBeDeleted_NoUpdate ==
    /\ pc = "taint"
    /\ pc' = "drain"
    /\ UNCHANGED <<cluster, budget, pods, copy, drain, outcome, evictors>>

(* MarkToBeDeleted: Update; deleteNode returns on an error. *)
MarkToBeDeleted ==
    /\ pc = "taint"
    /\ \/ /\ copy = "current"
          /\ taint' = "yes"
          /\ \/ pc' = "drain" /\ UNCHANGED <<budget, outcome>>
             \/ Spend("lost") /\ Return("failed")
       \/ /\ IF copy = "stale" THEN UNCHANGED budget ELSE Spend("fault")
          /\ Return("failed")
          /\ UNCHANGED taint
    /\ copy' = "none"
    /\ UNCHANGED <<pod, ready, inst, clock, pods, drain, evictors>>

(* drainNode starts a goroutine per pod. *)
DrainNode ==
    /\ pc = "drain"
    /\ ev' = [p \in Pod |-> IF p \in pods THEN "try" ELSE "none"]
    /\ clock' = 0
    /\ copy' = "none"
    /\ pc' = "collect"
    /\ UNCHANGED <<pod, ready, taint, inst, budget, pods, drain, outcome, res, confirmations>>

(* drainNode receives a confirmation. *)
Receive(p) ==
    /\ pc = "collect"
    /\ p \in confirmations
    /\ confirmations' = confirmations \ {p}
    /\ arrived' = arrived \cup {p}
    /\ errs' = IF res[p] = "error" THEN errs \cup {p} ELSE errs
    /\ UNCHANGED <<cluster, budget, pc, pods, copy, sweep, allGone, round, outcome, ev, res>>

(* ... or gives up waiting for one. *)
EvictionTimeout ==
    /\ pc = "collect"
    /\ arrived # pods
    /\ clock = 2
    /\ pc' = "clean"
    /\ UNCHANGED <<cluster, budget, pods, copy, drain, outcome, evictors>>

AllConfirmed ==
    /\ pc = "collect"
    /\ arrived = pods
    /\ pc' = IF errs # {} THEN "clean" ELSE "poll"
    /\ UNCHANGED <<cluster, budget, pods, copy, drain, outcome, evictors>>

(* drainNode checks whether the pods are gone, again and again. *)
BeginSweep ==
    /\ pc = "poll"
    /\ round < Sweeps
    /\ round' = Elapsed(round)
    /\ allGone' = "yes"
    /\ sweep' = pods
    /\ pc' = "sweep"
    /\ UNCHANGED <<cluster, budget, pods, copy, arrived, errs, outcome, evictors>>

(* A slow check leaves less time for others. *)
PollTimeout ==
    /\ pc = "poll"
    /\ round > 0
    /\ pc' = "clean"
    /\ UNCHANGED <<cluster, budget, pods, copy, drain, outcome, evictors>>

CheckPod(p) ==
    /\ pc = "sweep"
    /\ p \in sweep
    /\ \/ /\ Found(p)
          /\ allGone' = "no"
          /\ pc' = "poll"
          /\ UNCHANGED <<sweep, budget>>
       \/ /\ ~Found(p)
          /\ sweep' = sweep \ {p}
          /\ UNCHANGED <<pc, allGone, budget>>
       \/ /\ Spend("fault")
          /\ allGone' = AfterError(p)
          /\ sweep' = sweep \ {p}
          /\ UNCHANGED pc
    /\ UNCHANGED <<cluster, pods, copy, arrived, errs, round, outcome, evictors>>

EndSweep ==
    /\ pc = "sweep"
    /\ sweep = {}
    /\ pc' = IF allGone = "yes" THEN "cloud" ELSE "poll"
    /\ UNCHANGED <<cluster, budget, pods, copy, drain, outcome, evictors>>

(* deleteNodeFromCloudProvider *)
DeleteFromCloudProvider ==
    /\ pc = "cloud"
    /\ \/ inst' = "gone" /\ Return("deleted") /\ UNCHANGED budget
       \/ inst' = "gone" /\ Spend("lost") /\ pc' = "clean" /\ UNCHANGED outcome
       \/ Spend("fault") /\ pc' = "clean" /\ UNCHANGED <<inst, outcome>>
    /\ UNCHANGED <<pod, ready, taint, clock, pods, copy, drain, evictors>>

(* The deferred clean-up: CleanToBeDeleted, whose error nobody looks at. *)
GetToClean ==
    /\ pc = "clean"
    /\ \/ copy' = "current" /\ pc' = "untaint" /\ UNCHANGED <<budget, outcome>>
       \/ inst = "gone" /\ Return("failed") /\ UNCHANGED <<copy, budget>>
       \/ Spend("fault") /\ Return("failed") /\ UNCHANGED copy
    /\ UNCHANGED <<cluster, pods, drain, evictors>>

CleanToBeDeleted_Leave == UNCHANGED taint

(* The taint is dropped from the copy and the copy written back. *)
CleanToBeDeleted == taint' = "no"

UpdateToClean ==
    /\ pc = "untaint"
    /\ \/ copy = "current" /\ CleanToBeDeleted /\ UNCHANGED budget
       \/ copy = "stale" /\ UNCHANGED <<taint, budget>>
       \/ copy = "current" /\ Spend("fault") /\ UNCHANGED taint
    /\ copy' = "none"
    /\ Return("failed")
    /\ UNCHANGED <<pod, ready, inst, clock, pods, drain, evictors>>

-----------------------------------------------------------------------------
(* evictPod, one goroutine per pod.  It outlives a drainNode that gave up. *)

thread == <<pc, pods, copy, drain, outcome>>

TryEvict(p) ==
    /\ ev[p] = "try"
    /\ \/ /\ ~Found(p)                                  \* NotFound
          /\ ev' = [ev EXCEPT ![p] = "send"]
          /\ UNCHANGED <<pod, budget>>
       \/ /\ Found(p)
          /\ \E s \in EvictedAs : pod' = [pod EXCEPT ![p] = s]
          /\ \/ ev' = [ev EXCEPT ![p] = AfterSuccess] /\ UNCHANGED budget
             \/ ev' = [ev EXCEPT ![p] = "sleep"] /\ Spend("lost")
       \/ /\ Found(p)                                   \* refused
          /\ ev' = [ev EXCEPT ![p] = "sleep"]
          /\ UNCHANGED <<pod, budget>>
       \/ /\ ev' = [ev EXCEPT ![p] = "sleep"]
          /\ Spend("fault")
          /\ UNCHANGED pod
    /\ UNCHANGED <<ready, taint, inst, clock, thread, res, confirmations>>

Wake(p) ==
    /\ ev[p] = "sleep"
    /\ \/ MayRetry /\ ev' = [ev EXCEPT ![p] = "try"] /\ UNCHANGED res
       \/ ~MayRetry /\ ev' = [ev EXCEPT ![p] = "send"] /\ res' = [res EXCEPT ![p] = "error"]
    /\ UNCHANGED <<cluster, budget, thread, confirmations>>

(* A send into a full channel waits for drainNode to receive. *)
Send(p) ==
    /\ ev[p] = "send"
    /\ Cardinality(confirmations) < ChannelSize \/ (confirmations = {} /\ pc = "collect")
    /\ confirmations' = confirmations \cup {p}
    /\ ev' = [ev EXCEPT ![p] = AfterSend]
    /\ UNCHANGED <<cluster, budget, thread, res>>

-----------------------------------------------------------------------------
(* The environment. *)

(* Time passes for those who look at it. *)
Tick ==
    /\ pc = "collect" \/ \E p \in Pod : ev[p] \in {"try", "sleep"}
    /\ clock < 2
    /\ clock' = clock + 1
    /\ UNCHANGED <<pod, ready, taint, inst, budget, thread, evictors>>

(* Somebody else updates the node object. *)
Touch ==
    /\ copy = "current"
    /\ Spend("touch")
    /\ copy' = "stale"
    /\ UNCHANGED <<cluster, pc, pods, drain, outcome, evictors>>

(* A pod terminates; somebody else deletes one; a StatefulSet creates it   *)
(* again; the scheduler places a new one on the node.                      *)
Terminated(p) ==
    /\ pod[p] = "terminating"
    /\ pod' = [pod EXCEPT ![p] = "gone"]
    /\ UNCHANGED <<ready, taint, inst, clock, budget, thread, evictors>>

DeletePod(p) ==
    /\ pod[p] = "running"
    /\ Spend("deleted")
    /\ pod' = [pod EXCEPT ![p] = "terminating"]
    /\ UNCHANGED <<ready, taint, inst, clock, thread, evictors>>

Recreate(p) ==
    /\ pod[p] \in {"gone", "killed"}
    /\ p \in Stateful
    /\ pod' = [pod EXCEPT ![p] = "recreated"]
    /\ UNCHANGED <<ready, taint, inst, clock, budget, thread, evictors>>

Recover ==
    /\ ready = "no"
    /\ Spend("recover")
    /\ ready' = "yes"
    /\ UNCHANGED <<pod, taint, inst, clock, thread, evictors>>

Schedule(p) ==
    /\ pod[p] = "absent"
    /\ ready = "yes" /\ taint = "no" /\ inst = "running"
    /\ pod' = [pod EXCEPT ![p] = "running"]
    /\ UNCHANGED <<ready, taint, inst, clock, budget, thread, evictors>>

DeleteNode ==
    \/ ListPods \/ GetToMark \/ MarkToBeDeleted \/ DrainNode
    \/ (\E p \in Pod : Receive(p)) \/ EvictionTimeout \/ AllConfirmed
    \/ BeginSweep \/ PollTimeout \/ (\E p \in Pod : CheckPod(p)) \/ EndSweep
    \/ DeleteFromCloudProvider \/ GetToClean \/ UpdateToClean

EvictPod(p) == TryEvict(p) \/ Wake(p) \/ Send(p)

Environment ==
    \/ Tick \/ Touch \/ Recover
    \/ \E p \in Pod : Terminated(p) \/ DeletePod(p) \/ Recreate(p) \/ Schedule(p)

Next == DeleteNode \/ (\E p \in Pod : EvictPod(p)) \/ Environment

(* The Go scheduler runs every goroutine, calls return, time passes. *)
Fairness ==
    /\ WF_vars(DeleteNode)
    /\ \A p \in Pod : WF_vars(EvictPod(p))
    /\ WF_vars(Tick)

Spec == Init /\ [][Next]_vars /\ Fairness

-----------------------------------------------------------------------------
(* Properties. *)

TypeOK ==
    /\ pod \in [Pod -> {"absent", "running", "terminating", "killed", "gone", "recreated"}]
    /\ ready \in {"no", "yes"} /\ taint \in {"no", "yes"} /\ inst \in {"running", "gone"}
    /\ clock \in 0 .. 2
    /\ budget \in [Disturbance -> Nat]
    /\ pc \in {"list", "mark", "taint", "drain", "collect", "poll", "sweep", "cloud", "clean",
               "untaint", "returned"}
    /\ pods \subseteq Pod /\ copy \in {"none", "current", "stale"}
    /\ arrived \subseteq pods /\ errs \subseteq arrived /\ sweep \subseteq pods
    /\ allGone \in {"yes", "no"} /\ round \in 0 .. Sweeps
    /\ outcome \in {"none", "skipped", "deleted", "failed"}
    /\ ev \in [Pod -> {"none", "try", "sleep", "send", "done"}]
    /\ res \in [Pod -> {"nil", "error"}]
    /\ confirmations \subseteq pods \ arrived

Untouched(K) == \A k \in K : budget[k] = Budget[k]

(***************************************************************************)
(* drainNode reports success only when every pod it was given is off the   *)
(* node, although it looks at them one after the other, while they         *)
(* terminate and StatefulSets create them again elsewhere.  A pod that was *)
(* deleted without grace counts as off the node: the API server has        *)
(* dropped it, and the code asks nobody else.                              *)
(***************************************************************************)
DrainSound ==
    pc = "cloud" => \A p \in pods : pod[p] \in {"killed", "gone", "recreated"}

(***************************************************************************)
(* A deletion abandoned because pods would not go leaves the node          *)
(* schedulable, even if the taint was there before.  This takes calls that *)
(* succeed and nobody else who updates the node: an error of the clean-up  *)
(* is dropped, and the taint stays.                                        *)
(***************************************************************************)
AbandonReleases ==
    (pc = "returned" /\ outcome = "failed" /\ Untouched({"fault", "lost", "touch"}))
        => taint = "no"

(***************************************************************************)
(* evictPod works by name, so a retry could hit the pod's successor on     *)
(* another node.  It does not, as long as nothing but evictPod removes the *)
(* pod and its success is reported: after an answer that was lost it does. *)
(***************************************************************************)
SuccessorSpared ==
    [][\A p \in Pod \ Dying :
         (pod[p] = "recreated" /\ pod'[p] # "recreated") =>
             ~Untouched({"lost", "deleted"})]_vars

(***************************************************************************)
(* Every goroutine of drainNode ends, also those drainNode no longer       *)
(* listens to: the channel has room for all of them.                       *)
(***************************************************************************)
EvictorsFinish == <>[](\A p \in Pod : ev[p] \in {"none", "done"})

(* deleteNode returns, whatever pods and API server do. *)
DeleteNodeReturns == <>(pc = "returned")

(* deleteNode keeps the contract the repair loop relies on. *)
Phase ==
    CASE pc \in {"drain", "collect", "poll", "sweep"} -> "marked"
      [] pc = "cloud" -> "drained"
      [] pc \in {"clean", "untaint"} -> "abandoned"
      [] OTHER -> "idle"

Contract == INSTANCE DeleteContract WITH phase <- Phase

(***************************************************************************)
(* deleteNode in all its steps implements DeleteContract: taint, drain,    *)
(* remove, and release on failure.                                         *)
(***************************************************************************)
KeepsContract == Contract!Spec

(***************************************************************************)
(* No pod runs on a node when its instance is removed.  Stated by the      *)
(* README: "Cordon and drain all `NotReady` nodes."                        *)
(***************************************************************************)
DrainedBeforeRemoval ==
    [][inst' # inst => \A p \in Pod : pod[p] \notin OnNode]_vars
=============================================================================
