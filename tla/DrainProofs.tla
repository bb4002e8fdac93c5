---------------------------- MODULE DrainProofs -----------------------------
(***************************************************************************)
(* Proofs about taking a node out: deleteNode, for any pods and timings;   *)
(* the pods selected for a drain; and the record of which nodes the pods of *)
(* others would have moved to.                                             *)
(***************************************************************************)
EXTENDS NodeDrain, PodSelection, UsageTracker, FiniteSetTheorems, TLAPS

(* deleteNode. *)

-----------------------------------------------------------------------------
(* The inductive invariant. *)

(* Nothing of drainNode has happened before it is called. *)
NotStarted ==
    pc \in {"list", "mark", "taint", "drain"} =>
        /\ arrived = {} /\ errs = {} /\ sweep = {} /\ confirmations = {}
        /\ \A p \in Pod : ev[p] = "none"

(* A goroutine that runs has not confirmed its pod yet. *)
ConfirmsOnce ==
    \A p \in Pod : ev[p] \in {"try", "sleep", "send"} => p \in pods \ (arrived \cup confirmations)

Off(p) == pod[p] \in {"killed", "gone", "recreated"}

(* The pods are checked after every goroutine has ended, so a pod that was *)
(* found gone stays gone.                                                  *)
CheckedAreOff ==
    /\ \A p \in pods : pod[p] # "absent"
    /\ pc \in {"poll", "sweep", "cloud"} => arrived = pods
    /\ (pc = "sweep" /\ allGone = "yes") => \A p \in pods \ sweep : Off(p)
    /\ pc = "cloud" => \A p \in pods : Off(p)

DrainInv == TypeOK /\ NotStarted /\ ConfirmsOnce /\ CheckedAreOff

LEMMA InitInv == Init => DrainInv
  BY PodAssumption, BoundAssumption
     DEF Init, DrainInv, TypeOK, NotStarted, ConfirmsOnce, CheckedAreOff

(* Every step keeps the invariant. *)
LEMMA NextInv == DrainInv /\ [Next]_vars => DrainInv'
<1> SUFFICES ASSUME DrainInv, [Next]_vars PROVE DrainInv'
  OBVIOUS
<1> USE PodAssumption, BoundAssumption
    DEF DrainInv, TypeOK, NotStarted, ConfirmsOnce, CheckedAreOff, Off,
        cluster, drain, evictors, thread, OnNode
<1>1. CASE ListPods
  BY <1>1 DEF ListPods, Spend, Return
<1>2. CASE GetToMark
  BY <1>2 DEF GetToMark, Spend, Return
<1>3. CASE MarkToBeDeleted
  BY <1>3 DEF MarkToBeDeleted, Spend, Return
<1>4. CASE DrainNode
  BY <1>4 DEF DrainNode
<1>5. ASSUME NEW p \in Pod, Receive(p) PROVE DrainInv'
  BY <1>5 DEF Receive
<1>6. CASE EvictionTimeout
  BY <1>6 DEF EvictionTimeout
<1>7. CASE AllConfirmed
  BY <1>7 DEF AllConfirmed
<1>8. CASE BeginSweep
  BY <1>8 DEF BeginSweep, Elapsed
<1>9. CASE PollTimeout
  BY <1>9 DEF PollTimeout
<1>10. ASSUME NEW p \in Pod, CheckPod(p) PROVE DrainInv'
  BY <1>10 DEF CheckPod, AfterError, Spend, Found
<1>11. CASE EndSweep
  BY <1>11 DEF EndSweep
<1>12. CASE DeleteFromCloudProvider
  BY <1>12 DEF DeleteFromCloudProvider, Spend, Return
<1>13. CASE GetToClean
  BY <1>13 DEF GetToClean, Spend, Return
<1>14. CASE UpdateToClean
  BY <1>14 DEF UpdateToClean, CleanToBeDeleted, Spend, Return
<1>15. ASSUME NEW p \in Pod, TryEvict(p) PROVE DrainInv'
  BY <1>15 DEF TryEvict, EvictedAs, AfterSuccess, Spend
<1>16. ASSUME NEW p \in Pod, Wake(p) PROVE DrainInv'
  BY <1>16 DEF Wake
<1>17. ASSUME NEW p \in Pod, Send(p) PROVE DrainInv'
  BY <1>17 DEF Send, AfterSend
<1>18. CASE Tick \/ Touch \/ Recover
  BY <1>18 DEF Tick, Touch, Recover, Spend
<1>19. ASSUME NEW p \in Pod, Terminated(p) \/ Recreate(p) PROVE DrainInv'
  BY <1>19 DEF Terminated, Recreate
<1>20. ASSUME NEW p \in Pod, DeletePod(p) \/ Schedule(p) PROVE DrainInv'
  BY <1>20 DEF DeletePod, Schedule, Spend
<1>21. CASE UNCHANGED vars
  BY <1>21 DEF vars
<1> QED
  BY <1>1, <1>2, <1>3, <1>4, <1>5, <1>6, <1>7, <1>8, <1>9, <1>10, <1>11, <1>12, <1>13, <1>14,
     <1>15, <1>16, <1>17, <1>18, <1>19, <1>20, <1>21, Zenon DEF Next, DeleteNode, EvictPod, Environment

LEMMA DrainInvariant == Spec => []DrainInv
  BY InitInv, NextInv, PTL DEF Spec

(* Type correctness of the deletion. *)
THEOREM DrainTypeCorrect == Spec => []TypeOK
<1>1. DrainInv => TypeOK
  BY DEF DrainInv
<1> QED
  BY <1>1, DrainInvariant, PTL

(* drainNode reports success only when the pods it was given are off the   *)
(* node, however checks, terminations and re-creations interleave.         *)
THEOREM DrainIsSound == Spec => []DrainSound
<1>1. DrainInv => DrainSound
  BY DEF DrainInv, CheckedAreOff, DrainSound, Off
<1> QED
  BY <1>1, DrainInvariant, PTL

-----------------------------------------------------------------------------
(* Without a failing call nothing keeps the taint on the node. *)

(* Budgets only shrink. *)
BudgetInv == \A k \in Disturbance : budget[k] <= Budget[k]

Reliable == Untouched({"fault", "lost", "touch"})

(* What holds as long as no call has failed. *)
ReliableInv ==
    /\ copy # "stale"
    /\ pc # "returned" => outcome = "none"
    /\ inst = "gone" => (pc = "returned" /\ outcome = "deleted")
    /\ (pc = "returned" /\ outcome = "failed") => taint = "no"

ReleaseInv == DrainInv /\ BudgetInv /\ (Reliable => ReliableInv)

(* A disturbance is counted: its budget stays below what it was. *)
LEMMA SpendCounts ==
  ASSUME TypeOK, BudgetInv, NEW k \in Disturbance \ {"any"}, Spend(k)
  PROVE  BudgetInv' /\ budget'[k] < Budget[k]
<1>1. /\ budget'[k] = budget[k] - 1 /\ budget'["any"] = budget["any"] - 1
      /\ \A j \in Disturbance \ {k, "any"} : budget'[j] = budget[j]
  BY DEF TypeOK, Spend, Disturbance
<1>2. \A j \in Disturbance : budget[j] \in Nat /\ Budget[j] \in Nat /\ budget[j] <= Budget[j]
  BY BoundAssumption DEF TypeOK, BudgetInv
<1>3. budget'[k] < Budget[k]
  BY <1>1, <1>2
<1>4. ASSUME NEW j \in Disturbance PROVE budget'[j] <= Budget[j]
  BY <1>1, <1>2
<1> QED
  BY <1>3, <1>4 DEF BudgetInv

(* Budgets never grow. *)
LEMMA BudgetStep == TypeOK /\ BudgetInv /\ [Next]_vars => BudgetInv'
<1> SUFFICES ASSUME TypeOK, BudgetInv, [Next]_vars PROVE BudgetInv'
  OBVIOUS
<1>1. CASE \E k \in Disturbance \ {"any"} : Spend(k)
  BY <1>1, SpendCounts
<1>2. CASE UNCHANGED budget
  BY <1>2 DEF BudgetInv
<1>3. (\E k \in Disturbance \ {"any"} : Spend(k)) \/ UNCHANGED budget
  BY DEF Disturbance, Next, DeleteNode, EvictPod, Environment, ListPods, GetToMark, MarkToBeDeleted,
     DrainNode, Receive, EvictionTimeout, AllConfirmed, BeginSweep, PollTimeout, CheckPod, EndSweep,
     DeleteFromCloudProvider, GetToClean, UpdateToClean, TryEvict, Wake, Send, Tick, Touch, Recover,
     Terminated, DeletePod, Recreate, Schedule, vars
<1> QED
  BY <1>1, <1>2, <1>3

(* A step after which no call has failed has none that fails. *)
LEMMA ReliableStep ==
  ASSUME TypeOK, BudgetInv, Reliable', [Next]_vars
  PROVE  Reliable /\ ~Spend("fault") /\ ~Spend("lost") /\ ~Spend("touch")
<1>1. \A k \in {"fault", "lost", "touch"} : ~Spend(k) /\ budget'[k] = Budget[k]
  <2> SUFFICES ASSUME NEW k \in {"fault", "lost", "touch"}
               PROVE  ~Spend(k) /\ budget'[k] = Budget[k]
    OBVIOUS
  <2>1. budget'[k] = Budget[k]
    BY DEF Reliable, Untouched
  <2>2. k \in Disturbance \ {"any"}
    BY DEF Disturbance
  <2> QED
    BY <2>1, <2>2, SpendCounts, BoundAssumption DEF TypeOK, Disturbance
<1>2. \A k \in {"fault", "lost", "touch"} : budget[k] = Budget[k]
  <2>1. \A j \in Disturbance : Spend(j) => \A k \in Disturbance \ {j, "any"} : budget'[k] = budget[k]
    BY DEF Spend, TypeOK
  <2>2. (\E k \in {"deleted", "recover"} : Spend(k)) \/ UNCHANGED budget
    BY <1>1 DEF Next, DeleteNode, EvictPod, Environment, ListPods, GetToMark,
       MarkToBeDeleted, DrainNode, Receive, EvictionTimeout, AllConfirmed, BeginSweep, PollTimeout,
       CheckPod, EndSweep, DeleteFromCloudProvider, GetToClean, UpdateToClean, TryEvict, Wake, Send,
       Tick, Touch, Recover, Terminated, DeletePod, Recreate, Schedule, vars
  <2> QED
    BY <1>1, <2>1, <2>2 DEF Disturbance
<1> QED
  BY <1>1, <1>2 DEF Reliable, Untouched

LEMMA ReleaseStep == ReleaseInv /\ [Next]_vars => ReleaseInv'
<1> SUFFICES ASSUME ReleaseInv, [Next]_vars PROVE ReleaseInv'
  OBVIOUS
<1>1. DrainInv' /\ BudgetInv'
  BY NextInv, BudgetStep DEF ReleaseInv, DrainInv
<1>2. SUFFICES ASSUME Reliable' PROVE ReliableInv'
  BY <1>1 DEF ReleaseInv
<1>3. Reliable /\ ~Spend("fault") /\ ~Spend("lost") /\ ~Spend("touch")
  BY <1>2, ReliableStep DEF ReleaseInv, DrainInv
<1>4. TypeOK /\ ReliableInv
  BY <1>3 DEF ReleaseInv, DrainInv
<1> HIDE DEF Spend
<1>5. CASE DeleteNode
  BY <1>3, <1>4, <1>5 DEF TypeOK, ReliableInv, DeleteNode, ListPods, GetToMark, MarkToBeDeleted,
     DrainNode, Receive, EvictionTimeout, AllConfirmed, BeginSweep, PollTimeout, CheckPod, EndSweep,
     DeleteFromCloudProvider, GetToClean, UpdateToClean, CleanToBeDeleted, Return, cluster, drain
<1>6. ASSUME NEW p \in Pod, EvictPod(p) PROVE ReliableInv'
  BY <1>3, <1>4, <1>6 DEF ReliableInv, EvictPod, TryEvict, Wake, Send, thread, cluster
<1>7. CASE Environment
  BY <1>3, <1>4, <1>7 DEF ReliableInv, Environment, Tick, Touch, Recover, Terminated, DeletePod,
     Recreate, Schedule, thread, cluster
<1>8. CASE UNCHANGED vars
  BY <1>4, <1>8 DEF ReliableInv, vars, cluster
<1> QED
  BY <1>5, <1>6, <1>7, <1>8 DEF Next

(* Unless a call fails or another client updates the node, an abandoned    *)
(* deletion leaves it without the taint.                                   *)
THEOREM AbandonedIsReleased == Spec => []AbandonReleases
<1>1. Init => ReleaseInv
  <2>1. Init => BudgetInv /\ ReliableInv
    BY BoundAssumption DEF Init, BudgetInv, ReliableInv
  <2> QED
    BY <2>1, InitInv DEF ReleaseInv
<1>2. ReleaseInv => AbandonReleases
  BY DEF ReleaseInv, Reliable, ReliableInv, AbandonReleases
<1> QED
  BY <1>1, <1>2, ReleaseStep, PTL DEF Spec

-----------------------------------------------------------------------------
(* evictPod and the pods that are created again. *)

Alone == Untouched({"lost", "deleted"})

(* As long as only evictPod removes pods, and learns of it, the pods it    *)
(* still has to evict have never been away.                                *)
AloneInv ==
    \A p \in Pod \ Dying :
        /\ pc = "list" => pod[p] \in {"running", "absent"}
        /\ (pc \in {"mark", "taint", "drain"} /\ p \in pods) => pod[p] = "running"
        /\ ev[p] \in {"try", "sleep"} => pod[p] = "running"

SuccessorInv == DrainInv /\ BudgetInv /\ (Alone => AloneInv)

(* A step after which evictPod is still alone disturbs nothing. *)
LEMMA AloneStep ==
  ASSUME TypeOK, BudgetInv, Alone', [Next]_vars
  PROVE  Alone /\ ~Spend("lost") /\ ~Spend("deleted")
<1>1. \A k \in {"lost", "deleted"} : ~Spend(k) /\ budget'[k] = Budget[k]
  <2> SUFFICES ASSUME NEW k \in {"lost", "deleted"}
               PROVE  ~Spend(k) /\ budget'[k] = Budget[k]
    OBVIOUS
  <2>1. budget'[k] = Budget[k]
    BY DEF Alone, Untouched
  <2>2. k \in Disturbance \ {"any"}
    BY DEF Disturbance
  <2> QED
    BY <2>1, <2>2, SpendCounts, BoundAssumption DEF TypeOK, Disturbance
<1>2. \A k \in {"lost", "deleted"} : budget[k] = Budget[k]
  <2>1. \A j \in Disturbance : Spend(j) => \A k \in Disturbance \ {j, "any"} : budget'[k] = budget[k]
    BY DEF Spend, TypeOK
  <2>2. (\E k \in {"fault", "touch", "recover"} : Spend(k)) \/ UNCHANGED budget
    BY <1>1, Zenon DEF Next, DeleteNode, EvictPod, Environment, ListPods, GetToMark,
       MarkToBeDeleted, DrainNode, Receive, EvictionTimeout, AllConfirmed, BeginSweep, PollTimeout,
       CheckPod, EndSweep, DeleteFromCloudProvider, GetToClean, UpdateToClean, TryEvict, Wake, Send,
       Tick, Touch, Recover, Terminated, DeletePod, Recreate, Schedule, vars
  <2> QED
    BY <1>1, <2>1, <2>2 DEF Disturbance
<1> QED
  BY <1>1, <1>2 DEF Alone, Untouched

LEMMA SuccessorStep == SuccessorInv /\ [Next]_vars => SuccessorInv'
<1> SUFFICES ASSUME SuccessorInv, [Next]_vars PROVE SuccessorInv'
  OBVIOUS
<1>1. DrainInv' /\ BudgetInv'
  BY NextInv, BudgetStep DEF SuccessorInv, DrainInv
<1>2. SUFFICES ASSUME Alone' PROVE AloneInv'
  BY <1>1 DEF SuccessorInv
<1>3. Alone /\ ~Spend("lost") /\ ~Spend("deleted")
  BY <1>2, AloneStep DEF SuccessorInv, DrainInv
<1>4. TypeOK /\ NotStarted /\ AloneInv
  BY <1>3 DEF SuccessorInv, DrainInv
<1>5. CASE ListPods
  BY <1>4, <1>5 DEF TypeOK, NotStarted, AloneInv, ListPods, OnNode, Return, cluster, evictors
<1>6. CASE DrainNode
  BY <1>4, <1>6 DEF TypeOK, AloneInv, DrainNode
<1>7. CASE DeleteNode /\ ~ListPods /\ ~DrainNode
  <2>1. UNCHANGED <<pod, ev>> /\ (pc' \in {"mark", "taint", "drain"} => pc \in {"mark", "taint"})
        /\ pc' # "list" /\ UNCHANGED pods
    BY <1>4, <1>7 DEF TypeOK, DeleteNode, GetToMark, MarkToBeDeleted, Receive, EvictionTimeout,
       AllConfirmed, BeginSweep, PollTimeout, CheckPod, EndSweep, DeleteFromCloudProvider, GetToClean,
       UpdateToClean, Return, cluster, evictors
  <2> QED
    BY <1>4, <2>1 DEF AloneInv
<1>8. ASSUME NEW p \in Pod, EvictPod(p) PROVE AloneInv'
  BY <1>3, <1>4, <1>8 DEF TypeOK, NotStarted, AloneInv, EvictPod, TryEvict, Wake, Send, AfterSuccess,
     AfterSend, thread, cluster
<1>9. CASE Environment
  BY <1>3, <1>4, <1>9 DEF TypeOK, AloneInv, Environment, Tick, Touch, Recover, Terminated, DeletePod,
     Recreate, Schedule, thread, cluster, evictors
<1>10. CASE UNCHANGED vars
  BY <1>4, <1>10 DEF AloneInv, vars, cluster, evictors
<1> QED
  BY <1>5, <1>6, <1>7, <1>8, <1>9, <1>10 DEF Next

(* A retry of evictPod never hits a pod's successor, as long as only       *)
(* evictPod removes pods and its answers arrive.                           *)
THEOREM SuccessorsSpared == Spec => SuccessorSpared
<1>1. Init => SuccessorInv
  <2>1. Init => BudgetInv /\ AloneInv
    BY BoundAssumption DEF Init, BudgetInv, AloneInv
  <2> QED
    BY <2>1, InitInv DEF SuccessorInv
<1>2. SuccessorInv /\ [Next]_vars =>
        \A p \in Pod \ Dying :
          (pod[p] = "recreated" /\ pod'[p] # "recreated") => ~Untouched({"lost", "deleted"})
  <2> SUFFICES ASSUME SuccessorInv, [Next]_vars, NEW p \in Pod \ Dying,
                      pod[p] = "recreated", pod'[p] # "recreated", Alone
               PROVE  FALSE
    BY DEF Alone
  <2>1. TypeOK /\ ev[p] # "try"
    BY DEF SuccessorInv, DrainInv, AloneInv
  <2>2. \A q \in Pod : ~TryEvict(q) \/ q # p
    BY <2>1 DEF TryEvict
  <2>3. ~DeleteNode /\ ~UNCHANGED vars
    BY DEF DeleteNode, ListPods, GetToMark, MarkToBeDeleted, DrainNode, Receive, EvictionTimeout,
       AllConfirmed, BeginSweep, PollTimeout, CheckPod, EndSweep, DeleteFromCloudProvider, GetToClean,
       UpdateToClean, cluster, vars
  <2>4. \A q \in Pod : ~EvictPod(q)
    BY <2>1, <2>2 DEF TypeOK, EvictPod, TryEvict, Wake, Send, cluster
  <2>5. ~Environment
    BY <2>1 DEF TypeOK, Environment, Tick, Touch, Recover, Terminated, DeletePod, Recreate, Schedule,
       cluster
  <2> QED
    BY <2>3, <2>4, <2>5 DEF Next
<1> QED
  BY <1>1, <1>2, SuccessorStep, PTL DEF Spec, SuccessorSpared

-----------------------------------------------------------------------------
(* deleteNode, with all its goroutines, calls and failures, implements     *)
(* DeleteContract.                                                         *)
THEOREM ImplementsContract == Spec => KeepsContract
<1>1. Init => Contract!Init
  BY DEF Init, Contract!Init, Phase
<1>2. TypeOK /\ [Next]_vars => [Contract!Next]_(Contract!vars)
  <2> SUFFICES ASSUME TypeOK, [Next]_vars PROVE Contract!Next \/ UNCHANGED <<Phase, taint, inst>>
    BY DEF Contract!vars
  <2> USE DEF Contract!Next, Contract!Mark, Contract!Drained, Contract!Remove, Contract!Abandon,
          Contract!Release, Contract!Outside, Phase, Return, cluster, thread
  <2>1. CASE ListPods \/ GetToMark \/ MarkToBeDeleted
    BY <2>1 DEF ListPods, GetToMark, MarkToBeDeleted, TypeOK
  <2>2. CASE DrainNode \/ EvictionTimeout \/ AllConfirmed \/ BeginSweep \/ PollTimeout \/ EndSweep
    BY <2>2 DEF DrainNode, EvictionTimeout, AllConfirmed, BeginSweep, PollTimeout, EndSweep
  <2>3. ASSUME NEW p \in Pod, Receive(p) \/ CheckPod(p)
        PROVE Contract!Next \/ UNCHANGED <<Phase, taint, inst>>
    BY <2>3 DEF Receive, CheckPod
  <2>4. CASE DeleteFromCloudProvider \/ GetToClean \/ UpdateToClean
    BY <2>4 DEF DeleteFromCloudProvider, GetToClean, UpdateToClean, CleanToBeDeleted
  <2>5. ASSUME NEW p \in Pod, EvictPod(p) PROVE UNCHANGED <<Phase, taint, inst>>
    BY <2>5 DEF EvictPod, TryEvict, Wake, Send
  <2>6. CASE Environment
    BY <2>6 DEF Environment, Tick, Touch, Recover, Terminated, DeletePod, Recreate, Schedule
  <2>7. CASE UNCHANGED vars
    BY <2>7 DEF vars
  <2> QED
    BY <2>1, <2>2, <2>3, <2>4, <2>5, <2>6, <2>7 DEF Next, DeleteNode
<1> QED
  BY <1>1, <1>2, DrainTypeCorrect, PTL DEF Spec, Contract!Spec, KeepsContract

-----------------------------------------------------------------------------
(* The pods selected for a drain. *)
PodsTypes == currentTime \in Int /\ life \in [NodePod -> Int]

LEMMA PodsTyped == PodsSpec => []PodsTypes
<1>1. PodsInit => PodsTypes
  BY DEF PodsInit, Absent, PodsTypes
<1>2. PodsTypes /\ [PodsNext]_podsVars => PodsTypes'
  BY PodsAssumption DEF PodsNext, podsVars, PodsTick, BudgetsChange, Create, Delete, PodEnded, Absent, Running, PodsTypes
<1> QED BY <1>1, <1>2, PTL DEF PodsSpec

Moved == {p \in PodsOnNode : ~Skipped(p)}
Granted == [ok |-> TRUE, pods |-> Moved]
Refused == [ok |-> FALSE, pods |-> {}]

LEMMA Answers == Granted.ok /\ ~Refused.ok /\ Granted.pods = Moved /\ Granted # Refused
BY DEF Granted, Refused

(* With deleteAll and without checkReferences nothing is refused, and what *)
(* is not refused selects the same pods, whatever is checked.              *)
LEMMA Selects ==
    \A list, system, local :
        /\ GetPodsForDeletionOnNodeDrain(PodsOnNode, list, TRUE, system, local, FALSE) = Granted
        /\ GetPodsForDeletionOnNodeDrain(PodsOnNode, list, FALSE, system, local, FALSE) \in {Granted, Refused}
BY DEF GetPodsForDeletionOnNodeDrain, Granted, Refused, Moved

LEMMA CheckedSelects ==
    \A list : /\ Checked(Granted, list) = IF checkPdbs(Moved, list) THEN Granted ELSE Refused
              /\ Checked(Refused, list) = Refused
<1> SUFFICES ASSUME NEW list
             PROVE  /\ Checked(Granted, list) = IF checkPdbs(Moved, list) THEN Granted ELSE Refused
                    /\ Checked(Refused, list) = Refused
  OBVIOUS
<1>1. CASE checkPdbs(Moved, list)
  BY <1>1, Answers, Zenon DEF Checked, Refused
<1>2. CASE ~checkPdbs(Moved, list)
  BY <1>2, Answers, Zenon DEF Checked, Refused
<1> QED BY <1>1, <1>2

LEMMA Detailed ==
    \A list, system, local :
        DetailedGetPodsForMove(system, local, list) = IF checkPdbs(Moved, list) THEN Granted ELSE Refused
BY Selects, CheckedSelects, Zenon DEF DetailedGetPodsForMove

LEMMA Fast ==
    \A list, system, local :
        FastGetPodsToMove(system, local, list).ok =>
            FastGetPodsToMove(system, local, list) = Granted /\ checkPdbs(Moved, list)
<1> SUFFICES ASSUME NEW list, NEW system, NEW local, FastGetPodsToMove(system, local, list).ok
             PROVE  FastGetPodsToMove(system, local, list) = Granted /\ checkPdbs(Moved, list)
  OBVIOUS
<1>1. FastGetPodsToMove(system, local, list) \in {Checked(Granted, list), Checked(Refused, list)}
  BY Selects, Zenon DEF FastGetPodsToMove
<1>2. FastGetPodsToMove(system, local, list) # Refused
  BY Answers, Zenon
<1>3. CASE checkPdbs(Moved, list)
  BY <1>1, <1>2, <1>3, CheckedSelects, Zenon
<1>4. CASE ~checkPdbs(Moved, list)
  BY <1>1, <1>2, <1>4, CheckedSelects, Zenon
<1> QED BY <1>3, <1>4

(* The selections of the pods of a node agree, for all pods, owners and    *)
(* budgets: a pod is moved or comes back by itself; FindEmptyNodesToRemove *)
(* returns no node with a pod that its removal would interrupt.            *)
THEOREM SelectionsAlwaysAgree == PodsSpec => []SelectionsAgree
<1>1. MovedOrRequired
  <2> DEFINE moved == DetailedGetPodsForMove(TRUE, TRUE, pdbs)
  <2> SUFFICES ASSUME moved.ok, NEW p \in PodsOnNode
               PROVE  /\ life[p] = Running => (p \in moved.pods) # (p \in GetRequiredPodsForNode)
                      /\ life[p] # Running => p \notin GetRequiredPodsForNode
    BY Zenon DEF MovedOrRequired
  <2>1. moved.pods = Moved
    BY Detailed, Answers, Zenon
  <2>2. GetRequiredPodsForNode = {q \in PodsOnNode : life[q] = Running} \ Moved
    BY Selects, Answers, Zenon DEF GetRequiredPodsForNode
  <2> HIDE DEF moved
  <2> QED BY <2>1, <2>2
<1>2. PodsTypes => EmptyNodeIsEmpty
  <2> SUFFICES ASSUME PodsTypes, IsEmptyNode, NEW p \in PodsOnNode
               PROVE  About[p].mirror \/ IsDaemonSetPod(p) \/ (life[p] # Running /\ life[p] + PodDeletionTimeout < currentTime)
    BY DEF EmptyNodeIsEmpty
  <2>1. Moved = {}
    BY Fast, Answers, Zenon DEF IsEmptyNode
  <2>2. Skipped(p)
    BY <2>1 DEF Moved
  <2>3. life[p] \in Int /\ currentTime \in Int
    BY DEF PodsTypes, PodsOnNode
  <2> QED BY <2>2, <2>3, PodsAssumption DEF Skipped, LongDeleted, Running
<1> QED BY <1>1, <1>2, PodsTyped, PTL DEF SelectionsAgree

-----------------------------------------------------------------------------
(* The usage tracker. *)
TrackerTypes ==
    /\ now \in Nat \ {0}
    /\ using \in [Node -> [Node -> Nat]] /\ usedBy \in [Node -> [Node -> Nat]]
    /\ uses \in [Node -> [Node -> Nat]]
    /\ utilization \subseteq Node

TrackerInv == TrackerTypes /\ UseIsRecorded /\ NoOutdatedVerdict

(* A record of fewer uses is within the limit if one of more is. *)
LEMMA FewerKeys ==
    ASSUME NEW f \in [Node -> Nat], NEW h \in [Node -> Nat],
           \A n \in Node : h[n] > 0 => f[n] > 0,
           Cardinality(Keys(f)) <= maxUsageRecorded
    PROVE  Cardinality(Keys(h)) <= maxUsageRecorded
<1>1. Keys(f) \subseteq Node /\ Keys(h) \subseteq Keys(f)
  BY DEF Keys
<1>2. IsFiniteSet(Keys(f))
  BY <1>1, TrackerAssumption, FS_Subset
<1>3. /\ Cardinality(Keys(h)) <= Cardinality(Keys(f))
      /\ Cardinality(Keys(f)) \in Nat /\ Cardinality(Keys(h)) \in Nat
  BY <1>1, <1>2, FS_Subset, FS_CardinalityType
<1> QED BY <1>3, TrackerAssumption

(* One use more is within the limit if the record is not full. *)
LEMMA OneMoreKey ==
    ASSUME NEW f \in [Node -> Nat], NEW h \in [Node -> Nat], NEW n \in Node, NEW m \in Node,
           \A k \in Node \ {n} : h[k] = f[k],
           ~IsFull(f, m)
    PROVE  Cardinality(Keys(h)) <= maxUsageRecorded
<1>1. Keys(f) \subseteq Node /\ Keys(h) \subseteq Keys(f) \cup {n}
  BY DEF Keys
<1>2. IsFiniteSet(Keys(f))
  BY <1>1, TrackerAssumption, FS_Subset
<1>3. /\ IsFiniteSet(Keys(f) \cup {n})
      /\ Cardinality(Keys(f) \cup {n}) \in {Cardinality(Keys(f)), Cardinality(Keys(f)) + 1}
  BY <1>2, FS_AddElement
<1>4. Cardinality(Keys(h)) <= Cardinality(Keys(f) \cup {n})
  BY <1>1, <1>3, FS_Subset
<1>5. /\ Cardinality(Keys(f)) \in Nat /\ Cardinality(Keys(f) \cup {n}) \in Nat
      /\ Cardinality(Keys(h)) \in Nat
  BY <1>1, <1>2, <1>3, FS_Subset, FS_CardinalityType
<1>6. Cardinality(Keys(f)) < maxUsageRecorded
  BY <1>5, TrackerAssumption DEF IsFull
<1> QED BY <1>3, <1>4, <1>5, <1>6, TrackerAssumption

(* The bounds of UseIsRecorded and what it says of one use *)
Within(map) == Cardinality(Keys(map)) <= maxUsageRecorded
Known(a, b) ==
    /\ using[a][b] = uses[a][b] \/ a \in usingTooMany
    /\ usedBy[b][a] = uses[a][b] \/ b \in usedByTooMany

LEMMA RecordedMeans ==
    UseIsRecorded <=>
        \A a \in Node : Within(using[a]) /\ Within(usedBy[a]) /\ \A b \in Node : uses[a][b] > 0 => Known(a, b)
BY DEF UseIsRecorded, Within, Known, Keys

LEMMA InitTracker == TrackerInit => TrackerInv
<1> SUFFICES ASSUME TrackerInit PROVE TrackerInv
  OBVIOUS
<1>1. TrackerTypes /\ NoOutdatedVerdict
  BY DEF TrackerInit, NoUse, TrackerTypes, NoOutdatedVerdict
<1>2. \A a \in Node : using[a] = NoUse /\ usedBy[a] = NoUse /\ uses[a] = NoUse
  BY DEF TrackerInit
<1>3. Keys(NoUse) = {} /\ Within(NoUse)
  BY FS_EmptySet, TrackerAssumption DEF Keys, NoUse, Within
<1>4. \A a, b \in Node : uses[a][b] = 0
  BY <1>2 DEF NoUse
<1> QED BY <1>1, <1>2, <1>3, <1>4, RecordedMeans DEF TrackerInv

LEMMA RegisterUsageStep ==
    ASSUME TrackerInv, NEW a \in Node, NEW b \in Node, a # b, RegisterUsage(a, b)
    PROVE  TrackerInv'
<1>1. TrackerTypes' /\ NoOutdatedVerdict'
  BY DEF TrackerInv, TrackerTypes, RegisterUsage, NoOutdatedVerdict
<1>2. \A c \in Node : Within(using[c]) /\ Within(usedBy[c])
  BY RecordedMeans DEF TrackerInv
<1>3. ASSUME NEW c \in Node PROVE Within(using'[c]) /\ Within(usedBy'[c])
  <2>1. /\ using[a] \in [Node -> Nat] /\ usedBy[b] \in [Node -> Nat]
        /\ using'[c] \in [Node -> Nat] /\ usedBy'[c] \in [Node -> Nat]
    BY <1>1 DEF TrackerInv, TrackerTypes
  <2>2. \/ using'[c] = using[c]
        \/ ~IsFull(using[a], b) /\ \A k \in Node \ {b} : using'[c][k] = using[a][k]
    BY DEF TrackerInv, TrackerTypes, RegisterUsage
  <2>3. \/ usedBy'[c] = usedBy[c]
        \/ ~IsFull(usedBy[b], a) /\ \A k \in Node \ {a} : usedBy'[c][k] = usedBy[b][k]
    BY DEF TrackerInv, TrackerTypes, RegisterUsage
  <2>4. Within(using'[c])
    BY <1>2, <2>1, <2>2, OneMoreKey DEF Within
  <2>5. Within(usedBy'[c])
    BY <1>2, <2>1, <2>3, OneMoreKey DEF Within
  <2> QED BY <2>4, <2>5
<1>4. ASSUME NEW c \in Node, NEW d \in Node, uses'[c][d] > 0 PROVE Known(c, d)'
  <2>1. CASE c = a /\ d = b
    BY <2>1 DEF TrackerInv, TrackerTypes, RegisterUsage, Overflow, Known
  <2>2. CASE ~(c = a /\ d = b)
    <3>1. uses'[c][d] = uses[c][d] /\ using'[c][d] = using[c][d] /\ usedBy'[d][c] = usedBy[d][c]
      BY <2>2 DEF TrackerInv, TrackerTypes, RegisterUsage
    <3>2. usingTooMany \subseteq usingTooMany' /\ usedByTooMany \subseteq usedByTooMany'
      BY DEF RegisterUsage, Overflow
    <3>3. Known(c, d)
      BY <1>4, <3>1, RecordedMeans DEF TrackerInv
    <3> QED BY <3>1, <3>2, <3>3 DEF Known
  <2> QED BY <2>1, <2>2
<1>5. UseIsRecorded'
  BY <1>3, <1>4, Zenon DEF UseIsRecorded, Within, Known, Keys
<1> QED BY <1>1, <1>5 DEF TrackerInv

LEMMA CleanUpStep ==
    ASSUME TrackerInv, NEW cutoff \in 1 .. now, CleanUp(cutoff)
    PROVE  TrackerInv'
<1>1. /\ now \in Nat \ {0} /\ cutoff \in Nat
      /\ using \in [Node -> [Node -> Nat]] /\ usedBy \in [Node -> [Node -> Nat]] /\ uses \in [Node -> [Node -> Nat]]
  BY DEF TrackerInv, TrackerTypes
<1>2. TrackerTypes' /\ NoOutdatedVerdict'
  BY <1>1 DEF TrackerInv, TrackerTypes, CleanUp, filterOutOld, NoOutdatedVerdict
<1>3. ASSUME NEW a \in Node PROVE Within(using'[a]) /\ Within(usedBy'[a])
  <2>1. Within(using[a]) /\ Within(usedBy[a])
    BY RecordedMeans DEF TrackerInv
  <2>2. /\ using[a] \in [Node -> Nat] /\ using'[a] \in [Node -> Nat]
        /\ usedBy[a] \in [Node -> Nat] /\ usedBy'[a] \in [Node -> Nat]
    BY <1>1, <1>2 DEF TrackerTypes
  <2>3. \A b \in Node : using'[a][b] \in {0, using[a][b]} /\ usedBy'[a][b] \in {0, usedBy[a][b]}
    BY DEF CleanUp, filterOutOld
  <2>4. Within(using'[a])
    BY <2>1, <2>2, <2>3, FewerKeys DEF Within
  <2>5. Within(usedBy'[a])
    BY <2>1, <2>2, <2>3, FewerKeys DEF Within
  <2> QED BY <2>4, <2>5
<1>4. ASSUME NEW a \in Node, NEW b \in Node, uses'[a][b] > 0 PROVE Known(a, b)'
  <2>1. uses'[a][b] = uses[a][b] /\ uses[a][b] \in Nat /\ uses[a][b] >= cutoff
    BY <1>1, <1>4 DEF CleanUp, filterOutOld
  <2>2. Known(a, b)
    BY <1>1, <1>4, <2>1, RecordedMeans DEF TrackerInv
  <2>3. using[a][b] = uses[a][b] => using'[a][b] = using[a][b]
    BY <1>1, <2>1 DEF CleanUp, filterOutOld
  <2>4. usedBy[b][a] = uses[a][b] => usedBy'[b][a] = usedBy[b][a]
    BY <1>1, <2>1 DEF CleanUp, filterOutOld
  <2>5. usingTooMany' = usingTooMany /\ usedByTooMany' = usedByTooMany
    BY DEF CleanUp
  <2> QED BY <2>1, <2>2, <2>3, <2>4, <2>5 DEF Known
<1>5. UseIsRecorded'
  BY <1>3, <1>4, Zenon DEF UseIsRecorded, Within, Known, Keys
<1> QED BY <1>2, <1>5 DEF TrackerInv

LEMMA RemoveNodeStep ==
    ASSUME TrackerInv, NEW n \in Node, RemoveNodeFromTracker(n)
    PROVE  TrackerInv'
<1>1. /\ using \in [Node -> [Node -> Nat]] /\ usedBy \in [Node -> [Node -> Nat]] /\ uses \in [Node -> [Node -> Nat]]
      /\ now \in Nat \ {0} /\ outdated = {}
  BY DEF TrackerInv, TrackerTypes, NoOutdatedVerdict
<1>2. TrackerTypes'
  BY <1>1 DEF TrackerInv, TrackerTypes, RemoveNodeFromTracker, Unregister, NoUse
<1>3. ASSUME NEW a \in Node PROVE Within(using'[a]) /\ Within(usedBy'[a])
  <2>1. Within(using[a]) /\ Within(usedBy[a])
    BY RecordedMeans DEF TrackerInv
  <2>2. /\ using[a] \in [Node -> Nat] /\ using'[a] \in [Node -> Nat]
        /\ usedBy[a] \in [Node -> Nat] /\ usedBy'[a] \in [Node -> Nat]
    BY <1>1, <1>2 DEF TrackerTypes
  <2>3. \A b \in Node : using'[a][b] \in {0, using[a][b]} /\ usedBy'[a][b] \in {0, usedBy[a][b]}
    BY <1>1 DEF RemoveNodeFromTracker, Unregister, NoUse
  <2>4. Within(using'[a])
    BY <2>1, <2>2, <2>3, FewerKeys DEF Within
  <2>5. Within(usedBy'[a])
    BY <2>1, <2>2, <2>3, FewerKeys DEF Within
  <2> QED BY <2>4, <2>5
<1>4. ASSUME NEW a \in Node, NEW b \in Node, uses'[a][b] > 0 PROVE Known(a, b)'
  <2>1. a # n /\ b # n /\ uses'[a][b] = uses[a][b]
    BY <1>1, <1>4 DEF RemoveNodeFromTracker, NoUse
  <2>2. Known(a, b)
    BY <1>4, <2>1, RecordedMeans DEF TrackerInv
  <2>3. using'[a][b] = using[a][b] /\ usedBy'[b][a] = usedBy[b][a]
    BY <1>1, <2>1 DEF RemoveNodeFromTracker, Unregister
  <2>4. usingTooMany' = usingTooMany \ {n} /\ usedByTooMany' = usedByTooMany \ {n}
    BY DEF RemoveNodeFromTracker, Unregister
  <2> QED BY <2>1, <2>2, <2>3, <2>4 DEF Known
<1>5. ASSUME NEW m \in outdated' PROVE FALSE
  <2>1. /\ m \in utilization /\ m \in Node /\ m \notin KeysToRemove(n)
        /\ Keys(uses[m]) \cap Keys(uses[n]) # {}
    BY <1>1 DEF RemoveNodeFromTracker, TrackerInv, TrackerTypes
  <2>2. PICK b \in Node : uses[m][b] > 0 /\ uses[n][b] > 0
    BY <2>1 DEF Keys
  <2>3. n \notin usingTooMany /\ \A k \in Keys(using[n]) : k \notin usedByTooMany /\ m \notin Keys(usedBy[k])
    BY <2>1 DEF KeysToRemove
  <2>4. Known(n, b)
    BY <2>2, RecordedMeans DEF TrackerInv
  <2>5. b \in Keys(using[n])
    BY <2>2, <2>3, <2>4 DEF Known, Keys
  <2>6. Known(m, b)
    BY <2>1, <2>2, RecordedMeans DEF TrackerInv
  <2>7. m \in Keys(usedBy[b])
    BY <2>1, <2>2, <2>3, <2>5, <2>6 DEF Known, Keys
  <2> QED BY <2>3, <2>5, <2>7
<1>6. UseIsRecorded'
  BY <1>3, <1>4, Zenon DEF UseIsRecorded, Within, Known, Keys
<1> QED BY <1>2, <1>5, <1>6 DEF TrackerInv, NoOutdatedVerdict

LEMMA NextTracker == TrackerInv /\ [TrackerNext]_trackerVars => TrackerInv'
<1> SUFFICES ASSUME TrackerInv, [TrackerNext]_trackerVars PROVE TrackerInv'
  OBVIOUS
<1>1. CASE TrackerTick
  <2>1. now' \in Nat \ {0}
    BY <1>1 DEF TrackerTick, TrackerInv, TrackerTypes
  <2> QED BY <1>1, <2>1, Zenon DEF TrackerTick, tracker, TrackerInv, TrackerTypes, NoOutdatedVerdict, UseIsRecorded, Keys
<1>2. ASSUME NEW n \in Node, NotNeeded(n) PROVE TrackerInv'
  BY <1>2, Zenon DEF NotNeeded, tracker, TrackerInv, TrackerTypes, NoOutdatedVerdict, UseIsRecorded, Keys
<1>3. CASE UNCHANGED trackerVars
  BY <1>3, Zenon DEF trackerVars, tracker, TrackerInv, TrackerTypes, NoOutdatedVerdict, UseIsRecorded, Keys
<1> QED BY <1>1, <1>2, <1>3, RegisterUsageStep, CleanUpStep, RemoveNodeStep DEF TrackerNext

(* RemoveNodeFromTracker leaves no verdict behind that shares a place with *)
(* the node removed, for any number of nodes and any limit of a record,    *)
(* however uses, clean-ups and removals alternate.                         *)
THEOREM NoVerdictOutdated == TrackerSpec => []NoOutdatedVerdict
BY InitTracker, NextTracker, PTL DEF TrackerSpec, TrackerInv

(* RegisterUsage, Unregister and CleanUp lose no use without marking the   *)
(* record it is missing from, and no record outgrows its limit.            *)
THEOREM UsesAreRecorded == TrackerSpec => []UseIsRecorded
BY InitTracker, NextTracker, PTL DEF TrackerSpec, TrackerInv
=============================================================================
