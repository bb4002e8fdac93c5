--------------------------- MODULE NodeRepairProofs ---------------------------
(***************************************************************************)
(* Proofs about NodeRepair, for every set of nodes, every number of groups *)
(* with any limits, and every budget of disturbances.                      *)
(***************************************************************************)
EXTENDS NodeRepair, FiniteSetTheorems, TLAPS

(* A disturbance takes from its budget and gives nothing back. *)
LEMMA SpendFacts ==
    ASSUME budget \in [Disturbance -> Nat],
           NEW k \in Disturbance, k # "any",
           Spend(k)
    PROVE  /\ budget' \in [Disturbance -> Nat]
           /\ \A j \in Disturbance : budget'[j] <= budget[j]
           /\ budget'[k] < budget[k]
BY DEF Spend, Disturbance

(* Asg.TargetSize returns the size or -1. *)
LEMMA TargetSizeFacts ==
    ASSUME budget \in [Disturbance -> Nat],
           NEW g, NEW r,
           TargetSize(g, r)
    PROVE  /\ r \in {desired[g], -1}
           /\ budget' \in [Disturbance -> Nat]
           /\ \A j \in Disturbance : budget'[j] <= budget[j]
<1>1. CASE r = desired[g] /\ UNCHANGED budget
  BY <1>1
<1>2. CASE r = -1 /\ Spend("fault")
  BY <1>2, SpendFacts DEF Disturbance
<1> QED BY <1>1, <1>2 DEF TargetSize

(* AsgNotReadyNodes and AsgReadyNodes return nodes of the list they are    *)
(* given, all of the group they are asked for.                             *)
LEMMA AsgNodesFacts ==
    ASSUME budget \in [Disturbance -> Nat],
           NEW g, NEW S, NEW res,
           AsgNodes(g, S, res)
    PROVE  /\ res \subseteq {n \in S : asg[n] = g}
           /\ budget' \in [Disturbance -> Nat]
           /\ \A j \in Disturbance : budget'[j] <= budget[j]
<1>1. CASE res \in NodesOfAsg(g, S) /\ UNCHANGED budget
  BY <1>1 DEF NodesOfAsg
<1>2. CASE res = {} /\ UNCHANGED budget
  BY <1>2
<1>3. CASE res = {} /\ Spend("fault")
  BY <1>3, SpendFacts DEF Disturbance
<1> QED BY <1>1, <1>2, <1>3 DEF AsgNodes

(* Every set of nodes has a size. *)
LEMMA SubsetCardinality ==
    ASSUME NEW S, S \subseteq Node
    PROVE  IsFiniteSet(S) /\ Cardinality(S) \in Nat
BY NodeAssumption, FS_Subset, FS_CardinalityType

-----------------------------------------------------------------------------
(* Type correctness. *)

LEMMA InitType == Init => TypeOK
<1> SUFFICES ASSUME Init PROVE TypeOK
  OBVIOUS
<1>1. /\ desired \in [Groups -> Int] /\ budget \in [Disturbance -> Nat]
  BY SizeAssumption, BoundAssumption DEF Init
<1>2. /\ inst \in [Node -> {"unused", "running", "gone"}] /\ asg \in [Node -> Groups \cup {0}]
      /\ status \in [Node -> {"absent", "ready", "notready"}]
  BY InitGroupAssumption DEF Init
<1>3. grp \in 1 .. NGroups + 1
  BY GroupsAssumption DEF Init
<1> QED BY <1>1, <1>2, <1>3 DEF Init, TypeOK

LEMMA NextType == TypeOK /\ [Next]_vars => TypeOK'
<1> SUFFICES ASSUME TypeOK, [Next]_vars PROVE TypeOK'
  OBVIOUS
<1> USE DEF TypeOK, cluster, samples, round, poll, controller
<1>1. CASE RunOnceHealthy
  BY <1>1 DEF RunOnceHealthy, vars
<1>2. CASE RunOnce
  BY <1>2 DEF RunOnce, NotReadyNodes
<1>3. CASE Confirm
  <2>1. budget' \in [Disturbance -> Nat]
    BY <1>3, SpendFacts DEF Confirm, Disturbance
  <2> QED BY <1>3, <2>1, GroupsAssumption
             DEF Confirm, ForgetPass, Groups, CommonNodes, NotReadyNodes
<1>4. CASE RepairGroup
  <2>1. PICK res \in SUBSET todo : AsgNodes(grp, todo, res) /\ work' = res
    BY <1>4 DEF RepairGroup
  <2>2. budget' \in [Disturbance -> Nat]
    BY <2>1, AsgNodesFacts
  <2> QED BY <1>4, <2>1, <2>2, GroupsAssumption DEF RepairGroup, Groups
<1>5. CASE RepairDone \/ SlicePanics
  BY <1>5, GroupsAssumption DEF RepairDone, SlicePanics, ForgetPass, Groups
<1>6. CASE GroupDone
  BY <1>6, GroupsAssumption DEF GroupDone, Groups
<1>7. CASE AsgRepairNodes
  <2>1. budget' \in [Disturbance -> Nat]
    BY <1>7, TargetSizeFacts DEF AsgRepairNodes
  <2> QED BY <1>7, <2>1 DEF AsgRepairNodes
<1>8. CASE Expand
  <2>1. PICK r \in {desired[grp], -1} :
           TargetSize(grp, r) /\ inc' = CalcExpandSize(grp, r, Cardinality(work))
    BY <1>8 DEF Expand
  <2>2. budget' \in [Disturbance -> Nat]
    BY <2>1, TargetSizeFacts
  <2>3. inc' \in Int
    BY <1>8, <2>1, SubsetCardinality, SizeAssumption DEF CalcExpandSize, Expand
  <2> QED BY <1>8, <2>2, <2>3 DEF Expand
<1>9. CASE CountReady
  <2>1. PICK res \in SUBSET ReadyNodes :
           AsgNodes(grp, ReadyNodes, res) /\ prev' = Cardinality(res) /\ cur' = Cardinality(res)
    BY <1>9 DEF CountReady
  <2>2. budget' \in [Disturbance -> Nat]
    BY <2>1, AsgNodesFacts
  <2>3. Cardinality(res) \in Int
    BY <2>1, SubsetCardinality DEF ReadyNodes
  <2> QED BY <1>9, <2>1, <2>2, <2>3 DEF CountReady
<1>10. CASE ReadSize
  <2>1. budget' \in [Disturbance -> Nat]
    BY <1>10, SpendFacts DEF ReadSize, Disturbance
  <2> QED BY <1>10, <2>1 DEF ReadSize, ReturnFromIncrease, NextRound
<1>11. CASE SetSize
  <2>1. budget' \in [Disturbance -> Nat]
    BY <1>11, SpendFacts DEF SetSize, Disturbance
  <2> QED BY <1>11, <2>1 DEF SetSize, ReturnFromIncrease, NextRound
<1>12. CASE AwaitReady
  <2>1. CASE ReturnFromIncrease /\ UNCHANGED budget
    BY <1>12, <2>1 DEF AwaitReady, ReturnFromIncrease, NextRound
  <2>2. ASSUME NEW res \in SUBSET ReadyNodes,
               AsgNodes(grp, ReadyNodes, res), cur' = Cardinality(res),
               iter' = iter + 1, UNCHANGED <<pc, prev, work, size>>
        PROVE  TypeOK'
    <3>1. budget' \in [Disturbance -> Nat]
      BY <2>2, AsgNodesFacts
    <3>2. Cardinality(res) \in Int
      BY SubsetCardinality DEF ReadyNodes
    <3> QED BY <1>12, <2>2, <3>1, <3>2 DEF AwaitReady
  <2> QED BY <1>12, <2>1, <2>2 DEF AwaitReady
<1>13. CASE BeginDelete
  <2>1. budget' \in [Disturbance -> Nat]
    BY <1>13, TargetSizeFacts DEF BeginDelete
  <2> QED BY <1>13, <2>1 DEF BeginDelete
<1>14. CASE BeginDeleteLoop
  <2>1. budget' \in [Disturbance -> Nat]
    BY <1>14, SpendFacts DEF BeginDeleteLoop, Disturbance
  <2> QED BY <1>14, <2>1 DEF BeginDeleteLoop
<1>15. CASE DeleteLoopEnds
  BY <1>15 DEF DeleteLoopEnds
<1>16. CASE AwaitDeleted
  <2>1. budget' \in [Disturbance -> Nat]
    BY <1>16, TargetSizeFacts DEF AwaitDeleted
  <2> QED BY <1>16, <2>1 DEF AwaitDeleted, ReturnFromDelete, NextRound
<1>17. ASSUME NEW n \in Node, SkipNode(n) PROVE TypeOK'
  <2>1. budget' \in [Disturbance -> Nat]
    BY <1>17, SpendFacts DEF SkipNode, Disturbance
  <2> QED BY <1>17, <2>1 DEF SkipNode
<1>18. ASSUME NEW n \in Node, MarkToBeDeleted(n) PROVE TypeOK'
  BY <1>18 DEF MarkToBeDeleted
<1>19. ASSUME NEW n \in Node, MarkFails(n) PROVE TypeOK'
  <2>1. budget' \in [Disturbance -> Nat]
    BY <1>19, SpendFacts DEF MarkFails, Disturbance
  <2> QED BY <1>19, <2>1 DEF MarkFails, ReturnFromDelete, NextRound
<1>20. CASE Drain
  <2>1. budget' \in [Disturbance -> Nat]
    BY <1>20, SpendFacts DEF Drain, Disturbance
  <2> QED BY <1>20, <2>1 DEF Drain
<1>21. CASE FindGroup
  <2>1. budget' \in [Disturbance -> Nat]
    BY <1>21, SpendFacts DEF FindGroup, Disturbance
  <2> QED BY <1>21, <2>1 DEF FindGroup
<1>22. CASE Terminate
  <2>1. budget' \in [Disturbance -> Nat]
    BY <1>22, SpendFacts DEF Terminate, Disturbance
  <2>2. desired' \in [Groups -> Int] /\ inst' \in [Node -> {"unused", "running", "gone"}]
    BY <1>22 DEF Terminate, AwsTerminate
  <2> QED BY <1>22, <2>1, <2>2 DEF Terminate
<1>23. CASE CleanToBeDeleted
  <2>1. budget' \in [Disturbance -> Nat]
    BY <1>23, SpendFacts DEF CleanToBeDeleted, Disturbance
  <2> QED BY <1>23, <2>1 DEF CleanToBeDeleted, WithoutTaint, ReturnFromDelete, NextRound
<1>24. CASE Environment
  <2>1. ASSUME NEW g \in Groups, NEW n \in Node, Launch(g, n) \/ ScaleIn(g, n)
        PROVE  TypeOK'
    BY <2>1 DEF Launch, ScaleIn
  <2>2. ASSUME NEW g \in Groups, NEW d \in 0 .. AwsMax[g], Resize(g, d)
        PROVE  TypeOK'
    <3>1. budget' \in [Disturbance -> Nat]
      BY <2>2, SpendFacts DEF Resize, Disturbance
    <3> QED BY <2>2, <3>1 DEF Resize
  <2>3. ASSUME NEW n \in Node, Join(n) \/ RemoveNode(n)
        PROVE  TypeOK'
    BY <2>3 DEF Join, RemoveNode
  <2>4. ASSUME NEW n \in Node, Fail(n) \/ Recover(n)
        PROVE  TypeOK'
    <3>1. budget' \in [Disturbance -> Nat]
      BY <2>4, SpendFacts DEF Fail, Recover, Disturbance
    <3> QED BY <2>4, <3>1 DEF Fail, Recover
  <2>5. CASE Crash
    <3>1. budget' \in [Disturbance -> Nat]
      BY <2>5, SpendFacts DEF Crash, Disturbance
    <3> QED BY <2>5, <3>1, GroupsAssumption DEF Crash, ForgetPass, Groups
  <2> QED BY <1>24, <2>1, <2>2, <2>3, <2>4, <2>5 DEF Environment
<1>25. CASE UNCHANGED vars
  BY <1>25 DEF vars
<1> QED
  BY <1>1, <1>2, <1>3, <1>4, <1>5, <1>6, <1>7, <1>8, <1>9, <1>10, <1>11, <1>12, <1>13,
     <1>14, <1>15, <1>16, <1>17, <1>18, <1>19, <1>20, <1>21, <1>22, <1>23, <1>24, <1>25, Zenon
     DEF Next, Controller

(***************************************************************************)
(* Every variable of the loop keeps its type, and inside the loop of       *)
(* RepairNodes the group being repaired is a managed one.                  *)
(***************************************************************************)
THEOREM TypeCorrect == Spec => []TypeOK
BY InitType, NextType, PTL DEF Spec

-----------------------------------------------------------------------------
(***************************************************************************)
(* Which nodes the loop is about.  A node travels from the two samples of  *)
(* RunOnce to the list of its group, to a batch, to the deletion loop, and *)
(* is tainted before its instance is terminated.                           *)
(***************************************************************************)
Deleting == pc \in {"drain", "findGroup", "terminate", "cleanup"}

NodesFlow ==
    /\ todo \subseteq notReady \cap stillNotReady
    /\ work \subseteq todo
    /\ InRound => batch \subseteq work
    /\ rest \subseteq batch
    /\ (pc # "deleteLoop" /\ ~Deleting) => rest = {}
    /\ \A n \in work : asg[n] = grp
    /\ pc \in {"idle", "confirm", "group"} => work = {}
    /\ pc \in {"idle", "confirm"} => todo = {}
    /\ IF Deleting THEN node \in rest ELSE node = NoNode
    /\ pc \in {"drain", "findGroup", "terminate"} =>
          node \in taint \/ inst[node] = "gone"
    /\ \A n \in Node : inst[n] = "unused" => asg[n] = 0

LEMMA InitFlow == Init => NodesFlow
BY InitGroupAssumption DEF Init, NodesFlow, Deleting, InRound

LEMMA NextFlow == TypeOK /\ NodesFlow /\ [Next]_vars => NodesFlow'
<1> SUFFICES ASSUME TypeOK, NodesFlow, [Next]_vars PROVE NodesFlow'
  OBVIOUS
<1> USE NodeAssumption
    DEF NodesFlow, Deleting, InRound, cluster, samples, round, poll, controller
<1>1. CASE RunOnceHealthy \/ UNCHANGED vars
  BY <1>1 DEF RunOnceHealthy, vars
<1>2. CASE RunOnce
  BY <1>2 DEF RunOnce
<1>3. CASE Confirm
  BY <1>3 DEF Confirm, CommonNodes, ForgetPass
<1>4. CASE RepairGroup
  <2>1. PICK res \in SUBSET todo : AsgNodes(grp, todo, res) /\ work' = res
    BY <1>4 DEF RepairGroup
  <2>2. \A n \in res : asg[n] = grp
    BY <2>1, AsgNodesFacts DEF TypeOK
  <2> QED BY <1>4, <2>1, <2>2 DEF RepairGroup
<1>5. CASE RepairDone \/ SlicePanics \/ GroupDone
  BY <1>5 DEF RepairDone, SlicePanics, GroupDone, ForgetPass
<1>6. CASE AsgRepairNodes
  BY <1>6 DEF AsgRepairNodes
<1>7. CASE Expand \/ CountReady
  BY <1>7 DEF Expand, CountReady
<1>8. CASE ReadSize
  BY <1>8 DEF ReadSize, ReturnFromIncrease, NextRound
<1>9. CASE SetSize
  BY <1>9 DEF SetSize, ReturnFromIncrease, NextRound
<1>10. CASE AwaitReady
  BY <1>10 DEF AwaitReady, ReturnFromIncrease, NextRound
<1>11. CASE BeginDelete \/ BeginDeleteLoop \/ DeleteLoopEnds
  BY <1>11 DEF BeginDelete, BeginDeleteLoop, DeleteLoopEnds
<1>12. CASE AwaitDeleted
  BY <1>12 DEF AwaitDeleted, ReturnFromDelete, NextRound
<1>13. ASSUME NEW n \in Node, SkipNode(n) \/ MarkToBeDeleted(n) PROVE NodesFlow'
  BY <1>13 DEF SkipNode, MarkToBeDeleted
<1>14. ASSUME NEW n \in Node, MarkFails(n) PROVE NodesFlow'
  BY <1>14 DEF MarkFails, ReturnFromDelete, NextRound
<1>15. CASE Drain \/ FindGroup
  BY <1>15 DEF Drain, FindGroup
<1>16. CASE Terminate
  <2>1. /\ pc = "terminate" /\ pc' \in {"deleteLoop", "cleanup"}
        /\ \/ UNCHANGED <<inst, rest, node>> /\ pc' = "cleanup"
           \/ /\ inst' = [inst EXCEPT ![node] = "gone"]
              /\ \/ UNCHANGED <<rest, node>> /\ pc' = "cleanup"
                 \/ rest' = rest \ {node} /\ node' = NoNode /\ pc' = "deleteLoop"
        /\ UNCHANGED <<asg, taint, notReady, stillNotReady, todo, grp, batch, work>>
    BY <1>16 DEF Terminate, AwsTerminate
  <2>2. \A n \in Node : inst'[n] = "unused" => inst[n] = "unused"
    BY <2>1 DEF TypeOK
  <2>3. CASE pc' = "cleanup"
    BY <2>1, <2>2, <2>3
  <2>4. CASE pc' = "deleteLoop"
    BY <2>1, <2>2, <2>4
  <2> QED BY <2>1, <2>3, <2>4
<1>17. CASE CleanToBeDeleted
  <2>1. /\ pc = "cleanup" /\ rest' = {} /\ node' = NoNode
        /\ UNCHANGED <<inst, asg, notReady, stillNotReady, todo, grp, batch>>
    BY <1>17 DEF CleanToBeDeleted
  <2>2. \/ pc' = "repair" /\ work' = work \ batch
        \/ pc' = "increase" /\ work' = work
    BY <1>17 DEF CleanToBeDeleted, ReturnFromDelete, NextRound
  <2> QED BY <2>1, <2>2
<1>18. CASE Environment
  <2>1. ASSUME NEW g \in Groups, NEW n \in Node, Launch(g, n) PROVE NodesFlow'
    <3>1. n \notin work
      BY <2>1, GroupsAssumption DEF Launch, TypeOK, Groups
    <3> QED BY <2>1, <3>1 DEF Launch, TypeOK
  <2>2. ASSUME NEW g \in Groups, NEW n \in Node, ScaleIn(g, n) PROVE NodesFlow'
    <3>1. inst[n] = "running" /\ inst' = [inst EXCEPT ![n] = "gone"]
          /\ UNCHANGED <<asg, taint, controller>>
      BY <2>2 DEF ScaleIn, Running
    <3>2. inst \in [Node -> {"unused", "running", "gone"}] /\ rest \subseteq Node
      BY DEF TypeOK
    <3> QED BY <3>1, <3>2
  <2>3. ASSUME NEW g \in Groups, NEW d \in 0 .. AwsMax[g], Resize(g, d) PROVE NodesFlow'
    BY <2>3 DEF Resize
  <2>4. ASSUME NEW n \in Node, Join(n) \/ Fail(n) \/ Recover(n) PROVE NodesFlow'
    <3>1. UNCHANGED <<inst, asg, taint, controller>>
      BY <2>4 DEF Join, Fail, Recover
    <3> QED BY <3>1
  <2>5. ASSUME NEW n \in Node, RemoveNode(n) PROVE NodesFlow'
    <3>1. inst[n] = "gone" /\ taint' = taint \ {n} /\ UNCHANGED <<inst, asg, controller>>
      BY <2>5 DEF RemoveNode
    <3> QED BY <3>1
  <2>6. CASE Crash
    BY <2>6 DEF Crash, ForgetPass
  <2> QED BY <1>18, <2>1, <2>2, <2>3, <2>4, <2>5, <2>6 DEF Environment
<1> QED
  BY <1>1, <1>2, <1>3, <1>4, <1>5, <1>6, <1>7, <1>8, <1>9, <1>10, <1>11, <1>12, <1>13,
     <1>14, <1>15, <1>16, <1>17, <1>18, Zenon DEF Next, Controller

LEMMA FlowInvariant == Spec => []NodesFlow
BY InitFlow, NextFlow, TypeCorrect, PTL DEF Spec

(***************************************************************************)
(* A node with a guarded pod gets past DetailedGetPodsForMove only when a  *)
(* list is missing, and past the drain only when it is the list of pods.   *)
(***************************************************************************)
GuardedUnseen ==
    /\ Deleting /\ node \in Guarded => lists # "ok"
    /\ pc \in {"findGroup", "terminate"} /\ node \in Guarded => lists = "noPods"

LEMMA NextGuarded == TypeOK /\ GuardedUnseen /\ [Next]_vars => GuardedUnseen'
<1> SUFFICES ASSUME TypeOK, GuardedUnseen, [Next]_vars PROVE GuardedUnseen'
  OBVIOUS
<1>0. lists \in {"ok", "noPdbs", "noPods"}
  BY DEF TypeOK
<1> USE DEF GuardedUnseen, Deleting, controller
<1>1. CASE Environment
  BY <1>1 DEF Environment, Launch, ScaleIn, Resize, Join, Fail, Recover, RemoveNode, Crash,
              ForgetPass
<1>2. CASE RunOnceHealthy \/ UNCHANGED vars
  BY <1>2 DEF RunOnceHealthy, vars
<1>3. CASE RunOnce \/ Confirm \/ RepairGroup \/ RepairDone \/ SlicePanics \/ GroupDone
  BY <1>3 DEF RunOnce, Confirm, RepairGroup, RepairDone, SlicePanics, GroupDone, ForgetPass
<1>4. CASE AsgRepairNodes \/ Expand \/ CountReady \/ ReadSize \/ SetSize \/ AwaitReady
  BY <1>4 DEF AsgRepairNodes, Expand, CountReady, ReadSize, SetSize, AwaitReady,
              ReturnFromIncrease, NextRound
<1>5. CASE BeginDelete \/ BeginDeleteLoop \/ DeleteLoopEnds \/ AwaitDeleted
  BY <1>5 DEF BeginDelete, BeginDeleteLoop, DeleteLoopEnds, AwaitDeleted,
              ReturnFromDelete, NextRound
<1>6. ASSUME NEW n \in Node, SkipNode(n) \/ MarkToBeDeleted(n) \/ MarkFails(n)
      PROVE  GuardedUnseen'
  BY <1>6 DEF SkipNode, MarkToBeDeleted, MarkFails, Refused, ReturnFromDelete, NextRound
<1>7. CASE Drain
  BY <1>0, <1>7 DEF Drain, EvictionRefused
<1>8. CASE FindGroup \/ Terminate \/ CleanToBeDeleted
  BY <1>8 DEF FindGroup, Terminate, CleanToBeDeleted, ReturnFromDelete, NextRound
<1> QED BY <1>1, <1>2, <1>3, <1>4, <1>5, <1>6, <1>7, <1>8 DEF Next, Controller

LEMMA GuardedInvariant == Spec => []GuardedUnseen
<1>1. Init => GuardedUnseen
  BY DEF Init, GuardedUnseen, Deleting
<1> QED BY <1>1, NextGuarded, TypeCorrect, PTL DEF Spec

(***************************************************************************)
(* The controller terminates nothing but instances of the group it repairs *)
(* whose node was NotReady in both samples and is tainted, and one with a  *)
(* guarded pod only if the list of pods was missing.                       *)
(***************************************************************************)
THEOREM OnlyConfirmedTerminated == Spec => TerminatesOnlyConfirmed
<1> DEFINE Step ==
      \A n \in Node :
        (pc = "terminate" /\ inst[n] # inst'[n] /\ pc' # pc) =>
          /\ n \in notReady \cap stillNotReady
          /\ n \in taint
          /\ asg[n] = grp
          /\ n \in Guarded => lists = "noPods"
<1>1. TypeOK /\ NodesFlow /\ GuardedUnseen /\ [Next]_vars => [Step]_vars
  <2> SUFFICES ASSUME TypeOK, NodesFlow, GuardedUnseen, Next,
                      NEW n \in Node, pc = "terminate", inst[n] # inst'[n], pc' # pc
               PROVE  /\ n \in notReady \cap stillNotReady
                      /\ n \in taint
                      /\ asg[n] = grp
                      /\ n \in Guarded => lists = "noPods"
    OBVIOUS
  <2>1. CASE Terminate
    <3>1. n = node /\ inst[n] = "running"
      <4>1. inst[node] = "running" /\ inst' = [inst EXCEPT ![node] = "gone"]
        BY <2>1 DEF Terminate, AwsAccepts, AwsTerminate
      <4> QED BY <4>1 DEF TypeOK
    <3>2. n \in rest /\ rest \subseteq batch /\ batch \subseteq work
      BY <3>1 DEF NodesFlow, Deleting, InRound
    <3>3. n \in Guarded => lists = "noPods"
      BY <3>1 DEF GuardedUnseen
    <3> QED BY <3>1, <3>2, <3>3 DEF NodesFlow
  <2>2. CASE Crash
    BY <2>2 DEF Crash, cluster
  <2>3. CASE Environment /\ ~Crash
    BY <2>3
       DEF Environment, Launch, ScaleIn, Resize, Join, Fail, Recover, RemoveNode, controller
  <2>4. CASE Controller /\ ~Terminate
    BY <2>4, Zenon
       DEF Controller, RunOnceHealthy, RunOnce, Confirm, RepairGroup, RepairDone, SlicePanics,
                GroupDone, AsgRepairNodes, Expand, CountReady, ReadSize, SetSize, AwaitReady,
                BeginDelete, BeginDeleteLoop, DeleteLoopEnds, AwaitDeleted, SkipNode,
                MarkToBeDeleted, MarkFails, Drain, FindGroup, CleanToBeDeleted
  <2> QED BY <2>1, <2>2, <2>3, <2>4 DEF Next
<1> QED BY <1>1, TypeCorrect, FlowInvariant, GuardedInvariant, PTL
           DEF Spec, TerminatesOnlyConfirmed

-----------------------------------------------------------------------------
(* Budgets are never refilled: what is untouched was untouched before. *)

LEMMA BudgetShrinks ==
    TypeOK /\ [Next]_vars => \A k \in Disturbance : budget'[k] <= budget[k]
<1> DEFINE Shrinks == \A k \in Disturbance : budget'[k] <= budget[k]
<1> SUFFICES ASSUME TypeOK, [Next]_vars PROVE Shrinks
  OBVIOUS
<1>1. budget \in [Disturbance -> Nat]
  BY DEF TypeOK
<1>2. UNCHANGED budget => Shrinks
  BY <1>1
<1>3. \A k \in Disturbance : k # "any" /\ Spend(k) => Shrinks
  BY <1>1, SpendFacts
<1> HIDE DEF Shrinks
<1>4. \A r : TargetSize(grp, r) => Shrinks
  BY <1>2, <1>3 DEF TargetSize, Disturbance
<1>5. \A S, res : AsgNodes(grp, S, res) => Shrinks
  BY <1>2, <1>3 DEF AsgNodes, Disturbance
<1> USE DEF Disturbance
<1>6. CASE Environment
  <2>1. ASSUME NEW n \in Node, Join(n) \/ Fail(n) \/ Recover(n) \/ RemoveNode(n)
        PROVE  Shrinks
    BY <1>2, <1>3, <2>1 DEF Join, Fail, Recover, RemoveNode
  <2> QED BY <1>2, <1>3, <1>6, <2>1, Zenon DEF Environment, Launch, ScaleIn, Resize, Crash
<1>7. CASE RunOnceHealthy \/ UNCHANGED vars
  BY <1>2, <1>7 DEF RunOnceHealthy, vars
<1>8. CASE RunOnce \/ Confirm \/ RepairDone \/ SlicePanics \/ GroupDone
  BY <1>2, <1>3, <1>8 DEF RunOnce, Confirm, RepairDone, SlicePanics, GroupDone
<1>9. CASE RepairGroup
  BY <1>5, <1>9 DEF RepairGroup
<1>10. CASE AsgRepairNodes \/ Expand
  BY <1>4, <1>10 DEF AsgRepairNodes, Expand
<1>11. CASE CountReady \/ AwaitReady
  BY <1>2, <1>5, <1>11 DEF CountReady, AwaitReady
<1>12. CASE ReadSize \/ SetSize
  BY <1>2, <1>3, <1>12 DEF ReadSize, SetSize
<1>13. CASE BeginDelete \/ BeginDeleteLoop
  BY <1>2, <1>3, <1>4, <1>13 DEF BeginDelete, BeginDeleteLoop
<1>14. CASE DeleteLoopEnds \/ AwaitDeleted
  BY <1>2, <1>4, <1>14 DEF DeleteLoopEnds, AwaitDeleted
<1>15. ASSUME NEW n \in Node, SkipNode(n) \/ MarkToBeDeleted(n) \/ MarkFails(n)
       PROVE  Shrinks
  BY <1>2, <1>3, <1>15 DEF SkipNode, MarkToBeDeleted, MarkFails
<1>16. CASE Drain \/ FindGroup
  BY <1>2, <1>3, <1>16 DEF Drain, FindGroup
<1>17. CASE Terminate \/ CleanToBeDeleted
  BY <1>2, <1>3, <1>17 DEF Terminate, CleanToBeDeleted
<1> QED
  BY <1>6, <1>7, <1>8, <1>9, <1>10, <1>11, <1>12, <1>13, <1>14, <1>15, <1>16, <1>17
     DEF Next, Controller

WithinBudget == \A k \in Disturbance : budget[k] <= Budget[k]

LEMMA BudgetInvariant == Spec => []WithinBudget
<1>1. Init => WithinBudget
  BY BoundAssumption DEF Init, WithinBudget
<1>2. TypeOK /\ TypeOK' /\ WithinBudget /\ [Next]_vars => WithinBudget'
  BY BudgetShrinks, BoundAssumption DEF WithinBudget, TypeOK
<1> QED BY <1>1, <1>2, TypeCorrect, PTL DEF Spec

LEMMA UntouchedBefore ==
    ASSUME TypeOK, TypeOK', WithinBudget, [Next]_vars,
           NEW K, K \subseteq Disturbance, Untouched(K)'
    PROVE  Untouched(K) /\ \A k \in K : budget'[k] = budget[k]
<1> SUFFICES ASSUME NEW k \in K PROVE budget[k] = Budget[k] /\ budget'[k] = budget[k]
  BY DEF Untouched
<1>1. budget'[k] <= budget[k] /\ budget[k] <= Budget[k] /\ budget'[k] = Budget[k]
  BY BudgetShrinks DEF WithinBudget, Untouched
<1> QED BY <1>1, BoundAssumption DEF TypeOK

(* A disturbance leaves no doubt about its kind. *)
LEMMA NotSpent ==
    ASSUME TypeOK, NEW k \in Disturbance, k # "any", budget'[k] = budget[k]
    PROVE  ~Spend(k)
BY SpendFacts DEF TypeOK

-----------------------------------------------------------------------------
(***************************************************************************)
(* The limits of the groups.  Asg.IncreaseSize sets a size it computed     *)
(* from one it read a step earlier; what it sets was checked, so it stays  *)
(* within the limits whatever became of the group in between.              *)
(* Asg.DeleteNodes decrements because the size it read was above the       *)
(* minimum; since then it has come down to the minimum at worst, and not   *)
(* at all if nobody else resizes the group.                                *)
(***************************************************************************)
SizeToSet ==
    pc = "setSize" => /\ size + inc \in AwsMin[grp] .. MaxSize[grp]
                      /\ LimitsKept => MinSize[grp] <= size + inc

SizeToTake ==
    pc = "terminate" => /\ LimitsKept /\ size > MinSize[grp] => desired[grp] >= MinSize[grp]
                        /\ Untouched({"resize", "exceed"}) => size = desired[grp]

WithinLimits(g) ==
    /\ desired[g] \in AwsMin[g] .. AwsMax[g]
    /\ LimitsKept => desired[g] \in MinSize[g] - 1 .. MaxSize[g]
    /\ Untouched({"resize", "exceed"}) => desired[g] >= MinSize[g]

BoundsInv == (\A g \in Groups : WithinLimits(g)) /\ SizeToSet /\ SizeToTake

(* A step that is none of those that touch a size or read one to set it. *)
LEMMA OtherSteps ==
    ASSUME TypeOK, [Next]_vars,
           ~ReadSize, ~SetSize, ~Terminate, ~FindGroup,
           ~ \E g \in Groups : \E d \in 0 .. AwsMax[g] : Resize(g, d)
    PROVE  /\ UNCHANGED desired
           /\ pc' \in {"setSize", "terminate"} =>
                 pc' = pc /\ UNCHANGED <<grp, inc, size>>
<1> USE DEF round, samples, poll, controller
<1>1. CASE Environment
  BY <1>1 DEF Environment, Launch, ScaleIn, Join, Fail, Recover, RemoveNode, Crash, ForgetPass
<1>2. CASE RunOnceHealthy \/ UNCHANGED vars
  BY <1>2 DEF RunOnceHealthy, vars
<1>3. CASE RunOnce \/ Confirm \/ RepairGroup \/ RepairDone \/ SlicePanics \/ GroupDone
  BY <1>3 DEF RunOnce, Confirm, RepairGroup, RepairDone, SlicePanics, GroupDone, ForgetPass
<1>4. CASE AsgRepairNodes \/ Expand \/ CountReady \/ AwaitReady
  BY <1>4 DEF AsgRepairNodes, Expand, CountReady, AwaitReady, ReturnFromIncrease, NextRound
<1>5. CASE BeginDelete \/ BeginDeleteLoop \/ DeleteLoopEnds \/ AwaitDeleted
  BY <1>5 DEF BeginDelete, BeginDeleteLoop, DeleteLoopEnds, AwaitDeleted,
              ReturnFromDelete, NextRound
<1>6. ASSUME NEW n \in Node, SkipNode(n) \/ MarkToBeDeleted(n) \/ MarkFails(n)
      PROVE  /\ UNCHANGED desired
             /\ pc' \in {"setSize", "terminate"} =>
                   pc' = pc /\ UNCHANGED <<grp, inc, size>>
  BY <1>6, Zenon DEF SkipNode, MarkToBeDeleted, MarkFails, ReturnFromDelete, NextRound
<1>7. CASE Drain \/ CleanToBeDeleted
  BY <1>7 DEF Drain, CleanToBeDeleted, ReturnFromDelete, NextRound
<1> QED BY <1>1, <1>2, <1>3, <1>4, <1>5, <1>6, <1>7 DEF Next, Controller

LEMMA InitBounds == Init => BoundsInv
BY SizeAssumption, LimitsAssumption DEF Init, BoundsInv, WithinLimits, SizeToSet, SizeToTake

LEMMA NextBounds ==
    TypeOK /\ TypeOK' /\ WithinBudget /\ BoundsInv /\ [Next]_vars => BoundsInv'
<1> SUFFICES ASSUME TypeOK, TypeOK', WithinBudget, BoundsInv, [Next]_vars PROVE BoundsInv'
  OBVIOUS
<1> DEFINE Unresized == Untouched({"resize", "exceed"})
           After(g) == /\ desired'[g] \in AwsMin[g] .. AwsMax[g]
                       /\ LimitsKept' => desired'[g] \in MinSize[g] - 1 .. MaxSize[g]
                       /\ Unresized' => desired'[g] >= MinSize[g]
<1>1. LimitsKept' => LimitsKept /\ budget'["exceed"] = budget["exceed"]
  BY UntouchedBefore DEF Disturbance, LimitsKept
<1>2. Unresized' => Unresized /\ budget'["resize"] = budget["resize"] /\ LimitsKept'
  <2> SUFFICES ASSUME Unresized' PROVE Unresized /\ budget'["resize"] = budget["resize"] /\ LimitsKept'
    OBVIOUS
  <2>1. {"resize", "exceed"} \subseteq Disturbance
    BY DEF Disturbance
  <2>2. Unresized /\ \A k \in {"resize", "exceed"} : budget'[k] = budget[k]
    BY <2>1, UntouchedBefore
  <2> QED BY <2>2 DEF Untouched, LimitsKept
<1>3. \A g \in Groups : WithinLimits(g)
  BY DEF BoundsInv
<1>4. SizeToSet /\ SizeToTake
  BY DEF BoundsInv
<1>5. \A g \in Groups : /\ desired[g] \in Int /\ MinSize[g] \in Nat /\ MaxSize[g] \in Nat
                        /\ AwsMin[g] \in Nat /\ AwsMax[g] \in Nat
                        /\ AwsMin[g] <= MinSize[g] /\ MaxSize[g] <= AwsMax[g]
  BY SizeAssumption, LimitsAssumption DEF TypeOK
<1>6. size \in Int /\ inc \in Int
  BY DEF TypeOK
<1>7. \A g \in Groups : desired'[g] = desired[g] => After(g)
  BY <1>1, <1>2, <1>3, SMTT(20) DEF WithinLimits
<1>a. (\A g \in Groups : After(g)) => \A g \in Groups : WithinLimits(g)'
  BY DEF WithinLimits
<1> HIDE DEF Unresized, After
<1>8. CASE ReadSize
  <2>1. UNCHANGED <<desired, grp, inc>> /\ pc' # "terminate" /\ grp \in Groups
    BY <1>8 DEF ReadSize, ReturnFromIncrease, NextRound, round, TypeOK
  <2>2. pc' = "setSize" => size' = desired[grp] /\ MayIncrease(grp, desired[grp], inc)
    BY <1>8 DEF ReadSize, ReturnFromIncrease, NextRound
  <2>3. SizeToSet'
    <3> SUFFICES ASSUME pc' = "setSize"
                 PROVE  /\ size' + inc' \in AwsMin[grp'] .. MaxSize[grp']
                        /\ LimitsKept' => MinSize[grp'] <= size' + inc'
      BY DEF SizeToSet
    <3>1. size' = desired[grp] /\ inc > 0 /\ desired[grp] + inc <= MaxSize[grp]
      BY <2>2, SMTT(20) DEF MayIncrease
    <3>2. AwsMin[grp] <= desired[grp] /\ (LimitsKept => MinSize[grp] - 1 <= desired[grp])
      BY <1>3, <2>1, SMTT(20) DEF WithinLimits
    <3> QED BY <1>1, <1>5, <1>6, <2>1, <3>1, <3>2, SMTT(20)
  <2> QED BY <1>a, <1>7, <2>1, <2>3, SMTT(20) DEF SizeToTake, BoundsInv
<1>9. CASE SetSize
  <2>1. pc = "setSize" /\ grp \in Groups /\ pc' \notin {"setSize", "terminate"}
    BY <1>9 DEF SetSize, ReturnFromIncrease, NextRound, TypeOK
  <2>2. desired' = desired \/ desired' = [desired EXCEPT ![grp] = size + inc]
    BY <1>9 DEF SetSize
  <2>3. /\ size + inc \in AwsMin[grp] .. MaxSize[grp]
        /\ LimitsKept => MinSize[grp] <= size + inc
    BY <1>4, <2>1, SMTT(20) DEF SizeToSet
  <2>4. desired'[grp] = size + inc => After(grp)
    <3> SUFFICES ASSUME desired'[grp] = size + inc PROVE After(grp)
      BY SMTT(20)
    <3>1. /\ desired'[grp] \in AwsMin[grp] .. AwsMax[grp]
          /\ LimitsKept' => desired'[grp] \in MinSize[grp] .. MaxSize[grp]
      BY <1>1, <1>5, <1>6, <2>1, <2>3, SMTT(20)
    <3>2. LimitsKept' => desired'[grp] \in MinSize[grp] - 1 .. MaxSize[grp] /\ desired'[grp] >= MinSize[grp]
      BY <1>5, <2>1, <3>1, SMTT(20)
    <3> QED BY <1>2, <3>1, <3>2 DEF After
  <2>5. \A g \in Groups : desired'[g] = desired[g] \/ (g = grp /\ desired'[g] = size + inc)
    BY <2>2 DEF TypeOK
  <2>6. \A g \in Groups : After(g)
    BY <1>7, <2>4, <2>5
  <2> QED BY <1>a, <2>1, <2>6, Zenon DEF SizeToSet, SizeToTake, BoundsInv
<1>10. CASE Terminate
  <2>1. /\ pc = "terminate" /\ grp \in Groups
        /\ pc' \notin {"setSize", "terminate"}
    BY <1>10 DEF Terminate, TypeOK
  <2>2. \/ desired' = desired
        \/ /\ desired' = [desired EXCEPT ![grp] = @ - 1]
           /\ size > MinSize[grp] /\ desired[grp] > AwsMin[grp]
    <3>1. \/ desired' = desired
          \/ /\ AwsAccepts(grp, node, ~MustRestart(grp, size))
             /\ AwsTerminate(grp, node, ~MustRestart(grp, size))
      BY <1>10, Zenon DEF Terminate
    <3>2. CASE MustRestart(grp, size)
      BY <3>1, <3>2, Zenon DEF AwsTerminate
    <3>3. CASE ~MustRestart(grp, size)
      <4>1. size > MinSize[grp]
        BY <1>5, <1>6, <2>1, <3>3, SMTT(20) DEF MustRestart
      <4> QED BY <3>1, <3>3, <4>1 DEF AwsAccepts, AwsTerminate
    <3> QED BY <3>2, <3>3
  <2>3. CASE desired' = desired
    BY <1>a, <1>7, <2>1, <2>3, SMTT(20) DEF SizeToSet, SizeToTake, BoundsInv
  <2>4. CASE desired' # desired
    <3>1. \A g \in Groups : desired'[g] = IF g = grp THEN desired[g] - 1 ELSE desired[g]
      BY <2>1, <2>2, <2>4 DEF TypeOK
    <3>2. size > MinSize[grp] /\ desired[grp] > AwsMin[grp]
      BY <2>2, <2>4
    <3>3. /\ LimitsKept => desired[grp] >= MinSize[grp] /\ desired[grp] <= MaxSize[grp]
          /\ Unresized => desired[grp] > MinSize[grp]
          /\ desired[grp] <= AwsMax[grp]
      BY <1>3, <1>4, <2>1, <3>2 DEF SizeToTake, WithinLimits, Unresized
    <3>4. After(grp)
      <4>1. desired'[grp] \in AwsMin[grp] .. AwsMax[grp]
        BY <1>5, <2>1, <3>1, <3>2, <3>3, SMTT(20)
      <4>2. LimitsKept' => desired'[grp] \in MinSize[grp] - 1 .. MaxSize[grp]
        BY <1>1, <1>5, <2>1, <3>1, <3>3, SMTT(20)
      <4>3. Unresized' => desired'[grp] >= MinSize[grp]
        BY <1>2, <1>5, <2>1, <3>1, <3>3
      <4> QED BY <4>1, <4>2, <4>3 DEF After
    <3>5. \A g \in Groups : After(g)
      BY <1>7, <3>1, <3>4, SMTT(20)
    <3> QED BY <1>a, <2>1, <3>5, SMTT(20) DEF SizeToSet, SizeToTake, BoundsInv
  <2> QED BY <2>3, <2>4, SMTT(20)
<1>11. CASE FindGroup
  <2>1. /\ UNCHANGED <<desired, grp>> /\ pc' # "setSize"
        /\ pc' = "terminate" => size' = desired[grp] /\ grp \in Groups
    BY <1>11 DEF FindGroup, round, TypeOK
  <2>2. SizeToTake'
    BY <1>5, <2>1 DEF SizeToTake
  <2> QED BY <1>a, <1>7, <2>1, <2>2, SMTT(20) DEF SizeToSet, BoundsInv
<1>12. ASSUME NEW g \in Groups, NEW d \in 0 .. AwsMax[g], Resize(g, d)
       PROVE  BoundsInv'
  <2>1. /\ desired' = [desired EXCEPT ![g] = d]
        /\ d \in AwsMin[g] .. AwsMax[g]
        /\ UNCHANGED <<pc, grp, inc, size>>
    BY <1>12 DEF Resize, controller, round
  <2>2. LimitsKept' => d \in MinSize[g] .. MaxSize[g]
    <3>1. d \in MinSize[g] .. MaxSize[g] \/ Spend("exceed")
      BY <1>12 DEF Resize
    <3> QED BY <1>1, <3>1, NotSpent DEF Disturbance
  <2>3. ~Unresized'
    <3>1. Spend("resize") \/ Spend("exceed")
      BY <1>12 DEF Resize
    <3>2. Spend("resize") => budget'["resize"] # budget["resize"]
      BY NotSpent DEF Disturbance
    <3>3. Spend("exceed") => budget'["exceed"] # budget["exceed"]
      BY NotSpent DEF Disturbance
    <3> QED BY <1>1, <1>2, <3>1, <3>2, <3>3
  <2>4. desired'[g] = d /\ \A h \in Groups : h # g => desired'[h] = desired[h]
    BY <2>1 DEF TypeOK
  <2>5. After(g)
    <3>1. LimitsKept' => desired'[g] \in MinSize[g] - 1 .. MaxSize[g]
      BY <1>5, <2>1, <2>2, <2>4
    <3> QED BY <2>1, <2>3, <2>4, <3>1, SMTT(20) DEF After
  <2>6. \A h \in Groups : After(h)
    BY <1>7, <2>4, <2>5, SMTT(20)
  <2>7. SizeToSet'
    BY <1>1, <1>4, <2>1 DEF SizeToSet
  <2>8. SizeToTake'
    <3> SUFFICES ASSUME pc = "terminate"
                 PROVE  LimitsKept' /\ size > MinSize[grp] => desired'[grp] >= MinSize[grp]
      BY <2>1, <2>3, SMTT(20) DEF SizeToTake, Unresized
    <3>1. grp \in Groups
      BY DEF TypeOK
    <3>2. LimitsKept /\ size > MinSize[grp] => desired[grp] >= MinSize[grp]
      BY <1>4 DEF SizeToTake
    <3> QED BY <1>1, <1>5, <2>2, <2>4, <3>1, <3>2, SMTT(20)
  <2> QED BY <1>a, <2>6, <2>7, <2>8, SMTT(20) DEF BoundsInv
<1>13. CASE /\ ~ReadSize /\ ~SetSize /\ ~Terminate /\ ~FindGroup
            /\ ~ \E g \in Groups : \E d \in 0 .. AwsMax[g] : Resize(g, d)
  <2>1. /\ UNCHANGED desired
        /\ pc' \in {"setSize", "terminate"} => pc' = pc /\ UNCHANGED <<grp, inc, size>>
    BY <1>13, OtherSteps
  <2>2. SizeToSet'
    BY <1>1, <1>4, <2>1 DEF SizeToSet
  <2>3. SizeToTake'
    BY <1>1, <1>2, <1>4, <2>1 DEF SizeToTake, Unresized
  <2> QED BY <1>a, <1>7, <2>1, <2>2, <2>3 DEF BoundsInv
<1> QED BY <1>8, <1>9, <1>10, <1>11, <1>12, <1>13

LEMMA BoundsInvariant == Spec => []BoundsInv
BY InitBounds, NextBounds, TypeCorrect, BudgetInvariant, PTL DEF Spec

(***************************************************************************)
(* Neither the controller's delayed writes nor their interleaving with     *)
(* other writers take an ASG past MaxSize, or below MinSize unless a       *)
(* writer lowers it to MinSize while a decrement is under way; then the    *)
(* group ends up one below.                                                *)
(***************************************************************************)
THEOREM SizesStayInBounds == Spec => []SizeWithinBounds
<1>1. TypeOK /\ BoundsInv => SizeWithinBounds
  BY DEF BoundsInv, WithinLimits, SizeToSet, SizeWithinBounds
<1> QED BY <1>1, TypeCorrect, BoundsInvariant, PTL

-----------------------------------------------------------------------------
(* Taints. *)

LEMMA NextTaint ==
    TypeOK /\ TypeOK' /\ WithinBudget /\ NodesFlow /\ TaintAccounted /\ [Next]_vars
       => TaintAccounted'
<1> DEFINE K == {"crash", "lost", "unclean"}
<1> SUFFICES ASSUME TypeOK, TypeOK', WithinBudget, NodesFlow, TaintAccounted, [Next]_vars,
                    Untouched(K)'
             PROVE  \A n \in taint' : n = node' \/ inst'[n] = "gone"
  BY DEF TaintAccounted
<1>0. K \subseteq Disturbance \ {"any"}
  BY DEF Disturbance
<1>1. ~Spend("crash") /\ ~Spend("lost") /\ ~Spend("unclean")
  <2>1. \A k \in K : budget'[k] = budget[k]
    BY <1>0, UntouchedBefore
  <2>2. \A k \in K : ~Spend(k)
    BY <1>0, <2>1, NotSpent
  <2> QED BY <2>2
<1>2. \A n \in taint : n = node \/ inst[n] = "gone"
  BY <1>0, UntouchedBefore DEF TaintAccounted
<1>3. /\ taint \subseteq Node /\ inst \in [Node -> {"unused", "running", "gone"}]
      /\ ~Deleting => node = NoNode
  BY DEF TypeOK, NodesFlow
<1> DEFINE Accounted == \A m \in taint' : m = node' \/ inst'[m] = "gone"
           Quiet == UNCHANGED <<taint, inst>> /\ (~Deleting \/ node' = node)
<1>4. Quiet => Accounted
  BY <1>2, <1>3, NodeAssumption
<1> HIDE DEF K, Accounted
<1> SUFFICES Accounted
  BY DEF Accounted
<1> USE DEF Deleting, cluster, controller
<1>5. CASE Environment
  <2>1. ASSUME NEW g \in Groups, NEW n \in Node, Launch(g, n) \/ ScaleIn(g, n)
        PROVE  Accounted
    <3>1. /\ UNCHANGED <<taint, node>>
          /\ \/ inst[n] = "unused" /\ inst' = [inst EXCEPT ![n] = "running"]
             \/ inst' = [inst EXCEPT ![n] = "gone"]
      BY <2>1 DEF Launch, ScaleIn
    <3> QED BY <1>2, <1>3, <3>1 DEF Accounted
  <2>2. ASSUME NEW n \in Node, Join(n) \/ Fail(n) \/ Recover(n)
        PROVE  Accounted
    BY <1>4, <2>2 DEF Join, Fail, Recover
  <2>3. ASSUME NEW n \in Node, RemoveNode(n)
        PROVE  Accounted
    <3>1. UNCHANGED <<inst, node>> /\ taint' = taint \ {n}
      BY <2>3, Zenon DEF RemoveNode
    <3> QED BY <1>2, <3>1 DEF Accounted
  <2>4. ASSUME NEW g \in Groups, NEW d \in 0 .. AwsMax[g], Resize(g, d)
        PROVE  Accounted
    BY <1>4, <2>4 DEF Resize
  <2> QED BY <1>1, <1>5, <2>1, <2>2, <2>3, <2>4 DEF Environment, Crash
<1>6. CASE RunOnceHealthy \/ UNCHANGED vars
  BY <1>4, <1>6 DEF RunOnceHealthy, vars
<1>7. CASE RunOnce \/ Confirm \/ RepairGroup \/ RepairDone \/ SlicePanics \/ GroupDone
  BY <1>4, <1>7 DEF RunOnce, Confirm, RepairGroup, RepairDone, SlicePanics, GroupDone
<1>8. CASE AsgRepairNodes \/ Expand \/ CountReady \/ ReadSize \/ SetSize \/ AwaitReady
  BY <1>4, <1>8 DEF AsgRepairNodes, Expand, CountReady, ReadSize, SetSize, AwaitReady
<1>9. CASE BeginDelete \/ BeginDeleteLoop \/ DeleteLoopEnds \/ AwaitDeleted
  BY <1>4, <1>9 DEF BeginDelete, BeginDeleteLoop, DeleteLoopEnds, AwaitDeleted
<1>10. ASSUME NEW n \in Node, SkipNode(n) \/ MarkFails(n)
       PROVE  Accounted
  BY <1>1, <1>4, <1>10, Zenon DEF SkipNode, MarkFails
<1>11. ASSUME NEW n \in Node, MarkToBeDeleted(n)
       PROVE  Accounted
  <2>1. pc = "deleteLoop" /\ taint' = taint \cup {n} /\ node' = n /\ inst' = inst
    BY <1>11 DEF MarkToBeDeleted
  <2> QED BY <1>2, <1>3, <2>1, NodeAssumption DEF Accounted
<1>12. CASE Drain \/ FindGroup
  BY <1>4, <1>12 DEF Drain, FindGroup
<1>13. CASE Terminate
  <2>1. /\ taint' = taint
        /\ \/ inst' = [inst EXCEPT ![node] = "gone"]
           \/ UNCHANGED <<inst, node>>
    BY <1>13 DEF Terminate, AwsTerminate
  <2> QED BY <1>2, <1>3, <2>1 DEF Accounted
<1>14. CASE CleanToBeDeleted
  <2>1. inst' = inst /\ taint' = taint \ {node}
    BY <1>1, <1>14 DEF CleanToBeDeleted, WithoutTaint
  <2> QED BY <1>2, <2>1 DEF Accounted
<1> QED
  BY <1>5, <1>6, <1>7, <1>8, <1>9, <1>10, <1>11, <1>12, <1>13, <1>14
     DEF Next, Controller

(***************************************************************************)
(* An abandoned deletion leaves no live node tainted, as long as the       *)
(* process survives, replies arrive and the clean-up call succeeds.        *)
(***************************************************************************)
THEOREM TaintsAreReleased == Spec => []TaintAccounted
<1>1. Init => TaintAccounted
  BY DEF Init, TaintAccounted
<1> QED BY <1>1, NextTaint, TypeCorrect, BudgetInvariant, FlowInvariant, PTL DEF Spec

-----------------------------------------------------------------------------
(* What a step does to a node, seen through DeleteContract. *)

(* A step that starts and ends outside a deletion, or stays where it is    *)
(* in one, and changes neither taints nor instances, is a stutter.         *)
LEMMA ContractStutter ==
  ASSUME NEW n \in Node, UNCHANGED <<taint, inst>>,
         \/ UNCHANGED <<pc, node>>
         \/ /\ pc \notin {"drain", "findGroup", "terminate", "cleanup"}
            /\ pc' \notin {"drain", "findGroup", "terminate", "cleanup"}
  PROVE  UNCHANGED <<Phase(n), Tainted(n), Instance(n)>>
  BY DEF Phase, Tainted, Instance

(* Every step of the controller and of its environment, seen from one      *)
(* node, is a step of DeleteContract.                                      *)
THEOREM DeletionsKeepContract == Spec => KeepsContract
<1>1. TypeOK /\ [Next]_vars =>
        \A n \in Node : [Deletion(n)!Next]_<<Phase(n), Tainted(n), Instance(n)>>
  <2> SUFFICES ASSUME TypeOK, [Next]_vars, NEW n \in Node
               PROVE  Deletion(n)!Next \/ UNCHANGED <<Phase(n), Tainted(n), Instance(n)>>
    OBVIOUS
  <2>1. CASE UNCHANGED vars
    BY <2>1, ContractStutter DEF vars, cluster
  <2>2. CASE \/ RunOnceHealthy \/ RunOnce \/ Confirm
             \/ RepairGroup \/ RepairDone \/ SlicePanics \/ GroupDone
             \/ AsgRepairNodes \/ Expand \/ CountReady \/ ReadSize \/ SetSize \/ AwaitReady
             \/ BeginDelete \/ BeginDeleteLoop \/ DeleteLoopEnds \/ AwaitDeleted
    <3>1. CASE \/ RunOnceHealthy \/ RunOnce \/ Confirm
               \/ RepairGroup \/ RepairDone \/ SlicePanics \/ GroupDone
      BY <3>1, ContractStutter, Zenon
         DEF RunOnceHealthy, RunOnce, Confirm, RepairGroup, RepairDone, SlicePanics,
             GroupDone, ForgetPass,
             cluster, vars
    <3>2. CASE AsgRepairNodes \/ Expand \/ CountReady \/ ReadSize \/ SetSize \/ AwaitReady
      BY <3>2, ContractStutter, Zenon
         DEF AsgRepairNodes, Expand, CountReady, ReadSize, SetSize, AwaitReady,
             ReturnFromIncrease, NextRound, cluster
    <3>3. CASE BeginDelete \/ BeginDeleteLoop \/ DeleteLoopEnds \/ AwaitDeleted
      BY <3>3, ContractStutter
         DEF BeginDelete, BeginDeleteLoop, DeleteLoopEnds, AwaitDeleted, ReturnFromDelete,
             NextRound, cluster
    <3> QED BY <2>2, <3>1, <3>2, <3>3
  <2> USE DEF Deletion!Next, Deletion!Mark, Deletion!Drained, Deletion!Remove, Deletion!Abandon,
          Deletion!Release, Deletion!Outside, Phase, Tainted, Instance, cluster
  <2>3. ASSUME NEW m \in Node, SkipNode(m) \/ MarkToBeDeleted(m) \/ MarkFails(m)
        PROVE  Deletion(n)!Next \/ UNCHANGED <<Phase(n), Tainted(n), Instance(n)>>
    BY <2>3 DEF SkipNode, MarkToBeDeleted, MarkFails, ReturnFromDelete, NextRound, TypeOK
  <2>4. CASE Drain \/ FindGroup
    BY <2>4 DEF Drain, FindGroup
  <2>5. CASE Terminate
    BY <2>5 DEF Terminate, AwsAccepts, AwsTerminate, TypeOK
  <2>6. CASE CleanToBeDeleted
    BY <2>6, NodeAssumption DEF CleanToBeDeleted, WithoutTaint, ReturnFromDelete, NextRound, TypeOK
  <2>7. CASE Environment
    <3>1. ASSUME NEW g \in Groups, NEW m \in Node, Launch(g, m) \/ ScaleIn(g, m)
          PROVE  Deletion(n)!Next \/ UNCHANGED <<Phase(n), Tainted(n), Instance(n)>>
      BY <3>1 DEF Launch, ScaleIn, Running, controller, TypeOK
    <3>2. ASSUME NEW m \in Node, Join(m) \/ Fail(m) \/ Recover(m) \/ RemoveNode(m)
          PROVE  Deletion(n)!Next \/ UNCHANGED <<Phase(n), Tainted(n), Instance(n)>>
      BY <3>2 DEF Join, Fail, Recover, RemoveNode, controller, TypeOK
    <3>3. CASE Crash \/ \E g \in Groups : \E d \in 0 .. AwsMax[g] : Resize(g, d)
      BY <3>3 DEF Crash, Resize, ForgetPass, controller
    <3> QED BY <2>7, <3>1, <3>2, <3>3 DEF Environment
  <2> QED
    BY <2>1, <2>2, <2>3, <2>4, <2>5, <2>6, <2>7, Zenon DEF Next, Controller
<1> QED
  BY <1>1, TypeCorrect, PTL DEF Spec, KeepsContract
===============================================================================
