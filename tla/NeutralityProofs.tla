--------------------------- MODULE NeutralityProofs ---------------------------
(***************************************************************************)
(* Proof that an undisturbed repair is neutral: it restores the size of    *)
(* every group, and on the way stays within the surge AsgRepairNodes asks  *)
(* for; and that it is complete: RepairNodes returns only when every node  *)
(* it was called with has been deleted.                                    *)
(***************************************************************************)
EXTENDS PlanProofs

(* Each round keeps what it relies on. *)
LEMMA PlanRound ==
    ASSUME Known, [Next]_vars
    PROVE  RoundPlan'
<1>0. /\ TypeOK /\ RoundPlan /\ NodesFlow
      /\ \A g \in Groups : desired[g] = InitSize[g] + (IF g = grp THEN Offset ELSE 0)
  BY DEF Known, OnPlan
<1> USE DEF InRound, round, samples, controller
<1>1. CASE RunOnceHealthy \/ UNCHANGED vars
  BY <1>0, <1>1 DEF RunOnceHealthy, vars, RoundPlan
<1>2. CASE RunOnce \/ Confirm \/ RepairGroup \/ RepairDone \/ SlicePanics \/ GroupDone
  <2>1. pc' \in {"idle", "confirm", "group", "repair"}
    BY <1>2 DEF RunOnce, Confirm, RepairGroup, RepairDone, SlicePanics, GroupDone, ForgetPass
  <2> QED BY <2>1 DEF RoundPlan
<1>3. CASE AsgRepairNodes
  <2>1. /\ pc = "repair" /\ work # {} /\ UNCHANGED <<desired, grp, work>> /\ grp \in Groups
        /\ \/ /\ DeleteFirst(grp, desired[grp])
              /\ order' = "delete" /\ inc' = 1 /\ pc' = "delete"
           \/ /\ ~DeleteFirst(grp, desired[grp])
              /\ order' = "grow" /\ pc' = "calc"
    BY <1>0, <1>3, CalmReads DEF AsgRepairNodes, TypeOK
  <2>2. desired[grp] = InitSize[grp]
    <3>1. Offset = 0
      BY <2>1 DEF Offset, InDeleteLoop, DeletedNotRegrown
    <3> QED BY <1>0, <2>1, <3>1, SizeAssumption
  <2> QED BY <2>1, <2>2, SizeAssumption DEF DeleteFirst, RoundPlan
<1>4. CASE Expand
  <2>1. /\ pc = "calc" /\ pc' = "increase" /\ UNCHANGED <<grp, order>> /\ grp \in Groups
        /\ inc' = CalcExpandSize(grp, desired[grp], Cardinality(work))
    BY <1>0, <1>4, CalmReads DEF Expand, TypeOK
  <2>2. desired[grp] = InitSize[grp]
    <3>1. Offset = 0
      BY <1>0, <2>1 DEF Offset, InDeleteLoop, DeletedNotRegrown, RoundPlan
    <3> QED BY <1>0, <2>1, <3>1, SizeAssumption
  <2>3. Cardinality(work) \in Nat /\ Cardinality(work) # 0
    BY <1>0, <2>1, SubsetCardinality, FS_EmptySet DEF RoundPlan, TypeOK
  <2> QED BY <1>0, <2>1, <2>2, <2>3, SizeAssumption DEF CalcExpandSize, RoundPlan
<1>5. CASE CountReady \/ BeginDelete \/ BeginDeleteLoop \/ DeleteLoopEnds
  <2>1. /\ InRound /\ UNCHANGED <<grp, order, inc>>
        /\ pc' \in {"readSize", "deleteRead", "deleteLoop", "awaitDeleted"}
    BY <1>5 DEF CountReady, BeginDelete, BeginDeleteLoop, DeleteLoopEnds
  <2> QED BY <1>0, <2>1 DEF RoundPlan
<1>6. CASE ReadSize
  <2>1. /\ InRound /\ UNCHANGED <<grp, order, inc, desired>>
        /\ \/ pc' = "setSize" /\ size' = desired[grp]
           \/ pc' \in {"delete", "repair"}
    BY <1>6 DEF ReadSize, ReturnFromIncrease, NextRound
  <2> QED BY <1>0, <2>1 DEF RoundPlan
<1>7. CASE SetSize \/ AwaitReady \/ AwaitDeleted
  <2>1. /\ InRound /\ UNCHANGED <<grp, order, inc>>
        /\ pc' \in {"awaitReady", "delete", "repair", "awaitDeleted", "increase"}
    BY <1>7
       DEF SetSize, AwaitReady, AwaitDeleted, ReturnFromIncrease, ReturnFromDelete, NextRound
  <2> QED BY <1>0, <2>1 DEF RoundPlan
<1>8. ASSUME NEW n \in Node, MarkToBeDeleted(n) PROVE RoundPlan'
  BY <1>0, <1>8 DEF MarkToBeDeleted, RoundPlan
<1>9. CASE Drain
  BY <1>0, <1>9 DEF Drain, EvictionRefused, RoundPlan, Known, Calm
<1>10. CASE FindGroup
  <2>1. inst[node] # "gone"
    BY <1>0, <1>10 DEF FindGroup, Known, OnPlan, AheadAlive, Ahead, NodesFlow, Deleting
  <2>2. /\ InRound /\ UNCHANGED <<grp, order, inc, desired>>
        /\ pc' = "terminate" /\ size' = desired[grp]
    BY <1>10, <2>1 DEF FindGroup, Known, Calm
  <2> QED BY <1>0, <2>2 DEF RoundPlan
<1>11. CASE Terminate
  <2>1. /\ InRound /\ pc' = "deleteLoop" /\ UNCHANGED <<grp, order, inc>>
    BY <1>11, CalmTerminate
  <2> QED BY <1>0, <2>1 DEF RoundPlan
<1>12. CASE Environment
  <2>1. UNCHANGED <<desired, pc, grp, order, inc, size, work>>
    BY <1>12, NothingFails
       DEF Environment, Launch, Resize, Join, Fail, Recover, RemoveNode, Known, Calm
  <2> QED BY <1>0, <2>1 DEF RoundPlan
<1> QED BY <1>1, <1>2, <1>3, <1>4, <1>5, <1>6, <1>7, <1>8, <1>9, <1>10, <1>11, <1>12,
           NothingFails DEF Next, Controller

(* A step other than the second sample adds no node to those ahead, and    *)
(* leaves the instances and node objects of those that remain.             *)
LEMMA AheadShrinks ==
    ASSUME Known, [Next]_vars, ~Confirm
    PROVE  \A n \in Ahead' :
             /\ n \in Ahead
             /\ inst'[n] = inst[n]
             /\ status[n] # "absent" /\ inst[n] = "running" => status'[n] # "absent"
<1> DEFINE Goal == \A n \in Ahead' :
                      /\ n \in Ahead
                      /\ inst'[n] = inst[n]
                      /\ status[n] # "absent" /\ inst[n] = "running" => status'[n] # "absent"
<1> SUFFICES Goal
  OBVIOUS
<1>0. TypeOK /\ TypeOK' /\ NodesFlow /\ NodesFlow' /\ NodesLaunched /\ RoundPlan
  BY DEF Known, OnPlan
<1> USE <1>0 DEF Ahead, InDeleteLoop, BatchDeleted, InRound, Deleting, cluster, round,
                 samples, controller
<1>1. CASE RunOnceHealthy \/ UNCHANGED vars
  BY <1>1 DEF RunOnceHealthy, vars
<1>2. CASE RunOnce \/ RepairDone \/ SlicePanics
  BY <1>2 DEF RunOnce, RepairDone, SlicePanics, ForgetPass, NodesFlow
<1>3. CASE RepairGroup
  BY <1>3 DEF RepairGroup, NodesFlow
<1>4. CASE GroupDone
  BY <1>4, GroupsAssumption DEF GroupDone, NodesFlow, TypeOK, Groups
<1>5. CASE AsgRepairNodes
  BY <1>5 DEF AsgRepairNodes, NodesFlow
<1>6. CASE Expand \/ CountReady
  BY <1>6 DEF Expand, CountReady, NodesFlow, RoundPlan
<1>7. CASE ReadSize
  <2>1. /\ pc = "readSize" /\ UNCHANGED <<cluster, todo, grp, order, batch, rest>>
        /\ \/ pc' = "setSize" /\ work' = work
           \/ pc' = "delete" /\ order = "grow" /\ work' = work
           \/ pc' = "repair" /\ work' = work \ batch
    BY <1>7 DEF ReadSize, ReturnFromIncrease, NextRound
  <2> QED BY <2>1 DEF NodesFlow
<1>8. CASE SetSize
  <2>1. /\ pc = "setSize" /\ UNCHANGED <<cluster, todo, grp, order, batch, rest>>
        /\ \/ pc' = "awaitReady" /\ work' = work
           \/ pc' = "delete" /\ order = "grow" /\ work' = work
           \/ pc' = "repair" /\ work' = work \ batch
    BY <1>8 DEF SetSize, ReturnFromIncrease, NextRound
  <2> QED BY <2>1 DEF NodesFlow
<1>9. CASE AwaitReady
  BY <1>9 DEF AwaitReady, ReturnFromIncrease, NextRound, NodesFlow, TypeOK
<1>10. CASE BeginDelete \/ BeginDeleteLoop
  BY <1>10 DEF BeginDelete, BeginDeleteLoop, NodesFlow
<1>11. CASE DeleteLoopEnds
  BY <1>11 DEF DeleteLoopEnds, NodesFlow
<1>12. CASE AwaitDeleted
  BY <1>12 DEF AwaitDeleted, ReturnFromDelete, NextRound, NodesFlow, TypeOK
<1>13. ASSUME NEW n \in Node, MarkToBeDeleted(n) PROVE Goal
  BY <1>13 DEF MarkToBeDeleted, NodesFlow
<1>14. CASE Drain \/ FindGroup
  <2>1. /\ pc \in {"drain", "findGroup"} /\ pc' \in {"findGroup", "terminate", "cleanup"}
        /\ UNCHANGED <<cluster, todo, grp, order, batch, rest, work>>
    BY <1>14 DEF Drain, FindGroup
  <2>2. pc' # "cleanup"
    BY PlanRound DEF RoundPlan
  <2> QED BY <2>1, <2>2
<1>15. CASE Terminate
  <2>1. /\ node \in rest /\ asg[node] = grp /\ rest' = rest \ {node}
        /\ pc = "terminate" /\ pc' = "deleteLoop"
        /\ inst' = [inst EXCEPT ![node] = "gone"]
        /\ UNCHANGED <<asg, status, todo, grp, order, inc, batch, work>>
    BY <1>15, CalmTerminate
  <2>2. node \notin Ahead'
    <3>1. node \in batch /\ batch \subseteq work
      BY <2>1 DEF NodesFlow
    <3>2. asg'[node] = grp' /\ grp \in Int
      BY <2>1, GroupsAssumption DEF TypeOK, Groups
    <3> QED BY <2>1, <3>1, <3>2
  <2> QED BY <2>1, <2>2 DEF TypeOK
<1>16. CASE Environment
  <2>1. UNCHANGED controller
    BY <1>16, NothingFails, Zenon
       DEF Environment, Launch, Resize, Join, Fail, Recover, RemoveNode
  <2>2. ASSUME NEW g \in Groups, NEW n \in Node, Launch(g, n) PROVE Goal
    <3>1. n \notin todo /\ asg' = [asg EXCEPT ![n] = g] /\ inst' = [inst EXCEPT ![n] = "running"]
          /\ UNCHANGED status
      BY <2>2 DEF Launch, NodesLaunched, NodesFlow
    <3> QED BY <2>1, <3>1 DEF TypeOK
  <2>3. ASSUME NEW n \in Node, Join(n) \/ Fail(n) \/ Recover(n) \/ RemoveNode(n) PROVE Goal
    <3>1. /\ UNCHANGED <<inst, asg>>
          /\ \A m \in Node : status[m] # "absent" /\ inst[m] = "running" => status'[m] # "absent"
      BY <2>3 DEF Join, Fail, Recover, RemoveNode, TypeOK
    <3> QED BY <2>1, <3>1 DEF TypeOK
  <2> QED BY <1>16, <2>2, <2>3, NothingFails DEF Environment
<1> QED BY <1>1, <1>2, <1>3, <1>4, <1>5, <1>6, <1>7, <1>8, <1>9, <1>10, <1>11, <1>12, <1>13,
           <1>14, <1>15, <1>16, NothingFails, Zenon DEF Next, Controller

(* The nodes ahead stay alive, and AWS never has an instance too many. *)
LEMMA PlanAhead ==
    ASSUME Known, [Next]_vars
    PROVE  AheadAlive'
<1>0. TypeOK /\ TypeOK' /\ NodesFlow /\ NodesFlow' /\ NodesLaunched /\ RoundPlan /\ AheadAlive
  BY DEF Known, OnPlan
<1>t. /\ inst \in [Node -> {"unused", "running", "gone"}] /\ asg \in [Node -> Groups \cup {0}]
      /\ desired \in [Groups -> Int] /\ desired' \in [Groups -> Int]
  BY <1>0 DEF TypeOK
<1>1. \A n \in Ahead' : inst'[n] = "running" /\ status'[n] # "absent"
  <2>1. CASE Confirm
    <3>1. UNCHANGED <<inst, status>> /\ todo \subseteq Node
      BY <1>0, <2>1 DEF Confirm, cluster, TypeOK
    <3>2. ASSUME NEW n \in todo' PROVE inst[n] = "running" /\ status[n] # "absent"
      <4>1. n \in CommonNodes(notReady, NotReadyNodes)
        BY <2>1, <3>2 DEF Confirm, ForgetPass
      <4>2. inst[n] # "gone"
        BY <2>1, <4>1 DEF Confirm, Known, Calm
      <4> QED BY <1>0, <4>1, <4>2 DEF CommonNodes, NotReadyNodes, NodesLaunched, TypeOK
    <3> QED BY <3>1, <3>2 DEF Ahead
  <2>2. CASE ~Confirm
    BY <1>0, <2>2, AheadShrinks DEF AheadAlive
  <2> QED BY <2>1, <2>2
<1>2. \A g \in Groups : Cardinality(Running(g)') <= desired'[g]
  <2>0. \A g \in Groups : /\ Cardinality(Running(g)) <= desired[g]
                          /\ IsFiniteSet(Running(g)) /\ Cardinality(Running(g)) \in Nat
    BY <1>0, SubsetCardinality DEF AheadAlive, Running
  <2>1. CASE UNCHANGED <<inst, asg, desired>>
    BY <2>0, <2>1 DEF Running
  <2>2. CASE SetSize
    <3>1. /\ UNCHANGED <<inst, asg>> /\ grp \in Groups
          /\ desired' = [desired EXCEPT ![grp] = size + inc] /\ size = desired[grp]
      <4>1. ~Spend("fault")
        BY DEF Known, Calm
      <4>2. /\ pc = "setSize" /\ UNCHANGED <<inst, asg>>
            /\ desired' = [desired EXCEPT ![grp] = size + inc]
        BY <2>2, <4>1 DEF SetSize, cluster
      <4>3. grp \in Groups
        BY <1>0, <4>2 DEF TypeOK
      <4>4. size = desired[grp]
        BY <1>0, <4>2 DEF RoundPlan
      <4> QED BY <4>2, <4>3, <4>4
    <3>2. inc \in Nat
      <4>1. inc \in 0 .. Cardinality(work)
        BY <2>2 DEF SetSize, Known, SliceMatches, InRound
      <4>2. Cardinality(work) \in Nat
        BY <1>0, SubsetCardinality DEF TypeOK
      <4> QED BY <4>1, <4>2
    <3>3. \A g \in Groups : desired[g] <= desired'[g] /\ desired[g] \in Int /\ desired'[g] \in Int
      BY <1>t, <3>1, <3>2
    <3>4. \A g \in Groups : Running(g)' = Running(g)
      BY <3>1 DEF Running
    <3> QED BY <2>0, <3>3, <3>4
  <2>3. CASE Terminate
    <3>1. /\ node \in Node /\ asg[node] = grp /\ grp \in Groups /\ inst[node] = "running"
          /\ inst' = [inst EXCEPT ![node] = "gone"] /\ asg' = asg
          /\ desired' = IF desired[grp] <= MinSize[grp] THEN desired
                        ELSE [desired EXCEPT ![grp] = @ - 1]
      BY <2>3, CalmTerminate
    <3>2. TAKE g \in Groups
    <3>3. CASE g = grp
      <4>1. Running(g)' = Running(g) \ {node} /\ node \in Running(g)
        BY <1>t, <3>1, <3>3 DEF Running
      <4>2. Cardinality(Running(g)') = Cardinality(Running(g)) - 1
        BY <2>0, <4>1, FS_RemoveElement, Zenon
      <4>3. desired'[g] >= desired[g] - 1 /\ desired[g] \in Int /\ desired'[g] \in Int
        BY <1>t, <3>1, <3>3
      <4> QED BY <2>0, <4>2, <4>3
    <3>4. CASE g # grp
      <4>1. Running(g)' = Running(g)
        BY <1>t, <3>1, <3>4 DEF Running
      <4>2. desired'[g] = desired[g]
        BY <1>t, <3>1, <3>4
      <4> QED BY <2>0, <4>1, <4>2
    <3> QED BY <3>3, <3>4
  <2>4. ASSUME NEW h \in Groups, NEW n \in Node, Launch(h, n)
        PROVE  \A g \in Groups : Cardinality(Running(g)') <= desired'[g]
    <3>1. /\ inst[n] = "unused" /\ inst' = [inst EXCEPT ![n] = "running"]
          /\ asg' = [asg EXCEPT ![n] = h] /\ desired' = desired
          /\ Cardinality(Running(h)) < desired[h]
      BY <2>4 DEF Launch
    <3>2. TAKE g \in Groups
    <3>3. CASE g = h
      <4>1. Running(g)' = Running(g) \cup {n} /\ n \notin Running(g)
        BY <1>t, <3>1, <3>3 DEF Running
      <4>2. Cardinality(Running(g)') = Cardinality(Running(g)) + 1
        BY <2>0, <4>1, FS_AddElement, Zenon
      <4> QED BY <1>t, <2>0, <3>1, <3>3, <4>2
    <3>4. CASE g # h
      <4>1. Running(g)' = Running(g)
        BY <1>t, <3>1, <3>4 DEF Running
      <4> QED BY <2>0, <3>1, <4>1
    <3> QED BY <3>3, <3>4
  <2>5. CASE Environment
    <3>1. ASSUME NEW n \in Node, Join(n) \/ Fail(n) \/ Recover(n) \/ RemoveNode(n)
          PROVE  UNCHANGED <<inst, asg, desired>>
      BY <3>1 DEF Join, Fail, Recover, RemoveNode
    <3> QED BY <2>1, <2>4, <2>5, <3>1, NothingFails DEF Environment
  <2>6. CASE Controller /\ ~SetSize /\ ~Terminate
    <3>1. UNCHANGED <<inst, asg, desired>>
      BY <2>6, NothingFails, Zenon
         DEF Controller, RunOnceHealthy, vars, RunOnce, Confirm, RepairGroup, RepairDone, SlicePanics,
             GroupDone, AsgRepairNodes, Expand, CountReady, ReadSize, AwaitReady, BeginDelete,
             BeginDeleteLoop, DeleteLoopEnds, AwaitDeleted, MarkToBeDeleted, Drain, FindGroup,
             cluster
    <3> QED BY <2>1, <3>1
  <2>7. CASE UNCHANGED vars
    BY <2>1, <2>7 DEF vars, cluster
  <2> QED BY <2>2, <2>3, <2>5, <2>6, <2>7 DEF Next
<1> QED BY <1>1, <1>2 DEF AheadAlive

-----------------------------------------------------------------------------
LEMMA InitPlan == Init => OnPlan
<1> SUFFICES ASSUME Init PROVE OnPlan
  OBVIOUS
<1>1. \A g \in Groups : desired[g] = InitSize[g] + (IF g = grp THEN Offset ELSE 0)
  BY SizeAssumption DEF Init, Offset, InDeleteLoop
<1>2. RoundPlan
  BY DEF Init, RoundPlan, InRound
<1>3. Ahead = {}
  BY DEF Init, Ahead
<1>4. \A g \in Groups : Cardinality(Running(g)) <= desired[g]
  <2>1. TAKE g \in Groups
  <2>2. Running(g) = {n \in Node : InitGroup[n] = g}
    BY GroupsAssumption DEF Init, Running, Groups
  <2> QED BY <2>2, SizeAssumption, InitGroupAssumption DEF Init
<1> QED BY <1>1, <1>2, <1>3, <1>4 DEF OnPlan, AheadAlive

LEMMA NextNeutral ==
    /\ TypeOK /\ TypeOK' /\ BoundsInv /\ SliceMatches /\ NodesFlow /\ NodesFlow'
    /\ NodesLaunched /\ WithinBudget /\ NeutralInv /\ [Next]_vars
    => NeutralInv'
<1> SUFFICES ASSUME TypeOK, TypeOK', BoundsInv, SliceMatches, NodesFlow, NodesFlow',
                    NodesLaunched, WithinBudget, NeutralInv, [Next]_vars, Undisturbed'
             PROVE  OnPlan'
  BY DEF NeutralInv
<1>1. Known
  BY CalmStep DEF NeutralInv, Known
<1> QED BY <1>1, PlanSizes, PlanRound, PlanAhead DEF OnPlan, PlannedSizes

LEMMA NeutralInvariant == Spec => []NeutralInv
<1>1. Init => NeutralInv
  BY InitPlan DEF NeutralInv
<1>2. Spec => []BoundsInv
  BY BoundsInvariant
<1> QED BY <1>1, <1>2, NextNeutral, TypeCorrect, SliceInvariant, FlowInvariant,
           LaunchedInvariant, BudgetInvariant, PTL DEF Spec

(***************************************************************************)
(* For any number of groups and nodes: as long as no call of the           *)
(* controller fails and nobody resizes a group, AsgRepairNodes gives every *)
(* group the size back that it found.                                      *)
(***************************************************************************)
THEOREM RepairIsNeutral == Spec => []SizeRestored
<1>1. NeutralInv => SizeRestored
  <2> SUFFICES ASSUME OnPlan, NEW g \in Groups, ~InRound \/ g # grp
               PROVE  desired[g] = InitSize[g]
    BY DEF NeutralInv, SizeRestored
  <2>1. ~InRound => Offset = 0
    BY DEF InRound, Offset, InDeleteLoop, DeletedNotRegrown
  <2> QED BY <2>1, SizeAssumption DEF OnPlan
<1> QED BY <1>1, NeutralInvariant, PTL

(***************************************************************************)
(* For any number of groups and nodes: an undisturbed AsgRepairNodes adds  *)
(* at most one instance per node it still has to replace, and takes a      *)
(* group below its size only if the group is full, by one instance.        *)
(***************************************************************************)
THEOREM SurgeStaysBounded == Spec => []SurgeBounded
<1>1. TypeOK /\ SliceMatches /\ NodesFlow /\ NeutralInv => SurgeBounded
  <2> SUFFICES ASSUME TypeOK, SliceMatches, NodesFlow, OnPlan, NEW g \in Groups
               PROVE  /\ desired[g] <= InitSize[g] + Cardinality(work)
                      /\ desired[g] >= InitSize[g] - (IF InitSize[g] = MaxSize[g] THEN 1 ELSE 0)
    BY DEF NeutralInv, SurgeBounded
  <2>1. /\ IsFiniteSet(work) /\ Cardinality(work) \in Nat
        /\ Cardinality(rest) \in Nat
        /\ InitSize[g] \in Nat
    BY SubsetCardinality, SizeAssumption DEF TypeOK
  <2>2. CASE g # grp
    BY <2>1, <2>2 DEF OnPlan
  <2>3. CASE g = grp
    <3>1. desired[g] = InitSize[g] + Offset
      BY <2>3 DEF OnPlan
    <3>2. CASE order = "grow"
      <4>1. InDeleteLoop => Cardinality(rest) <= Cardinality(work)
        BY <2>1, FS_Subset DEF InDeleteLoop, NodesFlow, InRound
      <4>2. pc \in {"awaitReady", "delete", "deleteRead"} => inc \in 0 .. Cardinality(work)
        BY DEF SliceMatches, InRound
      <4>3. Offset \in 0 .. Cardinality(work)
        BY <2>1, <3>2, <4>1, <4>2 DEF Offset
      <4> QED BY <2>1, <3>1, <4>3
    <3>3. CASE order = "delete"
      <4>1. Offset \in {-1, 0}
        BY <3>3 DEF Offset
      <4>2. Offset = -1 => InitSize[g] = MaxSize[g]
        BY <2>3, <3>3 DEF Offset, DeletedNotRegrown, OnPlan, RoundPlan, InRound
      <4> QED BY <2>1, <3>1, <4>1, <4>2
    <3> QED BY <3>2, <3>3 DEF TypeOK
  <2> QED BY <2>2, <2>3
<1> QED BY <1>1, NeutralInvariant, TypeCorrect, SliceInvariant, FlowInvariant, PTL

(***************************************************************************)
(* Completeness of a pass: a confirmed node is deleted or still ahead, and *)
(* when RepairNodes returns nothing is ahead.                              *)
(***************************************************************************)
DoneOrAhead ==
    /\ \A n \in Node : inst[n] # "unused" => asg[n] \in Groups
    /\ (Undisturbed /\ todo \cap BadProvider = {}) =>
          \A n \in todo : n \in Ahead \/ inst[n] = "gone"

LEMMA InGroups ==
    TypeOK /\ (\A n \in Node : inst[n] # "unused" => asg[n] \in Groups) /\ [Next]_vars
    => (\A n \in Node : inst[n] # "unused" => asg[n] \in Groups)'
<1> SUFFICES ASSUME TypeOK, \A n \in Node : inst[n] # "unused" => asg[n] \in Groups, [Next]_vars,
                    NEW n \in Node, inst'[n] # "unused"
             PROVE  asg'[n] \in Groups
  OBVIOUS
<1>1. CASE UNCHANGED <<inst, asg>>
  BY <1>1
<1>2. CASE Terminate
  BY <1>2 DEF Terminate, AwsAccepts, AwsTerminate, TypeOK
<1>3. CASE \E g \in Groups : \E m \in Node : Launch(g, m) \/ ScaleIn(g, m)
  BY <1>3 DEF Launch, ScaleIn, Running, TypeOK
<1>4. CASE Next /\ ~Terminate /\ ~\E g \in Groups : \E m \in Node : Launch(g, m) \/ ScaleIn(g, m)
  <2>1. CASE Environment
    BY <1>1, <1>4, <2>1
       DEF Environment, Resize, Join, Fail, Recover, RemoveNode, Crash, cluster
  <2>2. CASE Controller
    BY <1>1, <1>4, <2>2, Zenon
       DEF Controller, RunOnceHealthy, vars, RunOnce, Confirm, RepairGroup, RepairDone, SlicePanics,
           GroupDone, AsgRepairNodes, Expand, CountReady, ReadSize, SetSize, AwaitReady,
           BeginDelete, BeginDeleteLoop, DeleteLoopEnds, AwaitDeleted, SkipNode,
           MarkToBeDeleted, MarkFails, Drain, FindGroup, CleanToBeDeleted, cluster
  <2> QED BY <1>4, <2>1, <2>2 DEF Next
<1> QED BY <1>1, <1>2, <1>3, <1>4 DEF vars, cluster

(* No step brings an instance back. *)
LEMMA GoneForGood ==
    ASSUME TypeOK, [Next]_vars, NEW n \in Node, inst[n] = "gone"
    PROVE  inst'[n] = "gone"
<1> USE DEF cluster
<1>1. CASE RunOnceHealthy \/ UNCHANGED vars
  BY <1>1 DEF RunOnceHealthy, vars
<1>2. CASE RunOnce \/ Confirm \/ RepairGroup \/ RepairDone \/ SlicePanics \/ GroupDone
  BY <1>2 DEF RunOnce, Confirm, RepairGroup, RepairDone, SlicePanics, GroupDone
<1>3. CASE AsgRepairNodes \/ Expand \/ CountReady \/ ReadSize \/ SetSize \/ AwaitReady
  BY <1>3 DEF AsgRepairNodes, Expand, CountReady, ReadSize, SetSize, AwaitReady
<1>4. CASE BeginDelete \/ BeginDeleteLoop \/ DeleteLoopEnds \/ AwaitDeleted
  BY <1>4 DEF BeginDelete, BeginDeleteLoop, DeleteLoopEnds, AwaitDeleted
<1>5. ASSUME NEW m \in Node, SkipNode(m) \/ MarkToBeDeleted(m) \/ MarkFails(m)
      PROVE  inst'[n] = "gone"
  BY <1>5, Zenon DEF SkipNode, MarkToBeDeleted, MarkFails
<1>6. CASE Drain \/ FindGroup \/ CleanToBeDeleted
  BY <1>6 DEF Drain, FindGroup, CleanToBeDeleted
<1>7. CASE Terminate
  <2>1. inst' = [inst EXCEPT ![node] = "gone"] \/ inst' = inst
    BY <1>7 DEF Terminate, AwsTerminate
  <2> QED BY <2>1 DEF TypeOK
<1>8. ASSUME NEW g \in Groups, NEW m \in Node, Launch(g, m) \/ ScaleIn(g, m)
      PROVE  inst'[n] = "gone"
  <2>1. \/ inst[m] = "unused" /\ inst' = [inst EXCEPT ![m] = "running"]
        \/ inst' = [inst EXCEPT ![m] = "gone"]
    BY <1>8 DEF Launch, ScaleIn
  <2> QED BY <2>1 DEF TypeOK
<1>9. ASSUME NEW m \in Node, Join(m) \/ Fail(m) \/ Recover(m) \/ RemoveNode(m)
      PROVE  inst'[n] = "gone"
  BY <1>9 DEF Join, Fail, Recover, RemoveNode
<1>10. CASE Crash \/ \E g \in Groups : \E d \in 0 .. AwsMax[g] : Resize(g, d)
  BY <1>10 DEF Crash, Resize
<1> QED
  BY <1>1, <1>2, <1>3, <1>4, <1>5, <1>6, <1>7, <1>8, <1>9, <1>10, Zenon
     DEF Next, Controller, Environment

(* The list of nodes to repair is fixed for the duration of a pass. *)
LEMMA PlanKept ==
    ASSUME [Next]_vars, ~RunOnce, ~Confirm, ~RepairDone, ~SlicePanics, ~Crash
    PROVE  todo' = todo
<1> USE DEF samples, controller
<1>1. CASE RunOnceHealthy \/ UNCHANGED vars
  BY <1>1 DEF RunOnceHealthy, vars
<1>2. CASE RepairGroup \/ GroupDone \/ AsgRepairNodes \/ Expand \/ CountReady
  BY <1>2 DEF RepairGroup, GroupDone, AsgRepairNodes, Expand, CountReady
<1>3. CASE ReadSize \/ SetSize \/ AwaitReady \/ BeginDelete \/ BeginDeleteLoop
  BY <1>3 DEF ReadSize, SetSize, AwaitReady, BeginDelete, BeginDeleteLoop
<1>4. ASSUME NEW m \in Node, SkipNode(m) \/ MarkToBeDeleted(m) \/ MarkFails(m)
      PROVE  todo' = todo
  BY <1>4, Zenon DEF SkipNode, MarkToBeDeleted, MarkFails
<1>5. CASE Drain \/ FindGroup \/ Terminate \/ CleanToBeDeleted \/ DeleteLoopEnds \/ AwaitDeleted
  BY <1>5
     DEF Drain, FindGroup, Terminate, CleanToBeDeleted, DeleteLoopEnds, AwaitDeleted
<1>6. CASE Environment
  BY <1>6, Zenon DEF Environment, Launch, ScaleIn, Resize, Join, Fail, Recover, RemoveNode
<1> QED BY <1>1, <1>2, <1>3, <1>4, <1>5, <1>6 DEF Next, Controller

(* Undisturbed, a node leaves those ahead only by being deleted. *)
LEMMA AheadUntilDeleted ==
    ASSUME Known, [Next]_vars, ~RunOnce, ~Confirm, ~RepairDone, ~SlicePanics,
           todo \cap BadProvider = {},
           NEW n \in Ahead
    PROVE  todo' = todo /\ (n \in Ahead' \/ inst'[n] = "gone")
<1> DEFINE Goal == todo' = todo /\ (n \in Ahead' \/ inst'[n] = "gone")
<1> SUFFICES Goal
  OBVIOUS
<1>0. /\ TypeOK /\ TypeOK' /\ NodesFlow /\ NodesFlow' /\ RoundPlan /\ RoundPlan'
      /\ inst[n] = "running" /\ n \in todo /\ n \in Node
  BY PlanRound, Zenon DEF Known, OnPlan, AheadAlive, Ahead, TypeOK
<1> USE <1>0 DEF Ahead, InDeleteLoop, BatchDeleted, InRound, Deleting, cluster, round,
                 samples, controller
<1>1. CASE RunOnceHealthy \/ UNCHANGED vars
  BY <1>1, Zenon DEF RunOnceHealthy, vars
<1>2. CASE RepairGroup
  <2>1. PICK res \in SUBSET todo : AsgNodes(grp, todo, res) /\ work' = res
    BY <1>2, Zenon DEF RepairGroup
  <2>2. res \in NodesOfAsg(grp, todo)
    <3>1. ~Spend("fault")
      BY Zenon DEF Known, Calm
    <3> QED BY <2>1, <3>1 DEF AsgNodes
  <2>3. asg[n] = grp => n \in res
    BY <2>2 DEF NodesOfAsg
  <2> QED BY <1>2, <2>1, <2>3 DEF RepairGroup, NodesFlow
<1>3. CASE GroupDone
  <2>1. /\ pc = "repair" /\ work = {} /\ pc' = "group" /\ grp' = grp + 1
        /\ UNCHANGED <<inst, asg, todo>>
    BY <1>3 DEF GroupDone
  <2>2. asg[n] \in Int /\ grp \in Int
    BY GroupsAssumption DEF TypeOK, Groups
  <2>3. batch' = batch /\ rest = {}
    BY <1>3, <2>1 DEF GroupDone, NodesFlow
  <2>4. asg[n] > grp
    BY <2>1, <2>3
  <2> QED BY <2>1, <2>2, <2>4
<1>4. CASE AsgRepairNodes
  BY <1>4 DEF AsgRepairNodes, NodesFlow
<1>5. CASE Expand \/ CountReady
  BY <1>5, Zenon DEF Expand, CountReady, NodesFlow, RoundPlan
<1>6. CASE ReadSize \/ SetSize \/ AwaitReady
  <2>1. /\ pc \in {"readSize", "setSize", "awaitReady"}
        /\ UNCHANGED <<cluster, todo, grp, order, batch, rest>>
        /\ \/ pc' \in {"setSize", "awaitReady"} /\ work' = work
           \/ pc' = "delete" /\ order = "grow" /\ work' = work
           \/ pc' = "repair" /\ order # "grow" /\ work' = work \ batch
    BY <1>6, Zenon DEF ReadSize, SetSize, AwaitReady, ReturnFromIncrease, NextRound
  <2> QED BY <2>1 DEF NodesFlow, TypeOK
<1>7. CASE BeginDelete \/ BeginDeleteLoop
  BY <1>7, Zenon DEF BeginDelete, BeginDeleteLoop, NodesFlow
<1>8. CASE DeleteLoopEnds
  BY <1>8 DEF DeleteLoopEnds, NodesFlow
<1>9. CASE AwaitDeleted
  BY <1>9, Zenon DEF AwaitDeleted, ReturnFromDelete, NextRound, NodesFlow, TypeOK
<1>10. ASSUME NEW m \in Node, MarkToBeDeleted(m) PROVE Goal
  BY <1>10, Zenon DEF MarkToBeDeleted, NodesFlow
<1>11. CASE Drain \/ FindGroup
  BY <1>11, Zenon DEF Drain, FindGroup, NodesFlow, RoundPlan
<1>12. CASE Terminate
  <2>1. /\ node \in rest /\ rest' = rest \ {node} /\ pc = "terminate" /\ pc' = "deleteLoop"
        /\ inst' = [inst EXCEPT ![node] = "gone"]
        /\ UNCHANGED <<asg, status, todo, grp, order, inc, batch, work>>
    BY <1>12, CalmTerminate
  <2>2. n = node => inst'[n] = "gone"
    BY <2>1 DEF TypeOK
  <2> QED BY <2>1, <2>2
<1>13. CASE Environment
  <2>1. UNCHANGED controller
    BY <1>13, NothingFails, Zenon DEF Environment, Launch, Join, Fail, Recover, RemoveNode
  <2>2. asg'[n] = asg[n]
    BY <1>13, NothingFails, Zenon
       DEF Environment, Launch, Join, Fail, Recover, RemoveNode, TypeOK
  <2> QED BY <2>1, <2>2
<1> QED BY <1>1, <1>2, <1>3, <1>4, <1>5, <1>6, <1>7, <1>8, <1>9, <1>10, <1>11, <1>12, <1>13,
           NothingFails, Zenon DEF Next, Controller

LEMMA NextDone ==
    /\ TypeOK /\ TypeOK' /\ BoundsInv /\ SliceMatches /\ NodesFlow /\ NodesFlow'
    /\ NodesLaunched /\ WithinBudget /\ NeutralInv /\ DoneOrAhead /\ [Next]_vars
    => DoneOrAhead'
<1> SUFFICES ASSUME TypeOK, TypeOK', BoundsInv, SliceMatches, NodesFlow, NodesFlow',
                    NodesLaunched, WithinBudget, NeutralInv, DoneOrAhead, [Next]_vars
             PROVE  DoneOrAhead'
  BY Zenon
<1>1. (\A n \in Node : inst[n] # "unused" => asg[n] \in Groups)'
  BY InGroups DEF DoneOrAhead
<1>2. ASSUME Undisturbed', todo' \cap BadProvider = {}, NEW n \in todo'
      PROVE  n \in Ahead' \/ inst'[n] = "gone"
  <2>1. Undisturbed /\ Known
    BY <1>2, CalmStep DEF NeutralInv, Known
  <2>2. CASE Confirm
    <3>1. /\ n \in NotReadyNodes /\ n \in Node /\ pc' = "group" /\ grp' = 1
          /\ UNCHANGED <<inst, asg>>
      BY <1>2, <2>2, Zenon DEF Confirm, ForgetPass, CommonNodes, NotReadyNodes, cluster
    <3>2. asg'[n] \in Groups
      BY <1>1, <3>1 DEF NotReadyNodes, NodesLaunched
    <3> QED BY <1>2, <3>1, <3>2, GroupsAssumption DEF Ahead, Groups
  <2>3. CASE RunOnce \/ RepairDone \/ SlicePanics
    BY <1>2, <2>3, Zenon DEF RunOnce, RepairDone, SlicePanics, ForgetPass, NodesFlow
  <2>4. CASE ~Confirm /\ ~RunOnce /\ ~RepairDone /\ ~SlicePanics
    <3>1. todo' = todo
      BY <2>1, <2>4, NothingFails, PlanKept
    <3>2. CASE n \in Ahead
      BY <1>2, <2>1, <2>4, <3>1, <3>2, AheadUntilDeleted
    <3>3. CASE inst[n] = "gone"
      <4>1. n \in Node
        BY <1>2 DEF TypeOK
      <4> QED BY <3>3, <4>1, GoneForGood
    <3> QED BY <1>2, <2>1, <3>1, <3>2, <3>3, Zenon DEF DoneOrAhead
  <2> QED BY <2>2, <2>3, <2>4
<1> QED BY <1>1, <1>2 DEF DoneOrAhead

(***************************************************************************)
(* For any number of groups and nodes: an undisturbed RepairNodes returns  *)
(* only when every node it was called with has been deleted.               *)
(***************************************************************************)
THEOREM PassReplacesAll == Spec => ReplacedOnReturn
<1> DEFINE Step == RepairDone /\ Undisturbed /\ todo \cap BadProvider = {} =>
                      \A n \in todo : inst[n] = "gone"
<1>1. Init => DoneOrAhead
  BY InitGroupAssumption DEF Init, DoneOrAhead
<1>2. Spec => []BoundsInv
  BY BoundsInvariant
<1>3. Spec => []DoneOrAhead
  BY <1>1, <1>2, NextDone, NeutralInvariant, TypeCorrect, SliceInvariant, FlowInvariant,
     LaunchedInvariant, BudgetInvariant, PTL DEF Spec
<1>4. TypeOK /\ NodesFlow /\ DoneOrAhead => Step
  <2> SUFFICES ASSUME TypeOK, NodesFlow, DoneOrAhead, RepairDone, Undisturbed,
                      todo \cap BadProvider = {}, NEW n \in todo, n \in Ahead
               PROVE  FALSE
    BY DEF DoneOrAhead
  <2>1. pc = "group" /\ grp = NGroups + 1 /\ work = {} /\ rest = {} /\ n \in Node
    BY GroupsAssumption DEF RepairDone, NodesFlow, Deleting, TypeOK
  <2>2. asg[n] \in Groups \cup {0}
    BY <2>1 DEF TypeOK
  <2> QED BY <2>1, <2>2, GroupsAssumption DEF Ahead, Groups
<1>5. TypeOK /\ NodesFlow /\ DoneOrAhead => [Step]_vars
  BY <1>4
<1> QED BY <1>3, <1>5, TypeCorrect, FlowInvariant, PTL DEF ReplacedOnReturn
===============================================================================
