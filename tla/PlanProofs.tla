------------------------------ MODULE PlanProofs ------------------------------
(***************************************************************************)
(* How AsgRepairNodes gets on.  Its slices are in range and, undisturbed,  *)
(* not empty.  The plan an undisturbed repair follows: which size the      *)
(* group in repair has at each point of a round, and which nodes are still *)
(* to be deleted.  Proof that no step departs from the sizes of the plan.  *)
(***************************************************************************)
EXTENDS NodeRepairProofs

(***************************************************************************)
(* The slice of a round.  CalcExpandSize never exceeds the nodes there are *)
(* and is negative only for a group above its maximum.                     *)
(***************************************************************************)
SliceMatches ==
    InRound => /\ inc \in 0 .. Cardinality(work)
               /\ batch \subseteq work
               /\ Cardinality(batch) = inc

LEMMA NextSlice ==
    TypeOK /\ SliceMatches /\ [Next]_vars => SliceMatches'
<1> SUFFICES ASSUME TypeOK, SliceMatches, [Next]_vars PROVE SliceMatches'
  OBVIOUS
<1> USE DEF SliceMatches, InRound, round, controller
<1>1. CASE AsgRepairNodes
  <2>1. work \subseteq Node
    BY DEF TypeOK
  <2>2. CASE pc' = "calc"
    BY <2>2
  <2>3. ASSUME NEW n \in work, inc' = 1, batch' = {n}
        PROVE  SliceMatches'
    <3>1. Cardinality({n}) = 1 /\ IsFiniteSet({n})
      BY FS_Singleton, Zenon
    <3>2. Cardinality({n}) <= Cardinality(work)
      BY <2>1, <3>1, SubsetCardinality, FS_Subset
    <3>3. work' = work
      BY <1>1 DEF AsgRepairNodes
    <3> QED BY <2>1, <2>3, <3>1, <3>2, <3>3, SubsetCardinality
  <2> QED BY <1>1, <2>2, <2>3 DEF AsgRepairNodes
<1>2. CASE Expand
  <2>1. PICK r \in {desired[grp], -1} :
           TargetSize(grp, r) /\ inc' = CalcExpandSize(grp, r, Cardinality(work))
    BY <1>2 DEF Expand
  <2>2. grp \in Groups /\ Cardinality(work) \in Nat
    BY <1>2, SubsetCardinality DEF Expand, TypeOK
  <2>3. r \in Int
    BY <2>2 DEF TypeOK
  <2>4. PICK b \in SUBSET work : Cardinality(b) = inc' /\ batch' = b
    BY <1>2 DEF Expand
  <2>5. Cardinality(b) \in Nat /\ inc' <= Cardinality(work)
    BY <2>1, <2>2, <2>3, SubsetCardinality, SizeAssumption DEF CalcExpandSize, TypeOK
  <2>6. work' = work
    BY <1>2 DEF Expand
  <2> QED BY <2>4, <2>5, <2>6
<1>3. CASE CountReady \/ ReadSize \/ SetSize \/ AwaitReady
  BY <1>3 DEF CountReady, ReadSize, SetSize, AwaitReady, ReturnFromIncrease, NextRound
<1>4. CASE BeginDelete \/ BeginDeleteLoop \/ DeleteLoopEnds \/ AwaitDeleted
  BY <1>4 DEF BeginDelete, BeginDeleteLoop, DeleteLoopEnds, AwaitDeleted,
              ReturnFromDelete, NextRound
<1>5. ASSUME NEW n \in Node, SkipNode(n) \/ MarkToBeDeleted(n) \/ MarkFails(n)
      PROVE  SliceMatches'
  BY <1>5 DEF SkipNode, MarkToBeDeleted, MarkFails, ReturnFromDelete, NextRound
<1>6. CASE Drain \/ FindGroup \/ Terminate \/ CleanToBeDeleted
  BY <1>6 DEF Drain, FindGroup, Terminate, CleanToBeDeleted, ReturnFromDelete, NextRound
<1>7. CASE RunOnce \/ Confirm \/ RepairGroup \/ RepairDone \/ SlicePanics \/ GroupDone
  BY <1>7 DEF RunOnce, Confirm, RepairGroup, RepairDone, SlicePanics, GroupDone, ForgetPass
<1>8. CASE RunOnceHealthy \/ UNCHANGED vars
  BY <1>8 DEF RunOnceHealthy, vars
<1>9. CASE Environment
  BY <1>9 DEF Environment, Launch, ScaleIn, Resize, Join, Fail, Recover, RemoveNode, Crash,
              ForgetPass
<1> QED BY <1>1, <1>2, <1>3, <1>4, <1>5, <1>6, <1>7, <1>8, <1>9 DEF Next, Controller

LEMMA SliceInvariant == Spec => []SliceMatches
<1>1. Init => SliceMatches
  BY DEF Init, SliceMatches, InRound
<1> QED BY <1>1, NextSlice, TypeCorrect, PTL DEF Spec

(***************************************************************************)
(* Between the two readings of AsgRepairNodes there is a node to repair,   *)
(* and, if the first one did not fail and nobody resizes the group, room   *)
(* for a new one.                                                          *)
(***************************************************************************)
RoomToGrow ==
    pc = "calc" => /\ work # {}
                   /\ Untouched({"resize", "exceed", "fault"}) => desired[grp] < MaxSize[grp]

LEMMA NextRoom ==
    TypeOK /\ WithinBudget /\ RoomToGrow /\ [Next]_vars => RoomToGrow'
<1> SUFFICES ASSUME TypeOK, WithinBudget, RoomToGrow, [Next]_vars, pc' = "calc"
             PROVE  RoomToGrow'
  BY DEF RoomToGrow
<1>0. budget \in [Disturbance -> Nat] /\ Budget \in [Disturbance -> Nat]
  BY BoundAssumption DEF TypeOK
<1> USE DEF round, controller
<1>1. CASE AsgRepairNodes
  <2>1. grp \in Groups /\ desired[grp] \in Int /\ MaxSize[grp] \in Nat
    BY <1>1, SizeAssumption DEF AsgRepairNodes, TypeOK
  <2>2. PICK r \in {desired[grp], -1} : TargetSize(grp, r) /\ ~DeleteFirst(grp, r)
    BY <1>1 DEF AsgRepairNodes
  <2>3. work' # {} /\ desired' = desired /\ grp' = grp
    BY <1>1 DEF AsgRepairNodes
  <2>4. CASE r = desired[grp] /\ UNCHANGED budget
    BY <2>1, <2>2, <2>3, <2>4 DEF DeleteFirst, RoomToGrow
  <2>5. CASE Spend("fault")
    <3>1. budget'["fault"] < budget["fault"] /\ budget'["fault"] \in Nat
      BY <1>0, <2>5, SpendFacts DEF Disturbance
    <3>2. ~Untouched({"resize", "exceed", "fault"})'
      BY <1>0, <3>1 DEF Untouched, WithinBudget, Disturbance
    <3> QED BY <2>3, <3>2 DEF RoomToGrow
  <2> QED BY <2>2, <2>4, <2>5 DEF TargetSize
<1>2. ASSUME NEW g \in Groups, NEW d \in 0 .. AwsMax[g], Resize(g, d) PROVE RoomToGrow'
  <2>1. (Spend("resize") \/ Spend("exceed")) /\ pc' = pc /\ work' = work
    BY <1>2 DEF Resize
  <2>2. \E k \in {"resize", "exceed"} : budget'[k] < budget[k] /\ budget'[k] \in Nat
    BY <1>0, <2>1, SpendFacts DEF Disturbance
  <2>3. ~Untouched({"resize", "exceed", "fault"})'
    BY <1>0, <2>2 DEF Untouched, WithinBudget, Disturbance
  <2> QED BY <2>1, <2>3 DEF RoomToGrow
<1>3. CASE ~AsgRepairNodes /\ ~ \E g \in Groups : \E d \in 0 .. AwsMax[g] : Resize(g, d)
  <2>1. pc = "calc" /\ UNCHANGED <<work, desired, grp>>
    <3>1. CASE Environment
      BY <1>3, <3>1 DEF Environment, Launch, ScaleIn, Join, Fail, Recover, RemoveNode, Crash,
                        ForgetPass
    <3>2. CASE RunOnceHealthy \/ UNCHANGED vars
      BY <3>2 DEF RunOnceHealthy, vars
    <3>3. CASE RunOnce \/ Confirm \/ RepairGroup \/ RepairDone \/ GroupDone \/ Expand
               \/ SlicePanics
      BY <3>3 DEF RunOnce, Confirm, RepairGroup, RepairDone, GroupDone,
                  Expand, SlicePanics, ForgetPass
    <3>4. CASE CountReady \/ ReadSize \/ SetSize \/ AwaitReady
      BY <3>4 DEF CountReady, ReadSize, SetSize, AwaitReady, ReturnFromIncrease, NextRound
    <3>5. CASE BeginDelete \/ BeginDeleteLoop \/ DeleteLoopEnds \/ AwaitDeleted
      BY <3>5 DEF BeginDelete, BeginDeleteLoop, DeleteLoopEnds, AwaitDeleted,
                  ReturnFromDelete, NextRound
    <3>6. ASSUME NEW n \in Node, SkipNode(n) \/ MarkToBeDeleted(n) \/ MarkFails(n)
          PROVE  FALSE
      BY <3>6 DEF SkipNode, MarkToBeDeleted, MarkFails, ReturnFromDelete, NextRound
    <3>7. CASE Drain \/ FindGroup \/ Terminate \/ CleanToBeDeleted
      BY <3>7 DEF Drain, FindGroup, Terminate, CleanToBeDeleted, ReturnFromDelete, NextRound
    <3> QED BY <1>3, <3>1, <3>2, <3>3, <3>4, <3>5, <3>6, <3>7 DEF Next, Controller
  <2>2. Untouched({"resize", "exceed", "fault"})' => Untouched({"resize", "exceed", "fault"})
    <3>1. \A k \in {"resize", "exceed", "fault"} :
             /\ budget'[k] <= budget[k] /\ budget[k] <= Budget[k]
             /\ budget[k] \in Nat /\ budget'[k] \in Int /\ Budget[k] \in Nat
      BY <1>0, BudgetShrinks, NextType DEF WithinBudget, Disturbance, TypeOK
    <3> QED BY <3>1 DEF Untouched
  <2> QED BY <2>1, <2>2 DEF RoomToGrow
<1> QED BY <1>1, <1>2, <1>3

LEMMA RoomInvariant == Spec => []RoomToGrow
<1>1. Init => RoomToGrow
  BY DEF Init, RoomToGrow
<1> QED BY <1>1, NextRoom, TypeCorrect, BudgetInvariant, PTL DEF Spec

(***************************************************************************)
(* AsgRepairNodes slices within bounds, although it reads the size twice   *)
(* and either reading may fail, as long as nobody resizes the group past   *)
(* the configured limits; if nothing of the kind happens, every slice has  *)
(* a node.                                                                 *)
(***************************************************************************)
THEOREM SlicesStayInBounds == Spec => []SliceInBounds
<1>1. TypeOK /\ BoundsInv /\ SliceMatches /\ RoomToGrow => SliceInBounds
  <2> SUFFICES ASSUME TypeOK, BoundsInv, RoomToGrow, pc = "calc"
               PROVE  LET incSize == CalcExpandSize(grp, desired[grp], Cardinality(work))
                      IN  /\ incSize <= Cardinality(work)
                          /\ LimitsKept => incSize >= 0
                          /\ Untouched({"resize", "exceed", "fault"}) => incSize > 0
    BY DEF SliceInBounds, SliceMatches
  <2>1. grp \in Groups /\ desired[grp] \in Int /\ MaxSize[grp] \in Nat
    BY SizeAssumption DEF TypeOK
  <2>2. LimitsKept => desired[grp] <= MaxSize[grp]
    BY <2>1 DEF BoundsInv, WithinLimits
  <2>3. Cardinality(work) \in Nat
    BY SubsetCardinality DEF TypeOK
  <2>4. Cardinality(work) > 0
    <3>1. IsFiniteSet(work)
      BY NodeAssumption, FS_Subset DEF TypeOK
    <3> QED BY <2>3, <3>1, FS_EmptySet DEF RoomToGrow
  <2> QED BY <2>1, <2>2, <2>3, <2>4 DEF CalcExpandSize, RoomToGrow
<1> QED BY <1>1, TypeCorrect, BoundsInvariant, SliceInvariant, RoomInvariant, PTL

-----------------------------------------------------------------------------
(***************************************************************************)
(* Neutrality.  Undisturbed, the desired capacity of the group in repair   *)
(* differs from what it was at the start by an offset that depends only on *)
(* where the round is: growing first adds inc, then every termination      *)
(* takes one back; deleting first takes one (unless the group has a fixed  *)
(* size, where the instance is restarted) and then puts it back.           *)
(***************************************************************************)
DeletedNotRegrown ==
    \/ pc \in {"awaitDeleted", "increase", "readSize", "setSize"}
    \/ pc = "deleteLoop" /\ rest = {}

InDeleteLoop == pc \in {"deleteLoop", "drain", "findGroup", "terminate"}

Offset ==
    IF order = "grow"
      THEN IF pc \in {"awaitReady", "delete", "deleteRead"} THEN inc
           ELSE IF InDeleteLoop THEN Cardinality(rest) ELSE 0
      ELSE IF MinSize[grp] < MaxSize[grp] /\ DeletedNotRegrown THEN -1 ELSE 0

(* The nodes of this pass whose deletion is still ahead: those of the      *)
(* groups to come, and those of this group not yet deleted.                *)
BatchDeleted ==
    \/ pc = "awaitDeleted"
    \/ order = "delete" /\ pc \in {"increase", "readSize", "setSize", "awaitReady"}

Ahead ==
    {n \in todo :
       \/ asg[n] > grp
       \/ asg[n] = grp /\ pc = "group"
       \/ n \in work \ batch
       \/ n \in rest
       \/ n \in work /\ ~InDeleteLoop /\ ~BatchDeleted}

(* What a round relies on: the branch was chosen by the size the group     *)
(* still has, the sizes read are current, the nodes ahead are alive, AWS   *)
(* has no surplus instance to terminate, and so no deletion ever fails.    *)
RoundPlan ==
    /\ (InRound /\ order = "delete") => InitSize[grp] = MaxSize[grp] /\ inc = 1
    /\ (pc = "calc" /\ order = "grow") => InitSize[grp] < MaxSize[grp]
    /\ (InRound /\ order = "grow") => inc >= 1 /\ InitSize[grp] + inc <= MaxSize[grp]
    /\ pc \in {"setSize", "terminate"} => size = desired[grp]
    /\ pc = "calc" => order = "grow" /\ work # {}
    /\ pc # "cleanup"

AheadAlive ==
    /\ \A n \in Ahead : inst[n] = "running" /\ status[n] # "absent"
    /\ \A g \in Groups : Cardinality(Running(g)) <= desired[g]

OnPlan ==
    /\ \A g \in Groups : desired[g] = InitSize[g] + (IF g = grp THEN Offset ELSE 0)
    /\ RoundPlan
    /\ AheadAlive

NeutralInv == Undisturbed => OnPlan

(* A node object belongs to an instance that has been launched. *)
NodesLaunched ==
    /\ \A n \in Node : status[n] # "absent" => inst[n] # "unused"
    /\ \A n \in notReady : inst[n] # "unused"

-----------------------------------------------------------------------------
LEMMA NextLaunched ==
    TypeOK /\ NodesLaunched /\ [Next]_vars => NodesLaunched'
<1> SUFFICES ASSUME TypeOK, NodesLaunched, [Next]_vars PROVE NodesLaunched'
  OBVIOUS
<1> USE DEF TypeOK, NodesLaunched, cluster, samples, controller
<1>1. CASE Environment
  <2>1. ASSUME NEW g \in Groups, NEW n \in Node, Launch(g, n) \/ ScaleIn(g, n)
        PROVE  NodesLaunched'
    BY <2>1 DEF Launch, ScaleIn
  <2>2. ASSUME NEW n \in Node, Join(n) \/ Fail(n) \/ Recover(n) \/ RemoveNode(n)
        PROVE  NodesLaunched'
    BY <2>2 DEF Join, Fail, Recover, RemoveNode
  <2>3. CASE Crash \/ \E g \in Groups : \E d \in 0 .. AwsMax[g] : Resize(g, d)
    BY <2>3 DEF Crash, ForgetPass, Resize
  <2> QED BY <1>1, <2>1, <2>2, <2>3 DEF Environment
<1>2. CASE RunOnceHealthy \/ UNCHANGED vars
  BY <1>2 DEF RunOnceHealthy, vars
<1>3. CASE RunOnce \/ Confirm \/ RepairGroup \/ RepairDone \/ SlicePanics \/ GroupDone
  BY <1>3 DEF RunOnce, NotReadyNodes, Confirm, RepairGroup, RepairDone,
              SlicePanics, GroupDone, ForgetPass
<1>4. CASE AsgRepairNodes \/ Expand \/ CountReady \/ ReadSize \/ SetSize \/ AwaitReady
  BY <1>4 DEF AsgRepairNodes, Expand, CountReady, ReadSize, SetSize, AwaitReady
<1>5. CASE BeginDelete \/ BeginDeleteLoop \/ DeleteLoopEnds \/ AwaitDeleted
  BY <1>5 DEF BeginDelete, BeginDeleteLoop, DeleteLoopEnds, AwaitDeleted
<1>6. ASSUME NEW n \in Node, SkipNode(n) \/ MarkToBeDeleted(n) \/ MarkFails(n)
      PROVE  NodesLaunched'
  BY <1>6 DEF SkipNode, MarkToBeDeleted, MarkFails
<1>7. CASE Drain \/ FindGroup \/ CleanToBeDeleted
  BY <1>7 DEF Drain, FindGroup, CleanToBeDeleted
<1>8. CASE Terminate
  BY <1>8 DEF Terminate, AwsTerminate
<1> QED BY <1>1, <1>2, <1>3, <1>4, <1>5, <1>6, <1>7, <1>8 DEF Next, Controller

LEMMA LaunchedInvariant == Spec => []NodesLaunched
<1>1. Init => NodesLaunched
  BY DEF Init, NodesLaunched
<1> QED BY <1>1, NextLaunched, TypeCorrect, PTL DEF Spec

(* A step in which none of the disturbances happens that could derail a    *)
(* round.                                                                  *)
Calm ==
    /\ Guarded = {}
    /\ ~Spend("resize") /\ ~Spend("exceed") /\ ~Spend("crash") /\ ~Spend("fault")
    /\ ~Spend("lost") /\ ~Spend("unclean") /\ ~Spend("linger")

LEMMA CalmStep ==
    ASSUME TypeOK, TypeOK', WithinBudget, [Next]_vars, Undisturbed'
    PROVE  Undisturbed /\ Calm
<1> DEFINE K == {"resize", "exceed", "crash", "fault", "lost", "unclean", "linger"}
<1>1. Untouched(K)'
  BY DEF Undisturbed
<1>2. K \subseteq Disturbance
  BY DEF Disturbance
<1>3. Untouched(K) /\ \A k \in K : budget'[k] = budget[k]
  BY <1>1, <1>2, UntouchedBefore
<1>4. \A k \in K : k \in Disturbance /\ k # "any"
  BY <1>2
<1>5. \A k \in K : ~Spend(k)
  BY <1>3, <1>4, NotSpent
<1> QED BY <1>3, <1>5 DEF Undisturbed, Calm

(* What the rest of the proof knows about a step. *)
Known ==
    /\ TypeOK /\ TypeOK' /\ BoundsInv /\ SliceMatches /\ NodesFlow /\ NodesFlow'
    /\ NodesLaunched /\ OnPlan /\ Calm

(* The sizes read are the real ones, and the lookups succeed. *)
LEMMA CalmReads ==
    ASSUME Known
    PROVE  /\ \A g, r : TargetSize(g, r) => r = desired[g]
           /\ \A g, S, res : AsgNodes(g, S, res) => res \subseteq {n \in S : asg[n] = g}
BY AsgNodesFacts DEF Known, Calm, TargetSize, TypeOK

(* On plan and in calm, nothing is skipped, abandoned, cleaned up or       *)
(* scaled in.                                                              *)
LEMMA NothingFails ==
    ASSUME Known
    PROVE  /\ \A n \in Node : ~SkipNode(n) /\ ~MarkFails(n)
           /\ ~CleanToBeDeleted /\ ~Crash
           /\ \A g \in Groups : \A n \in Node : ~ScaleIn(g, n)
           /\ \A g \in Groups : \A d : ~Resize(g, d)
<1> USE DEF Known, Calm, OnPlan
<1>1. \A n \in Node : ~SkipNode(n)
  BY DEF SkipNode, Refused
<1>2. ASSUME NEW n \in Node, MarkFails(n) PROVE FALSE
  <2>1. n \in Ahead
    BY <1>2 DEF MarkFails, Ahead, NodesFlow, InRound, Deleting
  <2> QED BY <1>2, <2>1 DEF MarkFails, AheadAlive
<1>3. ~CleanToBeDeleted /\ ~Crash
  BY DEF CleanToBeDeleted, Crash, RoundPlan
<1>4. ASSUME NEW g \in Groups, NEW n \in Node, ScaleIn(g, n) PROVE FALSE
  <2>1. Cardinality(Running(g)) <= desired[g] /\ Cardinality(Running(g)) \in Nat
    BY SubsetCardinality DEF AheadAlive, Running
  <2> QED BY <1>4, <2>1 DEF ScaleIn, TypeOK
<1>5. \A g \in Groups : \A d : ~Resize(g, d)
  BY DEF Resize
<1> QED BY <1>1, <1>2, <1>3, <1>4, <1>5

(* AWS accepts the termination of the node at hand, which leaves the loop; *)
(* only a group at its minimum keeps its size.                             *)
LEMMA CalmTerminate ==
    ASSUME Known, Terminate
    PROVE  /\ node \in rest /\ node \in Node /\ node \in Ahead
           /\ asg[node] = grp /\ grp \in Groups
           /\ size = desired[grp]
           /\ rest' = rest \ {node}
           /\ pc = "terminate" /\ pc' = "deleteLoop"
           /\ inst[node] = "running"
           /\ inst' = [inst EXCEPT ![node] = "gone"]
           /\ desired' = IF desired[grp] <= MinSize[grp] THEN desired
                         ELSE [desired EXCEPT ![grp] = @ - 1]
           /\ UNCHANGED <<asg, status, todo, grp, order, inc, batch, work>>
<1> USE DEF Known, Calm, OnPlan
<1>1. pc = "terminate" /\ size = desired[grp] /\ grp \in Groups
  BY DEF Terminate, RoundPlan, TypeOK
<1>2. node \in rest /\ node \in Node /\ node \in work /\ node \in todo
  BY <1>1 DEF NodesFlow, Deleting, InRound, TypeOK
<1>3. node \in Ahead /\ asg[node] = grp
  BY <1>2 DEF Ahead, NodesFlow
<1>4. inst[node] = "running"
  BY <1>3 DEF AheadAlive
<1>5. AwsAccepts(grp, node, ~MustRestart(grp, size))
  BY <1>1, <1>4, SizeAssumption, LimitsAssumption DEF AwsAccepts, MustRestart, TypeOK
<1>6. /\ AwsTerminate(grp, node, ~MustRestart(grp, size))
      /\ rest' = rest \ {node}
      /\ pc' = "deleteLoop"
  BY <1>5 DEF Terminate
<1>7. desired' = IF desired[grp] <= MinSize[grp] THEN desired
                 ELSE [desired EXCEPT ![grp] = @ - 1]
  BY <1>1, <1>6 DEF AwsTerminate, MustRestart
<1>8. inst' = [inst EXCEPT ![node] = "gone"]
  BY <1>6 DEF AwsTerminate
<1>9. UNCHANGED <<asg, status, todo, grp, order, inc, batch, work>>
  BY DEF Terminate, samples, round
<1> QED BY <1>1, <1>2, <1>3, <1>4, <1>6, <1>7, <1>8, <1>9

(* The size of the group being repaired, and of the others. *)
PlannedSizes == \A g \in Groups : desired[g] = InitSize[g] + (IF g = grp THEN Offset ELSE 0)

(* Steps that leave sizes alone and do not move the offset. *)
LEMMA SameSizes ==
    ASSUME PlannedSizes, UNCHANGED desired,
           \/ grp' = grp /\ Offset' = Offset
           \/ Offset = 0 /\ Offset' = 0
    PROVE  PlannedSizes'
BY DEF PlannedSizes

LEMMA PlanSizes ==
    ASSUME Known, [Next]_vars
    PROVE  PlannedSizes'
<1> USE DEF Known, Offset, InDeleteLoop, DeletedNotRegrown, round, samples, controller
<1>0. PlannedSizes
  BY DEF OnPlan, PlannedSizes
<1>1. CASE RunOnceHealthy \/ UNCHANGED vars
  BY <1>0, <1>1, SameSizes DEF RunOnceHealthy, vars
<1>2. CASE RunOnce \/ Confirm \/ RepairGroup \/ RepairDone \/ SlicePanics \/ GroupDone
  <2>1. UNCHANGED desired
    BY <1>2 DEF RunOnce, Confirm, RepairGroup, RepairDone, SlicePanics, GroupDone
  <2>2. pc \in {"idle", "confirm", "group", "repair", "calc"}
    BY <1>2 DEF RunOnce, Confirm, RepairGroup, RepairDone, SlicePanics, GroupDone
  <2>3. pc' \in {"idle", "confirm", "group", "repair"}
    BY <1>2 DEF RunOnce, Confirm, RepairGroup, RepairDone, SlicePanics, GroupDone, ForgetPass
  <2>4. Offset = 0 /\ Offset' = 0
    BY <2>2, <2>3
  <2> QED BY <1>0, <2>1, <2>4, SameSizes
<1>3. CASE AsgRepairNodes \/ Expand
  <2>1. UNCHANGED desired
    BY <1>3 DEF AsgRepairNodes, Expand
  <2>2. Offset = 0 /\ Offset' = 0
    BY <1>3 DEF AsgRepairNodes, Expand, OnPlan, RoundPlan
  <2> QED BY <1>0, <2>1, <2>2, SameSizes
<1>4. CASE CountReady \/ BeginDelete
  <2>1. UNCHANGED <<desired, grp>> /\ Offset' = Offset
    BY <1>4 DEF CountReady, BeginDelete
  <2> QED BY <1>0, <2>1, SameSizes
<1>5. CASE ReadSize
  <2>1. UNCHANGED <<desired, grp>>
    BY <1>5 DEF ReadSize
  <2>2. Offset' = Offset
    <3>1. grp \in Groups /\ pc = "readSize"
      BY <1>5 DEF ReadSize, TypeOK
    <3>2. CASE pc' = "setSize"
      BY <1>5, <3>1, <3>2 DEF ReadSize
    <3>3. CASE ~MayIncrease(grp, desired[grp], inc) /\ ReturnFromIncrease
      <4>1. order = "delete" /\ inc = 1 /\ InitSize[grp] = MaxSize[grp] /\ Offset = 0
        BY <1>0, <3>1, <3>3, SizeAssumption
           DEF OnPlan, RoundPlan, InRound, MayIncrease, PlannedSizes, TypeOK
      <4>2. order' = order /\ pc' = "repair"
        BY <1>5, <3>3, <4>1 DEF ReadSize, ReturnFromIncrease, NextRound
      <4> QED BY <4>1, <4>2, <2>1
    <3> QED BY <1>5, <3>2, <3>3 DEF ReadSize, Calm
  <2> QED BY <1>0, <2>1, <2>2, SameSizes
<1>6. CASE SetSize
  <2>1. /\ desired' = [desired EXCEPT ![grp] = size + inc]
        /\ pc = "setSize" /\ pc' = "awaitReady" /\ UNCHANGED <<grp, order, inc>>
    BY <1>6 DEF SetSize, Calm
  <2>2. grp \in Groups /\ size = desired[grp]
    BY <2>1 DEF TypeOK, OnPlan, RoundPlan
  <2>3. desired[grp] + inc = InitSize[grp] + Offset'
    <3>1. desired[grp] = InitSize[grp] + Offset /\ InitSize[grp] \in Nat /\ inc \in Int
      BY <1>0, <2>2, SizeAssumption DEF PlannedSizes, TypeOK
    <3>2. CASE order = "grow"
      BY <2>1, <3>1, <3>2
    <3>3. CASE order = "delete"
      <4>1. inc = 1 /\ InitSize[grp] = MaxSize[grp]
        BY <2>1, <3>3 DEF OnPlan, RoundPlan, InRound
      <4>2. desired[grp] + inc <= MaxSize[grp]
        BY <2>1, <2>2 DEF BoundsInv, SizeToSet
      <4>3. Offset' = 0 /\ Offset = IF MinSize[grp] < MaxSize[grp] THEN -1 ELSE 0
        BY <2>1, <3>3
      <4> QED BY <2>2, <3>1, <4>1, <4>2, <4>3, SizeAssumption
    <3> QED BY <3>2, <3>3 DEF TypeOK
  <2> QED BY <1>0, <2>1, <2>2, <2>3 DEF PlannedSizes, TypeOK
<1>7. CASE AwaitReady
  <2>1. UNCHANGED <<desired, grp, order, inc>> /\ pc = "awaitReady"
    BY <1>7 DEF AwaitReady
  <2>2. Offset' = Offset
    BY <1>7, <2>1 DEF AwaitReady, ReturnFromIncrease, NextRound
  <2> QED BY <1>0, <2>1, <2>2, SameSizes
<1>8. CASE BeginDeleteLoop
  <2>1. UNCHANGED <<desired, grp, order, inc>> /\ rest' = batch /\ pc = "deleteRead"
        /\ pc' = "deleteLoop"
    BY <1>8 DEF BeginDeleteLoop
  <2>2. Cardinality(batch) = inc
    BY <2>1 DEF SliceMatches, InRound
  <2>3. order = "delete" => batch # {}
    BY <2>1, <2>2, FS_EmptySet DEF OnPlan, RoundPlan, InRound
  <2>4. CASE order = "grow"
    <3>1. Offset = inc /\ Offset' = Cardinality(rest')
      BY <2>1, <2>4
    <3>2. Cardinality(rest') = inc
      BY <2>1, <2>2
    <3> QED BY <1>0, <2>1, <3>1, <3>2, SameSizes
  <2>5. CASE order = "delete"
    <3>1. Offset = 0 /\ Offset' = 0
      BY <2>1, <2>3, <2>5
    <3> QED BY <1>0, <2>1, <3>1, SameSizes
  <2> QED BY <2>4, <2>5 DEF TypeOK
<1>9. CASE DeleteLoopEnds
  <2>1. UNCHANGED <<desired, grp, order, inc, rest>> /\ rest = {} /\ pc = "deleteLoop"
        /\ pc' = "awaitDeleted"
    BY <1>9 DEF DeleteLoopEnds
  <2>2. Offset' = Offset
    BY <2>1, FS_EmptySet
  <2> QED BY <1>0, <2>1, <2>2, SameSizes
<1>10. CASE AwaitDeleted
  <2>1. UNCHANGED <<desired, grp, order, inc>> /\ pc = "awaitDeleted"
    BY <1>10 DEF AwaitDeleted
  <2>2. Offset' = Offset
    BY <1>10, <2>1 DEF AwaitDeleted, ReturnFromDelete, NextRound
  <2> QED BY <1>0, <2>1, <2>2, SameSizes
<1>11. ASSUME NEW n \in Node, MarkToBeDeleted(n) PROVE PlannedSizes'
  <2>1. UNCHANGED <<desired, grp, order, inc, rest>> /\ rest # {} /\ pc = "deleteLoop"
        /\ pc' = "drain"
    BY <1>11 DEF MarkToBeDeleted
  <2> QED BY <1>0, <2>1, SameSizes
<1>12. CASE Drain \/ FindGroup
  <2>1. UNCHANGED <<desired, grp, order, inc, rest>> /\ pc \in {"drain", "findGroup"}
    BY <1>12 DEF Drain, FindGroup
  <2>2. pc' \in {"findGroup", "terminate", "cleanup"}
    BY <1>12 DEF Drain, FindGroup
  <2>3. node \in Ahead
    BY <2>1 DEF Ahead, NodesFlow, Deleting, InRound
  <2>4. pc' # "cleanup"
    BY <1>12, <2>1, <2>3 DEF Drain, EvictionRefused, FindGroup, Calm, OnPlan, AheadAlive
  <2> QED BY <1>0, <2>1, <2>2, <2>4, SameSizes
<1>13. CASE Terminate
  <2>1. /\ node \in rest /\ node \in Node /\ grp \in Groups
        /\ rest' = rest \ {node} /\ pc = "terminate" /\ pc' = "deleteLoop"
        /\ desired' = IF desired[grp] <= MinSize[grp] THEN desired
                      ELSE [desired EXCEPT ![grp] = @ - 1]
        /\ UNCHANGED <<grp, order, inc, batch>>
    BY <1>13, CalmTerminate
  <2>2. /\ IsFiniteSet(rest) /\ Cardinality(rest) \in Nat /\ Cardinality(rest) >= 1
        /\ Cardinality(rest') = Cardinality(rest) - 1
    <3>1. IsFiniteSet(rest) /\ Cardinality(rest) \in Nat
      BY SubsetCardinality DEF TypeOK
    <3>2. Cardinality(rest \ {node}) = Cardinality(rest) - 1
      <4>1. node \in rest
        BY <2>1
      <4> HIDE DEF Offset, InDeleteLoop, DeletedNotRegrown
      <4> QED BY <3>1, <4>1, FS_RemoveElement
    <3>3. Cardinality(rest) # 0
      BY <2>1, <3>1, FS_EmptySet
    <3> QED BY <2>1, <3>1, <3>2, <3>3
  <2>3. desired[grp] = InitSize[grp] + Offset /\ Offset \in Int
    BY <1>0, <2>1, <2>2 DEF PlannedSizes
  <2>4. CASE order = "grow"
    <3>1. Offset = Cardinality(rest) /\ Offset' = Cardinality(rest) - 1
      BY <2>1, <2>2, <2>4
    <3>2. desired' = [desired EXCEPT ![grp] = @ - 1]
      BY <2>1, <2>2, <2>3, <3>1, SizeAssumption
    <3>3. desired'[grp] = InitSize[grp] + Offset'
      <4> HIDE DEF Offset
      <4>1. desired'[grp] = desired[grp] - 1
        BY <2>1, <3>2 DEF TypeOK
      <4>2. InitSize[grp] \in Nat
        BY <2>1, SizeAssumption
      <4> QED BY <2>2, <2>3, <3>1, <4>1, <4>2
    <3>4. \A g \in Groups : g # grp => desired'[g] = desired[g]
      BY <2>1, <3>2 DEF TypeOK
    <3> QED BY <1>0, <2>1, <3>3, <3>4 DEF PlannedSizes
  <2>5. CASE order = "delete"
    <3>1. rest \subseteq batch /\ Cardinality(batch) = 1 /\ IsFiniteSet(batch)
      BY <2>1, <2>5, NodeAssumption, FS_Subset
         DEF NodesFlow, Deleting, SliceMatches, InRound, OnPlan, RoundPlan, TypeOK
    <3>2. rest' = {}
      <4>1. Cardinality(rest) <= 1
        BY <3>1, FS_Subset
      <4>2. Cardinality(rest') = 0 /\ IsFiniteSet(rest')
        BY <2>1, <2>2, <4>1, FS_Subset
      <4> QED BY <4>2, FS_EmptySet
    <3>3. rest # {} /\ Offset = 0
      BY <2>1, <2>5
    <3>4. InitSize[grp] = MaxSize[grp]
      BY <2>1, <2>5 DEF OnPlan, RoundPlan, InRound
    <3>5. Offset' = IF MinSize[grp] < MaxSize[grp] THEN -1 ELSE 0
      BY <2>1, <2>5, <3>2
    <3>6. /\ \A g \in Groups : g # grp => desired'[g] = desired[g]
          /\ desired'[grp] = IF desired[grp] <= MinSize[grp] THEN desired[grp] ELSE desired[grp] - 1
      <4> HIDE DEF Offset
      <4> QED BY <2>1 DEF TypeOK
    <3>7. desired'[grp] = InitSize[grp] + Offset'
      <4> HIDE DEF Offset
      <4>1. InitSize[grp] \in Nat /\ MinSize[grp] \in Nat /\ MinSize[grp] <= MaxSize[grp]
        BY <2>1, SizeAssumption
      <4> QED BY <2>3, <3>3, <3>4, <3>5, <3>6, <4>1
    <3> QED BY <1>0, <2>1, <3>6, <3>7 DEF PlannedSizes
  <2> QED BY <2>4, <2>5 DEF TypeOK
<1>14. CASE Environment
  <2>1. UNCHANGED <<desired, pc, grp, order, inc, rest>>
    BY <1>14, NothingFails
       DEF Environment, Launch, Join, Fail, Recover, RemoveNode, samples, round, controller
  <2> QED BY <1>0, <2>1, SameSizes
<1> QED BY <1>1, <1>2, <1>3, <1>4, <1>5, <1>6, <1>7, <1>8, <1>9, <1>10, <1>11, <1>12, <1>13,
           <1>14, NothingFails DEF Next, Controller
=============================================================================
