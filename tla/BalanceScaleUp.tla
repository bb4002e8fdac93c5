---------------------------- MODULE BalanceScaleUp ----------------------------
(***************************************************************************)
(* BalanceScaleUpBetweenGroups: spread newNodes over groups, smallest      *)
(* group first.  One action per iteration of its loop.  The slice          *)
(* scaleUpInfos is the sequence infos; indices count from 1.               *)
(***************************************************************************)
EXTENDS Integers, Sequences, FiniteSets, Folds

CONSTANTS
    Group,
    Size,       \* the target and maximum sizes a group may have
    Request     \* the numbers of nodes asked for

ASSUME BalanceAssumption == IsFiniteSet(Group) /\ Size \subseteq Nat /\ Request \subseteq Nat

VARIABLES
    phase,                      \* "idle", "start", "loop", "done" or "failed"
    currentSize, maxSize,       \* of each group, as the provider answers
    requested,                  \* history: the argument newNodes
    newNodes, infos, startIndex, currentIndex

balanceVars == <<phase, currentSize, maxSize, requested, newNodes, infos, startIndex, currentIndex>>

BalanceInit ==
    /\ phase = "idle"
    /\ currentSize = [g \in Group |-> 0] /\ maxSize = [g \in Group |-> 0]
    /\ requested = 0 /\ newNodes = 0
    /\ infos = <<>>
    /\ startIndex = 1 /\ currentIndex = 1

(* The groups may be larger than their maximum: somebody resized them. *)
Call ==
    /\ phase = "idle"
    /\ phase' = "start"
    /\ currentSize' \in [Group -> Size] /\ maxSize' \in [Group -> Size]
    /\ requested' \in Request
    /\ newNodes' = requested'
    /\ UNCHANGED <<infos, startIndex, currentIndex>>

-----------------------------------------------------------------------------
(* Maxed groups are ignored. *)
Considered == {g \in Group : currentSize[g] # maxSize[g]}

Sum(f, S) == MapThenFoldSet(LAMBDA x, y : x + y, 0, LAMBDA g : f[g], LAMBDA T : CHOOSE g \in T : TRUE, S)

totalCapacity_OfOne ==
    IF Considered = {} THEN 0 ELSE LET g == CHOOSE h \in Considered : TRUE IN maxSize[g] - currentSize[g]

totalCapacity == Sum([g \in Group |-> maxSize[g] - currentSize[g]], Considered)

(* sort.Slice is not stable: any sorted order. *)
SortedOrders(S) ==
    {s \in [1 .. Cardinality(S) -> S] :
        \A i, j \in DOMAIN s : i < j => s[i] # s[j] /\ currentSize[s[i]] <= currentSize[s[j]]}

Start ==
    /\ phase = "start"
    /\ \E s \in SortedOrders(Considered) :
          infos' = [i \in DOMAIN s |-> [group |-> s[i], new |-> currentSize[s[i]]]]
    /\ newNodes' = IF totalCapacity < newNodes THEN totalCapacity ELSE newNodes
    /\ phase' = "loop"
    /\ UNCHANGED <<currentSize, maxSize, requested, startIndex, currentIndex>>

(* TargetSize returns an error for some group. *)
SizeUnknown ==
    /\ phase = "start"
    /\ phase' = "failed"
    /\ UNCHANGED <<currentSize, maxSize, requested, newNodes, infos, startIndex, currentIndex>>

-----------------------------------------------------------------------------
Swapped(s, i, j) == [s EXCEPT ![i] = s[j], ![j] = s[i]]

(* currentInfo is a pointer into the slice: after the swap it points at    *)
(* what was at startIndex.                                                 *)
MovesOn_Always(s, i) == i < Len(s)

MovesOn(s, i) == i < Len(s) /\ s[i].new > s[i + 1].new

Iterate(full) ==
    LET s == IF full THEN Swapped(infos, startIndex, currentIndex)
                     ELSE [infos EXCEPT ![currentIndex].new = @ + 1]
        first == IF full THEN startIndex + 1 ELSE startIndex
    IN /\ infos' = s
       /\ startIndex' = first
       /\ newNodes' = IF full THEN newNodes ELSE newNodes - 1
       /\ currentIndex' = IF MovesOn(s, currentIndex) THEN currentIndex + 1 ELSE first
       /\ UNCHANGED <<phase, currentSize, maxSize, requested>>

HasRoom(i) == infos[i].new < maxSize[infos[i].group]

AddNode ==
    /\ phase = "loop" /\ newNodes > 0
    /\ HasRoom(currentIndex)
    /\ Iterate(FALSE)

DropGroup ==
    /\ phase = "loop" /\ newNodes > 0
    /\ ~HasRoom(currentIndex)
    /\ Iterate(TRUE)

Finish ==
    /\ phase = "loop" /\ newNodes <= 0
    /\ phase' = "done"
    /\ UNCHANGED <<currentSize, maxSize, requested, newNodes, infos, startIndex, currentIndex>>

BalanceNext == Call \/ Start \/ SizeUnknown \/ AddNode \/ DropGroup \/ Finish

BalanceSpec == BalanceInit /\ [][BalanceNext]_balanceVars

-----------------------------------------------------------------------------
NewSize(g) == IF \E i \in 1 .. Len(infos) : infos[i].group = g
                THEN infos[CHOOSE i \in 1 .. Len(infos) : infos[i].group = g].new
                ELSE currentSize[g]

(* What holds whenever the loop begins a round, read for NewSize.  Of the  *)
(* invariants claimed above the loop 3 to 6 do: currentIndex stays in the  *)
(* slice; from it on the sizes grow; before it they are equal, and ahead   *)
(* by at most one.  1 and 2 do not: a group that was above its maximum     *)
(* stays so, and one that has just become full is still among those left.  *)
(* In their place: the groups removed are at their maximum or above, those *)
(* left are within it, both unless they were above it from the start, and  *)
(* some group left has room, so that groups never run out before the nodes.*)
LoopInvariant ==
    phase = "loop" /\ newNodes > 0 =>
        LET left == startIndex .. Len(infos)
            max(i) == maxSize[infos[i].group]
            within(i) == currentSize[infos[i].group] <= max(i)
        IN /\ currentIndex \in left
           /\ \E i \in left : infos[i].new < max(i)
           /\ \A i \in 1 .. startIndex - 1 : infos[i].new >= max(i) /\ (within(i) => infos[i].new = max(i))
           /\ \A i \in left : within(i) => infos[i].new <= max(i)
           /\ \A i, j \in left : i < j /\ i >= currentIndex => infos[i].new <= infos[j].new
           /\ \A i, j \in left : i < currentIndex /\ j < currentIndex => infos[i].new = infos[j].new
           /\ \A i, j \in left : i < currentIndex /\ j >= currentIndex => infos[i].new <= infos[j].new + 1

(* The result is as even as possible: a group that has grown is larger by  *)
(* more than one only than groups that are full.  As many nodes are placed *)
(* as asked for and fit, and no group is grown beyond its maximum, when    *)
(* none was beyond it before.                                              *)
Balanced ==
    LET room == Sum([g \in Group |-> maxSize[g] - currentSize[g]], Group)
        placed == Sum([g \in Group |-> NewSize(g) - currentSize[g]], Group)
    IN phase = "done" =>
        /\ \A a, b \in Group :
            NewSize(a) > NewSize(b) + 1 => NewSize(a) = currentSize[a] \/ NewSize(b) >= maxSize[b]
        /\ (\A g \in Group : currentSize[g] <= maxSize[g]) =>
            /\ \A g \in Group : NewSize(g) <= maxSize[g]
            /\ placed = IF room < requested THEN room ELSE requested
=============================================================================
