------------------------------- MODULE AsgCache -------------------------------
(***************************************************************************)
(* autoScalingGroups: which Auto Scaling Group an instance belongs to, as  *)
(* the AWS provider remembers it.  The repair loop looks instances up; a   *)
(* goroutine regenerates the cache every hour, for the first time while    *)
(* the groups are still being registered.  Both hold cacheMutex while they *)
(* work, but AWS moves instances between their calls.                      *)
(***************************************************************************)
EXTENDS Integers

CONSTANTS
    Instance,
    NGroups,     \* the groups are registered in the order 1 .. NGroups
    Moves,       \* how many instances are launched, attached or leave
    Faults       \* how many calls of AWS fail

Group == 1 .. NGroups
Outside == 0     \* the instance exists and is in no group
Unborn == -1
Failed == -2     \* answers of a lookup, besides a group and Outside for nil
Pending == -3
Miss == -4

ASSUME GroupAssumption == NGroups \in Nat \ {0}
ASSUME BoundAssumption == Moves \in Nat /\ Faults \in Nat

VARIABLES
    member,      \* member[i]: the group of i, as AWS has it
    was,         \* history: was[i], the set of all values of member[i] so far
    moves, faults,
    (* autoScalingGroups *)
    registered,  \* registeredAsgs: the groups 1 .. registered
    cache,       \* instanceToAsg: a group, or Outside for no entry
    memo,        \* instancesNotInManagedAsg
    holder,      \* who holds cacheMutex: "nobody", "find" or "hourly"
    newCache,    \* regenerateCache: newCache
    next,        \* regenerateCache: the group to describe next
    (* The caller of FindForInstance *)
    pc,          \* "register", "idle", "find", "regenerate"
    target,      \* the instance looked up
    moved,       \* history: "yes" if member[target] changed during the lookup
    answer       \* the last answer: a group, Outside for nil, Failed

aws == <<member, was, moves>>
mutexed == <<registered, cache, memo, holder, newCache, next>>
caller == <<pc, target, moved, answer>>
vars == <<aws, faults, mutexed, caller>>

Empty == [i \in Instance |-> Outside]

Init ==
    /\ member \in [Instance -> Group \cup {Outside, Unborn}]
    /\ was = [i \in Instance |-> {member[i]}]
    /\ moves = 0 /\ faults = 0
    /\ registered = 0 /\ cache = Empty /\ memo = {}
    /\ holder = "nobody" /\ newCache = Empty /\ next = 1
    /\ pc = "register" /\ target \in Instance /\ moved = "no" /\ answer = Pending

-----------------------------------------------------------------------------
(* The provider registers its groups, then serves lookups. *)
Register ==
    /\ pc = "register"
    /\ holder = "nobody"
    /\ registered' = registered + 1
    /\ pc' = IF registered' = NGroups THEN "idle" ELSE "register"
    /\ UNCHANGED <<aws, faults, cache, memo, holder, newCache, next, target, moved, answer>>

(* Somebody asks for the group of the instance of a node. *)
Ask(i) ==
    /\ pc = "idle"
    /\ member[i] # Unborn
    /\ target' = i
    /\ moved' = "no"
    /\ answer' = Pending
    /\ pc' = "find"
    /\ UNCHANGED <<aws, faults, mutexed>>

Answer_ErrorIsNil(a) == answer' = (IF a = Failed THEN Outside ELSE a) /\ pc' = "idle"

Answer(a) == answer' = a /\ pc' = "idle"

(* FindForInstance before it regenerates: the cache, then the memo. *)
Lookup(i) == IF cache[i] # Outside THEN cache[i] ELSE IF i \in memo THEN Outside ELSE Miss

FindForInstance ==
    /\ pc = "find"
    /\ holder = "nobody"
    /\ \/ /\ Lookup(target) # Miss
          /\ Answer(Lookup(target))
          /\ UNCHANGED <<holder, newCache, next>>
       \/ /\ Lookup(target) = Miss
          /\ holder' = "find" /\ newCache' = Empty /\ next' = 1
          /\ pc' = "regenerate"
          /\ UNCHANGED answer
    /\ UNCHANGED <<aws, faults, registered, cache, memo, target, moved>>

Hour_AtStart ==
    /\ pc = "register"
    /\ holder = "nobody"
    /\ holder' = "hourly" /\ newCache' = Empty /\ next' = 1
    /\ UNCHANGED <<aws, faults, registered, cache, memo, caller>>

(* The goroutine wakes up. *)
Hour ==
    /\ holder = "nobody"
    /\ holder' = "hourly" /\ newCache' = Empty /\ next' = 1
    /\ UNCHANGED <<aws, faults, registered, cache, memo, caller>>

-----------------------------------------------------------------------------
(* regenerateCache, under the mutex. *)

(* for _, asg := range m.registeredAsgs *)
MoreToDescribe == next <= registered

(* getAutoscalingGroupByName, and the instances it lists. *)
Describe ==
    /\ holder # "nobody"
    /\ MoreToDescribe
    /\ newCache' = [i \in Instance |-> IF member[i] = next THEN next ELSE newCache[i]]
    /\ next' = next + 1
    /\ UNCHANGED <<aws, faults, registered, cache, memo, holder, caller>>

Memorise_Always(a) == memo' = memo \cup {target}

(* Only a lookup that finished without finding the instance is memorised. *)
Memorise(a) == memo' = IF a = Outside THEN memo \cup {target} ELSE memo

(* FindForInstance returns; the goroutine just goes back to sleep. *)
Finish(a) ==
    /\ holder' = "nobody"
    /\ newCache' = Empty /\ next' = 1
    /\ IF holder = "find"
         THEN Answer(a) /\ Memorise(a)
         ELSE UNCHANGED <<answer, pc, memo>>

(* A failed regeneration leaves the old cache in place. *)
DescribeFails ==
    /\ holder # "nobody"
    /\ MoreToDescribe
    /\ faults < Faults
    /\ faults' = faults + 1
    /\ Finish(Failed)
    /\ UNCHANGED <<aws, registered, cache, target, moved>>

Install ==
    /\ holder # "nobody"
    /\ ~MoreToDescribe
    /\ cache' = newCache
    /\ Finish(newCache[target])
    /\ UNCHANGED <<aws, faults, registered, target, moved>>

-----------------------------------------------------------------------------
(* AWS: an instance is launched, in a group or on its own; one is attached *)
(* to a group; one leaves its group, detached or terminated.               *)
Move(i, g) ==
    /\ moves < Moves
    /\ \/ member[i] = Unborn /\ g \in Group \cup {Outside}
       \/ member[i] = Outside /\ g \in Group
       \/ member[i] \in Group /\ g = Outside
    /\ member' = [member EXCEPT ![i] = g]
    /\ was' = [was EXCEPT ![i] = @ \cup {g}]
    /\ moves' = moves + 1
    /\ moved' = IF i = target THEN "yes" ELSE moved
    /\ UNCHANGED <<faults, mutexed, pc, target, answer>>

Controller == Register \/ FindForInstance \/ Describe \/ DescribeFails \/ Install

Next ==
    \/ Controller \/ Hour
    \/ \E i \in Instance : Ask(i) \/ \E g \in Group \cup {Outside} : Move(i, g)

(***************************************************************************)
(* Both threads run and calls return.  The mutex is not starved: a turn    *)
(* comes for the goroutine too, hence strong fairness, and it wakes up     *)
(* again and again.                                                        *)
(***************************************************************************)
Fairness == WF_vars(Describe \/ DescribeFails \/ Install) /\ SF_vars(Register)
            /\ SF_vars(FindForInstance) /\ SF_vars(Hour)

Spec == Init /\ [][Next]_vars /\ Fairness

-----------------------------------------------------------------------------
(* Properties. *)

TypeOK ==
    /\ member \in [Instance -> Group \cup {Outside, Unborn}]
    /\ was \in [Instance -> SUBSET (Group \cup {Outside, Unborn})]
    /\ moves \in 0 .. Moves /\ faults \in 0 .. Faults
    /\ registered \in 0 .. NGroups
    /\ cache \in [Instance -> Group \cup {Outside}]
    /\ newCache \in [Instance -> Group \cup {Outside}]
    /\ memo \subseteq Instance
    /\ holder \in {"nobody", "find", "hourly"}
    /\ next \in 1 .. registered + 1
    /\ pc \in {"register", "idle", "find", "regenerate"}
    /\ (holder = "find") <=> (pc = "regenerate")
    /\ pc # "register" <=> registered = NGroups
    /\ target \in Instance /\ moved \in {"yes", "no"}
    /\ answer \in Group \cup {Outside, Failed, Pending}

(***************************************************************************)
(* Whatever FindForInstance answers was true once: the cache, the memo and *)
(* the regeneration, one group after the other while AWS moves instances,  *)
(* implement the lookup the repair loop relies on.                         *)
(***************************************************************************)
Contract == INSTANCE LookupContract WITH
    busy <- IF pc \in {"find", "regenerate"} THEN "yes" ELSE "no"

KeepsLookup == Contract!Spec

(***************************************************************************)
(* FindForInstance finds an instance that stayed in its group during the   *)
(* lookup: nil then comes from an older memo at most.                      *)
(***************************************************************************)
FindsIfStable ==
    [][(holder = "find" /\ holder' = "nobody" /\ answer' = Outside /\ moved = "no")
         => member[target] = Outside]_vars

(***************************************************************************)
(* An instance that stays in a group is in the cache in the end, memorised *)
(* or not, and whatever calls failed before.                               *)
(***************************************************************************)
EventuallyCached ==
    \A i \in Instance : \A g \in Group : <>[](member[i] = g) => <>[](cache[i] = g)
=============================================================================
