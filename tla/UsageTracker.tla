----------------------------- MODULE UsageTracker -----------------------------
(***************************************************************************)
(* UsageTracker: which node was considered as a place for the pods of      *)
(* which other node.  When a node is removed, the verdict "not needed" of  *)
(* every node whose pods were to go to the same places must be dropped;    *)
(* RemoveNodeFromTracker finds them although each record is limited.       *)
(* 0 stands for a missing timestamp; a node without a record has empty     *)
(* maps and no flag, which no operation tells from an empty record.        *)
(***************************************************************************)
EXTENDS Naturals, FiniteSets

CONSTANTS
    Node,
    maxUsageRecorded,
    MaxTime, MaxVerdicts    \* bounds

ASSUME TrackerAssumption == IsFiniteSet(Node) /\ maxUsageRecorded \in Nat

VARIABLES
    now,
    using,          \* using[a][b]: when a last used b
    usedBy,         \* usedBy[b][a]
    usingTooMany, usedByTooMany,
    utilization,    \* the keys of the caller's map: nodes found not needed
    uses,           \* history: uses[a][b], as registered and not forgotten
    outdated        \* history: verdicts kept although they share a place
                    \* with a node removed since

tracker == <<using, usedBy, usingTooMany, usedByTooMany>>
trackerVars == <<now, tracker, utilization, uses, outdated>>

NoUse == [n \in Node |-> 0]
Keys(map) == {n \in Node : map[n] > 0}

TrackerInit ==
    /\ now = 1
    /\ using = [n \in Node |-> NoUse] /\ usedBy = [n \in Node |-> NoUse]
    /\ usingTooMany = {} /\ usedByTooMany = {}
    /\ utilization = {}
    /\ uses = [n \in Node |-> NoUse]
    /\ outdated = {}

-----------------------------------------------------------------------------
(* len(record.using) >= maxUsageRecorded, also for a key it has already. *)
IsFull(map, n) == Cardinality(Keys(map)) >= maxUsageRecorded

Overflow_Forgotten(flags, n, full) == flags

Overflow(flags, n, full) == IF full THEN flags \cup {n} ELSE flags

RegisterUsage(a, b) ==
    /\ using' = IF IsFull(using[a], b) THEN using ELSE [using EXCEPT ![a][b] = now]
    /\ usingTooMany' = Overflow(usingTooMany, a, IsFull(using[a], b))
    /\ usedBy' = IF IsFull(usedBy[b], a) THEN usedBy ELSE [usedBy EXCEPT ![b][a] = now]
    /\ usedByTooMany' = Overflow(usedByTooMany, b, IsFull(usedBy[b], a))
    /\ uses' = [uses EXCEPT ![a][b] = now]
    /\ UNCHANGED <<now, utilization, outdated>>

(* The records that name n in the tracker are found through the record of n. *)
Unregister(n) ==
    /\ using' = [a \in Node |-> IF a = n THEN NoUse
                                ELSE [using[a] EXCEPT ![n] = IF usedBy[n][a] > 0 THEN 0 ELSE @]]
    /\ usedBy' = [b \in Node |-> IF b = n THEN NoUse
                                 ELSE [usedBy[b] EXCEPT ![n] = IF using[n][b] > 0 THEN 0 ELSE @]]
    /\ usingTooMany' = usingTooMany \ {n}
    /\ usedByTooMany' = usedByTooMany \ {n}

filterOutOld(map, cutoff) == [n \in Node |-> IF map[n] < cutoff THEN 0 ELSE map[n]]

(* A record that overflowed is not filtered: what it lacks is unknown. *)
CleanUp(cutoff) ==
    /\ using' = [a \in Node |-> IF a \in usingTooMany THEN using[a] ELSE filterOutOld(using[a], cutoff)]
    /\ usedBy' = [b \in Node |-> IF b \in usedByTooMany THEN usedBy[b] ELSE filterOutOld(usedBy[b], cutoff)]
    /\ uses' = [a \in Node |-> filterOutOld(uses[a], cutoff)]
    /\ UNCHANGED <<now, usingTooMany, usedByTooMany, utilization, outdated>>

-----------------------------------------------------------------------------
KeysToRemove_OwnPlacesOnly(n) ==
    IF n \in usingTooMany THEN utilization ELSE UNION {Keys(usedBy[b]) : b \in Keys(using[n])}

(* All keys, if a record on the way has overflowed. *)
KeysToRemove(n) ==
    LET places == Keys(using[n])
    IN IF n \in usingTooMany \/ places \cap usedByTooMany # {}
         THEN utilization
         ELSE UNION {Keys(usedBy[b]) : b \in places}

RemoveNodeFromTracker(n) ==
    /\ utilization' = utilization \ (KeysToRemove(n) \cup {n})
    /\ Unregister(n)
    /\ outdated' = {m \in utilization' : m \in outdated \/ Keys(uses[m]) \cap Keys(uses[n]) # {}}
    /\ uses' = [a \in Node |-> IF a = n THEN NoUse ELSE [uses[a] EXCEPT ![n] = 0]]
    /\ UNCHANGED now

(* The caller finds a node not needed, once it has registered its uses. *)
NotNeeded(n) ==
    /\ n \notin utilization /\ Cardinality(utilization) < MaxVerdicts
    /\ utilization' = utilization \cup {n}
    /\ UNCHANGED <<now, tracker, uses, outdated>>

TrackerTick ==
    /\ now < MaxTime
    /\ now' = now + 1
    /\ UNCHANGED <<tracker, utilization, uses, outdated>>

TrackerNext ==
    \/ TrackerTick
    \/ \E a \in Node, b \in Node : a # b /\ RegisterUsage(a, b)
    \/ \E cutoff \in 1 .. now : CleanUp(cutoff)
    \/ \E n \in Node : RemoveNodeFromTracker(n)
    \/ \E n \in Node : NotNeeded(n)

TrackerSpec == TrackerInit /\ [][TrackerNext]_trackerVars

-----------------------------------------------------------------------------
(* No verdict outlives the removal of a node whose pods were to go to one  *)
(* of the same places, whatever the records had no room for.               *)
NoOutdatedVerdict == outdated = {}

(* What was registered and is not outdated is in both records or the one   *)
(* it is missing from is marked as having overflowed, though no record     *)
(* outgrows maxUsageRecorded.                                              *)
UseIsRecorded ==
    \A a \in Node :
        /\ \A map \in {using[a], usedBy[a]} : Cardinality(Keys(map)) <= maxUsageRecorded
        /\ \A b \in Keys(uses[a]) :
            /\ using[a][b] = uses[a][b] \/ a \in usingTooMany
            /\ usedBy[b][a] = uses[a][b] \/ b \in usedByTooMany
=============================================================================
