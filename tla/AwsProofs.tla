----------------------------- MODULE AwsProofs ------------------------------
(***************************************************************************)
(* Proofs about the cache of group memberships and the discovery of groups, *)
(* for any instances, groups and flags, and any numbers of moves, failures *)
(* and changes.                                                            *)
(***************************************************************************)
EXTENDS AsgCache, GroupDiscovery, FiniteSetTheorems, TLAPS

(* The cache of group memberships. *)

LEMMA InitType == Init => TypeOK
  BY GroupAssumption, BoundAssumption DEF Init, TypeOK, Empty, Group, Outside, Unborn, Pending

(* Every step keeps the variables in their types. *)
LEMMA NextType == TypeOK /\ [Next]_vars => TypeOK'
<1> SUFFICES ASSUME TypeOK, [Next]_vars PROVE TypeOK'
  OBVIOUS
<1> USE GroupAssumption, BoundAssumption
    DEF TypeOK, Empty, Group, Outside, Unborn, Failed, Pending, Miss, aws, mutexed, caller
<1>1. CASE Register
  BY <1>1 DEF Register
<1>2. ASSUME NEW i \in Instance, Ask(i) PROVE TypeOK'
  BY <1>2 DEF Ask
<1>3. CASE FindForInstance
  BY <1>3 DEF FindForInstance, Lookup, Answer
<1>4. CASE Hour
  BY <1>4 DEF Hour
<1>5. CASE Describe
  BY <1>5 DEF Describe, MoreToDescribe
<1>6. CASE DescribeFails
  BY <1>6 DEF DescribeFails, Finish, Answer, Memorise
<1>7. CASE Install
  BY <1>7 DEF Install, Finish, Answer, Memorise
<1>8. ASSUME NEW i \in Instance, NEW g \in Group \cup {Outside}, Move(i, g) PROVE TypeOK'
  BY <1>8 DEF Move
<1>9. CASE UNCHANGED vars
  BY <1>9 DEF vars
<1> QED
  BY <1>1, <1>2, <1>3, <1>4, <1>5, <1>6, <1>7, <1>8, <1>9 DEF Next, Controller

(* Type correctness of the cache. *)
THEOREM CacheTypeCorrect == Spec => []TypeOK
  BY InitType, NextType, PTL DEF Spec

-----------------------------------------------------------------------------
(***************************************************************************)
(* What the cache says was true once: an instance with an entry has been   *)
(* in that group, and one remembered to be in none has been in none, also  *)
(* when calls fail or groups are still being registered.                   *)
(***************************************************************************)
EntriesWereTrue ==
    /\ \A i \in Instance : cache[i] # Outside => cache[i] \in was[i]
    /\ \A i \in memo : Outside \in was[i]

(***************************************************************************)
(* While the mutex is held, the new cache is true in the same sense as the *)
(* old one, and it lacks no instance that a group described already holds: *)
(* one it lacks has been outside since.                                    *)
(***************************************************************************)
HistoryInv ==
    /\ \A i \in Instance : member[i] \in was[i]
    /\ \A i \in Instance : newCache[i] # Outside => newCache[i] \in was[i]
    /\ (holder = "find" /\ moved = "no" /\ member[target] \in 1 .. next - 1)
          => newCache[target] = member[target]
    /\ pc \in {"find", "regenerate"} => member[target] # Unborn
    /\ (pc \in {"find", "regenerate"} /\ moved = "yes") => Outside \in was[target]
    /\ EntriesWereTrue

LEMMA InitHistory == Init => HistoryInv
  BY DEF Init, HistoryInv, EntriesWereTrue, Empty

(* A lookup that ends in nil without a move of its instance has asked AWS  *)
(* about every group after the lookup began.                               *)
LEMMA NilIsOutside ==
  ASSUME TypeOK, HistoryInv, holder = "find", ~MoreToDescribe, newCache[target] = Outside,
         moved = "no"
  PROVE  member[target] = Outside
  BY GroupAssumption DEF TypeOK, HistoryInv, MoreToDescribe, Group, Outside, Unborn

(* Every step keeps the history consistent. *)
LEMMA NextHistory == TypeOK /\ HistoryInv /\ [Next]_vars => HistoryInv'
<1> SUFFICES ASSUME TypeOK, HistoryInv, [Next]_vars PROVE HistoryInv'
  OBVIOUS
<1> USE GroupAssumption
    DEF HistoryInv, EntriesWereTrue, Empty, Group, Outside, Unborn, Failed, Pending, Miss,
        aws, mutexed, caller
<1>1. CASE Register
  BY <1>1 DEF Register, TypeOK
<1>2. ASSUME NEW i \in Instance, Ask(i) PROVE HistoryInv'
  BY <1>2 DEF Ask, TypeOK
<1>3. CASE FindForInstance
  BY <1>3 DEF FindForInstance, Answer, TypeOK
<1>4. CASE Hour
  BY <1>4 DEF Hour, TypeOK
<1>5. CASE Describe
  BY <1>5 DEF Describe, MoreToDescribe, TypeOK
<1>6. CASE DescribeFails
  BY <1>6 DEF DescribeFails, Finish, Answer, Memorise, TypeOK
<1>7. CASE Install
  <2>1. (holder = "find" /\ newCache[target] = Outside) => Outside \in was[target]
    BY <1>7, NilIsOutside DEF Install, TypeOK
  <2> QED
    BY <1>7, <2>1 DEF Install, Finish, Answer, Memorise, TypeOK
<1>8. ASSUME NEW i \in Instance, NEW g \in Group \cup {Outside}, Move(i, g) PROVE HistoryInv'
  <2>1. \A j \in Instance : was[j] \subseteq was'[j]
    BY <1>8 DEF Move, TypeOK
  <2>2. member'[i] = g /\ g # Unborn /\ g \in was'[i] /\ \A j \in Instance : j # i => member'[j] = member[j]
    BY <1>8 DEF Move, TypeOK
  <2>3. ASSUME i = target, pc \in {"find", "regenerate"} PROVE Outside \in was'[target]
    BY <1>8, <2>1, <2>2, <2>3 DEF Move, TypeOK
  <2> QED
    BY <1>8, <2>1, <2>2, <2>3 DEF Move, TypeOK
<1>9. CASE UNCHANGED vars
  BY <1>9 DEF vars
<1> QED
  BY <1>1, <1>2, <1>3, <1>4, <1>5, <1>6, <1>7, <1>8, <1>9 DEF Next, Controller

LEMMA HistoryInvariant == Spec => []HistoryInv
  BY InitHistory, NextHistory, CacheTypeCorrect, PTL DEF Spec

(* A lookup finds an instance that stays in its group while it runs,       *)
(* although the groups are described one after the other.                  *)
THEOREM StableIsFound == Spec => FindsIfStable
<1>1. TypeOK /\ HistoryInv /\ [Next]_vars =>
        ((holder = "find" /\ holder' = "nobody" /\ answer' = Outside /\ moved = "no")
           => member[target] = Outside)
  <2> SUFFICES ASSUME TypeOK, HistoryInv, [Next]_vars, holder = "find", holder' = "nobody",
                      answer' = Outside, moved = "no"
               PROVE  member[target] = Outside
    OBVIOUS
  <2>1. CASE Install
    BY <2>1, NilIsOutside DEF Install, Finish, Answer
  <2>2. ~DescribeFails
    BY DEF DescribeFails, Finish, Answer, Failed, Outside
  <2>3. Install
    BY <2>2 DEF Next, Controller, Register, FindForInstance, Describe, Hour, Ask, Move, mutexed, vars
  <2> QED
    BY <2>1, <2>3
<1> QED
  BY <1>1, CacheTypeCorrect, HistoryInvariant, PTL DEF Spec, FindsIfStable

-----------------------------------------------------------------------------
(* A lookup that ends in nil after regenerating is right about some moment. *)
LEMMA NilWasTrue ==
  ASSUME TypeOK, HistoryInv, holder = "find", ~MoreToDescribe, newCache[target] = Outside
  PROVE  Outside \in was[target]
<1>1. CASE moved = "no"
  BY <1>1, NilIsOutside DEF HistoryInv, TypeOK
<1>2. CASE moved = "yes"
  BY <1>2 DEF HistoryInv, TypeOK
<1> QED BY <1>1, <1>2 DEF TypeOK

(* Every step is a step of the contract, or none that it can tell. *)
LEMMA StepKeepsLookup ==
  ASSUME TypeOK, HistoryInv, [Next]_vars
  PROVE  [Contract!Next]_(Contract!vars)
<1> USE DEF Contract!Next, Contract!vars, aws, mutexed, caller
<1>1. CASE Register
  BY <1>1 DEF Register
<1>2. ASSUME NEW i \in Instance, Ask(i) PROVE Contract!Ask
  BY <1>2 DEF Ask, Contract!Ask
<1>3. CASE FindForInstance
  <2>1. CASE Lookup(target) = Miss
    BY <1>3, <2>1 DEF FindForInstance
  <2>2. CASE Lookup(target) # Miss
    <3>1. Lookup(target) \in was[target] \ {Unborn}
      BY <2>2 DEF Lookup, TypeOK, HistoryInv, EntriesWereTrue, Miss, Group, Outside, Unborn
    <3> QED
      BY <1>3, <2>2, <3>1 DEF FindForInstance, Answer, Contract!Tell
  <2> QED BY <2>1, <2>2
<1>4. CASE Hour \/ Describe
  BY <1>4 DEF Hour, Describe
<1>5. CASE DescribeFails
  BY <1>5 DEF DescribeFails, Finish, Answer, Contract!Tell, TypeOK
<1>6. CASE Install
  <2>1. CASE holder = "find"
    <3>1. newCache[target] \in was[target] \ {Unborn}
      BY <1>6, <2>1, NilWasTrue DEF Install, TypeOK, HistoryInv, Group, Outside, Unborn
    <3> QED
      BY <1>6, <2>1, <3>1 DEF Install, Finish, Answer, Contract!Tell, TypeOK
  <2>2. CASE holder # "find"
    BY <1>6, <2>2 DEF Install, Finish
  <2> QED BY <2>1, <2>2
<1>7. ASSUME NEW i \in Instance, NEW g \in Group \cup {Outside}, Move(i, g)
      PROVE  Contract!Move
  BY <1>7, Zenon DEF Move, Contract!Move
<1>8. CASE UNCHANGED vars
  BY <1>8 DEF vars
<1> QED
  BY <1>1, <1>2, <1>3, <1>4, <1>5, <1>6, <1>7, <1>8 DEF Next, Controller

(* The cache with its memo implements the lookup the repair loop relies on. *)
THEOREM CacheKeepsLookup == Spec => KeepsLookup
<1>1. Init => Contract!Init
  BY DEF Init, Contract!Init, Pending
<1> QED
  BY <1>1, StepKeepsLookup, CacheTypeCorrect, HistoryInvariant, PTL
     DEF Spec, KeepsLookup, Contract!Spec

-----------------------------------------------------------------------------
(* The discovery of groups. *)
LEMMA KeysCounted ==
    ASSUME TagKeys \in Seq(Key)
    PROVE  IsFiniteSet(KeySet) /\ Cardinality(KeySet) \in Nat /\ Cardinality(KeySet) <= Len(TagKeys)
<1>1. Len(TagKeys) \in Nat
  OBVIOUS
<1>2. IsFiniteSet(1 .. Len(TagKeys)) /\ Cardinality(1 .. Len(TagKeys)) = Len(TagKeys)
  BY <1>1, FS_Interval
<1>3. TagKeys \in Surjection(1 .. Len(TagKeys), KeySet)
  BY <1>1 DEF KeySet, Surjection
<1> QED BY <1>2, <1>3, FS_Surjection, FS_CardinalityType

AllKeys(a) == \A k \in KeySet : <<a, k>> \in tags

(* When every tag is told once asgNameOccurrences counts to the number of  *)
(* keys for the groups that have all tags, and for no group if a key was   *)
(* given twice.                                                            *)
LEMMA CountedMeansAll ==
    ASSUME TagKeys \in Seq(Key), tags \subseteq Asg \X KeySet, NEW a \in Asg,
           asgNameOccurrences[a] = Cardinality(TagsOf(tags, a))
    PROVE  HasAll(a) <=> AllKeys(a) /\ Cardinality(KeySet) = Len(TagKeys)
<1> DEFINE S == {t \in tags : t[1] = a}
           T == {a} \X KeySet
<1>1. IsFiniteSet(KeySet) /\ Cardinality(KeySet) \in Nat /\ Cardinality(KeySet) <= Len(TagKeys) /\ Len(TagKeys) \in Nat
  BY KeysCounted
<1>2. IsFiniteSet({a}) /\ Cardinality({a}) = 1
  BY FS_Singleton, Zenon
<1>3. IsFiniteSet(T) /\ Cardinality(T) = 1 * Cardinality(KeySet)
  BY <1>1, <1>2, FS_Product
<1>4. S \subseteq T
  OBVIOUS
<1>5. S = T <=> AllKeys(a)
  BY <1>4 DEF AllKeys
<1>6. /\ Cardinality(S) <= Cardinality(T) /\ (Cardinality(S) = Cardinality(T) => S = T)
      /\ Cardinality(S) \in Nat
  BY <1>3, <1>4, FS_Subset, FS_CardinalityType
<1>7. HasAll(a) <=> Cardinality(S) = Len(TagKeys)
  BY DEF HasAll, TagsOf
<1> HIDE DEF S, T
<1> QED BY <1>1, <1>3, <1>5, <1>6, <1>7

(* The tags of a group are finitely many, and are counted page by page. *)
LEMMA TagsCounted ==
    ASSUME NEW T \in SUBSET (Asg \X Key), NEW a \in Asg
    PROVE  IsFiniteSet(TagsOf(T, a)) /\ Cardinality(TagsOf(T, a)) \in Nat
<1>1. IsFiniteSet(Asg \X Key)
  BY DiscoveryAssumption, FS_Product
<1>2. TagsOf(T, a) \subseteq Asg \X Key
  BY DEF TagsOf
<1> QED BY <1>1, <1>2, FS_Subset, FS_CardinalityType

LEMMA PageCounted ==
    ASSUME NEW T \in SUBSET (Asg \X Key), NEW U \in SUBSET (Asg \X Key), T \cap U = {}, NEW a \in Asg
    PROVE  Cardinality(TagsOf(T \cup U, a)) = Cardinality(TagsOf(T, a)) + Cardinality(TagsOf(U, a))
<1> DEFINE S == TagsOf(T, a)
           P == TagsOf(U, a)
<1>1. IsFiniteSet(S) /\ IsFiniteSet(P) /\ Cardinality(S) \in Nat /\ Cardinality(P) \in Nat
  BY TagsCounted
<1>2. TagsOf(T \cup U, a) = S \cup P /\ S \cap P = {}
  BY DEF TagsOf
<1> HIDE DEF S, P
<1>3. Cardinality(S \cup P) = Cardinality(S) + Cardinality(P)
  <2>1. Cardinality(S \cap P) = 0
    BY <1>2, FS_EmptySet
  <2>2. Cardinality(S \cup P) = Cardinality(S) + Cardinality(P) - Cardinality(S \cap P)
    BY <1>1, FS_Union, Zenon
  <2> QED BY <1>1, <2>1, <2>2
<1> QED BY <1>2, <1>3 DEF S, P

LEMMA KeysAsked ==
    ASSUME TagKeys \in Seq(Key)
    PROVE  KeySet \subseteq Key
BY DEF KeySet

(* The tags that should be described, and what a change in AWS keeps *)
Wanted == Asg \X KeySet
TaggedAll(a) == \A k \in KeySet : <<a, k>> \in tagged

FlagsInv == flags.specs \in Seq(Seq(DOMAIN Atoi)) /\ (AutoDiscovery => flags.auto.tag \in Seq(Seq(Key)))

AnyGroup == [name : Seq(Asg \cup DOMAIN Atoi), min : Int, max : Int]
Proper(g) == 0 <= g.min /\ g.min <= g.max
ProperBounds == \A i \in 1 .. Len(groups) : Proper(groups[i])

(* --nodes: every specification read so far was accepted. *)
StaticInv ==
    /\ Static /\ ~AutoDiscovery
    /\ todo \in Seq(Seq(DOMAIN Atoi)) /\ Len(groups) + Len(todo) = Len(flags.specs)

(* What holds from the first query on *)
QueryInv ==
    /\ AutoDiscovery /\ ~Static /\ flags.auto.tag # <<>> /\ TagKeys # <<>>
    /\ tagged \subseteq exists \X Key /\ exists \subseteq Asg
    /\ tags \subseteq Wanted /\ tags \subseteq carried /\ tagged \subseteq carried
    /\ same => carried = tagged

(* The pages of DescribeTags: nothing told is left out, and if nothing     *)
(* else was told the occurrences are the tags of the group.                *)
TagsInv ==
    /\ groups = <<>>
    /\ todo \subseteq Wanted /\ tags \cap todo = {}
    /\ asgNameOccurrences \in [Asg -> Nat]
    /\ clean => \A a \in Asg : asgNameOccurrences[a] = Cardinality(TagsOf(tags, a))
    /\ same => tags = (Wanted \ todo) \cap tagged

(* The pages of DescribeAutoScalingGroups: the groups with all tags are    *)
(* those still to be described and those added.                            *)
NamesInv ==
    /\ todo \subseteq Asg
    /\ clean =>
        /\ todo \subseteq {a \in Asg : AllKeys(a)}
        /\ Names \subseteq {<<a>> : a \in {b \in Asg : AllKeys(b)}}
        /\ same => \A a \in Asg : TaggedAll(a) => a \in todo \/ <<a>> \in Names
    /\ IF first THEN todo # {} /\ groups = <<>> ELSE groups # <<>>

DiscoveryInv ==
    /\ groups \in Seq(AnyGroup)
    /\ ProperBounds
    /\ stage \in {"idle", "start"} =>
        groups = <<>> /\ asgNameOccurrences = [a \in Asg |-> 0] /\ tags = {} /\ first = TRUE
    /\ stage # "idle" => FlagsInv
    /\ stage = "start" => tagged \subseteq exists \X Key /\ exists \subseteq Asg
    /\ stage = "static" => StaticInv
    /\ stage = "tags" => QueryInv /\ TagsInv
    /\ stage = "names" => QueryInv /\ NamesInv
    /\ GroupsAsAsked

LEMMA InitDiscovery == DiscoveryInit => DiscoveryInv
<1> SUFFICES ASSUME DiscoveryInit PROVE DiscoveryInv
  OBVIOUS
<1>1. stage = "idle" /\ groups = <<>> /\ asgNameOccurrences = [a \in Asg |-> 0] /\ tags = {} /\ first = TRUE
  BY DEF DiscoveryInit
<1>2. groups \in Seq(AnyGroup) /\ ProperBounds
  BY <1>1 DEF ProperBounds
<1> QED BY <1>1, <1>2 DEF DiscoveryInv, GroupsAsAsked

(* A start that fails leaves nothing to be shown. *)
LEMMA StopKeeps ==
    ASSUME DiscoveryInv, stage # "idle", stage' \in {"none", "fatal", "panic"}, UNCHANGED <<flags, groups>>
    PROVE  DiscoveryInv'
BY DEF DiscoveryInv, ProperBounds, FlagsInv, AutoDiscovery, GroupsAsAsked

LEMMA StartUpStep ==
    ASSUME DiscoveryInv, StartUp
    PROVE  DiscoveryInv'
<1>1. /\ stage = "idle" /\ stage' = "start" /\ UNCHANGED <<groups, asgNameOccurrences, tags, first>>
      /\ flags'.specs \in Specs /\ flags'.auto \in AutoSpecs
      /\ exists' \subseteq Asg /\ tagged' \subseteq exists' \X Key
  BY DEF StartUp, counted
<1>2. FlagsInv'
  BY <1>1, DiscoveryAssumption DEF FlagsInv, AutoDiscovery
<1> QED BY <1>1, <1>2 DEF DiscoveryInv, ProperBounds, GroupsAsAsked

LEMMA BuildStaticStep ==
    ASSUME DiscoveryInv, BuildStatic
    PROVE  DiscoveryInv'
<1>1. /\ stage = "start" /\ stage' = "static" /\ UNCHANGED <<flags, groups>> /\ todo' = flags.specs
      /\ Static /\ ~AutoDiscovery /\ groups = <<>> /\ FlagsInv
  BY DEF BuildStatic, DiscoveryInv
<1>2. FlagsInv' /\ StaticInv'
  BY <1>1 DEF FlagsInv, StaticInv, Static, AutoDiscovery
<1> QED BY <1>1, <1>2 DEF DiscoveryInv, ProperBounds, GroupsAsAsked

(* A specification that is accepted has proper bounds. *)
LEMMA ParsedBounds ==
    ASSUME NEW spec \in Seq(DOMAIN Atoi), SpecFromString(spec)
    PROVE  /\ Parsed(spec) \in AnyGroup
           /\ Proper(Parsed(spec))
<1>1. Len(spec) \in Nat /\ Len(spec) >= 3 /\ Atoi[spec[1]] # NotANumber /\ Atoi[spec[2]] # NotANumber
  BY DEF SpecFromString
<1>2. spec[1] \in DOMAIN Atoi /\ spec[2] \in DOMAIN Atoi
  BY <1>1
<1>3. Atoi[spec[1]] \in Int /\ Atoi[spec[2]] \in Int
  BY <1>1, <1>2, DiscoveryAssumption
<1>4. SubSeq(spec, 3, Len(spec)) \in Seq(Asg \cup DOMAIN Atoi)
  <2>1. SubSeq(spec, 3, Len(spec)) = [i \in 1 .. Len(spec) - 2 |-> spec[i + 2]]
    BY <1>1
  <2>2. \A i \in 1 .. Len(spec) - 2 : spec[i + 2] \in Asg \cup DOMAIN Atoi
    BY <1>1
  <2>3. Len(spec) - 2 \in Nat
    BY <1>1
  <2> QED BY <2>1, <2>2, <2>3
<1>5. Validate(Parsed(spec))
  BY DEF SpecFromString
<1> QED BY <1>3, <1>4, <1>5 DEF Parsed, buildAsg, Validate, AnyGroup, Proper

LEMMA AddNodeGroupStep ==
    ASSUME DiscoveryInv, AddNodeGroup
    PROVE  DiscoveryInv'
<1>1. /\ stage = "static" /\ todo # <<>> /\ UNCHANGED flags
      /\ StaticInv /\ FlagsInv /\ groups \in Seq(AnyGroup) /\ ProperBounds
  BY DEF AddNodeGroup, DiscoveryInv
<1>2. CASE ~SpecFromString(Head(todo))
  BY <1>1, <1>2, StopKeeps DEF AddNodeGroup
<1>3. CASE SpecFromString(Head(todo))
  <2>1. stage' = "static" /\ groups' = Append(groups, Parsed(Head(todo))) /\ todo' = Tail(todo)
    BY <1>1, <1>3 DEF AddNodeGroup
  <2>2. Head(todo) \in Seq(DOMAIN Atoi) /\ Tail(todo) \in Seq(Seq(DOMAIN Atoi)) /\ Len(todo) = Len(Tail(todo)) + 1
    BY <1>1 DEF StaticInv
  <2>3. Parsed(Head(todo)) \in AnyGroup /\ Proper(Parsed(Head(todo)))
    BY <1>3, <2>2, ParsedBounds
  <2> DEFINE g == Parsed(Head(todo))
  <2> HIDE DEF g
  <2>4. groups' \in Seq(AnyGroup) /\ Len(groups') = Len(groups) + 1
    BY <1>1, <2>1, <2>3 DEF g
  <2>5. \A i \in 1 .. Len(groups') : groups'[i] = g \/ (i \in 1 .. Len(groups) /\ groups'[i] = groups[i])
    BY <1>1, <2>1, <2>3, <2>4 DEF g
  <2>6. ProperBounds'
    BY <1>1, <2>3, <2>5 DEF ProperBounds, g
  <2>7. FlagsInv' /\ StaticInv'
    <3>1. Len(groups) \in Nat /\ Len(Tail(todo)) \in Nat /\ Len(groups) + Len(todo) = Len(flags.specs)
      BY <1>1, <2>2 DEF StaticInv
    <3>2. Len(groups') + Len(todo') = Len(flags'.specs)
      <4>1. Len(groups') = Len(groups) + 1 /\ Len(todo) = Len(todo') + 1 /\ flags'.specs = flags.specs
        BY <1>1, <2>1, <2>2, <2>4
      <4>2. Len(todo') \in Nat
        BY <2>1, <2>2
      <4> QED BY <3>1, <4>1, <4>2
    <3> QED BY <1>1, <2>1, <2>2, <3>2 DEF FlagsInv, StaticInv, Static, AutoDiscovery
  <2> QED BY <2>1, <2>4, <2>6, <2>7 DEF DiscoveryInv, GroupsAsAsked
<1> QED BY <1>2, <1>3

LEMMA StaticDoneStep ==
    ASSUME DiscoveryInv, StaticDone
    PROVE  DiscoveryInv'
<1>1. /\ stage = "static" /\ todo = <<>> /\ stage' = "built" /\ UNCHANGED <<flags, groups>>
      /\ StaticInv /\ FlagsInv /\ ProperBounds
  BY DEF StaticDone, Stop, DiscoveryInv
<1>2. Len(groups) = Len(flags.specs) /\ Len(flags.specs) > 0
  BY <1>1 DEF StaticInv, FlagsInv, Static, DiscoveryInv
<1>3. GroupsAsAsked'
  BY <1>1, <1>2 DEF GroupsAsAsked, ProperBounds, Proper, StaticInv, Static, AutoDiscovery
<1> QED BY <1>1, <1>3 DEF DiscoveryInv, ProperBounds, FlagsInv, AutoDiscovery

LEMMA BuildAutoStep ==
    ASSUME DiscoveryInv, BuildAuto
    PROVE  DiscoveryInv'
<1>1. /\ stage = "start" /\ stage' = "tags" /\ UNCHANGED <<flags, groups, asgNameOccurrences, tags, exists, tagged>>
      /\ ~Static /\ AutoDiscovery /\ flags.auto.tag # <<>> /\ TagKeys # <<>>
      /\ todo' = Asg \X KeySet /\ carried' = tagged /\ groups = <<>> /\ FlagsInv
      /\ asgNameOccurrences = [a \in Asg |-> 0] /\ tags = {}
      /\ tagged \subseteq exists \X Key /\ exists \subseteq Asg
  BY DEF BuildAuto, counted, DiscoveryInv
<1>2. FlagsInv' /\ QueryInv'
  BY <1>1 DEF FlagsInv, QueryInv, Static, AutoDiscovery, TagKeys
<1>3. TagsInv'
  <2>1. \A a \in Asg : TagsOf({}, a) = {}
    BY DEF TagsOf
  <2>2. Cardinality({}) = 0
    BY FS_EmptySet, Zenon
  <2>3. \A a \in Asg : asgNameOccurrences'[a] = Cardinality(TagsOf(tags', a))
    BY <1>1, <2>1, <2>2
  <2> QED BY <1>1, <2>3 DEF TagsInv, Wanted, KeySet, TagKeys
<1> QED BY <1>1, <1>2, <1>3 DEF DiscoveryInv, ProperBounds, GroupsAsAsked

(* The flags do not change. *)
LEMMA FlagsKept ==
    ASSUME FlagsInv, UNCHANGED flags
    PROVE  FlagsInv' /\ Wanted' = Wanted /\ KeySet' = KeySet /\ TagKeys' = TagKeys
BY DEF FlagsInv, AutoDiscovery, Wanted, KeySet, TagKeys

LEMMA DescribeTagsStep ==
    ASSUME DiscoveryInv, DescribeTags
    PROVE  DiscoveryInv'
<1>1. /\ stage = "tags" /\ UNCHANGED <<flags, groups, exists, tagged, carried, same>>
      /\ FlagsInv /\ QueryInv /\ TagsInv
  BY DEF DescribeTags, account, DiscoveryInv
<1>2. CASE stage' = "fatal"
  BY <1>1, <1>2, StopKeeps
<1>3. CASE stage' # "fatal"
  <2>1. PICK page \in SUBSET todo, extra \in SUBSET tagged :
          /\ Besides(extra)
          /\ asgNameOccurrences' = [a \in Asg |->
                asgNameOccurrences[a] + Cardinality(TagsOf(page \cap tagged, a)) + Cardinality(TagsOf(extra, a))]
          /\ tags' = tags \cup (page \cap tagged) /\ todo' = todo \ page /\ stage' = "tags"
    BY <1>1, <1>3 DEF DescribeTags
  <2>2. TagsInv'
    <3> DEFINE told == page \cap tagged
    <3>1. KeySet \subseteq Key
      BY <1>1, KeysAsked DEF FlagsInv, QueryInv, TagKeys
    <3>2. /\ told \in SUBSET (Asg \X Key) /\ extra \in SUBSET (Asg \X Key) /\ tags \in SUBSET (Asg \X Key)
          /\ tags \cap told = {}
      BY <1>1, <3>1 DEF QueryInv, TagsInv, Wanted
    <3> HIDE DEF told
    <3>3. \A a \in Asg : /\ Cardinality(TagsOf(told, a)) \in Nat /\ Cardinality(TagsOf(extra, a)) \in Nat
                         /\ Cardinality(TagsOf(tags \cup told, a)) = Cardinality(TagsOf(tags, a)) + Cardinality(TagsOf(told, a))
      BY <3>2, TagsCounted, PageCounted
    <3>4. asgNameOccurrences' \in [Asg -> Nat]
      <4>1. \A a \in Asg : asgNameOccurrences[a] \in Nat
        BY <1>1 DEF TagsInv
      <4>2. asgNameOccurrences' = [a \in Asg |->
                asgNameOccurrences[a] + Cardinality(TagsOf(told, a)) + Cardinality(TagsOf(extra, a))]
        BY <2>1, Zenon DEF told
      <4>3. \A a \in Asg :
                asgNameOccurrences[a] + Cardinality(TagsOf(told, a)) + Cardinality(TagsOf(extra, a)) \in Nat
        BY <3>3, <4>1
      <4> QED BY <4>2, <4>3, Zenon
    <3>5. ASSUME clean', NEW a \in Asg PROVE asgNameOccurrences'[a] = Cardinality(TagsOf(tags', a))
      <4>1. extra = {} /\ clean
        BY <2>1, <3>5 DEF Besides
      <4>2. TagsOf(extra, a) = {}
        BY <4>1 DEF TagsOf
      <4>3. Cardinality(TagsOf(extra, a)) = 0
        BY <4>2, FS_EmptySet, Zenon
      <4>4. asgNameOccurrences[a] = Cardinality(TagsOf(tags, a)) /\ asgNameOccurrences[a] \in Nat
        BY <1>1, <4>1 DEF TagsInv
      <4>5. asgNameOccurrences'[a] = asgNameOccurrences[a] + Cardinality(TagsOf(told, a)) + Cardinality(TagsOf(extra, a))
        BY <2>1 DEF told
      <4>6. tags' = tags \cup told
        BY <2>1, Zenon DEF told
      <4>7. /\ Cardinality(TagsOf(tags', a)) = Cardinality(TagsOf(tags, a)) + Cardinality(TagsOf(told, a))
            /\ Cardinality(TagsOf(told, a)) \in Nat
        BY <3>3, <4>6, Zenon
      <4> QED BY <4>3, <4>4, <4>5, <4>7
    <3>6. todo' \subseteq Wanted' /\ tags' \cap todo' = {} /\ (same' => tags' = (Wanted' \ todo') \cap tagged')
      BY <1>1, <2>1, FlagsKept DEF TagsInv
    <3> QED BY <1>1, <3>4, <3>5, <3>6 DEF TagsInv
  <2>3. QueryInv'
    <3>1. page \cap tagged \subseteq carried
      BY <1>1 DEF QueryInv
    <3> QED BY <1>1, <2>1, <3>1, FlagsKept DEF QueryInv, TagsInv, AutoDiscovery, Static
  <2> QED BY <1>1, <2>1, <2>2, <2>3, FlagsKept DEF DiscoveryInv, ProperBounds, GroupsAsAsked
<1> QED BY <1>2, <1>3

LEMMA SelectNamesStep ==
    ASSUME DiscoveryInv, SelectNames
    PROVE  DiscoveryInv'
<1>1. /\ stage = "tags" /\ todo = {} /\ UNCHANGED <<flags, groups, tags, exists, tagged, carried, same, clean>>
      /\ todo' = {a \in Asg : HasAll(a)} /\ first' = TRUE
      /\ FlagsInv /\ QueryInv /\ TagsInv
  BY DEF SelectNames, account, counted, DiscoveryInv
<1>2. CASE todo' = {}
  BY <1>1, <1>2, StopKeeps DEF SelectNames
<1>3. CASE todo' # {}
  <2>1. stage' = "names"
    BY <1>3 DEF SelectNames
  <2>2. TagKeys \in Seq(Key) /\ tags \subseteq Asg \X KeySet
    BY <1>1 DEF FlagsInv, QueryInv, TagKeys, Wanted
  <2>3. ASSUME clean, NEW a \in Asg PROVE HasAll(a) <=> AllKeys(a) /\ Cardinality(KeySet) = Len(TagKeys)
    BY <1>1, <2>2, <2>3, CountedMeansAll DEF TagsInv
  <2>4. clean => todo' = {a \in Asg : AllKeys(a)}
    BY <1>1, <1>3, <2>3
  <2>5. \A a : AllKeys(a)' <=> AllKeys(a)
    BY <1>1, FlagsKept DEF AllKeys
  <2>6. groups' = <<>> /\ Names' = {}
    BY <1>1 DEF TagsInv, Names
  <2>7. ASSUME clean', same', NEW a \in Asg, TaggedAll(a)' PROVE a \in todo'
    BY <1>1, <2>4, <2>7, FlagsKept DEF TaggedAll, AllKeys, TagsInv, Wanted
  <2>8. NamesInv'
    BY <1>1, <1>3, <2>4, <2>5, <2>6, <2>7 DEF NamesInv
  <2>9. QueryInv'
    BY <1>1, FlagsKept DEF QueryInv, AutoDiscovery, Static
  <2> QED BY <1>1, <2>1, <2>8, <2>9, FlagsKept DEF DiscoveryInv, ProperBounds, GroupsAsAsked
<1> QED BY <1>2, <1>3

(* A page adds exactly its groups. *)
LEMMA DescribedGroups ==
    ASSUME NEW S \in SUBSET Asg, NEW s \in Orders(S)
    PROVE  LET D == Described(s)
           IN /\ D \in Seq(AnyGroup)
              /\ \A i \in 1 .. Len(D) : Proper(D[i]) /\ \E a \in S : D[i].name = <<a>>
              /\ \A a \in S : \E i \in 1 .. Len(D) : D[i].name = <<a>>
<1> DEFINE D == Described(s)
           n == Cardinality(S)
<1>1. n \in Nat
  BY DiscoveryAssumption, FS_Subset, FS_CardinalityType
<1>2. s \in [1 .. n -> S] /\ \A a \in S : \E i \in 1 .. n : s[i] = a
  BY DEF Orders
<1>3. D = [i \in 1 .. n |-> buildAsg(<<s[i]>>, Limits[s[i]].min, Limits[s[i]].max)]
  BY <1>2 DEF Described
<1> HIDE DEF n, D
<1>4. ASSUME NEW i \in 1 .. n PROVE D[i] \in AnyGroup /\ Proper(D[i]) /\ D[i].name = <<s[i]>>
  <2>1. D[i] = buildAsg(<<s[i]>>, Limits[s[i]].min, Limits[s[i]].max)
    BY <1>3
  <2>2. /\ s[i] \in Asg /\ <<s[i]>> \in Seq(Asg \cup DOMAIN Atoi)
        /\ Limits[s[i]].min \in Nat /\ Limits[s[i]].max \in Nat /\ Limits[s[i]].min <= Limits[s[i]].max
    BY <1>2, DiscoveryAssumption
  <2> QED BY <2>1, <2>2 DEF buildAsg, AnyGroup, Proper
<1>5. D \in Seq(AnyGroup) /\ Len(D) = n
  BY <1>1, <1>3, <1>4
<1>6. \A i \in 1 .. n : s[i] \in S
  BY <1>2
<1> QED BY <1>2, <1>4, <1>5, <1>6 DEF D

LEMMA DescribeGroupsStep ==
    ASSUME DiscoveryInv, DescribeGroups
    PROVE  DiscoveryInv'
<1>1. /\ stage = "names" /\ UNCHANGED <<flags, tags, exists, tagged, carried, same>> /\ (clean' => clean)
      /\ FlagsInv /\ QueryInv /\ NamesInv /\ groups \in Seq(AnyGroup) /\ ProperBounds
  BY DEF DescribeGroups, account, counted, Besides, DiscoveryInv
<1>2. CASE stage' = "fatal"
  BY <1>1, <1>2, StopKeeps DEF DescribeGroups
<1>3. CASE stage' # "fatal"
  <2>0. PICK page \in SUBSET todo, extra \in SUBSET exists : \E s \in Orders((page \cap exists) \cup extra) :
          /\ Besides(extra)
          /\ ~(first /\ page \cap exists = {})
          /\ groups' = groups \o Described(s) /\ todo' = todo \ page /\ first' = FALSE /\ stage' = "names"
    BY <1>1, <1>3, Zenon DEF DescribeGroups
  <2>1. PICK s \in Orders((page \cap exists) \cup extra) :
          /\ Besides(extra)
          /\ ~(first /\ page \cap exists = {})
          /\ groups' = groups \o Described(s) /\ todo' = todo \ page /\ first' = FALSE /\ stage' = "names"
    BY <2>0
  <2> DEFINE S == (page \cap exists) \cup extra
             D == Described(s)
  <2>2. S \in SUBSET Asg /\ s \in Orders(S)
    BY <1>1 DEF NamesInv, QueryInv
  <2>3. /\ D \in Seq(AnyGroup)
        /\ \A i \in 1 .. Len(D) : Proper(D[i]) /\ \E a \in S : D[i].name = <<a>>
        /\ \A a \in S : \E i \in 1 .. Len(D) : D[i].name = <<a>>
    BY <2>2, DescribedGroups
  <2>4. groups' = groups \o D /\ (clean' => S \subseteq todo) /\ (first => S # {})
    BY <2>1 DEF Besides
  <2> HIDE DEF D, S
  <2>5. Len(groups) \in Nat /\ Len(D) \in Nat /\ groups' \in Seq(AnyGroup) /\ Len(groups') = Len(groups) + Len(D)
    BY <1>1, <2>3, <2>4
  <2>6. /\ \A i \in 1 .. Len(groups) : groups'[i] = groups[i]
        /\ \A i \in 1 .. Len(D) : groups'[Len(groups) + i] = D[i]
    BY <1>1, <2>3, <2>4, <2>5
  <2>7. ASSUME NEW i \in 1 .. Len(groups')
        PROVE  i \in 1 .. Len(groups) \/ \E j \in 1 .. Len(D) : i = Len(groups) + j
    <3>1. CASE i > Len(groups)
      <4>1. i - Len(groups) \in 1 .. Len(D) /\ i = Len(groups) + (i - Len(groups))
        BY <2>5, <3>1
      <4> QED BY <4>1, Zenon
    <3> QED BY <2>5, <3>1
  <2>8. ProperBounds'
    BY <1>1, <2>3, <2>6, <2>7 DEF ProperBounds
  <2>9. Names' = Names \cup {<<a>> : a \in S}
    <3>1. Names' \subseteq Names \cup {<<a>> : a \in S}
      <4> SUFFICES ASSUME NEW i \in 1 .. Len(groups')
                   PROVE  groups'[i].name \in Names \cup {<<a>> : a \in S}
        BY DEF Names
      <4>1. CASE i \in 1 .. Len(groups)
        BY <2>6, <4>1 DEF Names
      <4>2. ASSUME NEW j \in 1 .. Len(D), i = Len(groups) + j
            PROVE  groups'[i].name \in {<<a>> : a \in S}
        BY <2>3, <2>6, <4>2
      <4>3. i \in 1 .. Len(groups) \/ \E j \in 1 .. Len(D) : i = Len(groups) + j
        BY <2>7
      <4> QED BY <4>1, <4>2, <4>3, Zenon
    <3>2. Names \subseteq Names'
      <4>1. \A i \in 1 .. Len(groups) : i \in 1 .. Len(groups')
        BY <2>5
      <4> QED BY <2>6, <4>1 DEF Names
    <3>3. ASSUME NEW a \in S PROVE <<a>> \in Names'
      <4>1. PICK i \in 1 .. Len(D) : D[i].name = <<a>>
        BY <2>3
      <4>2. Len(groups) + i \in 1 .. Len(groups') /\ groups'[Len(groups) + i].name = <<a>>
        BY <2>5, <2>6, <4>1
      <4> QED BY <4>2 DEF Names
    <3> QED BY <3>1, <3>2, <3>3
  <2>10. groups' # <<>>
    <3>1. CASE first
      <4>1. Len(D) >= 1
        BY <2>3, <2>4, <2>5, <3>1
      <4> QED BY <2>5, <4>1
    <3>2. CASE ~first
      <4>1. Len(groups) >= 1
        BY <1>1, <2>5, <3>2 DEF NamesInv
      <4> QED BY <2>5, <4>1
    <3> QED BY <3>1, <3>2
  <2>11. \A a : AllKeys(a)' <=> AllKeys(a)
    BY <1>1, FlagsKept DEF AllKeys
  <2>12. ASSUME clean', same', NEW a \in Asg, TaggedAll(a)' PROVE a \in todo' \/ <<a>> \in Names'
    <3>1. TaggedAll(a) /\ same
      BY <1>1, <2>12, FlagsKept DEF TaggedAll
    <3>2. a \in todo \/ <<a>> \in Names
      BY <1>1, <2>12, <3>1 DEF NamesInv
    <3>3. TagKeys \in Seq(Key) /\ TagKeys # <<>>
      BY <1>1 DEF FlagsInv, QueryInv, TagKeys
    <3>4. TagKeys[1] \in KeySet
      BY <3>3 DEF KeySet
    <3>5. a \in exists
      BY <1>1, <3>1, <3>4, Zenon DEF TaggedAll, QueryInv
    <3> QED BY <2>1, <2>9, <3>2, <3>5 DEF S
  <2>13. NamesInv'
    <3>1. todo' \subseteq Asg /\ (clean' => todo' \subseteq {a \in Asg : AllKeys(a)'})
      BY <1>1, <2>1, <2>11 DEF NamesInv
    <3>2. clean' => Names' \subseteq {<<a>> : a \in {b \in Asg : AllKeys(b)'}}
      BY <1>1, <2>4, <2>9, <2>11 DEF NamesInv
    <3> QED BY <2>1, <2>10, <2>12, <3>1, <3>2 DEF NamesInv
  <2>14. QueryInv'
    BY <1>1, FlagsKept DEF QueryInv, AutoDiscovery, Static
  <2> QED BY <1>1, <2>1, <2>5, <2>8, <2>13, <2>14, FlagsKept DEF DiscoveryInv, GroupsAsAsked
<1> QED BY <1>2, <1>3

LEMMA AutoDoneStep ==
    ASSUME DiscoveryInv, AutoDone
    PROVE  DiscoveryInv'
<1>1. /\ stage = "names" /\ todo = {} /\ stage' = "built"
      /\ UNCHANGED <<flags, tags, groups, exists, tagged, carried, same, clean>>
      /\ FlagsInv /\ QueryInv /\ NamesInv /\ ProperBounds
  BY DEF AutoDone, Stop, account, counted, DiscoveryInv
<1>2. groups # <<>>
  BY <1>1 DEF NamesInv
<1>3. clean => \A a \in Asg, k \in KeySet : <<a>> \in Names => <<a, k>> \in carried
  BY <1>1 DEF NamesInv, QueryInv, AllKeys
<1>4. ASSUME clean, same PROVE Names = {<<a>> : a \in {b \in Asg : TaggedAll(b)}}
  <2>1. \A a \in Asg : AllKeys(a) => TaggedAll(a)
    BY <1>1, <1>4 DEF QueryInv, AllKeys, TaggedAll
  <2>2. Names \subseteq {<<a>> : a \in {b \in Asg : TaggedAll(b)}}
    BY <1>1, <1>4, <2>1 DEF NamesInv
  <2> QED BY <1>1, <1>4, <2>2 DEF NamesInv
<1>5. GroupsAsAsked
  <2>1. ~Static
    BY <1>1 DEF QueryInv
  <2> QED BY <1>1, <1>2, <1>3, <1>4, <2>1 DEF GroupsAsAsked, ProperBounds, Proper, TaggedAll
<1>6. GroupsAsAsked'
  <2>1. Names' = Names /\ ~Static'
    BY <1>1 DEF Names, QueryInv, Static
  <2> QED BY <1>1, <1>2, <1>3, <1>4, <2>1, FlagsKept DEF GroupsAsAsked, ProperBounds, Proper, TaggedAll
<1> QED BY <1>1, <1>6, FlagsKept DEF DiscoveryInv, ProperBounds

LEMMA ChangeAwsStep ==
    ASSUME DiscoveryInv, ChangeAws
    PROVE  DiscoveryInv'
<1>1. /\ stage \in {"tags", "names"} /\ UNCHANGED <<stage, flags, todo, asgNameOccurrences, tags, first, groups, clean>>
      /\ carried' = carried \cup tagged' /\ same' = FALSE
      /\ FlagsInv /\ QueryInv /\ groups \in Seq(AnyGroup) /\ ProperBounds
      /\ (stage = "tags" => TagsInv) /\ (stage = "names" => NamesInv)
  BY DEF ChangeAws, counted, DiscoveryInv
<1>2. tagged' \subseteq exists' \X Key /\ exists' \subseteq Asg
  BY <1>1 DEF ChangeAws, QueryInv
<1>3. QueryInv'
  BY <1>1, <1>2, FlagsKept DEF QueryInv, AutoDiscovery, Static
<1>4. TagsInv => TagsInv'
  BY <1>1, FlagsKept DEF TagsInv
<1>5. NamesInv => NamesInv'
  <2>1. Names' = Names /\ \A a : AllKeys(a)' <=> AllKeys(a)
    BY <1>1, FlagsKept DEF Names, AllKeys
  <2> QED BY <1>1, <2>1 DEF NamesInv
<1> QED BY <1>1, <1>3, <1>4, <1>5, FlagsKept DEF DiscoveryInv, ProperBounds, GroupsAsAsked

LEMMA NextDiscovery == DiscoveryInv /\ [DiscoveryNext]_discoveryVars => DiscoveryInv'
<1> SUFFICES ASSUME DiscoveryInv, [DiscoveryNext]_discoveryVars PROVE DiscoveryInv'
  OBVIOUS
<1>1. CASE BuildNothing \/ OptionsRefused \/ AutoRefused \/ AutoPanics \/ ApiError
  BY <1>1, StopKeeps DEF BuildNothing, OptionsRefused, AutoRefused, AutoPanics, ApiError, Stop
<1>2. CASE UNCHANGED discoveryVars
  <2>1. Names' = Names /\ KeySet' = KeySet /\ Wanted' = Wanted /\ TagKeys' = TagKeys
    BY <1>2 DEF discoveryVars, Names, KeySet, TagKeys, Wanted
  <2>2. /\ FlagsInv' <=> FlagsInv
        /\ ProperBounds' <=> ProperBounds
        /\ StaticInv' <=> StaticInv
        /\ QueryInv' <=> QueryInv
        /\ TagsInv' <=> TagsInv
    BY <1>2, <2>1, Zenon DEF discoveryVars, account, counted, FlagsInv, ProperBounds, StaticInv, QueryInv, TagsInv, Static, AutoDiscovery
  <2>3. NamesInv' <=> NamesInv
    BY <1>2, <2>1 DEF discoveryVars, account, counted, NamesInv, AllKeys, TaggedAll
  <2>4. GroupsAsAsked' <=> GroupsAsAsked
    BY <1>2, <2>1 DEF discoveryVars, account, GroupsAsAsked, Static, AutoDiscovery
  <2> QED BY <1>2, <2>2, <2>3, <2>4 DEF discoveryVars, account, counted, DiscoveryInv
<1> QED BY <1>1, <1>2, StartUpStep, BuildStaticStep, AddNodeGroupStep, StaticDoneStep, BuildAutoStep,
           DescribeTagsStep, SelectNamesStep, DescribeGroupsStep, AutoDoneStep, ChangeAwsStep DEF DiscoveryNext

(* A controller that starts has the groups it was asked to have, with      *)
(* proper bounds, for all flags and accounts, however AWS cuts its answers *)
(* into pages and whatever changes between them.  Of the groups looked up  *)
(* by their tags it says so only if the follow-up pages told each tag once *)
(* and none that was not asked for, which the code leaves to AWS.          *)
THEOREM GroupsFoundAsAsked == DiscoverySpec => []GroupsAsAsked
BY InitDiscovery, NextDiscovery, PTL DEF DiscoverySpec, DiscoveryInv
=============================================================================
