---------------------------- MODULE GroupDiscovery ----------------------------
(***************************************************************************)
(* How the node groups are found when the controller starts: parsed from   *)
(* --nodes, or looked up by their tags in AWS, page by page, while the     *)
(* groups and their tags may change.  The follow-up pages are asked for    *)
(* with the token alone.  That they go on with the query of the first page *)
(* is up to AWS: one may also tell what was told or not asked for.         *)
(***************************************************************************)
EXTENDS Integers, Sequences, FiniteSets

CONSTANTS
    Asg, Key,
    Limits,         \* Limits[a]: [min, max] of group a in AWS
    Provider,       \* values of --cloud-provider
    Specs,          \* values of --nodes: lists of specs, a spec a list of tokens
    AutoSpecs,      \* values of the auto discovery spec: NoSpec or
                    \* [parts, discoverer, parameter, tag], tag <<keys>>, or
                    \* <<>> if there is no "="
    NoSpec,
    Atoi,           \* Atoi[token]: its number, NotANumber if it has none
    NotANumber,
    MaxChanges      \* bound

(* AWS keeps the bounds of its groups in order. *)
ASSUME DiscoveryAssumption ==
    /\ IsFiniteSet(Asg) /\ IsFiniteSet(Key)
    /\ \A a \in Asg : Limits[a].min \in Nat /\ Limits[a].max \in Nat /\ Limits[a].min <= Limits[a].max
    /\ \A token \in DOMAIN Atoi : Atoi[token] \in Int \cup {NotANumber}
    /\ Specs \subseteq Seq(Seq(DOMAIN Atoi))
    /\ \A s \in AutoSpecs \ {NoSpec} : s.tag \in Seq(Seq(Key))

VARIABLES
    stage,             \* "idle", "start", "static", "tags", "names", "built", "none", "fatal", "panic"
    flags,          \* [provider, specs, auto]
    todo,           \* specs to add, or tags or names to be described
    asgNameOccurrences, \* per group, how many tag descriptions were received
    first,          \* the next page is the first one
    groups,         \* the groups added to the provider: [name, min, max]
    exists, tagged, \* AWS: the groups and their tags, pairs <<group, key>>
    tags,           \* history: the pairs asked for that were told
    carried,        \* history: the tags at some time of the query
    same, clean,    \* history: nothing changed; nothing else was told
    changes

counted == <<asgNameOccurrences, tags>>
account == <<exists, tagged, carried, same>>
discoveryVars == <<stage, flags, todo, counted, first, groups, account, clean, changes>>

DiscoveryInit ==
    /\ stage = "idle"
    /\ flags = [provider |-> "", specs |-> <<>>, auto |-> NoSpec]
    /\ todo = <<>> /\ first = TRUE
    /\ asgNameOccurrences = [a \in Asg |-> 0] /\ tags = {}
    /\ groups = <<>>
    /\ exists = {} /\ tagged = {}
    /\ carried = {} /\ same = TRUE /\ clean = TRUE /\ changes = 0

(* The controller is started with some flags, in some account. *)
StartUp ==
    /\ stage = "idle"
    /\ stage' = "start"
    /\ flags' \in [provider : Provider, specs : Specs, auto : AutoSpecs]
    /\ exists' \in SUBSET Asg
    /\ tagged' \in SUBSET (exists' \X Key)
    /\ UNCHANGED <<todo, counted, first, groups, carried, same, clean, changes>>

-----------------------------------------------------------------------------
buildAsg(name, min, max) == [name |-> name, min |-> min, max |-> max]

(* NodeGroupSpec.Validate, with supportScaleToZero *)
Validate(g) == g.min >= 0 /\ g.max >= g.min /\ g.name # <<"">>

(* strings.SplitN(value, ":", 3): the name takes what is left. *)
Parsed(spec) == buildAsg(SubSeq(spec, 3, Len(spec)), Atoi[spec[1]], Atoi[spec[2]])

SpecFromString(spec) ==
    /\ Len(spec) >= 3
    /\ Atoi[spec[1]] # NotANumber /\ Atoi[spec[2]] # NotANumber
    /\ Validate(Parsed(spec))

-----------------------------------------------------------------------------
Stop(why) == stage' = why /\ UNCHANGED <<flags, todo, counted, first, groups, account, clean, changes>>

Static == Len(flags.specs) > 0
AutoDiscovery == flags.auto # NoSpec

(* Anything but "aws" leaves the controller without a provider. *)
BuildNothing == stage = "start" /\ flags.provider # "aws" /\ Stop("none")

OptionsRefused == stage = "start" /\ flags.provider = "aws" /\ Static = AutoDiscovery /\ Stop("fatal")

BuildStatic ==
    /\ stage = "start" /\ flags.provider = "aws" /\ Static /\ ~AutoDiscovery
    /\ stage' = "static"
    /\ todo' = flags.specs
    /\ UNCHANGED <<flags, counted, first, groups, account, clean, changes>>

AddNodeGroup ==
    /\ stage = "static" /\ todo # <<>>
    /\ IF SpecFromString(Head(todo))
         THEN groups' = Append(groups, Parsed(Head(todo))) /\ todo' = Tail(todo) /\ stage' = stage
         ELSE stage' = "fatal" /\ UNCHANGED <<groups, todo>>
    /\ UNCHANGED <<flags, counted, first, account, clean, changes>>

StaticDone == stage = "static" /\ todo = <<>> /\ Stop("built")

Supported == flags.auto.parts = 2 /\ flags.auto.discoverer = "asg" /\ flags.auto.parameter = "tag"
TagKeys == flags.auto.tag[1]
KeySet == {TagKeys[i] : i \in 1 .. Len(TagKeys)}

AutoRefused ==
    /\ stage = "start" /\ flags.provider = "aws" /\ ~Static /\ AutoDiscovery
    /\ Supported => flags.auto.tag # <<>> /\ TagKeys = <<>>
    /\ Stop("fatal")

(* paramTokens[1] of a parameter without "=" *)
AutoPanics ==
    /\ stage = "start" /\ flags.provider = "aws" /\ ~Static /\ AutoDiscovery
    /\ Supported /\ flags.auto.tag = <<>>
    /\ Stop("panic")

BuildAuto ==
    /\ stage = "start" /\ flags.provider = "aws" /\ ~Static /\ AutoDiscovery
    /\ Supported /\ flags.auto.tag # <<>> /\ TagKeys # <<>>
    /\ stage' = "tags"
    /\ todo' = Asg \X KeySet
    /\ carried' = tagged /\ same' = TRUE
    /\ UNCHANGED <<flags, counted, first, groups, exists, tagged, clean, changes>>

-----------------------------------------------------------------------------
(* What a follow-up page tells besides. *)
Besides(extra) ==
    IF extra = {} THEN UNCHANGED <<clean, changes>>
    ELSE /\ ~first /\ changes < MaxChanges
         /\ changes' = changes + 1
         /\ clean' = FALSE

TagsOf(T, a) == {t \in T : t[1] = a}

(* A page of DescribeTags: some of the pairs that are still to be told,    *)
(* and maybe tags that were told before or that have other keys.           *)
DescribeTags ==
    /\ stage = "tags" /\ todo # {}
    /\ \E page \in SUBSET todo \ {{}}, extra \in SUBSET (tagged \ todo) :
          /\ Besides(extra)
          /\ IF first /\ page \cap tagged = {}
               THEN stage' = "fatal" /\ UNCHANGED <<todo, counted, first>>
               ELSE /\ asgNameOccurrences' = [a \in Asg |->
                          asgNameOccurrences[a] + Cardinality(TagsOf(page \cap tagged, a)) + Cardinality(TagsOf(extra, a))]
                    /\ tags' = tags \cup (page \cap tagged)
                    /\ todo' = todo \ page
                    /\ first' = FALSE
                    /\ stage' = stage
    /\ UNCHANGED <<flags, groups, account>>

HasAll_Any(a) == asgNameOccurrences[a] > 0

(* Occurrences are counted, not the keys that occur. *)
HasAll(a) == asgNameOccurrences[a] = Len(TagKeys)

SelectNames ==
    /\ stage = "tags" /\ todo = {}
    /\ todo' = {a \in Asg : HasAll(a)}
    /\ stage' = IF todo' = {} THEN "fatal" ELSE "names"
    /\ first' = TRUE
    /\ UNCHANGED <<flags, counted, groups, account, clean, changes>>

Described(s) == [i \in DOMAIN s |-> buildAsg(<<s[i]>>, Limits[s[i]].min, Limits[s[i]].max)]

Orders(S) == {s \in [1 .. Cardinality(S) -> S] : \A a \in S : \E i \in DOMAIN s : s[i] = a}

(* A page of DescribeAutoScalingGroups, in any order *)
DescribeGroups ==
    /\ stage = "names" /\ todo # {}
    /\ \E page \in SUBSET todo \ {{}}, extra \in SUBSET (exists \ todo) :
          /\ Besides(extra)
          /\ IF first /\ page \cap exists = {}
               THEN stage' = "fatal" /\ UNCHANGED <<todo, groups, first>>
               ELSE /\ \E s \in Orders((page \cap exists) \cup extra) : groups' = groups \o Described(s)
                    /\ todo' = todo \ page
                    /\ first' = FALSE
                    /\ stage' = stage
    /\ UNCHANGED <<flags, counted, account>>

ApiError == stage \in {"tags", "names"} /\ Stop("fatal")

AutoDone == stage = "names" /\ todo = {} /\ Stop("built")

-----------------------------------------------------------------------------
(* Somebody tags, untags or deletes a group in AWS. *)
ChangeAws ==
    /\ changes < MaxChanges /\ stage \in {"tags", "names"}
    /\ \/ \E t \in exists \X Key :
            /\ tagged' = IF t \in tagged THEN tagged \ {t} ELSE tagged \cup {t}
            /\ exists' = exists
       \/ \E a \in exists :
            /\ exists' = exists \ {a}
            /\ tagged' = {t \in tagged : t[1] # a}
    /\ carried' = carried \cup tagged'
    /\ same' = FALSE
    /\ changes' = changes + 1
    /\ UNCHANGED <<stage, flags, todo, counted, first, groups, clean>>

DiscoveryNext ==
    \/ StartUp \/ BuildNothing \/ OptionsRefused \/ BuildStatic \/ AddNodeGroup \/ StaticDone
    \/ AutoRefused \/ AutoPanics \/ BuildAuto \/ DescribeTags \/ SelectNames \/ DescribeGroups
    \/ ApiError \/ AutoDone
    \/ ChangeAws

DiscoverySpec == DiscoveryInit /\ [][DiscoveryNext]_discoveryVars

-----------------------------------------------------------------------------
Names == {groups[i].name : i \in 1 .. Len(groups)}

(* A controller that starts has the groups it was asked to have, with      *)
(* bounds it can keep.  No specification is left out because another one   *)
(* was refused.  As long as the pages tell nothing twice and nothing that  *)
(* was not asked for, a group found by its tags has carried every one of   *)
(* them during the query, however the pages were cut and whatever changed  *)
(* between them; when nothing changed exactly those groups are found.      *)
(* Otherwise counting occurrences may take a group that lacks a tag, or    *)
(* miss one that has them all.                                             *)
GroupsAsAsked ==
    stage = "built" =>
        /\ groups # <<>>
        /\ \A i \in 1 .. Len(groups) : 0 <= groups[i].min /\ groups[i].min <= groups[i].max
        /\ Static => Len(groups) = Len(flags.specs)
        /\ AutoDiscovery /\ clean =>
            /\ \A a \in Asg, k \in KeySet : <<a>> \in Names => <<a, k>> \in carried
            /\ same => Names = {<<a>> : a \in {b \in Asg : \A k \in KeySet : <<b, k>> \in tagged}}
=============================================================================
