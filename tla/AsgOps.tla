-------------------------------- MODULE AsgOps --------------------------------
(***************************************************************************)
(* The calls on one Auto Scaling Group (ASG) that the repair loop does not *)
(* make, or makes only with one node: Asg.DecreaseTargetSize, and          *)
(* Asg.DeleteNodes with any list of nodes, down to DeleteInstances and     *)
(* RestartInstances of the manager.  Every request to AWS is a step that   *)
(* may fail; between two of them AWS launches and terminates instances and *)
(* somebody else may resize the group.                                     *)
(***************************************************************************)
EXTENDS Integers, FiniteSets

CONSTANTS
    Own,          \* the instances the group ever has
    Started,      \* those that run at the start
    Foreign,      \* instances of another managed group
    Unmanaged,    \* instances of no managed group
    MinSize,      \* the configured minimum
    AwsMin,       \* the limits AWS keeps
    AwsMax,
    MaxResize     \* how often somebody else may resize the group

ASSUME OpsAssumption ==
    /\ IsFiniteSet(Own) /\ Started \subseteq Own
    /\ MinSize \in Int /\ AwsMin \in Int /\ AwsMax \in Int

AnyInstance == Own \cup Foreign \cup Unmanaged

VARIABLES
    desired,      \* the desired capacity of the group
    state,        \* state[i]: "unused", "running" or "gone", for i \in Own
    request,      \* the request the call makes next, "idle" if there is no call
    delta,        \* DecreaseTargetSize: its argument
    size,         \* the size read
    nodes,        \* DeleteNodes: its argument
    left,         \* DeleteNodes: those the current loop has not come to
    common,       \* DeleteInstances: commonAsg
    killed,       \* history: what this call of DeleteNodes has terminated
    launched,     \* history: launches since DecreaseTargetSize listed the group
    resized,      \* history: how often somebody else has resized the group
    writer        \* history: who set the desired capacity last: "start", "other",
                  \* "decrease", or "raced" for one with launches after the listing

group == <<desired, state>>
locals == <<delta, size, nodes, left, common>>
history == <<killed, launched, resized, writer>>
opsVars == <<group, request, locals, history>>

RunningInstances == {i \in Own : state[i] = "running"}

OpsInit ==
    /\ desired = Cardinality(Started)
    /\ state = [i \in Own |-> IF i \in Started THEN "running" ELSE "unused"]
    /\ request = "idle"
    /\ delta = 0 /\ size = 0 /\ nodes = {} /\ left = {} /\ common = "none"
    /\ killed = {} /\ launched = 0 /\ resized = 0 /\ writer = "start"

(* A call returns, with an error or without: its locals are dead. *)
Return ==
    /\ request' = "idle"
    /\ delta' = 0 /\ size' = 0 /\ nodes' = {} /\ left' = {} /\ common' = "none"
    /\ killed' = {} /\ launched' = 0
    /\ UNCHANGED resized

(* A request to AWS fails, or its answer ends the call with an error. *)
Fails ==
    /\ \/ request \in {"sizeToDecrease", "list", "set", "sizeToDelete"}
       \/ request = "belongs" /\ nodes # {}
       \/ request \in {"common", "terminate"} /\ left # {}
    /\ Return
    /\ UNCHANGED <<group, writer>>

-----------------------------------------------------------------------------
(* DecreaseTargetSize. *)

DecreaseTargetSize(d) ==
    /\ request = "idle"
    /\ d < 0
    /\ delta' = d
    /\ request' = "sizeToDecrease"
    /\ UNCHANGED <<group, size, nodes, left, common, history>>

GetSizeToDecrease ==
    /\ request = "sizeToDecrease"
    /\ size' = desired
    /\ request' = "list"
    /\ UNCHANGED <<group, delta, nodes, left, common, history>>

MayDecrease_OffByOne(sz, d, existing) == sz + d + 1 >= existing

(* Only the request for nodes that do not exist yet may be taken back. *)
MayDecrease(sz, d, existing) == sz + d >= existing

(* GetAsgNodes, and the check. *)
ListNodes ==
    /\ request = "list"
    /\ \/ /\ MayDecrease(size, delta, Cardinality(RunningInstances))
          /\ launched' = 0
          /\ request' = "set"
          /\ UNCHANGED <<locals, killed, resized>>
       \/ /\ ~MayDecrease(size, delta, Cardinality(RunningInstances))
          /\ Return
    /\ UNCHANGED <<group, writer>>

(* SetAsgSize, which AWS refuses outside of its limits. *)
SetSize ==
    /\ request = "set"
    /\ IF size + delta \in AwsMin .. AwsMax
         THEN /\ desired' = size + delta
              /\ writer' = IF launched = 0 THEN "decrease" ELSE "raced"
         ELSE UNCHANGED <<desired, writer>>
    /\ UNCHANGED state
    /\ Return

-----------------------------------------------------------------------------
(* DeleteNodes. *)

DeleteNodes(S) ==
    /\ request = "idle"
    /\ \A i \in S \cap Own : state[i] # "unused"
    /\ nodes' = S
    /\ left' = S
    /\ request' = "sizeToDelete"
    /\ UNCHANGED <<group, delta, size, common, history>>

GetSizeToDelete ==
    /\ request = "sizeToDelete"
    /\ size' = desired
    /\ request' = "belongs"
    /\ UNCHANGED <<group, delta, nodes, left, common, history>>

(***************************************************************************)
(* GetAsgForInstance: the group of an instance, or "none"; an instance     *)
(* that is gone is found as long as the cache remembers it.                *)
(***************************************************************************)
GetAsgForInstance(i) ==
    {g \in {"own", "foreign", "none"} :
        \/ g = "own" /\ i \in Own
        \/ g = "foreign" /\ i \in Foreign
        \/ g = "none" /\ (i \in Unmanaged \/ (i \in Own /\ state[i] # "running"))}

(* Belongs, for every node before anything is deleted. *)
Belongs_Known(i) == GetAsgForInstance(i) # {"none"}
Belongs(i) == "own" \in GetAsgForInstance(i)

CheckBelongs(i) ==
    /\ request = "belongs"
    /\ i \in left
    /\ Belongs(i)
    /\ left' = left \ {i}
    /\ UNCHANGED <<group, request, delta, size, nodes, common, history>>

(* No nodes: DeleteInstances and RestartInstances return at once.  Else    *)
(* they look up the first of them.                                         *)
FindCommon ==
    /\ request = "belongs"
    /\ left = {}
    /\ \/ /\ nodes = {}
          /\ Return
       \/ /\ \E i \in nodes : common' \in GetAsgForInstance(i)
          /\ left' = nodes
          /\ request' = "common"
          /\ UNCHANGED <<delta, size, nodes, killed, launched, resized>>
    /\ UNCHANGED <<group, writer>>

CheckCommon(i) ==
    /\ request = "common"
    /\ i \in left
    /\ common \in GetAsgForInstance(i)
    /\ left' = left \ {i}
    /\ UNCHANGED <<group, request, delta, size, nodes, common, history>>

AllCommon ==
    /\ request = "common"
    /\ left = {}
    /\ left' = nodes
    /\ request' = "terminate"
    /\ UNCHANGED <<group, delta, size, nodes, common, history>>

(* At the minimum: RestartInstances instead of DeleteInstances. *)
MustRestart(sz) == sz <= MinSize

(***************************************************************************)
(* TerminateInstanceInAutoScalingGroup: AWS refuses an instance that is    *)
(* not there and a decrement below its own minimum.  The reply may get     *)
(* lost, which ends the call.                                              *)
(***************************************************************************)
TerminateInstance(i) ==
    /\ request = "terminate"
    /\ i \in left
    /\ i \in Own => state[i] = "running" /\ (MustRestart(size) \/ desired > AwsMin)
    /\ desired' = IF i \notin Own \/ MustRestart(size) THEN desired ELSE desired - 1
    /\ state' = [j \in Own |-> IF j = i THEN "gone" ELSE state[j]]
    /\ \/ /\ killed' = killed \cup {i}
          /\ left' = left \ {i}
          /\ UNCHANGED <<request, delta, size, nodes, common, launched, resized>>
       \/ Return
    /\ UNCHANGED writer

AllTerminated ==
    /\ request = "terminate"
    /\ left = {}
    /\ Return
    /\ UNCHANGED <<group, writer>>

-----------------------------------------------------------------------------
(* AWS and the others who use it. *)

Launch(i) ==
    /\ Cardinality(RunningInstances) < desired
    /\ state[i] = "unused"
    /\ state' = [state EXCEPT ![i] = "running"]
    /\ launched' = IF request = "set" THEN launched + 1 ELSE launched
    /\ UNCHANGED <<desired, request, locals, killed, resized, writer>>

ScaleIn(i) ==
    /\ Cardinality(RunningInstances) > desired
    /\ state[i] = "running"
    /\ state' = [state EXCEPT ![i] = "gone"]
    /\ UNCHANGED <<desired, request, locals, history>>

Resize(d) ==
    /\ resized < MaxResize
    /\ d # desired
    /\ desired' = d
    /\ resized' = resized + 1
    /\ writer' = "other"
    /\ UNCHANGED <<state, request, locals, killed, launched>>

OpsNext ==
    \/ \E d \in -2 .. -1 : DecreaseTargetSize(d)
    \/ GetSizeToDecrease \/ ListNodes \/ SetSize
    \/ \E S \in SUBSET AnyInstance : DeleteNodes(S)
    \/ GetSizeToDelete \/ FindCommon \/ AllCommon \/ AllTerminated
    \/ \E i \in AnyInstance : CheckBelongs(i) \/ CheckCommon(i) \/ TerminateInstance(i)
    \/ Fails
    \/ \E i \in Own : Launch(i) \/ ScaleIn(i)
    \/ \E d \in AwsMin .. AwsMax : Resize(d)

OpsSpec == OpsInit /\ [][OpsNext]_opsVars

-----------------------------------------------------------------------------
(***************************************************************************)
(* DecreaseTargetSize only takes back requests ("doesn't permit to delete  *)
(* any existing node", cloud_provider.go).  The size it sets is exceeded   *)
(* by no more than what AWS launched between the listing and the write,    *)
(* whoever resized the group meanwhile.  So AWS terminates an instance of  *)
(* its own accord only if somebody else set the size last, or a decrease   *)
(* that raced with a launch did.  In the latter case it terminates as many *)
(* as were launched, but the code cannot say which: an instance that       *)
(* existed at the listing may be among them.                               *)
(***************************************************************************)
DecreaseSpares ==
    [][/\ SetSize /\ desired' # desired => Cardinality(RunningInstances) - desired' <= launched
       /\ (\E i \in Own : ScaleIn(i)) => writer \in {"other", "raced"}]_opsVars

(***************************************************************************)
(* DeleteNodes terminates nothing when one of its nodes is not the         *)
(* group's, and as it reads the size once, k nodes take the group at most  *)
(* k - 1 below the configured minimum, so the one node of each call by the *)
(* repair loop never does, unless somebody else resizes the group.         *)
(***************************************************************************)
DeletesOwn ==
    killed # {} =>
        /\ nodes \subseteq Own
        /\ resized = 0 /\ ~MustRestart(size) => desired > MinSize - Cardinality(killed)
=============================================================================
