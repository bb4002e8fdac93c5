----------------------------- MODULE MCNodeRepair -----------------------------
(***************************************************************************)
(* Instances of NodeRepair for TLC: the nodes are model values, of which   *)
(* the first few run at the start and the others can be launched.          *)
(***************************************************************************)
EXTENDS NodeRepair, TLC

CONSTANTS n1, n2, n3, n4, n5, n6

(* One group at its minimum with room for one more; AWS allows a wider range. *)
OneGroupNodes == {n1, n2, n3}
OneGroup == [n \in OneGroupNodes |-> IF n \in {n1, n2} THEN 1 ELSE 0]
OneGroupMin == <<2>>
OneGroupSize == <<2>>
OneGroupMax == <<3>>
OneGroupAwsMin == <<0>>
OneGroupAwsMax == <<4>>

(* A group of three with room for two more, and a group of fixed size. *)
TwoGroupsNodes == {n1, n2, n3, n4, n5, n6}
TwoGroups == [n \in TwoGroupsNodes |->
                CASE n \in {n1, n2, n3} -> 1
                  [] n = n4 -> 2
                  [] OTHER -> 0]
TwoGroupsMin == <<2, 1>>
TwoGroupsSize == <<3, 1>>
TwoGroupsMax == <<5, 1>>
TwoGroupsSymmetry == Permutations({n1, n2, n3})

(* A group at its minimum and a group of fixed size. *)
SmallNodes == {n1, n2, n3}
SmallGroups == [n \in SmallNodes |-> CASE n = n1 -> 1 [] n = n2 -> 2 [] OTHER -> 0]
SmallMin == <<1, 1>>
SmallSize == <<1, 1>>
SmallMax == <<2, 1>>

(* The disturbances of a run. *)
Disturb(f) == [k \in Disturbance |-> IF k \in DOMAIN f THEN f[k] ELSE 0]

SafetyBudget == Disturb([fail |-> 1, recover |-> 1, resize |-> 1, exceed |-> 1, crash |-> 1,
                         fault |-> 1, lost |-> 1, unclean |-> 1, linger |-> 1, any |-> 2])
NeutralBudget == Disturb([fail |-> 2, recover |-> 1, any |-> 2])
LivenessBudget == Disturb([fail |-> 1, recover |-> 1, crash |-> 1, resize |-> 1,
                           exceed |-> 1, fault |-> 1, lost |-> 1, unclean |-> 1, linger |-> 1,
                           any |-> 2])

(* One disturbance at a time, for the runs that end in a counterexample. *)
ResizeOnce == Disturb([resize |-> 1, any |-> 1])
Calm == Disturb([any |-> 0])
=============================================================================
