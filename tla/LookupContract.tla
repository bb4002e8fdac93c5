---------------------------- MODULE LookupContract ----------------------------
(***************************************************************************)
(* What FindForInstance promises to the repair loop, whatever it keeps in  *)
(* between: an error, or a group the instance has really been in, or nil   *)
(* if it has really been in none.  NodeRepair relies on no more.           *)
(***************************************************************************)
CONSTANTS Instance, Group, Outside, Unborn, Failed, Pending

VARIABLES
    was,      \* was[i]: the groups i has been in, Outside if it was in none
    busy,     \* "yes" while a lookup is under way
    target,   \* the instance it is about
    answer

vars == <<was, busy, target, answer>>

Init ==
    /\ was \in [Instance -> SUBSET (Group \cup {Outside, Unborn})]
    /\ busy = "no" /\ target \in Instance /\ answer = Pending

(* A node's provider id is looked up. *)
Ask ==
    /\ busy = "no" /\ busy' = "yes"
    /\ target' \in Instance
    /\ answer' = Pending
    /\ UNCHANGED was

(* The lookup returns. *)
Tell ==
    /\ busy = "yes" /\ busy' = "no"
    /\ answer' \in {Failed} \cup (was[target] \ {Unborn})
    /\ UNCHANGED <<was, target>>

(* Meanwhile AWS moves an instance. *)
Move ==
    /\ \E i \in Instance : \E g \in Group \cup {Outside} :
          was' = [was EXCEPT ![i] = @ \cup {g}]
    /\ UNCHANGED <<busy, target, answer>>

Next == Ask \/ Tell \/ Move

Spec == Init /\ [][Next]_vars
=============================================================================
