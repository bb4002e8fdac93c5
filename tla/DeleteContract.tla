---------------------------- MODULE DeleteContract ----------------------------
(***************************************************************************)
(* What deleteNode promises about one node, whoever implements it: the     *)
(* node is tainted first, its instance is removed only once it has been    *)
(* drained, and an abandoned deletion tries to release the taint.          *)
(***************************************************************************)
VARIABLES
    phase,   \* "idle", "marked", "drained" or "abandoned"
    taint,   \* "yes" or "no"
    inst     \* "running" or "gone"

vars == <<phase, taint, inst>>

Init == phase = "idle" /\ taint \in {"yes", "no"} /\ inst \in {"running", "gone"}

(* MarkToBeDeleted succeeds, or takes effect and reports an error. *)
Mark == phase = "idle" /\ taint' = "yes" /\ phase' \in {"marked", "idle"} /\ UNCHANGED inst

(* drainNode succeeds. *)
Drained == phase = "marked" /\ phase' = "drained" /\ UNCHANGED <<taint, inst>>

(* The instance is removed; the controller learns of it or not. *)
Remove ==
    /\ phase = "drained"
    /\ inst' = "gone"
    /\ phase' \in {"idle", "abandoned"}
    /\ UNCHANGED taint

Abandon ==
    /\ phase \in {"marked", "drained"}
    /\ phase' = "abandoned"
    /\ UNCHANGED <<taint, inst>>

(* The deferred clean-up, which may fail. *)
Release ==
    /\ phase = "abandoned"
    /\ phase' = "idle"
    /\ taint' \in {"no", taint}
    /\ UNCHANGED inst

(* AWS launches and terminates instances on its own, Kubernetes drops the  *)
(* node object of a terminated instance, the process restarts.             *)
Outside ==
    \/ inst' # inst /\ UNCHANGED <<phase, taint>>
    \/ inst = "gone" /\ taint' = "no" /\ UNCHANGED <<phase, inst>>
    \/ phase' = "idle" /\ UNCHANGED <<taint, inst>>

Next == Mark \/ Drained \/ Remove \/ Abandon \/ Release \/ Outside

Spec == Init /\ [][Next]_vars
=============================================================================
