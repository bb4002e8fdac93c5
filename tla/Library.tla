------------------------------- MODULE Library --------------------------------
(***************************************************************************)
(* The parts of the program that share no state: a behaviour is one of one *)
(* part, the variables of the others keep their initial values.            *)
(***************************************************************************)
EXTENDS UsageTracker, BalanceScaleUp, PodSelection, GroupDiscovery, DynamicConfig, StatusMap,
        LogCollector, AsgOps

VARIABLE part

Part == {"tracker", "balance", "pods", "discovery", "config", "status", "logs", "ops"}

vars == <<part, trackerVars, balanceVars, podsVars, discoveryVars, configVars, statusVars, logsVars, opsVars>>

Init ==
    /\ part \in Part
    /\ TrackerInit /\ BalanceInit /\ PodsInit /\ DiscoveryInit
    /\ ConfigInit /\ StatusInit /\ LogsInit /\ OpsInit

TrackerStep ==
    /\ part = "tracker" /\ TrackerNext
    /\ UNCHANGED <<part, balanceVars, podsVars, discoveryVars, configVars, statusVars, logsVars, opsVars>>
BalanceStep ==
    /\ part = "balance" /\ BalanceNext
    /\ UNCHANGED <<part, trackerVars, podsVars, discoveryVars, configVars, statusVars, logsVars, opsVars>>
PodsStep ==
    /\ part = "pods" /\ PodsNext
    /\ UNCHANGED <<part, trackerVars, balanceVars, discoveryVars, configVars, statusVars, logsVars, opsVars>>
DiscoveryStep ==
    /\ part = "discovery" /\ DiscoveryNext
    /\ UNCHANGED <<part, trackerVars, balanceVars, podsVars, configVars, statusVars, logsVars, opsVars>>
ConfigStep ==
    /\ part = "config" /\ ConfigNext
    /\ UNCHANGED <<part, trackerVars, balanceVars, podsVars, discoveryVars, statusVars, logsVars, opsVars>>
StatusStep ==
    /\ part = "status" /\ StatusNext
    /\ UNCHANGED <<part, trackerVars, balanceVars, podsVars, discoveryVars, configVars, logsVars, opsVars>>
LogsStep ==
    /\ part = "logs" /\ LogsNext
    /\ UNCHANGED <<part, trackerVars, balanceVars, podsVars, discoveryVars, configVars, statusVars, opsVars>>
OpsStep ==
    /\ part = "ops" /\ OpsNext
    /\ UNCHANGED <<part, trackerVars, balanceVars, podsVars, discoveryVars, configVars, statusVars, logsVars>>

Next ==
    \/ TrackerStep \/ BalanceStep \/ PodsStep \/ DiscoveryStep \/ ConfigStep \/ StatusStep
    \/ LogsStep \/ OpsStep

Spec == Init /\ [][Next]_vars
=============================================================================
