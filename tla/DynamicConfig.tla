---------------------------- MODULE DynamicConfig -----------------------------
(***************************************************************************)
(* ConfigFetcher: it reads the node groups from a ConfigMap and hands a    *)
(* configuration out when its version differs from the last one, while the *)
(* ConfigMap is edited, broken, deleted and created again.                 *)
(***************************************************************************)
EXTENDS Naturals

CONSTANTS
    Content,        \* what the key "settings" may hold: lists of groups
                    \* [min, max, name], Blank or Garbage
    Blank, Garbage,
    MaxRevision     \* bound

VARIABLES
    configMap,      \* [version, settings], version 0 if there is none
    revision,       \* the API server's counter
    lastConfig,     \* [version, settings]
    inUse,          \* history: the configuration handed out last
    answer          \* of the last fetch: "none", "error", "config", "unchanged"

configVars == <<configMap, revision, lastConfig, inUse, answer>>

Missing == [version |-> 0, settings |-> Blank]

ConfigInit ==
    /\ configMap = Missing /\ revision = 0
    /\ lastConfig = Missing /\ inUse = Missing
    /\ answer = "none"

-----------------------------------------------------------------------------
(* NodeGroupSpec.Validate; supportScaleToZero is not set by json.Unmarshal. *)
ValidateSettings(g) == g.min > 0 /\ g.max >= g.min /\ g.name # ""

IsConfig(settings) == settings \notin {Blank, Garbage} /\ \A g \in settings : ValidateSettings(g)

VersionMismatches_FirstOnly(c, d) == c.version = 0

VersionMismatches(c, d) == c.version # d.version

FetchConfigIfUpdated ==
    LET valid == configMap.version # 0 /\ IsConfig(configMap.settings)
        new == VersionMismatches(lastConfig, configMap)
    IN /\ answer' = IF ~valid THEN "error" ELSE IF new THEN "config" ELSE "unchanged"
       /\ lastConfig' = IF valid /\ new THEN configMap ELSE lastConfig
       /\ inUse' = IF valid /\ new THEN configMap ELSE inUse
       /\ UNCHANGED <<configMap, revision>>

FetchFails ==
    /\ answer' = "error"
    /\ UNCHANGED <<configMap, revision, lastConfig, inUse>>

Edit ==
    /\ revision < MaxRevision
    /\ revision' = revision + 1
    /\ \E settings \in Content : configMap' = [version |-> revision', settings |-> settings]
    /\ answer' = "none"
    /\ UNCHANGED <<lastConfig, inUse>>

Remove ==
    /\ configMap' = Missing
    /\ answer' = "none"
    /\ UNCHANGED <<revision, lastConfig, inUse>>

ConfigNext == FetchConfigIfUpdated \/ FetchFails \/ Edit \/ Remove

ConfigSpec == ConfigInit /\ [][ConfigNext]_configVars

-----------------------------------------------------------------------------
(* A fetch without an error leaves its caller with the ConfigMap's current *)
(* and valid settings, whatever was broken or deleted in between: "not     *)
(* changed" is never said of a configuration that has not been handed out. *)
FetchedIsCurrent ==
    answer \in {"config", "unchanged"} => inUse.settings = configMap.settings /\ IsConfig(inUse.settings)
=============================================================================
