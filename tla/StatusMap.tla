------------------------------- MODULE StatusMap -------------------------------
(***************************************************************************)
(* WriteStatusConfigMap and the event recorder attached to the map: get,   *)
(* then update or create, by replicas that do not know of each other,      *)
(* while others edit and delete the map.                                   *)
(***************************************************************************)
EXTENDS Naturals

CONSTANTS
    Writer,         \* replicas of the controller
    NoWriter,
    MaxVersion      \* bound

VARIABLES
    at,             \* at[w]: "idle", "update", "create", "failed" or "panic"
    read,           \* read[w]: the map as Get returned it
    recorder,       \* recorder[w]: version of statusObject, 0 for nil
    statusMap,      \* [version, status, notes, data]
    version,        \* the API server's counter
    written         \* history: written[w], versions w knows it has written

statusVars == <<at, read, recorder, statusMap, version, written>>

(* No map: version 0.  notes: version at which others last wrote to it;    *)
(* data: whether it has a Data map at all.                                 *)
NoMap == [version |-> 0, status |-> NoWriter, notes |-> 0, data |-> FALSE]

StatusInit ==
    /\ at = [w \in Writer |-> "idle"]
    /\ read = [w \in Writer |-> NoMap]
    /\ recorder = [w \in Writer |-> 0]
    /\ statusMap = NoMap /\ version = 0
    /\ written = [w \in Writer |-> {}]

-----------------------------------------------------------------------------
(* Assigning to Data["status"] panics if the map was created without data. *)
GetMap(w) ==
    /\ at[w] \in {"idle", "failed"}
    /\ at' = [at EXCEPT ![w] = IF statusMap = NoMap THEN "create" ELSE IF statusMap.data THEN "update" ELSE "panic"]
    /\ read' = [read EXCEPT ![w] = statusMap]
    /\ UNCHANGED <<recorder, statusMap, version, written>>

GetFails(w) ==
    /\ at[w] \in {"idle", "failed"}
    /\ at' = [at EXCEPT ![w] = "failed"]
    /\ UNCHANGED <<read, recorder, statusMap, version, written>>

(* maps.Update sends what Get returned, its version included.              *)
Accepted_Overwrites(w) == IF at[w] = "create" THEN statusMap = NoMap ELSE statusMap # NoMap

Accepted(w) == IF at[w] = "create" THEN statusMap = NoMap ELSE statusMap # NoMap /\ statusMap.version = read[w].version

NewMap(w) == [version |-> version + 1, status |-> w, notes |-> read[w].notes, data |-> TRUE]

(* The recorder is pointed at the map that was written. *)
Recorded(w) == version + 1

Stores(w) ==
    /\ at[w] \in {"update", "create"} /\ Accepted(w)
    /\ version < MaxVersion
    /\ version' = version + 1
    /\ statusMap' = NewMap(w)

WriteMap(w) ==
    /\ Stores(w)
    /\ written' = [written EXCEPT ![w] = @ \cup {version'}]
    /\ recorder' = [recorder EXCEPT ![w] = Recorded(w)]
    /\ at' = [at EXCEPT ![w] = "idle"]
    /\ UNCHANGED read

(* The write takes effect but its answer is lost. *)
WriteLost(w) ==
    /\ Stores(w)
    /\ at' = [at EXCEPT ![w] = "failed"]
    /\ UNCHANGED <<read, recorder, written>>

(* A conflict, a map created or deleted meanwhile, or a failing call       *)
WriteFails(w) ==
    /\ at[w] \in {"update", "create"}
    /\ at' = [at EXCEPT ![w] = "failed"]
    /\ UNCHANGED <<read, recorder, statusMap, version, written>>

DeleteStatusConfigMap ==
    /\ statusMap # NoMap
    /\ statusMap' = NoMap
    /\ UNCHANGED <<at, read, recorder, version, written>>

(* Somebody else creates the map or adds to it. *)
Annotate ==
    /\ version < MaxVersion
    /\ version' = version + 1
    /\ \E data \in BOOLEAN :
          statusMap' = [statusMap EXCEPT !.version = version', !.notes = version', !.data = @ \/ data]
    /\ UNCHANGED <<at, read, recorder, written>>

StatusNext ==
    \/ \E w \in Writer : GetMap(w) \/ GetFails(w) \/ WriteMap(w) \/ WriteLost(w) \/ WriteFails(w)
    \/ DeleteStatusConfigMap
    \/ Annotate

StatusSpec == StatusInit /\ [][StatusNext]_statusVars

-----------------------------------------------------------------------------
(* Writing the status never loses what somebody else has added to the map  *)
(* between this replica's Get and its Update.                              *)
KeepsForeignNotes ==
    [][\A w \in Writer : at'[w] # at[w] => statusMap'.notes = statusMap.notes]_statusVars

(* Events are recorded on a map this replica wrote itself, the latest one. *)
RecordsOnOwnMap ==
    \A w \in Writer : recorder[w] # 0 =>
        recorder[w] \in written[w] /\ \A v \in written[w] : v <= recorder[w]

(* WriteStatusConfigMap neither overwrites what others wrote nor leaves    *)
(* the recorder at a map of somebody else.                                 *)
WritesOwnOnly == KeepsForeignNotes /\ []RecordsOnOwnMap
=============================================================================
