----------------------------- MODULE LogCollector -----------------------------
(***************************************************************************)
(* LogCollector: the recent messages, limited in number and in age, and    *)
(* compacted whenever they are accessed.  A message is its timestamp.      *)
(* Each operation holds the mutex and takes the time after locking it.     *)
(***************************************************************************)
EXTENDS Integers, Sequences

CONSTANTS
    maxItems, itemLifetime,
    MaxLogged, MaxClock     \* bounds

ASSUME LogsAssumption == maxItems \in Nat /\ itemLifetime \in Nat

VARIABLES
    time,
    store,
    logged,     \* history: all that was ever logged
    result      \* what the last access returned or left, and when

logsVars == <<time, store, logged, result>>

LogsInit ==
    /\ time = 0
    /\ store = <<>> /\ logged = <<>>
    /\ result = [logs |-> <<>>, at |-> 0]

-----------------------------------------------------------------------------
Excess_OffByOne(s) == IF Len(s) > maxItems + 1 THEN Len(s) - maxItems ELSE 0

Excess(s) == IF Len(s) > maxItems THEN Len(s) - maxItems ELSE 0

(* What is kept begins at the first message that is young enough, counted  *)
(* from the first one that is not in excess.                               *)
compact(s, now) ==
    LET young == {i \in Excess(s) + 1 .. Len(s) : s[i] > now - itemLifetime}
    IN IF young = {} THEN <<>>
       ELSE SubSeq(s, CHOOSE i \in young : \A j \in young : i <= j, Len(s))

Log ==
    /\ Len(logged) < MaxLogged
    /\ store' = compact(Append(store, time), time)
    /\ logged' = Append(logged, time)
    /\ result' = [logs |-> store', at |-> time]
    /\ UNCHANGED time

GetLogs ==
    /\ store' = compact(store, time)
    /\ result' = [logs |-> store', at |-> time]
    /\ UNCHANGED <<time, logged>>

LogsTick ==
    /\ time < MaxClock
    /\ time' = time + 1
    /\ UNCHANGED <<store, logged, result>>

LogsNext == Log \/ GetLogs \/ LogsTick

LogsSpec == LogsInit /\ [][LogsNext]_logsVars

-----------------------------------------------------------------------------
(* However accesses and time alternate, an access returns a tail of what   *)
(* was ever logged: the messages that are young enough among the last      *)
(* maxItems.  An earlier compaction has dropped none that is still wanted, *)
(* and nothing too old is left.                                            *)
LogIsRecent ==
    LET dropped == Len(logged) - Len(result.logs)
    IN /\ dropped >= 0
       /\ \A i \in 1 .. Len(result.logs) : result.logs[i] = logged[dropped + i]
       /\ \A i \in 1 .. Len(logged) :
            i > dropped <=> i > Len(logged) - maxItems /\ logged[i] > result.at - itemLifetime
=============================================================================
