------------------------- MODULE SharedStateProofs --------------------------
(***************************************************************************)
(* Proofs about what the controller shares with others: the record of the  *)
(* leader election, for any replicas and timings; the map its status is    *)
(* written to; the map its options are read from; and the size and the     *)
(* instances of a group.                                                   *)
(***************************************************************************)
EXTENDS LeaderElection, StatusMap, DynamicConfig, AsgOps, FiniteSetTheorems, TLAPS

(* The leader election. *)

\* How long a leader, or a replica that waits for an answer, can be without
\* an effective renewal.
LeadBounded ==
    \A p \in Replica :
       /\ pc[p] = "reply" => renewAge[p] <= Stall
       /\ Leading(p) => /\ windowAge[p] <= RenewDeadline + Stall
                        /\ renewAge[p] <= windowAge[p] + Stall

\* A replica cannot have observed the record for longer than the record has
\* been there, nor for longer than its holder's last renewal is ago.
ObservedBounded ==
    \A p \in current : pc[p] # "reply" =>
       /\ observedAge[p] <= takenAge
       /\ \A h \in Replica :
             holder = h /\ Acting(h) => observedAge[p] <= renewAge[h]

\* A replica about to write the record it has observed owns it, or creates
\* it, or has watched it for a lease.
WriterEntitled ==
    \A p \in current :
       /\ pc[p] = "get" /\ p \in expired => observedAge[p] >= LeaseDuration
       /\ pc[p] = "write" => \/ holder \in {p, Nobody}
                             \/ observedAge[p] >= LeaseDuration

\* A replica that lost the lease without knowing has not renewed for a lease
\* plus the time its successor has had it.
DisplacedIsOld ==
    \A p \in Replica : Acting(p) /\ p # holder =>
       /\ holder # Nobody
       /\ renewAge[p] >= LeaseDuration + takenAge

\* The lease does not change hands twice under a replica.
OneDisplaced ==
    \A p, q \in Replica :
       Acting(p) /\ p # holder /\ Acting(q) /\ q # holder => p = q

\* The holder leads no longer than it has held the record, and a replica past
\* its start-up delay leads for at least that long.
LoopAfterDelay ==
    /\ \A p \in Replica : holder = p /\ Leading(p) => leadAge[p] <= takenAge
    /\ \A p \in Replica : run[p] \in {"idle", "pass"} => leadAge[p] >= StartUpDelay
    /\ \A p \in Replica : ~Leading(p) => leadAge[p] = 0
    /\ \A p \in Replica : pc[p] = "down" => ~Leading(p)

\* The inductive invariant.
LeaseInv ==
    /\ TypeOK
    /\ LeadBounded
    /\ ObservedBounded
    /\ WriterEntitled
    /\ DisplacedIsOld
    /\ OneDisplaced
    /\ LoopAfterDelay

-----------------------------------------------------------------------------
USE TimesAssumption DEF LongestLead

\* LeaseInv holds before any replica has tried.
LEMMA LeaseInvInit == Init => LeaseInv
BY DEF Init, LeaseInv, TypeOK, LeadBounded, ObservedBounded, WriterEntitled,
       DisplacedIsOld, OneDisplaced, LoopAfterDelay, Acting, Leading, PC, RunState

\* BeginTry keeps LeaseInv.
LEMMA BeginTryKeepsLeaseInv ==
  ASSUME NEW p \in Replica, LeaseInv, BeginTry(p)
  PROVE  LeaseInv'
<1> USE DEF LeaseInv, Acting, Leading, BeginTry, lockVars, electorVars, ageVars
<1>1. TypeOK'
  BY DEF TypeOK, PC, RunState
<1>2. LeadBounded'
  BY DEF TypeOK, PC, RunState, LeadBounded
<1>3. ObservedBounded'
  BY DEF TypeOK, PC, RunState, ObservedBounded
<1>4. WriterEntitled'
  BY DEF TypeOK, PC, RunState, WriterEntitled
<1>5. DisplacedIsOld'
  BY DEF TypeOK, PC, RunState, DisplacedIsOld
<1>6. OneDisplaced'
  BY DEF TypeOK, PC, RunState, OneDisplaced
<1>7. LoopAfterDelay'
  BY DEF TypeOK, PC, RunState, LoopAfterDelay
<1> QED BY <1>1, <1>2, <1>3, <1>4, <1>5, <1>6, <1>7

\* Get keeps LeaseInv.
LEMMA GetKeepsLeaseInv ==
  ASSUME NEW p \in Replica, LeaseInv, Get(p)
  PROVE  LeaseInv'
<1> USE DEF LeaseInv, Acting, Leading, Get, EndTry, AfterFailure, lockVars, electorVars, ageVars
<1>1. TypeOK'
  BY DEF TypeOK, PC, RunState
<1>2. LeadBounded'
  BY DEF TypeOK, PC, RunState, LeadBounded
<1>3. ObservedBounded'
  BY DEF TypeOK, PC, RunState, ObservedBounded
<1>4. WriterEntitled'
  BY DEF TypeOK, PC, RunState, WriterEntitled
<1>5. DisplacedIsOld'
  BY DEF TypeOK, PC, RunState, DisplacedIsOld
<1>6. OneDisplaced'
  BY DEF TypeOK, PC, RunState, OneDisplaced
<1>7. LoopAfterDelay'
  BY DEF TypeOK, PC, RunState, LoopAfterDelay
<1> QED BY <1>1, <1>2, <1>3, <1>4, <1>5, <1>6, <1>7

\* When a replica is about to take the record from another, nobody but the
\* holder can still be acting, and the holder has not renewed for a lease:
\* whoever lost the record earlier would be beyond LongestLead by now.
LEMMA TakeoverIsLate ==
  ASSUME NEW p \in Replica, LeaseInv,
         pc[p] = "write", p \in current, holder \notin {p, Nobody}
  PROVE  /\ \A q \in Replica : Acting(q) => q = holder
         /\ Acting(holder) => renewAge[holder] >= LeaseDuration
<1>1. /\ holder \in Replica
      /\ observedAge[p] \in Nat /\ takenAge \in Nat
      /\ \A q \in Replica : renewAge[q] \in Nat /\ windowAge[q] \in Nat
  BY DEF LeaseInv, TypeOK
<1>2. observedAge[p] >= LeaseDuration
  BY DEF LeaseInv, WriterEntitled
<1>3. takenAge >= LeaseDuration
  BY <1>1, <1>2 DEF LeaseInv, ObservedBounded
<1>4. \A q \in Replica : Acting(q) => renewAge[q] < 2 * LeaseDuration
  BY <1>1 DEF LeaseInv, LeadBounded, Acting
<1>5. \A q \in Replica : Acting(q) => q = holder
  BY <1>1, <1>3, <1>4 DEF LeaseInv, DisplacedIsOld
<1>6. Acting(holder) => renewAge[holder] >= LeaseDuration
  BY <1>1, <1>2 DEF LeaseInv, ObservedBounded
<1> QED BY <1>5, <1>6

\* Write keeps LeaseInv: refused, a renewal, the first record, or a takeover.
LEMMA WriteKeepsLeaseInv ==
  ASSUME NEW p \in Replica, LeaseInv, Write(p)
  PROVE  LeaseInv'
<1> USE DEF LeaseInv, Acting, Leading, Write, EndTry, AfterFailure, lockVars
<1>1. TypeOK'
  BY DEF TypeOK, PC, RunState
<1>2. LeadBounded'
  BY DEF TypeOK, PC, RunState, LeadBounded
<1>3. ObservedBounded'
  BY DEF TypeOK, PC, RunState, ObservedBounded
<1>4. WriterEntitled'
  BY DEF TypeOK, PC, RunState, WriterEntitled
<1>5. CASE p \notin current \/ holder = p
  <2>1. DisplacedIsOld'
    BY <1>5 DEF TypeOK, DisplacedIsOld
  <2>2. OneDisplaced'
    BY <1>5 DEF TypeOK, OneDisplaced
  <2>3. LoopAfterDelay'
    BY <1>5 DEF TypeOK, LoopAfterDelay
  <2> QED BY <1>1, <1>2, <1>3, <1>4, <2>1, <2>2, <2>3
<1>6. CASE p \in current /\ holder = Nobody
  <2>1. \A q \in Replica : ~Acting(q)
    BY <1>6 DEF DisplacedIsOld
  <2>2. DisplacedIsOld'
    BY <1>6, <2>1 DEF TypeOK, DisplacedIsOld
  <2>3. OneDisplaced'
    BY <1>6, <2>1 DEF TypeOK, OneDisplaced
  <2>4. LoopAfterDelay'
    BY <1>6, <2>1 DEF TypeOK, LoopAfterDelay
  <2> QED BY <1>1, <1>2, <1>3, <1>4, <2>2, <2>3, <2>4
<1>7. CASE p \in current /\ holder \notin {p, Nobody}
  <2>1. /\ holder' = p /\ takenAge' = 0
        /\ run' = run /\ leadAge' = leadAge
        /\ pc' = [pc EXCEPT ![p] = "reply"]
        /\ renewAge' = [renewAge EXCEPT ![p] = 0]
    BY <1>7
  <2>2. /\ \A q \in Replica : Acting(q) => q = holder
        /\ Acting(holder) => renewAge[holder] >= LeaseDuration
    BY <1>7, TakeoverIsLate
  <2>3. \A q \in Replica : q # p => (Acting(q)' <=> Acting(q)) /\ renewAge'[q] = renewAge[q]
    BY <2>1 DEF TypeOK
  <2>4. DisplacedIsOld'
    BY <2>1, <2>2, <2>3 DEF DisplacedIsOld
  <2>5. OneDisplaced'
    BY <2>1, <2>2, <2>3 DEF OneDisplaced
  <2>6. LoopAfterDelay'
    BY <1>7, <2>1, <2>2 DEF TypeOK, LoopAfterDelay
  <2> QED BY <1>1, <1>2, <1>3, <1>4, <2>4, <2>5, <2>6
<1> QED BY <1>5, <1>6, <1>7

\* Reply keeps LeaseInv.
LEMMA ReplyKeepsLeaseInv ==
  ASSUME NEW p \in Replica, LeaseInv, Reply(p)
  PROVE  LeaseInv'
<1> USE DEF LeaseInv, Acting, Leading, Reply, EndTry, lockVars, electorVars, ageVars
<1>1. TypeOK'
  BY DEF TypeOK, PC, RunState
<1>2. LeadBounded'
  BY DEF TypeOK, PC, RunState, LeadBounded
<1>3. ObservedBounded'
  BY DEF TypeOK, PC, RunState, ObservedBounded
<1>4. WriterEntitled'
  BY DEF TypeOK, PC, RunState, WriterEntitled
<1>5. DisplacedIsOld'
  BY DEF TypeOK, PC, RunState, DisplacedIsOld
<1>6. OneDisplaced'
  BY DEF TypeOK, PC, RunState, OneDisplaced
<1>7. LoopAfterDelay'
  BY DEF TypeOK, PC, RunState, LoopAfterDelay
<1> QED BY <1>1, <1>2, <1>3, <1>4, <1>5, <1>6, <1>7

\* CallFails keeps LeaseInv.
LEMMA CallFailsKeepsLeaseInv ==
  ASSUME NEW p \in Replica, LeaseInv, CallFails(p)
  PROVE  LeaseInv'
<1> USE DEF LeaseInv, Acting, Leading, CallFails, EndTry, AfterFailure, lockVars, electorVars, ageVars
<1>1. TypeOK'
  BY DEF TypeOK, PC, RunState
<1>2. LeadBounded'
  BY DEF TypeOK, PC, RunState, LeadBounded
<1>3. ObservedBounded'
  BY DEF TypeOK, PC, RunState, ObservedBounded
<1>4. WriterEntitled'
  BY DEF TypeOK, PC, RunState, WriterEntitled
<1>5. DisplacedIsOld'
  BY DEF TypeOK, PC, RunState, DisplacedIsOld
<1>6. OneDisplaced'
  BY DEF TypeOK, PC, RunState, OneDisplaced
<1>7. LoopAfterDelay'
  BY DEF TypeOK, PC, RunState, LoopAfterDelay
<1> QED BY <1>1, <1>2, <1>3, <1>4, <1>5, <1>6, <1>7

\* Die keeps LeaseInv.
LEMMA DieKeepsLeaseInv ==
  ASSUME NEW p \in Replica, LeaseInv, Die(p) /\ faults' \in Nat
  PROVE  LeaseInv'
<1> USE DEF LeaseInv, Acting, Leading, Die, EndTry, lockVars, electorVars, ageVars
<1>1. TypeOK'
  BY DEF TypeOK, PC, RunState
<1>2. LeadBounded'
  BY DEF TypeOK, PC, RunState, LeadBounded
<1>3. ObservedBounded'
  BY DEF TypeOK, PC, RunState, ObservedBounded
<1>4. WriterEntitled'
  BY DEF TypeOK, PC, RunState, WriterEntitled
<1>5. DisplacedIsOld'
  BY DEF TypeOK, PC, RunState, DisplacedIsOld
<1>6. OneDisplaced'
  BY DEF TypeOK, PC, RunState, OneDisplaced
<1>7. LoopAfterDelay'
  BY DEF TypeOK, PC, RunState, LoopAfterDelay
<1> QED BY <1>1, <1>2, <1>3, <1>4, <1>5, <1>6, <1>7

\* Restart keeps LeaseInv.
LEMMA RestartKeepsLeaseInv ==
  ASSUME NEW p \in Replica, LeaseInv, Restart(p)
  PROVE  LeaseInv'
<1> USE DEF LeaseInv, Acting, Leading, Restart, lockVars, electorVars, ageVars
<1>1. TypeOK'
  BY DEF TypeOK, PC, RunState
<1>2. LeadBounded'
  BY DEF TypeOK, PC, RunState, LeadBounded
<1>3. ObservedBounded'
  BY DEF TypeOK, PC, RunState, ObservedBounded
<1>4. WriterEntitled'
  BY DEF TypeOK, PC, RunState, WriterEntitled
<1>5. DisplacedIsOld'
  BY DEF TypeOK, PC, RunState, DisplacedIsOld
<1>6. OneDisplaced'
  BY DEF TypeOK, PC, RunState, OneDisplaced
<1>7. LoopAfterDelay'
  BY DEF TypeOK, PC, RunState, LoopAfterDelay
<1> QED BY <1>1, <1>2, <1>3, <1>4, <1>5, <1>6, <1>7

\* Loop keeps LeaseInv.
LEMMA LoopKeepsLeaseInv ==
  ASSUME NEW p \in Replica, LeaseInv, Loop(p)
  PROVE  LeaseInv'
<1> USE DEF LeaseInv, Acting, Leading, Loop, StartLoop, BeginPass, EndPass, lockVars, electorVars, ageVars
<1>1. TypeOK'
  BY DEF TypeOK, PC, RunState
<1>2. LeadBounded'
  BY DEF TypeOK, PC, RunState, LeadBounded
<1>3. ObservedBounded'
  BY DEF TypeOK, PC, RunState, ObservedBounded
<1>4. WriterEntitled'
  BY DEF TypeOK, PC, RunState, WriterEntitled
<1>5. DisplacedIsOld'
  BY DEF TypeOK, PC, RunState, DisplacedIsOld
<1>6. OneDisplaced'
  BY DEF TypeOK, PC, RunState, OneDisplaced
<1>7. LoopAfterDelay'
  BY DEF TypeOK, PC, RunState, LoopAfterDelay
<1> QED BY <1>1, <1>2, <1>3, <1>4, <1>5, <1>6, <1>7

\* Tick keeps LeaseInv.
LEMMA TickKeepsLeaseInv ==
  ASSUME LeaseInv, Tick
  PROVE  LeaseInv'
<1> USE DEF LeaseInv, Acting, Leading, Tick, Older, electorVars
<1>1. TypeOK'
  BY DEF TypeOK, PC, RunState
<1>2. LeadBounded'
  BY DEF TypeOK, PC, RunState, LeadBounded
<1>3. ObservedBounded'
  BY DEF TypeOK, PC, RunState, ObservedBounded
<1>4. WriterEntitled'
  BY DEF TypeOK, PC, RunState, WriterEntitled
<1>5. DisplacedIsOld'
  BY DEF TypeOK, PC, RunState, DisplacedIsOld
<1>6. OneDisplaced'
  BY DEF TypeOK, PC, RunState, OneDisplaced
<1>7. LoopAfterDelay'
  BY DEF TypeOK, PC, RunState, LoopAfterDelay
<1> QED BY <1>1, <1>2, <1>3, <1>4, <1>5, <1>6, <1>7

\* Every step keeps LeaseInv.
LEMMA LeaseInvNext == LeaseInv /\ [Next]_vars => LeaseInv'
<1> SUFFICES ASSUME LeaseInv, [Next]_vars PROVE LeaseInv'
  OBVIOUS
<1>1. ASSUME NEW p \in Replica, Elector(p) PROVE LeaseInv'
  <2>1. CASE BeginTry(p)
    BY <2>1, BeginTryKeepsLeaseInv
  <2>2. CASE Get(p)
    BY <2>2, GetKeepsLeaseInv
  <2>3. CASE Write(p)
    BY <2>3, WriteKeepsLeaseInv
  <2>4. CASE Reply(p)
    BY <2>4, ReplyKeepsLeaseInv
  <2>5. CASE OnStoppedLeading(p)
    BY <2>5, DieKeepsLeaseInv DEF OnStoppedLeading, LeaseInv, TypeOK
  <2> QED BY <1>1, <2>1, <2>2, <2>3, <2>4, <2>5 DEF Elector
<1>2. ASSUME NEW p \in Replica, Loop(p) PROVE LeaseInv'
  BY <1>2, LoopKeepsLeaseInv
<1>3. ASSUME NEW p \in Replica, CallFails(p) PROVE LeaseInv'
  BY <1>3, CallFailsKeepsLeaseInv
<1>4. ASSUME NEW p \in Replica, Crash(p) PROVE LeaseInv'
  <2>1. faults' \in Nat
    BY <1>4 DEF Crash, LeaseInv, TypeOK
  <2> QED BY <1>4, <2>1, DieKeepsLeaseInv DEF Crash
<1>5. ASSUME NEW p \in Replica, Restart(p) PROVE LeaseInv'
  BY <1>5, RestartKeepsLeaseInv
<1>6. CASE Tick
  BY <1>6, TickKeepsLeaseInv
<1>7. CASE UNCHANGED vars
  BY <1>7 DEF vars, lockVars, electorVars, ageVars, LeaseInv, TypeOK,
     LeadBounded, ObservedBounded, WriterEntitled, DisplacedIsOld,
     OneDisplaced, LoopAfterDelay, Acting, Leading
<1> QED BY <1>1, <1>2, <1>3, <1>4, <1>5, <1>6, <1>7 DEF Next

\* LeaseInv at every state of every behaviour.
LEMMA LeaseInvAlways == Spec => []LeaseInv
BY LeaseInvInit, LeaseInvNext, PTL DEF Spec

\* LeaseInv leaves no room for two passes: of two replicas in a pass one holds
\* the record, for at least the start-up delay; the other lost it and is, by
\* LeadBounded, gone by then.
LEMMA LeaseInvSuffices == LeaseInv => OneRepairer
<1> SUFFICES ASSUME LeaseInv, NEW p \in Replica, NEW q \in Replica,
                    run[p] = "pass", run[q] = "pass", p # q
             PROVE  FALSE
  BY DEF OneRepairer
<1>1. Acting(p) /\ Acting(q) /\ Leading(p) /\ Leading(q)
  BY DEF Acting, Leading
<1>2. ASSUME NEW r \in Replica, Leading(r), r # holder,
             holder \in Replica, run[holder] = "pass"
      PROVE  FALSE
  <2>1. /\ renewAge[r] \in Nat /\ windowAge[r] \in Nat /\ takenAge \in Nat
        /\ leadAge[holder] \in Nat
    BY <1>2 DEF LeaseInv, TypeOK
  <2>2. renewAge[r] >= LeaseDuration + takenAge
    BY <1>2 DEF LeaseInv, DisplacedIsOld, Acting
  <2>3. takenAge >= StartUpDelay
    BY <1>2, <2>1 DEF LeaseInv, LoopAfterDelay, Leading
  <2>4. renewAge[r] <= RenewDeadline + 2 * Stall
    BY <1>2, <2>1 DEF LeaseInv, LeadBounded
  <2> QED BY <2>1, <2>2, <2>3, <2>4
<1>3. p = holder \/ q = holder
  BY <1>1 DEF LeaseInv, OneDisplaced
<1> QED BY <1>1, <1>2, <1>3

\* Whatever the number of replicas and the times TimesAssumption admits, no
\* two replicas are in RunOnce at once (main.go:125, 198-205), provided that
\* no call and no stop takes longer than Stall, which is built into Tick.
THEOREM OneRepairerAlways == Spec => []OneRepairer
BY LeaseInvAlways, LeaseInvSuffices, PTL

-----------------------------------------------------------------------------
(* The status map: a version stands for the same notes forever, so what    *)
(* an accepted update carries are the notes of the map it replaces; and a  *)
(* replica has written nothing newer than what its recorder refers to.     *)
StatusTypes ==
    LET Map == [version : Nat, status : Writer \cup {NoWriter}, notes : Nat, data : BOOLEAN]
    IN /\ at \in [Writer -> {"idle", "update", "create", "failed", "panic"}]
       /\ read \in [Writer -> Map] /\ statusMap \in Map
       /\ recorder \in [Writer -> Nat] /\ written \in [Writer -> SUBSET Nat]
       /\ version \in Nat

StatusInv ==
    /\ StatusTypes
    /\ statusMap.version <= version
    /\ statusMap.version = 0 => statusMap = NoMap
    /\ \A w \in Writer :
        /\ read[w].version <= version
        /\ at[w] = "create" => read[w] = NoMap
        /\ read[w].version = statusMap.version /\ statusMap.version # 0 => read[w].notes = statusMap.notes
        /\ \A v \in written[w] : v <= version
    /\ RecordsOnOwnMap

LEMMA InitStatus == StatusInit => StatusInv
BY DEF StatusInit, NoMap, StatusInv, StatusTypes, RecordsOnOwnMap

(* A map that a replica stores keeps the notes. *)
LEMMA StoresKeepNotes ==
    ASSUME StatusInv, NEW w \in Writer, Stores(w)
    PROVE  statusMap'.notes = statusMap.notes
<1>1. statusMap'.notes = read[w].notes
  BY DEF Stores, NewMap
<1>2. CASE at[w] = "create"
  BY <1>1, <1>2 DEF Stores, Accepted, StatusInv
<1>3. CASE at[w] # "create"
  <2>1. statusMap # NoMap /\ statusMap.version = read[w].version
    BY <1>3 DEF Stores, Accepted
  <2> QED BY <1>1, <2>1 DEF StatusInv
<1> QED BY <1>2, <1>3

LEMMA StoresKeepInv ==
    ASSUME StatusInv, NEW w \in Writer, Stores(w), UNCHANGED read
    PROVE  /\ version' = version + 1 /\ version' \in Nat
           /\ statusMap'.version = version' /\ statusMap' \in [version : Nat, status : Writer \cup {NoWriter}, notes : Nat, data : BOOLEAN]
           /\ \A u \in Writer : read[u].version <= version' /\ read[u].version # statusMap'.version
           /\ \A u \in Writer : \A v \in written[u] : v \in Nat /\ v < version'
<1>1. version' = version + 1 /\ statusMap' = NewMap(w) /\ version \in Nat
  BY DEF Stores, StatusInv, StatusTypes
<1>2. \A u \in Writer : read[u].version \in Nat /\ read[u].version <= version
  BY DEF StatusInv, StatusTypes
<1>3. \A u \in Writer : \A v \in written[u] : v \in Nat /\ v <= version
  BY DEF StatusInv, StatusTypes
<1>4. read[w].notes \in Nat
  BY DEF StatusInv, StatusTypes
<1> QED BY <1>1, <1>2, <1>3, <1>4 DEF NewMap

LEMMA NextStatus == StatusInv /\ [StatusNext]_statusVars => StatusInv'
<1> SUFFICES ASSUME StatusInv, [StatusNext]_statusVars PROVE StatusInv'
  OBVIOUS
<1>1. ASSUME NEW w \in Writer, GetMap(w) PROVE StatusInv'
  BY <1>1 DEF GetMap, StatusInv, StatusTypes, RecordsOnOwnMap
<1>2. ASSUME NEW w \in Writer, GetFails(w) PROVE StatusInv'
  BY <1>2 DEF GetFails, StatusInv, StatusTypes, RecordsOnOwnMap
<1>3. ASSUME NEW w \in Writer, WriteMap(w) PROVE StatusInv'
  <2>1. /\ Stores(w) /\ UNCHANGED read
        /\ at' = [at EXCEPT ![w] = "idle"] /\ recorder' = [recorder EXCEPT ![w] = version + 1]
        /\ written' = [written EXCEPT ![w] = @ \cup {version'}]
    BY <1>3 DEF WriteMap, Recorded
  <2>2. StatusTypes'
    BY <2>1, StoresKeepInv DEF StatusInv, StatusTypes
  <2>3. \A u \in Writer : \A v \in written'[u] : v <= version'
    BY <2>1, StoresKeepInv DEF StatusInv, StatusTypes
  <2>4. RecordsOnOwnMap'
    BY <2>1, <2>3, StoresKeepInv DEF StatusInv, StatusTypes, RecordsOnOwnMap
  <2> QED BY <2>1, <2>2, <2>3, <2>4, StoresKeepInv DEF StatusInv, StatusTypes
<1>4. ASSUME NEW w \in Writer, WriteLost(w) PROVE StatusInv'
  <2>1. /\ Stores(w) /\ UNCHANGED <<read, recorder, written>>
        /\ at' = [at EXCEPT ![w] = "failed"]
    BY <1>4 DEF WriteLost
  <2> QED BY <2>1, StoresKeepInv DEF StatusInv, StatusTypes, RecordsOnOwnMap
<1>5. ASSUME NEW w \in Writer, WriteFails(w) PROVE StatusInv'
  BY <1>5 DEF WriteFails, StatusInv, StatusTypes, RecordsOnOwnMap
<1>6. CASE DeleteStatusConfigMap
  BY <1>6 DEF DeleteStatusConfigMap, NoMap, StatusInv, StatusTypes, RecordsOnOwnMap
<1>7. CASE Annotate
  <2>1. /\ version' = version + 1 /\ statusMap'.version = version'
        /\ statusMap' \in [version : Nat, status : Writer \cup {NoWriter}, notes : Nat, data : BOOLEAN]
        /\ UNCHANGED <<at, read, recorder, written>>
    <3>1. PICK data \in BOOLEAN :
            statusMap' = [statusMap EXCEPT !.version = version', !.notes = version', !.data = @ \/ data]
      BY <1>7, Zenon DEF Annotate
    <3> DEFINE joined == statusMap.data \/ data
    <3>2. joined \in BOOLEAN
      OBVIOUS
    <3>3. statusMap' = [statusMap EXCEPT !.version = version', !.notes = version', !.data = joined]
      BY <3>1
    <3> HIDE DEF joined
    <3>4. version \in Nat /\ version' = version + 1 /\ UNCHANGED <<at, read, recorder, written>>
      BY <1>7 DEF Annotate, StatusInv, StatusTypes
    <3>5. statusMap \in [version : Nat, status : Writer \cup {NoWriter}, notes : Nat, data : BOOLEAN]
      BY DEF StatusInv, StatusTypes
    <3>6. statusMap' = [version |-> version', status |-> statusMap.status, notes |-> version', data |-> joined]
      BY <3>3, <3>5, Zenon
    <3> QED BY <3>2, <3>4, <3>5, <3>6
  <2> QED BY <2>1 DEF StatusInv, StatusTypes, RecordsOnOwnMap
<1>8. CASE UNCHANGED statusVars
  BY <1>8 DEF statusVars, StatusInv, StatusTypes, RecordsOnOwnMap
<1> QED BY <1>1, <1>2, <1>3, <1>4, <1>5, <1>6, <1>7, <1>8 DEF StatusNext

(* WriteStatusConfigMap neither overwrites what others wrote to the status *)
(* map nor leaves the recorder at a map of somebody else, for any number   *)
(* of replicas, lost answers and deletions of the map.                     *)
THEOREM OnlyOwnWritten == StatusSpec => WritesOwnOnly
<1> DEFINE Step == \A w \in Writer : at'[w] # at[w] => statusMap'.notes = statusMap.notes
<1>1. StatusInv /\ StatusNext => Step
  <2> SUFFICES ASSUME StatusInv, StatusNext PROVE Step
    OBVIOUS
  <2>1. ASSUME NEW w \in Writer, WriteMap(w) \/ WriteLost(w) PROVE statusMap'.notes = statusMap.notes
    BY <2>1, StoresKeepNotes DEF WriteMap, WriteLost
  <2>2. ASSUME NEW w \in Writer, GetMap(w) \/ GetFails(w) \/ WriteFails(w) PROVE statusMap' = statusMap
    BY <2>2 DEF GetMap, GetFails, WriteFails
  <2>3. ASSUME DeleteStatusConfigMap \/ Annotate PROVE at' = at
    BY <2>3, Zenon DEF DeleteStatusConfigMap, Annotate
  <2> QED BY <2>1, <2>2, <2>3 DEF StatusNext
<1>2. StatusInv => RecordsOnOwnMap
  BY DEF StatusInv
<1>3. StatusSpec => []StatusInv
  BY InitStatus, NextStatus, PTL DEF StatusSpec
<1>4. StatusSpec => KeepsForeignNotes
  BY <1>1, <1>3, PTL DEF StatusSpec, KeepsForeignNotes
<1> QED BY <1>2, <1>3, <1>4, PTL DEF WritesOwnOnly

-----------------------------------------------------------------------------
(* The fetcher of the dynamic configuration: what was handed out is what   *)
(* lastConfig holds, and a version stands for the same settings forever.   *)
ConfigInv ==
    /\ revision \in Nat
    /\ configMap.version \in 0 .. revision /\ lastConfig.version \in 0 .. revision
    /\ inUse = lastConfig
    /\ configMap.version # 0 /\ lastConfig.version = configMap.version => lastConfig.settings = configMap.settings

(* FetchConfigIfUpdated says "unchanged" only of settings that it has      *)
(* handed out and that are valid and current, for all contents, however    *)
(* often the ConfigMap is edited, deleted and created again.               *)
THEOREM FetchedStaysCurrent == ConfigSpec => []FetchedIsCurrent
<1>1. ConfigInit => ConfigInv /\ FetchedIsCurrent
  BY DEF ConfigInit, Missing, ConfigInv, FetchedIsCurrent
<1>2. ConfigInv /\ FetchedIsCurrent /\ [ConfigNext]_configVars => ConfigInv' /\ FetchedIsCurrent'
  <2> SUFFICES ASSUME ConfigInv, FetchedIsCurrent, [ConfigNext]_configVars PROVE ConfigInv' /\ FetchedIsCurrent'
    OBVIOUS
  <2>1. CASE FetchConfigIfUpdated
    BY <2>1 DEF FetchConfigIfUpdated, VersionMismatches, ConfigInv, FetchedIsCurrent
  <2>2. CASE FetchFails
    BY <2>2 DEF FetchFails, ConfigInv, FetchedIsCurrent
  <2>3. CASE Edit
    <3>1. /\ revision' = revision + 1 /\ configMap'.version = revision' /\ answer' = "none"
          /\ lastConfig' = lastConfig /\ inUse' = inUse
      BY <2>3 DEF Edit
    <3> QED BY <3>1 DEF ConfigInv, FetchedIsCurrent
  <2>4. CASE Remove
    BY <2>4 DEF Remove, Missing, ConfigInv, FetchedIsCurrent
  <2>5. CASE UNCHANGED configVars
    BY <2>5 DEF configVars, ConfigInv, FetchedIsCurrent
  <2> QED BY <2>1, <2>2, <2>3, <2>4, <2>5 DEF ConfigNext
<1> QED BY <1>1, <1>2, PTL DEF ConfigSpec

-----------------------------------------------------------------------------
(* The operations on a group. *)
OpsTypes ==
    /\ desired \in Int
    /\ state \in [Own -> {"unused", "running", "gone"}]
    /\ delta \in Int /\ size \in Int
    /\ nodes \subseteq AnyInstance /\ left \subseteq nodes
    /\ IsFiniteSet(killed)
    /\ launched \in Nat /\ resized \in Nat
    /\ writer \in {"start", "other", "decrease", "raced"}

(***************************************************************************)
(* A call of DeleteNodes: what the loops have accepted is the group's, and *)
(* the size drops by what has been terminated, unless instances are only   *)
(* restarted.                                                              *)
(***************************************************************************)
DeleteInv ==
    /\ request \in {"sizeToDelete", "belongs"} => nodes \ left \subseteq Own
    /\ request \in {"common", "terminate"} => nodes \subseteq Own
    /\ request # "terminate" => killed = {}
    /\ killed \cap left = {}
    /\ resized = 0 /\ request \in {"belongs", "common", "terminate"} =>
          desired = IF MustRestart(size) THEN size ELSE size - Cardinality(killed)

(* A call of DecreaseTargetSize: what ran when it listed the group, and    *)
(* what has been launched since.                                           *)
DecreaseInv == request = "set" => Cardinality(RunningInstances) <= size + delta + launched

OpsInv == OpsTypes /\ DeleteInv /\ DecreaseInv

LEMMA RunningFinite ==
    ASSUME NEW S, S \subseteq Own
    PROVE  IsFiniteSet(S) /\ Cardinality(S) \in Nat
BY OpsAssumption, FS_Subset, FS_CardinalityType

LEMMA InitOps == OpsInit => OpsInv
<1> SUFFICES ASSUME OpsInit PROVE OpsInv
  OBVIOUS
<1>1. Cardinality(Started) \in Nat
  BY RunningFinite, OpsAssumption
<1>2. IsFiniteSet({}) /\ Cardinality({}) = 0
  BY FS_EmptySet
<1> QED BY <1>1, <1>2 DEF OpsInit, OpsInv, OpsTypes, DeleteInv, DecreaseInv

(* Returning forgets all that the invariant is about. *)
LEMMA ReturnKeeps ==
    ASSUME Return, desired' \in Int, state' \in [Own -> {"unused", "running", "gone"}],
           resized \in Nat, writer' \in {"start", "other", "decrease", "raced"}
    PROVE  OpsInv'
<1>1. IsFiniteSet({})
  BY FS_EmptySet
<1> QED BY <1>1 DEF Return, OpsInv, OpsTypes, DeleteInv, DecreaseInv

LEMMA NextOps == OpsInv /\ [OpsNext]_opsVars => OpsInv'
<1> SUFFICES ASSUME OpsInv, [OpsNext]_opsVars PROVE OpsInv'
  OBVIOUS
<1> USE DEF OpsInv, OpsTypes, group, locals, history
<1>0. Cardinality(RunningInstances) \in Nat /\ IsFiniteSet(RunningInstances)
  BY RunningFinite DEF RunningInstances
<1>1. ASSUME NEW d \in -2 .. -1, DecreaseTargetSize(d) PROVE OpsInv'
  BY <1>1 DEF DecreaseTargetSize, DeleteInv, DecreaseInv
<1>2. CASE GetSizeToDecrease
  BY <1>2 DEF GetSizeToDecrease, DeleteInv, DecreaseInv
<1>3. CASE ListNodes
  <2>1. CASE Return
    BY <1>3, <2>1, ReturnKeeps DEF ListNodes
  <2>2. CASE ~Return
    <3>1. /\ request = "list" /\ request' = "set" /\ launched' = 0
          /\ MayDecrease(size, delta, Cardinality(RunningInstances))
          /\ UNCHANGED <<desired, state, delta, size, nodes, left, common, killed, resized, writer>>
      BY <1>3, <2>2 DEF ListNodes
    <3>2. OpsTypes' /\ DeleteInv'
      BY <3>1 DEF DeleteInv
    <3>3. DecreaseInv'
      BY <1>0, <3>1 DEF DecreaseInv, MayDecrease, RunningInstances
    <3> QED BY <3>2, <3>3
  <2> QED BY <2>1, <2>2
<1>4. CASE SetSize
  BY <1>4, ReturnKeeps DEF SetSize
<1>5. ASSUME NEW S \in SUBSET AnyInstance, DeleteNodes(S) PROVE OpsInv'
  BY <1>5 DEF DeleteNodes, DeleteInv, DecreaseInv
<1>6. CASE GetSizeToDelete
  <2>1. killed = {} /\ Cardinality({}) = 0
    BY <1>6, FS_EmptySet DEF GetSizeToDelete, DeleteInv
  <2> QED BY <1>6, <2>1 DEF GetSizeToDelete, DeleteInv, DecreaseInv, MustRestart
<1>7. CASE FindCommon
  <2>1. CASE Return
    BY <1>7, <2>1, ReturnKeeps DEF FindCommon
  <2>2. CASE ~Return
    BY <1>7, <2>2 DEF FindCommon, DeleteInv, DecreaseInv, MustRestart
  <2> QED BY <2>1, <2>2
<1>8. CASE AllCommon
  BY <1>8 DEF AllCommon, DeleteInv, DecreaseInv, MustRestart
<1>9. CASE AllTerminated \/ Fails
  BY <1>9, ReturnKeeps DEF AllTerminated, Fails
<1>10. ASSUME NEW i \in AnyInstance, CheckBelongs(i) PROVE OpsInv'
  <2>1. i \in Own
    BY <1>10 DEF CheckBelongs, Belongs, GetAsgForInstance
  <2> QED BY <1>10, <2>1 DEF CheckBelongs, DeleteInv, DecreaseInv, MustRestart
<1>11. ASSUME NEW i \in AnyInstance, CheckCommon(i) PROVE OpsInv'
  BY <1>11 DEF CheckCommon, DeleteInv, DecreaseInv, MustRestart
<1>12. ASSUME NEW i \in AnyInstance, TerminateInstance(i) PROVE OpsInv'
  <2>1. /\ request = "terminate" /\ i \in left /\ i \in Own /\ i \notin killed
        /\ resized = 0 => desired = IF MustRestart(size) THEN size
                                    ELSE size - Cardinality(killed)
    BY <1>12 DEF TerminateInstance, DeleteInv
  <2>2. /\ desired' = IF MustRestart(size) THEN desired ELSE desired - 1
        /\ state' \in [Own -> {"unused", "running", "gone"}] /\ writer' = writer
    BY <1>12, <2>1 DEF TerminateInstance
  <2>3. CASE Return
    BY <2>2, <2>3, ReturnKeeps
  <2>4. CASE ~Return
    <3>1. /\ killed' = killed \cup {i} /\ left' = left \ {i}
          /\ UNCHANGED <<request, delta, size, nodes, launched, resized>>
      BY <1>12, <2>4 DEF TerminateInstance
    <3>2. /\ IsFiniteSet(killed') /\ Cardinality(killed) \in Nat
          /\ Cardinality(killed') = Cardinality(killed) + 1
      BY <2>1, <3>1, FS_AddElement, FS_CardinalityType
    <3>3. OpsTypes'
      BY <2>2, <3>1, <3>2
    <3>4. DeleteInv'
      BY <2>1, <2>2, <3>1, <3>2 DEF DeleteInv, MustRestart
    <3> QED BY <2>1, <3>1, <3>3, <3>4 DEF DecreaseInv
  <2> QED BY <2>3, <2>4
<1>13. ASSUME NEW i \in Own, Launch(i) PROVE OpsInv'
  <2>1. RunningInstances' = RunningInstances \cup {i} /\ i \notin RunningInstances
    BY <1>13 DEF Launch, RunningInstances
  <2>2. Cardinality(RunningInstances') = Cardinality(RunningInstances) + 1
    BY <1>0, <2>1, FS_AddElement, Zenon
  <2>3. OpsTypes' /\ DeleteInv'
    BY <1>13 DEF Launch, DeleteInv, MustRestart
  <2>4. DecreaseInv'
    BY <1>0, <1>13, <2>2 DEF Launch, DecreaseInv
  <2> QED BY <2>3, <2>4
<1>14. ASSUME NEW i \in Own, ScaleIn(i) PROVE OpsInv'
  <2>1. RunningInstances' \subseteq RunningInstances
    BY <1>14 DEF ScaleIn, RunningInstances
  <2>2. Cardinality(RunningInstances') <= Cardinality(RunningInstances) /\ Cardinality(RunningInstances') \in Nat
    BY <1>0, <2>1, FS_Subset, FS_CardinalityType
  <2>3. OpsTypes' /\ DeleteInv'
    BY <1>14 DEF ScaleIn, DeleteInv, MustRestart
  <2>4. DecreaseInv'
    BY <1>0, <1>14, <2>2 DEF ScaleIn, DecreaseInv
  <2> QED BY <2>3, <2>4
<1>15. ASSUME NEW d \in AwsMin .. AwsMax, Resize(d) PROVE OpsInv'
  BY <1>15, OpsAssumption DEF Resize, DeleteInv, DecreaseInv, RunningInstances
<1>16. CASE UNCHANGED opsVars
  BY <1>16 DEF opsVars, DeleteInv, DecreaseInv, MustRestart, RunningInstances
<1> QED BY <1>1, <1>2, <1>3, <1>4, <1>5, <1>6, <1>7, <1>8, <1>9, <1>10, <1>11, <1>12, <1>13,
           <1>14, <1>15, <1>16 DEF OpsNext

LEMMA OpsInvariant == OpsSpec => []OpsInv
BY InitOps, NextOps, PTL DEF OpsSpec

(* A group whose size was set by a decrease that did not race, or by       *)
(* nobody, has no instance too many.                                       *)
WriterInv == writer \in {"start", "decrease"} => Cardinality(RunningInstances) <= desired

LEMMA InitWriter == OpsInit => WriterInv
<1> SUFFICES ASSUME OpsInit PROVE WriterInv
  OBVIOUS
<1>1. RunningInstances = Started
  BY OpsAssumption DEF OpsInit, RunningInstances
<1>2. Cardinality(Started) \in Nat
  BY RunningFinite, OpsAssumption
<1>3. desired = Cardinality(RunningInstances)
  BY <1>1 DEF OpsInit
<1> QED BY <1>1, <1>2, <1>3 DEF WriterInv

LEMMA NextWriter == OpsInv /\ WriterInv /\ [OpsNext]_opsVars => WriterInv'
<1> SUFFICES ASSUME OpsInv, WriterInv, [OpsNext]_opsVars PROVE WriterInv'
  OBVIOUS
<1> USE DEF group, history
<1>0. Cardinality(RunningInstances) \in Nat /\ IsFiniteSet(RunningInstances) /\ desired \in Int
  BY RunningFinite DEF RunningInstances, OpsInv, OpsTypes
<1>1. CASE UNCHANGED <<desired, state, writer>>
  BY <1>1 DEF WriterInv, RunningInstances
<1>2. CASE SetSize
  <2>1. RunningInstances' = RunningInstances /\ Cardinality(RunningInstances) <= size + delta + launched
    BY <1>2 DEF SetSize, RunningInstances, OpsInv, DecreaseInv
  <2>2. CASE size + delta \in AwsMin .. AwsMax
    <3>1. desired' = size + delta /\ ((writer' = "decrease" /\ launched = 0) \/ writer' = "raced")
      BY <1>2, <2>2 DEF SetSize
    <3>2. size \in Int /\ delta \in Int
      BY DEF OpsInv, OpsTypes
    <3> QED BY <2>1, <3>1, <3>2 DEF WriterInv
  <2>3. CASE size + delta \notin AwsMin .. AwsMax
    BY <1>2, <2>1, <2>3 DEF SetSize, WriterInv
  <2> QED BY <2>2, <2>3
<1>3. ASSUME NEW i \in AnyInstance, TerminateInstance(i) PROVE WriterInv'
  <2>1. i \in Own /\ state[i] = "running" /\ state \in [Own -> {"unused", "running", "gone"}]
    BY <1>3 DEF TerminateInstance, OpsInv, OpsTypes, DeleteInv
  <2>2. RunningInstances' = RunningInstances \ {i} /\ i \in RunningInstances
    BY <1>3, <2>1 DEF TerminateInstance, RunningInstances
  <2>3. Cardinality(RunningInstances') = Cardinality(RunningInstances) - 1
    BY <1>0, <2>2, FS_RemoveElement, Zenon
  <2>4. (desired' = desired \/ desired' = desired - 1) /\ writer' = writer
    BY <1>3 DEF TerminateInstance
  <2> QED BY <1>0, <2>3, <2>4 DEF WriterInv
<1>4. ASSUME NEW i \in Own, Launch(i) PROVE WriterInv'
  <2>1. RunningInstances' = RunningInstances \cup {i} /\ i \notin RunningInstances
    BY <1>4 DEF Launch, RunningInstances, OpsInv, OpsTypes
  <2>2. Cardinality(RunningInstances') = Cardinality(RunningInstances) + 1
    BY <1>0, <2>1, FS_AddElement, Zenon
  <2>3. Cardinality(RunningInstances) < desired /\ desired' = desired
    BY <1>4 DEF Launch
  <2> QED BY <1>0, <2>2, <2>3 DEF WriterInv
<1>5. ASSUME NEW i \in Own, ScaleIn(i) PROVE WriterInv'
  <2>1. RunningInstances' \subseteq RunningInstances /\ UNCHANGED <<desired, writer>>
    BY <1>5 DEF ScaleIn, RunningInstances, OpsInv, OpsTypes
  <2>2. Cardinality(RunningInstances') <= Cardinality(RunningInstances) /\ Cardinality(RunningInstances') \in Nat
    BY <1>0, <2>1, FS_Subset, FS_CardinalityType
  <2> QED BY <1>0, <2>1, <2>2 DEF WriterInv
<1>6. ASSUME NEW d \in AwsMin .. AwsMax, Resize(d) PROVE WriterInv'
  BY <1>6 DEF Resize, WriterInv
<1>7. CASE UNCHANGED opsVars
  BY <1>1, <1>7 DEF opsVars
<1>8. CASE \/ \E d \in -2 .. -1 : DecreaseTargetSize(d)
           \/ GetSizeToDecrease \/ ListNodes
           \/ \E S \in SUBSET AnyInstance : DeleteNodes(S)
           \/ GetSizeToDelete \/ FindCommon \/ AllCommon \/ AllTerminated \/ Fails
           \/ \E i \in AnyInstance : CheckBelongs(i) \/ CheckCommon(i)
  BY <1>1, <1>8 DEF DecreaseTargetSize, GetSizeToDecrease, ListNodes, DeleteNodes, GetSizeToDelete, FindCommon,
                    AllCommon, AllTerminated, Fails, CheckBelongs, CheckCommon
<1> QED BY <1>2, <1>3, <1>4, <1>5, <1>6, <1>7, <1>8 DEF OpsNext

(***************************************************************************)
(* DecreaseTargetSize never asks for fewer instances than it has seen,     *)
(* however often the group is resized meanwhile, and AWS terminates none   *)
(* after it unless one was launched between its listing and its write.     *)
(***************************************************************************)
THEOREM DecreaseAlwaysSpares == OpsSpec => DecreaseSpares
<1> DEFINE Step == SetSize /\ desired' # desired => Cardinality(RunningInstances) - desired' <= launched
           Scale == (\E i \in Own : ScaleIn(i)) => writer \in {"other", "raced"}
<1>1. OpsInv => Step
  <2> SUFFICES ASSUME OpsInv, SetSize, desired' # desired
               PROVE  Cardinality(RunningInstances) - desired' <= launched
    OBVIOUS
  <2>1. desired' = size + delta /\ Cardinality(RunningInstances) <= size + delta + launched
    BY DEF SetSize, OpsInv, DecreaseInv
  <2>2. Cardinality(RunningInstances) \in Nat
    BY RunningFinite DEF RunningInstances
  <2> QED BY <2>1, <2>2 DEF OpsInv, OpsTypes
<1>2. OpsInv /\ WriterInv => Scale
  <2> SUFFICES ASSUME OpsInv, WriterInv, NEW i \in Own, ScaleIn(i)
               PROVE  writer \in {"other", "raced"}
    OBVIOUS
  <2>1. Cardinality(RunningInstances) > desired
    BY DEF ScaleIn
  <2>2. Cardinality(RunningInstances) \in Nat /\ desired \in Int
    BY RunningFinite DEF RunningInstances, OpsInv, OpsTypes
  <2>3. writer \notin {"start", "decrease"}
    BY <2>1, <2>2 DEF WriterInv
  <2> QED BY <2>3 DEF OpsInv, OpsTypes
<1> QED BY <1>1, <1>2, OpsInvariant, InitWriter, NextWriter, PTL DEF OpsSpec, DecreaseSpares

(***************************************************************************)
(* DeleteNodes terminates nothing unless all its nodes are the group's,    *)
(* and k nodes take the group at most k - 1 below its configured minimum.  *)
(***************************************************************************)
THEOREM OnlyOwnDeleted == OpsSpec => []DeletesOwn
<1>1. OpsInv => DeletesOwn
  <2> SUFFICES ASSUME OpsInv, killed # {} PROVE DeletesOwn
    BY DEF DeletesOwn
  <2>1. request = "terminate" /\ nodes \subseteq Own
    BY DEF OpsInv, DeleteInv
  <2>2. Cardinality(killed) \in Nat
    BY FS_CardinalityType DEF OpsInv, OpsTypes
  <2> QED BY <2>1, <2>2, OpsAssumption DEF OpsInv, OpsTypes, DeleteInv, DeletesOwn, MustRestart
<1> QED BY <1>1, OpsInvariant, PTL
=============================================================================
