--------------------------- MODULE LeaderElection ---------------------------
(***************************************************************************)
(* Several replicas of auto-node-repair started with --leader-elect: each  *)
(* process runs the elector of client-go in its main goroutine (main(),    *)
(* RunOrDie) and, once it leads, the repair loop in a goroutine of its own *)
(* (OnStartedLeading -> run()).  The two goroutines share nothing: the     *)
(* repair loop never looks at the lock, it only dies with the process      *)
(* ("lost master"), so a leader whose elector is held up goes on repairing.*)
(*                                                                         *)
(* Time is kept as the ages of the timers the code compares, not as a      *)
(* clock.  Every age stops at the value beyond which the code no longer    *)
(* tells it apart.  The retry period is not timed: a replica may try again *)
(* at any moment.                                                          *)
(***************************************************************************)
EXTENDS Integers

CONSTANTS
    Replica,        \* identities, the pods' host names
    Nobody,         \* the holder of a lock record not yet created
    LeaseDuration,  \* --leader-elect-lease-duration
    RenewDeadline,  \* --leader-elect-renew-deadline
    StartUpDelay,   \* --initial-delay
    Stall,          \* the longest an answer or a due step is held up
    MaxFaults       \* bound: crashes and failed calls of one behaviour

\* How long after its last effective renewal a leader may still be there: a
\* late answer, the renew deadline, then a late last try.
LongestLead == RenewDeadline + 2 * Stall

\* NewLeaderElector refuses a lease that is not longer than the deadline.
\* The last two lines say how slow a leader may be: it must be gone before a
\* successor's start-up delay ends, and before the lease could change hands
\* twice.
ASSUME TimesAssumption ==
    /\ Nobody \notin Replica
    /\ LeaseDuration \in Nat /\ RenewDeadline \in Nat
    /\ StartUpDelay \in Nat /\ Stall \in Nat /\ MaxFaults \in Nat
    /\ LeaseDuration > RenewDeadline
    /\ LongestLead < LeaseDuration + StartUpDelay
    /\ LongestLead < 2 * LeaseDuration

VARIABLES
    holder,       \* HolderIdentity of the record in the API server
    current,      \* replicas whose observedRecord is the record as it stands
    pc,           \* the elector goroutine: "down", "wait" between two tries,
                  \* "get", "write" and "reply" within one, "stopping"
    run,          \* the repair goroutine: "none", "delay", "idle", "pass"
    expired,      \* replicas that began their try with the lease run out
    final,        \* leaders whose try is the one after the renew deadline
    observedAge,  \* time since observedTime
    windowAge,    \* time since the leader's wait.Poll began
    leadAge,      \* time since OnStartedLeading was called
    renewAge,     \* history: time since the replica's last write took effect
    takenAge,     \* history: time since the record changed hands
    faults        \* crashes and failed calls left

electorVars == <<pc, expired, final>>
lockVars == <<holder, current, takenAge>>
ageVars == <<observedAge, windowAge, leadAge, renewAge>>
vars == <<lockVars, electorVars, run, ageVars, faults>>

Leading(p) == run[p] # "none"

\* The record in the API server may still change hands under this replica's
\* feet: it leads, or has written and not heard back.
Acting(p) == Leading(p) \/ pc[p] = "reply"

Init ==
    /\ holder = Nobody
    /\ current = {}
    /\ pc = [p \in Replica |-> "wait"]
    /\ run = [p \in Replica |-> "none"]
    /\ expired = {}
    /\ final = {}
    /\ observedAge = [p \in Replica |-> LeaseDuration]
    /\ windowAge = [p \in Replica |-> 0]
    /\ leadAge = [p \in Replica |-> 0]
    /\ renewAge = [p \in Replica |-> 0]
    /\ takenAge = 0
    /\ faults = MaxFaults

-----------------------------------------------------------------------------
(* The elector: tryAcquireOrRenew, called from acquire() until it succeeds  *)
(* and from renew()'s wait.Poll until the deadline has passed and one more  *)
(* try has failed.                                                          *)

\* `now' is read before the record is fetched, so whether the lease has run
\* out is settled here for the record observed so far.  wait.Poll calls the
\* function once more after its channel is closed, and then gives up.
BeginTry(p) ==
    /\ pc[p] = "wait"
    /\ pc' = [pc EXCEPT ![p] = "get"]
    /\ expired' = IF observedAge[p] >= LeaseDuration
                  THEN expired \union {p} ELSE expired \ {p}
    /\ final' = IF Leading(p) /\ windowAge[p] >= RenewDeadline
                THEN final \union {p} ELSE final \ {p}
    /\ UNCHANGED <<lockVars, run, ageVars, faults>>

\* tryAcquireOrRenew returned false: renew() gives up if it was the last try.
AfterFailure(p) == IF p \in final THEN "stopping" ELSE "wait"

\* Its locals go with it.
EndTry(p) ==
    /\ expired' = expired \ {p}
    /\ final' = final \ {p}

\* A mutant of Get: observedTime is set on every fetch, changed or not.
Get_AlwaysObserves(p) ==
    /\ pc[p] = "get"
    /\ current' = current \union {p}
    /\ observedAge' = [observedAge EXCEPT ![p] = 0]
    /\ IF holder \in {p, Nobody}
       THEN /\ pc' = [pc EXCEPT ![p] = "write"]
            /\ UNCHANGED <<expired, final>>
       ELSE /\ pc' = [pc EXCEPT ![p] = AfterFailure(p)]
            /\ EndTry(p)
    /\ UNCHANGED <<holder, takenAge, run, windowAge, leadAge, renewAge, faults>>

\* A record that differs from the observed one restarts the lease as seen by
\* this replica.  It goes on only if the record is its own, or not there, or
\* was already observed and had run out when the try began.
Get(p) ==
    LET mayWrite == \/ holder \in {p, Nobody}
                    \/ p \in current /\ p \in expired
    IN /\ pc[p] = "get"
       /\ current' = current \union {p}
       /\ observedAge' = IF p \in current THEN observedAge
                         ELSE [observedAge EXCEPT ![p] = 0]
       /\ IF mayWrite
          THEN /\ pc' = [pc EXCEPT ![p] = "write"]
               /\ UNCHANGED <<expired, final>>
          ELSE /\ pc' = [pc EXCEPT ![p] = AfterFailure(p)]
               /\ EndTry(p)
       /\ UNCHANGED <<holder, takenAge, run, windowAge, leadAge, renewAge, faults>>

\* Lock.Create or Lock.Update: the API server refuses it when the record was
\* written since this replica fetched it.
Write(p) ==
    /\ pc[p] = "write"
    /\ IF p \in current
       THEN /\ holder' = p
            /\ takenAge' = IF holder = p THEN takenAge ELSE 0
            /\ current' = {p}
            /\ renewAge' = [renewAge EXCEPT ![p] = 0]
            /\ pc' = [pc EXCEPT ![p] = "reply"]
            /\ UNCHANGED <<expired, final>>
       ELSE /\ pc' = [pc EXCEPT ![p] = AfterFailure(p)]
            /\ EndTry(p)
            /\ UNCHANGED <<lockVars, renewAge>>
    /\ UNCHANGED <<run, observedAge, windowAge, leadAge, faults>>

\* The write is acknowledged.  In acquire() this starts the repair goroutine;
\* in renew() it starts the next wait.Poll.
Reply(p) ==
    /\ pc[p] = "reply"
    /\ pc' = [pc EXCEPT ![p] = "wait"]
    /\ observedAge' = [observedAge EXCEPT ![p] = 0]
    /\ windowAge' = [windowAge EXCEPT ![p] = 0]
    /\ run' = IF Leading(p) THEN run ELSE [run EXCEPT ![p] = "delay"]
    /\ EndTry(p)
    /\ UNCHANGED <<lockVars, leadAge, renewAge, faults>>

\* A call fails.  Of a write it is not known whether it took effect: in
\* "write" it did not, in "reply" it did.
CallFails(p) ==
    /\ faults > 0
    /\ faults' = faults - 1
    /\ pc[p] \in {"get", "write", "reply"}
    /\ pc' = [pc EXCEPT ![p] = AfterFailure(p)]
    /\ current' = IF pc[p] = "reply" THEN current \ {p} ELSE current
    /\ EndTry(p)
    /\ UNCHANGED <<holder, takenAge, run, ageVars>>

\* The process ends: both goroutines with it, and all they remember.
Die(p) ==
    /\ pc' = [pc EXCEPT ![p] = "down"]
    /\ run' = [run EXCEPT ![p] = "none"]
    /\ current' = current \ {p}
    /\ observedAge' = [observedAge EXCEPT ![p] = LeaseDuration]
    /\ windowAge' = [windowAge EXCEPT ![p] = 0]
    /\ leadAge' = [leadAge EXCEPT ![p] = 0]
    /\ renewAge' = [renewAge EXCEPT ![p] = 0]
    /\ EndTry(p)
    /\ UNCHANGED <<holder, takenAge>>

\* renew() has returned: OnStoppedLeading is glog.Fatalf.
OnStoppedLeading(p) ==
    /\ pc[p] = "stopping"
    /\ Die(p)
    /\ UNCHANGED faults

\* The process dies on its own: a crash, or the Fatalf of a failed RunOnce.
Crash(p) ==
    /\ pc[p] # "down"
    /\ faults > 0
    /\ faults' = faults - 1
    /\ Die(p)

\* Kubernetes starts the container again, under the same host name.
Restart(p) ==
    /\ pc[p] = "down"
    /\ pc' = [pc EXCEPT ![p] = "wait"]
    /\ UNCHANGED <<lockVars, expired, final, run, ageVars, faults>>

-----------------------------------------------------------------------------
(* The repair goroutine: run().                                             *)

\* A mutant of StartLoop: the loop starts at once.
StartLoop_NoDelay(p) ==
    /\ run[p] = "delay"
    /\ run' = [run EXCEPT ![p] = "idle"]
    /\ UNCHANGED <<lockVars, electorVars, ageVars, faults>>

\* time.Sleep(*startUpDelay), then the listers and the autorepair object.
StartLoop(p) ==
    /\ run[p] = "delay"
    /\ leadAge[p] >= StartUpDelay
    /\ run' = [run EXCEPT ![p] = "idle"]
    /\ UNCHANGED <<lockVars, electorVars, ageVars, faults>>

\* time.After(*scanInterval) fires and RunOnce is called ...
BeginPass(p) ==
    /\ run[p] = "idle"
    /\ run' = [run EXCEPT ![p] = "pass"]
    /\ UNCHANGED <<lockVars, electorVars, ageVars, faults>>

\* ... and returns without an error.
EndPass(p) ==
    /\ run[p] = "pass"
    /\ run' = [run EXCEPT ![p] = "idle"]
    /\ UNCHANGED <<lockVars, electorVars, ageVars, faults>>

-----------------------------------------------------------------------------
(* Time.                                                                    *)

Older(age, cap) == IF age < cap THEN age + 1 ELSE age

\* Time passes only while nobody is held up for longer than Stall: an answer
\* arrives by then, and a leader whose deadline has passed has made its last
\* try and stopped by then.
Tick ==
    /\ \A p \in Replica :
          /\ pc[p] = "reply" => renewAge[p] < Stall
          /\ Leading(p) => windowAge[p] < RenewDeadline + Stall
    /\ observedAge' = [p \in Replica |-> Older(observedAge[p], LeaseDuration)]
    /\ windowAge' = [p \in Replica |->
                        IF Leading(p) THEN windowAge[p] + 1 ELSE windowAge[p]]
    /\ leadAge' = [p \in Replica |-> IF Leading(p)
                        THEN Older(leadAge[p], StartUpDelay) ELSE leadAge[p]]
    /\ renewAge' = [p \in Replica |->
                        IF Acting(p) THEN renewAge[p] + 1 ELSE renewAge[p]]
    /\ takenAge' = Older(takenAge, LeaseDuration + StartUpDelay)
    /\ UNCHANGED <<holder, current, electorVars, run, faults>>

Elector(p) ==
    BeginTry(p) \/ Get(p) \/ Write(p) \/ Reply(p) \/ OnStoppedLeading(p)

Loop(p) == StartLoop(p) \/ BeginPass(p) \/ EndPass(p)

Next ==
    \/ \E p \in Replica :
          \/ Elector(p) \/ Loop(p)
          \/ CallFails(p) \/ Crash(p) \/ Restart(p)
    \/ Tick

Spec == Init /\ [][Next]_vars

\* The elector's goroutine is scheduled, the API server answers, and time
\* goes on.  Nothing is assumed of how fast one is compared with another,
\* beyond Stall, nor that a dead pod ever comes back under its old name.
FairSpec ==
    /\ Spec
    /\ \A p \in Replica : WF_vars(Elector(p))
    /\ WF_vars(Tick)

-----------------------------------------------------------------------------
PC == {"down", "wait", "get", "write", "reply", "stopping"}
RunState == {"none", "delay", "idle", "pass"}

\* Type invariant of the election.
TypeOK ==
    /\ holder \in Replica \union {Nobody}
    /\ current \subseteq Replica
    /\ pc \in [Replica -> PC]
    /\ run \in [Replica -> RunState]
    /\ expired \subseteq Replica
    /\ final \subseteq Replica
    /\ observedAge \in [Replica -> Nat]
    /\ windowAge \in [Replica -> Nat]
    /\ leadAge \in [Replica -> Nat]
    /\ renewAge \in [Replica -> Nat]
    /\ takenAge \in Nat
    /\ faults \in Nat

\* No two replicas are in a repair pass at once: an old leader, whose repair
\* goroutine does not know that the lease was lost, is gone before its
\* successor's start-up delay is over (main.go:125, main.go:198-205).  This
\* rests on Tick, by which nothing takes longer than Stall: the client has no
\* timeout that would see to it (main.go:96-121).
OneRepairer ==
    \A p, q \in Replica : run[p] = "pass" /\ run[q] = "pass" => p = q

\* A lease without a leader does not stay orphaned: after the leader's death
\* another replica leads, whether or not the dead one comes back, unless all
\* of them die (leaderelection.go:172-187, 237-245).
LeaseReclaimed ==
    (\A p \in Replica : ~Leading(p))
        ~> \/ \E p \in Replica : Leading(p)
           \/ \A p \in Replica : pc[p] = "down"
=============================================================================
