--------------------------- MODULE ClusterStateProofs ---------------------------
(***************************************************************************)
(* Proofs about ClusterState and ClusterStatus, for every value of their   *)
(* constants.                                                              *)
(***************************************************************************)
EXTENDS ClusterStatus, FiniteSetTheorems, TLAPS

Initial == InitialNodeGroupBackoffDuration
Longest == MaxNodeGroupBackoffDuration

(* What backoffNodeGroup leaves in nodeGroupBackoffInfo. *)
Entry == [duration : Initial .. Longest, until : Nat, last : Nat]

(* Every entry lasts between the initial and the maximal duration, counted *)
(* from the failure that made it, and no time runs ahead of the clock.     *)
BackoffInv ==
    /\ now \in Nat /\ currentTime \in Nat /\ currentTime <= now
    /\ backoff \in [Group -> Entry \cup {NoBackoff}]
    /\ \A g \in Group : backoff[g].until = backoff[g].last + backoff[g].duration /\ backoff[g].last <= now

(* One call of backoffNodeGroup makes an entry that ends duration after    *)
(* the failure, whatever was there before.                                 *)
LEMMA BackoffMakesEntry ==
    ASSUME NEW b \in Entry \cup {NoBackoff}, NEW time \in Nat
    PROVE  /\ backoffNodeGroup(b, time) \in Entry
           /\ backoffNodeGroup(b, time).last = time
           /\ backoffNodeGroup(b, time).until = time + backoffNodeGroup(b, time).duration
<1> USE NumberAssumption DEF Initial, Longest
<1> DEFINE d == IF HasBackoff(b) /\ b.until < time
                  THEN Doubled(b.duration)
                  ELSE InitialNodeGroupBackoffDuration
<1>1. d \in Initial .. Longest
  BY DEF Doubled, HasBackoff, Entry, NoBackoff
<1>2. backoffNodeGroup(b, time) = [duration |-> d, until |-> time + d, last |-> time]
  BY DEF backoffNodeGroup
<1> HIDE DEF d
<1>. QED  BY <1>1, <1>2 DEF Entry

(* A second call in the same pass restarts at the initial duration, and a  *)
(* third changes nothing: what BackoffTimes abbreviates.                   *)
LEMMA ThirdChangesNothing ==
    ASSUME NEW b \in Entry \cup {NoBackoff}, NEW time \in Nat
    PROVE  LET twice == backoffNodeGroup(backoffNodeGroup(b, time), time)
           IN /\ twice.duration = Initial
              /\ backoffNodeGroup(twice, time) = twice
<1> DEFINE one == backoffNodeGroup(b, time)
           two == backoffNodeGroup(one, time)
<1>1. one \in Entry /\ one.until = time + one.duration
  BY BackoffMakesEntry
<1>2. two = [duration |-> Initial, until |-> time + Initial, last |-> time]
  <2>. HIDE DEF one
  <2>. QED  BY <1>1, NumberAssumption DEF backoffNodeGroup, Entry, Initial, Longest
<1>3. backoffNodeGroup(two, time) = two
  <2>. HIDE DEF two
  <2>. QED  BY <1>2, NumberAssumption DEF backoffNodeGroup, Initial
<1>. QED  BY <1>2, <1>3

(* However many requests time out in one pass, the entry is either left    *)
(* alone or made anew by this pass.                                        *)
LEMMA BackoffTimesMakesEntry ==
    ASSUME NEW b \in Entry \cup {NoBackoff}, NEW time \in Nat, NEW times
    PROVE  LET new == BackoffTimes(b, times, time)
           IN \/ times = 0 /\ new = b
              \/ /\ new \in Entry
                 /\ new.last = time /\ new.until = time + new.duration
                 /\ \/ new = backoffNodeGroup(b, time)
                    \/ new.duration = Initial
<1> DEFINE one == backoffNodeGroup(b, time)
           two == backoffNodeGroup(one, time)
<1>1. one \in Entry /\ one.last = time /\ one.until = time + one.duration
  BY BackoffMakesEntry
<1>2. two \in Entry /\ two.last = time /\ two.until = time + two.duration /\ two.duration = Initial
  <2>1. two.duration = Initial  BY ThirdChangesNothing
  <2>. HIDE DEF one
  <2>. QED  BY <1>1, <2>1, BackoffMakesEntry
<1>3. BackoffTimes(b, times, time) = IF times = 0 THEN b ELSE IF times = 1 THEN one ELSE two
  BY DEF BackoffTimes
<1>. HIDE DEF two
<1>. QED  BY <1>1, <1>2, <1>3

(* What one step can do to the back-off of a group: nothing; a new entry   *)
(* by RegisterFailedScaleUp or by requests that timed out, on top of an    *)
(* old entry that is not stale; removal of a stale entry or by success.    *)
Failed(g, b, time) ==
    /\ backoff'[g] \in Entry
    /\ backoff'[g].last = time
    /\ backoff'[g].until = time + backoff'[g].duration
    /\ backoff'[g] = backoffNodeGroup(b, time) \/ backoff'[g].duration = Initial

BackoffStep(g) ==
    \/ backoff'[g] = backoff[g]
    \/ Failed(g, backoff[g], now)
    \/ Failed(g, backoff[g], currentTime)
    \/ IsStale(backoff[g], currentTime) /\ Failed(g, NoBackoff, currentTime)
    \/ /\ backoff'[g] = NoBackoff
       /\ IsStale(backoff[g], currentTime) \/ (HasRequest(ups, g) /\ ~Upcoming(g)')

(* AcceptableRanges keeps the target size it is given. *)
LEMMA RangeTarget ==
    ASSUME NEW size, NEW up, NEW down, NEW g \in Group
    PROVE  AcceptableRanges(size, up, down)[g].target = size[g]
BY DEF AcceptableRanges

(* UpdateNodes treats the back-off of every group as BackoffStep says. *)
LEMMA UpdateBackoff ==
    ASSUME BackoffInv, NEW o, UpdateNodes(o), NEW g \in Group
    PROVE  BackoffStep(g)
<1> DEFINE ready == ReadinessOf(o)
           range == AcceptableRanges(o.size, ups, downs)
           old == IF IsStale(backoff[g], currentTime) THEN NoBackoff ELSE backoff[g]
           upcoming == areThereUpcomingNodes(range[g], ready[g])
           times == TimedOut(g, ups, currentTime)
           scaling == IsNodeGroupScalingUp(g, range[g], ready[g], StillExpected(ups, ready, range, currentTime))
<1>1. readiness' = ready /\ backoff' = UpdatedBackoff(ups, ready, range, currentTime)
  BY DEF UpdateNodes
<1>2. ranges'[g].target = range[g].target
  <2>1. ranges' = RangesAfter(o.size, StillExpected(ups, ready, range, currentTime), StillDeleting(downs, currentTime))
    BY DEF UpdateNodes
  <2>. QED  BY <2>1, RangeTarget DEF RangesAfter
<1>3. Upcoming(g)' = upcoming
  BY <1>1, <1>2 DEF Upcoming, areThereUpcomingNodes
<1>4. backoff'[g] = IF ~upcoming
                      THEN IF Of(ups, g) # {} THEN NoBackoff ELSE old
                      ELSE IF scaling THEN old ELSE BackoffTimes(old, times, currentTime)
  BY <1>1 DEF UpdatedBackoff
<1>5. backoff[g] \in Entry \cup {NoBackoff} /\ currentTime \in Nat
  BY DEF BackoffInv
<1> HIDE DEF ready, range, upcoming, times, scaling
<1>6. \/ times = 0 /\ BackoffTimes(old, times, currentTime) = old
      \/ backoff'[g] = BackoffTimes(old, times, currentTime) => Failed(g, old, currentTime)
  <2>1. old \in Entry \cup {NoBackoff}
    BY <1>5
  <2>. HIDE DEF old
  <2>. QED  BY <1>5, <2>1, BackoffTimesMakesEntry DEF Failed
<1>. QED  BY <1>3, <1>4, <1>6 DEF BackoffStep, HasRequest

(* Every step does. *)
LEMMA NextBackoff ==
    ASSUME BackoffInv, [Next]_vars, NEW g \in Group
    PROVE  BackoffStep(g)
<1>1. CASE UNCHANGED vars
  BY <1>1 DEF vars, BackoffStep
<1>2. CASE Tick \/ StartLoop
  BY <1>2 DEF Tick, StartLoop, BackoffStep
<1>3. ASSUME NEW o \in Observation, UpdateNodes(o)
      PROVE  BackoffStep(g)
  BY <1>3, UpdateBackoff
<1>4. ASSUME NEW h \in Group, NEW increase \in Increase, RegisterScaleUp(h, increase)
      PROVE  BackoffStep(g)
  BY <1>4 DEF RegisterScaleUp, BackoffStep
<1>5. ASSUME NEW h \in Group, RegisterScaleDown(h)
      PROVE  BackoffStep(g)
  BY <1>5 DEF RegisterScaleDown, BackoffStep
<1>6. ASSUME NEW h \in Group, RegisterFailedScaleUp(h)
      PROVE  BackoffStep(g)
  <2>1. backoff' = [backoff EXCEPT ![h] = backoffNodeGroup(@, now)]
    BY <1>6 DEF RegisterFailedScaleUp
  <2>2. backoff[g] \in Entry \cup {NoBackoff} /\ now \in Nat /\ g \in DOMAIN backoff
    BY DEF BackoffInv
  <2>3. backoff'[g] = IF g = h THEN backoffNodeGroup(backoff[g], now) ELSE backoff[g]
    BY <2>1, <2>2
  <2>. QED  BY <2>2, <2>3, BackoffMakesEntry DEF BackoffStep, Failed
<1>. QED  BY <1>1, <1>2, <1>3, <1>4, <1>5, <1>6 DEF Next

(* Every step keeps BackoffInv, and so does the passing of time. *)
LEMMA BackoffKept == BackoffInv /\ [Next]_vars => BackoffInv'
<1> SUFFICES ASSUME BackoffInv, [Next]_vars PROVE BackoffInv'
  OBVIOUS
<1>1. now' \in Nat /\ currentTime' \in Nat /\ currentTime' <= now' /\ now <= now'
  <2>1. UNCHANGED clock \/ Tick \/ StartLoop
    BY DEF Next, vars, UpdateNodes, RegisterScaleUp, RegisterScaleDown, RegisterFailedScaleUp
  <2>. QED  BY <2>1 DEF BackoffInv, clock, Tick, StartLoop
<1>2. backoff' = [g \in Group |-> backoff'[g]]
  BY DEF BackoffInv, Next, vars, Tick, StartLoop, UpdateNodes, UpdatedBackoff, RegisterScaleUp, RegisterScaleDown, RegisterFailedScaleUp
<1>3. ASSUME NEW g \in Group
      PROVE  /\ backoff'[g] \in Entry \cup {NoBackoff}
             /\ backoff'[g].until = backoff'[g].last + backoff'[g].duration
             /\ backoff'[g].last <= now'
  <2>1. BackoffStep(g)
    BY NextBackoff
  <2>2. /\ backoff[g] \in Entry \cup {NoBackoff}
        /\ backoff[g].until = backoff[g].last + backoff[g].duration
        /\ backoff[g].last <= now
        /\ now \in Nat /\ currentTime \in Nat /\ currentTime <= now
    BY DEF BackoffInv
  <2>3. CASE backoff'[g] = backoff[g]
    BY <1>1, <2>2, <2>3 DEF Entry, NoBackoff
  <2>4. ASSUME NEW b, NEW time \in {now, currentTime}, Failed(g, b, time)
        PROVE  /\ backoff'[g] \in Entry
               /\ backoff'[g].until = backoff'[g].last + backoff'[g].duration
               /\ backoff'[g].last <= now'
    BY <1>1, <2>2, <2>4 DEF Failed
  <2>5. CASE backoff'[g] = NoBackoff
    BY <1>1, <2>5 DEF NoBackoff
  <2>. QED  BY <2>1, <2>3, <2>4, <2>5 DEF BackoffStep
<1>. QED  BY <1>1, <1>2, <1>3 DEF BackoffInv

(* BackoffInv is an invariant. *)
THEOREM BackoffInvariant == Spec => []BackoffInv
<1>1. Init => BackoffInv
  BY DEF Init, BackoffInv, NoBackoff
<1>. QED  BY <1>1, BackoffKept, PTL DEF Spec

(* BackoffGrowth, for every value of the constants: the back-off of a      *)
(* group gets longer only by a failure after its end, at most doubles and  *)
(* never exceeds the maximum, however many scale-ups fail together.        *)
THEOREM BackoffGrowsSlowly == Spec => BackoffGrowth
<1>1. ASSUME BackoffInv, [Next]_vars, NEW g \in Group,
             HasBackoff(backoff[g]), backoff'[g].duration > backoff[g].duration
      PROVE  /\ backoff[g].until < backoff'[g].last
             /\ backoff'[g].duration <= 2 * backoff[g].duration
             /\ backoff'[g].duration <= MaxNodeGroupBackoffDuration
  <2>1. backoff[g] \in Entry
    BY <1>1 DEF BackoffInv, HasBackoff, NoBackoff
  <2>2. ~(backoff'[g] = backoff[g]) /\ ~(backoff'[g] = NoBackoff) /\ backoff'[g].duration # Initial
    BY <1>1, <2>1, NumberAssumption DEF NoBackoff, Entry, Initial, Longest
  <2>3. ~Failed(g, NoBackoff, currentTime)
    BY <2>2 DEF Failed, backoffNodeGroup, HasBackoff, NoBackoff, Initial
  <2>4. PICK time \in {now, currentTime} : Failed(g, backoff[g], time)
    BY <1>1, <2>2, <2>3, NextBackoff DEF BackoffStep
  <2>5. backoff'[g] = backoffNodeGroup(backoff[g], time) /\ backoff'[g].last = time /\ backoff'[g] \in Entry
    BY <2>2, <2>4 DEF Failed
  <2>6. backoff[g].until < time /\ backoff'[g].duration = Doubled(backoff[g].duration)
    BY <2>2, <2>5 DEF backoffNodeGroup, Initial
  <2>. QED  BY <2>1, <2>5, <2>6, NumberAssumption DEF Doubled, Entry, Longest, Initial
<1>2. BackoffInv /\ [Next]_vars => 
        [\A g \in Group :
            HasBackoff(backoff[g]) /\ backoff'[g].duration > backoff[g].duration =>
                /\ backoff[g].until < backoff'[g].last
                /\ backoff'[g].duration <= 2 * backoff[g].duration
                /\ backoff'[g].duration <= MaxNodeGroupBackoffDuration]_vars
  BY <1>1
<1>. QED  BY <1>2, BackoffInvariant, PTL DEF Spec, BackoffGrowth

(* BackoffLeaves, for every value of the constants: an entry disappears    *)
(* only by success of a scale-up or when it is stale.                      *)
THEOREM BackoffLeavesForAReason == Spec => BackoffLeaves
<1>1. ASSUME BackoffInv, [Next]_vars, NEW g \in Group,
             HasBackoff(backoff[g]), ~HasBackoff(backoff'[g])
      PROVE  \/ backoff[g].last + NodeGroupBackoffResetTimeout < currentTime
             \/ HasRequest(ups, g) /\ ~Upcoming(g)'
  <2>1. backoff'[g] \notin Entry /\ backoff'[g] # backoff[g]
    BY <1>1, NumberAssumption DEF HasBackoff, Entry, Initial
  <2>. QED  BY <1>1, <2>1, NextBackoff DEF BackoffStep, Failed, IsStale
<1>2. BackoffInv /\ [Next]_vars =>
        [\A g \in Group :
            HasBackoff(backoff[g]) /\ ~HasBackoff(backoff'[g]) =>
                \/ backoff[g].last + NodeGroupBackoffResetTimeout < currentTime
                \/ HasRequest(ups, g) /\ ~Upcoming(g)']_vars
  BY <1>1
<1>. QED  BY <1>2, BackoffInvariant, PTL DEF Spec, BackoffLeaves

(* ObservationsKeepStart, for every value of the constants: the age of a   *)
(* wrong size or of an unregistered instance is neither lost between       *)
(* passes nor carried over to another observation.                         *)
THEOREM AgesAreKept == Spec => ObservationsKeepStart
<1> DEFINE Same(g) == /\ incorrect[g].first > 0
                      /\ incorrect[g].current = incorrect'[g].current
                      /\ incorrect[g].expected = incorrect'[g].expected
           MismatchDated(g) == incorrect'[g].first > 0 =>
                IF Same(g) THEN incorrect'[g].first = incorrect[g].first
                           ELSE incorrect'[g].first = currentTime
           MissingDated(n) == missing'[n] > 0 => missing'[n] = IF missing[n] > 0 THEN missing[n] ELSE currentTime
           Dated == (\A g \in Group : MismatchDated(g)) /\ \A n \in Node : MissingDated(n)
<1>1. ASSUME NEW o, UpdateNodes(o), NEW g \in Group
      PROVE  MismatchDated(g)
  <2>1. PICK ready, range : incorrect' = IncorrectSizes(ready, range, currentTime)
    BY <1>1 DEF UpdateNodes
  <2> DEFINE new == [current |-> ready[g].Registered, expected |-> range[g].target, first |-> currentTime]
             wrong == ready[g].Registered > 0 /\ Mismatch(ready[g], range[g])
             same == incorrect[g].first > 0 /\ incorrect[g].current = new.current /\ incorrect[g].expected = new.expected
  <2>2. incorrect'[g] = IF wrong THEN IF same THEN incorrect[g] ELSE new ELSE NoMismatch
    BY <2>1 DEF IncorrectSizes
  <2>. HIDE DEF wrong
  <2>3. CASE ~wrong
    BY <2>2, <2>3 DEF NoMismatch
  <2>4. CASE wrong /\ same
    BY <2>2, <2>4
  <2>5. CASE wrong /\ ~same
    <3>1. incorrect'[g] = new
      BY <2>2, <2>5
    <3>2. ~Same(g) /\ incorrect'[g].first = currentTime
      BY <2>5, <3>1
    <3>. QED  BY <3>2
  <2>. QED  BY <2>3, <2>4, <2>5
<1>2. ASSUME NEW o, UpdateNodes(o), NEW n \in Node
      PROVE  MissingDated(n)
  <2>1. missing' = Unregistered(o.nodes, o.listed, currentTime)
    BY <1>2 DEF UpdateNodes
  <2>2. missing'[n] = IF n \in o.listed \ DOMAIN o.nodes
                        THEN IF missing[n] > 0 THEN missing[n] ELSE currentTime
                        ELSE 0
    BY <2>1 DEF Unregistered
  <2>. QED  BY <2>2
<1>3. [Next]_vars => [Dated]_vars
  <2>1. ASSUME [Next]_vars
        PROVE  \/ UNCHANGED <<incorrect, missing>>
               \/ \E o \in Observation : UpdateNodes(o)
    BY <2>1 DEF Next, vars, seen, Tick, StartLoop, RegisterScaleUp, RegisterScaleDown, RegisterFailedScaleUp
  <2>2. UNCHANGED <<incorrect, missing>> => Dated
    OBVIOUS
  <2>. QED  BY <1>1, <1>2, <2>1, <2>2
<1>. QED  BY <1>3, PTL DEF Spec, ObservationsKeepStart

-----------------------------------------------------------------------------
(* The requests.  A request is registered for a group, expected at some    *)
(* time, and there are finitely many: TimedOut counts some of them.        *)
RequestsInv ==
    /\ now \in Nat /\ currentTime \in Nat /\ probed \in Nat
    /\ IsFiniteSet(ups)
    /\ \A r \in ups : r.group \in Group /\ r.expected \in Nat
    /\ \A r \in downs : r.expected \in Nat

(* What a step does to the requests and to what was seen, when it is not   *)
(* UpdateNodes.                                                            *)
RequestStep ==
    \/ UNCHANGED <<requests, seen, fresh>>
    \/ /\ fresh' = "no" /\ UNCHANGED seen
       /\ \E g \in Group, increase \in Increase : RegisterScaleUp(g, increase)
    \/ /\ fresh' = "no" /\ UNCHANGED <<ups, seen>>
       /\ \E g \in Group : RegisterScaleDown(g)

LEMMA NextRequests ==
    ASSUME [Next]_vars
    PROVE  RequestStep \/ \E o \in Observation : UpdateNodes(o)
BY DEF Next, vars, RequestStep, Tick, StartLoop, RegisterScaleUp, RegisterScaleDown, RegisterFailedScaleUp

(* What UpdateNodes leaves of the requests: those that are not overdue, of *)
(* groups that still miss nodes; and ranges that account for these.        *)
LEMMA UpdateRequests ==
    ASSUME RequestsInv, NEW o \in Observation, UpdateNodes(o)
    PROVE  /\ ups' = {r \in ups : Upcoming(r.group)' /\ r.expected > currentTime}
           /\ downs' = {r \in downs : r.expected > currentTime}
           /\ ranges' = AcceptableRanges(o.size, ups', downs')
           /\ probed' = currentTime /\ UNCHANGED clock
<1> DEFINE ready == ReadinessOf(o)
           range == AcceptableRanges(o.size, ups, downs)
<1>1. /\ readiness' = ready
      /\ ups' = StillExpected(ups, ready, range, currentTime)
      /\ downs' = StillDeleting(downs, currentTime)
      /\ ranges' = RangesAfter(o.size, ups', downs')
      /\ probed' = currentTime /\ UNCHANGED clock
  BY DEF UpdateNodes
<1>2. \A g \in Group : ranges'[g].target = range[g].target
  BY <1>1, RangeTarget DEF RangesAfter
<1>3. \A g \in Group : Upcoming(g)' <=> areThereUpcomingNodes(range[g], ready[g])
  BY <1>1, <1>2 DEF Upcoming, areThereUpcomingNodes
<1>4. ups' = {r \in ups : areThereUpcomingNodes(range[r.group], ready[r.group]) /\ r.expected > currentTime}
  BY <1>1 DEF StillExpected
<1> HIDE DEF ready, range
<1>5. ups' = {r \in ups : Upcoming(r.group)' /\ r.expected > currentTime}
  BY <1>3, <1>4 DEF RequestsInv
<1> QED BY <1>1, <1>5 DEF StillDeleting, RangesAfter

(* RequestsInv is an invariant. *)
LEMMA RequestsInvariant == Spec => []RequestsInv
<1>1. Init => RequestsInv
  BY FS_EmptySet DEF Init, RequestsInv
<1>2. RequestsInv /\ [Next]_vars => RequestsInv'
  <2> SUFFICES ASSUME RequestsInv, [Next]_vars PROVE RequestsInv'
    OBVIOUS
  <2>1. now' \in Nat /\ currentTime' \in Nat
    <3>1. UNCHANGED clock \/ Tick \/ StartLoop
      BY DEF Next, vars, UpdateNodes, RegisterScaleUp, RegisterScaleDown, RegisterFailedScaleUp
    <3> QED BY <3>1 DEF RequestsInv, clock, Tick, StartLoop
  <2>2. CASE UNCHANGED <<requests, seen, fresh>>
    BY <2>1, <2>2 DEF RequestsInv, requests, seen
  <2>3. ASSUME NEW g \in Group, NEW increase \in Increase, RegisterScaleUp(g, increase)
        PROVE  RequestsInv'
    <3> DEFINE new == [call |-> calls, group |-> g, expected |-> now + ProvisionTime, increase |-> increase]
    <3>1. ups' = ups \cup {new} /\ downs' = downs /\ probed' = probed
      BY <2>3 DEF RegisterScaleUp, seen
    <3>2. new.group \in Group /\ new.expected \in Nat
      BY NumberAssumption DEF RequestsInv
    <3> HIDE DEF new
    <3> QED BY <2>1, <3>1, <3>2, FS_AddElement DEF RequestsInv
  <2>4. ASSUME NEW g \in Group, RegisterScaleDown(g)
        PROVE  RequestsInv'
    BY <2>1, <2>4, NumberAssumption DEF RegisterScaleDown, seen, RequestsInv
  <2>5. ASSUME NEW o \in Observation, UpdateNodes(o)
        PROVE  RequestsInv'
    <3>1. ups' \subseteq ups /\ downs' \subseteq downs /\ probed' = currentTime
      BY <2>5, UpdateRequests
    <3> QED BY <2>1, <3>1, FS_Subset DEF RequestsInv
  <2> QED BY <2>2, <2>3, <2>4, <2>5, NextRequests DEF RequestStep
<1> QED BY <1>1, <1>2, PTL DEF Spec

(* The ranges depend on the sizes of the groups only. *)
LEMMA RangesOfTargets ==
    ASSUME NEW size, NEW up, NEW down, ranges' = AcceptableRanges(size, up, down)
    PROVE  ranges' = AcceptableRanges([g \in Group |-> ranges'[g].target], up, down)
<1>1. \A g \in Group : ranges'[g].target = size[g]
  BY RangeTarget
<1> QED BY <1>1 DEF AcceptableRanges

(* RangesFollowRequests, for every value of the constants: what an         *)
(* UpdateNodes leaves is kept by every other operation that does not       *)
(* register a request, so the invariant needs the types of the requests    *)
(* only.                                                                   *)
THEOREM RangesAccountForRequests == Spec => []RangesFollowRequests
<1>1. Init => RangesFollowRequests
  BY DEF Init, RangesFollowRequests
<1>2. RequestsInv /\ RangesFollowRequests /\ [Next]_vars => RangesFollowRequests'
  <2> SUFFICES ASSUME RequestsInv, RangesFollowRequests, [Next]_vars PROVE RangesFollowRequests'
    OBVIOUS
  <2>1. CASE UNCHANGED <<requests, seen, fresh>>
    BY <2>1 DEF RangesFollowRequests, requests, seen, Upcoming
  <2>2. CASE fresh' = "no"
    BY <2>2 DEF RangesFollowRequests
  <2>3. ASSUME NEW o \in Observation, UpdateNodes(o)
        PROVE  RangesFollowRequests'
    BY <2>3, UpdateRequests, RangesOfTargets DEF RangesFollowRequests
  <2> QED BY <2>1, <2>2, <2>3, NextRequests DEF RequestStep
<1> QED BY <1>1, <1>2, RequestsInvariant, PTL DEF Spec

(* PendingSpares, for every value of the constants: an UpdateNodes that    *)
(* keeps a request of a group does not count the overdue ones as failures. *)
THEOREM PendingRequestsSpare == Spec => PendingSpares
<1> DEFINE Spared(g) == updates' # updates /\ HasRequest(ups', g) => backoff'[g] \in {backoff[g], NoBackoff}
<1>1. ASSUME RequestsInv, NEW o \in Observation, UpdateNodes(o), NEW g \in Group, HasRequest(ups', g)
      PROVE  backoff'[g] \in {backoff[g], NoBackoff}
  <2> DEFINE ready == ReadinessOf(o)
             range == AcceptableRanges(o.size, ups, downs)
             old == IF IsStale(backoff[g], currentTime) THEN NoBackoff ELSE backoff[g]
             still == StillExpected(ups, ready, range, currentTime)
  <2>1. ups' = still /\ backoff' = UpdatedBackoff(ups, ready, range, currentTime)
    BY <1>1 DEF UpdateNodes
  <2>2. IsNodeGroupScalingUp(g, range[g], ready[g], still)
    BY <1>1, <2>1 DEF HasRequest, Of, StillExpected, IsNodeGroupScalingUp
  <2>3. backoff'[g] = IF ~areThereUpcomingNodes(range[g], ready[g])
                        THEN IF Of(ups, g) # {} THEN NoBackoff ELSE old
                        ELSE IF IsNodeGroupScalingUp(g, range[g], ready[g], still)
                          THEN old ELSE BackoffTimes(old, TimedOut(g, ups, currentTime), currentTime)
    BY <2>1 DEF UpdatedBackoff
  <2> HIDE DEF ready, range, still
  <2> QED BY <2>2, <2>3
<1>2. ASSUME [Next]_vars PROVE updates' = updates \/ \E o \in Observation : UpdateNodes(o)
  BY <1>2 DEF Next, vars, Tick, StartLoop, RegisterScaleUp, RegisterScaleDown, RegisterFailedScaleUp, Call
<1>3. RequestsInv /\ [Next]_vars => [\A g \in Group : Spared(g)]_vars
  BY <1>1, <1>2
<1> QED BY <1>3, RequestsInvariant, PTL DEF Spec, PendingSpares

(* A failure that UpdateNodes finds: of the requests of g none is still    *)
(* expected, so one at least has timed out.                                *)
LEMMA FailureFound ==
    ASSUME BackoffInv, RequestsInv, NEW o \in Observation, UpdateNodes(o),
           NEW g \in Group, HasRequest(ups, g), ~HasRequest(ups', g), Upcoming(g)'
    PROVE  \E b : Failed(g, b, currentTime)
<1> DEFINE ready == ReadinessOf(o)
           range == AcceptableRanges(o.size, ups, downs)
           old == IF IsStale(backoff[g], currentTime) THEN NoBackoff ELSE backoff[g]
           late == {r \in Of(ups, g) : r.expected <= currentTime}
           still == StillExpected(ups, ready, range, currentTime)
<1>1. /\ readiness' = ready /\ backoff' = UpdatedBackoff(ups, ready, range, currentTime)
      /\ ups' = still
  BY DEF UpdateNodes
<1>2. areThereUpcomingNodes(range[g], ready[g])
  <2>1. ranges' = RangesAfter(o.size, ups', StillDeleting(downs, currentTime))
    BY DEF UpdateNodes
  <2>2. ranges'[g].target = range[g].target
    BY <2>1, RangeTarget DEF RangesAfter
  <2> QED BY <1>1, <2>2 DEF Upcoming, areThereUpcomingNodes
<1>3. backoff'[g] = BackoffTimes(old, Cardinality(late), currentTime)
  <2>1. ~IsNodeGroupScalingUp(g, range[g], ready[g], still)
    BY <1>1 DEF HasRequest, IsNodeGroupScalingUp
  <2>2. backoff'[g] = IF ~areThereUpcomingNodes(range[g], ready[g])
                        THEN IF Of(ups, g) # {} THEN NoBackoff ELSE old
                        ELSE IF IsNodeGroupScalingUp(g, range[g], ready[g], still)
                          THEN old ELSE BackoffTimes(old, TimedOut(g, ups, currentTime), currentTime)
    BY <1>1 DEF UpdatedBackoff
  <2> HIDE DEF ready, range, old, still
  <2> QED BY <1>2, <2>1, <2>2 DEF TimedOut
<1>4. Cardinality(late) # 0
  <2>1. PICK r \in ups : r.group = g
    BY DEF HasRequest, Of
  <2>2. r \notin ups'
    BY <2>1 DEF HasRequest, Of
  <2>3. r.expected <= currentTime
    BY <2>1, <2>2, UpdateRequests DEF RequestsInv
  <2>4. IsFiniteSet(late) /\ r \in late
    BY <2>1, <2>3, FS_Subset DEF RequestsInv, Of
  <2> HIDE DEF late
  <2> QED BY <2>4, FS_EmptySet
<1>5. old \in Entry \cup {NoBackoff} /\ currentTime \in Nat
  BY DEF BackoffInv
<1> HIDE DEF old, late
<1> QED BY <1>3, <1>4, <1>5, BackoffTimesMakesEntry DEF Failed

(* FailureBacksOff, for every value of the constants: when the last        *)
(* request of a group leaves the registry while nodes are missing, the     *)
(* group is in back-off from that moment, and not safe to scale up.        *)
THEOREM FailuresBackOff == Spec => FailureBacksOff
<1> DEFINE Lost(g) == HasRequest(ups, g) /\ ~HasRequest(ups', g) /\ Upcoming(g)'
           BacksOff(g) == /\ backoff'[g].last = currentTime
                          /\ backoff'[g].until >= currentTime + InitialNodeGroupBackoffDuration
                          /\ ~IsNodeGroupSafeToScaleUp(g, currentTime)'
<1>1. ASSUME BackoffInv, RequestsInv, [Next]_vars, NEW g \in Group, Lost(g)
      PROVE  BacksOff(g)
  <2>1. ~RequestStep
    BY <1>1 DEF RequestStep, requests, RegisterScaleUp, RegisterScaleDown, HasRequest, Of
  <2>2. PICK o \in Observation : UpdateNodes(o)
    BY <1>1, <2>1, NextRequests
  <2>3. PICK b : Failed(g, b, currentTime)
    BY <1>1, <2>2, FailureFound
  <2>4. /\ backoff'[g] \in Entry /\ backoff'[g].last = currentTime
        /\ backoff'[g].until = currentTime + backoff'[g].duration
    BY <2>3 DEF Failed
  <2>5. currentTime \in Nat /\ currentTime' = currentTime
    BY <1>1, <2>2, UpdateRequests DEF RequestsInv, clock
  <2>6. HasBackoff(backoff'[g]) /\ backoff'[g].until >= currentTime + InitialNodeGroupBackoffDuration
    BY <2>4, <2>5, NumberAssumption DEF Entry, HasBackoff, Initial, Longest
  <2>7. ~(backoff'[g].until < currentTime')
    BY <2>5, <2>6, <2>4, NumberAssumption DEF Entry
  <2> QED BY <2>4, <2>6, <2>7 DEF IsNodeGroupSafeToScaleUp
<1>2. BackoffInv /\ RequestsInv /\ [Next]_vars => [\A g \in Group : Lost(g) => BacksOff(g)]_vars
  BY <1>1
<1> QED BY <1>2, BackoffInvariant, RequestsInvariant, PTL DEF Spec, FailureBacksOff

-----------------------------------------------------------------------------
(* The reports.  A condition is dated from a probe that was made, and      *)
(* neither the probes nor the updates of the candidates run ahead of the   *)
(* caller's loop.  What a report under way has noted of a group is no      *)
(* older than what the last report says of it.                             *)
Probe(c) == IF c = "ScaleDown" THEN updated ELSE probed

DatesInv ==
    /\ now \in Nat /\ currentTime \in Nat /\ currentTime <= now
    /\ probed \in 0 .. currentTime /\ updated \in 0 .. currentTime
    /\ \A x \in Subject, c \in Conditions : status[x][c].transition \in 0 .. Probe(c)

DraftInv ==
    /\ asked \in Nat
    /\ draft = [g \in Group |-> draft[g]]
    /\ \A g \in Group, c \in Conditions :
        draft[g][c].probe = 0 \/ draft[g][c].probe \in status[g][c].transition .. Probe(c)

ReportInv == BackoffInv /\ DatesInv /\ DraftInv

LEMMA ProbeTimes ==
    ASSUME NEW x \in Subject, NEW c \in Conditions
    PROVE  ProbeTime(x, c) \in {0, Probe(c)}
BY DEF ProbeTime, Probe

(* What a report says: a condition whose status stays keeps its date. *)
LEMMA ReportOf ==
    ASSUME Report, NEW x \in Subject, NEW c \in Conditions
    PROVE  /\ status'[x][c].status = Found(x, c).status
           /\ status'[x][c].probe = Found(x, c).probe
           /\ status'[x][c].transition =
                  IF status[x][c].status = status'[x][c].status
                    THEN status[x][c].transition ELSE Found(x, c).probe
<1> DEFINE new(y, d) == [status |-> Found(y, d).status, probe |-> Found(y, d).probe,
                         transition |-> Transition(status[y][d], Found(y, d).status, Found(y, d).probe)]
<1>1. status' = [y \in Subject |-> [d \in Conditions |-> new(y, d)]]
  BY DEF Report
<1>2. status'[x][c] = new(x, c)
  BY <1>1
<1> QED BY <1>2 DEF Transition

(* What is found was probed no earlier than what the last report says. *)
LEMMA FoundDates ==
    ASSUME DatesInv, DraftInv, NEW x \in Subject, NEW c \in Conditions
    PROVE  /\ Probe(c) \in Nat /\ status[x][c].transition \in 0 .. Probe(c)
           /\ Found(x, c).probe = 0 \/ Found(x, c).probe \in status[x][c].transition .. Probe(c)
<1>1. Probe(c) \in Nat /\ status[x][c].transition \in 0 .. Probe(c)
  BY DEF DatesInv, Probe
<1>2. CASE x = Cluster
  <2>1. Found(x, c).probe = ProbeTime(x, c)
    BY <1>2 DEF Found
  <2> QED BY <1>1, <2>1, ProbeTimes
<1>3. CASE x # Cluster
  <2>1. x \in Group /\ Found(x, c) = draft[x][c]
    BY <1>3 DEF Found, Subject
  <2> QED BY <1>1, <2>1 DEF DraftInv
<1> QED BY <1>2, <1>3

(* A step of the registry with its reports is one of the registry, or      *)
(* changes nothing that ClusterState is about but the number of calls.     *)
LEMMA StatusSteps ==
    ASSUME [StatusNext]_statusVars
    PROVE  \/ [Next]_vars /\ UNCHANGED reported
           \/ \E nodes \in Candidates : UpdateScaleDownCandidates(nodes)
           \/ GetStatus
           \/ \E g \in Group : BuildGroup(g)
           \/ Report
BY DEF StatusNext, statusVars

LEMMA InitReport == StatusInit => ReportInv
<1> SUFFICES ASSUME StatusInit PROVE ReportInv
  OBVIOUS
<1>1. BackoffInv
  BY DEF StatusInit, Init, BackoffInv, NoBackoff
<1>2. DatesInv
  BY DEF StatusInit, Init, DatesInv, Probe, NoCondition
<1>3. DraftInv
  BY DEF StatusInit, DraftInv, Unbuilt
<1> QED BY <1>1, <1>2, <1>3 DEF ReportInv

LEMMA NextReport == ReportInv /\ [StatusNext]_statusVars => ReportInv'
<1> SUFFICES ASSUME BackoffInv, DatesInv, DraftInv, [StatusNext]_statusVars PROVE ReportInv'
  BY DEF ReportInv
<1>1. CASE [Next]_vars /\ UNCHANGED reported
  <2>1. BackoffInv'
    BY <1>1, BackoffKept
  <2>2. UNCHANGED probed \/ (probed' = currentTime /\ UNCHANGED clock)
    BY <1>1 DEF Next, vars, seen, Tick, StartLoop, UpdateNodes, RegisterScaleUp, RegisterScaleDown, RegisterFailedScaleUp
  <2>3. UNCHANGED clock \/ Tick \/ StartLoop
    BY <1>1 DEF Next, vars, UpdateNodes, RegisterScaleUp, RegisterScaleDown, RegisterFailedScaleUp
  <2>4. currentTime <= currentTime' /\ currentTime' <= now' /\ now' \in Nat /\ currentTime' \in Nat
    BY <2>3 DEF DatesInv, clock, Tick, StartLoop
  <2>5. probed <= probed' /\ probed' \in 0 .. currentTime' /\ UNCHANGED <<updated, status, asked, draft>>
    BY <1>1, <2>2, <2>4 DEF DatesInv, clock, reported
  <2>6. DatesInv'
    BY <2>4, <2>5 DEF DatesInv, Probe
  <2>7. \A c \in Conditions : Probe(c) \in Nat /\ Probe(c)' \in Nat /\ Probe(c) <= Probe(c)'
    BY <2>5 DEF DatesInv, Probe
  <2>8. \A g \in Group, c \in Conditions : status[g][c].transition \in Nat
    BY DEF DatesInv, Subject, Probe
  <2>9. DraftInv'
    BY <2>5, <2>7, <2>8 DEF DraftInv
  <2> QED BY <2>1, <2>6, <2>9 DEF ReportInv
<1>2. ASSUME NEW nodes \in Candidates, UpdateScaleDownCandidates(nodes)
      PROVE  ReportInv'
  <2>1. UNCHANGED <<clock, seen, backoff, status, asked, draft>> /\ updated' = currentTime
    BY <1>2 DEF UpdateScaleDownCandidates
  <2>2. BackoffInv' /\ DatesInv'
    BY <2>1 DEF BackoffInv, DatesInv, Probe, clock, seen
  <2>3. \A c \in Conditions : Probe(c) \in Nat /\ Probe(c)' \in Nat /\ Probe(c) <= Probe(c)'
    BY <2>1 DEF DatesInv, Probe, seen
  <2>4. \A g \in Group, c \in Conditions : status[g][c].transition \in Nat
    BY DEF DatesInv, Subject, Probe
  <2>5. DraftInv'
    BY <2>1, <2>3, <2>4 DEF DraftInv
  <2> QED BY <2>2, <2>5 DEF ReportInv
<1>3. CASE GetStatus
  <2>1. UNCHANGED <<clock, seen, backoff, updated, status, draft>> /\ asked' = currentTime
    BY <1>3 DEF GetStatus
  <2>2. BackoffInv' /\ DatesInv'
    BY <2>1 DEF BackoffInv, DatesInv, Probe, clock, seen
  <2>3. DraftInv'
    BY <2>1 DEF DraftInv, DatesInv, Probe, seen
  <2> QED BY <2>2, <2>3 DEF ReportInv
<1>4. ASSUME NEW g \in Group, BuildGroup(g)
      PROVE  ReportInv'
  <2> DEFINE built == [c \in Conditions |-> [status |-> GroupStatus(g, c), probe |-> ProbeTime(g, c)]]
  <2>1. UNCHANGED <<clock, seen, backoff, updated, status, asked>> /\ draft' = [draft EXCEPT ![g] = built]
    BY <1>4 DEF BuildGroup, vars
  <2>2. BackoffInv' /\ DatesInv'
    BY <2>1 DEF BackoffInv, DatesInv, Probe, clock, seen
  <2>3. \A c \in Conditions : built[c].probe \in {0, Probe(c)}
    BY ProbeTimes DEF Subject
  <2> HIDE DEF built
  <2>4. /\ draft' = [h \in Group |-> draft'[h]]
        /\ \A h \in Group : draft'[h] = IF h = g THEN built ELSE draft[h]
    BY <2>1 DEF DraftInv
  <2>5. \A c \in Conditions : Probe(c) \in status[g][c].transition .. Probe(c) /\ Probe(c)' = Probe(c)
    BY <2>1 DEF DatesInv, Subject, Probe, seen
  <2>6. DraftInv'
    BY <2>1, <2>3, <2>4, <2>5 DEF DraftInv
  <2> QED BY <2>2, <2>6 DEF ReportInv
<1>5. CASE Report
  <2>1. UNCHANGED <<clock, seen, backoff, updated>> /\ asked' = 0 /\ draft' = [g \in Group |-> Unbuilt]
    BY <1>5 DEF Report, vars
  <2>2. ASSUME NEW x \in Subject, NEW c \in Conditions
        PROVE  status'[x][c].transition \in 0 .. Probe(c)
    BY <1>5, ReportOf, FoundDates
  <2>3. BackoffInv' /\ DatesInv'
    BY <2>1, <2>2 DEF BackoffInv, DatesInv, Probe, clock, seen
  <2>4. DraftInv'
    BY <2>1 DEF DraftInv, Unbuilt
  <2> QED BY <2>3, <2>4 DEF ReportInv
<1> QED BY <1>1, <1>2, <1>3, <1>4, <1>5, StatusSteps

LEMMA ReportInvariant == StatusSpec => []ReportInv
BY InitReport, NextReport, PTL DEF StatusSpec

(* Only the end of GetStatus changes the last report. *)
LEMMA StatusKept ==
    ASSUME [StatusNext]_statusVars
    PROVE  UNCHANGED status \/ Report
BY StatusSteps DEF reported, UpdateScaleDownCandidates, GetStatus, BuildGroup

(* TransitionsAdvance, for every value of the constants: the date of a     *)
(* condition never goes back, as what a report reads was probed no earlier *)
(* than all that its conditions were dated from.                           *)
THEOREM ReportsAdvance == StatusSpec => TransitionsAdvance
<1> DEFINE Advances(x, c) ==
        IF status'[x][c].status = status[x][c].status
          THEN status'[x][c].transition = status[x][c].transition
          ELSE status'[x][c].transition >= status[x][c].transition
<1>1. ASSUME ReportInv, [StatusNext]_statusVars, NEW x \in Subject, NEW c \in Conditions,
             status'[x][c].probe > 0
      PROVE  Advances(x, c)
  <2>1. CASE UNCHANGED status
    BY <2>1
  <2>2. CASE Report
    <3>1. Probe(c) \in Nat /\ status[x][c].transition \in 0 .. Probe(c)
      BY <1>1, FoundDates DEF ReportInv
    <3>2. Found(x, c).probe \in status[x][c].transition .. Probe(c)
      BY <1>1, <2>2, ReportOf, FoundDates DEF ReportInv
    <3> QED BY <2>2, <3>1, <3>2, ReportOf
  <2> QED BY <1>1, <2>1, <2>2, StatusKept
<1>2. ReportInv /\ [StatusNext]_statusVars =>
        [\A x \in Subject, c \in Conditions : status'[x][c].probe > 0 => Advances(x, c)]_statusVars
  BY <1>1
<1> QED BY <1>2, ReportInvariant, PTL DEF StatusSpec, TransitionsAdvance

(* BackoffReported, for every value of the constants: a group in back-off  *)
(* is reported so, unless another scale-up of it is in progress, and what  *)
(* is said of the cluster goes with what the same report says of the       *)
(* groups.                                                                 *)
THEOREM BackoffIsReported == StatusSpec => BackoffReported
<1> DEFINE Noted(g) ==
        /\ draft'[g] \notin {draft[g], Unbuilt}
        /\ HasBackoff(backoff[g]) /\ backoff[g].until >= asked
        => \/ draft'[g]["ScaleUp"].status = "Backoff"
           \/ HasRequest(ups, g) /\ draft'[g]["ScaleUp"].status = "InProgress"
           Agrees ==
        status' # status =>
            (status'[Cluster]["ScaleUp"].status = "InProgress"
                <=> \E g \in Group : status'[g]["ScaleUp"].status = "InProgress")
<1>1. ASSUME ReportInv, [StatusNext]_statusVars, NEW g \in Group PROVE Noted(g)
  <2> SUFFICES ASSUME draft'[g] # draft[g], draft'[g] # Unbuilt,
                      HasBackoff(backoff[g]), backoff[g].until >= asked
               PROVE  \/ draft'[g]["ScaleUp"].status = "Backoff"
                      \/ HasRequest(ups, g) /\ draft'[g]["ScaleUp"].status = "InProgress"
    OBVIOUS
  <2>1. PICK h \in Group : BuildGroup(h)
    <3>1. ~Report
      BY DEF Report
    <3> QED BY <1>1, <3>1, StatusSteps DEF reported, UpdateScaleDownCandidates, GetStatus
  <2>2. draft = [x \in Group |-> draft[x]]
    BY <1>1 DEF ReportInv, DraftInv
  <2>3. draft'[g] = [c \in Conditions |-> [status |-> GroupStatus(g, c), probe |-> ProbeTime(g, c)]]
    <3> DEFINE built(x) == [c \in Conditions |-> [status |-> GroupStatus(x, c), probe |-> ProbeTime(x, c)]]
    <3>1. draft' = [draft EXCEPT ![h] = built(h)]
      BY <2>1 DEF BuildGroup
    <3> HIDE DEF built
    <3>2. h = g /\ draft'[g] = built(g)
      BY <2>2, <3>1
    <3> QED BY <3>2 DEF built
  <2>4. draft'[g]["ScaleUp"].status = ScaleUpStatus(g)
    BY <2>3 DEF Conditions, GroupStatus
  <2>5. backoff[g].until \in Nat /\ asked \in Nat
    BY <1>1 DEF ReportInv, BackoffInv, DraftInv, Entry, NoBackoff
  <2>6. ~IsNodeGroupSafeToScaleUp(g, asked)
    BY <2>5 DEF IsNodeGroupSafeToScaleUp
  <2> QED BY <2>4, <2>6 DEF ScaleUpStatus, IsNodeGroupScalingUp, HasRequest
<1>2. ASSUME [StatusNext]_statusVars PROVE Agrees
  <2> SUFFICES ASSUME status' # status
               PROVE  status'[Cluster]["ScaleUp"].status = "InProgress"
                        <=> \E g \in Group : status'[g]["ScaleUp"].status = "InProgress"
    OBVIOUS
  <2>1. Report
    BY <1>2, StatusKept
  <2>2. status'[Cluster]["ScaleUp"].status = ScaleUpStatusClusterwide
    BY <2>1, ReportOf DEF Subject, Conditions, Found, ClusterStatusOf
  <2>3. \A g \in Group : status'[g]["ScaleUp"].status = draft[g]["ScaleUp"].status
    BY <2>1, ReportOf, ClusterAssumption DEF Subject, Conditions, Found
  <2> QED BY <2>2, <2>3 DEF ScaleUpStatusClusterwide
<1>3. ReportInv /\ [StatusNext]_statusVars => [(\A g \in Group : Noted(g)) /\ Agrees]_statusVars
  BY <1>1, <1>2
<1> QED BY <1>3, ReportInvariant, PTL DEF StatusSpec, BackoffReported
=============================================================================
