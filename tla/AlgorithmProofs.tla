-------------------------- MODULE AlgorithmProofs ---------------------------
(***************************************************************************)
(* Proofs about two algorithms, for sets and sequences of any size: the    *)
(* balancing of a scale-up and the log of recent items.  Induction is by a *)
(* least counterexample.                                                   *)
(***************************************************************************)
EXTENDS BalanceScaleUp, LogCollector, FiniteSetTheorems, TLAPS

(* A non-empty set of natural numbers has a least element. *)
LEMMA LeastNatural ==
    ASSUME NEW T, T \subseteq Nat, T # {}
    PROVE  \E x \in T : \A y \in T : x <= y
<1> DEFINE R == OpToRel(<, Nat)
<1>1. IsWellFoundedOn(R, Nat)
  BY NatLessThanWellFounded
<1>2. \A x, y \in Nat : x < y => <<x, y>> \in R
  BY DEF OpToRel
<1> HIDE DEF R
<1>3. PICK x \in T : \A y \in T : ~ (<<y, x>> \in R)
  BY <1>1, WFMin, Zenon
<1>4. ASSUME NEW y \in T PROVE x <= y
  <2>1. ~(<<y, x>> \in R) /\ x \in Nat /\ y \in Nat
    BY <1>3
  <2>2. ~(y < x)
    BY <1>2, <2>1
  <2> QED BY <2>1, <2>2
<1> QED BY <1>4

(* A non-empty family of subsets of a finite set has a minimal one.        *)
LEMMA SmallestSet ==
    ASSUME NEW S, IsFiniteSet(S), NEW T, T \subseteq SUBSET S, T # {}
    PROVE  \E x \in T : \A y \in T : ~(y \subseteq x /\ y # x)
<1> DEFINE C == {Cardinality(s) : s \in T}
<1>1. \A s \in T : IsFiniteSet(s) /\ Cardinality(s) \in Nat
  BY FS_Subset, FS_CardinalityType
<1>2. PICK n \in C : \A m \in C : n <= m
  <2>1. C \subseteq Nat /\ C # {} BY <1>1
  <2> HIDE DEF C
  <2> QED BY <2>1, LeastNatural, Zenon
<1>3. PICK x \in T : Cardinality(x) = n
  BY <1>2
<1>4. ASSUME NEW y \in T, y \subseteq x, y # x PROVE FALSE
  <2>1. Cardinality(y) <= Cardinality(x) /\ Cardinality(x) # Cardinality(y)
    BY <1>1, <1>4, FS_Subset
  <2>2. n <= Cardinality(y)
    BY <1>2
  <2> QED BY <1>1, <1>3, <2>1, <2>2
<1> QED BY <1>4

(***************************************************************************)
(* Sums over finite sets                                                   *)
(***************************************************************************)
First(s) == CHOOSE g \in s : TRUE

Adds(it, f, D) == it = [s \in D |-> IF s = {} THEN 0 ELSE f[First(s)] + it[s \ {First(s)}]]

Partial(f, S) == CHOOSE it : Adds(it, f, SUBSET S)

LEMMA SumIsPartial == \A f, S : Sum(f, S) = Partial(f, S)[S]
BY DEF Sum, MapThenFoldSet, Partial, Adds, First

(* The function that the fold chooses exists: it is built for larger and   *)
(* larger subsets.                                                         *)
LEMMA PartialExists ==
    ASSUME NEW f, NEW S, IsFiniteSet(S)
    PROVE  Adds(Partial(f, S), f, SUBSET S)
<1> DEFINE Upto(n) == {s \in SUBSET S : Cardinality(s) <= n}
           Bad == {n \in Nat : ~\E it : Adds(it, f, Upto(n))}
<1>1. \A s \in SUBSET S : IsFiniteSet(s) /\ Cardinality(s) \in Nat /\ Cardinality(s) <= Cardinality(S)
  BY FS_Subset, FS_CardinalityType
<1>2. \A s \in SUBSET S : s # {} => /\ First(s) \in s
                                    /\ s \ {First(s)} \in SUBSET S
                                    /\ Cardinality(s \ {First(s)}) = Cardinality(s) - 1
  BY <1>1, FS_RemoveElement, Zenon DEF First
<1>3. 0 \notin Bad
  <2>1. \A s \in Upto(0) : s = {}
    BY <1>1, FS_EmptySet
  <2>2. Adds([s \in Upto(0) |-> 0], f, Upto(0))
    BY <2>1 DEF Adds
  <2> QED BY <2>2, Zenon
<1>4. ASSUME NEW n \in Nat, n \notin Bad PROVE n + 1 \notin Bad
  <2>1. PICK it : Adds(it, f, Upto(n))
    BY <1>4
  <2> DEFINE next == [s \in Upto(n + 1) |-> IF s = {} THEN 0 ELSE f[First(s)] + it[s \ {First(s)}]]
  <2>2. ASSUME NEW s \in Upto(n) PROVE s \in Upto(n + 1) /\ next[s] = it[s]
    <3>1. s \in Upto(n + 1)
      BY <1>1
    <3>2. it[s] = IF s = {} THEN 0 ELSE f[First(s)] + it[s \ {First(s)}]
      BY <2>1, Zenon DEF Adds
    <3> QED BY <3>1, <3>2
  <2>3. \A s \in Upto(n + 1) : s # {} => s \ {First(s)} \in Upto(n)
    BY <1>1, <1>2
  <2> HIDE DEF Upto
  <2>4. \A s \in Upto(n + 1) : next[s] = IF s = {} THEN 0 ELSE f[First(s)] + next[s \ {First(s)}]
    BY <2>2, <2>3, Zenon
  <2>5. Adds(next, f, Upto(n + 1))
    BY <2>4, Zenon DEF Adds
  <2> QED BY <2>5
<1>5. Bad = {}
  <2> SUFFICES ASSUME Bad # {} PROVE FALSE
    OBVIOUS
  <2>1. Bad \subseteq Nat
    OBVIOUS
  <2> HIDE DEF Bad
  <2>2. PICK n \in Bad : \A m \in Bad : n <= m
    BY <2>1, LeastNatural, Zenon
  <2>3. n \in Nat /\ n # 0
    BY <1>3, <2>1
  <2>4. n - 1 \in Nat /\ n - 1 \notin Bad /\ (n - 1) + 1 = n
    BY <2>2, <2>3
  <2> QED BY <1>4, <2>2, <2>4
<1>6. PICK it : Adds(it, f, SUBSET S)
  <2>1. Upto(Cardinality(S)) = SUBSET S
    BY <1>1
  <2>2. Cardinality(S) \in Nat
    BY FS_CardinalityType
  <2> QED BY <1>5, <2>1, <2>2, Zenon
<1> QED BY <1>6, Zenon DEF Partial

LEMMA PartialStep ==
    ASSUME NEW f, NEW S, IsFiniteSet(S), NEW s \in SUBSET S
    PROVE  Partial(f, S)[s] = IF s = {} THEN 0 ELSE f[First(s)] + Partial(f, S)[s \ {First(s)}]
<1> DEFINE it == Partial(f, S)
<1>1. Adds(it, f, SUBSET S)
  BY PartialExists
<1> HIDE DEF it
<1>2. it[s] = IF s = {} THEN 0 ELSE f[First(s)] + it[s \ {First(s)}]
  BY <1>1, Zenon DEF Adds
<1> QED BY <1>2 DEF it

LEMMA PartialIsSum ==
    ASSUME NEW f, NEW S, IsFiniteSet(S), NEW s \in SUBSET S
    PROVE  Partial(f, S)[s] = Sum(f, s)
<1> DEFINE Good(t) == \A U \in SUBSET S : t \subseteq U => Partial(f, U)[t] = Sum(f, t)
           Bad == {t \in SUBSET S : ~Good(t)}
<1>1. \A U \in SUBSET S : IsFiniteSet(U)
  BY FS_Subset
<1>2. ASSUME NEW t \in Bad, \A u \in Bad : ~(u \subseteq t /\ u # t) PROVE FALSE
  <2>1. PICK U \in SUBSET S : t \subseteq U /\ Partial(f, U)[t] # Sum(f, t)
    OBVIOUS
  <2>2. Sum(f, t) = Partial(f, t)[t]
    BY SumIsPartial
  <2>3. /\ Partial(f, U)[t] = IF t = {} THEN 0 ELSE f[First(t)] + Partial(f, U)[t \ {First(t)}]
        /\ Partial(f, t)[t] = IF t = {} THEN 0 ELSE f[First(t)] + Partial(f, t)[t \ {First(t)}]
    BY <1>1, <2>1, PartialStep
  <2>4. t # {}
    BY <2>1, <2>2, <2>3
  <2>5. First(t) \in t
    BY <2>4 DEF First
  <2>6. Good(t \ {First(t)})
    BY <1>2, <2>5
  <2>7. Partial(f, U)[t \ {First(t)}] = Partial(f, t)[t \ {First(t)}]
    BY <2>1, <2>6
  <2> QED BY <2>1, <2>2, <2>3, <2>4, <2>7
<1>3. Bad = {}
  <2>1. Bad \subseteq SUBSET S
    OBVIOUS
  <2> HIDE DEF Bad
  <2> QED BY <1>2, <2>1, SmallestSet
<1> QED BY <1>3

(* A sum is nothing for no elements and otherwise what one element gives   *)
(* and the sum of the others.                                              *)
LEMMA SumStep ==
    ASSUME NEW f, NEW S, IsFiniteSet(S)
    PROVE  Sum(f, S) = IF S = {} THEN 0 ELSE f[First(S)] + Sum(f, S \ {First(S)})
<1>1. Sum(f, S) = Partial(f, S)[S]
  BY SumIsPartial
<1>2. Partial(f, S)[S \ {First(S)}] = Sum(f, S \ {First(S)})
  BY PartialIsSum
<1> QED BY <1>1, <1>2, PartialStep

LEMMA SumType ==
    ASSUME NEW f, NEW S, IsFiniteSet(S), \A x \in S : f[x] \in Int
    PROVE  Sum(f, S) \in Int
<1> DEFINE Bad == {t \in SUBSET S : Sum(f, t) \notin Int}
<1>1. ASSUME NEW t \in Bad, \A u \in Bad : ~(u \subseteq t /\ u # t) PROVE FALSE
  <2>1. Sum(f, t) = IF t = {} THEN 0 ELSE f[First(t)] + Sum(f, t \ {First(t)})
    BY FS_Subset, SumStep, Zenon
  <2>2. t # {} => First(t) \in t
    BY DEF First
  <2>3. t # {} => Sum(f, t \ {First(t)}) \in Int /\ f[First(t)] \in Int
    BY <1>1, <2>2
  <2> QED BY <2>1, <2>3
<1>2. Bad = {}
  <2>1. Bad \subseteq SUBSET S
    OBVIOUS
  <2> HIDE DEF Bad
  <2> QED BY <1>1, <2>1, SmallestSet
<1> QED BY <1>2

(* Any element may be taken first. *)
LEMMA SumTake ==
    ASSUME NEW f, NEW S, IsFiniteSet(S), \A x \in S : f[x] \in Int, NEW x \in S
    PROVE  Sum(f, S) = f[x] + Sum(f, S \ {x})
<1> DEFINE Good(t) == \A y \in t : Sum(f, t) = f[y] + Sum(f, t \ {y})
           Bad == {t \in SUBSET S : ~Good(t)}
<1>0. \A t \in SUBSET S : Sum(f, t) \in Int
  BY FS_Subset, SumType
<1>1. ASSUME NEW t \in Bad, \A u \in Bad : ~(u \subseteq t /\ u # t) PROVE FALSE
  <2>1. PICK y \in t : Sum(f, t) # f[y] + Sum(f, t \ {y})
    BY Zenon
  <2> DEFINE p == First(t)
  <2>2. p \in t
    BY <2>1 DEF First
  <2> HIDE DEF p
  <2>3. Sum(f, t) = f[p] + Sum(f, t \ {p})
    BY <2>1, FS_Subset, SumStep DEF p
  <2>4. p # y
    BY <2>1, <2>3, Zenon
  <2>5. Good(t \ {p}) /\ Good(t \ {y})
    BY <1>1, <2>1, <2>2
  <2>6. (t \ {p}) \ {y} = (t \ {y}) \ {p}
    OBVIOUS
  <2>7. Sum(f, t \ {p}) = f[y] + Sum(f, (t \ {p}) \ {y}) /\ Sum(f, t \ {y}) = f[p] + Sum(f, (t \ {p}) \ {y})
    BY <2>2, <2>4, <2>5, <2>6
  <2>8. f[y] \in Int /\ f[p] \in Int /\ Sum(f, (t \ {p}) \ {y}) \in Int
    BY <1>0, <2>2
  <2> QED BY <2>1, <2>3, <2>7, <2>8
<1>2. Bad = {}
  <2>1. Bad \subseteq SUBSET S
    OBVIOUS
  <2> HIDE DEF Bad
  <2> QED BY <1>1, <2>1, SmallestSet
<1> QED BY <1>2

LEMMA SumSame ==
    ASSUME NEW f, NEW h, NEW S, IsFiniteSet(S), \A x \in S : f[x] = h[x]
    PROVE  Sum(f, S) = Sum(h, S)
<1> DEFINE Bad == {t \in SUBSET S : Sum(f, t) # Sum(h, t)}
<1>1. ASSUME NEW t \in Bad, \A u \in Bad : ~(u \subseteq t /\ u # t) PROVE FALSE
  <2>1. /\ Sum(f, t) = IF t = {} THEN 0 ELSE f[First(t)] + Sum(f, t \ {First(t)})
        /\ Sum(h, t) = IF t = {} THEN 0 ELSE h[First(t)] + Sum(h, t \ {First(t)})
    BY FS_Subset, SumStep
  <2>2. t # {}
    BY <2>1
  <2>3. First(t) \in t
    BY <2>2 DEF First
  <2>4. Sum(f, t \ {First(t)}) = Sum(h, t \ {First(t)}) /\ f[First(t)] = h[First(t)]
    BY <1>1, <2>3
  <2> QED BY <2>1, <2>4
<1>2. Bad = {}
  <2>1. Bad \subseteq SUBSET S
    OBVIOUS
  <2> HIDE DEF Bad
  <2> QED BY <1>1, <2>1, SmallestSet
<1> QED BY <1>2

(* One summand changes. *)
LEMMA SumUpdate ==
    ASSUME NEW f, NEW h, NEW S, IsFiniteSet(S), \A x \in S : f[x] \in Int /\ h[x] \in Int,
           NEW x \in S, \A y \in S : y # x => f[y] = h[y]
    PROVE  Sum(h, S) - h[x] = Sum(f, S) - f[x]
<1>1. Sum(f, S) = f[x] + Sum(f, S \ {x}) /\ Sum(h, S) = h[x] + Sum(h, S \ {x})
  BY SumTake
<1>2. IsFiniteSet(S \ {x})
  BY FS_Subset
<1>3. Sum(f, S \ {x}) = Sum(h, S \ {x}) /\ Sum(f, S \ {x}) \in Int
  BY <1>2, SumSame, SumType
<1> QED BY <1>1, <1>3

(* Zeros may be left out. *)
LEMMA SumZeros ==
    ASSUME NEW f, NEW S, IsFiniteSet(S), \A x \in S : f[x] \in Int,
           NEW T \in SUBSET S, \A x \in S \ T : f[x] = 0
    PROVE  Sum(f, S) = Sum(f, T)
<1> DEFINE Bad == {t \in SUBSET S : T \subseteq t /\ Sum(f, t) # Sum(f, T)}
<1>1. ASSUME NEW t \in Bad, \A u \in Bad : ~(u \subseteq t /\ u # t) PROVE FALSE
  <2>1. PICK x \in t : x \notin T
    OBVIOUS
  <2>2. IsFiniteSet(t)
    BY FS_Subset
  <2>3. Sum(f, t) = f[x] + Sum(f, t \ {x}) /\ Sum(f, t \ {x}) \in Int
    BY <2>2, SumTake, SumType, FS_Subset
  <2>4. f[x] = 0
    BY <2>1
  <2>5. t \ {x} \in Bad
    BY <2>1, <2>3, <2>4
  <2> QED BY <1>1, <2>5
<1>2. Bad = {}
  <2>1. Bad \subseteq SUBSET S
    OBVIOUS
  <2> HIDE DEF Bad
  <2> QED BY <1>1, <2>1, SmallestSet
<1> QED BY <1>2

(* Sums of nothing negative are not negative, and where no summand is      *)
(* positive the sum is not.                                                *)
LEMMA SumSign ==
    ASSUME NEW f, NEW S, IsFiniteSet(S), \A x \in S : f[x] \in Int
    PROVE  /\ (\A x \in S : f[x] >= 0) => Sum(f, S) >= 0
           /\ Sum(f, S) > 0 => \E x \in S : f[x] > 0
<1> DEFINE Good(t) == /\ (\A x \in t : f[x] >= 0) => Sum(f, t) >= 0
                      /\ (\A x \in t : f[x] <= 0) => Sum(f, t) <= 0
           Bad == {t \in SUBSET S : ~Good(t)}
<1>0. \A t \in SUBSET S : Sum(f, t) \in Int
  BY FS_Subset, SumType
<1>1. ASSUME NEW t \in Bad, \A u \in Bad : ~(u \subseteq t /\ u # t) PROVE FALSE
  <2>1. Sum(f, t) = IF t = {} THEN 0 ELSE f[First(t)] + Sum(f, t \ {First(t)})
    BY FS_Subset, SumStep
  <2>2. t # {}
    BY <2>1
  <2> DEFINE p == First(t)
  <2>3. p \in t
    BY <2>2 DEF First
  <2>4. Good(t \ {p})
    BY <1>1, <2>3
  <2> HIDE DEF p
  <2>5. f[p] \in Int /\ Sum(f, t \ {p}) \in Int /\ Sum(f, t) = f[p] + Sum(f, t \ {p})
    BY <1>0, <2>1, <2>2, <2>3 DEF p
  <2>6. (\A x \in t : f[x] >= 0) => Sum(f, t) >= 0
    BY <2>3, <2>4, <2>5
  <2>7. (\A x \in t : f[x] <= 0) => Sum(f, t) <= 0
    BY <2>3, <2>4, <2>5
  <2> QED BY <2>6, <2>7
<1>2. Bad = {}
  <2>1. Bad \subseteq SUBSET S
    OBVIOUS
  <2> HIDE DEF Bad
  <2> QED BY <1>1, <2>1, SmallestSet
<1>3. Good(S)
  BY <1>2
<1>4. Sum(f, S) > 0 => \E x \in S : f[x] > 0
  <2> SUFFICES ASSUME Sum(f, S) > 0, \A x \in S : ~(f[x] > 0) PROVE FALSE
    OBVIOUS
  <2>1. \A x \in S : f[x] <= 0
    OBVIOUS
  <2>2. Sum(f, S) <= 0
    BY <1>3, <2>1
  <2> QED BY <1>0, <2>2
<1> QED BY <1>3, <1>4

-----------------------------------------------------------------------------
(* The balancing of a scale-up: what NewSize reads, for any slice *)
SizeIn(s, sizes, g) == IF \E i \in 1 .. Len(s) : s[i].group = g
                         THEN s[CHOOSE i \in 1 .. Len(s) : s[i].group = g].new
                         ELSE sizes[g]

Distinct(s) == \A i, j \in 1 .. Len(s) : s[i].group = s[j].group => i = j

LEMMA SizeFound ==
    ASSUME NEW s, NEW sizes, Distinct(s), NEW i \in 1 .. Len(s)
    PROVE  SizeIn(s, sizes, s[i].group) = s[i].new
<1> DEFINE k == CHOOSE j \in 1 .. Len(s) : s[j].group = s[i].group
<1>1. k \in 1 .. Len(s) /\ s[k].group = s[i].group
  OBVIOUS
<1>2. k = i
  BY <1>1 DEF Distinct
<1> QED BY <1>1, <1>2, Zenon DEF SizeIn

SliceInfo == [group : Group, new : Int]

BalanceTypes ==
    /\ currentSize \in [Group -> Int] /\ maxSize \in [Group -> Int]
    /\ requested \in Nat /\ newNodes \in Int
    /\ infos \in Seq(SliceInfo)
    /\ startIndex \in Nat \ {0} /\ currentIndex \in Nat \ {0}

(* The slice holds every group that is not maxed once; groups only grow,   *)
(* and no further than their maximum.                                      *)
Placement ==
    /\ Distinct(infos)
    /\ \A g \in Group : currentSize[g] # maxSize[g] => \E i \in 1 .. Len(infos) : infos[i].group = g
    /\ \A i \in 1 .. Len(infos) :
          /\ currentSize[infos[i].group] <= infos[i].new
          /\ infos[i].new > currentSize[infos[i].group] => infos[i].new <= maxSize[infos[i].group]

Indices ==
    /\ startIndex <= currentIndex
    /\ \/ currentIndex <= Len(infos)
       \/ currentIndex = startIndex /\ startIndex = Len(infos) + 1

Removed == \A i \in 1 .. startIndex - 1 : infos[i].new >= maxSize[infos[i].group]

(* Stronger than the loop's comment: the groups before currentIndex are    *)
(* ahead of it by one, not by at most one.                                 *)
Ordered ==
    /\ \A i, j \in startIndex .. Len(infos) : i < j /\ i >= currentIndex => infos[i].new <= infos[j].new
    /\ \A i \in startIndex .. Len(infos) : i < currentIndex => infos[i].new = infos[currentIndex].new + 1

(* A group that has grown is ahead of no group that is left by more than   *)
(* one.                                                                    *)
Even ==
    \A i \in 1 .. Len(infos), j \in startIndex .. Len(infos) :
        infos[i].new > currentSize[infos[i].group] => infos[i].new <= infos[j].new + 1

Room == Sum([g \in Group |-> maxSize[g] - currentSize[g]], Group)
Placed == Sum([g \in Group |-> NewSize(g) - currentSize[g]], Group)
Rest == Sum([g \in Group |-> maxSize[g] - NewSize(g)], Group)
Total == IF Room < requested THEN Room ELSE requested

(* No node is lost, and what is left to place fits. *)
Count ==
    /\ newNodes + Placed = Total
    /\ newNodes <= Rest
    /\ newNodes < 0 => Total < 0

LoopInv == Placement /\ Indices /\ Removed /\ Ordered /\ Even /\ Count

BalanceInv ==
    /\ BalanceTypes
    /\ phase \in {"idle", "start"} => infos = <<>> /\ startIndex = 1 /\ currentIndex = 1 /\ newNodes = requested
    /\ phase \in {"loop", "done"} => LoopInv
    /\ phase = "done" => newNodes <= 0

LEMMA SliceTyped ==
    ASSUME NEW s \in Seq(SliceInfo), NEW i \in 1 .. Len(s)
    PROVE  s[i].group \in Group /\ s[i].new \in Int
<1>1. s[i] \in SliceInfo
  OBVIOUS
<1> QED BY <1>1 DEF SliceInfo

LEMMA NewSizes ==
    ASSUME BalanceTypes, Placement
    PROVE  /\ \A i \in 1 .. Len(infos) : NewSize(infos[i].group) = infos[i].new
           /\ \A g \in Group : NewSize(g) \in Int
           /\ \A g \in Group : \/ \E i \in 1 .. Len(infos) : infos[i].group = g /\ NewSize(g) = infos[i].new
                               \/ NewSize(g) = currentSize[g] /\ currentSize[g] = maxSize[g]
<1>1. \A g : NewSize(g) = SizeIn(infos, currentSize, g)
  BY DEF NewSize, SizeIn
<1>2. \A i \in 1 .. Len(infos) : NewSize(infos[i].group) = infos[i].new
  BY <1>1, SizeFound, Zenon DEF Placement
<1>3. ASSUME NEW g \in Group
      PROVE  \/ \E i \in 1 .. Len(infos) : infos[i].group = g /\ NewSize(g) = infos[i].new
             \/ NewSize(g) = currentSize[g] /\ currentSize[g] = maxSize[g]
  BY <1>2, Zenon DEF Placement, NewSize
<1>4. \A i \in 1 .. Len(infos) : infos[i].new \in Int
  BY SliceTyped DEF BalanceTypes
<1>5. ASSUME NEW g \in Group PROVE NewSize(g) \in Int
  BY <1>3, <1>4 DEF BalanceTypes
<1> QED BY <1>2, <1>3, <1>5

(* Groups never run out before the nodes do. *)
LEMMA GroupIsLeft ==
    ASSUME BalanceTypes, LoopInv, newNodes > 0
    PROVE  /\ currentIndex \in startIndex .. Len(infos)
           /\ \E i \in startIndex .. Len(infos) : infos[i].new < maxSize[infos[i].group]
<1> DEFINE f == [g \in Group |-> maxSize[g] - NewSize(g)]
<1>1. \A g \in Group : f[g] = maxSize[g] - NewSize(g) /\ f[g] \in Int /\ NewSize(g) \in Int /\ maxSize[g] \in Int
  BY NewSizes DEF BalanceTypes, LoopInv
<1>2. Rest = Sum(f, Group)
  BY DEF Rest
<1> HIDE DEF f
<1>3. Sum(f, Group) \in Int /\ Sum(f, Group) > 0
  <2>1. Sum(f, Group) \in Int
    BY <1>1, SumType, BalanceAssumption
  <2>2. newNodes <= Sum(f, Group) /\ newNodes \in Int
    BY <1>2 DEF LoopInv, Count, BalanceTypes
  <2> QED BY <2>1, <2>2
<1>4. PICK g \in Group : f[g] > 0
  BY <1>1, <1>3, SumSign, BalanceAssumption
<1>5. maxSize[g] > NewSize(g)
  BY <1>1, <1>4
<1>6. PICK i \in 1 .. Len(infos) : infos[i].group = g /\ NewSize(g) = infos[i].new
  BY <1>1, <1>5, NewSizes DEF LoopInv
<1>7. ~(infos[i].new >= maxSize[infos[i].group]) /\ infos[i].new < maxSize[infos[i].group]
  BY <1>1, <1>5, <1>6
<1>8. ~(i \in 1 .. startIndex - 1)
  BY <1>7 DEF LoopInv, Removed
<1>9. startIndex <= Len(infos) /\ i \in startIndex .. Len(infos)
  BY <1>6, <1>8 DEF BalanceTypes
<1>10. currentIndex \in startIndex .. Len(infos)
  BY <1>9 DEF LoopInv, Indices, BalanceTypes
<1> QED BY <1>7, <1>9, <1>10

LEMMA LoopMeans ==
    ASSUME BalanceInv
    PROVE  LoopInvariant
<1> SUFFICES ASSUME phase = "loop", newNodes > 0 PROVE LoopInvariant
  BY DEF LoopInvariant
<1>1. BalanceTypes /\ LoopInv
  BY DEF BalanceInv
<1>2. /\ currentIndex \in startIndex .. Len(infos)
      /\ \E i \in startIndex .. Len(infos) : infos[i].new < maxSize[infos[i].group]
  BY <1>1, GroupIsLeft
<1>3. \A i \in 1 .. Len(infos) : infos[i].new \in Int
  BY <1>1, SliceTyped DEF BalanceTypes
<1>4. startIndex .. Len(infos) \subseteq 1 .. Len(infos)
  BY <1>1 DEF BalanceTypes
<1>5. Removed /\ Ordered
  BY <1>1 DEF LoopInv
<1>6. ASSUME NEW i \in startIndex .. Len(infos), NEW j \in startIndex .. Len(infos), i < currentIndex
      PROVE  /\ j < currentIndex => infos[i].new = infos[j].new
             /\ j >= currentIndex => infos[i].new <= infos[j].new + 1
  <2>1. infos[i].new = infos[currentIndex].new + 1
    BY <1>5, <1>6 DEF Ordered
  <2>2. j < currentIndex => infos[j].new = infos[currentIndex].new + 1
    BY <1>5 DEF Ordered
  <2>3. j >= currentIndex => infos[currentIndex].new <= infos[j].new
    BY <1>1, <1>2, <1>3, <1>4, <1>5 DEF Ordered, BalanceTypes
  <2> QED BY <1>2, <1>3, <1>4, <2>1, <2>2, <2>3
<1>7. \A i \in 1 .. Len(infos) :
        currentSize[infos[i].group] <= maxSize[infos[i].group] => infos[i].new <= maxSize[infos[i].group]
  <2> SUFFICES ASSUME NEW i \in 1 .. Len(infos), currentSize[infos[i].group] <= maxSize[infos[i].group]
               PROVE  infos[i].new <= maxSize[infos[i].group]
    OBVIOUS
  <2>1. infos[i].group \in Group /\ infos[i].new \in Int
    BY <1>1, SliceTyped DEF BalanceTypes
  <2>2. /\ currentSize[infos[i].group] <= infos[i].new
        /\ infos[i].new > currentSize[infos[i].group] => infos[i].new <= maxSize[infos[i].group]
    BY <1>1 DEF LoopInv, Placement
  <2> QED BY <1>1, <2>1, <2>2 DEF BalanceTypes
<1>8. \A i \in 1 .. startIndex - 1 :
        /\ infos[i].new >= maxSize[infos[i].group]
        /\ currentSize[infos[i].group] <= maxSize[infos[i].group] => infos[i].new = maxSize[infos[i].group]
  <2> SUFFICES ASSUME NEW i \in 1 .. startIndex - 1
               PROVE  /\ infos[i].new >= maxSize[infos[i].group]
                      /\ currentSize[infos[i].group] <= maxSize[infos[i].group] =>
                            infos[i].new = maxSize[infos[i].group]
    OBVIOUS
  <2>1. i \in 1 .. Len(infos)
    BY <1>1, <1>2 DEF BalanceTypes
  <2>2. infos[i].new >= maxSize[infos[i].group]
    BY <1>5 DEF Removed
  <2>3. infos[i].new \in Int /\ maxSize[infos[i].group] \in Int
    BY <1>1, <2>1, SliceTyped DEF BalanceTypes
  <2> QED BY <1>7, <2>1, <2>2, <2>3
<1>9. \A i \in startIndex .. Len(infos) :
        currentSize[infos[i].group] <= maxSize[infos[i].group] => infos[i].new <= maxSize[infos[i].group]
  BY <1>4, <1>7
<1> QED BY <1>2, <1>5, <1>6, <1>8, <1>9 DEF LoopInvariant, Ordered

LEMMA DoneMeans ==
    ASSUME BalanceInv
    PROVE  Balanced
<1> SUFFICES ASSUME phase = "done" PROVE Balanced
  BY DEF Balanced
<1>1. BalanceTypes /\ LoopInv /\ newNodes <= 0
  BY DEF BalanceInv
<1>2. /\ \A g \in Group : NewSize(g) \in Int
      /\ \A g \in Group : \/ \E i \in 1 .. Len(infos) : infos[i].group = g /\ NewSize(g) = infos[i].new
                          \/ NewSize(g) = currentSize[g] /\ currentSize[g] = maxSize[g]
  BY <1>1, NewSizes DEF LoopInv
<1>3. /\ \A g \in Group : currentSize[g] \in Int /\ maxSize[g] \in Int
      /\ \A i \in 1 .. Len(infos) : infos[i].new \in Int /\ infos[i].group \in Group
  BY <1>1, SliceTyped DEF BalanceTypes
<1>4. ASSUME NEW a \in Group, NEW b \in Group, NewSize(a) > NewSize(b) + 1
      PROVE  NewSize(a) = currentSize[a] \/ NewSize(b) >= maxSize[b]
  <2>1. CASE NewSize(a) = currentSize[a] \/ NewSize(b) = maxSize[b]
    BY <1>2, <1>3, <2>1
  <2>2. CASE ~(NewSize(a) = currentSize[a] \/ NewSize(b) = maxSize[b])
    <3>1. PICK i \in 1 .. Len(infos) : infos[i].group = a /\ NewSize(a) = infos[i].new
      BY <1>2, <2>2
    <3>2. PICK j \in 1 .. Len(infos) : infos[j].group = b /\ NewSize(b) = infos[j].new
      BY <1>2, <2>2
    <3>3. infos[i].new > currentSize[infos[i].group]
      BY <1>1, <1>3, <2>2, <3>1 DEF LoopInv, Placement
    <3>4. ~(j \in startIndex .. Len(infos))
      BY <1>1, <1>3, <1>4, <3>1, <3>2, <3>3 DEF LoopInv, Even
    <3>5. j \in 1 .. startIndex - 1
      BY <1>1, <3>2, <3>4 DEF BalanceTypes
    <3> QED BY <1>1, <3>2, <3>5 DEF LoopInv, Removed
  <2> QED BY <2>1, <2>2
<1>5. ASSUME \A g \in Group : currentSize[g] <= maxSize[g]
      PROVE  (\A g \in Group : NewSize(g) <= maxSize[g]) /\ Placed = Total
  <2>1. ASSUME NEW g \in Group PROVE NewSize(g) <= maxSize[g]
    <3>1. CASE NewSize(g) = currentSize[g]
      BY <1>5, <3>1
    <3>2. CASE NewSize(g) # currentSize[g]
      <4>1. PICK i \in 1 .. Len(infos) : infos[i].group = g /\ NewSize(g) = infos[i].new
        BY <1>2, <3>2
      <4> QED BY <1>1, <1>3, <3>2, <4>1 DEF LoopInv, Placement
    <3> QED BY <3>1, <3>2
  <2> DEFINE r == [g \in Group |-> maxSize[g] - currentSize[g]]
             p == [g \in Group |-> NewSize(g) - currentSize[g]]
  <2>2. \A g \in Group : r[g] \in Int /\ r[g] >= 0 /\ p[g] \in Int
    BY <1>2, <1>3, <1>5
  <2>3. Room = Sum(r, Group) /\ Placed = Sum(p, Group)
    BY DEF Room, Placed
  <2> HIDE DEF r, p
  <2>4. Room \in Int /\ Room >= 0 /\ Placed \in Int
    BY <2>2, <2>3, SumType, SumSign, BalanceAssumption
  <2>5. Total \in Int /\ Total >= 0
    BY <1>1, <2>4 DEF Total, BalanceTypes
  <2>6. newNodes = 0
    BY <1>1, <2>5 DEF LoopInv, Count, BalanceTypes
  <2> QED BY <1>1, <2>1, <2>4, <2>6 DEF LoopInv, Count
<1> QED BY <1>4, <1>5 DEF Balanced, Placed, Total, Room

LEMMA StartStep ==
    ASSUME BalanceInv, Start
    PROVE  BalanceInv'
<1>1. /\ BalanceTypes /\ startIndex = 1 /\ currentIndex = 1 /\ newNodes = requested
      /\ phase' = "loop" /\ UNCHANGED <<currentSize, maxSize, requested, startIndex, currentIndex>>
      /\ newNodes' = IF totalCapacity < newNodes THEN totalCapacity ELSE newNodes
  BY DEF BalanceInv, Start
<1>2. PICK s \in SortedOrders(Considered) :
        infos' = [i \in DOMAIN s |-> [group |-> s[i], new |-> currentSize[s[i]]]]
  BY DEF Start
<1> DEFINE n == Cardinality(Considered)
<1>3. IsFiniteSet(Considered) /\ n \in Nat /\ Considered \subseteq Group
  BY FS_Subset, FS_CardinalityType, BalanceAssumption DEF Considered
<1>4. /\ s \in [1 .. n -> Considered]
      /\ \A i, j \in 1 .. n : i < j => s[i] # s[j] /\ currentSize[s[i]] <= currentSize[s[j]]
  BY <1>2 DEF SortedOrders
<1>5. \A g \in Considered : \E i \in 1 .. n : s[i] = g
  <2>1. \A i, j \in 1 .. n : s[i] = s[j] => i = j
    BY <1>3, <1>4
  <2>2. s \in Injection(1 .. n, Considered)
    BY <1>4, <2>1 DEF Injection, IsInjective
  <2>3. Cardinality(1 .. n) = n
    BY <1>3, FS_Interval
  <2>4. s \in Surjection(1 .. n, Considered)
    BY <1>3, <2>2, <2>3, FS_Injection
  <2> QED BY <2>4 DEF Surjection
<1> HIDE DEF n
<1>6. /\ Len(infos') = n
      /\ \A i \in 1 .. n : infos'[i].group = s[i] /\ infos'[i].new = currentSize[s[i]]
      /\ \A i \in 1 .. n : s[i] \in Considered /\ s[i] \in Group /\ currentSize[s[i]] \in Int
  BY <1>1, <1>2, <1>3, <1>4 DEF BalanceTypes
<1>7. infos' \in Seq(SliceInfo)
  <2>1. \A i \in 1 .. n : [group |-> s[i], new |-> currentSize[s[i]]] \in SliceInfo
    BY <1>6 DEF SliceInfo
  <2> QED BY <1>2, <1>3, <1>4, <2>1
<1> DEFINE r == [g \in Group |-> maxSize[g] - currentSize[g]]
<1>8. /\ Room = Sum(r, Group) /\ totalCapacity = Sum(r, Considered)
      /\ \A g \in Group : r[g] \in Int /\ (g \notin Considered => r[g] = 0)
  BY <1>1 DEF Room, totalCapacity, BalanceTypes, Considered
<1> HIDE DEF r
<1>9. totalCapacity = Room /\ Room \in Int
  BY <1>3, <1>8, SumZeros, SumType, BalanceAssumption
<1>10. newNodes' = Total /\ Total \in Int /\ Total <= Room
  BY <1>1, <1>9 DEF Total, BalanceTypes
<1>11. BalanceTypes'
  BY <1>1, <1>7, <1>10 DEF BalanceTypes
<1>12. Placement'
  <2>1. Distinct(infos')
    BY <1>3, <1>4, <1>6 DEF Distinct
  <2>2. ASSUME NEW g \in Group, currentSize[g] # maxSize[g]
        PROVE  \E i \in 1 .. Len(infos') : infos'[i].group = g
    BY <1>5, <1>6, <2>2 DEF Considered
  <2>3. \A i \in 1 .. Len(infos') :
            /\ currentSize[infos'[i].group] <= infos'[i].new
            /\ ~(infos'[i].new > currentSize[infos'[i].group])
    BY <1>6
  <2> QED BY <1>1, <2>1, <2>2, <2>3 DEF Placement
<1>13. \A g \in Group : NewSize(g)' = currentSize[g]
  BY <1>1, <1>6 DEF NewSize
<1>14. Indices' /\ Removed'
  BY <1>1, <1>3, <1>6 DEF Indices, Removed
<1>15. Ordered' /\ Even'
  BY <1>1, <1>3, <1>4, <1>6 DEF Ordered, Even
<1>16. Count'
  <2>1. Room' = Room /\ Total' = Total
    BY <1>1 DEF Room, Total
  <2>2. Rest' = Room
    <3>1. [g \in Group |-> maxSize[g] - currentSize[g]] = [g \in Group |-> maxSize'[g] - NewSize(g)']
      BY <1>1, <1>13
    <3> QED BY <3>1 DEF Rest, Room
  <2>3. Placed' = 0
    <3> DEFINE f == [g \in Group |-> NewSize(g)' - currentSize'[g]]
    <3>1. \A g \in Group : f[g] = 0
      BY <1>1, <1>13 DEF BalanceTypes
    <3>2. Placed' = Sum(f, Group)
      BY DEF Placed
    <3> HIDE DEF f
    <3>3. Sum(f, Group) = Sum(f, {})
      BY <3>1, SumZeros, BalanceAssumption
    <3>4. Sum(f, {}) = 0
      BY SumStep, FS_EmptySet
    <3> QED BY <3>2, <3>3, <3>4
  <2> QED BY <1>10, <2>1, <2>2, <2>3 DEF Count
<1> QED BY <1>1, <1>11, <1>12, <1>14, <1>15, <1>16 DEF BalanceInv, LoopInv

LEMMA AddNodeStep ==
    ASSUME BalanceInv, AddNode
    PROVE  BalanceInv'
<1> DEFINE s == [infos EXCEPT ![currentIndex].new = @ + 1]
           moves == MovesOn(s, currentIndex)
           k == currentIndex
           c == infos[currentIndex].new
<1>1. /\ phase = "loop" /\ newNodes > 0 /\ HasRoom(currentIndex)
      /\ infos' = s /\ startIndex' = startIndex /\ newNodes' = newNodes - 1
      /\ currentIndex' = IF moves THEN currentIndex + 1 ELSE startIndex
      /\ UNCHANGED <<phase, currentSize, maxSize, requested>>
  BY DEF AddNode, Iterate
<1>2. BalanceTypes /\ LoopInv
  BY <1>1 DEF BalanceInv
<1>3. k \in startIndex .. Len(infos)
  BY <1>1, <1>2, GroupIsLeft
<1>4. /\ Len(infos) \in Nat /\ startIndex \in Nat /\ startIndex >= 1 /\ k \in Nat
      /\ \A i \in 1 .. Len(infos) : /\ infos[i].new \in Int /\ infos[i].group \in Group
                                    /\ currentSize[infos[i].group] \in Int /\ maxSize[infos[i].group] \in Int
  BY <1>2, SliceTyped DEF BalanceTypes
<1>5. k \in 1 .. Len(infos) /\ k <= Len(infos) /\ startIndex <= k
  BY <1>3, <1>4
<1>6. /\ Len(s) = Len(infos) /\ s \in Seq(SliceInfo)
      /\ \A i \in 1 .. Len(infos) : s[i].group = infos[i].group
      /\ \A i \in 1 .. Len(infos) : i # k => s[i].new = infos[i].new
      /\ s[k].new = c + 1
  <2>1. infos[k] \in SliceInfo /\ [infos[k] EXCEPT !.new = @ + 1] \in SliceInfo
    <3>1. infos[k] \in SliceInfo
      BY <1>2, <1>5 DEF BalanceTypes
    <3> QED BY <3>1 DEF SliceInfo
  <2>2. s = [infos EXCEPT ![k] = [infos[k] EXCEPT !.new = @ + 1]]
    OBVIOUS
  <2>3. /\ [infos[k] EXCEPT !.new = @ + 1].new = c + 1
        /\ [infos[k] EXCEPT !.new = @ + 1].group = infos[k].group
    BY <2>1 DEF SliceInfo
  <2> QED BY <1>2, <1>5, <2>1, <2>2, <2>3 DEF BalanceTypes
<1>7. moves <=> k < Len(infos) /\ c + 1 > infos[k + 1].new
  BY <1>4, <1>5, <1>6 DEF MovesOn
<1> HIDE DEF s, moves
<1>8. BalanceTypes'
  BY <1>1, <1>2, <1>4, <1>6 DEF BalanceTypes
<1>9. c \in Int /\ c < maxSize[infos[k].group]
  BY <1>1, <1>4, <1>5 DEF HasRoom
<1>10. /\ \A i, j \in startIndex .. Len(infos) : i < j /\ i >= k => infos[i].new <= infos[j].new
       /\ \A i \in startIndex .. Len(infos) : i < k => infos[i].new = c + 1
       /\ \A i \in startIndex .. Len(infos) : i \in 1 .. Len(infos)
       /\ \A i \in startIndex .. Len(infos) : i > k => k + 1 \in startIndex .. Len(infos) /\ infos[k + 1].new <= infos[i].new
  <2>1. /\ \A i, j \in startIndex .. Len(infos) : i < j /\ i >= k => infos[i].new <= infos[j].new
        /\ \A i \in startIndex .. Len(infos) : i < k => infos[i].new = c + 1
    BY <1>2 DEF LoopInv, Ordered
  <2>2. ASSUME NEW i \in startIndex .. Len(infos), i > k
        PROVE  k + 1 \in startIndex .. Len(infos) /\ infos[k + 1].new <= infos[i].new
    <3>1. k + 1 \in startIndex .. Len(infos) /\ k + 1 >= k
      BY <1>4, <1>5, <2>2
    <3>2. CASE i = k + 1
      BY <1>4, <3>1, <3>2
    <3>3. CASE i # k + 1
      BY <1>4, <2>1, <2>2, <3>1, <3>3
    <3> QED BY <3>1, <3>2, <3>3
  <2> QED BY <1>4, <2>1, <2>2
<1> HIDE DEF k, c
<1>11. Placement'
  <2>1. Placement
    BY <1>2 DEF LoopInv
  <2>2. Distinct(s)
    BY <1>6, <2>1 DEF Placement, Distinct
  <2>3. \A i \in 1 .. Len(infos) :
          /\ currentSize[s[i].group] <= s[i].new
          /\ s[i].new > currentSize[s[i].group] => s[i].new <= maxSize[s[i].group]
    <3>1. currentSize[infos[k].group] <= c
      BY <1>5, <2>1 DEF Placement, c, k
    <3>2. currentSize[s[k].group] <= s[k].new /\ s[k].new <= maxSize[s[k].group]
      BY <1>4, <1>5, <1>6, <1>9, <3>1
    <3> QED BY <1>6, <2>1, <3>2 DEF Placement
  <2> QED BY <1>1, <1>6, <2>1, <2>2, <2>3 DEF Placement
<1>12. currentIndex' = IF moves THEN k + 1 ELSE startIndex
  BY <1>1 DEF k
<1>13. Indices'
  BY <1>1, <1>4, <1>5, <1>6, <1>7, <1>12 DEF Indices
<1>14. Removed'
  <2>1. \A i \in 1 .. startIndex - 1 : i \in 1 .. Len(infos) /\ i # k
    BY <1>4, <1>5
  <2> QED BY <1>1, <1>2, <1>6, <2>1 DEF LoopInv, Removed
<1>15. Ordered'
  <2>1. CASE moves
    <3>1. k + 1 \in startIndex .. Len(infos) /\ infos[k + 1].new = c
      BY <1>4, <1>5, <1>7, <1>9, <1>10, <2>1 DEF c, k
    <3>2. \A i, j \in startIndex .. Len(infos) : i < j /\ i >= k + 1 => s[i].new <= s[j].new
      BY <1>4, <1>5, <1>6, <1>10
    <3>3. \A i \in startIndex .. Len(infos) : i < k + 1 => s[i].new = s[k + 1].new + 1
      BY <1>4, <1>5, <1>6, <1>10, <3>1
    <3> QED BY <1>1, <1>6, <1>12, <2>1, <3>2, <3>3 DEF Ordered
  <2>2. CASE ~moves
    <3>1. \A i \in startIndex .. Len(infos) : /\ i <= k => s[i].new = c + 1
                                              /\ i > k => s[i].new = infos[i].new /\ infos[i].new >= c + 1
      <4> SUFFICES ASSUME NEW i \in startIndex .. Len(infos)
                   PROVE  /\ i <= k => s[i].new = c + 1
                          /\ i > k => s[i].new = infos[i].new /\ infos[i].new >= c + 1
        OBVIOUS
      <4>1. i <= k => s[i].new = c + 1
        BY <1>4, <1>5, <1>6, <1>10
      <4>2. ASSUME i > k PROVE s[i].new = infos[i].new /\ infos[i].new >= c + 1
        <5>1. k + 1 \in 1 .. Len(infos) /\ infos[k + 1].new <= infos[i].new /\ k < Len(infos)
          BY <1>4, <1>5, <1>10, <4>2
        <5>2. infos[k + 1].new >= c + 1
          BY <1>4, <1>7, <1>9, <2>2, <5>1
        <5> QED BY <1>4, <1>6, <1>9, <1>10, <4>2, <5>1, <5>2
      <4> QED BY <4>1, <4>2
    <3>2. ASSUME NEW i \in startIndex .. Len(infos), NEW j \in startIndex .. Len(infos), i < j
          PROVE  s[i].new <= s[j].new
      <4>1. CASE i <= k
        BY <1>4, <1>9, <1>10, <3>1, <4>1
      <4>2. CASE i > k
        <5>1. i >= k /\ j > k
          BY <1>4, <3>2, <4>2
        <5>2. infos[i].new <= infos[j].new
          BY <1>10, <3>2, <5>1
        <5> QED BY <3>1, <4>2, <5>1, <5>2
      <4> QED BY <1>4, <4>1, <4>2
    <3>3. \A i \in startIndex .. Len(infos) : ~(i < startIndex)
      BY <1>4
    <3> QED BY <1>1, <1>6, <1>12, <2>2, <3>2, <3>3 DEF Ordered
  <2> QED BY <2>1, <2>2
<1>16. Even'
  <2> SUFFICES ASSUME NEW i \in 1 .. Len(infos), NEW j \in startIndex .. Len(infos), s[i].new > currentSize[s[i].group]
               PROVE  s[i].new <= s[j].new + 1
    BY <1>1, <1>6 DEF Even
  <2>1. infos[j].new >= c /\ s[j].new >= infos[j].new /\ infos[j].new \in Int /\ s[j].new \in Int /\ j \in 1 .. Len(infos)
    <3>1. j \in 1 .. Len(infos) /\ infos[j].new \in Int
      BY <1>4, <1>10
    <3>2. infos[j].new >= c
      BY <1>3, <1>9, <1>10, <3>1 DEF c, k
    <3>3. s[j].new >= infos[j].new /\ s[j].new \in Int
      BY <1>6, <1>9, <3>1 DEF c, k
    <3> QED BY <3>1, <3>2, <3>3
  <2>2. CASE i = k
    BY <1>6, <1>9, <2>1, <2>2
  <2>3. CASE i # k
    <3>1. infos[i].new <= infos[j].new + 1
      BY <1>2, <1>6, <2>3 DEF LoopInv, Even
    <3> QED BY <1>4, <1>6, <2>1, <2>3, <3>1
  <2> QED BY <2>2, <2>3
<1>17. Count'
  <2>1. currentSize \in [Group -> Int] /\ maxSize \in [Group -> Int]
    BY <1>2 DEF BalanceTypes
  <2>h. PICK h \in Group : h = infos[k].group
    BY <1>4, <1>5
  <2>2. /\ \A g \in Group : NewSize(g) \in Int
        /\ \A i \in 1 .. Len(infos) : NewSize(infos[i].group) = infos[i].new
    BY <1>2, NewSizes DEF LoopInv
  <2>3. \A g : NewSize(g)' = SizeIn(s, currentSize, g)
    BY <1>1 DEF NewSize, SizeIn
  <2>4. \A i \in 1 .. Len(infos) : SizeIn(s, currentSize, infos[i].group) = s[i].new
    <3>1. Distinct(s)
      BY <1>1, <1>11 DEF Placement
    <3>2. \A i \in 1 .. Len(s) : SizeIn(s, currentSize, s[i].group) = s[i].new
      BY <3>1, SizeFound, Zenon
    <3> QED BY <1>6, <3>2
  <2>5. NewSize(h)' = NewSize(h) + 1
    <3>1. NewSize(h)' = SizeIn(s, currentSize, h)
      BY <2>3
    <3> QED BY <1>5, <1>6, <2>h, <2>2, <2>4, <3>1 DEF c, k
  <2>6. ASSUME NEW g \in Group, g # h PROVE NewSize(g)' = NewSize(g)
    <3>0. NewSize(g)' = SizeIn(s, currentSize, g)
      BY <2>3
    <3>1. ASSUME NEW i \in 1 .. Len(infos), infos[i].group = g PROVE SizeIn(s, currentSize, g) = NewSize(g)
      <4>1. i # k
        BY <2>h, <2>6, <3>1
      <4> QED BY <1>6, <2>2, <2>4, <3>1, <4>1
    <3>2. CASE ~\E i \in 1 .. Len(infos) : infos[i].group = g
      BY <1>6, <3>0, <3>2 DEF SizeIn, NewSize
    <3> QED BY <3>0, <3>1, <3>2
  <2> DEFINE p == [g \in Group |-> NewSize(g) - currentSize[g]]
             q == [g \in Group |-> NewSize(g)' - currentSize'[g]]
             r == [g \in Group |-> maxSize[g] - NewSize(g)]
             t == [g \in Group |-> maxSize'[g] - NewSize(g)']
  <2>7. /\ Placed = Sum(p, Group) /\ Placed' = Sum(q, Group) /\ Rest = Sum(r, Group) /\ Rest' = Sum(t, Group)
        /\ Room' = Room /\ Total' = Total
    BY <1>1 DEF Placed, Rest, Room, Total
  <2>v. \A g \in Group : /\ p[g] = NewSize(g) - currentSize[g] /\ q[g] = NewSize(g)' - currentSize[g]
                         /\ r[g] = maxSize[g] - NewSize(g) /\ t[g] = maxSize[g] - NewSize(g)'
    BY <1>1
  <2> HIDE DEF p, q, r, t
  <2>8. ASSUME NEW g \in Group PROVE p[g] \in Int /\ q[g] \in Int /\ r[g] \in Int /\ t[g] \in Int
    <3>1. NewSize(g) \in Int /\ currentSize[g] \in Int /\ maxSize[g] \in Int
      BY <2>1, <2>2
    <3>2. NewSize(g)' \in Int
      BY <2>5, <2>6, <3>1
    <3> QED BY <2>v, <3>1, <3>2
  <2>9. /\ q[h] = p[h] + 1 /\ t[h] = r[h] - 1
        /\ \A g \in Group : g # h => p[g] = q[g] /\ r[g] = t[g]
    <3>1. NewSize(h) \in Int /\ currentSize[h] \in Int /\ maxSize[h] \in Int
      BY <2>1, <2>2
    <3>2. q[h] = p[h] + 1 /\ t[h] = r[h] - 1
      BY <2>5, <2>v, <3>1
    <3>3. \A g \in Group : g # h => p[g] = q[g] /\ r[g] = t[g]
      BY <2>6, <2>v
    <3> QED BY <3>2, <3>3
  <2>10. Sum(q, Group) - q[h] = Sum(p, Group) - p[h]
    BY <2>8, <2>9, SumUpdate, BalanceAssumption
  <2>11. Sum(t, Group) - t[h] = Sum(r, Group) - r[h]
    BY <2>8, <2>9, SumUpdate, BalanceAssumption
  <2>12. Sum(p, Group) \in Int /\ Sum(q, Group) \in Int /\ Sum(r, Group) \in Int /\ Sum(t, Group) \in Int
    BY <2>8, SumType, BalanceAssumption
  <2>13. Placed' = Placed + 1 /\ Rest' = Rest - 1 /\ Placed \in Int /\ Rest \in Int
    <3>1. p[h] \in Int /\ q[h] \in Int /\ r[h] \in Int /\ t[h] \in Int
      BY <2>8
    <3>2. Sum(q, Group) = Sum(p, Group) + 1 /\ Sum(t, Group) = Sum(r, Group) - 1
      BY <2>9, <2>10, <2>11, <2>12, <3>1
    <3> QED BY <2>7, <2>12, <3>2
  <2>14. newNodes \in Int /\ newNodes + Placed = Total /\ newNodes <= Rest
    BY <1>2 DEF LoopInv, Count, BalanceTypes
  <2> QED BY <1>1, <2>7, <2>13, <2>14 DEF Count
<1> QED BY <1>1, <1>8, <1>11, <1>13, <1>14, <1>15, <1>16, <1>17 DEF BalanceInv, LoopInv

LEMMA DropGroupStep ==
    ASSUME BalanceInv, DropGroup
    PROVE  BalanceInv'
<1> DEFINE s == Swapped(infos, startIndex, currentIndex)
           moves == MovesOn(s, currentIndex)
           k == currentIndex
           a == startIndex
           c == infos[currentIndex].new
<1>1. /\ phase = "loop" /\ newNodes > 0 /\ ~HasRoom(k)
      /\ infos' = s /\ startIndex' = a + 1 /\ newNodes' = newNodes
      /\ currentIndex' = IF moves THEN k + 1 ELSE a + 1
      /\ UNCHANGED <<phase, currentSize, maxSize, requested>>
  BY DEF DropGroup, Iterate
<1>2. BalanceTypes /\ LoopInv
  BY <1>1 DEF BalanceInv
<1>3. k \in a .. Len(infos)
  BY <1>1, <1>2, GroupIsLeft
<1>4. /\ Len(infos) \in Nat /\ a \in Nat /\ a >= 1 /\ k \in Nat
      /\ \A i \in 1 .. Len(infos) : /\ infos[i].new \in Int /\ infos[i].group \in Group
                                    /\ currentSize[infos[i].group] \in Int /\ maxSize[infos[i].group] \in Int
  BY <1>2, SliceTyped DEF BalanceTypes
<1>5. k \in 1 .. Len(infos) /\ k <= Len(infos) /\ a <= k /\ a \in 1 .. Len(infos)
  BY <1>3, <1>4
<1>6. /\ Len(s) = Len(infos) /\ s \in Seq(SliceInfo)
      /\ \A i \in 1 .. Len(infos) : i # k /\ i # a => s[i] = infos[i]
      /\ s[k] = infos[a] /\ s[a] = infos[k]
  <2>1. infos[k] \in SliceInfo /\ infos[a] \in SliceInfo /\ infos \in Seq(SliceInfo)
    BY <1>2, <1>5 DEF BalanceTypes
  <2> QED BY <1>5, <2>1 DEF Swapped
<1>7. moves <=> k < Len(infos) /\ infos[a].new > infos[k + 1].new
  <2>1. k < Len(infos) => k + 1 \in 1 .. Len(infos) /\ k + 1 # k /\ k + 1 # a
    BY <1>4, <1>5
  <2> QED BY <1>6, <2>1 DEF MovesOn
<1> HIDE DEF s, moves
<1>8. BalanceTypes'
  BY <1>1, <1>2, <1>4, <1>6 DEF BalanceTypes
<1>9. c \in Int /\ c >= maxSize[infos[k].group]
  BY <1>1, <1>4, <1>5 DEF HasRoom
<1>10. /\ \A i, j \in a .. Len(infos) : i < j /\ i >= k => infos[i].new <= infos[j].new
       /\ \A i \in a .. Len(infos) : i < k => infos[i].new = c + 1
       /\ \A i \in a .. Len(infos) : i \in 1 .. Len(infos)
       /\ \A i \in a .. Len(infos) : i > k =>
            /\ k + 1 \in a .. Len(infos)
            /\ infos[k + 1].new <= infos[i].new
            /\ c <= infos[k + 1].new
  <2>1. /\ \A i, j \in a .. Len(infos) : i < j /\ i >= k => infos[i].new <= infos[j].new
        /\ \A i \in a .. Len(infos) : i < k => infos[i].new = c + 1
    BY <1>2 DEF LoopInv, Ordered
  <2>2. ASSUME NEW i \in a .. Len(infos), i > k
        PROVE  k + 1 \in a .. Len(infos) /\ infos[k + 1].new <= infos[i].new /\ c <= infos[k + 1].new
    <3>1. k + 1 \in a .. Len(infos) /\ k + 1 >= k /\ k \in a .. Len(infos) /\ k < k + 1 /\ k >= k
      BY <1>4, <1>5, <2>2
    <3>2. CASE i = k + 1
      BY <1>4, <2>1, <3>1, <3>2
    <3>3. CASE i # k + 1
      BY <1>4, <2>1, <2>2, <3>1, <3>3
    <3> QED BY <3>1, <3>2, <3>3
  <2> QED BY <1>4, <2>1, <2>2
<1> HIDE DEF k, c, a
<1>11. Placement /\ Removed /\ Even
  BY <1>2 DEF LoopInv
<1>12. Distinct(s)
  BY <1>5, <1>6, <1>11 DEF Placement, Distinct
<1>13. /\ \A i \in 1 .. Len(infos) : \E j \in 1 .. Len(infos) : s[i] = infos[j]
       /\ \A i \in 1 .. Len(infos) : \E j \in 1 .. Len(infos) : infos[i] = s[j]
  BY <1>5, <1>6
<1>14. Placement'
  <2>1. \A i \in 1 .. Len(infos) :
          /\ currentSize[s[i].group] <= s[i].new
          /\ s[i].new > currentSize[s[i].group] => s[i].new <= maxSize[s[i].group]
    <3> SUFFICES ASSUME NEW i \in 1 .. Len(infos)
                 PROVE  /\ currentSize[s[i].group] <= s[i].new
                        /\ s[i].new > currentSize[s[i].group] => s[i].new <= maxSize[s[i].group]
      BY Zenon
    <3>1. PICK j \in 1 .. Len(infos) : s[i] = infos[j]
      BY <1>13, Zenon
    <3> QED BY <1>11, <3>1 DEF Placement
  <2>2. ASSUME NEW g \in Group, currentSize[g] # maxSize[g]
        PROVE  \E i \in 1 .. Len(infos) : s[i].group = g
    <3>1. PICK i \in 1 .. Len(infos) : infos[i].group = g
      BY <1>11, <2>2 DEF Placement
    <3> QED BY <1>13, <3>1, Zenon
  <2> QED BY <1>1, <1>6, <1>12, <2>1, <2>2 DEF Placement
<1>15. Indices'
  <2>1. CASE moves
    BY <1>1, <1>4, <1>5, <1>6, <1>7, <2>1 DEF Indices
  <2>2. CASE ~moves
    BY <1>1, <1>4, <1>5, <1>6, <2>2 DEF Indices
  <2> QED BY <2>1, <2>2
<1>16. Removed'
  <2> SUFFICES ASSUME NEW i \in 1 .. a PROVE s[i].new >= maxSize[s[i].group]
    BY <1>1, <1>4 DEF Removed
  <2>1. CASE i = a
    BY <1>6, <1>9, <2>1 DEF c, k
  <2>2. CASE i # a
    <3>1. i \in 1 .. a - 1 /\ i \in 1 .. Len(infos) /\ i # k
      BY <1>4, <1>5, <2>2
    <3>2. infos[i].new >= maxSize[infos[i].group]
      BY <1>11, <3>1 DEF Removed, a
    <3> QED BY <1>6, <2>2, <3>1, <3>2
  <2> QED BY <2>1, <2>2
<1>17. Ordered'
  <2>1. \A i \in a + 1 .. Len(infos) : i \in a .. Len(infos) /\ i # a
    BY <1>4
  <2>2. CASE k = a
    <3>1. ~moves
      <4>1. k < Len(infos) => k + 1 \in a .. Len(infos) /\ k + 1 > k
        BY <1>4, <1>5
      <4> QED BY <1>4, <1>5, <1>7, <1>9, <1>10, <2>2, <4>1 DEF c, k
    <3>2. \A i, j \in a + 1 .. Len(infos) : i < j => s[i].new <= s[j].new
      BY <1>4, <1>6, <1>10, <2>1, <2>2
    <3>3. \A i \in a + 1 .. Len(infos) : ~(i < a + 1)
      BY <1>4
    <3> QED BY <1>1, <1>6, <3>1, <3>2, <3>3 DEF Ordered
  <2>3. CASE k # a
    <3>1. a < k /\ a \in a .. Len(infos) /\ infos[a].new = c + 1
      BY <1>4, <1>5, <1>10, <2>3
    <3>2. \A i \in a + 1 .. Len(infos) : /\ i <= k => s[i].new = c + 1
                                         /\ i > k => s[i].new = infos[i].new
      BY <1>4, <1>6, <1>10, <2>1, <3>1
    <3>3. CASE moves
      <4>1. k + 1 \in a + 1 .. Len(infos) /\ k + 1 > k
        BY <1>4, <1>5, <1>7, <3>3
      <4>2. infos[k + 1].new = c /\ s[k + 1].new = c
        BY <1>4, <1>7, <1>9, <1>10, <2>1, <3>1, <3>2, <3>3, <4>1
      <4>3. ASSUME NEW i \in a + 1 .. Len(infos), NEW j \in a + 1 .. Len(infos), i < j, i >= k + 1
            PROVE  s[i].new <= s[j].new
        <5>1. i > k /\ i >= k /\ j > k
          BY <1>4, <4>3
        <5>2. infos[i].new <= infos[j].new
          BY <1>10, <2>1, <4>3, <5>1
        <5> QED BY <3>2, <5>1, <5>2
      <4>4. \A i \in a + 1 .. Len(infos) : i < k + 1 => s[i].new = s[k + 1].new + 1
        BY <1>4, <3>2, <4>2
      <4> QED BY <1>1, <1>6, <3>3, <4>3, <4>4 DEF Ordered
    <3>4. CASE ~moves
      <4>1. \A i \in a + 1 .. Len(infos) : i > k => infos[i].new >= c + 1
        BY <1>4, <1>7, <1>9, <1>10, <2>1, <3>1, <3>4
      <4>2. \A i, j \in a + 1 .. Len(infos) : i < j => s[i].new <= s[j].new
        BY <1>4, <1>9, <1>10, <2>1, <3>2, <4>1
      <4>3. \A i \in a + 1 .. Len(infos) : ~(i < a + 1)
        BY <1>4
      <4> QED BY <1>1, <1>6, <3>4, <4>2, <4>3 DEF Ordered
    <3> QED BY <3>3, <3>4
  <2> QED BY <2>2, <2>3
<1>18. Even'
  <2> SUFFICES ASSUME NEW i \in 1 .. Len(infos), NEW j \in a + 1 .. Len(infos), s[i].new > currentSize[s[i].group]
               PROVE  s[i].new <= s[j].new + 1
    BY <1>1, <1>6 DEF Even
  <2>1. PICK m \in 1 .. Len(infos) : s[i] = infos[m]
    BY <1>13
  <2>2. PICK n \in a .. Len(infos) : s[j] = infos[n]
    <3>1. j \in a .. Len(infos) /\ j # a /\ a \in a .. Len(infos) /\ j \in 1 .. Len(infos)
      BY <1>4, <1>5
    <3> QED BY <1>6, <3>1
  <2> QED BY <1>11, <2>1, <2>2 DEF Even, a
<1>19. Count'
  <2>1. ASSUME NEW g \in Group PROVE NewSize(g)' = NewSize(g)
    <3>1. NewSize(g)' = SizeIn(s, currentSize, g) /\ NewSize(g) = SizeIn(infos, currentSize, g)
      BY <1>1 DEF NewSize, SizeIn
    <3>2. ASSUME NEW i \in 1 .. Len(infos), infos[i].group = g
          PROVE  SizeIn(s, currentSize, g) = SizeIn(infos, currentSize, g)
      <4>1. PICK j \in 1 .. Len(s) : s[j] = infos[i]
        BY <1>6, <1>13
      <4>2. SizeIn(s, currentSize, s[j].group) = s[j].new
        BY <1>12, SizeFound, Zenon
      <4>3. SizeIn(infos, currentSize, infos[i].group) = infos[i].new
        BY <1>11, SizeFound, Zenon DEF Placement
      <4> QED BY <3>2, <4>1, <4>2, <4>3
    <3>3. CASE ~\E i \in 1 .. Len(infos) : infos[i].group = g
      <4>1. ASSUME NEW i \in 1 .. Len(s), s[i].group = g PROVE FALSE
        <5>1. PICK j \in 1 .. Len(infos) : s[i] = infos[j]
          BY <1>6, <1>13
        <5> QED BY <3>3, <4>1, <5>1
      <4> QED BY <3>1, <3>3, <4>1 DEF SizeIn
    <3> QED BY <3>1, <3>2, <3>3
  <2>2. [g \in Group |-> NewSize(g)' - currentSize'[g]] = [g \in Group |-> NewSize(g) - currentSize[g]]
    BY <1>1, <2>1
  <2>3. [g \in Group |-> maxSize'[g] - NewSize(g)'] = [g \in Group |-> maxSize[g] - NewSize(g)]
    BY <1>1, <2>1
  <2>4. Placed' = Placed /\ Rest' = Rest /\ Total' = Total
    BY <1>1, <2>2, <2>3 DEF Placed, Rest, Total, Room
  <2> QED BY <1>1, <1>2, <2>4 DEF LoopInv, Count
<1> QED BY <1>1, <1>8, <1>14, <1>15, <1>16, <1>17, <1>18, <1>19 DEF BalanceInv, LoopInv

LEMMA LoopKept ==
    ASSUME UNCHANGED <<currentSize, maxSize, requested, newNodes, infos, startIndex, currentIndex>>
    PROVE  (BalanceTypes' <=> BalanceTypes) /\ (LoopInv' <=> LoopInv)
<1>1. \A g : NewSize(g)' = NewSize(g)
  BY DEF NewSize
<1>2. Placed' = Placed /\ Rest' = Rest /\ Total' = Total
  BY <1>1 DEF Placed, Rest, Total, Room
<1>3. /\ BalanceTypes' <=> BalanceTypes
      /\ Placement' <=> Placement
      /\ Indices' <=> Indices
      /\ Removed' <=> Removed
      /\ Ordered' <=> Ordered
      /\ Even' <=> Even
      /\ Count' <=> Count
  BY <1>2 DEF BalanceTypes, Placement, Indices, Removed, Ordered, Even, Count
<1> QED BY <1>3 DEF LoopInv

LEMMA InitBalance == BalanceInit => BalanceInv
BY DEF BalanceInit, BalanceInv, BalanceTypes

LEMMA NextBalance == BalanceInv /\ [BalanceNext]_balanceVars => BalanceInv'
<1> SUFFICES ASSUME BalanceInv, [BalanceNext]_balanceVars PROVE BalanceInv'
  OBVIOUS
<1>1. CASE Call
  <2>1. currentSize' \in [Group -> Int] /\ maxSize' \in [Group -> Int] /\ requested' \in Nat
    <3>1. currentSize' \in [Group -> Size] /\ maxSize' \in [Group -> Size] /\ requested' \in Request
      BY <1>1 DEF Call
    <3>2. Size \subseteq Int /\ Request \subseteq Nat
      BY BalanceAssumption
    <3> QED BY <3>1, <3>2, Zenon
  <2>2. BalanceTypes'
    BY <1>1, <2>1 DEF Call, BalanceInv, BalanceTypes
  <2> QED BY <1>1, <2>2 DEF Call, BalanceInv
<1>2. CASE SizeUnknown
  BY <1>2, LoopKept DEF SizeUnknown, BalanceInv
<1>3. CASE Finish
  BY <1>3, LoopKept DEF Finish, BalanceInv
<1>4. CASE UNCHANGED balanceVars
  BY <1>4, LoopKept DEF balanceVars, BalanceInv
<1> QED BY <1>1, <1>2, <1>3, <1>4, StartStep, AddNodeStep, DropGroupStep DEF BalanceNext

(* The loop keeps the invariants 3 to 6 of its comment, and what is true   *)
(* in place of 1 and 2, for any number of groups, any sizes and any number *)
(* of nodes: in particular there is a group with room for every node still *)
(* to place.                                                               *)
THEOREM LoopKeepsItsInvariant == BalanceSpec => []LoopInvariant
BY InitBalance, NextBalance, LoopMeans, PTL DEF BalanceSpec

(* BalanceScaleUpBetweenGroups places all nodes that were asked for and    *)
(* fit, keeps the maximum sizes and is as even as they allow, for any      *)
(* groups, sizes and requests.                                             *)
THEOREM ResultIsBalanced == BalanceSpec => []Balanced
BY InitBalance, NextBalance, DoneMeans, PTL DEF BalanceSpec

-----------------------------------------------------------------------------
(* The log collector: the store is what is left of the history, and what   *)
(* is missing from it is in excess or too old already.                     *)
Old(t, now) == t <= now - itemLifetime

TailOf(s, all) ==
    /\ s \in Seq(Int)
    /\ \E d \in Nat : Len(all) = Len(s) + d /\ \A i \in 1 .. Len(s) : s[i] = all[d + i]

LogsInv ==
    /\ time \in Int /\ logged \in Seq(Int)
    /\ \A i, j \in 1 .. Len(logged) : i <= j => logged[i] <= logged[j]
    /\ \A i \in 1 .. Len(logged) : logged[i] <= time
    /\ TailOf(store, logged)
    /\ \A i \in 1 .. Len(logged) :
        i + Len(store) <= Len(logged) => i + maxItems <= Len(logged) \/ Old(logged[i], time)

(* What compact drops *)
LEMMA CompactKeeps ==
    ASSUME NEW s \in Seq(Int), NEW now \in Int
    PROVE  /\ compact(s, now) \in Seq(Int)
           /\ \E d \in Nat :
                /\ Len(s) = Len(compact(s, now)) + d /\ d >= Excess(s)
                /\ \A i \in 1 .. Len(compact(s, now)) : compact(s, now)[i] = s[d + i]
                /\ \A i \in Excess(s) + 1 .. d : Old(s[i], now)
                /\ d < Len(s) => ~Old(s[d + 1], now)
<1> DEFINE young == {i \in Excess(s) + 1 .. Len(s) : s[i] > now - itemLifetime}
<1>0. Len(s) \in Nat /\ Excess(s) \in 0 .. Len(s)
  BY LogsAssumption DEF Excess
<1>1. CASE young = {}
  <2>1. compact(s, now) = <<>>
    BY <1>1 DEF compact
  <2>2. \A i \in Excess(s) + 1 .. Len(s) : Old(s[i], now)
    BY <1>0, <1>1, LogsAssumption DEF Old
  <2> QED BY <1>0, <2>1, <2>2
<1>2. CASE young # {}
  <2> DEFINE m == CHOOSE i \in young : \A j \in young : i <= j
  <2>1. young \subseteq Nat
    BY <1>0
  <2>2. \E i \in young : \A j \in young : i <= j
    BY <1>2, <2>1, LeastNatural, Zenon
  <2>3. m \in young /\ \A j \in young : m <= j
    BY <2>2, Zenon
  <2>4. compact(s, now) = SubSeq(s, m, Len(s))
    BY <1>2, Zenon DEF compact
  <2> HIDE DEF m
  <2>5. m \in Excess(s) + 1 .. Len(s) /\ s[m] > now - itemLifetime
    BY <2>3
  <2>6. PICK d \in Nat : m = d + 1 /\ d >= Excess(s) /\ d < Len(s)
    BY <1>0, <2>5
  <2>7. SubSeq(s, m, Len(s)) = [i \in 1 .. Len(s) - d |-> s[d + i]]
    BY <1>0, <2>6
  <2>8. \A i \in 1 .. Len(s) - d : s[d + i] \in Int
    BY <1>0, <2>6
  <2>9. compact(s, now) \in Seq(Int) /\ Len(s) = Len(compact(s, now)) + d
    BY <1>0, <2>4, <2>6, <2>7, <2>8
  <2>10. \A i \in 1 .. Len(compact(s, now)) : compact(s, now)[i] = s[d + i]
    BY <1>0, <2>4, <2>6, <2>7, <2>9
  <2>11. \A i \in Excess(s) + 1 .. d : Old(s[i], now)
    <3> SUFFICES ASSUME NEW i \in Excess(s) + 1 .. d PROVE Old(s[i], now)
      OBVIOUS
    <3>1. i \in Excess(s) + 1 .. Len(s) /\ i < m /\ s[i] \in Int
      BY <1>0, <2>6
    <3>2. i \notin young
      BY <2>3, <2>5, <3>1
    <3> QED BY <3>1, <3>2, LogsAssumption DEF Old
  <2>12. ~Old(s[d + 1], now)
    BY <1>0, <2>5, <2>6, LogsAssumption DEF Old
  <2> QED BY <2>6, <2>9, <2>10, <2>11, <2>12, Zenon
<1> QED BY <1>1, <1>2

(* Compacting a store leaves what is recent and young of the history. *)
LEMMA CompactedStore ==
    ASSUME NEW all \in Seq(Int), NEW s, NEW now \in Int, TailOf(s, all),
           \A i, j \in 1 .. Len(all) : i <= j => all[i] <= all[j],
           \A i \in 1 .. Len(all) : i + Len(s) <= Len(all) => i + maxItems <= Len(all) \/ Old(all[i], now)
    PROVE  LET c == compact(s, now)
           IN /\ TailOf(c, all)
              /\ \A i \in 1 .. Len(all) :
                    i + Len(c) <= Len(all) <=> i + maxItems <= Len(all) \/ Old(all[i], now)
<1> DEFINE c == compact(s, now)
<1>1. s \in Seq(Int) /\ Len(s) \in Nat /\ Len(all) \in Nat
  BY DEF TailOf
<1>2. PICK e \in Nat : Len(all) = Len(s) + e /\ \A i \in 1 .. Len(s) : s[i] = all[e + i]
  BY Zenon DEF TailOf
<1>3. c \in Seq(Int) /\ Len(c) \in Nat
  BY <1>1, CompactKeeps
<1>4. PICK d \in Nat :
        /\ Len(s) = Len(c) + d /\ d >= Excess(s)
        /\ \A i \in 1 .. Len(c) : c[i] = s[d + i]
        /\ \A i \in Excess(s) + 1 .. d : Old(s[i], now)
        /\ d < Len(s) => ~Old(s[d + 1], now)
  BY <1>1, CompactKeeps, Zenon
<1> HIDE DEF c
<1>5. TailOf(c, all)
  <2>1. e + d \in Nat /\ Len(all) = Len(c) + (e + d)
    BY <1>1, <1>2, <1>3, <1>4
  <2>2. ASSUME NEW i \in 1 .. Len(c) PROVE c[i] = all[(e + d) + i]
    <3>1. d + i \in 1 .. Len(s) /\ e + (d + i) = (e + d) + i
      BY <1>1, <1>3, <1>4
    <3> QED BY <1>2, <1>4, <3>1
  <2> QED BY <1>3, <2>1, <2>2, Zenon DEF TailOf
<1>6. Excess(s) \in Nat /\ (Excess(s) > 0 => Excess(s) = Len(s) - maxItems) /\ Excess(s) >= Len(s) - maxItems
  BY <1>1, LogsAssumption DEF Excess
<1>7. ASSUME NEW i \in 1 .. Len(all), i > e + d PROVE ~(i + maxItems <= Len(all)) /\ ~Old(all[i], now)
  <2>1. d + 1 \in 1 .. Len(s) /\ e + (d + 1) \in 1 .. Len(all) /\ e + (d + 1) <= i
    BY <1>1, <1>2, <1>3, <1>4, <1>7
  <2>2. s[d + 1] = all[e + (d + 1)] /\ all[e + (d + 1)] <= all[i]
    BY <1>2, <2>1, Zenon
  <2>3. ~Old(all[e + (d + 1)], now)
    BY <1>1, <1>4, <2>1, <2>2
  <2>4. all[i] \in Int /\ all[e + (d + 1)] \in Int
    BY <2>1
  <2>5. ~Old(all[i], now)
    BY <2>2, <2>3, <2>4, LogsAssumption DEF Old
  <2> QED BY <1>1, <1>2, <1>3, <1>4, <1>6, <1>7, <2>5, LogsAssumption
<1>8. ASSUME NEW i \in 1 .. Len(all), ~(i > e + d) PROVE i + maxItems <= Len(all) \/ Old(all[i], now)
  <2>1. CASE i > e
    <3>1. PICK k \in 1 .. d : i = e + k
      BY <1>1, <1>8, <2>1
    <3>2. k \in 1 .. Len(s) /\ s[k] = all[i]
      BY <1>1, <1>2, <1>3, <1>4, <3>1
    <3>3. CASE k <= Excess(s)
      BY <1>1, <1>2, <1>6, <3>1, <3>3, LogsAssumption
    <3>4. CASE ~(k <= Excess(s))
      <4>1. k \in Excess(s) + 1 .. d
        BY <1>6, <3>1, <3>4
      <4> QED BY <1>4, <3>2, <4>1
    <3> QED BY <3>3, <3>4
  <2>2. CASE ~(i > e)
    BY <1>1, <1>2, <2>2
  <2> QED BY <2>1, <2>2
<1>9. \A i \in 1 .. Len(all) : i + Len(c) <= Len(all) <=> ~(i > e + d)
  BY <1>1, <1>2, <1>3, <1>4
<1> QED BY <1>5, <1>7, <1>8, <1>9 DEF c

(* An access compacts the store and returns it. *)
LEMMA AccessKeeps ==
    ASSUME LogsInv, NEW s, NEW all \in Seq(Int), TailOf(s, all),
           \A i, j \in 1 .. Len(all) : i <= j => all[i] <= all[j],
           \A i \in 1 .. Len(all) : all[i] <= time,
           \A i \in 1 .. Len(all) : i + Len(s) <= Len(all) => i + maxItems <= Len(all) \/ Old(all[i], time),
           store' = compact(s, time), logged' = all, result' = [logs |-> store', at |-> time], time' = time
    PROVE  LogsInv' /\ LogIsRecent'
<1>1. time \in Int
  BY DEF LogsInv
<1>2. /\ TailOf(store', all)
      /\ \A i \in 1 .. Len(all) : i + Len(store') <= Len(all) <=> i + maxItems <= Len(all) \/ Old(all[i], time)
  BY <1>1, CompactedStore
<1>3. LogsInv'
  BY <1>1, <1>2, Zenon DEF LogsInv, TailOf, Old
<1>4. PICK d \in Nat : Len(all) = Len(store') + d /\ \A i \in 1 .. Len(store') : store'[i] = all[d + i]
  BY <1>2, Zenon DEF TailOf
<1>5. Len(store') \in Nat /\ Len(all) \in Nat /\ result'.logs = store' /\ result'.at = time
  BY <1>2 DEF TailOf
<1>6. Len(logged') - Len(result'.logs) = d
  BY <1>4, <1>5
<1>7. ASSUME NEW i \in 1 .. Len(all) PROVE i > d <=> i > Len(all) - maxItems /\ all[i] > time - itemLifetime
  <2>1. all[i] \in Int
    OBVIOUS
  <2>2. i > d <=> ~(i + maxItems <= Len(all) \/ Old(all[i], time))
    BY <1>2, <1>4, <1>5
  <2> QED BY <1>1, <1>5, <2>1, <2>2, LogsAssumption DEF Old
<1>8. LogIsRecent'
  BY <1>4, <1>5, <1>6, <1>7 DEF LogIsRecent
<1> QED BY <1>3, <1>8

(* However accesses and time alternate, the log returns the young ones     *)
(* among the last maxItems messages ever logged, for every limit and       *)
(* lifetime.                                                               *)
THEOREM LogStaysRecent == LogsSpec => []LogIsRecent
<1>1. LogsInit => LogsInv /\ LogIsRecent
  BY LogsAssumption DEF LogsInit, LogsInv, TailOf, LogIsRecent
<1>2. LogsInv /\ LogIsRecent /\ [LogsNext]_logsVars => LogsInv' /\ LogIsRecent'
  <2> SUFFICES ASSUME LogsInv, LogIsRecent, [LogsNext]_logsVars PROVE LogsInv' /\ LogIsRecent'
    OBVIOUS
  <2>1. CASE Log
    <3> DEFINE all == Append(logged, time)
               s == Append(store, time)
    <3>1. /\ time \in Int /\ logged \in Seq(Int) /\ store \in Seq(Int)
          /\ Len(logged) \in Nat /\ Len(store) \in Nat /\ Len(store) <= Len(logged)
      BY DEF LogsInv, TailOf
    <3>2. /\ all \in Seq(Int) /\ Len(all) = Len(logged) + 1
          /\ all[Len(logged) + 1] = time /\ \A i \in 1 .. Len(logged) : all[i] = logged[i]
      BY <3>1
    <3>3. /\ s \in Seq(Int) /\ Len(s) = Len(store) + 1
          /\ s[Len(store) + 1] = time /\ \A i \in 1 .. Len(store) : s[i] = store[i]
      BY <3>1
    <3> HIDE DEF all, s
    <3>4. TailOf(s, all)
      <4>1. PICK d \in Nat : Len(logged) = Len(store) + d /\ \A i \in 1 .. Len(store) : store[i] = logged[d + i]
        BY Zenon DEF LogsInv, TailOf
      <4>2. Len(all) = Len(s) + d
        BY <3>1, <3>2, <3>3, <4>1
      <4>3. ASSUME NEW i \in 1 .. Len(s) PROVE s[i] = all[d + i]
        <5>1. CASE i = Len(store) + 1
          BY <3>1, <3>2, <3>3, <4>1, <5>1
        <5>2. CASE i # Len(store) + 1
          <6>1. i \in 1 .. Len(store) /\ d + i \in 1 .. Len(logged)
            BY <3>1, <3>3, <4>1, <5>2
          <6> QED BY <3>2, <3>3, <4>1, <6>1
        <5> QED BY <5>1, <5>2
      <4> QED BY <3>3, <4>2, <4>3, Zenon DEF TailOf
    <3>5. /\ \A i, j \in 1 .. Len(all) : i <= j => all[i] <= all[j]
          /\ \A i \in 1 .. Len(all) : all[i] <= time
      <4>1. \A i \in 1 .. Len(all) : i = Len(logged) + 1 \/ i \in 1 .. Len(logged)
        BY <3>1, <3>2
      <4>2. \A i \in 1 .. Len(all) : all[i] <= time
        BY <3>1, <3>2, <4>1 DEF LogsInv
      <4>3. ASSUME NEW i \in 1 .. Len(all), NEW j \in 1 .. Len(all), i <= j PROVE all[i] <= all[j]
        <5>1. CASE j = Len(logged) + 1
          BY <3>2, <4>2, <5>1
        <5>2. CASE j # Len(logged) + 1
          <6>1. i \in 1 .. Len(logged) /\ j \in 1 .. Len(logged)
            BY <3>1, <3>2, <4>3, <5>2
          <6> QED BY <3>2, <4>3, <6>1 DEF LogsInv
        <5> QED BY <5>1, <5>2
      <4> QED BY <4>2, <4>3
    <3>6. \A i \in 1 .. Len(all) : i + Len(s) <= Len(all) => i + maxItems <= Len(all) \/ Old(all[i], time)
      <4> SUFFICES ASSUME NEW i \in 1 .. Len(all), i + Len(s) <= Len(all)
                   PROVE  i + maxItems <= Len(all) \/ Old(all[i], time)
        OBVIOUS
      <4>1. i \in 1 .. Len(logged) /\ i + Len(store) <= Len(logged)
        <5>1. i \in Nat \ {0} /\ i + (Len(store) + 1) <= Len(logged) + 1
          BY <3>1, <3>2, <3>3
        <5> QED BY <3>1, <5>1
      <4>2. i + maxItems <= Len(logged) \/ Old(all[i], time)
        BY <3>2, <4>1 DEF LogsInv
      <4> QED BY <3>1, <3>2, <4>2, LogsAssumption
    <3>7. store' = compact(s, time) /\ logged' = all /\ result' = [logs |-> store', at |-> time] /\ time' = time
      BY <2>1 DEF Log, s, all
    <3> QED BY <3>2, <3>4, <3>5, <3>6, <3>7, AccessKeeps
  <2>2. CASE GetLogs
    <3>1. store' = compact(store, time) /\ logged' = logged /\ result' = [logs |-> store', at |-> time] /\ time' = time
      BY <2>2 DEF GetLogs
    <3> QED BY <3>1, AccessKeeps DEF LogsInv
  <2>3. CASE LogsTick
    <3>1. time' = time + 1 /\ time \in Int /\ store' = store /\ logged' = logged /\ result' = result
      BY <2>3 DEF LogsTick, LogsInv
    <3>2. \A i \in 1 .. Len(logged) : logged[i] \in Int
      BY DEF LogsInv
    <3>3. \A i \in 1 .. Len(logged) : logged[i] <= time' /\ (Old(logged[i], time) => Old(logged[i], time'))
      BY <3>1, <3>2, LogsAssumption DEF LogsInv, Old
    <3>4. LogsInv'
      <4>1. \A i \in 1 .. Len(logged) :
              i + Len(store) <= Len(logged) => i + maxItems <= Len(logged) \/ Old(logged[i], time')
        BY <3>3 DEF LogsInv
      <4>2. time' \in Int /\ TailOf(store, logged)'
        BY <3>1 DEF LogsInv, TailOf
      <4>3. /\ logged \in Seq(Int) /\ \A i, j \in 1 .. Len(logged) : i <= j => logged[i] <= logged[j]
            /\ \A i \in 1 .. Len(logged) : logged[i] <= time'
        BY <3>3 DEF LogsInv
      <4> QED BY <3>1, <4>1, <4>2, <4>3 DEF LogsInv, Old
    <3> QED BY <3>1, <3>4, Zenon DEF LogIsRecent
  <2>4. CASE UNCHANGED logsVars
    BY <2>4, Zenon DEF logsVars, LogsInv, LogIsRecent, TailOf
  <2> QED BY <2>1, <2>2, <2>3, <2>4 DEF LogsNext
<1> QED BY <1>1, <1>2, PTL DEF LogsSpec
=============================================================================
