-------------------------- MODULE SemaphoreProofs --------------------------
(***************************************************************************)
(* TypeOK and ParkedOnlyWhenShort for every number of goroutines, every    *)
(* request size and every sequence of capacities.  ParkedOnlyWhenShort is  *)
(* not inductive: it says nothing of a goroutine that has decided to wait  *)
(* but has not joined the wait list.  ShortInv adds that the mutex it      *)
(* still holds keeps its decision true, and relates the clamped size to    *)
(* the size asked for.  NoUnitsLost is about a sum over the goroutines; it *)
(* follows from what the change of one term does to such a sum.            *)
(***************************************************************************)
EXTENDS Semaphore, FiniteSetTheorems, WellFoundedInduction, TLAPS

ShortInv ==
    \A c \in Clients :
        /\ size[c] <= want[c]
        /\ pc[c] \in {"parking", "parked"} =>
              size[c] <= max /\ size[c] > available

IInv == TypeOK /\ ShortInv

\* New establishes the invariant.
LEMMA InitIInv == Init => IInv
  BY CapacitiesAssumption, NoOneAssumption
  DEF Init, IInv, TypeOK, ShortInv, NonNeg, PCs

\* The shared part of the two places where takeInner evaluates its loop test.
LEMMA TryTakeIInv ==
  ASSUME IInv, NEW c \in Clients, mut = NoOne, TryTake(c)
  PROVE  IInv'
<1> USE DEF IInv
<1> DEFINE n == ClampMin(size[c], max)
<1>1. /\ n \in Nat /\ n <= max /\ n <= size[c] /\ n <= want[c]
      /\ size' = [size EXCEPT ![c] = n]
  BY DEF TryTake, ClampMin, TypeOK, ShortInv
<1> HIDE DEF n
<1>2. CASE /\ n > available
           /\ pc' = [pc EXCEPT ![c] = "parking"]
           /\ mut' = c
           /\ UNCHANGED <<available, max, want, cancelled, cast>>
  <2>1. TypeOK'
    BY <1>1, <1>2, NoOneAssumption DEF TypeOK, PCs
  <2>2. ShortInv'
    BY <1>1, <1>2 DEF TypeOK, ShortInv
  <2> QED BY <2>1, <2>2
<1>3. CASE /\ n <= available
           /\ pc' = [pc EXCEPT ![c] = "took"]
           /\ available' = available - n
           /\ UNCHANGED <<mut, max, want, cancelled, cast>>
  <2>1. TypeOK'
    BY <1>1, <1>3, NoOneAssumption DEF TypeOK, PCs
  <2>2. ShortInv'
    BY <1>1, <1>3 DEF TypeOK, ShortInv
  <2> QED BY <2>1, <2>2
<1> QED BY <1>1, <1>2, <1>3 DEF TryTake, n

\* A broadcast empties the wait list, so changes of available and max under the
\* free mutex cannot falsify ShortInv.
LEMMA BroadcastIInv ==
  ASSUME IInv, mut = NoOne, NEW p, p = Broadcast(pc)
  PROVE  /\ p \in [Clients -> PCs]
         /\ \A c \in Clients : p[c] \notin {"parking", "parked"}
  BY NoOneAssumption DEF IInv, TypeOK, Broadcast, PCs

\* Every step of every goroutine preserves the invariant.
LEMMA NextIInv == IInv /\ [Next]_vars => IInv'
<1> SUFFICES ASSUME IInv, [Next]_vars PROVE IInv'
  OBVIOUS
<1>1. ASSUME NEW c \in Clients, NEW n \in Sizes, Call(c, n) PROVE IInv'
  BY <1>1, SizesAssumption, NoOneAssumption
  DEF IInv, TypeOK, ShortInv, Call, PCs
<1>2. ASSUME NEW c \in Clients, Cancel(c) PROVE IInv'
  BY <1>2 DEF IInv, TypeOK, ShortInv, Cancel, InCall
<1>3. ASSUME NEW c \in Clients, CheckCtx(c) PROVE IInv'
  BY <1>3, NoOneAssumption DEF IInv, TypeOK, ShortInv, CheckCtx, PCs
<1>4. ASSUME NEW c \in Clients, Lock(c) PROVE IInv'
  BY <1>4, TryTakeIInv DEF Lock
<1>5. ASSUME NEW c \in Clients, Park(c) PROVE IInv'
  BY <1>5, NoOneAssumption DEF IInv, TypeOK, ShortInv, Park, callVars, PCs
<1>6. ASSUME NEW c \in Clients, Relock(c) PROVE IInv'
  <2>1. CASE TryTake(c)
    BY <1>6, <2>1, TryTakeIInv DEF Relock
  <2>2. CASE /\ pc[c] = "woken"
             /\ pc' = [pc EXCEPT ![c] = "failed"]
             /\ UNCHANGED <<max, available, mut, callVars>>
    BY <2>2, NoOneAssumption DEF IInv, TypeOK, ShortInv, callVars, PCs
  <2> QED BY <1>6, <2>1, <2>2 DEF Relock
<1>7. ASSUME NEW c \in Clients, OuterBroadcast(c) PROVE IInv'
  BY <1>7, NoOneAssumption
  DEF IInv, TypeOK, ShortInv, OuterBroadcast, Broadcast, InCall, PCs
<1>8. ASSUME NEW c \in Clients, Return(c) PROVE IInv'
  BY <1>8, NoOneAssumption
  DEF IInv, TypeOK, ShortInv, Return, Forget, PCs
<1>9. ASSUME NEW c \in Clients, Give(c) PROVE IInv'
  <2>1. /\ Broadcast(pc) \in [Clients -> PCs]
        /\ \A d \in Clients : Broadcast(pc)[d] \notin {"parking", "parked"}
    BY <1>9, BroadcastIInv DEF Give
  <2>2. /\ pc' \in [Clients -> PCs]
        /\ \A d \in Clients : pc'[d] \notin {"parking", "parked"}
    BY <1>9, <2>1 DEF Give, PCs
  <2>3. available' \in 0..max
    BY <1>9 DEF Give, ClampMin, IInv, TypeOK
  <2> QED
    BY <1>9, <2>2, <2>3, NoOneAssumption
    DEF IInv, TypeOK, ShortInv, Give, Forget
<1>10. ASSUME NEW n \in Capacities, SetCapacity(n) PROVE IInv'
  <2>1. /\ pc' \in [Clients -> PCs]
        /\ \A d \in Clients : pc'[d] \notin {"parking", "parked"}
    BY <1>10, BroadcastIInv DEF SetCapacity
  <2>2. max' \in Nat /\ available' \in 0..max'
    BY <1>10, CapacitiesAssumption
    DEF SetCapacity, ClampMin, NonNeg, IInv, TypeOK
  <2> QED
    BY <1>10, <2>1, <2>2, NoOneAssumption
    DEF IInv, TypeOK, ShortInv, SetCapacity, callVars
<1>11. CASE UNCHANGED vars
  BY <1>11 DEF IInv, TypeOK, ShortInv, vars
<1> QED
  BY <1>1, <1>2, <1>3, <1>4, <1>5, <1>6, <1>7, <1>8, <1>9, <1>10, <1>11
  DEF Next

\* The invariant holds in every reachable state.
LEMMA SpecIInv == Spec => []IInv
  BY InitIInv, NextIInv, PTL DEF Spec

\* The counter is always between zero and the present capacity, and the mutex
\* is free between critical sections (New, takeInner, Give, SetCapacity).
THEOREM TypeCorrect == Spec => []TypeOK
  BY SpecIInv, PTL DEF IInv

\* No Give and no SetCapacity ever leaves a goroutine asleep whose request
\* would fit, for any number of goroutines and any capacities.
THEOREM NoLostWakeup == Spec => []ParkedOnlyWhenShort
<1>1. IInv => ParkedOnlyWhenShort
  BY DEF IInv, TypeOK, ShortInv, ParkedOnlyWhenShort, ClampMin
<1> QED BY <1>1, SpecIInv, PTL

-----------------------------------------------------------------------------
(* The sum of what was taken.                                              *)

\* A set of numbers has a least one, which is what inductions below rest on.
LEMMA LeastNat ==
    ASSUME NEW T, T \subseteq Nat, T # {}
    PROVE  \E m \in T : \A k \in T : m <= k
<1> DEFINE Less == OpToRel(<, Nat)
<1>1. IsWellFoundedOn(Less, Nat)
  BY NatLessThanWellFounded
<1>2. \A x, y \in Nat : x < y => <<x, y>> \in Less
  BY DEF OpToRel
<1> HIDE DEF Less
<1>3. PICK m \in T : \A k \in T : ~ (<<k, m>> \in Less)
  BY <1>1, WFMin
<1>4. \A k \in T : k \in Nat /\ m \in Nat
  OBVIOUS
<1>5. \A k \in T : ~ (k < m)
  BY <1>2, <1>3, <1>4
<1>6. QED
  BY <1>4, <1>5

Some(s) == CHOOSE x \in s : TRUE
Rest(s) == s \ {Some(s)}

\* g sums up F over s, given what it is for less than s.
SumsAt(F, g, s) == g[s] = IF s = {} THEN 0 ELSE F[Some(s)] + g[Rest(s)]

\* g sums up F over all sets of clients, in the order of the fold.
Sums(F, g) == \A s \in SUBSET Clients : SumsAt(F, g, s)

\* Sets of clients are finite, and taking one away leaves one less.
LEMMA RestFacts ==
    ASSUME NEW s \in SUBSET Clients
    PROVE  /\ IsFiniteSet(s) /\ Cardinality(s) \in Nat
           /\ Cardinality(s) <= Cardinality(Clients) /\ Cardinality(Clients) \in Nat
           /\ Cardinality(s) = 0 <=> s = {}
           /\ s # {} => /\ Some(s) \in s /\ Rest(s) \in SUBSET Clients
                        /\ Cardinality(Rest(s)) = Cardinality(s) - 1
<1>1. IsFiniteSet(s) /\ Cardinality(s) <= Cardinality(Clients)
  BY ClientsAssumption, FS_Subset
<1>2. Cardinality(s) \in Nat /\ Cardinality(Clients) \in Nat
  BY <1>1, ClientsAssumption, FS_CardinalityType
<1>3. Cardinality(s) = 0 <=> s = {}
  BY <1>1, FS_EmptySet
<1>4. ASSUME s # {}
      PROVE  /\ Some(s) \in s /\ Rest(s) \in SUBSET Clients
             /\ Cardinality(Rest(s)) = Cardinality(s) - 1
  <2>1. Some(s) \in s
    BY <1>4 DEF Some
  <2>2. QED
    BY <1>1, <2>1, FS_RemoveElement DEF Rest
<1>5. QED
  BY <1>1, <1>2, <1>3, <1>4

\* There are such sums.
LEMMA SumsExist ==
    ASSUME NEW F \in [Clients -> Nat]
    PROVE  \E g \in [SUBSET Clients -> Nat] : Sums(F, g)
<1> DEFINE Fns == [SUBSET Clients -> Nat]
           UpTo(n, g) == \A s \in SUBSET Clients : Cardinality(s) <= n => SumsAt(F, g, s)
           Bad == {n \in Nat : ~ \E g \in Fns : UpTo(n, g)}
<1>1. ASSUME Bad # {} PROVE FALSE
  <2>1. PICK m \in Bad : \A k \in Bad : m <= k
    BY <1>1, LeastNat
  <2>2. m \in Nat /\ ~ \E g \in Fns : UpTo(m, g)
    OBVIOUS
  <2>3. CASE m = 0
    <3> DEFINE z == [s \in SUBSET Clients |-> 0]
    <3>1. z \in Fns
      OBVIOUS
    <3>2. \A s \in SUBSET Clients : Cardinality(s) <= 0 => s = {}
      BY RestFacts
    <3>3. \A s \in SUBSET Clients : s = {} => z[s] = 0
      OBVIOUS
    <3>4. UpTo(0, z)
      BY <3>2, <3>3 DEF SumsAt
    <3>5. QED
      BY <2>2, <2>3, <3>1, <3>4
  <2>4. CASE m # 0
    <3>1. m - 1 \in Nat /\ ~(m <= m - 1)
      BY <2>2, <2>4
    <3>2. m - 1 \notin Bad
      BY <2>1, <3>1
    <3>3. PICK g \in Fns : UpTo(m - 1, g)
      BY <3>1, <3>2
    <3> DEFINE h == [s \in SUBSET Clients |->
                       IF Cardinality(s) <= m - 1 THEN g[s]
                       ELSE F[Some(s)] + g[Rest(s)]]
    <3>4. ASSUME NEW s \in SUBSET Clients, s # {}
          PROVE  F[Some(s)] + g[Rest(s)] \in Nat
      <4>1. Some(s) \in Clients /\ Rest(s) \in SUBSET Clients
        BY <3>4, RestFacts
      <4>2. F[Some(s)] \in Nat /\ g[Rest(s)] \in Nat
        BY <4>1
      <4>3. QED
        BY <4>2
    <3>5. h \in Fns
      <4>1. \A s \in SUBSET Clients : s = {} => Cardinality(s) <= m - 1
        BY <3>1, RestFacts
      <4>2. \A s \in SUBSET Clients : h[s] \in Nat
        BY <3>4, <4>1
      <4>3. QED
        BY <4>2
    <3>6. ASSUME NEW s \in SUBSET Clients, Cardinality(s) <= m PROVE SumsAt(F, h, s)
      <4>1. CASE s = {}
        <5>1. Cardinality(s) <= m - 1
          BY <3>1, <4>1, RestFacts
        <5>2. SumsAt(F, g, s) /\ h[s] = g[s]
          BY <3>3, <5>1
        <5>3. QED
          BY <4>1, <5>2 DEF SumsAt
      <4>2. CASE s # {}
        <5>1. /\ Rest(s) \in SUBSET Clients /\ Cardinality(Rest(s)) = Cardinality(s) - 1
              /\ Cardinality(s) \in Nat
          BY <4>2, RestFacts
        <5>2. Cardinality(Rest(s)) <= m - 1
          BY <2>2, <3>6, <5>1
        <5>3. h[Rest(s)] = g[Rest(s)]
          BY <5>1, <5>2
        <5>4. h[s] = F[Some(s)] + g[Rest(s)]
          <6>1. Cardinality(s) <= m - 1 => SumsAt(F, g, s)
            BY <3>3
          <6>2. QED
            BY <4>2, <6>1 DEF SumsAt
        <5>5. QED
          BY <4>2, <5>3, <5>4 DEF SumsAt
      <4>3. QED
        BY <4>1, <4>2
    <3> HIDE DEF h
    <3>7. UpTo(m, h)
      BY <3>6
    <3>8. QED
      BY <2>2, <3>5, <3>7
  <2>5. QED
    BY <2>3, <2>4
<1>2. Cardinality(Clients) \in Nat
  BY RestFacts
<1>3. PICK g \in Fns : UpTo(Cardinality(Clients), g)
  BY <1>1, <1>2
<1>4. \A s \in SUBSET Clients : SumsAt(F, g, s)
  BY <1>3, RestFacts
<1>5. QED
  BY <1>4 DEF Sums

\* If two functions differ in c only, so do their sums over sets with c.
LEMMA SumsDiffer ==
    ASSUME NEW F \in [Clients -> Nat], NEW G \in [Clients -> Nat], NEW c,
           \A d \in Clients : d # c => F[d] = G[d],
           NEW f, NEW g, Sums(F, f), Sums(G, g)
    PROVE  /\ f[Clients] \in Nat /\ g[Clients] \in Nat
           /\ c \notin Clients => f[Clients] = g[Clients]
           /\ c \in Clients => f[Clients] + G[c] = g[Clients] + F[c]
<1> DEFINE P(s) == /\ f[s] \in Nat /\ g[s] \in Nat
                   /\ IF c \in s THEN f[s] + G[c] = g[s] + F[c] ELSE f[s] = g[s]
           Bad == {Cardinality(s) : s \in {u \in SUBSET Clients : ~P(u)}}
<1>1. ASSUME NEW s \in SUBSET Clients, ~P(s) PROVE FALSE
  <2>1. Bad \subseteq Nat /\ Bad # {}
    BY <1>1, RestFacts
  <2>2. PICK m \in Bad : \A k \in Bad : m <= k
    BY <2>1, LeastNat
  <2>3. PICK u \in SUBSET Clients : ~P(u) /\ Cardinality(u) = m
    OBVIOUS
  <2>4. u # {}
    <3>1. f[{}] = 0 /\ g[{}] = 0
      BY DEF Sums, SumsAt
    <3>2. P({})
      BY <3>1
    <3>3. QED
      BY <2>3, <3>2
  <2>5. /\ Some(u) \in u /\ Rest(u) \in SUBSET Clients
        /\ Cardinality(Rest(u)) = m - 1 /\ m \in Nat
    BY <2>3, <2>4, RestFacts
  <2>6. P(Rest(u))
    <3>1. ~(m <= m - 1)
      BY <2>5
    <3>2. Cardinality(Rest(u)) \notin Bad
      BY <2>2, <2>5, <3>1
    <3>3. QED
      BY <2>5, <3>2
  <2>7. f[u] = F[Some(u)] + f[Rest(u)] /\ g[u] = G[Some(u)] + g[Rest(u)]
    BY <2>4 DEF Sums, SumsAt
  <2>8. /\ f[Rest(u)] \in Nat /\ g[Rest(u)] \in Nat
        /\ F[Some(u)] \in Nat /\ G[Some(u)] \in Nat
    BY <2>3, <2>5, <2>6
  <2> HIDE DEF Bad
  <2>0. f[u] \in Nat /\ g[u] \in Nat
    BY <2>7, <2>8
  <2>9. CASE c = Some(u)
    <3>1. c \in u /\ c \notin Rest(u)
      BY <2>5, <2>9 DEF Rest
    <3>2. f[Rest(u)] = g[Rest(u)]
      BY <2>6, <3>1
    <3>3. f[u] + G[c] = g[u] + F[c]
      BY <2>7, <2>8, <2>9, <3>2
    <3>4. QED
      BY <2>0, <2>3, <3>1, <3>3
  <2>10. CASE c # Some(u)
    <3>1. F[Some(u)] = G[Some(u)] /\ (c \in u <=> c \in Rest(u))
      BY <2>3, <2>5, <2>10 DEF Rest
    <3>2. CASE c \in u
      <4>1. f[Rest(u)] + G[c] = g[Rest(u)] + F[c] /\ G[c] \in Nat /\ F[c] \in Nat
        BY <2>3, <2>6, <3>1, <3>2
      <4>2. f[u] + G[c] = g[u] + F[c]
        BY <2>7, <2>8, <3>1, <4>1
      <4>3. QED
        BY <2>0, <2>3, <3>2, <4>2
    <3>3. CASE c \notin u
      <4>1. f[Rest(u)] = g[Rest(u)]
        BY <2>6, <3>1, <3>3
      <4>2. QED
        BY <2>0, <2>3, <2>7, <3>1, <3>3, <4>1
    <3>4. QED
      BY <3>2, <3>3
  <2>11. QED
    BY <2>9, <2>10
<1>2. P(Clients)
  BY <1>1
<1>3. QED
  BY <1>2

\* What was taken, as a function.
TakenBy == [c \in Clients |-> Taken(c)]

Total == MapThenSumSet(Taken, Clients)

\* The fold in NoUnitsLost is such a sum.
TotalIsASum ==
    TakenBy \in [Clients -> Nat] /\ \E g : Sums(TakenBy, g) /\ Total = g[Clients]

LEMMA TakenSum == TypeOK => TotalIsASum
<1> SUFFICES ASSUME TypeOK PROVE TotalIsASum
  OBVIOUS
<1> DEFINE Q(g) == g = [s \in SUBSET Clients |->
                          IF s = {} THEN 0 ELSE Taken(Some(s)) + g[Rest(s)]]
           it == CHOOSE g : Q(g)
<1>1. TakenBy \in [Clients -> Nat]
  BY DEF TakenBy, Taken, TypeOK
<1>2. Total = it[Clients]
  BY DEF Total, MapThenSumSet, MapThenFoldSet, Some, Rest
<1>3. \A s \in SUBSET Clients : s # {} => Taken(Some(s)) = TakenBy[Some(s)]
  BY RestFacts DEF TakenBy
<1>4. PICK h \in [SUBSET Clients -> Nat] : Sums(TakenBy, h)
  BY <1>1, SumsExist
<1>5. Q(h)
  <2>1. \A s \in SUBSET Clients : h[s] = IF s = {} THEN 0 ELSE Taken(Some(s)) + h[Rest(s)]
    BY <1>3, <1>4 DEF Sums, SumsAt
  <2>2. QED
    BY <2>1
<1>6. Q(it)
  BY <1>5
<1> HIDE DEF it
<1>7. \A s \in SUBSET Clients : it[s] = IF s = {} THEN 0 ELSE Taken(Some(s)) + it[Rest(s)]
  BY <1>6
<1>8. Sums(TakenBy, it)
  BY <1>3, <1>7 DEF Sums, SumsAt
<1>9. QED
  BY <1>1, <1>2, <1>8 DEF TotalIsASum

\* How a step changes the sum, if it changes what one client has taken.
LEMMA TotalChanges ==
    ASSUME TypeOK, TypeOK', NEW c, \A d \in Clients : d # c => Taken(d)' = Taken(d)
    PROVE  /\ Total \in Nat /\ Total' \in Nat
           /\ c \notin Clients => Total' = Total
           /\ c \in Clients => Total + Taken(c)' = Total' + Taken(c)
<1>1. TakenBy \in [Clients -> Nat] /\ \E g : Sums(TakenBy, g) /\ Total = g[Clients]
  BY TakenSum DEF TotalIsASum
<1>2. TakenBy' \in [Clients -> Nat] /\ \E g : Sums(TakenBy', g) /\ Total' = g[Clients]
  <2>1. TypeOK' => TotalIsASum'
    BY TakenSum, PTL
  <2>2. QED
    BY <2>1 DEF TotalIsASum, Sums, SumsAt
<1>3. PICK f : Sums(TakenBy, f) /\ Total = f[Clients]
  BY <1>1
<1>4. PICK g : Sums(TakenBy', g) /\ Total' = g[Clients]
  BY <1>2
<1>5. \A d \in Clients : d # c => TakenBy[d] = TakenBy'[d]
  BY DEF TakenBy
<1>6. c \in Clients => TakenBy[c] = Taken(c) /\ TakenBy'[c] = Taken(c)'
  BY DEF TakenBy
<1>7. /\ f[Clients] \in Nat /\ g[Clients] \in Nat
      /\ c \notin Clients => f[Clients] = g[Clients]
      /\ c \in Clients => f[Clients] + TakenBy'[c] = g[Clients] + TakenBy[c]
  BY <1>1, <1>2, <1>3, <1>4, <1>5, SumsDiffer
<1>8. QED
  BY <1>3, <1>4, <1>6, <1>7

\* Steps in which nothing is taken or given back, and nothing else counts.
LEMMA NothingTaken ==
    ASSUME IInv, IInv', NoUnitsLost, UNCHANGED <<max, available>>,
           \A d \in Clients : Taken(d)' = Taken(d)
    PROVE  NoUnitsLost'
<1>1. Total' = Total
  BY NoOneAssumption, TotalChanges DEF IInv
<1>2. QED
  BY <1>1 DEF NoUnitsLost, Total

\* takeInner takes what it counts as taken.
LEMMA TryTakeUnits ==
    ASSUME IInv, IInv', NoUnitsLost, NEW c \in Clients, TryTake(c),
           pc[c] \in {"lock", "woken"}
    PROVE  NoUnitsLost'
<1> DEFINE n == ClampMin(size[c], max)
<1>1. TypeOK /\ TypeOK' /\ n \in Nat
  BY DEF IInv, TypeOK, ClampMin
<1>2. size' = [size EXCEPT ![c] = n] /\ max' = max
  BY DEF TryTake
<1>3. \/ available' = available /\ pc' = [pc EXCEPT ![c] = "parking"]
      \/ available' = available - n /\ pc' = [pc EXCEPT ![c] = "took"]
  BY DEF TryTake
<1> HIDE DEF n
<1>4. \A d \in Clients : d # c => Taken(d)' = Taken(d)
  BY <1>1, <1>2, <1>3 DEF Taken, TypeOK
<1>5. Taken(c) = 0
  BY DEF Taken
<1>6. Taken(c)' = available - available'
  <2>1. CASE available' = available /\ pc' = [pc EXCEPT ![c] = "parking"]
    BY <1>1, <2>1 DEF Taken, TypeOK
  <2>2. CASE available' = available - n /\ pc' = [pc EXCEPT ![c] = "took"]
    BY <1>1, <1>2, <2>2 DEF Taken, TypeOK
  <2>3. QED
    BY <1>3, <2>1, <2>2
<1>7. Total \in Nat /\ Total' \in Nat /\ Total + Taken(c)' = Total' + Taken(c)
  BY <1>1, <1>4, TotalChanges
<1>8. max \in Nat /\ available \in Nat /\ available' \in Nat
  BY <1>1, <1>2 DEF TypeOK
<1>9. available + Total >= max
  BY DEF NoUnitsLost, Total
<1>10. available' + Total' >= max'
  <2>1. max' = max
    BY <1>2
  <2>2. Total + (available - available') = Total' + 0
    BY <1>5, <1>6, <1>7
  <2>3. Total \in Nat /\ Total' \in Nat
    BY <1>7
  <2>4. available' + Total' = available + Total
    <3>1. PICK t \in Nat : t = Total
      BY <2>3
    <3>2. PICK u \in Nat : u = Total'
      BY <2>3
    <3>3. PICK a \in Nat : a = available
      BY <1>8
    <3>4. PICK b \in Nat : b = available'
      BY <1>8
    <3>5. t + (a - b) = u + 0
      BY <2>2, <3>1, <3>2, <3>3, <3>4
    <3>6. b + u = a + t
      BY <3>5
    <3>7. QED
      BY <3>1, <3>2, <3>3, <3>4, <3>6
  <2>5. QED
    BY <1>9, <2>1, <2>4
<1>11. QED
  BY <1>10 DEF NoUnitsLost, Total

\* Give gives back at least what was taken, or all there is.
LEMMA GiveUnits ==
    ASSUME IInv, IInv', NoUnitsLost, NEW c \in Clients, Give(c)
    PROVE  NoUnitsLost'
<1>1. TypeOK /\ TypeOK' /\ size[c] <= want[c]
  BY DEF IInv, ShortInv
<1>2. /\ pc[c] = "holding" /\ max' = max
      /\ available' = ClampMin(available + ClampMin(want[c], max), max)
      /\ pc' = [Broadcast(pc) EXCEPT ![c] = "idle"]
      /\ size' = [size EXCEPT ![c] = 0]
  BY DEF Give, Forget
<1>3. \A d \in Clients : d # c => Taken(d)' = Taken(d)
  <2>1. \A d \in Clients : d # c => size'[d] = size[d] /\ pc'[d] = Broadcast(pc)[d]
    BY <1>1, <1>2 DEF TypeOK, Broadcast
  <2>2. QED
    BY <2>1 DEF Taken, Broadcast
<1>4. Taken(c) = size[c] /\ Taken(c)' = 0
  BY <1>1, <1>2 DEF Taken, TypeOK
<1>5. Total \in Nat /\ Total' \in Nat /\ Total + Taken(c)' = Total' + Taken(c)
  BY <1>1, <1>3, TotalChanges
<1>6. max \in Nat /\ available \in Nat /\ want[c] \in Nat /\ size[c] \in Nat
  BY <1>1 DEF TypeOK
<1>7. available + Total >= max
  BY DEF NoUnitsLost, Total
<1>8. available' + Total' >= max'
  <2>1. available' \in {available + want[c], available + max, max}
    BY <1>2 DEF ClampMin
  <2>2. Total = Total' + size[c]
    BY <1>4, <1>5, <1>6
  <2> HIDE DEF Total
  <2>3. CASE available' = available + want[c]
    BY <1>1, <1>2, <1>5, <1>6, <1>7, <2>2, <2>3
  <2>4. CASE available' = available + max \/ available' = max
    BY <1>2, <1>5, <1>6, <2>4
  <2>5. QED
    BY <2>1, <2>3, <2>4
<1>9. QED
  BY <1>8 DEF NoUnitsLost, Total

\* SetCapacity moves available by no less than the capacity.
LEMMA CapacityUnits ==
    ASSUME IInv, IInv', NoUnitsLost, NEW k \in Capacities, SetCapacity(k)
    PROVE  NoUnitsLost'
<1> DEFINE n == NonNeg(k)
<1>1. TypeOK /\ TypeOK' /\ n \in Nat
  BY CapacitiesAssumption DEF IInv, NonNeg
<1>2. /\ max' = n /\ available' = ClampMin(NonNeg(available + (n - max)), n)
      /\ pc' = Broadcast(pc) /\ size' = size
  BY DEF SetCapacity, callVars
<1> HIDE DEF n
<1>3. \A d \in Clients : Taken(d)' = Taken(d)
  BY <1>2 DEF Taken, Broadcast
<1>4. Total \in Nat /\ Total' = Total
  BY <1>1, <1>3, NoOneAssumption, TotalChanges
<1>5. max \in Nat /\ available \in Nat /\ available + Total >= max
  BY <1>1 DEF TypeOK, NoUnitsLost, Total
<1>6. available' + Total' >= max'
  <2> DEFINE a == available + (n - max)
  <2>1. a \in Int /\ a + Total >= n
    BY <1>1, <1>4, <1>5
  <2>2. available' = IF NonNeg(a) < n THEN NonNeg(a) ELSE n
    BY <1>2 DEF ClampMin
  <2> HIDE DEF a
  <2>3. CASE NonNeg(a) < n
    <3>1. available' = IF a < 0 THEN 0 ELSE a
      BY <2>2, <2>3 DEF NonNeg
    <3>2. available' + Total >= n
      BY <1>1, <1>4, <2>1, <3>1
    <3>3. QED
      BY <1>2, <1>4, <3>2
  <2>4. CASE ~(NonNeg(a) < n)
    BY <1>1, <1>2, <1>4, <2>2, <2>4
  <2>5. QED
    BY <2>3, <2>4
<1>7. QED
  BY <1>6 DEF NoUnitsLost, Total

LEMMA UnitsStep == IInv /\ NoUnitsLost /\ [Next]_vars => NoUnitsLost'
<1> SUFFICES ASSUME IInv, NoUnitsLost, [Next]_vars PROVE NoUnitsLost'
  OBVIOUS
<1>1. IInv' /\ TypeOK
  BY NextIInv DEF IInv
<1>2. ASSUME NEW c \in Clients, NEW n \in Sizes, Call(c, n) PROVE NoUnitsLost'
  <2>1. \A d \in Clients : Taken(d)' = Taken(d)
    BY <1>1, <1>2 DEF Call, Taken, TypeOK
  <2>2. QED
    BY <1>1, <1>2, <2>1, NothingTaken DEF Call
<1>3. ASSUME NEW c \in Clients, Cancel(c) \/ CheckCtx(c) \/ Park(c) PROVE NoUnitsLost'
  <2>1. \A d \in Clients : Taken(d)' = Taken(d)
    BY <1>1, <1>3 DEF Cancel, CheckCtx, Park, callVars, Taken, TypeOK
  <2>2. UNCHANGED <<max, available>>
    BY <1>3 DEF Cancel, CheckCtx, Park
  <2>3. QED
    BY <1>1, <2>1, <2>2, NothingTaken
<1>4. ASSUME NEW c \in Clients, Lock(c) PROVE NoUnitsLost'
  BY <1>1, <1>4, TryTakeUnits DEF Lock
<1>5. ASSUME NEW c \in Clients, Relock(c) PROVE NoUnitsLost'
  <2>1. CASE TryTake(c)
    BY <1>1, <1>5, <2>1, TryTakeUnits DEF Relock
  <2>2. CASE /\ pc' = [pc EXCEPT ![c] = "failed"]
             /\ UNCHANGED <<max, available, mut, callVars>>
    <3>1. \A d \in Clients : Taken(d)' = Taken(d)
      BY <1>1, <1>5, <2>2 DEF Relock, callVars, Taken, TypeOK
    <3>2. QED
      BY <1>1, <2>2, <3>1, NothingTaken
  <2>3. QED
    BY <1>5, <2>1, <2>2 DEF Relock
<1>6. ASSUME NEW c \in Clients, OuterBroadcast(c) PROVE NoUnitsLost'
  <2>1. \A d \in Clients : Taken(d)' = Taken(d)
    BY <1>6 DEF OuterBroadcast, Broadcast, Taken
  <2>2. QED
    BY <1>1, <1>6, <2>1, NothingTaken DEF OuterBroadcast
<1>7. ASSUME NEW c \in Clients, Return(c) PROVE NoUnitsLost'
  <2>1. \A d \in Clients : Taken(d)' = Taken(d)
    BY <1>1, <1>7 DEF Return, Forget, Taken, TypeOK
  <2>2. UNCHANGED <<max, available>>
    BY <1>7 DEF Return
  <2>3. QED
    BY <1>1, <2>1, <2>2, NothingTaken
<1>8. ASSUME NEW c \in Clients, Give(c) PROVE NoUnitsLost'
  BY <1>1, <1>8, GiveUnits
<1>9. ASSUME NEW k \in Capacities, SetCapacity(k) PROVE NoUnitsLost'
  BY <1>1, <1>9, CapacityUnits
<1>10. CASE UNCHANGED vars
  <2>1. \A d \in Clients : Taken(d)' = Taken(d)
    BY <1>10 DEF vars, Taken
  <2>2. QED
    BY <1>1, <1>10, <2>1, NothingTaken DEF vars
<1>11. QED
  BY <1>2, <1>3, <1>4, <1>5, <1>6, <1>7, <1>8, <1>9, <1>10 DEF Next

\* No unit is lost, for any number of goroutines, any sizes and any sequence of
\* capacities: what is available and what has been taken and not given back is
\* at least the capacity (takeInner, Give, SetCapacity).
THEOREM UnitsAreNotLost == Spec => []NoUnitsLost
<1>1. Init => NoUnitsLost
  <2> SUFFICES ASSUME Init PROVE NoUnitsLost
    OBVIOUS
  <2>1. TypeOK /\ max = available /\ max \in Nat
    BY InitIInv DEF IInv, TypeOK, Init
  <2>2. PICK g : Sums(TakenBy, g) /\ Total = g[Clients]
    BY <2>1, TakenSum DEF TotalIsASum
  <2>3. Total \in Nat
    BY <2>1, <2>2, NoOneAssumption, TakenSum, SumsDiffer DEF TotalIsASum
  <2>4. available + Total >= max
    BY <2>1, <2>3
  <2>5. QED
    BY <2>4 DEF NoUnitsLost, Total
<1>2. QED
  BY <1>1, SpecIInv, UnitsStep, PTL DEF Spec

=============================================================================
