------------------------- MODULE VexCortexListProof -------------------------
(***************************************************************************)
(* The list of "terminate" listeners: what a walk along it meets, and what *)
(* registering and unregistering a listener make of it, for lists of any   *)
(* length.                                                                 *)
(***************************************************************************)
EXTENDS VexCortex, TLAPS, FiniteSetTheorems

Node == Slots \cup {Source}

\* The equation that defines Walk.
IsWalk(next, f) ==
  f = [k \in 0 .. MAX_THREAD |->
         IF k = 0 THEN next[Source]
         ELSE IF f[k - 1] = Source THEN Source ELSE next[f[k - 1]]]

\* A set of naturals that is not empty has a least element.
LEMMA LeastNatural ==
  ASSUME NEW T \in SUBSET Nat, T # {}
  PROVE  \E m \in T : \A n \in T : m <= n
  <1>1. PICK m \in T : \A n \in T : <<n, m>> \notin OpToRel(<, Nat)
    BY NatLessThanWellFounded, WFMin, Zenon
  <1>2. \A n \in T : ~ (n < m)
    BY <1>1 DEF OpToRel
  <1> QED
    BY <1>2

\* Walk satisfies its equation whenever something does.
LEMMA WalkIsWalk ==
  ASSUME NEW next, NEW f, IsWalk(next, f)
  PROVE  IsWalk(next, Walk(next))
  <1>1. Walk(next) = CHOOSE g : IsWalk(next, g)
    BY DEF Walk, IsWalk
  <1> QED
    BY <1>1, Zenon

\* The slots, and the constants they rest on.
LEMMA SlotFacts ==
  /\ MAX_THREAD \in Nat /\ Slots = {i \in Nat : i < MAX_THREAD} /\ Source \notin Slots
  /\ IsFiniteSet(Slots) /\ Cardinality(Slots) = MAX_THREAD
  <1>1. MAX_THREAD \in Nat /\ Source \notin Slots
    BY SlotsAssumption, ThreadsAssumption
  <1>2. Slots = {i \in Nat : i < MAX_THREAD}
    BY <1>1 DEF Slots
  <1>3. IsFiniteSet(Slots) /\ Cardinality(Slots) = MAX_THREAD
    BY <1>1, FS_Interval DEF Slots
  <1> QED
    BY <1>1, <1>2, <1>3

\* The least element that Min chooses.
LEMMA MinFacts ==
  ASSUME NEW S \in SUBSET Nat, S # {}
  PROVE  Min(S) \in S /\ \A n \in S : Min(S) <= n
  <1>1. \E m \in S : \A n \in S : m <= n
    BY LeastNatural
  <1>2. Min(S) = CHOOSE m \in S : \A n \in S : m <= n
    BY DEF Min
  <1> QED
    BY <1>1, <1>2, Zenon

\* The equation has one solution.
LEMMA WalkUnique ==
  ASSUME NEW next, NEW f, IsWalk(next, f)
  PROVE  Walk(next) = f
  <1> DEFINE g == Walk(next)
             T == {k \in 0 .. MAX_THREAD : g[k] # f[k]}
  <1>1. IsWalk(next, g)
    BY WalkIsWalk
  <1> HIDE DEF g
  <1>2. T = {}
    <2> SUFFICES ASSUME T # {} PROVE FALSE
      OBVIOUS
    <2>1. T \in SUBSET Nat
      BY SlotFacts
    <2>2. PICK m \in T : \A n \in T : m <= n
      BY <2>1, LeastNatural
    <2>3. m \in 0 .. MAX_THREAD /\ m \in Nat
      BY SlotFacts
    <2>4. CASE m = 0
      <3>1. g[m] = next[Source] /\ f[m] = next[Source]
        BY <1>1, <2>3, <2>4 DEF IsWalk
      <3> QED
        BY <3>1
    <2>5. CASE m # 0
      <3>1. m - 1 \in 0 .. MAX_THREAD /\ m - 1 \notin T
        BY <2>2, <2>3, <2>5, SlotFacts
      <3>2. g[m - 1] = f[m - 1]
        BY <3>1
      <3>3. g[m] = IF g[m - 1] = Source THEN Source ELSE next[g[m - 1]]
        BY <1>1, <2>3, <2>5 DEF IsWalk
      <3>4. f[m] = IF f[m - 1] = Source THEN Source ELSE next[f[m - 1]]
        BY <2>3, <2>5 DEF IsWalk
      <3> QED
        BY <3>2, <3>3, <3>4
    <2> QED
      BY <2>4, <2>5
  <1>3. \A k \in 0 .. MAX_THREAD : g[k] = f[k]
    BY <1>2
  <1>4. g = [k \in 0 .. MAX_THREAD |-> g[k]] /\ f = [k \in 0 .. MAX_THREAD |-> f[k]]
    BY <1>1 DEF IsWalk
  <1> QED
    BY <1>3, <1>4 DEF g

\* The first m nodes of a walk.
IsWalkTo(next, m, f) ==
  /\ f \in [0 .. m -> Node]
  /\ f[0] = next[Source]
  /\ \A k \in 0 .. m : k # 0 => f[k] = IF f[k - 1] = Source THEN Source ELSE next[f[k - 1]]

\* It has a solution: a walk can be prolonged by one node.
LEMMA WalkExists ==
  ASSUME NEW next \in [Node -> Node]
  PROVE  IsWalkTo(next, MAX_THREAD, Walk(next))
  <1> DEFINE T == {m \in Nat : ~ \E f : IsWalkTo(next, m, f)}
  <1>1. T = {}
    <2> SUFFICES ASSUME T # {} PROVE FALSE
      OBVIOUS
    <2>1. PICK m \in T : \A n \in T : m <= n
      BY LeastNatural
    <2>2. next[Source] \in Node
      BY DEF Node
    <2>3. CASE m = 0
      <3>1. IsWalkTo(next, 0, [k \in 0 .. 0 |-> next[Source]])
        BY <2>2 DEF IsWalkTo
      <3> QED
        BY <2>3, <3>1
    <2>4. CASE m # 0
      <3>1. m - 1 \in Nat /\ m - 1 \notin T
        BY <2>1, <2>4
      <3>2. PICK f : IsWalkTo(next, m - 1, f)
        BY <3>1
      <3> DEFINE last == IF f[m - 1] = Source THEN Source ELSE next[f[m - 1]]
                 g == [k \in 0 .. m |-> IF k = m THEN last ELSE f[k]]
      <3>3. f[m - 1] \in Node /\ last \in Node
        BY <3>1, <3>2 DEF IsWalkTo, Node
      <3>4. \A k \in 0 .. (m - 1) : g[k] = f[k] /\ f[k] \in Node
        BY <3>1, <3>2 DEF IsWalkTo
      <3>5. g[m] = last /\ g[m - 1] = f[m - 1]
        BY <3>1, <3>4
      <3>6. g \in [0 .. m -> Node]
        <4>1. ASSUME NEW k \in 0 .. m PROVE (IF k = m THEN last ELSE f[k]) \in Node
          <5>1. k = m \/ k \in 0 .. (m - 1)
            BY <3>1
          <5> QED
            BY <3>3, <3>4, <5>1
        <4> QED
          BY <4>1
      <3> HIDE DEF g
      <3>7. g[0] = next[Source]
        BY <3>1, <3>2, <3>4 DEF IsWalkTo
      <3>8. ASSUME NEW k \in 0 .. m, k # 0
            PROVE  g[k] = IF g[k - 1] = Source THEN Source ELSE next[g[k - 1]]
        <4>1. CASE k = m
          BY <3>5, <4>1
        <4>2. CASE k # m
          <5>1. k \in 0 .. (m - 1) /\ k - 1 \in 0 .. (m - 1)
            BY <3>1, <3>8, <4>2
          <5> QED
            BY <5>1, <3>2, <3>4, <3>8 DEF IsWalkTo
        <4> QED
          BY <4>1, <4>2
      <3>9. IsWalkTo(next, m, g)
        BY <3>6, <3>7, <3>8 DEF IsWalkTo
      <3> QED
        BY <3>9
    <2> QED
      BY <2>3, <2>4
  <1>2. PICK f : IsWalkTo(next, MAX_THREAD, f)
    BY <1>1, SlotFacts
  <1>3. IsWalk(next, f)
    BY <1>2, SlotFacts DEF IsWalk, IsWalkTo
  <1> QED
    BY <1>2, <1>3, WalkUnique

-----------------------------------------------------------------------------
(* A list that ends.                                                       *)

\* The slots of q, in this order, are the list that next makes.
IsList(next, n, q) ==
  /\ n \in 0 .. MAX_THREAD
  /\ q \in [0 .. (n - 1) -> Slots]
  /\ \A k, l \in 0 .. (n - 1) : q[k] = q[l] => k = l
  /\ next[Source] = IF n = 0 THEN Source ELSE q[0]
  /\ \A k \in 0 .. (n - 1) : next[q[k]] = IF k + 1 = n THEN Source ELSE q[k + 1]

\* A walk along a list meets its slots in order, and then the source.
LEMMA ListWalk ==
  ASSUME NEW next, NEW n, NEW q, IsList(next, n, q)
  PROVE  Walk(next) = [k \in 0 .. MAX_THREAD |-> IF k < n THEN q[k] ELSE Source]
  <1> DEFINE f == [k \in 0 .. MAX_THREAD |-> IF k < n THEN q[k] ELSE Source]
  <1>1. n \in Nat /\ n <= MAX_THREAD /\ \A k \in 0 .. (n - 1) : q[k] \in Slots /\ q[k] # Source
    BY SlotFacts DEF IsList
  <1>2. \A k \in 0 .. MAX_THREAD : f[k] = IF k < n THEN q[k] ELSE Source
    OBVIOUS
  <1>3. ASSUME NEW k \in 0 .. MAX_THREAD
        PROVE  f[k] = IF k = 0 THEN next[Source]
                      ELSE IF f[k - 1] = Source THEN Source ELSE next[f[k - 1]]
    <2>1. CASE k = 0
      BY <1>1, <1>2, <2>1, SlotFacts DEF IsList
    <2>2. CASE k # 0 /\ k < n
      BY <1>1, <1>2, <2>2, SlotFacts DEF IsList
    <2>3. CASE k # 0 /\ k = n
      BY <1>1, <1>2, <2>3, SlotFacts DEF IsList
    <2>4. CASE k # 0 /\ k > n
      BY <1>1, <1>2, <2>4, SlotFacts DEF IsList
    <2> QED
      BY <1>1, <2>1, <2>2, <2>3, <2>4, SlotFacts
  <1>4. f = [k \in 0 .. MAX_THREAD |-> f[k]]
    OBVIOUS
  <1> HIDE DEF f
  <1>5. IsWalk(next, f)
    BY <1>3, <1>4 DEF IsWalk
  <1> QED
    BY <1>5, WalkUnique DEF f

\* What the walk finds after k steps.
LEMMA WalkAt ==
  ASSUME NEW next, NEW n, NEW q, IsList(next, n, q), NEW k \in 0 .. MAX_THREAD
  PROVE  Walk(next)[k] = IF k < n THEN q[k] ELSE Source
  <1> DEFINE f == [j \in 0 .. MAX_THREAD |-> IF j < n THEN q[j] ELSE Source]
  <1>1. Walk(next) = f
    BY ListWalk
  <1>2. f[k] = IF k < n THEN q[k] ELSE Source
    OBVIOUS
  <1> HIDE DEF f
  <1> QED BY <1>1, <1>2, Zenon

\* So it ends, and its slots are the listeners.
LEMMA ListFacts ==
  ASSUME NEW next, NEW n, NEW q, IsList(next, n, q)
  PROVE  ListEnds(next) /\ \A i : i \in Listeners(next) <=> \E k \in 0 .. (n - 1) : q[k] = i
  <1>1. n \in Nat /\ n <= MAX_THREAD /\ \A k \in 0 .. (n - 1) : q[k] \in Slots /\ q[k] # Source
    BY SlotFacts DEF IsList
  <1>2. \A k \in 0 .. MAX_THREAD : Walk(next)[k] = IF k < n THEN q[k] ELSE Source
    BY WalkAt, Zenon
  <1>3. ListEnds(next)
    BY <1>1, <1>2, SlotFacts DEF ListEnds
  <1> QED
    BY <1>1, <1>2, <1>3, SlotFacts DEF Listeners

\* Different slots fit into a table of MAX_THREAD of them.
LEMMA ListFits ==
  ASSUME NEW n \in Nat, NEW q \in [0 .. (n - 1) -> Slots],
         \A k, l \in 0 .. (n - 1) : q[k] = q[l] => k = l
  PROVE  n <= MAX_THREAD
  <1>1. q \in Injection(0 .. (n - 1), Slots)
    BY DEF Injection, IsInjective
  <1>2. Cardinality(0 .. (n - 1)) <= MAX_THREAD
    BY <1>1, SlotFacts, FS_Injection
  <1>3. Cardinality(0 .. (n - 1)) = n
    BY FS_Interval
  <1> QED
    BY <1>2, <1>3

\* A listener that is not on the list becomes its head.
LEMMA RegisterList ==
  ASSUME NEW next \in [Node -> Node], NEW n, NEW q, IsList(next, n, q), NEW i \in Slots,
         \A k \in 0 .. (n - 1) : q[k] # i
  PROVE  IsList(EvtRegister(next, i), n + 1, [k \in 0 .. n |-> IF k = 0 THEN i ELSE q[k - 1]])
  <1> DEFINE r == [k \in 0 .. n |-> IF k = 0 THEN i ELSE q[k - 1]]
             new == EvtRegister(next, i)
  <1>1. n \in Nat /\ \A k \in 0 .. (n - 1) : q[k] \in Slots
    BY SlotFacts DEF IsList
  <1>2. /\ new[Source] = i /\ new[i] = next[Source]
        /\ \A j \in Slots : j # i => new[j] = next[j]
    BY SlotFacts DEF EvtRegister, Node
  <1>3. r[0] = i /\ \A k \in 0 .. n : k # 0 => r[k] = q[k - 1] /\ k - 1 \in 0 .. (n - 1)
    BY <1>1
  <1>4. r \in [0 .. n -> Slots]
    <2>1. ASSUME NEW k \in 0 .. n PROVE (IF k = 0 THEN i ELSE q[k - 1]) \in Slots
      BY <1>1, <1>3
    <2> QED
      BY <2>1
  <1> HIDE DEF r, new
  <1>5. ASSUME NEW k \in 0 .. n, NEW l \in 0 .. n, r[k] = r[l] PROVE k = l
    BY <1>1, <1>3, <1>5 DEF IsList
  <1>6. n + 1 \in 0 .. MAX_THREAD
    <2>1. n + 1 \in Nat /\ (n + 1) - 1 = n
      BY <1>1
    <2>2. n + 1 <= MAX_THREAD
      BY <1>4, <1>5, <2>1, ListFits
    <2> QED
      BY <2>1, <2>2, SlotFacts
  <1>7. ASSUME NEW k \in 0 .. n PROVE new[r[k]] = IF k + 1 = n + 1 THEN Source ELSE r[k + 1]
    <2>1. CASE k = 0
      <3>1. n # 0 => r[1] = q[0]
        BY <1>1, <1>3
      <3>2. new[r[k]] = IF n = 0 THEN Source ELSE q[0]
        BY <1>2, <1>3, <2>1 DEF IsList
      <3> QED
        BY <1>1, <2>1, <3>1, <3>2
    <2>2. CASE k # 0
      <3>1. k - 1 \in 0 .. (n - 1) /\ r[k] = q[k - 1] /\ r[k] # i /\ r[k] \in Slots
        BY <1>1, <1>3, <1>4, <2>2
      <3>2. new[r[k]] = IF (k - 1) + 1 = n THEN Source ELSE q[(k - 1) + 1]
        BY <1>2, <3>1 DEF IsList
      <3>3. k # n => r[k + 1] = q[k]
        BY <1>1, <1>3
      <3> QED
        BY <1>1, <3>2, <3>3
    <2> QED
      BY <2>1, <2>2
  <1>8. (n + 1) - 1 = n /\ n + 1 # 0
    BY <1>1
  <1>9. IsList(new, n + 1, r)
    BY <1>2, <1>3, <1>4, <1>5, <1>6, <1>7, <1>8 DEF IsList
  <1> QED
    BY <1>9 DEF r, new

\* The list without the listener at place a.
Without(n, q, a) == [k \in 0 .. (n - 2) |-> IF k < a THEN q[k] ELSE q[k + 1]]

\* The node before the listener at place a skips it.
LEMMA UnregisterList ==
  ASSUME NEW next \in [Node -> Node], NEW n, NEW q, IsList(next, n, q),
         NEW a \in 0 .. (n - 1)
  PROVE  /\ IsList(EvtUnregister(next, q[a]), n - 1, Without(n, q, a))
         /\ EvtUnregister(next, q[a]) \in [Node -> Node]
         /\ \A i \in Slots : (\E k \in 0 .. (n - 2) : Without(n, q, a)[k] = i)
                             <=> i # q[a] /\ \E k \in 0 .. (n - 1) : q[k] = i
  <1> DEFINE r == Without(n, q, a)
             new == EvtUnregister(next, q[a])
             before == IF a = 0 THEN Source ELSE q[a - 1]
  <1>1. /\ n \in Nat /\ n - 1 \in Nat /\ a \in Nat /\ a < n /\ n <= MAX_THREAD
        /\ \A k \in 0 .. (n - 1) : q[k] \in Slots /\ q[k] # Source
    BY SlotFacts DEF IsList
  <1>2. \A k, l \in 0 .. (n - 1) : q[k] = q[l] => k = l
    BY DEF IsList
  <1>3. Min({k \in 0 .. MAX_THREAD : Walk(next)[k] = q[a]}) = a
    <2>1. \A k \in 0 .. MAX_THREAD : Walk(next)[k] = IF k < n THEN q[k] ELSE Source
      BY WalkAt, Zenon
    <2>2. {k \in 0 .. MAX_THREAD : Walk(next)[k] = q[a]} = {a}
      BY <1>1, <1>2, <2>1, SlotFacts
    <2>3. Min({a}) = a
      BY <1>1, MinFacts
    <2> QED
      BY <2>2, <2>3
  <1>4. a # 0 => Walk(next)[a - 1] = q[a - 1]
    BY <1>1, ListWalk, SlotFacts
  <1>5. q[a] \in Listeners(next)
    BY ListFacts
  <1>6. new = [next EXCEPT ![before] = next[q[a]]]
    BY <1>3, <1>4, <1>5 DEF EvtUnregister
  <1>7. before \in Node /\ next[q[a]] \in Node
    BY <1>1 DEF Node
  <1>8. /\ new \in [Node -> Node] /\ new[before] = next[q[a]]
        /\ \A j \in Node : j # before => new[j] = next[j]
    BY <1>6, <1>7
  <1>9. \A k \in 0 .. (n - 2) : /\ k \in 0 .. (n - 1) /\ k + 1 \in 0 .. (n - 1)
                               /\ r[k] = IF k < a THEN q[k] ELSE q[k + 1]
    BY <1>1 DEF Without
  <1>10. r \in [0 .. (n - 2) -> Slots]
    <2>1. ASSUME NEW k \in 0 .. (n - 2) PROVE (IF k < a THEN q[k] ELSE q[k + 1]) \in Slots
      BY <1>1, <1>9
    <2> QED
      BY <2>1 DEF Without
  <1> HIDE DEF r, new
  <1>11. ASSUME NEW k \in 0 .. (n - 2), NEW l \in 0 .. (n - 2), r[k] = r[l] PROVE k = l
    BY <1>1, <1>2, <1>9, <1>11
  <1>12. next[q[a]] = IF a + 1 = n THEN Source ELSE q[a + 1]
    BY DEF IsList
  <1>13. new[Source] = IF n - 1 = 0 THEN Source ELSE r[0]
    <2>1. CASE a = 0
      <3>1. new[Source] = IF n = 1 THEN Source ELSE q[1]
        BY <1>1, <1>8, <1>12, <2>1
      <3>2. n # 1 => r[0] = q[1]
        BY <1>1, <1>9, <2>1
      <3> QED
        BY <1>1, <3>1, <3>2
    <2>2. CASE a # 0
      <3>1. before # Source /\ Source \in Node /\ n # 1 /\ 0 \in 0 .. (n - 2)
        BY <1>1, <2>2 DEF Node
      <3>2. new[Source] = q[0]
        BY <1>1, <1>8, <3>1 DEF IsList
      <3>3. r[0] = q[0]
        BY <1>1, <1>9, <2>2, <3>1
      <3> QED
        BY <1>1, <3>1, <3>2, <3>3
    <2> QED
      BY <2>1, <2>2
  <1>14. ASSUME NEW k \in 0 .. (n - 2)
         PROVE  new[r[k]] = IF k + 1 = n - 1 THEN Source ELSE r[k + 1]
    <2>1. k + 1 # n - 1 => k + 1 \in 0 .. (n - 2)
      BY <1>1
    <2>2. CASE k + 1 < a
      <3>1. r[k] = q[k] /\ r[k + 1] = q[k + 1] /\ k + 1 # n - 1 /\ q[k] # before /\ q[k] \in Node
        BY <1>1, <1>2, <1>9, <2>1, <2>2 DEF Node
      <3>2. next[q[k]] = q[k + 1]
        BY <1>1, <1>9, <2>2 DEF IsList
      <3> QED
        BY <1>8, <3>1, <3>2
    <2>3. CASE k + 1 = a
      <3>1. r[k] = q[k] /\ q[k] = before
        BY <1>1, <1>9, <2>3
      <3>2. new[r[k]] = IF a + 1 = n THEN Source ELSE q[a + 1]
        BY <1>8, <1>12, <3>1
      <3>3. k + 1 # n - 1 => r[k + 1] = q[k + 2]
        BY <1>1, <1>9, <2>1, <2>3
      <3> QED
        BY <1>1, <2>3, <3>2, <3>3
    <2>4. CASE k + 1 > a
      <3>1. r[k] = q[k + 1] /\ q[k + 1] # before /\ q[k + 1] \in Node
        BY <1>1, <1>2, <1>9, <2>4 DEF Node
      <3>2. next[q[k + 1]] = IF (k + 1) + 1 = n THEN Source ELSE q[(k + 1) + 1]
        BY <1>9 DEF IsList
      <3>3. k + 1 # n - 1 => r[k + 1] = q[(k + 1) + 1]
        BY <1>1, <1>9, <2>1, <2>4
      <3> QED
        BY <1>1, <1>8, <3>1, <3>2, <3>3
    <2> QED
      BY <1>1, <2>2, <2>3, <2>4
  <1>15. (n - 1) - 1 = n - 2 /\ n - 1 \in 0 .. MAX_THREAD
    BY <1>1, SlotFacts
  <1>16. IsList(new, n - 1, r)
    BY <1>10, <1>11, <1>13, <1>14, <1>15 DEF IsList
  <1>17. ASSUME NEW i
         PROVE  (\E k \in 0 .. (n - 2) : r[k] = i)
                  <=> i # q[a] /\ \E k \in 0 .. (n - 1) : q[k] = i
    <2>1. ASSUME NEW k \in 0 .. (n - 2), r[k] = i
          PROVE  i # q[a] /\ \E l \in 0 .. (n - 1) : q[l] = i
      BY <1>1, <1>2, <1>9, <2>1
    <2>2. ASSUME NEW k \in 0 .. (n - 1), q[k] = i, i # q[a]
          PROVE  \E l \in 0 .. (n - 2) : r[l] = i
      <3>1. CASE k < a
        BY <1>1, <1>9, <2>2, <3>1
      <3>2. CASE k > a
        <4>1. k - 1 \in 0 .. (n - 2) /\ r[k - 1] = q[k]
          BY <1>1, <1>9, <3>2
        <4> QED
          BY <2>2, <4>1
      <3> QED
        BY <1>1, <2>2, <3>1, <3>2
    <2> QED
      BY <2>1, <2>2
  <1> QED
    BY <1>8, <1>16, <1>17 DEF r, new

-----------------------------------------------------------------------------
(* A list that does not end.                                               *)

\* From the source the links lead into C and never out of it.
Closed(next, C) == /\ C \in SUBSET Slots
                   /\ next[Source] \in C
                   /\ \A i \in C : next[i] \in C

\* Then the walk goes on for ever.
LEMMA ClosedNeverEnds ==
  ASSUME NEW next \in [Node -> Node], NEW C, Closed(next, C)
  PROVE  ~ ListEnds(next)
  <1> DEFINE f == Walk(next)
             T == {k \in 0 .. MAX_THREAD : f[k] \notin C}
  <1>1. IsWalkTo(next, MAX_THREAD, f)
    BY WalkExists
  <1> HIDE DEF f
  <1>2. Source \notin C
    BY SlotFacts DEF Closed
  <1>3. T = {}
    <2> SUFFICES ASSUME T # {} PROVE FALSE
      OBVIOUS
    <2>1. T \in SUBSET Nat
      BY SlotFacts
    <2>2. PICK m \in T : \A n \in T : m <= n
      BY <2>1, LeastNatural
    <2>3. m \in 0 .. MAX_THREAD /\ m \in Nat
      BY SlotFacts
    <2>4. m # 0
      BY <1>1 DEF IsWalkTo, Closed
    <2>5. m - 1 \in 0 .. MAX_THREAD /\ m - 1 \notin T
      BY <2>2, <2>3, <2>4, SlotFacts
    <2>6. f[m - 1] \in C /\ f[m - 1] # Source
      BY <1>2, <2>5
    <2>7. f[m] = next[f[m - 1]]
      BY <1>1, <2>3, <2>4, <2>6 DEF IsWalkTo
    <2> QED
      BY <2>6, <2>7 DEF Closed
  <1>4. f[MAX_THREAD] \in C
    BY <1>3, SlotFacts
  <1> QED
    BY <1>2, <1>4 DEF ListEnds, f

\* Another listener at its head does not change that.
LEMMA RegisterClosed ==
  ASSUME NEW next \in [Node -> Node], NEW C, Closed(next, C), NEW i \in Slots
  PROVE  Closed(EvtRegister(next, i), C \cup {i})
  <1>1. C \subseteq Slots /\ Slots \subseteq Node /\ Source \in Node
    BY DEF Closed, Node
  <1>2. /\ EvtRegister(next, i)[Source] = i /\ EvtRegister(next, i)[i] = next[Source]
        /\ \A j \in Slots : j # i => EvtRegister(next, i)[j] = next[j]
    BY <1>1, SlotFacts DEF EvtRegister
  <1> QED
    BY <1>1, <1>2 DEF Closed

\* A listener that is registered while it is on the list closes it.
LEMMA RegisterAgain ==
  ASSUME NEW next \in [Node -> Node], NEW n, NEW q, IsList(next, n, q), NEW a \in 0 .. (n - 1)
  PROVE  Closed(EvtRegister(next, q[a]), {q[k] : k \in 0 .. a})
  <1> DEFINE new == EvtRegister(next, q[a])
  <1>1. n \in Nat /\ a \in Nat /\ a < n /\ \A k \in 0 .. (n - 1) : q[k] \in Slots
    BY SlotFacts DEF IsList
  <1>2. \A k \in 0 .. a : k \in 0 .. (n - 1)
    BY <1>1
  <1>3. /\ new[Source] = q[a] /\ new[q[a]] = next[Source]
        /\ \A j \in Slots : j # q[a] => new[j] = next[j]
    BY <1>1, SlotFacts DEF EvtRegister, Node
  <1> HIDE DEF new
  <1>4. new[q[a]] = q[0] /\ 0 \in 0 .. a /\ a \in 0 .. a
    BY <1>1, <1>3 DEF IsList
  <1>5. ASSUME NEW k \in 0 .. a PROVE new[q[k]] \in {q[l] : l \in 0 .. a}
    <2>1. CASE q[k] = q[a]
      BY <1>4, <2>1
    <2>2. CASE q[k] # q[a]
      <3>1. k + 1 \in 0 .. a /\ k + 1 # n
        BY <1>1, <2>2
      <3>2. new[q[k]] = q[k + 1]
        BY <1>1, <1>2, <1>3, <2>2, <3>1 DEF IsList
      <3> QED
        BY <3>1, <3>2
    <2> QED
      BY <2>1, <2>2
  <1> QED
    BY <1>1, <1>2, <1>3, <1>4, <1>5 DEF Closed, new
=============================================================================
