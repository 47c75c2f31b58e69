------------------------- MODULE PotRingbufferProof -------------------------
(***************************************************************************)
(* For every capacity and every set of packets: the ring buffer keeps its  *)
(* cursors consistent and implements the bounded double-ended queue.       *)
(***************************************************************************)
EXTENDS PotRingbuffer, TLAPS

-----------------------------------------------------------------------------
(* Remainders, over the ranges the cursors and cells actually take.        *)

\* A remainder of a number less than three times the modulus, or just below 0.
LEMMA ModValue ==
  ASSUME NEW c \in Nat \ {0}, NEW a \in Int, -c <= a, a < 3 * c
  PROVE  a % c = IF a < 0 THEN a + c
                 ELSE IF a < c THEN a
                 ELSE IF a < 2 * c THEN a - c ELSE a - 2 * c
<1>1. CASE a < 0
  BY <1>1, SMT
<1>2. CASE 0 <= a /\ a < c
  BY <1>2, SMT
<1>3. CASE c <= a /\ a < 2 * c
  BY <1>3, SMT
<1>4. CASE 2 * c <= a
  BY <1>4, SMT
<1>5. QED
  BY <1>1, <1>2, <1>3, <1>4

\* Incrementing and decrementing a cursor wraps at twice the capacity.
LEMMA StepValue ==
  ASSUME NEW x \in Cursor
  PROVE  /\ Incr(x) = IF x = 2 * Capacity - 1 THEN 0 ELSE x + 1
         /\ Decr(x) = IF x = 0 THEN 2 * Capacity - 1 ELSE x - 1
         /\ Incr(x) \in Cursor
         /\ Decr(x) \in Cursor
<1> DEFINE c == 2 * Capacity
<1>1. c \in Nat \ {0} /\ 2 <= c /\ x \in 0 .. (c - 1)
  BY CapacityAssumption DEF Cursor
<1>2. Incr(x) = IF x = 2 * Capacity - 1 THEN 0 ELSE x + 1
  <2>1. (x + 1) % c = IF x + 1 < c THEN x + 1 ELSE x + 1 - c
    <3> HIDE DEF c
    <3>1. CASE x + 1 < c
      BY <1>1, <3>1, SMT
    <3>2. CASE x + 1 = c
      BY <1>1, <3>2, SMT
    <3>3. QED
      BY <1>1, <3>1, <3>2
  <2>2. QED
    BY <2>1, CapacityAssumption DEF Incr, Cursor
<1>3. Decr(x) = IF x = 0 THEN 2 * Capacity - 1 ELSE x - 1
  <2>1. (x - 1) % c = IF x - 1 < 0 THEN x - 1 + c ELSE x - 1
    <3> HIDE DEF c
    <3>1. CASE x - 1 >= 0
      BY <1>1, <3>1, SMT
    <3>2. CASE x - 1 = -1
      BY <1>1, <3>2, SMT
    <3>3. QED
      BY <1>1, <3>1, <3>2
  <2>2. QED
    BY <2>1, CapacityAssumption DEF Decr, Cursor
<1>4. QED
  BY <1>2, <1>3, CapacityAssumption DEF Cursor

\* The cell of a cursor plus an offset below the capacity.
LEMMA CellValue ==
  ASSUME NEW x \in Int, -1 <= x, x < 3 * Capacity
  PROVE  /\ WrappedAccess(x) = IF x < 0 THEN x + Capacity
                               ELSE IF x < Capacity THEN x
                               ELSE IF x < 2 * Capacity THEN x - Capacity
                               ELSE x - 2 * Capacity
         /\ WrappedAccess(x) \in Cell
<1>1. -Capacity <= x
  BY CapacityAssumption
<1>2. x % Capacity = IF x < 0 THEN x + Capacity
                     ELSE IF x < Capacity THEN x
                     ELSE IF x < 2 * Capacity THEN x - Capacity
                     ELSE x - 2 * Capacity
  BY <1>1, ModValue, CapacityAssumption, Zenon
<1>3. QED
  BY <1>1, <1>2, CapacityAssumption DEF WrappedAccess, Cell

\* The cursor that lies n steps after b, round the doubled range.
Ahead(b, n) == IF b + n < 2 * Capacity THEN b + n ELSE b + n - 2 * Capacity

\* The cell just before the cursor n steps ahead is the n-th cell from b.
LEMMA BackCell ==
  ASSUME NEW b \in Cursor, NEW n \in 1 .. Capacity
  PROVE  WrappedAccess(Ahead(b, n) - 1) = WrappedAccess(b + (n - 1))
<1>1. /\ b \in Nat /\ n \in Nat /\ Capacity \in Nat \ {0}
      /\ b < 2 * Capacity /\ 1 <= n /\ n <= Capacity
  BY CapacityAssumption DEF Cursor
<1>2. CASE b + n < 2 * Capacity
  <2>1. Ahead(b, n) - 1 = b + (n - 1)
    BY <1>1, <1>2 DEF Ahead
  <2>2. QED
    BY <2>1
<1>3. CASE b + n >= 2 * Capacity
  <2> DEFINE x == Ahead(b, n) - 1
             y == b + (n - 1)
  <2>1. x \in Int /\ y \in Int /\ y = x + 2 * Capacity /\ -1 <= x /\ x < Capacity
    BY <1>1, <1>3 DEF Ahead
  <2> HIDE DEF x, y
  <2>2. /\ WrappedAccess(x) = IF x < 0 THEN x + Capacity ELSE x
        /\ WrappedAccess(y) = IF y < 2 * Capacity THEN y - Capacity ELSE y - 2 * Capacity
    BY <1>1, <2>1, CellValue
  <2>3. WrappedAccess(x) = WrappedAccess(y)
    BY <1>1, <2>1, <2>2
  <2>4. QED
    BY <2>3 DEF x, y
<1>4. QED
  BY <1>1, <1>2, <1>3

\* Two different offsets below the capacity stand for two different cells.
LEMMA DistinctCells ==
  ASSUME NEW b \in Cursor, NEW i \in Cell, NEW j \in Cell, i # j
  PROVE  WrappedAccess(b + i) # WrappedAccess(b + j)
<1> DEFINE x == b + i
           y == b + j
<1>1. /\ b \in Nat /\ Capacity \in Nat \ {0} /\ x \in Nat /\ y \in Nat /\ x # y
      /\ x < 3 * Capacity /\ y < 3 * Capacity
      /\ x - y < Capacity /\ y - x < Capacity
  BY CapacityAssumption DEF Cursor, Cell
<1> HIDE DEF x, y
<1>2. /\ WrappedAccess(x) = IF x < Capacity THEN x
                            ELSE IF x < 2 * Capacity THEN x - Capacity
                            ELSE x - 2 * Capacity
      /\ WrappedAccess(y) = IF y < Capacity THEN y
                            ELSE IF y < 2 * Capacity THEN y - Capacity
                            ELSE y - 2 * Capacity
  BY <1>1, CellValue
<1>3. WrappedAccess(x) # WrappedAccess(y)
  BY <1>1, <1>2
<1>4. QED
  BY <1>3 DEF x, y

\* Moving the cursor forward by one moves every offset's cell by one.
LEMMA ShiftedCell ==
  ASSUME NEW b \in Cursor, NEW i \in Cell
  PROVE  WrappedAccess(Incr(b) + i) = WrappedAccess(b + (i + 1))
<1>1. CASE b # 2 * Capacity - 1
  <2>1. Incr(b) + i = b + (i + 1)
    BY <1>1, StepValue, CapacityAssumption DEF Cursor, Cell
  <2>2. QED
    BY <2>1
<1>2. CASE b = 2 * Capacity - 1
  <2>1. Incr(b) + i = i /\ b + (i + 1) = i + 2 * Capacity
    BY <1>2, StepValue, CapacityAssumption DEF Cursor, Cell
  <2> DEFINE y == i + 2 * Capacity
  <2>2. /\ i \in Nat /\ i < Capacity /\ Capacity \in Nat \ {0}
        /\ y \in Int /\ y = i + 2 * Capacity
    BY CapacityAssumption DEF Cell
  <2> HIDE DEF y
  <2>3. WrappedAccess(i) = i /\ WrappedAccess(y) = y - 2 * Capacity
    BY <2>2, CellValue
  <2>4. QED
    BY <2>1, <2>2, <2>3 DEF y
<1>3. QED
  BY <1>1, <1>2

-----------------------------------------------------------------------------
(* The inductive invariant: the cursors are in range and their distance,   *)
(* counted round the doubled range, is at most the capacity.               *)

\* The distance from mBegin to mEnd round the doubled cursor range.
Dist == IF mBegin <= mEnd THEN mEnd - mBegin ELSE mEnd - mBegin + 2 * Capacity

IInv == TypeOK /\ Dist <= Capacity

\* What potRingbufferSize computes is that distance.
LEMMA SizeIsDist ==
  ASSUME IInv
  PROVE  /\ Size = Dist
         /\ Dist \in 0 .. Capacity
         /\ Full <=> Dist = Capacity
         /\ Empty <=> Dist = 0
<1> USE CapacityAssumption DEF IInv, TypeOK, Cursor, Dist
<1>1. Dist \in 0 .. Capacity
  OBVIOUS
<1>2. Full <=> Dist = Capacity
  BY DEF Full, FlipWrapBit
<1>3. Empty <=> Dist = 0
  BY DEF Empty
<1>4. Size = Dist
  <2>1. CASE Full
    BY <2>1, <1>2 DEF Size
  <2>2. CASE ~ Full
    <3>1. (mEnd - mBegin) % Capacity = Dist
      <4>1. CASE mBegin <= mEnd
        <5>1. mEnd - mBegin \in Int /\ 0 <= mEnd - mBegin /\ mEnd - mBegin < Capacity
          BY <4>1, <1>1, <1>2, <2>2
        <5>2. QED
          BY <5>1, <4>1, SMT
      <4>2. CASE mEnd < mBegin
        <5>1. /\ mEnd - mBegin \in Int
              /\ -(2 * Capacity) < mEnd - mBegin
              /\ mEnd - mBegin < -Capacity
          BY <4>2, <1>1, <1>2, <2>2
        <5>2. (mEnd - mBegin) % Capacity = mEnd - mBegin + 2 * Capacity
          BY <5>1, SMT
        <5>3. QED
          BY <5>2, <4>2
      <4>3. QED
        BY <4>1, <4>2
    <3>2. QED
      BY <3>1, <2>2 DEF Size
  <2>3. QED
    BY <2>1, <2>2
<1>5. QED
  BY <1>1, <1>2, <1>3, <1>4

-----------------------------------------------------------------------------
(* One lemma per operation: the new size, the invariant, and the cells.    *)

\* The invariant holds after potRingbufferInit.
LEMMA InitIInv == Init => IInv
  BY CapacityAssumption DEF Init, IInv, TypeOK, Cursor, Dist

\* potRingbufferPushBack keeps the cursors at most Capacity apart.
LEMMA PushBackStep ==
  ASSUME IInv, NEW e \in Elem, PushBack(e)
  PROVE  /\ IInv'
         /\ Dist' = IF Dist = Capacity THEN Capacity ELSE Dist + 1
<1>1. Full <=> Dist = Capacity
  BY SizeIsDist
<1>2. /\ Incr(mBegin) = IF mBegin = 2 * Capacity - 1 THEN 0 ELSE mBegin + 1
      /\ Incr(mEnd) = IF mEnd = 2 * Capacity - 1 THEN 0 ELSE mEnd + 1
  BY StepValue DEF IInv, TypeOK
<1>3. WrappedAccess(mEnd' - 1) \in Cell
  BY <1>2, CellValue, CapacityAssumption DEF PushBack, IInv, TypeOK, Cursor
<1>4. mData' \in [Cell -> Elem]
  BY <1>3 DEF PushBack, IInv, TypeOK
<1>5. QED
  BY <1>1, <1>2, <1>4, CapacityAssumption DEF PushBack, IInv, TypeOK, Cursor, Dist

\* potRingbufferPushFront keeps the cursors at most Capacity apart.
LEMMA PushFrontStep ==
  ASSUME IInv, NEW e \in Elem, PushFront(e)
  PROVE  /\ IInv'
         /\ Dist' = IF Dist = Capacity THEN Capacity ELSE Dist + 1
<1>1. Full <=> Dist = Capacity
  BY SizeIsDist
<1>2. /\ Decr(mBegin) = IF mBegin = 0 THEN 2 * Capacity - 1 ELSE mBegin - 1
      /\ Decr(mEnd) = IF mEnd = 0 THEN 2 * Capacity - 1 ELSE mEnd - 1
  BY StepValue DEF IInv, TypeOK
<1>3. WrappedAccess(mBegin') \in Cell
  BY <1>2, CellValue, CapacityAssumption DEF PushFront, IInv, TypeOK, Cursor
<1>4. mData' \in [Cell -> Elem]
  BY <1>3 DEF PushFront, IInv, TypeOK
<1>5. QED
  BY <1>1, <1>2, <1>4, CapacityAssumption DEF PushFront, IInv, TypeOK, Cursor, Dist

\* potRingbufferPopFront moves begin no further than end.
LEMMA PopFrontStep ==
  ASSUME IInv, PopFront
  PROVE  IInv' /\ Dist > 0 /\ Dist' = Dist - 1
<1>1. Dist > 0
  BY SizeIsDist DEF PopFront
<1>2. Incr(mBegin) = IF mBegin = 2 * Capacity - 1 THEN 0 ELSE mBegin + 1
  BY StepValue DEF IInv, TypeOK
<1>3. QED
  BY <1>1, <1>2, CapacityAssumption DEF PopFront, IInv, TypeOK, Cursor, Dist

\* potRingbufferPopBack moves end no further than begin.
LEMMA PopBackStep ==
  ASSUME IInv, PopBack
  PROVE  IInv' /\ Dist > 0 /\ Dist' = Dist - 1
<1>1. Dist > 0
  BY SizeIsDist DEF PopBack
<1>2. Decr(mEnd) = IF mEnd = 0 THEN 2 * Capacity - 1 ELSE mEnd - 1
  BY StepValue DEF IInv, TypeOK
<1>3. QED
  BY <1>1, <1>2, CapacityAssumption DEF PopBack, IInv, TypeOK, Cursor, Dist

\* potRingbufferInit on a buffer in use re-establishes the invariant.
LEMMA ClearStep ==
  ASSUME IInv, Clear
  PROVE  IInv' /\ Dist' = 0
  BY CapacityAssumption DEF Clear, IInv, TypeOK, Cursor, Dist

\* Every operation preserves the invariant.
LEMMA NextIInv == IInv /\ [Next]_vars => IInv'
<1> SUFFICES ASSUME IInv, [Next]_vars PROVE IInv'
  OBVIOUS
<1>1. CASE Clear
  BY <1>1, ClearStep
<1>2. CASE \E e \in Elem : PushBack(e)
  BY <1>2, PushBackStep
<1>3. CASE \E e \in Elem : PushFront(e)
  BY <1>3, PushFrontStep
<1>4. CASE PopFront
  BY <1>4, PopFrontStep
<1>5. CASE PopBack
  BY <1>5, PopBackStep
<1>6. CASE UNCHANGED vars
  BY <1>6 DEF vars, IInv, TypeOK, Dist
<1>7. QED
  BY <1>1, <1>2, <1>3, <1>4, <1>5, <1>6 DEF Next

\* The invariant holds throughout.
LEMMA IInvAlways == Spec => []IInv
  BY InitIInv, NextIInv, PTL DEF Spec

\* The cursors and the cells never leave their ranges, whatever the capacity
\* (potRingbufferAdd's mask, potRingbufferWrappedAccess's mask).
THEOREM TypeCorrect == Spec => []TypeOK
<1>1. IInv => TypeOK
  BY DEF IInv
<1>2. QED
  BY <1>1, IInvAlways, PTL

\* potRingbufferSize, potRingbufferEmpty and potRingbufferFull agree with each
\* other and with the distance between the cursors, whatever the capacity.
THEOREM SizeIsConsistent == Spec => []SizeConsistent
<1>1. IInv => SizeConsistent
  <2> SUFFICES ASSUME IInv PROVE SizeConsistent
    OBVIOUS
  <2> DEFINE c == 2 * Capacity
  <2>1. /\ Size = Dist
        /\ Dist \in 0 .. Capacity
        /\ Full <=> Dist = Capacity
        /\ Empty <=> Dist = 0
    BY SizeIsDist
  <2>2. /\ c \in Nat \ {0}
        /\ mBegin \in 0 .. (c - 1)
        /\ mEnd \in 0 .. (c - 1)
        /\ mBegin + Dist = IF mBegin <= mEnd THEN mEnd ELSE mEnd + c
    BY CapacityAssumption DEF IInv, TypeOK, Cursor, Dist
  <2>3. mEnd = (mBegin + Dist) % c
    <3> HIDE DEF c
    <3>1. CASE mBegin <= mEnd
      BY <2>2, <3>1, SMT
    <3>2. CASE mEnd < mBegin
      BY <2>2, <3>2, SMT
    <3>3. QED
      BY <2>2, <3>1, <3>2
  <2>4. QED
    BY <2>1, <2>3 DEF SizeConsistent
<1>2. QED
  BY <1>1, IInvAlways, PTL

-----------------------------------------------------------------------------
(* Refinement: the live cells, read from mBegin, are the queue.            *)

\* The contents, spelled out: a sequence of Dist packets read from mBegin on.
View == /\ Contents = [i \in 1 .. Dist |-> mData[WrappedAccess(mBegin + (i - 1))]]
        /\ Contents \in Seq(Elem)
        /\ Len(Contents) = Dist
        /\ Dist \in 0 .. Capacity

\* The live cells form a sequence of packets of at most Capacity.
LEMMA ContentsIsSeq == IInv => View
<1> SUFFICES ASSUME IInv PROVE View
  OBVIOUS
<1>1. Size = Dist /\ Dist \in 0 .. Capacity /\ Dist \in Nat
  BY SizeIsDist, CapacityAssumption
<1>2. Contents = [i \in 1 .. Dist |-> mData[WrappedAccess(mBegin + (i - 1))]]
  BY <1>1 DEF Contents, At
<1>3. \A i \in 1 .. Dist : mData[WrappedAccess(mBegin + (i - 1))] \in Elem
  <2> TAKE i \in 1 .. Dist
  <2>1. WrappedAccess(mBegin + (i - 1)) \in Cell
    BY <1>1, CellValue, CapacityAssumption DEF IInv, TypeOK, Cursor
  <2>2. QED
    BY <2>1 DEF IInv, TypeOK
<1>4. QED
  BY <1>1, <1>2, <1>3 DEF View

\* Bookkeeping about indices and about dropping the first element.
LEMMA IndexCell ==
  ASSUME NEW n \in 1 .. Capacity, NEW i \in 1 .. (n - 1)
  PROVE  i - 1 \in Cell /\ n - 1 \in Cell /\ i - 1 # n - 1 /\ i \in 1 .. n
  BY CapacityAssumption DEF Cell

\* What dropping the oldest packet leaves.
LEMMA TailFacts ==
  ASSUME NEW S, NEW s \in Seq(S), Len(s) > 0
  PROVE  /\ Tail(s) \in Seq(S)
         /\ Len(Tail(s)) = Len(s) - 1
         /\ \A i \in 1 .. (Len(s) - 1) : Tail(s)[i] = s[i + 1]
  OBVIOUS

\* A function that agrees with q and then holds e is q with e appended.
LEMMA IsAppend ==
  ASSUME NEW S, NEW s \in Seq(S), NEW t \in Seq(S), NEW e \in S,
         Len(t) = Len(s) + 1, t[Len(t)] = e,
         \A i \in 1 .. Len(s) : t[i] = s[i]
  PROVE  t = Append(s, e)
  OBVIOUS

\* A function that holds e and then agrees with q is q with e in front.
LEMMA IsPrepend ==
  ASSUME NEW S, NEW s \in Seq(S), NEW t \in Seq(S), NEW e \in S,
         Len(t) = Len(s) + 1, t[1] = e,
         \A i \in 1 .. Len(s) : t[i + 1] = s[i]
  PROVE  t = <<e>> \o s
<1>1. \A i \in 1 .. Len(t) : t[i] = (<<e>> \o s)[i]
  <2> TAKE i \in 1 .. Len(t)
  <2>1. CASE i = 1
    BY <2>1
  <2>2. CASE i # 1
    <3>1. i - 1 \in 1 .. Len(s) /\ i = (i - 1) + 1
      BY <2>2
    <3>2. t[i] = s[i - 1]
      BY <3>1
    <3>3. (<<e>> \o s)[i] = s[i - 1]
      BY <2>2, <3>1
    <3>4. QED
      BY <3>2, <3>3
  <2>3. QED
    BY <2>1, <2>2
<1>2. <<e>> \o s \in Seq(S) /\ Len(<<e>> \o s) = Len(t)
  OBVIOUS
<1>3. QED
  BY <1>1, <1>2

\* End is Dist steps ahead of begin.
LEMMA EndIsAhead == IInv => mEnd = Ahead(mBegin, Dist)
  BY CapacityAssumption DEF IInv, TypeOK, Cursor, Dist, Ahead

\* Pushing at the back is PushBack of the abstract queue, full or not.
LEMMA PushBackRefines ==
  ASSUME IInv, NEW e \in Elem, PushBack(e)
  PROVE  History!PushBack(e)
<1> DEFINE old(i) == mData[WrappedAccess(mBegin + (i - 1))]
           new(i) == mData'[WrappedAccess(mBegin' + (i - 1))]
           base == IF Len(Contents) = Capacity THEN Tail(Contents) ELSE Contents
<1>1. IInv' /\ Dist' = IF Dist = Capacity THEN Capacity ELSE Dist + 1
  BY PushBackStep
<1>2. /\ Contents = [i \in 1 .. Dist |-> old(i)]
      /\ Contents \in Seq(Elem)
      /\ Len(Contents) = Dist
      /\ Dist \in 0 .. Capacity
  BY ContentsIsSeq DEF View
<1>3. View' /\ mEnd' = Ahead(mBegin', Dist')
  <2>1. View'
    BY <1>1, ContentsIsSeq, PTL
  <2>2. (mEnd = Ahead(mBegin, Dist))'
    BY <1>1, EndIsAhead, PTL
  <2>3. QED
    BY <2>1, <2>2 DEF Ahead
<1>4. /\ Contents' = [i \in 1 .. Dist' |-> new(i)]
      /\ Contents' \in Seq(Elem)
      /\ Len(Contents') = Dist'
  BY <1>3 DEF View
<1>5. /\ mBegin \in Cursor
      /\ mBegin' \in Cursor
      /\ mBegin' = IF Dist = Capacity THEN Incr(mBegin) ELSE mBegin
      /\ Dist' \in 1 .. Capacity
      /\ Len(base) = Dist' - 1
      /\ base \in Seq(Elem)
  <2>1. mBegin \in Cursor /\ mBegin' \in Cursor
    BY <1>1 DEF IInv, TypeOK
  <2>2. mBegin' = IF Dist = Capacity THEN Incr(mBegin) ELSE mBegin
    BY SizeIsDist DEF PushBack
  <2>3. Dist' \in 1 .. Capacity
    BY <1>1, <1>2, CapacityAssumption
  <2>4. base \in Seq(Elem) /\ Len(base) = Dist' - 1
    <3>1. CASE Dist = Capacity
      <4>1. base = Tail(Contents) /\ Len(Contents) > 0
        BY <1>2, <3>1, CapacityAssumption
      <4>2. Len(Contents) = Dist'
        BY <1>1, <1>2, <3>1
      <4>3. QED
        BY <1>2, <4>1, <4>2, TailFacts
    <3>2. CASE Dist # Capacity
      <4>1. base = Contents
        BY <1>2, <3>2
      <4>2. Dist' - 1 = Dist
        BY <1>1, <1>2, <3>2, CapacityAssumption
      <4>3. QED
        BY <1>2, <4>1, <4>2
    <3>3. QED
      BY <3>1, <3>2
  <2>5. QED
    BY <2>1, <2>2, <2>3, <2>4
<1>6. WrappedAccess(mEnd' - 1) = WrappedAccess(mBegin' + (Dist' - 1))
  BY <1>3, <1>5, BackCell
<1>7. /\ mData' = [mData EXCEPT ![WrappedAccess(mBegin' + (Dist' - 1))] = e]
      /\ mData \in [Cell -> Elem]
  BY <1>6 DEF PushBack, IInv, TypeOK
<1>8. \A i \in 1 .. Dist' : WrappedAccess(mBegin' + (i - 1)) \in Cell
  BY <1>5, CellValue, CapacityAssumption DEF Cursor
<1>9. new(Dist') = e
  BY <1>5, <1>7, <1>8
<1>10. \A i \in 1 .. (Dist' - 1) : new(i) = base[i]
  <2> TAKE i \in 1 .. (Dist' - 1)
  <2>1. i - 1 \in Cell /\ Dist' - 1 \in Cell /\ i - 1 # Dist' - 1 /\ i \in 1 .. Dist'
    BY <1>5, IndexCell
  <2>2. WrappedAccess(mBegin' + (i - 1)) # WrappedAccess(mBegin' + (Dist' - 1))
    BY <1>5, <2>1, DistinctCells
  <2>3. new(i) = mData[WrappedAccess(mBegin' + (i - 1))]
    BY <1>7, <1>8, <2>1, <2>2
  <2>4. CASE Dist = Capacity
    <3>1. WrappedAccess(mBegin' + (i - 1)) = WrappedAccess(mBegin + ((i - 1) + 1))
      BY <1>5, <2>1, <2>4, ShiftedCell
    <3>2. (i - 1) + 1 = (i + 1) - 1
      OBVIOUS
    <3>3. base[i] = old(i + 1)
      BY <1>1, <1>2, <2>4, CapacityAssumption
    <3>4. QED
      BY <2>3, <3>1, <3>2, <3>3
  <2>5. CASE Dist # Capacity
    BY <1>1, <1>2, <1>5, <2>3, <2>5
  <2>6. QED
    BY <2>4, <2>5
<1>11. Contents' = Append(base, e)
  <2>1. /\ Contents' \in Seq(Elem)
        /\ Len(Contents') = Len(base) + 1
        /\ Contents'[Len(Contents')] = e
        /\ \A i \in 1 .. Len(base) : Contents'[i] = base[i]
    <3>1. \A i \in 1 .. Dist' : Contents'[i] = new(i)
      BY <1>4
    <3>2. Dist' \in 1 .. Capacity /\ Len(base) = Dist' - 1
      BY <1>5
    <3>3. Contents'[Dist'] = e
      BY <1>9, <3>1, <3>2, CapacityAssumption
    <3>4. \A i \in 1 .. Len(base) : Contents'[i] = base[i]
      <4> TAKE i \in 1 .. Len(base)
      <4>1. i \in 1 .. (Dist' - 1)
        BY <3>2
      <4>2. i \in 1 .. Dist'
        BY <3>2, <4>1, IndexCell
      <4>3. QED
        BY <1>10, <3>1, <4>1, <4>2
    <3>5. Len(Contents') = Len(base) + 1
      BY <1>4, <3>2, CapacityAssumption
    <3>6. QED
      BY <1>4, <3>3, <3>4, <3>5
  <2>2. QED
    BY <1>5, <2>1, IsAppend
<1>12. QED
  BY <1>11 DEF History!PushBack

\* Popping at the front is PopFront of the abstract queue.
LEMMA PopFrontRefines ==
  ASSUME IInv, PopFront
  PROVE  History!PopFront
<1> DEFINE old(i) == mData[WrappedAccess(mBegin + (i - 1))]
           new(i) == mData'[WrappedAccess(mBegin' + (i - 1))]
<1>1. IInv' /\ Dist > 0 /\ Dist' = Dist - 1
  BY PopFrontStep
<1>2. /\ Contents = [i \in 1 .. Dist |-> old(i)]
      /\ Contents \in Seq(Elem)
      /\ Len(Contents) = Dist
      /\ Dist \in 0 .. Capacity
  BY ContentsIsSeq DEF View
<1>3. View'
  BY <1>1, ContentsIsSeq, PTL
<1>4. Contents' = [i \in 1 .. Dist' |-> new(i)] /\ Contents' \in Seq(Elem) /\ Len(Contents') = Dist'
  BY <1>3 DEF View
<1>5. \A i \in 1 .. Dist' : new(i) = old(i + 1)
  <2> TAKE i \in 1 .. Dist'
  <2>1. i - 1 \in Cell /\ (i - 1) + 1 = (i + 1) - 1
    BY <1>1, <1>2, CapacityAssumption DEF Cell
  <2>2. WrappedAccess(Incr(mBegin) + (i - 1)) = WrappedAccess(mBegin + ((i - 1) + 1))
    BY <2>1, ShiftedCell DEF IInv, TypeOK
  <2>3. QED
    BY <2>1, <2>2 DEF PopFront
<1>6. Contents' = Tail(Contents) /\ Contents # <<>>
  <2> HIDE DEF old, new
  <2>1. QED
    BY <1>1, <1>2, <1>4, <1>5, CapacityAssumption
<1>7. QED
  BY <1>6 DEF History!PopFront

\* Popping at the back is PopBack of the abstract queue.
LEMMA PopBackRefines ==
  ASSUME IInv, PopBack
  PROVE  History!PopBack
<1> DEFINE old(i) == mData[WrappedAccess(mBegin + (i - 1))]
<1>1. IInv' /\ Dist > 0 /\ Dist' = Dist - 1
  BY PopBackStep
<1>2. /\ Contents = [i \in 1 .. Dist |-> old(i)]
      /\ Contents \in Seq(Elem)
      /\ Len(Contents) = Dist
      /\ Dist \in 0 .. Capacity
  BY ContentsIsSeq DEF View
<1>3. View'
  BY <1>1, ContentsIsSeq, PTL
<1>4. Contents' = [i \in 1 .. Dist' |-> old(i)] /\ Contents' \in Seq(Elem) /\ Len(Contents') = Dist'
  BY <1>3 DEF View, PopBack
<1>5. Contents' = SubSeq(Contents, 1, Len(Contents) - 1) /\ Contents # <<>>
  <2> HIDE DEF old
  <2>1. QED
    BY <1>1, <1>2, <1>4, CapacityAssumption
<1>6. QED
  BY <1>5 DEF History!PopBack, History!Front

\* Pushing at the front is PushFront of the abstract queue, full or not.
LEMMA PushFrontRefines ==
  ASSUME IInv, NEW e \in Elem, PushFront(e)
  PROVE  History!PushFront(e)
<1> DEFINE old(i) == mData[WrappedAccess(mBegin + (i - 1))]
           new(i) == mData'[WrappedAccess(mBegin' + (i - 1))]
           base == IF Len(Contents) = Capacity THEN History!Front(Contents) ELSE Contents
<1>1. IInv' /\ Dist' = IF Dist = Capacity THEN Capacity ELSE Dist + 1
  BY PushFrontStep
<1>2. /\ Contents = [i \in 1 .. Dist |-> old(i)]
      /\ Contents \in Seq(Elem)
      /\ Len(Contents) = Dist
      /\ Dist \in 0 .. Capacity
  BY ContentsIsSeq DEF View
<1>3. View'
  BY <1>1, ContentsIsSeq, PTL
<1>4. /\ Contents' = [i \in 1 .. Dist' |-> new(i)]
      /\ Contents' \in Seq(Elem)
      /\ Len(Contents') = Dist'
  BY <1>3 DEF View
<1>5. mBegin' \in Cursor /\ mBegin \in Cursor /\ Incr(mBegin') = mBegin
  <2>1. mBegin' \in Cursor /\ mBegin \in Cursor
    BY <1>1 DEF IInv, TypeOK
  <2>2. mBegin' = IF mBegin = 0 THEN 2 * Capacity - 1 ELSE mBegin - 1
    BY <2>1, StepValue DEF PushFront
  <2>3. Incr(mBegin') = IF mBegin' = 2 * Capacity - 1 THEN 0 ELSE mBegin' + 1
    BY <2>1, StepValue
  <2>4. QED
    BY <2>1, <2>2, <2>3, CapacityAssumption DEF Cursor
<1>6. Dist' \in 1 .. Capacity
  BY <1>1, <1>2, CapacityAssumption
<1>7. base \in Seq(Elem) /\ Len(base) = Dist' - 1 /\ \A i \in 1 .. (Dist' - 1) : base[i] = old(i)
  <2>1. CASE Dist = Capacity
    <3>1. base = SubSeq(Contents, 1, Capacity - 1)
      BY <1>2, <2>1 DEF History!Front
    <3>2. Len(Contents) = Capacity /\ Dist' = Capacity
      BY <1>1, <1>2, <2>1
    <3>3. base \in Seq(Elem) /\ Len(base) = Capacity - 1
      BY <1>2, <3>1, <3>2, CapacityAssumption
    <3>4. \A i \in 1 .. (Capacity - 1) : base[i] = Contents[i]
      BY <1>2, <3>1, <3>2, CapacityAssumption
    <3>5. \A i \in 1 .. (Capacity - 1) : Contents[i] = old(i)
      BY <1>2, <2>1, CapacityAssumption
    <3>6. QED
      BY <3>2, <3>3, <3>4, <3>5
  <2>2. CASE Dist # Capacity
    <3>1. base = Contents /\ Dist' - 1 = Dist
      BY <1>1, <1>2, <2>2, CapacityAssumption
    <3>2. QED
      BY <1>2, <3>1
  <2>3. QED
    BY <2>1, <2>2
<1>8. WrappedAccess(mBegin' + (1 - 1)) = WrappedAccess(mBegin')
  BY <1>5, CapacityAssumption DEF Cursor
<1>9. /\ mData' = [mData EXCEPT ![WrappedAccess(mBegin' + (1 - 1))] = e]
      /\ mData \in [Cell -> Elem]
  BY <1>8 DEF PushFront, IInv, TypeOK
<1>10. \A i \in 1 .. Dist' : WrappedAccess(mBegin' + (i - 1)) \in Cell
  BY <1>5, <1>6, CellValue, CapacityAssumption DEF Cursor
<1>11. new(1) = e
  BY <1>6, <1>9, <1>10, CapacityAssumption
<1>12. \A i \in 1 .. (Dist' - 1) : new(i + 1) = old(i)
  <2> TAKE i \in 1 .. (Dist' - 1)
  <2>1. /\ i - 1 \in Cell /\ i \in Cell /\ 0 \in Cell /\ i # 0
        /\ i + 1 \in 1 .. Dist' /\ (i + 1) - 1 = i /\ (i - 1) + 1 = i
    <3>1. \A n \in 1 .. Capacity : \A k \in 1 .. (n - 1) :
             /\ k - 1 \in Cell /\ k \in Cell /\ 0 \in Cell /\ k # 0
             /\ k + 1 \in 1 .. n /\ (k + 1) - 1 = k /\ (k - 1) + 1 = k
      BY CapacityAssumption DEF Cell
    <3>2. QED
      BY <1>6, <3>1
  <2>2. WrappedAccess(mBegin' + i) # WrappedAccess(mBegin' + 0)
    BY <1>5, <2>1, DistinctCells
  <2>3. mData'[WrappedAccess(mBegin' + i)] = mData[WrappedAccess(mBegin' + i)]
    <3>1. WrappedAccess(mBegin' + ((i + 1) - 1)) \in Cell
      BY <1>10, <2>1
    <3>2. WrappedAccess(mBegin' + i) \in Cell
      BY <2>1, <3>1
    <3>3. WrappedAccess(mBegin' + (1 - 1)) = WrappedAccess(mBegin' + 0)
      OBVIOUS
    <3>4. QED
      BY <1>9, <2>2, <3>2, <3>3
  <2>4. WrappedAccess(mBegin + (i - 1)) = WrappedAccess(mBegin' + i)
    BY <1>5, <2>1, ShiftedCell
  <2>5. QED
    BY <2>1, <2>3, <2>4
<1>13. Contents' = <<e>> \o base
  <2>1. \A i \in 1 .. Dist' : Contents'[i] = new(i)
    BY <1>4
  <2>2. Contents'[1] = e
    BY <1>6, <1>11, <2>1, CapacityAssumption
  <2>3. Len(Contents') = Len(base) + 1
    BY <1>4, <1>6, <1>7, CapacityAssumption
  <2>4. \A i \in 1 .. Len(base) : Contents'[i + 1] = base[i]
    <3> TAKE i \in 1 .. Len(base)
    <3>1. i \in 1 .. (Dist' - 1)
      BY <1>7
    <3>2. i + 1 \in 1 .. Dist'
      <4>1. \A n \in 1 .. Capacity : \A k \in 1 .. (n - 1) : k + 1 \in 1 .. n
        BY CapacityAssumption
      <4>2. QED
        BY <1>6, <3>1, <4>1
    <3>3. QED
      BY <1>7, <1>12, <2>1, <3>1, <3>2
  <2>5. base \in Seq(Elem) /\ Contents' \in Seq(Elem)
    BY <1>4, <1>7
  <2> HIDE DEF base, old, new
  <2>6. QED
    BY <2>2, <2>3, <2>4, <2>5, IsPrepend, Zenon
<1>14. QED
  BY <1>13 DEF History!PushFront

\* Clearing is Clear of the abstract queue.
LEMMA ClearRefines ==
  ASSUME IInv, Clear
  PROVE  History!Clear
<1>1. IInv' /\ Dist' = 0
  BY ClearStep
<1>2. View'
  BY <1>1, ContentsIsSeq, PTL
<1>3. Contents' \in Seq(Elem) /\ Len(Contents') = 0
  BY <1>1, <1>2 DEF View
<1>4. QED
  BY <1>3 DEF History!Clear

\* Every behaviour of potringbuffer.c's operations is a behaviour of the
\* bounded double-ended queue, for every capacity and every kind of packet.
THEOREM Refinement == Spec => RefinesHistory
<1>1. Init => History!Init
  <2> SUFFICES ASSUME Init PROVE History!Init
    OBVIOUS
  <2>1. IInv /\ Dist = 0
    BY InitIInv, CapacityAssumption DEF Init, Dist
  <2>2. Contents \in Seq(Elem) /\ Len(Contents) = 0
    BY <2>1, ContentsIsSeq DEF View
  <2>3. QED
    BY <2>2 DEF History!Init
<1>2. IInv /\ [Next]_vars => [History!Next]_Contents
  <2> SUFFICES ASSUME IInv, [Next]_vars PROVE History!Next \/ UNCHANGED Contents
    OBVIOUS
  <2>1. CASE Clear
    BY <2>1, ClearRefines DEF History!Next
  <2>2. CASE \E e \in Elem : PushBack(e)
    BY <2>2, PushBackRefines DEF History!Next
  <2>3. CASE \E e \in Elem : PushFront(e)
    BY <2>3, PushFrontRefines DEF History!Next
  <2>4. CASE PopFront
    BY <2>4, PopFrontRefines DEF History!Next
  <2>5. CASE PopBack
    BY <2>5, PopBackRefines DEF History!Next
  <2>6. CASE UNCHANGED vars
    BY <2>6 DEF vars, Contents, Size, Full, At
  <2>7. QED
    BY <2>1, <2>2, <2>3, <2>4, <2>5, <2>6 DEF Next
<1>3. QED
  BY <1>1, <1>2, IInvAlways, PTL DEF Spec, RefinesHistory, History!Spec
=============================================================================
