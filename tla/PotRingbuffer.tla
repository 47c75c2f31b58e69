---------------------------- MODULE PotRingbuffer ----------------------------
(***************************************************************************)
(* The power-of-two ring buffer of src/src/potringbuffer.c, in which the   *)
(* serial framing protocol keeps its transmit history.                     *)
(*                                                                         *)
(* The two cursors run over twice the capacity, so that "full" and "empty" *)
(* are told apart although the data array has only Capacity cells.         *)
(***************************************************************************)
EXTENDS Integers, Sequences

CONSTANTS Capacity,   \* SFP_CONFIG_HISTORY_CAPACITY
          Elem        \* packets; only their identity matters here

\* The header asks for a power of two.  The masks "& (Capacity - 1)" and
\* "& (2 * Capacity - 1)" are then remainders, which is how they are written
\* below, and nothing else depends on it.
ASSUME CapacityAssumption == Capacity \in Nat \ {0}
ASSUME ElemAssumption == Elem # {}

VARIABLES mBegin, mEnd, mData
vars == <<mBegin, mEnd, mData>>

Cursor == 0 .. (2 * Capacity - 1)
Cell == 0 .. (Capacity - 1)

\* potRingbufferWrappedAccess: the cell a cursor stands for.
WrappedAccess(index) == index % Capacity

\* Mutants of Incr: a cursor that is not wrapped, and one that is wrapped at
\* the capacity instead of at twice the capacity.
IncrUnwrapped(cursor) == cursor + 1
IncrSingleRange(cursor) == (cursor + 1) % Capacity

\* potRingbufferAdd, with amount 1 and -1.
Incr(cursor) == (cursor + 1) % (2 * Capacity)
Decr(cursor) == (cursor - 1) % (2 * Capacity)

\* mBegin ^ Capacity: the bit of weight Capacity of a cursor is flipped.
FlipWrapBit(cursor) ==
  IF cursor < Capacity THEN cursor + Capacity ELSE cursor - Capacity

Empty == mBegin = mEnd
Full == FlipWrapBit(mBegin) = mEnd
Size == IF Full THEN Capacity ELSE (mEnd - mBegin) % Capacity

\* potRingbufferAt: array-like access, counting forward from begin.
At(index) == mData[WrappedAccess(mBegin + index)]

TypeOK == /\ mBegin \in Cursor
          /\ mEnd \in Cursor
          /\ mData \in [Cell -> Elem]

-----------------------------------------------------------------------------
\* potRingbufferInit leaves the cells alone: their first contents are whatever
\* the memory held.
Init == /\ mBegin = 0
        /\ mEnd = 0
        /\ mData \in [Cell -> Elem]

\* potRingbufferInit called on a buffer in use (sfpInit, when the server resets).
Clear == /\ mBegin' = 0
         /\ mEnd' = 0
         /\ UNCHANGED mData

\* Mutant of PushBack: the oldest element is not dropped from a full buffer.
PushBackKeepsBegin(elem) ==
  /\ mBegin' = mBegin
  /\ mEnd' = IF Full THEN mEnd ELSE Incr(mEnd)
  /\ mData' = [mData EXCEPT ![WrappedAccess(mEnd' - 1)] = elem]

\* The element is stored where potRingbufferBack points after the increment.
PushBack(elem) ==
  /\ mBegin' = IF Full THEN Incr(mBegin) ELSE mBegin
  /\ mEnd' = Incr(mEnd)
  /\ mData' = [mData EXCEPT ![WrappedAccess(mEnd' - 1)] = elem]

PushFront(elem) ==
  /\ mEnd' = IF Full THEN Decr(mEnd) ELSE mEnd
  /\ mBegin' = Decr(mBegin)
  /\ mData' = [mData EXCEPT ![WrappedAccess(mBegin')] = elem]

\* The pops have no check of their own; their only caller
\* (transmitHistoryFromSeq) pops fewer elements than Size reports.
PopFront == /\ Size > 0
            /\ mBegin' = Incr(mBegin)
            /\ UNCHANGED <<mEnd, mData>>

PopBack == /\ Size > 0
           /\ mEnd' = Decr(mEnd)
           /\ UNCHANGED <<mBegin, mData>>

Next == \/ Clear
        \/ \E e \in Elem : PushBack(e) \/ PushFront(e)
        \/ PopFront
        \/ PopBack

Spec == Init /\ [][Next]_vars

-----------------------------------------------------------------------------
\* The live part of the buffer, front first.
Contents == [i \in 1 .. Size |-> At(i - 1)]

History == INSTANCE BoundedHistory WITH q <- Contents

\* The ring buffer is a bounded double-ended queue: whatever the cursors'
\* position, each operation of potringbuffer.c does to the live cells exactly
\* what the corresponding operation does to a sequence, so a push onto a full
\* buffer loses the oldest packet and no other, and no operation disturbs a
\* packet it is not about.
RefinesHistory == History!Spec

\* "empty" and "full" are exact: the buffer reports empty only when no packet
\* is held, full only when Capacity are, and Size never leaves 0..Capacity -
\* the case the doubled cursor range exists for.
SizeConsistent == /\ Size \in 0 .. Capacity
                  /\ Empty <=> Size = 0
                  /\ Full <=> Size = Capacity
                  /\ mEnd = (mBegin + Size) % (2 * Capacity)
=============================================================================
