--------------------------- MODULE BoundedHistory ---------------------------
(***************************************************************************)
(* What potringbuffer.h promises: a double-ended queue of packets that     *)
(* holds at most Capacity of them.  A push on a full queue discards the    *)
(* element at the other end; a pop needs a non-empty queue.                *)
(***************************************************************************)
EXTENDS Naturals, Sequences

CONSTANTS Capacity,   \* SFP_CONFIG_HISTORY_CAPACITY
          Elem        \* packets

VARIABLE q            \* the packets, oldest first

Init == q = <<>>

Clear == q' = <<>>

\* All but the last element of a non-empty queue.
Front(s) == SubSeq(s, 1, Len(s) - 1)

PushBack(e) == q' = Append(IF Len(q) = Capacity THEN Tail(q) ELSE q, e)

PushFront(e) == q' = <<e>> \o (IF Len(q) = Capacity THEN Front(q) ELSE q)

PopFront == /\ q # <<>>
            /\ q' = Tail(q)

PopBack == /\ q # <<>>
           /\ q' = Front(q)

Next == \/ Clear
        \/ \E e \in Elem : PushBack(e) \/ PushFront(e)
        \/ PopFront
        \/ PopBack

Spec == Init /\ [][Next]_q
=============================================================================
