----------------------------- MODULE ParamStore -----------------------------
(***************************************************************************)
(* What the parameter flash of convex/cortex/opt/vexflash.c promises the   *)
(* program that uses it: one block of parameters that survives a reset.    *)
(* A write that is under way when the reset comes has happened as a whole  *)
(* or not at all.  There are two gaps.  After Capacity writes the next one *)
(* has to make room first, and until it has, the block is not safe; and a  *)
(* fault of the flash puts it at risk until the write has returned.        *)
(***************************************************************************)
EXTENDS Naturals

CONSTANTS Block,      \* the blocks of parameters
          Blank,      \* what is read when there is none
          Capacity    \* writes that need no making room

VARIABLES
  value,   \* the block that is stored
  safe,    \* a reset cannot harm it
  room,    \* writes to go before room has to be made
  busy,    \* a write is under way
  block,   \* the block it writes
  reply    \* what the last write returned

vars == <<value, safe, room, busy, block, reply>>

Init == /\ value \in Block /\ room \in 0 .. Capacity /\ safe = TRUE
        /\ busy = FALSE /\ block \in Block /\ reply = "none"

\* A store that is not safe may come to be in any state.
Anything == /\ value' \in Block /\ room' \in 0 .. Capacity

Refuse == /\ ~ busy
          /\ block' \in Block /\ reply' = "limit"
          /\ UNCHANGED <<value, safe, room, busy>>

Begin == /\ ~ busy
         /\ busy' = TRUE /\ block' \in Block /\ reply' = "none"
         /\ safe' = (safe /\ room > 0)
         /\ UNCHANGED <<value, room>>

MakeRoom == /\ busy /\ ~ safe
            /\ value' = Blank /\ room' = Capacity /\ safe' = TRUE
            /\ UNCHANGED <<busy, block, reply>>

Return(what) == busy /\ busy' = FALSE /\ reply' = what /\ UNCHANGED block

\* The flash does not answer in time.
Fault == busy /\ safe' = FALSE /\ UNCHANGED <<value, room, busy, block, reply>>

NoRoom == Return("erase") /\ ~ safe /\ Anything /\ UNCHANGED safe

Commit == /\ Return("success")
          /\ IF safe THEN value' = block /\ room' = room - 1 ELSE Anything
          /\ UNCHANGED safe

\* A write that fails has left the block alone; after a fault it may also have
\* stored its own, or anything.
Fail == /\ Return("write")
        /\ \/ UNCHANGED <<value, safe, room>>
           \/ safe /\ value' = block /\ room' = room - 1 /\ UNCHANGED safe
           \/ ~ safe /\ Anything /\ safe' \in BOOLEAN

Reset == /\ busy' = FALSE /\ block' \in Block /\ reply' = "none"
         /\ IF safe
            THEN /\ \/ UNCHANGED <<value, room>>
                    \/ busy /\ value' = block /\ room' = room - 1
                 /\ UNCHANGED safe
            ELSE Anything /\ safe' \in BOOLEAN

Next == Refuse \/ Begin \/ MakeRoom \/ Fault \/ NoRoom \/ Commit \/ Fail \/ Reset

Spec == Init /\ [][Next]_vars
=============================================================================
