------------------------------ MODULE VexFlash ------------------------------
(***************************************************************************)
(* The parameter flash of convex/cortex/opt/vexflash.c: one page of flash, *)
(* an index of words at its head and behind it the slots that the blocks   *)
(* of parameters are written to in turn.  The number of index words that   *)
(* are no longer erased tells which slot is the current one.               *)
(*                                                                         *)
(* The unit of flash that is programmed at once is the half word, here a   *)
(* cell.  The processor may be reset, or lose its power, between any two   *)
(* of them and in the middle of one; everything but the page is then gone. *)
(* The flash routines of stm32_flash.c may also give up waiting for the    *)
(* flash (FLASH_TIMEOUT), half way through what they were to do.  Their    *)
(* other error, write protection, needs option bytes that this firmware    *)
(* never programs, and is left out.                                        *)
(***************************************************************************)
EXTENDS Integers, FiniteSets

CONSTANTS SLOTS,      \* (512 - USER_PARAM_INDEX) / USER_PARAM_WORDS, 56
          CELLS,      \* half words of a block, 2 * USER_PARAM_WORDS
          MAX_WRITE,  \* USER_PARAM_MAX_WRITE, 32
          Data,       \* what a half word can hold but
          Erased,     \*   0xFFFF;
          Zero        \* 0x0000

ASSUME FlashAssumption == /\ SLOTS \in Nat \ {0} /\ CELLS \in Nat \ {0}
                          /\ MAX_WRITE \in Nat
                          /\ Zero \in Data /\ Erased \notin Data

Slot == 0 .. (SLOTS - 1)
Cell == 0 .. (CELLS - 1)
HalfWord == Data \cup {Erased}
Block == [Cell -> HalfWord]
Blank == [c \in Cell |-> Erased]

VARIABLES
  index,    \* index[s]: index word s is not 0xFFFFFFFF
  page,     \* page[s]: the block in slot s
  params,   \* the RAM copy (params.data), which is also what is written
  pc,       \* where vexFlashUserParamWrite is
  offset,   \* u->offset
  cell,     \* the next half word it programs
  failed,   \* ret is FLASH_ERROR_WRITE and PGERR is set
  writes,   \* user_param_write_limit
  reply,    \* what the last write since the reset returned
  torn,     \* an erase has been cut short, and none completed since
  spoilt    \* so has a write or an erase: by a reset, or a time-out of the flash

flashVars == <<index, page, torn, spoilt>>
runVars == <<pc, offset, cell, failed, writes, reply>>
vars == <<flashVars, runVars, params>>

TypeOK ==
  /\ index \in [Slot -> BOOLEAN]
  /\ page \in [Slot -> Block]
  /\ params \in Block
  /\ pc \in {"idle", "erase", "data", "late", "index"}
  /\ offset \in 0 .. SLOTS /\ cell \in 0 .. CELLS
  /\ writes \in 0 .. MAX_WRITE
  /\ reply \in {"none", "success", "write", "limit", "erase"}
  /\ failed \in BOOLEAN /\ torn \in BOOLEAN /\ spoilt \in BOOLEAN

-----------------------------------------------------------------------------
(* Reading.                                                                *)

\* vexFlashUserParamGetOffset, plus one: the index words met before the first
\* erased one.
Used == Cardinality({s \in Slot : \A r \in 0 .. s : index[r]})

\* vexFlashUserParamRead: the block of the current slot.
Stored == IF Used = 0 THEN Blank ELSE page[Used - 1]

-----------------------------------------------------------------------------
(* vexFlashUserParamWrite.                                                 *)

\* "limit number of writes per run".
Refused == writes >= MAX_WRITE

\* Mutant of StartWrite: the index word is programmed first.
StartWriteIndexFirst ==
  /\ writes' = writes + 1
  /\ offset' = Used
  /\ pc' = IF Used >= SLOTS THEN "erase" ELSE "data"
  /\ index' = IF Used >= SLOTS THEN index ELSE [index EXCEPT ![Used] = TRUE]
  /\ cell' = 0 /\ failed' = FALSE /\ reply' = "none"
  /\ UNCHANGED <<page, torn, spoilt>>

\* Up to the first access to the flash: the error flags are cleared, the slot
\* after the current one is next.
StartWrite ==
  /\ writes' = writes + 1
  /\ offset' = Used
  /\ pc' = IF Used >= SLOTS THEN "erase" ELSE "data"
  /\ cell' = 0 /\ failed' = FALSE /\ reply' = "none"
  /\ UNCHANGED flashVars

\* The caller has put the block into the RAM copy.
vexFlashUserParamWrite(block) ==
  /\ pc = "idle"
  /\ params' = block
  /\ IF Refused
     THEN /\ reply' = "limit"
          /\ UNCHANGED <<flashVars, pc, offset, cell, failed, writes>>
     ELSE StartWrite

\* Mutant of FLASH_ErasePage: only the index starts over.
EraseIndexOnly ==
  /\ pc = "erase"
  /\ index' = [s \in Slot |-> FALSE]
  /\ torn' = FALSE /\ spoilt' = FALSE
  /\ offset' = 0 /\ pc' = "data"
  /\ UNCHANGED <<page, params, cell, failed, writes, reply>>

FLASH_ErasePage ==
  /\ pc = "erase"
  /\ index' = [s \in Slot |-> FALSE]
  /\ page' = [s \in Slot |-> Blank]
  /\ torn' = FALSE /\ spoilt' = FALSE
  /\ offset' = 0 /\ pc' = "data"
  /\ UNCHANGED <<params, cell, failed, writes, reply>>

\* An erase that does not come to its end has erased some of the page.
PartlyErased ==
  /\ index' \in {ix \in [Slot -> BOOLEAN] : \A s \in Slot : ix[s] => index[s]}
  /\ page' \in {p \in [Slot -> Block] :
                  \A s \in Slot, c \in Cell : p[s][c] \in {page[s][c], Erased}}
  /\ torn' = TRUE /\ spoilt' = TRUE

EraseFails ==
  /\ pc = "erase"
  /\ PartlyErased
  /\ pc' = "idle" /\ reply' = "erase"
  /\ UNCHANGED <<params, offset, cell, failed, writes>>

\* The hardware programs a half word that is erased, and any with 0x0000; to all
\* else it answers with the flag PGERR, which FLASH_GetBank1Status reports.
Programmable == page[offset][cell] = Erased \/ params[cell] = Zero

\* Mutant of ProgramIndex: an error does not keep the index word from being
\* programmed.
ProgramIndexAnyway ==
  /\ pc = "index"
  /\ index' = [index EXCEPT ![offset] = TRUE]
  /\ reply' = IF failed THEN "write" ELSE "success"
  /\ pc' = "idle"
  /\ UNCHANGED <<page, torn, spoilt, params, offset, cell, failed, writes>>

\* A half word that is being programmed may hold anything.
PartlyProgrammed ==
  page' \in {page} \cup {[page EXCEPT ![offset][cell] = d] :
                          d \in IF Programmable THEN Data ELSE {}}

\* Half of FLASH_ProgramWord; an error ends the loop.
ProgramCell ==
  /\ pc = "data"
  /\ IF Programmable
     THEN /\ page' = [page EXCEPT ![offset][cell] = params[cell]]
          /\ cell' = cell + 1
          /\ pc' = IF cell + 1 = CELLS THEN "index" ELSE "data"
          /\ UNCHANGED failed
     ELSE /\ failed' = TRUE
          /\ pc' = "index"
          /\ UNCHANGED <<page, cell>>
  /\ UNCHANGED <<index, torn, spoilt, params, offset, writes, reply>>

\* FLASH_TIMEOUT ends the loop too, but sets no flag ...
CellTimesOut ==
  /\ pc = "data" /\ Programmable
  /\ PartlyProgrammed
  /\ spoilt' = TRUE
  /\ pc' = "late"
  /\ UNCHANGED <<index, torn, params, offset, cell, failed, writes, reply>>

\* ... so the index word of the unfinished block may be programmed all the same.
\* It may itself time out, with or without having been programmed.
IndexTimesOut ==
  /\ pc \in {"index", "late"} /\ ~ failed
  /\ index' \in {index, [index EXCEPT ![offset] = TRUE]}
  /\ spoilt' = TRUE
  /\ reply' = "write"
  /\ pc' = "idle"
  /\ UNCHANGED <<page, torn, params, offset, cell, failed, writes>>

\* "Update data at offset".  While PGERR is set FLASH_ProgramWord only returns
\* it, so the index word is not programmed after an error.
ProgramIndex ==
  /\ pc = "index"
  /\ index' = [index EXCEPT ![offset] = @ \/ ~ failed]
  /\ reply' = IF failed THEN "write" ELSE "success"
  /\ pc' = "idle"
  /\ UNCHANGED <<page, torn, spoilt, params, offset, cell, failed, writes>>

WriteStep == \/ FLASH_ErasePage \/ EraseFails
             \/ ProgramCell \/ CellTimesOut
             \/ ProgramIndex \/ IndexTimesOut

-----------------------------------------------------------------------------
(* Reset.                                                                  *)

CutProgram ==
  /\ pc = "data"
  /\ PartlyProgrammed
  /\ spoilt' = TRUE
  /\ UNCHANGED <<index, torn>>

\* The index word has become 0, in part at least, or has not.
CutIndex ==
  /\ pc \in {"index", "late"}
  /\ \/ UNCHANGED index
     \/ ~ failed /\ index' = [index EXCEPT ![offset] = TRUE]
  /\ spoilt' = TRUE
  /\ UNCHANGED <<page, torn>>

\* The page after a reset, and the driver's own variables.
ResetFlash ==
  /\ \/ pc = "idle" /\ UNCHANGED flashVars
     \/ pc = "erase" /\ PartlyErased
     \/ CutProgram
     \/ CutIndex
  /\ pc' = "idle" /\ offset' = 0 /\ cell' = 0
  /\ failed' = FALSE /\ writes' = 0 /\ reply' = "none"

\* A program that starts reads its parameters and puts them in order.
Reset == ResetFlash /\ params' \in Block

-----------------------------------------------------------------------------
\* A page as it leaves the factory, or with a block on it, and a program that
\* has just started.
InitPage ==
  \/ index = [s \in Slot |-> FALSE] /\ page = [s \in Slot |-> Blank]
  \/ /\ index = [s \in Slot |-> s = 0]
     /\ \E b \in Block : page = [s \in Slot |-> IF s = 0 THEN b ELSE Blank]

InitRun ==
  /\ pc = "idle" /\ offset = 0 /\ cell = 0 /\ failed = FALSE
  /\ writes = 0 /\ reply = "none"
  /\ torn = FALSE /\ spoilt = FALSE

Init == InitPage /\ InitRun /\ params \in Block

Next == \/ \E b \in Block : vexFlashUserParamWrite(b)
        \/ WriteStep
        \/ Reset

Spec == Init /\ [][Next]_vars

-----------------------------------------------------------------------------
(* Properties.                                                             *)

Store == INSTANCE ParamStore WITH
           Capacity <- SLOTS,
           value <- Stored,
           safe <- ~ torn /\ pc \notin {"erase", "late"},
           room <- SLOTS - Used,
           busy <- pc # "idle",
           block <- params

\* A block that vexFlashUserParamWrite reported as written is what every later
\* start of the program reads, until another one is; a reset in the middle of
\* a write leaves the old block or the new one, never a mixture.  Two kinds of
\* write can lose the block: the one that finds the page full, one in SLOTS, and
\* one that the flash times out on, which is reported.
RefinesStore == Store!Spec

\* FLASH_ERROR_WRITE is only returned on a page on which this write, or an earlier
\* write or erase, was cut short: as long as the power stays on and the flash
\* answers in time, every slot the driver comes to is still erased, also after
\* the page has been filled and erased.
FailsOnlyOnSpoiltPage == reply = "write" => spoilt
=============================================================================
