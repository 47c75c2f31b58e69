---------------------------- MODULE VexFlashProof ----------------------------
(***************************************************************************)
(* Proofs about VexFlash, for every number of slots, of half words in a    *)
(* block and of writes per run, and for every client that calls            *)
(* vexFlashUserParamWrite with whatever block it likes.                    *)
(***************************************************************************)
EXTENDS VexFlash, TLAPS, FiniteSetTheorems

\* The constants, as the proofs use them.
LEMMA Sizes ==
  /\ SLOTS \in Nat /\ SLOTS > 0 /\ CELLS \in Nat /\ CELLS > 0 /\ MAX_WRITE \in Nat
  /\ Slot = {s \in Nat : s < SLOTS} /\ Cell = {c \in Nat : c < CELLS}
  /\ 0 \in Slot /\ 0 \in Cell /\ 0 \in 0 .. SLOTS
  BY FlashAssumption DEF Slot, Cell

\* A set of naturals that is not empty has a least element.
LEMMA LeastNatural ==
  ASSUME NEW T \in SUBSET Nat, T # {}
  PROVE  \E m \in T : \A n \in T : m <= n
  <1>1. PICK m \in T : \A n \in T : <<n, m>> \notin OpToRel(<, Nat)
    BY NatLessThanWellFounded, WFMin, Zenon
  <1>2. \A n \in T : ~ (n < m)
    BY <1>1 DEF OpToRel
  <1> QED
    BY <1>2

-----------------------------------------------------------------------------
(* vexFlashUserParamGetOffset on an arbitrary index.                       *)

Prefix(ix) == Cardinality({s \in Slot : \A r \in 0 .. s : ix[r]})

\* n is the number of index words before the first erased one.
IsPrefix(ix, n) == /\ n \in 0 .. SLOTS
                   /\ \A s \in Slot : s < n => ix[s]
                   /\ n < SLOTS => ~ ix[n]

\* Counting the words that are met before the first erased one yields its
\* place.
LEMMA PrefixUnique ==
  ASSUME NEW ix, NEW n, IsPrefix(ix, n)
  PROVE  Prefix(ix) = n
  <1>1. n \in Nat /\ n <= SLOTS
    BY Sizes DEF IsPrefix
  <1>2. {s \in Slot : \A r \in 0 .. s : ix[r]} = 0 .. (n - 1)
    <2>1. ASSUME NEW s \in Slot, s < n PROVE \A r \in 0 .. s : ix[r]
      BY <2>1, <1>1, Sizes DEF IsPrefix
    <2>2. ASSUME NEW s \in Slot, s >= n PROVE ~ \A r \in 0 .. s : ix[r]
      BY <2>2, <1>1, Sizes DEF IsPrefix
    <2>3. 0 .. (n - 1) = {s \in Slot : s < n}
      BY <1>1, Sizes
    <2> QED
      BY <2>1, <2>2, <2>3, <1>1, Sizes
  <1>3. Cardinality(0 .. (n - 1)) = n
    BY <1>1, FS_Interval
  <1> QED
    BY <1>2, <1>3 DEF Prefix

\* Every index has such a place.
LEMMA PrefixExists ==
  ASSUME NEW ix \in [Slot -> BOOLEAN]
  PROVE  IsPrefix(ix, Prefix(ix))
  <1> DEFINE T == {s \in Slot : ~ ix[s]}
  <1>1. CASE T = {}
    <2>1. IsPrefix(ix, SLOTS)
      BY <1>1, Sizes DEF IsPrefix
    <2> QED
      BY <2>1, PrefixUnique
  <1>2. CASE T # {}
    <2>1. T \subseteq Nat
      BY Sizes
    <2>2. PICK m \in T : \A n \in T : m <= n
      BY <2>1, <1>2, LeastNatural
    <2>3. IsPrefix(ix, m)
      BY <2>2, Sizes DEF IsPrefix
    <2> QED
      BY <2>3, PrefixUnique
  <1> QED
    BY <1>1, <1>2

\* Used is that number for the driver's own index, before and after a step.
LEMMA UsedIsPrefix == Used = Prefix(index) /\ Used' = Prefix(index')
  BY DEF Used, Prefix

-----------------------------------------------------------------------------
(* The inductive invariant.                                                *)

\* Where a write is, its variables are what the code has made of them.
WriteInv ==
  /\ pc # "idle" => reply = "none"
  /\ pc = "erase" => Used = SLOTS /\ cell = 0 /\ ~ failed
  /\ pc \in {"data", "late", "index"} => offset = Used /\ Used < SLOTS
  /\ pc \in {"data", "late"} => cell < CELLS /\ ~ failed
  /\ pc = "index" /\ ~ failed => cell = CELLS
  /\ pc \in {"data", "index"} => \A c \in Cell : c < cell => page[offset][c] = params[c]

\* Unless an erase was cut short, no index word is set behind an erased one.
IndexInv == ~ torn => \A s \in Slot : s >= Used => ~ index[s]

\* Unless a write or an erase was cut short, the slots that are to come are
\* erased, the part of the next one that is still to be programmed included.
ErasedInv ==
  /\ torn \/ pc = "late" => spoilt
  /\ ~ spoilt =>
       /\ \A s \in Slot : s > Used => page[s] = Blank
       /\ Used < SLOTS =>
            \A c \in Cell : pc \in {"data", "index"} => (c >= cell => page[Used][c] = Erased)
       /\ Used < SLOTS /\ pc \in {"idle", "erase"} => page[Used] = Blank
       /\ pc = "index" => ~ failed

FlashInv == TypeOK /\ WriteInv /\ IndexInv /\ ErasedInv /\ FailsOnlyOnSpoiltPage

\* What Used says of the index.
LEMMA UsedFacts == TypeOK => IsPrefix(index, Used)
  BY PrefixExists, UsedIsPrefix DEF TypeOK

\* The same after a step.
LEMMA UsedFactsPrimed == index' \in [Slot -> BOOLEAN] => IsPrefix(index', Used')
  BY PrefixExists, UsedIsPrefix

\* As long as the index is left alone, so is the number of slots in use.
LEMMA UsedUnchanged == UNCHANGED index => UNCHANGED Used
  BY UsedIsPrefix

\* An erased page has no slot in use.
LEMMA UsedErased == index' = [s \in Slot |-> FALSE] => Used' = 0
  <1> SUFFICES ASSUME index' = [s \in Slot |-> FALSE] PROVE Used' = 0
    OBVIOUS
  <1>1. IsPrefix(index', 0)
    BY Sizes DEF IsPrefix
  <1> QED
    BY <1>1, PrefixUnique, UsedIsPrefix

\* The index word behind the last one takes the next slot into use.
LEMMA UsedProgrammed ==
  ASSUME TypeOK, IndexInv, ~ torn, Used < SLOTS, index' = [index EXCEPT ![Used] = TRUE]
  PROVE  Used' = Used + 1 /\ \A s \in Slot : s >= Used' => ~ index'[s]
  <1>1. Used \in Slot /\ Used \in Nat
    BY UsedFacts, Sizes DEF IsPrefix
  <1>2. \A s \in Slot : index'[s] <=> s <= Used
    <2>1. index \in [Slot -> BOOLEAN]
      BY DEF TypeOK
    <2>2. \A s \in Slot : index'[s] <=> s = Used \/ index[s]
      BY <1>1, <2>1, Zenon
    <2> QED
      BY <1>1, <2>2, UsedFacts, Sizes DEF IsPrefix, IndexInv
  <1>3. IsPrefix(index', Used + 1)
    BY <1>1, <1>2, Sizes DEF IsPrefix
  <1>4. Used' = Used + 1
    BY <1>3, PrefixUnique, UsedIsPrefix
  <1>5. \A s \in Slot : s >= Used + 1 => ~ (s <= Used)
    BY <1>1, Sizes
  <1> QED
    BY <1>2, <1>4, <1>5

\* Init establishes the invariant.
LEMMA InitFlashInv == InitPage /\ InitRun /\ params \in Block => FlashInv
  <1> SUFFICES ASSUME InitPage, InitRun, params \in Block PROVE FlashInv
    OBVIOUS
  <1>1. Blank \in Block
    BY DEF Blank, Block, HalfWord
  <1>2. \/ /\ index = [s \in Slot |-> FALSE] /\ page = [s \in Slot |-> Blank] /\ Used = 0
        \/ /\ \A s \in Slot : index[s] <=> s = 0
           /\ index \in [Slot -> BOOLEAN] /\ page \in [Slot -> Block] /\ Used = 1
           /\ \A s \in Slot : s > 0 => page[s] = Blank
    <2>1. CASE index = [s \in Slot |-> FALSE] /\ page = [s \in Slot |-> Blank]
      <3>1. IsPrefix(index, 0)
        BY <2>1, Sizes DEF IsPrefix
      <3> QED
        BY <2>1, <3>1, PrefixUnique, UsedIsPrefix
    <2>2. CASE index = [s \in Slot |-> s = 0]
               /\ \E b \in Block : page = [s \in Slot |-> IF s = 0 THEN b ELSE Blank]
      <3>1. (\A s \in Slot : index[s] <=> s = 0) /\ index \in [Slot -> BOOLEAN]
        BY <2>2, Zenon
      <3>2. IsPrefix(index, 1)
        BY <3>1, Sizes DEF IsPrefix
      <3>3. page \in [Slot -> Block] /\ \A s \in Slot : s > 0 => page[s] = Blank
        BY <2>2, <1>1, Sizes
      <3> QED
        BY <3>1, <3>2, <3>3, PrefixUnique, UsedIsPrefix
    <2> QED
      BY <2>1, <2>2 DEF InitPage
  <1>3. TypeOK
    <2>1. index \in [Slot -> BOOLEAN] /\ page \in [Slot -> Block]
      BY <1>1, <1>2
    <2>2. failed \in BOOLEAN /\ torn \in BOOLEAN /\ spoilt \in BOOLEAN
      BY DEF InitRun
    <2>3. offset \in 0 .. SLOTS /\ cell \in 0 .. CELLS /\ writes \in 0 .. MAX_WRITE
      BY Sizes DEF InitRun
    <2> QED
      BY <2>1, <2>2, <2>3 DEF InitRun, TypeOK
  <1>4. IndexInv /\ ErasedInv
    BY <1>2, Sizes DEF InitRun, IndexInv, ErasedInv
  <1>5. WriteInv /\ FailsOnlyOnSpoiltPage
    BY DEF InitRun, WriteInv, FailsOnlyOnSpoiltPage
  <1> QED
    BY <1>3, <1>4, <1>5 DEF FlashInv

-----------------------------------------------------------------------------
(* One lemma per action.                                                   *)

\* A call that is refused changes the RAM copy and the reply alone.
LEMMA RefusedFlashInv ==
  ASSUME FlashInv, NEW b \in Block, vexFlashUserParamWrite(b), Refused
  PROVE  FlashInv'
  <1> USE DEF vexFlashUserParamWrite, flashVars
  <1>1. Used' = Used
    BY UsedUnchanged
  <1>2. TypeOK'
    BY DEF FlashInv, TypeOK
  <1>3. WriteInv' /\ IndexInv' /\ ErasedInv'
    BY <1>1 DEF FlashInv, WriteInv, IndexInv, ErasedInv
  <1> QED
    BY <1>2, <1>3 DEF FlashInv, FailsOnlyOnSpoiltPage

\* A write that starts finds the slot it is to use erased, unless the page is
\* spoilt.
LEMMA StartWriteFlashInv ==
  ASSUME FlashInv, NEW b \in Block, vexFlashUserParamWrite(b), ~ Refused
  PROVE  FlashInv'
  <1> USE DEF vexFlashUserParamWrite, StartWrite, flashVars
  <1>1. Used' = Used
    BY UsedUnchanged
  <1>2. Used \in 0 .. SLOTS
    BY UsedFacts DEF FlashInv, IsPrefix
  <1>3. TypeOK'
    <2>1. writes' \in 0 .. MAX_WRITE /\ cell' \in 0 .. CELLS /\ offset' \in 0 .. SLOTS
      BY <1>2, Sizes DEF FlashInv, TypeOK, Refused
    <2>2. failed' \in BOOLEAN /\ torn' \in BOOLEAN /\ spoilt' \in BOOLEAN
      BY DEF FlashInv, TypeOK
    <2> QED
      BY <2>1, <2>2 DEF FlashInv, TypeOK
  <1>4. WriteInv'
    BY <1>1, <1>2, Sizes DEF WriteInv
  <1>5. IndexInv'
    BY <1>1 DEF FlashInv, IndexInv
  <1>6. ErasedInv'
    <2>1. pc = "idle" /\ cell' = 0 /\ ~ failed'
      OBVIOUS
    <2>2. \A c \in Cell : Blank[c] = Erased
      BY DEF Blank
    <2> QED
      BY <1>1, <1>2, <2>1, <2>2, Sizes DEF FlashInv, ErasedInv
  <1> QED
    BY <1>3, <1>4, <1>5, <1>6 DEF FlashInv, FailsOnlyOnSpoiltPage

\* The erase leaves a page on which everything is erased.
LEMMA EraseFlashInv ==
  ASSUME FlashInv, FLASH_ErasePage
  PROVE  FlashInv'
  <1> USE DEF FLASH_ErasePage
  <1>1. Used' = 0
    BY UsedErased
  <1>2. \A s \in Slot : index'[s] = FALSE /\ page'[s] = Blank
    OBVIOUS
  <1>3. \A c \in Cell : Blank[c] = Erased
    BY DEF Blank
  <1>4. TypeOK'
    <2>1. index' \in [Slot -> BOOLEAN]
      BY Zenon
    <2>2. page' \in [Slot -> Block]
      BY DEF Blank, Block, HalfWord
    <2>3. failed' \in BOOLEAN /\ torn' \in BOOLEAN /\ spoilt' \in BOOLEAN
      BY DEF FlashInv, TypeOK
    <2> QED
      BY <2>1, <2>2, <2>3, Sizes DEF FlashInv, TypeOK
  <1>5. WriteInv'
    BY <1>1, Sizes DEF FlashInv, WriteInv
  <1>6. IndexInv'
    BY <1>2 DEF IndexInv
  <1>7. ErasedInv'
    BY <1>1, <1>2, <1>3, Sizes DEF ErasedInv
  <1> QED
    BY <1>4, <1>5, <1>6, <1>7 DEF FlashInv, FailsOnlyOnSpoiltPage, WriteInv

\* A page on which an erase was cut short is a page all the same.
LEMMA PartlyErasedTypes ==
  ASSUME PartlyErased
  PROVE  index' \in [Slot -> BOOLEAN] /\ page' \in [Slot -> Block]
         /\ torn' /\ spoilt' /\ torn' \in BOOLEAN /\ spoilt' \in BOOLEAN
  BY Zenon DEF PartlyErased

\* After an erase that fails nothing is promised but that the driver is idle.
LEMMA EraseFailsFlashInv ==
  ASSUME FlashInv, EraseFails
  PROVE  FlashInv'
  <1> USE DEF EraseFails
  <1>1. TypeOK'
    BY PartlyErasedTypes DEF FlashInv, TypeOK
  <1>2. WriteInv' /\ IndexInv' /\ ErasedInv'
    BY PartlyErasedTypes DEF WriteInv, IndexInv, ErasedInv
  <1> QED
    BY <1>1, <1>2 DEF FlashInv, FailsOnlyOnSpoiltPage

\* A half word is programmed at the end of what has been written already; it
\* cannot be, only on a spoilt page.
LEMMA ProgramCellFlashInv ==
  ASSUME FlashInv, ProgramCell
  PROVE  FlashInv'
  <1> USE DEF ProgramCell
  <1>1. Used' = Used /\ Used \in Nat /\ Used < SLOTS /\ offset = Used /\ Used \in Slot
    BY UsedUnchanged, UsedFacts, Sizes DEF FlashInv, WriteInv, IsPrefix
  <1>2. cell \in Cell /\ cell \in Nat /\ cell < CELLS /\ ~ failed
    BY Sizes DEF FlashInv, WriteInv, TypeOK
  <1>3. page \in [Slot -> Block] /\ params \in Block /\ reply = "none"
    BY DEF FlashInv, TypeOK, WriteInv
  <1>4. CASE Programmable
    <2>1. page' = [page EXCEPT ![Used][cell] = params[cell]] /\ cell' = cell + 1
          /\ pc' = (IF cell + 1 = CELLS THEN "index" ELSE "data") /\ failed' = failed
      BY <1>4, <1>1
    <2>2. page' \in [Slot -> Block]
      BY <2>1, <1>1, <1>2, <1>3 DEF Block
    <2>3. /\ \A s \in Slot : s # Used => page'[s] = page[s]
          /\ \A c \in Cell : page'[Used][c] = IF c = cell THEN params[c] ELSE page[Used][c]
      BY <2>1, <1>1, <1>2, <1>3 DEF Block
    <2>4. TypeOK'
      <3>1. failed' \in BOOLEAN /\ torn' \in BOOLEAN /\ spoilt' \in BOOLEAN
        BY <2>1 DEF FlashInv, TypeOK
      <3>2. cell' \in 0 .. CELLS
        BY <2>1, <1>2, Sizes
      <3> QED
        BY <2>1, <2>2, <3>1, <3>2 DEF FlashInv, TypeOK
    <2>5. WriteInv'
      <3>1. \A c \in Cell : c < cell + 1 => page'[Used][c] = params[c]
        BY <2>3, <1>1, <1>2, Sizes DEF FlashInv, WriteInv
      <3> QED
        BY <3>1, <2>1, <1>1, <1>2, <1>3, Sizes DEF WriteInv
    <2>6. IndexInv'
      BY <1>1 DEF FlashInv, IndexInv
    <2>7. ErasedInv'
      <3>1. ASSUME ~ spoilt
            PROVE  /\ \A s \in Slot : s > Used => page'[s] = Blank
                   /\ \A c \in Cell : c >= cell + 1 => page'[Used][c] = Erased
        BY <3>1, <2>3, <1>1, <1>2, Sizes DEF FlashInv, ErasedInv
      <3>2. ~ failed' /\ pc' \in {"data", "index"}
        BY <2>1, <1>2
      <3> QED
        BY <3>1, <3>2, <2>1, <1>1 DEF FlashInv, ErasedInv
    <2> QED
      BY <2>4, <2>5, <2>6, <2>7, <1>3 DEF FlashInv, FailsOnlyOnSpoiltPage
  <1>5. CASE ~ Programmable
    <2>1. UNCHANGED <<page, cell>> /\ failed' /\ pc' = "index" /\ failed' \in BOOLEAN
      BY <1>5
    <2>2. spoilt
      BY <1>5, <1>1, <1>2 DEF FlashInv, ErasedInv, Programmable
    <2>3. TypeOK'
      BY <2>1 DEF FlashInv, TypeOK
    <2>4. WriteInv' /\ IndexInv' /\ ErasedInv'
      BY <2>1, <2>2, <1>1 DEF FlashInv, WriteInv, IndexInv, ErasedInv
    <2> QED
      BY <2>3, <2>4, <1>3 DEF FlashInv, FailsOnlyOnSpoiltPage
  <1> QED
    BY <1>4, <1>5

\* The index word of a slot that has been written takes it into use; after an
\* error it is left alone.
LEMMA ProgramIndexFlashInv ==
  ASSUME FlashInv, ProgramIndex
  PROVE  FlashInv'
  <1> USE DEF ProgramIndex
  <1>1. Used \in Nat /\ Used < SLOTS /\ offset = Used /\ Used \in Slot
    BY UsedFacts, Sizes DEF FlashInv, WriteInv, IsPrefix
  <1>2. index \in [Slot -> BOOLEAN] /\ failed \in BOOLEAN
    BY DEF FlashInv, TypeOK
  <1>3. index' \in [Slot -> BOOLEAN]
        /\ \A s \in Slot : index'[s] <=> index[s] \/ (s = Used /\ ~ failed)
    BY <1>1, <1>2, Zenon
  <1>4. TypeOK'
    BY <1>3 DEF FlashInv, TypeOK
  <1>5. WriteInv'
    BY DEF WriteInv
  <1>6. CASE failed
    <2>1. index' = index
      <3>1. \A s \in Slot : index'[s] <=> index[s]
        BY <1>3, <1>6
      <3> QED
        BY <3>1, <1>2, <1>3
    <2>2. Used' = Used /\ spoilt
      BY <2>1, <1>6, UsedUnchanged DEF FlashInv, ErasedInv
    <2> QED
      BY <1>4, <1>5, <2>1, <2>2
      DEF FlashInv, IndexInv, ErasedInv, FailsOnlyOnSpoiltPage
  <1>7. CASE ~ failed
    <2>1. index' = [index EXCEPT ![Used] = TRUE]
      <3>1. \A s \in Slot : index'[s] <=> [index EXCEPT ![Used] = TRUE][s]
        BY <1>1, <1>2, <1>3, <1>7, Zenon
      <3>2. [index EXCEPT ![Used] = TRUE] \in [Slot -> BOOLEAN]
        BY <1>2, Zenon
      <3> QED
        BY <3>1, <3>2, <1>3
    <2>2. ASSUME ~ torn PROVE Used' = Used + 1 /\ \A s \in Slot : s >= Used' => ~ index'[s]
      BY <2>1, <2>2, <1>1, UsedProgrammed DEF FlashInv
    <2>3. IndexInv'
      BY <2>2 DEF IndexInv
    <2>4. ErasedInv'
      BY <2>2, <1>1, Sizes DEF FlashInv, ErasedInv
    <2> QED
      BY <1>4, <1>5, <1>7, <2>3, <2>4 DEF FlashInv, FailsOnlyOnSpoiltPage
  <1> QED
    BY <1>6, <1>7

\* What is left of a half word that was cut short is a half word.
LEMMA PartlyProgrammedTypes ==
  ASSUME FlashInv, pc = "data", PartlyProgrammed
  PROVE  page' \in [Slot -> Block] /\ \A s \in Slot : s # Used => page'[s] = page[s]
  <1> USE DEF PartlyProgrammed
  <1>1. Used \in Nat /\ Used < SLOTS /\ offset = Used /\ Used \in Slot
    BY UsedFacts, Sizes DEF FlashInv, WriteInv, IsPrefix
  <1>2. cell \in Cell /\ page \in [Slot -> Block]
    BY Sizes DEF FlashInv, WriteInv, TypeOK
  <1>3. page' = page \/ \E d \in Data : page' = [page EXCEPT ![Used][cell] = d]
    BY <1>1
  <1>4. \A d \in Data : d \in HalfWord
    BY DEF HalfWord
  <1> QED
    BY <1>1, <1>2, <1>3, <1>4 DEF Block

\* So it is after a reset ...
LEMMA CutProgramTypes ==
  ASSUME FlashInv, CutProgram
  PROVE  /\ page' \in [Slot -> Block] /\ UNCHANGED <<index, torn>>
         /\ spoilt' /\ spoilt' \in BOOLEAN
         /\ \A s \in Slot : s # Used => page'[s] = page[s]
  BY PartlyProgrammedTypes DEF CutProgram

\* ... and after a time-out, which leaves the write at its index word.
LEMMA CellTimesOutFlashInv ==
  ASSUME FlashInv, CellTimesOut
  PROVE  FlashInv'
  <1> USE DEF CellTimesOut
  <1>1. Used' = Used
    BY UsedUnchanged
  <1>2. page' \in [Slot -> Block]
    BY PartlyProgrammedTypes
  <1>3. TypeOK'
    <2>1. failed' \in BOOLEAN /\ torn' \in BOOLEAN /\ spoilt' \in BOOLEAN
      BY DEF FlashInv, TypeOK
    <2> QED
      BY <1>2, <2>1 DEF FlashInv, TypeOK
  <1>4. WriteInv'
    BY <1>1 DEF FlashInv, WriteInv
  <1>5. IndexInv' /\ ErasedInv'
    BY <1>1 DEF FlashInv, IndexInv, ErasedInv
  <1> QED
    BY <1>3, <1>4, <1>5 DEF FlashInv, FailsOnlyOnSpoiltPage, WriteInv

\* An index word that times out has been programmed or has not.
LEMMA IndexTimesOutCases ==
  ASSUME FlashInv, IndexTimesOut
  PROVE  /\ offset = Used /\ Used < SLOTS /\ Used \in Slot
         /\ index' \in [Slot -> BOOLEAN]
         /\ UNCHANGED index \/ index' = [index EXCEPT ![Used] = TRUE]
  <1>1. Used < SLOTS /\ offset = Used /\ Used \in Slot
    BY UsedFacts, Sizes DEF FlashInv, WriteInv, IsPrefix, IndexTimesOut
  <1>2. index \in [Slot -> BOOLEAN]
    BY DEF FlashInv, TypeOK
  <1>3. UNCHANGED index \/ index' = [index EXCEPT ![Used] = TRUE]
    BY <1>1 DEF IndexTimesOut
  <1>4. index' \in [Slot -> BOOLEAN]
    BY <1>2, <1>3, Zenon
  <1> QED
    BY <1>1, <1>3, <1>4

\* Nothing is promised of the slots behind it, but they are not in use.
LEMMA IndexTimesOutFlashInv ==
  ASSUME FlashInv, IndexTimesOut
  PROVE  FlashInv'
  <1>1. /\ UNCHANGED <<page, torn, params, offset, cell, failed, writes>>
        /\ spoilt' /\ spoilt' \in BOOLEAN /\ reply' = "write" /\ pc' = "idle"
    BY DEF IndexTimesOut
  <1>2. TypeOK'
    <2>1. failed' \in BOOLEAN /\ torn' \in BOOLEAN /\ spoilt' \in BOOLEAN
      BY <1>1 DEF FlashInv, TypeOK
    <2> QED
      BY <1>1, <2>1, IndexTimesOutCases DEF FlashInv, TypeOK
  <1>3. IndexInv'
    <2>1. CASE UNCHANGED index
      BY <1>1, <2>1, UsedUnchanged DEF FlashInv, IndexInv
    <2>2. CASE index' = [index EXCEPT ![Used] = TRUE]
      <3>1. ASSUME ~ torn PROVE \A s \in Slot : s >= Used' => ~ index'[s]
        BY <2>2, <3>1, IndexTimesOutCases, UsedProgrammed DEF FlashInv
      <3> QED
        BY <1>1, <3>1 DEF IndexInv
    <2> QED
      BY <2>1, <2>2, IndexTimesOutCases
  <1>4. WriteInv' /\ ErasedInv' /\ FailsOnlyOnSpoiltPage'
    BY <1>1 DEF WriteInv, ErasedInv, FailsOnlyOnSpoiltPage
  <1> QED
    BY <1>2, <1>3, <1>4 DEF FlashInv

\* A reset while the index word is programmed comes before or after it.
LEMMA CutIndexCases ==
  ASSUME FlashInv, CutIndex
  PROVE  /\ UNCHANGED <<page, torn>> /\ spoilt' /\ spoilt' \in BOOLEAN
         /\ offset = Used /\ Used < SLOTS /\ Used \in Slot
         /\ \/ UNCHANGED index
            \/ ~ failed /\ index' = [index EXCEPT ![Used] = TRUE]
  <1>1. Used < SLOTS /\ offset = Used /\ Used \in Slot
    BY UsedFacts, Sizes DEF FlashInv, WriteInv, IsPrefix, CutIndex
  <1> QED
    BY <1>1 DEF CutIndex

\* Whatever a reset leaves on the page keeps to the invariant.
LEMMA ResetPage ==
  ASSUME FlashInv, ResetFlash
  PROVE  /\ index' \in [Slot -> BOOLEAN] /\ page' \in [Slot -> Block]
         /\ torn' \in BOOLEAN /\ spoilt' \in BOOLEAN /\ IndexInv' /\ ErasedInv'
  <1>1. CASE pc = "idle" /\ UNCHANGED flashVars
    <2>1. Used' = Used
      BY <1>1, UsedUnchanged DEF flashVars
    <2> QED
      BY <1>1, <2>1 DEF FlashInv, TypeOK, IndexInv, ErasedInv, flashVars, ResetFlash
  <1>2. CASE pc = "erase" /\ PartlyErased
    BY <1>2, PartlyErasedTypes DEF IndexInv, ErasedInv
  <1>3. CASE CutProgram
    <2>1. Used' = Used
      BY <1>3, CutProgramTypes, UsedUnchanged
    <2> QED
      BY <1>3, <2>1, CutProgramTypes DEF FlashInv, TypeOK, IndexInv, ErasedInv
  <1>4. CASE CutIndex
    <2>1. CASE UNCHANGED index
      <3>1. Used' = Used
        BY <2>1, UsedUnchanged
      <3> QED
        BY <1>4, <2>1, <3>1, CutIndexCases DEF FlashInv, TypeOK, IndexInv, ErasedInv
    <2>2. CASE index' = [index EXCEPT ![Used] = TRUE]
      <3>1. index' \in [Slot -> BOOLEAN]
        <4>1. index \in [Slot -> BOOLEAN]
          BY DEF FlashInv, TypeOK
        <4> QED
          BY <2>2, <4>1, Zenon
      <3>2. IndexInv'
        <4>1. ASSUME ~ torn PROVE \A s \in Slot : s >= Used' => ~ index'[s]
          BY <1>4, <2>2, <4>1, CutIndexCases, UsedProgrammed DEF FlashInv
        <4> QED
          BY <1>4, <4>1, CutIndexCases DEF IndexInv
      <3> QED
        BY <1>4, <3>1, <3>2, CutIndexCases DEF FlashInv, TypeOK, ErasedInv
    <2> QED
      BY <1>4, <2>1, <2>2, CutIndexCases
  <1> QED
    BY <1>1, <1>2, <1>3, <1>4 DEF ResetFlash

\* So the program that starts finds the invariant to hold.
LEMMA ResetFlashInv ==
  ASSUME FlashInv, ResetFlash, params' \in Block
  PROVE  FlashInv'
  <1>1. index' \in [Slot -> BOOLEAN] /\ page' \in [Slot -> Block]
        /\ torn' \in BOOLEAN /\ spoilt' \in BOOLEAN /\ IndexInv' /\ ErasedInv'
    BY ResetPage
  <1>2. TypeOK'
    <2>1. failed' \in BOOLEAN
      BY DEF ResetFlash
    <2>2. offset' \in 0 .. SLOTS /\ cell' \in 0 .. CELLS /\ writes' \in 0 .. MAX_WRITE
      BY Sizes DEF ResetFlash
    <2> QED
      BY <1>1, <2>1, <2>2 DEF ResetFlash, TypeOK
  <1>3. WriteInv' /\ FailsOnlyOnSpoiltPage'
    BY DEF ResetFlash, WriteInv, FailsOnlyOnSpoiltPage
  <1> QED
    BY <1>1, <1>2, <1>3 DEF FlashInv

\* No step of vexflash.c, and no reset, leaves the invariant.
LEMMA NextFlashInv == FlashInv /\ [Next]_vars => FlashInv'
  <1> SUFFICES ASSUME FlashInv, [Next]_vars PROVE FlashInv'
    OBVIOUS
  <1>1. CASE \E b \in Block : vexFlashUserParamWrite(b)
    BY <1>1, RefusedFlashInv, StartWriteFlashInv
  <1>2. CASE WriteStep
    BY <1>2, EraseFlashInv, EraseFailsFlashInv, ProgramCellFlashInv, CellTimesOutFlashInv,
       ProgramIndexFlashInv, IndexTimesOutFlashInv
    DEF WriteStep
  <1>3. CASE Reset
    BY <1>3, ResetFlashInv DEF Reset
  <1>4. CASE UNCHANGED vars
    <2>1. Used' = Used
      BY <1>4, UsedUnchanged DEF vars, flashVars
    <2> QED
      BY <1>4, <2>1 DEF vars, flashVars, runVars, FlashInv, TypeOK, WriteInv, IndexInv,
                        ErasedInv, FailsOnlyOnSpoiltPage
  <1> QED
    BY <1>1, <1>2, <1>3, <1>4 DEF Next

\* The invariant holds throughout every run of the driver.
LEMMA FlashInvariant == Spec => []FlashInv
  BY InitFlashInv, NextFlashInv, PTL DEF Spec, Init

\* The driver's variables, the page and the index keep their types.
THEOREM FlashTypeCorrect == Spec => []TypeOK
  <1>1. FlashInv => TypeOK
    BY DEF FlashInv
  <1> QED
    BY <1>1, FlashInvariant, PTL

\* FLASH_ERROR_WRITE is only returned on a page on which this write, or an earlier
\* write or erase, was cut short by a reset or a time-out of the flash.
THEOREM FlashFailsOnlyOnSpoiltPage == Spec => []FailsOnlyOnSpoiltPage
  <1>1. FlashInv => FailsOnlyOnSpoiltPage
    BY DEF FlashInv
  <1> QED
    BY <1>1, FlashInvariant, PTL

-----------------------------------------------------------------------------
(* The driver implements ParamStore, under the mapping of VexFlash!Store.  *)

\* What is read from the page is a block.
LEMMA StoredInBlock ==
  index \in [Slot -> BOOLEAN] /\ page \in [Slot -> Block]
    => Stored \in Block /\ SLOTS - Used \in 0 .. SLOTS
  <1> SUFFICES ASSUME index \in [Slot -> BOOLEAN], page \in [Slot -> Block]
               PROVE  Stored \in Block /\ SLOTS - Used \in 0 .. SLOTS
    OBVIOUS
  <1>1. Used \in 0 .. SLOTS
    BY PrefixExists, UsedIsPrefix DEF IsPrefix
  <1>2. Used # 0 => Used - 1 \in Slot
    BY <1>1, Sizes
  <1>3. Blank \in Block
    BY DEF Blank, Block, HalfWord
  <1>4. Stored \in Block
    BY <1>2, <1>3 DEF Stored
  <1> QED
    BY <1>1, <1>4, Sizes

\* So it is after a step.
LEMMA StoredInBlockPrimed ==
  index' \in [Slot -> BOOLEAN] /\ page' \in [Slot -> Block]
    => Stored' \in Block /\ SLOTS - Used' \in 0 .. SLOTS
  <1>1. (index \in [Slot -> BOOLEAN] /\ page \in [Slot -> Block]
           => Stored \in Block /\ SLOTS - Used \in 0 .. SLOTS)'
    BY StoredInBlock, PTL
  <1> QED
    BY <1>1

\* What is programmed into the slot behind the current one cannot be read yet.
LEMMA StoredUnchanged ==
  ASSUME TypeOK, UNCHANGED index, \A s \in Slot : s # Used => page'[s] = page[s]
  PROVE  UNCHANGED Used /\ UNCHANGED Stored
  <1>1. Used \in 0 .. SLOTS
    BY UsedFacts DEF IsPrefix
  <1>2. Used # 0 => Used - 1 \in Slot /\ Used - 1 # Used
    BY <1>1, Sizes
  <1>3. UNCHANGED Used
    BY UsedUnchanged
  <1> QED
    BY <1>2, <1>3 DEF Stored

\* The index word of a slot that has been written in full makes it the one
\* that is read, and takes one slot.
LEMMA StoredProgrammed ==
  ASSUME FlashInv, pc = "index", ~ failed, ~ torn, UNCHANGED page,
         index' = [index EXCEPT ![Used] = TRUE]
  PROVE  Stored' = params /\ SLOTS - Used' = (SLOTS - Used) - 1
  <1>1. Used \in Nat /\ Used < SLOTS /\ offset = Used /\ Used \in Slot
    BY UsedFacts, Sizes DEF FlashInv, WriteInv, IsPrefix
  <1>2. Used' = Used + 1
    BY <1>1, UsedProgrammed DEF FlashInv
  <1>3. page[Used] \in Block /\ params \in Block
    BY <1>1 DEF FlashInv, TypeOK
  <1>4. \A c \in Cell : page[Used][c] = params[c]
    BY <1>1, Sizes DEF FlashInv, WriteInv
  <1>5. page[Used] = params
    BY <1>3, <1>4 DEF Block
  <1> QED
    BY <1>1, <1>2, <1>5, Sizes DEF Stored

\* A call of vexFlashUserParamWrite is refused or begins a write.
LEMMA CallRefines ==
  ASSUME FlashInv, NEW b \in Block, vexFlashUserParamWrite(b)
  PROVE  Store!Refuse \/ Store!Begin
  <1> USE DEF vexFlashUserParamWrite, flashVars
  <1>1. UNCHANGED <<index, page, torn>> /\ pc = "idle" /\ params' \in Block
    BY DEF StartWrite
  <1>2. UNCHANGED Used /\ UNCHANGED Stored /\ Used \in 0 .. SLOTS
    BY <1>1, StoredUnchanged, UsedFacts DEF FlashInv, IsPrefix
  <1>3. CASE Refused
    BY <1>1, <1>2, <1>3 DEF Store!Refuse
  <1>4. CASE ~ Refused
    <2>1. pc' # "idle" /\ reply' = "none" /\ pc' # "late" /\ (pc' # "erase" <=> SLOTS - Used > 0)
      BY <1>2, <1>4, Sizes DEF StartWrite
    <2>2. (~ torn' /\ pc' \notin {"erase", "late"}) = ((~ torn /\ pc \notin {"erase", "late"}) /\ SLOTS - Used > 0)
      BY <1>1, <2>1
    <2> QED
      BY <1>1, <1>2, <2>1, <2>2, <1>4 DEF Store!Begin, StartWrite
  <1> QED
    BY <1>3, <1>4

\* Erasing the page makes room; failing to do so loses the block.
LEMMA EraseRefines ==
  ASSUME FlashInv, FlashInv', FLASH_ErasePage \/ EraseFails
  PROVE  Store!MakeRoom \/ Store!NoRoom
  <1>1. CASE FLASH_ErasePage
    <2>1. Used' = 0
      BY <1>1, UsedErased DEF FLASH_ErasePage
    <2>2. Stored' = Blank /\ SLOTS - Used' = SLOTS
      BY <2>1, Sizes DEF Stored
    <2>3. (~ torn' /\ pc' \notin {"erase", "late"}) = TRUE /\ (pc' # "idle") = (pc # "idle")
      BY <1>1 DEF FLASH_ErasePage
    <2> QED
      BY <1>1, <2>2, <2>3 DEF FLASH_ErasePage, Store!MakeRoom
  <1>2. CASE EraseFails
    <2>1. torn' /\ pc = "erase" /\ pc' = "idle" /\ reply' = "erase" /\ UNCHANGED params
      BY <1>2, PartlyErasedTypes DEF EraseFails
    <2>2. (~ torn' /\ pc' \notin {"erase", "late"}) = (~ torn /\ pc \notin {"erase", "late"})
      BY <2>1
    <2> QED
      BY <2>1, <2>2, StoredInBlockPrimed
      DEF FlashInv, TypeOK, Store!NoRoom, Store!Return, Store!Anything
  <1> QED
    BY <1>1, <1>2

\* Programming half words of the next slot cannot be told from doing nothing.
LEMMA ProgramCellRefines ==
  ASSUME FlashInv, ProgramCell
  PROVE  UNCHANGED Store!vars
  <1>1. offset = Used /\ Used \in Slot /\ cell \in Cell /\ page \in [Slot -> Block]
    BY UsedFacts, Sizes DEF ProgramCell, FlashInv, TypeOK, WriteInv, IsPrefix
  <1>2. \A s \in Slot : s # Used => page'[s] = page[s]
    BY <1>1 DEF ProgramCell
  <1>3. UNCHANGED Used /\ UNCHANGED Stored
    BY <1>2, StoredUnchanged DEF ProgramCell, FlashInv
  <1>4. (~ torn' /\ pc' \notin {"erase", "late"}) = (~ torn /\ pc \notin {"erase", "late"}) /\ (pc' # "idle") = (pc # "idle")
    BY DEF ProgramCell
  <1> QED
    BY <1>3, <1>4 DEF ProgramCell, Store!vars

\* A half word that times out is a fault of the flash.
LEMMA CellTimesOutRefines ==
  ASSUME FlashInv, CellTimesOut
  PROVE  Store!Fault
  <1> USE DEF CellTimesOut
  <1>1. \A s \in Slot : s # Used => page'[s] = page[s]
    BY PartlyProgrammedTypes
  <1>2. UNCHANGED Used /\ UNCHANGED Stored
    BY <1>1, StoredUnchanged DEF FlashInv
  <1>3. (~ torn' /\ pc' \notin {"erase", "late"}) = FALSE /\ (pc' # "idle") = (pc # "idle")
    OBVIOUS
  <1> QED
    BY <1>2, <1>3 DEF Store!Fault

\* An index word that times out leaves the old block, or the new one; of an
\* unfinished one, anything.
LEMMA IndexTimesOutRefines ==
  ASSUME FlashInv, FlashInv', IndexTimesOut
  PROVE  Store!Fail
  <1>1. /\ pc \in {"index", "late"} /\ ~ failed /\ pc' = "idle" /\ reply' = "write"
        /\ UNCHANGED <<page, torn, params>>
    BY DEF IndexTimesOut
  <1>2. (pc # "idle") = TRUE /\ (pc' # "idle") = FALSE
    BY <1>1
  <1>3. Store!Return("write")
    BY <1>1, <1>2 DEF Store!Return
  <1>4. Store!Anything /\ (~ torn' /\ pc' \notin {"erase", "late"}) \in BOOLEAN
    BY StoredInBlockPrimed DEF FlashInv, TypeOK, Store!Anything
  <1>5. CASE torn \/ pc = "late"
    <2>1. ~ (~ torn /\ pc \notin {"erase", "late"})
      BY <1>5
    <2> QED
      BY <1>3, <1>4, <2>1 DEF Store!Fail
  <1>6. CASE ~ torn /\ pc = "index"
    <2>1. /\ ~ torn /\ pc \notin {"erase", "late"}
          /\ (~ torn' /\ pc' \notin {"erase", "late"}) = (~ torn /\ pc \notin {"erase", "late"})
      BY <1>1, <1>6
    <2>2. CASE UNCHANGED index
      <3>1. UNCHANGED Used /\ UNCHANGED Stored
        BY <1>1, <2>2, StoredUnchanged DEF FlashInv
      <3> QED
        BY <1>3, <2>1, <3>1 DEF Store!Fail
    <2>3. CASE index' = [index EXCEPT ![Used] = TRUE]
      <3>1. Stored' = params /\ SLOTS - Used' = (SLOTS - Used) - 1
        BY <1>1, <1>6, <2>3, StoredProgrammed
      <3> QED
        BY <1>3, <2>1, <3>1 DEF Store!Fail
    <2> QED
      BY <2>2, <2>3, IndexTimesOutCases
  <1> QED
    BY <1>1, <1>5, <1>6

\* Programming the index word commits the block, after an error it fails.
LEMMA ProgramIndexRefines ==
  ASSUME FlashInv, FlashInv', ProgramIndex
  PROVE  Store!Commit \/ Store!Fail
  <1> USE DEF ProgramIndex
  <1>1. offset = Used /\ Used \in Slot /\ index \in [Slot -> BOOLEAN] /\ failed \in BOOLEAN
    BY UsedFacts, Sizes DEF FlashInv, TypeOK, WriteInv, IsPrefix
  <1>2. (~ torn' /\ pc' \notin {"erase", "late"}) = (~ torn /\ pc \notin {"erase", "late"})
    OBVIOUS
  <1>3. pc # "idle" /\ (pc' # "idle") = FALSE /\ UNCHANGED params
    OBVIOUS
  <1>4. CASE failed
    <2>1. index' = index
      BY <1>1, <1>4, Zenon
    <2>2. UNCHANGED Used /\ UNCHANGED Stored
      BY <2>1, StoredUnchanged DEF FlashInv
    <2> QED
      BY <1>2, <1>3, <1>4, <2>2 DEF Store!Fail, Store!Return
  <1>5. CASE ~ failed
    <2>1. index' = [index EXCEPT ![Used] = TRUE]
      BY <1>1, <1>5, Zenon
    <2>2. ASSUME ~ torn PROVE Stored' = params /\ SLOTS - Used' = (SLOTS - Used) - 1
      BY <1>5, <2>1, <2>2, StoredProgrammed
    <2> QED
      BY <1>2, <1>3, <1>5, <2>2, StoredInBlockPrimed
      DEF FlashInv, TypeOK, Store!Commit, Store!Return, Store!Anything
  <1> QED
    BY <1>4, <1>5

\* A reset keeps the block or stores the one that is being written, unless it
\* comes in the middle of an erase.
LEMMA ResetRefines ==
  ASSUME FlashInv, FlashInv', ResetFlash, params' \in Block
  PROVE  Store!Reset
  <1>1. (pc' # "idle") = FALSE /\ reply' = "none" /\ pc' = "idle"
    BY DEF ResetFlash
  <1>2. Store!Anything /\ (~ torn' /\ pc' \notin {"erase", "late"}) \in BOOLEAN
    BY StoredInBlockPrimed DEF FlashInv, TypeOK, Store!Anything
  <1>3. CASE (pc = "idle" /\ UNCHANGED flashVars) \/ CutProgram
    <2>1. UNCHANGED <<index, torn>> /\ pc \notin {"erase", "late"}
      BY <1>3, CutProgramTypes DEF flashVars, CutProgram
    <2>2. \A s \in Slot : s # Used => page'[s] = page[s]
      BY <1>3, CutProgramTypes DEF flashVars
    <2>3. UNCHANGED Used /\ UNCHANGED Stored
      BY <2>1, <2>2, StoredUnchanged DEF FlashInv
    <2>4. (~ torn' /\ pc' \notin {"erase", "late"}) = (~ torn /\ pc \notin {"erase", "late"})
      BY <2>1, <1>1
    <2> QED
      BY <1>1, <1>2, <2>3, <2>4 DEF Store!Reset
  <1>4. CASE pc = "erase" /\ PartlyErased
    <2>1. (~ torn' /\ pc' \notin {"erase", "late"}) = (~ torn /\ pc \notin {"erase", "late"})
      BY <1>1, <1>4, PartlyErasedTypes
    <2> QED
      BY <1>1, <1>2, <1>4, <2>1 DEF Store!Reset
  <1>5. CASE CutIndex /\ pc = "late"
    <2>1. ~ (~ torn /\ pc \notin {"erase", "late"})
      BY <1>5
    <2> QED
      BY <1>1, <1>2, <2>1 DEF Store!Reset
  <1>6. CASE CutIndex /\ pc = "index"
    <2>1. pc = "index" /\ UNCHANGED <<page, torn>>
      BY <1>6, CutIndexCases
    <2>2. (~ torn' /\ pc' \notin {"erase", "late"}) = (~ torn /\ pc \notin {"erase", "late"})
      BY <2>1, <1>1
    <2>3. CASE UNCHANGED index
      <3>1. UNCHANGED Used /\ UNCHANGED Stored
        BY <2>1, <2>3, StoredUnchanged DEF FlashInv
      <3> QED
        BY <1>1, <1>2, <2>2, <3>1 DEF Store!Reset
    <2>4. CASE ~ failed /\ index' = [index EXCEPT ![Used] = TRUE]
      <3>1. ASSUME ~ torn PROVE Stored' = params /\ SLOTS - Used' = (SLOTS - Used) - 1
        BY <2>1, <2>4, <3>1, StoredProgrammed
      <3> QED
        BY <1>1, <1>2, <2>1, <2>2, <3>1 DEF Store!Reset
    <2> QED
      BY <1>6, <2>3, <2>4, CutIndexCases
  <1> QED
    BY <1>3, <1>4, <1>5, <1>6 DEF ResetFlash, CutIndex

\* The driver implements the store of ParamStore: a block that was reported as
\* written is what every later start reads, until another one is, and a reset
\* leaves the old block or the new one; only the erase of a full page, or a
\* time-out of the flash, can lose the block.
THEOREM FlashRefinesStore == Spec => RefinesStore
  <1>1. Init => Store!Init
    <2> SUFFICES ASSUME Init PROVE Store!Init
      OBVIOUS
    <2>1. TypeOK
      BY InitFlashInv DEF Init, FlashInv
    <2>2. (~ torn /\ pc \notin {"erase", "late"}) = TRUE /\ (pc # "idle") = FALSE
      BY DEF Init, InitRun
    <2> QED
      BY <2>1, <2>2, StoredInBlock DEF Init, InitRun, TypeOK, Store!Init
  <1>2. FlashInv /\ FlashInv' /\ [Next]_vars => [Store!Next]_(Store!vars)
    <2> SUFFICES ASSUME FlashInv, FlashInv', [Next]_vars
                 PROVE  Store!Next \/ UNCHANGED Store!vars
      OBVIOUS
    <2>1. CASE \E b \in Block : vexFlashUserParamWrite(b)
      BY <2>1, CallRefines DEF Store!Next
    <2>2. CASE WriteStep
      BY <2>2, EraseRefines, ProgramCellRefines, CellTimesOutRefines, ProgramIndexRefines,
         IndexTimesOutRefines
      DEF WriteStep, Store!Next
    <2>3. CASE Reset
      BY <2>3, ResetRefines DEF Reset, Store!Next
    <2>4. CASE UNCHANGED vars
      <3>1. UNCHANGED Used /\ UNCHANGED Stored
        BY <2>4, StoredUnchanged DEF vars, flashVars, FlashInv
      <3> QED
        BY <2>4, <3>1 DEF vars, flashVars, runVars, Store!vars
    <2> QED
      BY <2>1, <2>2, <2>3, <2>4 DEF Next
  <1> QED
    BY <1>1, <1>2, FlashInvariant, PTL DEF Spec, RefinesStore, Store!Spec
=============================================================================
