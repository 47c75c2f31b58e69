---------------------------- MODULE LcdMenuProof ----------------------------
(***************************************************************************)
(* Proofs about LcdMenu: the LCD thread is a client of the parameter       *)
(* flash, so what VexFlashProof shows of the flash holds of the two        *)
(* together; and the mode that is stored is the one on the display.        *)
(***************************************************************************)
EXTENDS LcdMenu, VexFlashProof

\* What the thread knows of the write it is in.
LcdInv ==
  /\ LcdTypeOK
  /\ lcdPc = "write" <=> pc # "idle"
  /\ lcdPc \in {"held", "write"} => unsaved
  /\ lcdPc = "write" => params[0] = mode
  /\ SelectionSurvives

\* A mode is a half word, and neither the erased one nor zero.
LEMMA ModeFacts ==
  /\ MODES \in Nat /\ MODES > 0 /\ 0 \in Mode
  /\ \A m \in Mode : m \in Nat /\ m < MODES /\ m \in HalfWord /\ m # Zero /\ m # Erased
  BY ModesAssumption, FlashAssumption DEF Mode, HalfWord

\* lcdInit finds a mode, and makes of a block another block.
LEMMA InitialFacts ==
  ASSUME NEW b \in Block
  PROVE  InitialMode(b) \in Mode /\ InitialParams(b) \in Block
  <1>1. Zero \in HalfWord
    BY FlashAssumption DEF HalfWord
  <1>2. InitialMode(b) \in Mode
    BY ModeFacts DEF InitialMode
  <1>3. InitialParams(b) \in Block
    BY <1>1, Sizes DEF InitialParams, Block
  <1> QED
    BY <1>2, <1>3

\* The block that lcdRead stores.
LEMMA SelectedBlock ==
  ASSUME params \in Block, mode \in Mode
  PROVE  [params EXCEPT ![0] = mode] \in Block /\ [params EXCEPT ![0] = mode][0] = mode
  BY ModeFacts, Sizes DEF Block

\* Both ends of the list of modes wrap.
LEMMA TurnedIsMode ==
  ASSUME mode \in Mode, NEW button \in {"left", "right"}
  PROVE  Turned(button) \in Mode
  BY ModesAssumption DEF Turned, Mode

-----------------------------------------------------------------------------
(* The thread as a client of the flash.                                    *)

\* Every step of the thread is a step of vexflash.c, or leaves it alone.
LEMMA LcdStepIsFlashStep ==
  ASSUME FlashInv, mode \in Mode, [LcdNext]_allVars
  PROVE  [Next]_vars
  <1>1. CASE lcdStart \/ (\E button \in {"left", "right"} : lcdPress(button)) \/ PhaseEnd
    BY <1>1 DEF lcdStart, lcdPress, PhaseEnd
  <1>2. CASE lcdRelease
    <2>1. [params EXCEPT ![0] = mode] \in Block
      BY SelectedBlock DEF FlashInv, TypeOK
    <2> QED
      BY <1>2, <2>1 DEF lcdRelease, Next
  <1>3. CASE lcdWriteStep
    BY <1>3 DEF lcdWriteStep, Next
  <1>4. CASE PowerCycle
    <2>1. Stored' \in Block
      BY <1>4, ResetPage, StoredInBlockPrimed DEF PowerCycle
    <2> QED
      BY <1>4, <2>1, InitialFacts DEF PowerCycle, Reset, Next
  <1>5. CASE UNCHANGED allVars
    BY <1>5 DEF allVars
  <1> QED
    BY <1>1, <1>2, <1>3, <1>4, <1>5 DEF LcdNext

\* The program starts with the page and the RAM copy of the flash's Init.
LEMMA LcdInitIsFlashInit == LcdInit => Init /\ LcdInv
  <1> SUFFICES ASSUME LcdInit PROVE Init /\ LcdInv
    OBVIOUS
  <1> USE DEF LcdInit
  <1>1. index \in [Slot -> BOOLEAN] /\ page \in [Slot -> Block]
    <2>1. CASE index = [s \in Slot |-> FALSE] /\ page = [s \in Slot |-> Blank]
      <3>1. Blank \in Block
        BY DEF Blank, Block, HalfWord
      <3> QED
        BY <2>1, <3>1, Zenon
    <2>2. CASE /\ index = [s \in Slot |-> s = 0]
               /\ \E b \in Block : page = [s \in Slot |-> IF s = 0 THEN b ELSE Blank]
      <3>1. index \in [Slot -> BOOLEAN]
        BY <2>2, Zenon
      <3>2. page \in [Slot -> Block]
        BY <2>2 DEF Blank, Block, HalfWord
      <3> QED
        BY <3>1, <3>2
    <2> QED
      BY <2>1, <2>2 DEF InitPage
  <1>2. Stored \in Block
    BY <1>1, StoredInBlock
  <1>3. mode \in Mode /\ params \in Block
    BY <1>2, InitialFacts
  <1>4. TypeOK
    BY <1>3, InitFlashInv DEF FlashInv
  <1>5. LcdTypeOK
    BY <1>3, <1>4 DEF LcdTypeOK
  <1> QED
    BY <1>3, <1>5 DEF Init, InitRun, LcdInv, SelectionSurvives

-----------------------------------------------------------------------------
(* The mode that is stored.                                                *)

\* A write starts with the mode on the display in the RAM copy.
LEMMA lcdReleaseInv ==
  ASSUME FlashInv, FlashInv', LcdInv, lcdRelease
  PROVE  LcdInv'
  <1> DEFINE b == [params EXCEPT ![0] = mode]
  <1>1. unsaved /\ mode \in Mode /\ params \in Block
    BY DEF LcdInv, LcdTypeOK, TypeOK, lcdRelease
  <1>2. vexFlashUserParamWrite(b) /\ Goes /\ b[0] = mode
    BY <1>1, SelectedBlock DEF lcdRelease
  <1>3. params'[0] = mode /\ mode' = mode /\ reply' \in {"limit", "none"}
    BY <1>2 DEF vexFlashUserParamWrite, StartWrite, Goes
  <1>4. unsaved'
    BY <1>1, <1>2, <1>3 DEF Goes
  <1>5. (lcdPc' = "write" <=> pc' # "idle") /\ lcdPc' \in {"off", "poll", "held", "write"}
    BY <1>2 DEF Goes
  <1>6. unsaved' \in BOOLEAN
    BY <1>2 DEF Goes
  <1>7. LcdTypeOK'
    BY <1>1, <1>3, <1>5, <1>6 DEF LcdTypeOK, FlashInv
  <1> QED
    BY <1>3, <1>4, <1>5, <1>7 DEF LcdInv, SelectionSurvives

\* The mode is marked as stored by the step that makes its block the one that
\* is read.
LEMMA lcdWriteStepInv ==
  ASSUME FlashInv, FlashInv', LcdInv, lcdWriteStep
  PROVE  LcdInv'
  <1> USE DEF lcdWriteStep
  <1>1. unsaved /\ mode \in Mode /\ params[0] = mode /\ Goes
    BY DEF LcdInv, LcdTypeOK
  <1>2. UNCHANGED <<params, mode>>
    BY <1>1 DEF WriteStep, FLASH_ErasePage, EraseFails, ProgramCell, CellTimesOut,
                ProgramIndex, IndexTimesOut, Goes
  <1>3. unsaved' \in BOOLEAN /\ (unsaved' <=> reply' # "success")
    BY <1>1 DEF Goes
  <1>4. (lcdPc' = "write" <=> pc' # "idle") /\ lcdPc' \in {"poll", "write"}
    BY <1>1 DEF Goes
  <1>5. LcdTypeOK'
    BY <1>1, <1>2, <1>3, <1>4 DEF LcdTypeOK, FlashInv
  <1>6. ASSUME reply' = "success", ~ torn' PROVE InitialMode(Stored') = mode
    <2>1. ProgramIndex
      BY <1>6 DEF WriteStep, FLASH_ErasePage, EraseFails, ProgramCell, CellTimesOut,
                  IndexTimesOut, FlashInv, WriteInv
    <2>2. ~ failed /\ ~ torn /\ UNCHANGED page /\ pc = "index"
      BY <1>6, <2>1 DEF ProgramIndex
    <2>3. offset = Used /\ index \in [Slot -> BOOLEAN]
      BY <2>2 DEF FlashInv, WriteInv, TypeOK
    <2>4. index' = [index EXCEPT ![Used] = TRUE]
      BY <2>1, <2>2, <2>3, Zenon DEF ProgramIndex
    <2>5. Stored' = params
      BY <2>2, <2>4, StoredProgrammed
    <2> QED
      BY <1>1, <2>5 DEF InitialMode
  <1>7. pc' # "idle" => unsaved'
    BY <1>1, <1>3 DEF WriteStep, FLASH_ErasePage, EraseFails, ProgramCell, CellTimesOut,
                      ProgramIndex, IndexTimesOut, FlashInv, WriteInv
  <1>8. SelectionSurvives'
    BY <1>2, <1>3, <1>6 DEF SelectionSurvives
  <1> QED
    BY <1>1, <1>2, <1>4, <1>5, <1>7, <1>8 DEF LcdInv

\* No step of the thread, no phase change and no reset leaves the invariant.
LEMMA LcdNextInv ==
  ASSUME FlashInv, FlashInv', LcdInv, [LcdNext]_allVars
  PROVE  LcdInv'
  <1>1. CASE lcdStart \/ PhaseEnd \/ UNCHANGED allVars
    <2>1. UNCHANGED vars /\ UNCHANGED <<mode, unsaved>>
      BY <1>1 DEF lcdStart, PhaseEnd, allVars, lcdVars
    <2>2. UNCHANGED Used /\ UNCHANGED Stored
      BY <2>1, StoredUnchanged DEF vars, flashVars, FlashInv
    <2>3. \/ lcdPc' \in {"off", "poll"} /\ (lcdPc = "held" => unsaved) /\ pc = "idle"
          \/ UNCHANGED lcdPc
      BY <1>1 DEF lcdStart, PhaseEnd, allVars, lcdVars, LcdInv
    <2>4. LcdTypeOK'
      BY <2>1, <2>3 DEF LcdInv, LcdTypeOK, FlashInv
    <2>5. SelectionSurvives'
      BY <1>1, <2>1, <2>2, <2>3
      DEF LcdInv, SelectionSurvives, InitialMode, vars, flashVars, lcdStart, PhaseEnd
    <2> QED
      BY <2>1, <2>3, <2>4, <2>5 DEF LcdInv, vars, runVars
  <1>2. CASE \E button \in {"left", "right"} : lcdPress(button)
    <2>1. PICK button \in {"left", "right"} : lcdPress(button)
      BY <1>2
    <2>2. mode' \in Mode /\ unsaved' /\ unsaved' \in BOOLEAN /\ lcdPc' = "held" /\ pc' = "idle"
      BY <2>1, TurnedIsMode DEF lcdPress, LcdInv, LcdTypeOK, vars, runVars
    <2> QED
      BY <2>2 DEF LcdInv, LcdTypeOK, SelectionSurvives, FlashInv
  <1>3. CASE PowerCycle
    <2>1. Stored' \in Block
      BY <1>3, ResetPage, StoredInBlockPrimed DEF PowerCycle
    <2>2. mode' \in Mode /\ mode' = InitialMode(Stored') /\ lcdPc' = "off" /\ pc' = "idle"
          /\ unsaved' \in BOOLEAN
      BY <1>3, <2>1, InitialFacts DEF PowerCycle, ResetFlash
    <2> QED
      BY <2>2 DEF LcdInv, LcdTypeOK, SelectionSurvives, FlashInv
  <1> QED
    BY <1>1, <1>2, <1>3, lcdReleaseInv, lcdWriteStepInv DEF LcdNext

\* Both invariants hold throughout every run.
LEMMA LcdInvariant == LcdSpec => [](FlashInv /\ LcdInv)
  <1>1. LcdInit => FlashInv /\ LcdInv
    BY LcdInitIsFlashInit, InitFlashInv DEF Init
  <1>2. FlashInv /\ LcdInv /\ [LcdNext]_allVars => (FlashInv /\ LcdInv)'
    <2> SUFFICES ASSUME FlashInv, LcdInv, [LcdNext]_allVars PROVE (FlashInv /\ LcdInv)'
      OBVIOUS
    <2>1. FlashInv'
      BY LcdStepIsFlashStep, NextFlashInv DEF LcdInv, LcdTypeOK
    <2> QED
      BY <2>1, LcdNextInv
  <1> QED
    BY <1>1, <1>2, PTL DEF LcdSpec

\* The LCD thread on top of the flash implements the specification of the
\* flash alone: it calls the driver only as the driver may be called.
THEOREM LcdImplementsFlash == LcdSpec => Spec
  <1>1. LcdInit => Init
    BY LcdInitIsFlashInit
  <1>2. FlashInv /\ LcdInv /\ [LcdNext]_allVars => [Next]_vars
    BY LcdStepIsFlashStep DEF LcdInv, LcdTypeOK
  <1> QED
    BY <1>1, <1>2, LcdInvariant, PTL DEF LcdSpec, Spec

\* The thread's variables and the driver's keep their types: the mode stays in
\* the list whichever way it is turned and whatever is found in the flash.
THEOREM LcdTypeCorrect == LcdSpec => []LcdTypeOK
  <1>1. LcdInv => LcdTypeOK
    BY DEF LcdInv
  <1> QED
    BY <1>1, LcdInvariant, PTL

\* The mode on the display is the one the program would start with after a
\* reset, unless storing it was prevented.
THEOREM LcdSelectionSurvives == LcdSpec => []SelectionSurvives
  <1>1. LcdInv => SelectionSurvives
    BY DEF LcdInv
  <1> QED
    BY <1>1, LcdInvariant, PTL

\* What lcd.c stores is kept as ParamStore promises, and a write of its own
\* fails only on a spoilt page.
THEOREM LcdKeepsStore == LcdSpec => RefinesStore /\ []FailsOnlyOnSpoiltPage
  BY LcdImplementsFlash, FlashRefinesStore, FlashFailsOnlyOnSpoiltPage

-----------------------------------------------------------------------------
(* The slot that cannot be written.                                        *)

\* In a blocked slot a write is at its first half word, or has failed on it; it
\* does not get as far as to time out.
LEMMA BlockedFacts ==
  ASSUME FlashInv, LcdInv, Blocked
  PROVE  /\ Used \in Slot /\ pc # "erase"
         /\ pc = "data" => offset = Used /\ cell = 0 /\ ~ Programmable
         /\ pc = "index" => failed
         /\ pc # "late"
  <1>1. Used \in Slot /\ pc # "erase"
    BY UsedFacts, Sizes DEF FlashInv, Blocked, WriteInv, IsPrefix
  <1>2. pc = "data" => offset = Used /\ cell = 0
    BY DEF FlashInv, Blocked, WriteInv
  <1>3. pc # "idle" => params[0] # Zero
    BY ModeFacts DEF LcdInv, LcdTypeOK
  <1>4. pc = "data" => ~ Programmable
    BY <1>2, <1>3 DEF Programmable, Blocked
  <1>5. pc = "index" => failed
    BY Sizes DEF FlashInv, Blocked, WriteInv
  <1>6. pc # "late"
    BY DEF FlashInv, Blocked, WriteInv
  <1> QED
    BY <1>1, <1>2, <1>4, <1>5, <1>6

\* A slot that a cut write has begun, with anything but erased in its first
\* half word, stays the next one: lcd.c never writes zero there, so every later
\* write fails on it, and the page is never erased.
THEOREM LcdBlockedForGood == LcdSpec => BlockedForGood
  <1>1. FlashInv /\ LcdInv /\ [LcdNext]_allVars => [Blocked => Blocked']_allVars
    <2> SUFFICES ASSUME FlashInv, LcdInv, [LcdNext]_allVars, Blocked PROVE Blocked'
      OBVIOUS
    <2>1. /\ Used \in Slot /\ pc # "erase"
          /\ pc = "data" => offset = Used /\ cell = 0 /\ ~ Programmable
          /\ pc = "index" => failed
          /\ pc # "late"
      BY BlockedFacts
    <2>2. SUFFICES /\ UNCHANGED <<index, page>>
                   /\ \/ pc' = "idle"
                      \/ cell' = 0 /\ pc' # "late"
                      \/ failed'
                      \/ UNCHANGED <<pc, cell, failed>>
      <3>1. UNCHANGED Used
        BY <2>2, UsedUnchanged
      <3> QED
        BY <2>2, <3>1 DEF Blocked
    <2>3. CASE lcdStart \/ (\E button \in {"left", "right"} : lcdPress(button))
               \/ PhaseEnd \/ UNCHANGED allVars
      BY <2>3 DEF lcdStart, lcdPress, PhaseEnd, allVars, vars, flashVars, runVars
    <2>4. CASE lcdRelease
      BY <2>4 DEF lcdRelease, vexFlashUserParamWrite, StartWrite, flashVars
    <2>5. CASE lcdWriteStep
      <3>1. CASE ProgramCell
        BY <2>1, <3>1 DEF ProgramCell
      <3>2. CASE ProgramIndex
        <4>1. index \in [Slot -> BOOLEAN] /\ failed /\ UNCHANGED page /\ pc' = "idle"
          BY <2>1, <3>2 DEF ProgramIndex, FlashInv, TypeOK
        <4>2. offset \in Slot
          BY <2>1, <3>2 DEF ProgramIndex, FlashInv, WriteInv
        <4>3. index' = index
          BY <3>2, <4>1, <4>2, Zenon DEF ProgramIndex
        <4> QED
          BY <4>1, <4>3
      <3> QED
        BY <2>1, <2>5, <3>1, <3>2
        DEF lcdWriteStep, WriteStep, FLASH_ErasePage, EraseFails, CellTimesOut, IndexTimesOut,
            Blocked
    <2>6. CASE PowerCycle
      <3>1. pc' = "idle" /\ ResetFlash
        BY <2>6 DEF PowerCycle, ResetFlash
      <3>2. CASE CutProgram
        BY <2>1, <3>1, <3>2 DEF CutProgram, PartlyProgrammed
      <3>3. CASE CutIndex
        BY <2>1, <3>1, <3>3 DEF CutIndex
      <3> QED
        BY <2>1, <3>1, <3>2, <3>3 DEF ResetFlash, flashVars
    <2> QED
      BY <2>3, <2>4, <2>5, <2>6 DEF LcdNext
  <1> QED
    BY <1>1, LcdInvariant, PTL DEF LcdSpec, BlockedForGood
=============================================================================
