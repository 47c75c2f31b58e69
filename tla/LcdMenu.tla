------------------------------- MODULE LcdMenu -------------------------------
(***************************************************************************)
(* The choice of the autonomous routine: the LCD thread of src/src/lcd.c   *)
(* on top of the parameter flash.  The driver's buttons change the mode,   *)
(* which is stored when the button is released; the program takes it from  *)
(* the flash again when it starts.  The thread is ended by every phase     *)
(* change, at whichever vexSleep it is in, and started anew by the next    *)
(* phase.                                                                  *)
(*                                                                         *)
(* data[0] and data[1], the magic number and the mode, are one half word:  *)
(* cell 0.  With the magic number it holds a mode, otherwise another value *)
(* of Data.  lcdStart's guard on the thread's age (300 ms) is not          *)
(* modelled: the user thread sleeps 500 ms before it calls lcdStart.       *)
(***************************************************************************)
EXTENDS VexFlash

CONSTANT MODES    \* kLcdModeNumber, 10

Mode == 0 .. (MODES - 1)

ASSUME ModesAssumption == MODES \in Nat \ {0} /\ Mode \subseteq Data \ {Zero}

VARIABLES
  mode,     \* lcd.mode
  lcdPc,    \* where the thread is: not running, waiting for a button, for its
            \* release, or in vexFlashUserParamWrite
  unsaved   \* the mode has been changed and not been stored since

lcdVars == <<mode, lcdPc, unsaved>>
allVars == <<vars, lcdVars>>

LcdTypeOK == /\ TypeOK
             /\ mode \in Mode
             /\ lcdPc \in {"off", "poll", "held", "write"}
             /\ unsaved \in BOOLEAN

-----------------------------------------------------------------------------
\* lcdInit: the mode the program starts with ...
InitialMode(block) == IF block[0] \in Mode THEN block[0] ELSE 0

\* ... and the RAM copy, whose first bytes are cleared if they hold no mode.
InitialParams(block) == IF block[0] \in Mode THEN block ELSE [block EXCEPT ![0] = Zero]

\* lcdStart, called by systemStartAll in every phase.
lcdStart ==
  /\ lcdPc = "off"
  /\ lcdPc' = "poll"
  /\ UNCHANGED <<vars, mode, unsaved>>

\* Mutant of Turned: the last mode is not followed by the first.
TurnedOn(button) == IF button = "right" THEN mode + 1 ELSE mode - 1

\* The mode after a press of a button; both ends wrap.
Turned(button) ==
  IF button = "right" THEN (IF mode + 1 >= MODES THEN 0 ELSE mode + 1)
  ELSE (IF mode - 1 < 0 THEN MODES - 1 ELSE mode - 1)

\* First half of lcdRead: the mode changes at once.
lcdPress(button) ==
  /\ lcdPc = "poll"
  /\ mode' = Turned(button)
  /\ unsaved' = TRUE
  /\ lcdPc' = "held"
  /\ UNCHANGED vars

\* Where the thread is after a step of vexFlashUserParamWrite; its reply is
\* not looked at.
Goes == /\ lcdPc' = IF pc' = "idle" THEN "poll" ELSE "write"
        /\ unsaved' = (unsaved /\ reply' # "success")
        /\ UNCHANGED mode

\* Mutant of lcdRelease: the RAM copy is written as it is.
lcdReleaseStale ==
  /\ lcdPc = "held"
  /\ vexFlashUserParamWrite(params)
  /\ Goes

\* Second half: the button has been released, and the mode is stored.
lcdRelease ==
  /\ lcdPc = "held"
  /\ vexFlashUserParamWrite([params EXCEPT ![0] = mode])
  /\ Goes

lcdWriteStep ==
  /\ lcdPc = "write"
  /\ WriteStep
  /\ Goes

\* A phase change ends the thread in one of its sleeps: while it waits for a
\* button, and also while one is held down.
PhaseEnd ==
  /\ lcdPc \in {"poll", "held"}
  /\ lcdPc' = "off"
  /\ UNCHANGED <<vars, mode, unsaved>>

\* lcdSetup and lcdInit when the program starts over.
PowerCycle ==
  /\ ResetFlash
  /\ params' = InitialParams(Stored')
  /\ mode' = InitialMode(Stored')
  /\ lcdPc' = "off" /\ unsaved' = FALSE

-----------------------------------------------------------------------------
LcdInit ==
  /\ InitPage /\ InitRun
  /\ params = InitialParams(Stored)
  /\ mode = InitialMode(Stored)
  /\ lcdPc = "off" /\ unsaved = FALSE

LcdNext == \/ lcdStart
           \/ \E button \in {"left", "right"} : lcdPress(button)
           \/ lcdRelease
           \/ lcdWriteStep
           \/ PhaseEnd
           \/ PowerCycle

LcdSpec == LcdInit /\ [][LcdNext]_allVars

-----------------------------------------------------------------------------
(* Properties.                                                             *)

\* The mode on the display is the one the program would start with after a
\* reset at this very moment - unless storing it was prevented: by a phase
\* change while the button was held, by the limit on writes or by an error; or
\* an erase was cut short and none has come to its end since (torn), so that an
\* index word may be set behind an erased one.
SelectionSurvives ==
  lcdPc # "write" /\ ~ unsaved /\ ~ torn => InitialMode(Stored) = mode

\* The next slot has been begun by a write that was cut short.
Blocked == /\ Used < SLOTS
           /\ page[Used][0] # Erased
           /\ pc = "idle" \/ (pc # "late" /\ cell = 0) \/ failed

\* Such a slot is never got rid of.  Every later write starts with the same
\* half word, fails on it and leaves the index alone, so the page never fills
\* and is never erased: no mode is stored any more, in this run or any other.
\* (vexFlashUserParamInit would erase the page; nothing calls it.)
BlockedForGood == [][Blocked => Blocked']_allVars
=============================================================================
