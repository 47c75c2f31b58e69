# A TLA+ model of the turningpoint-convex robot firmware

The repository is the program of a VEX Cortex robot: a user program
(`src/src`), on the ConVEX firmware library (`src/convex`), on the ChibiOS/RT
kernel (`src/ChibiOS_2.6.2`). This directory holds TLA+ modules translated from
that code, the TLC configurations that check them on small instances, and TLAPS
proofs of some of the results for every value of the parameters.
`PROJECT.json` maps each definition to the lines it models and lists runs,
mutants, hazards, findings and theorems.

To check a run: `tlc -config VexCortex.cfg VexCortex`. To check a proof:
`tlapm SmartMotorProof.tla`.

## 1. The system: inventory

| Part | State | Operations | Interacts with |
|---|---|---|---|
| **Competition monitor, task table** (`fw/vexcortex.c`) | `myThreads[20]`: thread, persistent flag, event listener; `vexKillAll`; the monitor's place in its loop | register, `vexSleep`, start / end a phase, emergency stop | controller state (polled), every thread (event `task_terminate`, `chThdWait`), motors (`vexMotorStopAll`) |
| **User program** (`vexuser.c`, `system.c`) | the one working area `waVexUserTask` | `vexAutonomous`, `vexOperator`, `systemStartAll/LockAll/UnlockAll` | creates and locks the mechanisms |
| **Mechanisms** (`arm`, `drive`, `flipper`, `intake`, `lift`, `setter`) | `locked`, a static working area each | start, lock, unlock, move; thread loop every 25 ms | joysticks in, `SetMotor` out |
| **Autonomous routines** (`autonomous/`) | timer | rounds of "command, sleep" | mechanisms' `xxxMove` |
| **Smart motor library** (`opt/smartmotor.c`) | per motor: command, request, limit, slew rate, trip flags; per bank: PTC, safe current | `SetMotor`, slew rate task (15 ms), `SmartMotorTask` with two alternative limiters, power expander check | `vexMotorGet/Set` |
| **Motor driver** (`fw/vexmotor.c`) | `vexMotors[]`, the H-bridge values of ports 1 and 10 | set, get, stop all, PWM interrupt | smart motor library, monitor |
| **Serial framing protocol** (`serial_framing_protocol.c`) | connection state, `rx.seq`, `tx.seq`, history | init, connect, write, handlers for USR, RTX, NAK, SYN0/1/2/DIS | server (callbacks), line |
| **Transmit history** (`potringbuffer.c`) | two cursors, cells | push and pop at both ends, size, at | protocol |
| **Server** (`server.c`) | connected flag, heart beat, its thread's place | thread round, read and write callbacks, connection check, reset | protocol (re-entrantly), RPC |
| **RPC** (`rpc.c`), **message codec** (`messages.c`) | subscriptions, open cassette, motor values sent last | requests, subscribe, unsubscribe, publish | server, motors, flash |
| **Parameter flash** (`opt/vexflash.c`) | a flash page: index words and slots; one RAM copy; writes so far | read (search), write (erase when full) | LCD, cassette |
| **Cassette** (`cassette.c`) | none of its own: the flash's RAM copy | open for reading, for writing | RPC, flash |
| **LCD menu** (`lcd.c`) | selected autonomous mode | press and release of a button, start | flash, user program, phases |
| **ChibiOS events and threads** (`chevents.c`, `chthreads.c`) | listener list, pending events, thread states | register, unregister, broadcast, wait, create, exit | all threads |
| **ROBOTC glue** (`opt/robotc_glue.c`) | task table | `StartTask`, `StopTask` | smart motor tasks |
| SPI exchange, sensors, PID, display, audio, shell, entry point | | | not modelled, see section 8 |

In this firmware the calls `serverSetup/Init/Start` (`vexuser.c:112, 149-150`)
and `SmartMotorPtcMonitorEnable` (`vexuser.c:144`) are commented out: server,
RPC and protocol are compiled but not started, and the current limiter is the
one in use. Server, protocol and PTC limiter are modelled as the components
they are.

### What is hard here

* **Phases.** Disabled, autonomous and operator phases are switched by the field
  at any time. Ending a phase means: sleep, broadcast an event, wait for the
  user thread, stop the motors, wait for every other registered thread without
  a time-out. Threads take part only inside `vexSleep`. Working areas are
  re-used by the next phase without any check. Right when: a phase starts only
  after all of the last one is gone; persistent threads survive; an emergency
  stop ends everything; a phase that is being ended ends.
* **A list embedded in re-used slots.** The event listener is a member of the
  slot; the slot is freed by the monitor, the listener by its thread.
* **Motors without locks.** Mechanisms, slew task, limiter task, monitor and
  interrupt share a motor's record. Right when: no jump larger than the slew
  rate except a commanded one, no direct reversal of a bridge, a motor ends up
  at its command or within its limit.
* **A protocol without acknowledgements or timers** over a lossy line, with
  6-bit sequence numbers and a history of 8. Right when: each packet once and in
  order; damage is repaired by what follows; no storm of requests.
* **A ring with doubled cursors**, whose only difference between full and empty
  is one bit.
* **Flash across resets.** A block is many half words, the index word behind it
  makes it valid, and the power may go between any two; flash cannot be written
  twice without an erase. Right when: a restart finds the last block that was
  reported as written, or the one being written, whole.
* **A choice with two copies.** The mode on the display changes on the press of a
  button and is stored on its release; a phase change may end the thread in
  between, the number of writes is limited, and nobody looks at errors.
* **A server below and above its protocol.** The protocol calls the server for every
  frame and packet, and the server resets the protocol from there. Right when:
  server and link agree whenever the thread sleeps; a subscription does not
  outlive its connection; the two ends come to agree on whether there is one.

`PROJECT.json` lists these as hazards with their line and the properties that
cover them.

## 2. Modules

| Module | Models | Used by |
|---|---|---|
| `BoundedHistory` | what the ring buffer promises: a bounded double-ended queue | refinement target |
| `PotRingbuffer` | `potringbuffer.c` | run, proof |
| `PotRingbufferProof` | proofs | |
| `VexCortex` | monitor, task table, `vexSleep`, event list, user thread, mechanisms, persistent threads | five runs, proof |
| `VexCortexListProof` | proofs about the listener list | |
| `VexCortexProof` | proofs | |
| `SmartMotor` | one motor: `SetMotor`, slew task, limiters, motor table, PWM interrupt | two runs, proof |
| `SmartMotorProof` | proofs | |
| `Sfp` | two protocol endpoints and the line | two runs, proof, `Server` |
| `SfpProof` | proofs | |
| `Server` | server thread, RPC subscriptions, on `Sfp` | run, proof |
| `ServerProof` | proofs, on lemmas of `SfpProof` | |
| `ParamStore` | what the parameter flash promises: one block that survives a reset | refinement target |
| `VexFlash` | `vexflash.c`, what it calls of `stm32_flash.c`, and the flash page under resets and time-outs | `LcdMenu`, proof |
| `VexFlashProof` | proofs | |
| `LcdMenu` | the LCD thread's mode selection, on `VexFlash` | run, proof |
| `LcdMenuProof` | proofs, on those of `VexFlash` | |

Every parameter is a CONSTANT that a `.cfg` sets, so the modules are checked as
they are proved, without a module in between. Definitions introduced as "Mutant of X"
by their comment are plausible bugs of `X`; no specification uses them.

### PotRingbuffer

`mBegin`, `mEnd`, `mData` are the struct's fields; each function of the file is
an action or an operator of the same name. The masks are remainders. Elements
are identities. `potRingbufferInit` on a used buffer is `Clear`. The pops are
guarded by `Size > 0`, which is what their only caller ensures. The cells hold
anything at first.

### VexCortex

* `comp` is what the monitor polls; `CompetitionChange` sets it freely at any
  moment. `mon` is the monitor's program counter: `idle` (top of the loop),
  `select` (between its two reads of the competition state), `run`, `ending`
  (the 50 ms before the broadcast), `settle` (the 50 ms after it and the wait for
  the user thread), `reap` (the loop over the slots), `killed`.
* `run[t]`, `timedOut[t]`, `pending[t]` are a thread's state, the wake-up
  message of its last sleep and its terminate event; `chEvtWaitAnyTimeout`
  returns 0 on a time-out even if an event became pending before the thread ran.
* `tp`, `persistent`, `elNext`, `elListener` are `myThreads` and the linked list
  through it; registration, unregistration and broadcast walk it as
  `chevents.c` does, a list that does not end included (`hung`).
* The user thread registers, sleeps 500 ms, starts and locks all mechanisms,
  then runs the routine (`UserMode`) or the operator's loop (`UserLoop`).
  A routine that is over returns from the thread function (`UserReturn`,
  switched on by `AutonReturns`). The operator's code may call
  `vexTaskEmergencyStop` (`EmergencyStops`).
* A mechanism registers and then, every round, commands its motor if it is
  locked. The lift sleeps between that test and its command (`WorkerPause`,
  `WorkerMove`). Motors are abstracted to "commanded?" (`cmd`) and "driven?"
  (`val`); `KeeperBody` is a round of the slew task on them.
* **Scheduling.** Priorities are fixed: monitor (+8), smart motor tasks (+5,
  +4), user (+1), mechanisms (-1). A thread runs only when none above it is
  ready. The stretch between two sleeps takes microseconds against a tick of a
  millisecond, so `Tick` happens only when all are blocked; it wakes any set of
  sleepers, which is how two sleeps that end on the same tick arise. The kernel
  is part of the repository: `Running`, `Asleep`, `Tick` and `CpuIdle` are its
  `chSchIsPreemptionRequired`, `chSchGoSleepTimeoutS`, `wakeup` (called by
  `chVTDoTickI`) and idle thread.
* The LCD thread is left out here (see `LcdMenu`): `lcdStart` has a guard of its own,
  a time stamp, against a thread that is still alive, and needs the clock.

### SmartMotor

One motor stands for all: motors share only their bank's trip flag. The motor
has the bridge of ports 1 and 10 and the power expander of others. Current
and temperature are inputs: the limiters only compare them with two thresholds
(`Level`), and the safe command is any command of the direction the motor has
(0 for a target of 0 A). Steps are split where a thread of higher priority can
come in and touch what the step uses. The slew task reads the value, then
`limit_cmd` up to four times (`SlewLimit`, `SlewCompare`, `SlewDirection`,
`SlewApply`: is there a limit, is it smaller, is it of the same direction, take it)
and then writes; `SmartMotorTask` may change the limit between any two of these, and
may set it to 255, "no limit", which `SlewApply` then takes for a speed. A
mechanism does not run in between, so `motor_cmd` and `motor_req` stay what they
are, and what follows the choice of the request is one step. An immediate `SetMotor`
is split between storing the command and writing the motor. `SmartMotorTask`
alternates `MotorPass` and `BankPass`; each is one step, because it writes the limit
only once and what it shares is otherwise written by threads below it - but for the
value, which the monitor may set to 0 and which a pass reads only for its sign.

### Sfp

A frame is a value; octet stuffing and CRC are abstracted to a frame arriving
intact, arriving bad (`Corrupt`) or not at all (`Lose`); order is kept, as on a
serial line. Each branch of `sfpHandleFrame` is an action, and a handler's
replies are part of it. The history is the abstract queue of
`BoundedHistory`, which `PotRingbuffer` is proved to implement. `stream`,
`written`, `last` and `intact` are history variables: they identify packets and
are read by no action but in forming the identity of a new packet.

`Careful = TRUE` restricts the *applications*, not the protocol: they start over
only when the line is quiet, and do not write more packets than the history
holds beyond what the peer may still ask for. The code asks for neither;
what happens without the second is the finding of `sfp_history`.

### Server

Endpoint B of `Sfp` becomes the robot, A the computer that talks to it. `Sfp`'s own
actions model an application whose callbacks leave the protocol alone; the
robot's do not. `serverWrite` is called at the end of every frame and `serverRead`
for every packet, both check the connection and may run `serverReset` with
`sfpInit` in it, after which the interrupted handler goes on: it counts up a
sequence number that was reset, reads a history that was cleared, sets
`connectState` over the reset one. So the robot's handlers are written as a chain
of functions on a record, `Context`, in the order of the calls: `HandleFrame`,
`HandleUSR`, `serverRead`, `rpcRecv`, `rpcSend`, `TransmitPacket`, `Transmit`,
`serverCheckConnection`, `serverReset`. `Become` writes the result back in one step.
The loops (`TransmitHistoryFromSeq`, `rpcReply`, `rpcLoop`) are functions on the
interval the loop counts through, each value the context after so many rounds.

The thread (`pc`) wakes up and reads what has arrived (`ServerWake`; `left` frames),
delivers it frame by frame, checks the connection, publishes (`ServerLoop`) and
sleeps. Between these steps the client acts and the heart beat may run out
(`HeartbeatExpires`), but not in the round in which it was renewed (`fresh`: a
round is far shorter than the 5000 ms), and not inside a handler. A phase change
ends the thread in `vexSleep`, where `chThdExit` leaves everything as it is: the
`serverReset` at the end of `serverThread` is not reached (`ServerEnds`), and
`serverStart` finds the old connection.

Messages are told apart by what `rpcRecv` does with them: requests by their number
of answers, subscriptions by id and topic. Whether a motor has moved since its
value was last sent is a choice made once per round (`moved`), which the first
subscriber uses up. `dropped` and `torn` are history variables of the properties.

### VexFlash, ParamStore, LcdMenu

`index` and `page` are the flash, `params` the RAM copy, `pc` the place inside
`vexFlashUserParamWrite`. One step programs one half word, because that is what the
hardware does; `ResetFlash` may come between any two and in the middle of one
(`CutProgram`: the half word holds anything; `CutIndex`: the word reads as erased
or not; `PartlyErased`: any part of the page has been erased).

The driver calls ST's flash library, `stm32_flash.c`: `FLASH_ErasePage` and
`FLASH_ProgramWord`, which wait for the flash and return its status
(`FLASH_WaitForLastOperation`, `FLASH_GetBank1Status`). Of their errors two are
modelled. `FLASH_ERROR_PG`: a half word that is not erased can only be programmed
with 0; an attempt to do otherwise sets PGERR and leaves it alone, and as long as
PGERR is set `FLASH_ProgramWord` returns it without programming, so that the index
word is not written after an error in the data (`ProgramIndex`). The driver clears
the flag at the start of every write. `FLASH_TIMEOUT`: the flash may take longer than
the library waits, at any half word, in the index word and in an erase
(`CellTimesOut`, `IndexTimesOut`, `EraseFails`). This sets no flag: the loop over the
data ends, and the index word is programmed behind an unfinished block (`pc` is
`late`). `FLASH_ERROR_WRP` needs write protection, which is set in option bytes that
this firmware never programs; it is left out. What is external is the hardware
behind the registers: which half words can be programmed, and what is left of one
that was cut short.

`ParamStore` is the promise: a store with one value, where a write that is cut short
has happened or not. It has a gap the code has too: once in `Capacity` + 1 writes room
has to be made, and until then the value is not safe; and a write on which the flash
times out may lose it (`Fault`), which the reply says. `VexFlash` maps to it by reading
the page as `vexFlashUserParamRead` would.

`LcdMenu` adds `lcd.mode` and the thread: press, release with the write, and a phase
change in either of its sleeps (`PhaseEnd`); the write itself does not sleep. The
magic number and the mode are one half word, so cell 0 holds a mode or something
else. `unsaved` is a history variable.

## 3. Runs

| Run | Bounds | Distinct states | Checks | Result |
|---|---|---|---|---|
| `potringbuffer` | 4 cells, 3 elements | 3,240 | `TypeOK`, `SizeConsistent`, `RefinesHistory` | hold |
| `vexcortex` | user, 2 mechanisms, 1 persistent thread, 4 slots; emergency stops; routines may return | 439,076 | `TypeOK`, `CleanBetweenPhases`, `EmergencyStopIsFinal`, `NoLiveOverwrite`, `PersistentSurvives`, `RoutineInControl`, `BroadcastReachesAll` | hold |
| `vexcortex_live` | 1 mechanism, emergency stops, routines fill their period, with fairness | 9,804 | `RegisteredAreListening`, `SignalledEnds` | hold |
| `vexcortex_listeners` | 1 mechanism, routines may return | | `RegisteredAreListening` | violated |
| `vexcortex_phase` | 1 mechanism, with fairness | | `PhaseEnds` | violated |
| `vexcortex_motors` | 1 mechanism | | `MotorsStayStopped` | violated |
| `smartmotor` | commands and requests -2..2, dead band 2, slew rate 2, both limiters, a reversed motor, with fairness | 1,324,740 | `TypeOK`, `SlewIsGentle`, `BreakBeforeMake`, `SettlesAtCommand`, `LimitHolds` | hold |
| `smartmotor_zero` | commands -1..1, PTC limiter, limits of 0 A | | `ZeroLimitStops` | violated |
| `sfp` | 4 sequence numbers, history 2, 5 packets per endpoint, 2 starts, 1 fault, careful applications | 202,919 | `TypeOK`, `ExactDelivery`, `QuietMeansDelivered`, `LineFallsSilent` | hold |
| `sfp_history` | 8 sequence numbers, history 2, 5 packets, 1 fault, any application | | `NoDuplicate` | violated |
| `lcd` | 2 slots of 2 half words, 3 modes, 3 writes per start; any number of starts, cuts and time-outs | 3,903,648 | `LcdTypeOK`, `FailsOnlyOnSpoiltPage`, `SelectionSurvives`, `RefinesStore`, `BlockedForGood` | hold |
| `server` | 8 sequence numbers, history 4, 2 client packets per connection, 2 connection attempts, table of 1, 1 time-out or end of the thread, sound line | 1,098,675 | `ServerTypeOK`, `DeliveryOnLiveConnection`, `ServerFollowsLink`, `SubscriptionsOfThisConnection`, `QuietAgreement` | hold |

Why the bounds are enough:

* *Ring*: 4 cells go round the doubled cursor range, with every cursor position
  at every fill level; three elements tell a kept cell from an overwritten
  neighbour. The proofs remove the bound.
* *VexCortex*: two mechanisms give a list with a head, a middle and an end, and a
  slot that changes its owner; the persistent thread keeps the first slot as in
  the firmware. No counter is bounded: phases follow each other without end.
* *SmartMotor*: a range in which the slew rate is both a part of the way to the goal
  and more than the way left, and a dead band that takes effect (2 > 1). Requests
  outside the range, which are clipped, are left to the proofs, which remove the
  bounds for the safety properties. 255 is 4 here, out of the range of speeds and more
  than a step above it. A motor that is not reversed differs from one that is by the
  sign of `pwm` and of nothing else.
* *Sfp*: 5 packets wrap 4 sequence numbers; a history of 2 overflows; one fault
  already causes several NAKs for the same gap, resent frames that cross new
  ones, and faults in the handshake; two starts give simultaneous and repeated
  handshakes.
* *LcdMenu*: two slots make a current and a next one and a page that fills up and
  is erased; two half words make a block that can be half written; three modes
  wrap at both ends, and the erased half word and 0x0000 are the contents that are no
  mode; three writes are more than a page takes, so the limit on
  writes and the erase meet in one run. Starts are not bounded.
* *Server*: a connection, its loss to the heart beat or to the client, and a second
  one; a table of one subscription is full after the first, two packets fill it
  and meet it full or end it again. A client's packets and the robot's
  publications cross. The history is longer than what is written, because a
  history that overflows is the business of `Sfp`. A table of two gives the same
  result (4,484,437 states). The proofs remove the bounds for all but
  `DeliveryOnLiveConnection`.

Deadlock is checked everywhere but in the `Sfp` runs: their applications may
stop talking.

## 4. Fairness

* `VexCortex`: every thread that can run does (`WF` of the monitor and of each
  thread's steps): no thread loops without a sleep, so the priority scheduler
  comes round to all. Each sleep times out (`SF` of the ticks that wake a
  thread: strong, because a tick needs an idle CPU, which comes again and again
  without lasting). Nothing is assumed of the competition switch, of a routine's
  end or of an emergency stop.
* `SmartMotor`: the interrupt is periodic and the slew task is persistent (`WF`);
  an immediate `SetMotor` that has begun is finished (`SF`, because the slew task
  interrupts it again and again). Nobody has to command a motor or measure
  anything.
* `Sfp`: an endpoint handles the frames on its line (`WF`). Nobody has to write or
  connect.
* `LcdMenu`, `Server`: safety only, no fairness.

## 5. What the passing runs show

* `CleanBetweenPhases`, `NoLiveOverwrite`: the unchecked `chThdCreateStatic` calls
  are safe, because the monitor comes back to the top only after all threads of
  the phase have ended - also when the two reads of the competition state
  disagree, when a sleep times out on the tick of the broadcast, and when a
  routine returned early.
* `RoutineInControl`: while a routine runs, no mechanism's thread overwrites its
  commands. Nothing in the code makes a mechanism let go. It rests on the user thread
  starting the mechanisms and taking the joysticks away from them again without a sleep
  in between, at a higher priority than theirs, so that no mechanism's thread has run
  when the routine begins.
* `PersistentSurvives`, `EmergencyStopIsFinal`: the event that ends a phase leaves
  the smart motor threads alone; after an emergency stop it does not, and when
  the monitor has come to rest no thread is alive and no motor driven.
* `RegisteredAreListening`: if routines fill their period, registered threads are
  on the list and the list ends. `BroadcastReachesAll`: if they return early this can
  fail (section 6), but not by halves: a broadcast that ends at all has reached every
  registered thread.
* `SignalledEnds`: an event that comes too late for one sleep is found by the next.
* `SlewIsGentle`, `BreakBeforeMake`, `SettlesAtCommand`, `LimitHolds`: as in
  section 1. `SlewIsGentle` also says what is *not* true: after a stop of all
  motors between the slew task's read and write, the write may be a jump. It holds
  even of a step towards the 255 of a limit that has just been removed.
  `SettlesAtCommand` supposes that from some time on the limit does not change
  between two of the slew task's reads: a limiter that changed it there in every
  pass could keep the task at limits that never apply as they stand, which TLC shows
  if the premise is dropped. The passes are 10 and 15 ms apart and a slew step
  takes microseconds, so this is a coincidence that does not last.
* `ExactDelivery`, `QuietMeansDelivered`, `LineFallsSilent`: for careful
  applications the protocol delivers exactly once and in order, repairs damage
  with the traffic that follows it and does not chatter for ever. The one loss
  it cannot notice, a frame that vanishes after the last packet or a spoilt
  NAK, is excluded by `intact`.
* `RefinesStore`, `FailsOnlyOnSpoiltPage`: the order "data, then index word" makes
  a write atomic under resets, with the one gap of the erase. A write on which the
  flash times out may leave an unfinished block as the current one. Without resets
  and time-outs no write ever fails on used flash.
* `SelectionSurvives`: what the display shows is what a restart would choose, unless
  the store was prevented in one of three ways (button held when the phase
  changed, limit reached, error), none of which the driver is told about. It says
  nothing of a page whose erase was cut short (`torn`) until one is completed: what is
  stored there may be an older block, or none.
* `BlockedForGood` shows the price of a cut: a slot whose first half word was
  programmed and whose index word was not stays the next slot for ever, every
  later write fails on it, and the page can no longer fill up and be erased.
  `vexFlashUserParamInit` would help, but nothing calls it.
* `ServerFollowsLink`, `SubscriptionsOfThisConnection`: whatever a callback did to the
  link under a handler, the checks that follow have put server and link together
  again when the thread sleeps, and no subscription is left over.
* `QuietAgreement`: on a quiet line a client that believes in a connection has one,
  unless the server has given it up by itself since the client connected or wrote
  last. A client that writes learns by the answer (DIS or SYN) that its connection
  is gone. Without a packet from the client it does not: nothing is sent when the
  heart beat runs out.
* `DeliveryOnLiveConnection`: exact delivery between connected ends, in spite of the
  resets, with the exception described in section 6.

## 6. Findings

1. **A returned routine breaks the listener list** (`vexcortex_listeners`,
   `vexuser.c:218`). `vexAutonomous` returns without a `vexSleep`, so its listener
   stays linked while its slot is freed. The next registration in that slot links
   the listener again: the list closes to a circle that cuts off what was behind it,
   and the next broadcast does not end.
2. **A phase that never ends** (`vexcortex_phase`, `vexcortex.c:430`). If the user
   thread's 500 ms sleep is over on the tick of the broadcast, it starts the
   mechanisms after the broadcast; they are never told to end and the monitor
   waits for them for ever.
3. **Motors start again after they were stopped** (`vexcortex_motors`,
   `vexcortex.c:423`). The stop clears the motor table, not the smart motor
   library's commands; the persistent slew task ramps up again.
4. **A limit of 0 is no limit** (`smartmotor_zero`, `smartmotor.c:1649`).
   `sgn(0)` is neither direction, so the slew task never applies it.
5. **A packet delivered twice** (`sfp_history`,
   `serial_framing_protocol.c:454`). A NAK for a packet that has left the history
   makes the sender renumber what it still has.

Observations that are not runs:

* The slew task tests the limit and reads it again to use it (`smartmotor.c:1650`). If
  the limiter removes it in between, 255 is the requested speed, and the motor is
  driven one slew step towards full forward even if its command and the limit were
  backward. The next pass puts it right. `TypeOK` admits it for `motor_req`.
* Without quiet restarts the protocol's handshake, which carries no epoch, mixes
  old and new streams; and a frame lost at the end of a conversation is never
  noticed.
* A late second SYN2 (its client stalled) that meets a server with a history whose
  heart beat has run out: the first frame of the history resets the link, and
  `connectState = CONNECTED` behind the loop (`serial_framing_protocol.c:378`)
  declares it connected. Sequence numbers start over on one side only, so packets
  get lost or are delivered again. The history variable `torn` marks this case.
* If the heart beat runs out between the thread's check and `rpcLoop`'s first send,
  the rest of `rpcLoop`'s messages go out on the reset link, and a client can take
  one of them for the next of the old stream.
* A client that connects anew to a robot that is still connected is refused with
  DIS the first time, because the SYN1 resets the server that sends it; the
  second attempt works.
* A SUBSCRIBE read in the same batch as the SYN2 before it is wiped by the check at
  the end of `serverRead` (`server.c:184`). A request id can be subscribed twice,
  because `rpcSubFind` without a result pointer finds nothing (`rpc.c:662`).
* A motor value is sent to one subscriber only: the comparison with the value sent
  last is made per robot, not per subscription (`rpc.c:135`).

## 7. What is proved

All proofs are for every value of the constants that meets the ASSUMEs.

**PotRingbufferProof**, for every capacity of at least 1 and every non-empty set
of elements:

* `TypeCorrect`, `SizeIsConsistent`. The inductive invariant is `TypeOK` and
  `Dist <= Capacity`, where `Dist` is the distance from `mBegin` to `mEnd` round the
  doubled range. `TypeOK` alone is not enough: cursors more than a capacity apart
  are well-typed, and there the computed size is wrong. `SizeIsDist` shows that
  `Size` is that distance; the lemmas `ModValue` to `ShiftedCell` give the
  remainders the provers need.
* `Refinement`: `Spec => RefinesHistory`. One lemma per operation shows that the
  live cells change as the abstract queue does.

**SmartMotorProof**, for every command range, dead band, set of slew rates and
set of limiters:

* `TypeCorrect`, `SlewAlwaysGentle`, with the limit changing under the slew task's
  reads. The requested speed may be 255 (`UNDEFINED`), but what is written never is
  out of range. The inductive invariant is `TypeOK`, `CopyIsExact` (between the slew task's read and its write its copy is the
  motor's value, or the motors have been stopped) and `SlewIsGentle`. The second
  part is what makes the third inductive: it carries the priority argument, that
  no mechanism runs while the slew task is half done.
* `BridgeNeverReverses`: the action property `BreakBeforeMake`.

**VexFlashProof**, for every number of slots, half words per slot and writes, with
resets and time-outs anywhere:

* `FlashTypeCorrect`, `FlashFailsOnlyOnSpoiltPage`. The inductive invariant
  `FlashInv` says what the page looks like at each place inside
  `vexFlashUserParamWrite`: the index words are set from the front (`IndexInv`), the
  slots from the next one on are erased unless a cut has spoilt the page
  (`ErasedInv`), and a write under way has programmed its first half words
  and no more (`WriteInv`). `FailsOnlyOnSpoiltPage` by itself says nothing of the
  slots to come, so it is not inductive.
* `FlashRefinesStore`: `Spec => RefinesStore`. Programming a half word of a slot whose
  index word is not set is a stutter of `ParamStore`, the index word is the step in
  which the write happens, and the erase and a time-out are the gaps.

  `vexFlashUserParamGetOffset` stops at the first erased index word. That a
  non-empty set of naturals has a least element is `LeastNatural`, from the
  library's theorem on well-founded orders; so the facts about it need no induction
  scheme.

**LcdMenuProof**, for every list of modes and the same parameters:

* `LcdImplementsFlash`: the LCD thread with the flash below it is one of the
  behaviours of `VexFlash`, so that `FlashInv` holds of it; hence `LcdKeepsStore`.
* `LcdTypeCorrect`, `LcdSelectionSurvives`, `LcdBlockedForGood`. `LcdInv` adds that the
  stored block holds the mode shown, or that `unsaved` is set, at each place of the
  thread.

**VexCortexProof**, for any number of mechanisms and of persistent threads that
have a slot each, with and without emergency stops and returning routines:

* `TypeCorrect`, `CleanPhases`, `EmergencyStopFinal`, `NoOverwrite`,
  `PersistentThreadsSurvive`, `RoutineCommands`, `BroadcastReaches`, and
  `RegisteredListen`: `RegisteredAreListening` holds whenever no phase runs, whether or
  not routines return. In a phase that follows a returned routine it fails (section 6),
  and then the broadcast of that phase does not end.
* The inductive invariant `Inv` has a part for each piece of state, because none of
  the properties is inductive alone. `TableInv`: a thread has one slot, and its
  persistent flag follows from what it is and from `vexKillAll`. `ThreadInv`: a
  live thread has a slot from its first step on, and the event is pending only
  between the broadcast and the next tick. `PhaseInv`: what the monitor knows at
  each place of its loop; the argument is that a tick finds every thread blocked,
  so that no thread is new (`AfterTick => NoneBegins`) when the monitor waits for
  threads and frees their slots. `UserInv`: the mechanisms of a phase are created
  in one step of the user thread, which it does not reach once the monitor waits
  for it - unless its time-out came first, when they are created before the
  monitor looks. `OrderInv`: the persistent threads have the first slots and the
  user thread the next.
* `ListInv` describes the listener list in the states the finding of section 6 leads
  to as well, because the other theorems hold there too. Either it is a list that
  ends and holds the slots of the live threads, and perhaps the slot of a returned
  routine (`Stale`); or that slot has been linked a second time and the list
  can no longer end (`Doomed`), until the broadcast at the end of the phase;
  or the kernel is already caught in it (`hung`). `OrderInv` is what limits the
  damage: the slot left linked is the first free one, so the thread that takes it
  is the next user thread, at once.
* **VexCortexListProof** has the facts about the list: `IsList(next, n, q)` says that
  the links are those of a sequence `q` of `n` different slots, `Closed(next, C)` that
  they never leave the set `C`. `RegisterList`, `UnregisterList`: `chEvtRegisterMask`
  and `chEvtUnregister` put a slot in front and take one out. `ListFacts`,
  `ClosedNeverEnds`: what the walk of the model, bounded by the number of slots,
  finds in each case. `BroadcastReaches` rests on the latter: a broadcast that ends
  rules out `Doomed`, so the list is one that holds the slots of all live threads.

**SfpProof**, for every sequence range of at least 4, every history shorter than it,
any number of packets, starts and damaged frames:

* `SfpTypeCorrect`.
* `SfpExactDelivery`, on the assumption `Careful`, without which it is false
  (section 6). `ExactDelivery` speaks of the head of a line; the inductive
  invariant `Link` has to speak of all that is on both lines. Its three parts:
  * `Handshake`: what may be on the lines in each pair of states. The SYNs carry no
    number of the attempt they belong to, and a data frame of an old connection looks
    like one of the new. What keeps them apart is order: ahead of a SYN0 there is
    nothing that belongs to a connection (`Pure`), behind a SYN1 that has not been
    answered there is nothing yet (`After1`), and an endpoint that waits for the
    answer to its SYN0 has no data, no NAK but of 0 and no other SYN on the way
    (`Quiet`).
  * `Fresh`: an endpoint in the middle of a handshake has written and received
    nothing, so that starting over once more loses nothing. If a SYN0 meets a peer
    that is already connected, this is why the peer is not confused by it.
  * `Transfer`, for each direction between two open endpoints. The numbers count the
    packets (`Numbers`): what is written and not delivered is in the history. Data on
    the line are at most `HISTORY` older than what is delivered, and than data ahead of
    them (`DataOK`), so that a number, which returns after `SEQ_RANGE > HISTORY`
    packets, means one packet only (`ExpectedPacket`, by `ModClose`). Each NAK, SYN1 and
    SYN2 asks for packets that are in the history, and each for no earlier ones than
    those sent before it (`AsksOK`); the latter is why going back, which drops the older
    packets from the history, never drops what a later request asks for.
* `SfpQuietMeansDelivered`, on the same assumption. Nothing in the code waits for an
  answer, so the proof has to name what is still on its way. The second part of the
  inductive invariant is `Heals`: while both ends are open and a packet is missing
  (and no frame vanished, no NAK was spoilt since the last was written), one of four
  things is true (`Repair`). A NAK is on its way back; a spoilt frame is on the line
  and will be answered with one; the newest packet is, as a USR frame, and will either
  be delivered or refused with a NAK; or the end of the line holds the missing packets
  in order (`Chain`), which a retransmission put there. Taking a frame from a chain
  takes the next packet or one that is not missing (`ChainTake`); a refused
  retransmission, to which the code answers nothing, is of the second kind. A receiver
  that has not been connected yet drops what it is sent, so for it the same is asked
  of what is behind the last SYN1 or SYN2 (`Later`); that a SYN1 or SYN2 makes the
  sender go back is why it stays true. A NAK is used up only when its receiver goes
  back as far as it asks, or is there already (`AskMet`, `HealsResync`), and both
  follow from `AsksOK` of the first part.
* Lines are described only by which frames are on them and which are ahead of which
  (`In`, `Before`); damage, taking and sending are a few lemmas about these, and
  no induction over a line is needed. The provers know little about `%`: the
  lemmas `ModUnique` to `ModSmall` say what is needed, from `LeastNatural`.

**ServerProof**, for every table, any topics, requests and numbers of answers, any
number of publications, time-outs and ends of the thread, and the same sequence
ranges and histories:

* `ServerTypesCorrect`, `ServerFollowsTheLink`, for any client: `Careful` is not
  needed. The invariant `Settled` says more than the two properties in one place:
  server and link agree whenever the thread is not in the middle of its
  deliveries (`Agree`), which is also why `ServerLoop` may publish without
  another look.
* `ClientIsTold` (`QuietAgreement`) and `SubscriptionsAreOfThisConnection`, on
  the assumption `Careful`, of which only the first half is used: the client connects
  or gives up on a quiet line.
* The difficulty is the chain of callbacks. `Moves(s, t, from)` says all that the
  proofs need of what lies between two contexts without a SYN: the connection is
  kept or the robot has started over and remembers that it did (`dropped`); only
  packets and NAKs are sent besides; active subscriptions are old ones or asked for
  by a stream in `from`. It composes (`MovesOn`), and one lemma per function, from
  `CheckMoves` for `serverCheckConnection` up to `LoopMoves` for `rpcLoop`, carries
  it through the chain. `Handled(s, f, t)` says what the robot makes of a frame, by
  the state it finds, up to where a handler sets `connectState` over what a callback
  made of it (`Reconnects`, `AnswersSyn0`); `ClientDoes` says the same of the client. The
  invariants are shown for these summaries, not for the handlers.
* A loop of the code is followed by the set of rounds after which the context is
  still one that moves (`Reaches`, `LoopExists`, `LoopKeeps`), with the argument of
  `LeastNatural`: this needs no induction scheme.
* `Session`, the invariant behind `ClientIsTold`, is about the line. `OneWay`: each SYN
  travels in one direction. `OneStream`: data on the way to the robot are from
  the client's present stream. `OneDelivery`: so is what the robot was delivered last,
  while a connection is up or coming up. `NothingAhead`: a SYN0 finds nothing of an earlier
  connection ahead of it, so no late SYN2 connects a robot to a client that has
  started over. `Told`: if the client is connected, the robot is not and has not
  given up by itself, then a SYN1, a DIS, a SYN2 or data are under way, and each leads to
  an answer. `QuietAgreement` alone says nothing of lines that are not quiet.
* `Asked`, the invariant behind `SubscriptionsAreOfThisConnection`, says what a
  subscription is in the middle of a batch, where the property does not hold: the link may
  have been lost by a DIS or a SYN0 without the server's notice, and then no SYN2 is
  left in the batch that would connect it again before `serverCheckConnection` clears
  the table.

## 8. Only model-checked, and not modelled

Liveness (`SignalledEnds`, `SettlesAtCommand`, `LimitHolds`, `LineFallsSilent`)
is beyond the prover and stays with TLC. So does one invariant of `Server`,
`DeliveryOnLiveConnection`, and for a reason: it is not true for every value of the
constants. The client can be asked to keep within the history, the robot's
publications and answers cannot, as nothing in `rpc.c` looks at how far the client
is behind; with more of them than the history holds the finding of `sfp_history`
(section 6) applies to the server as well: with 4 sequence numbers, a history of 1
and up to 4 publications TLC finds a counterexample. The run is about the callbacks, with a robot
whose publications are within the history. That a server whose peer is silent gives up
in the end is not checked: the answer is a comparison of times in every round.

Not modelled: the SPI exchange with the master processor (register I/O with an
undocumented peer), the sensor drivers (hardware), the PID library (floating
point, not used by the mechanisms), display, audio, shell and formatting, the
entry point; the smart motor library's estimation of speed, current and
temperature (floating point without control); octet stuffing and CRC; the
joystick mapping; the fields of messages (codec) and the values in them; the
cassette and its RPC commands, which only the server reaches; a phase change
that ends the server in the middle of a frame; `vexFlashUserParamInit`, which
nothing calls.
`SlotsAssumption` of `VexCortex` (a slot for every thread) is true of the firmware:
20 slots for 11 threads; a full table is therefore no state the program can be in.

## 9. Plan

In order:

1. Proofs: `DeliveryOnLiveConnection` for a robot that keeps within the history, which
   needs the invariant `Transfer` of `SfpProof` carried through `Handled`.
2. **Robot**: masks (`ROBOT_FLIPPER` is the union of two others), timers and their
   wrap-around.
3. **Cassette** on `VexFlash`, with the RPC commands that use it; the lengths of the
   **message codec**.
4. `Server` ended in the middle of a frame.
