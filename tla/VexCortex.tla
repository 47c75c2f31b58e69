------------------------------ MODULE VexCortex ------------------------------
(***************************************************************************)
(* The task life cycle of the firmware: the competition monitor of         *)
(* convex/cortex/fw/vexcortex.c, the table of registered threads and its   *)
(* list of "terminate" listeners, vexSleep, and the threads that live      *)
(* under them - the user thread (vexAutonomous or vexOperator), the        *)
(* mechanism threads it starts, and the persistent smart-motor threads.    *)
(*                                                                         *)
(* Scheduling is that of ChibiOS: fixed priorities, the monitor above the  *)
(* persistent threads above the user thread above the mechanisms.  Code    *)
(* between two sleeps takes microseconds and the clock ticks once in a     *)
(* millisecond, so a tick (in which any set of sleeping threads may time   *)
(* out) finds every thread blocked; what follows is run by priority.  The  *)
(* competition switch, delivered by the SPI task above all of these, may   *)
(* change between any two steps.  What the kernel does is in chschd.c,     *)
(* chthreads.c, chevents.c and chvt.h of ChibiOS_2.6.2/os/kernel.          *)
(***************************************************************************)
EXTENDS Naturals, FiniteSets, FiniteSetsExt, TLC

CONSTANTS User,           \* the thread in waVexUserTask
          Workers,        \* mechanism threads (arm, drive, lift, ...)
          Keepers,        \* persistent threads (slewMotor, smartMotor)
          MAX_THREAD,     \* slots of myThreads
          AutonReturns,   \* may an autonomous routine end before its period does?
          EmergencyStops, \* does the operator's code call vexTaskEmergencyStop?
          NoThread, Source

Threads == {User} \cup Workers \cup Keepers
Slots == 0 .. (MAX_THREAD - 1)

ASSUME ThreadsAssumption ==
  /\ User \notin Workers \cup Keepers
  /\ Workers \cap Keepers = {}
  /\ NoThread \notin Threads
  /\ Source \notin Slots
  /\ {AutonReturns, EmergencyStops} \subseteq BOOLEAN

\* Every thread has a slot: 20 of them for 11 threads in this firmware.
ASSUME SlotsAssumption == /\ IsFiniteSet(Threads)
                          /\ MAX_THREAD \in Nat
                          /\ Cardinality(Threads) <= MAX_THREAD

VARIABLES
  comp,         \* vexControllerCompetitonState: the two flags the monitor reads
  mon,          \* where the monitor is in its loop
  monRun,       \* "ready", "asleep" (chThdSleep) or "waiting" (chThdWait)
  monIdx,       \* the slot the monitor is reaping
  state,        \* the monitor's local: TRUE for kFlagAutonomousMode
  vexKillAll,
  run,          \* run[t]: "final", "ready" or "asleep" (in vexSleep)
  timedOut,     \* timedOut[t]: the sleep of a ready t ended without an event
  pending,      \* pending[t]: the terminate event is in t's p_epending
  pc,           \* pc[t]: what t does when it next runs
  tp,           \* myThreads[i].tp
  persistent,   \* myThreads[i].persistent
  elNext,       \* the listener list: el_next of each slot's el, es_next of Source
  elListener,   \* el_listener of each slot's el
  locked,       \* the mechanisms obey the joysticks (xxxLock / xxxUnlock)
  cmd, val,     \* is a mechanism's motor_cmd / vexMotors[].value non-zero?
  hung          \* the kernel is looping over the listener list, interrupts off

monVars == <<mon, monRun, monIdx, state, vexKillAll>>
thrVars == <<run, timedOut, pending, pc>>
tblVars == <<tp, persistent, elNext, elListener>>
motVars == <<locked, cmd, val>>
vars == <<comp, monVars, thrVars, tblVars, motVars, hung>>

TypeOK ==
  /\ comp \in [disabled : BOOLEAN, autonomous : BOOLEAN]
  /\ mon \in {"idle", "select", "run", "ending", "settle", "reap", "killed"}
  /\ monRun \in {"ready", "asleep", "waiting"}
  /\ monIdx \in 0 .. MAX_THREAD
  /\ {state, vexKillAll, locked, hung} \subseteq BOOLEAN
  /\ run \in [Threads -> {"final", "ready", "asleep"}]
  /\ timedOut \in [Threads -> BOOLEAN]
  /\ pending \in [Threads -> BOOLEAN]
  /\ pc \in [Threads -> {"begin", "start", "mode", "loop", "body", "move"}]
  /\ tp \in [Slots -> Threads \cup {NoThread}]
  /\ persistent \in [Slots -> BOOLEAN]
  /\ elNext \in [Slots \cup {Source} -> Slots \cup {Source}]
  /\ elListener \in [Slots -> Threads \cup {NoThread}]
  /\ cmd \in [Workers -> BOOLEAN]
  /\ val \in [Workers -> BOOLEAN]

-----------------------------------------------------------------------------
(* The listener list (ChibiOS chevents.c).                                 *)

\* The nodes met from the source on; Source marks the end.  A list of slots
\* that has not ended after MAX_THREAD nodes never does.
Walk(next) ==
  LET node[k \in 0 .. MAX_THREAD] ==
        IF k = 0 THEN next[Source]
        ELSE IF node[k - 1] = Source THEN Source ELSE next[node[k - 1]]
  IN node

ListEnds(next) == Walk(next)[MAX_THREAD] = Source
Listeners(next) == {Walk(next)[k] : k \in 0 .. MAX_THREAD} \ {Source}

\* Mutant of EvtRegister: the listeners that were there are forgotten.
EvtRegisterForgets(next, i) == [next EXCEPT ![i] = Source, ![Source] = i]

\* chEvtRegisterMask: the listener becomes the head of the list.
EvtRegister(next, i) == [next EXCEPT ![i] = next[Source], ![Source] = i]

\* Mutant of EvtUnregister: the listener stays on the list.
EvtUnregisterSkipped(next, i) == next

\* chEvtUnregister: the first node that points to the listener skips it.
EvtUnregister(next, i) ==
  LET node == Walk(next)
      at == Min({k \in 0 .. MAX_THREAD : node[k] = i})
      before == IF at = 0 THEN Source ELSE node[at - 1]
  IN  IF i \in Listeners(next) THEN [next EXCEPT ![before] = next[i]] ELSE next

-----------------------------------------------------------------------------
(* The thread table.                                                       *)

SlotsOf(t) == {i \in Slots : tp[i] = t}
FreeSlots == SlotsOf(NoThread)

\* vexTaskRegisterPersistant: a registered thread only gets its flag changed;
\* any other takes the first free slot, if there is one, and starts to listen.
vexTaskRegisterPersistant(t, p) ==
  IF SlotsOf(t) # {}
  THEN /\ persistent' = [persistent EXCEPT ![Min(SlotsOf(t))] = p]
       /\ UNCHANGED <<tp, elNext, elListener>>
  ELSE IF FreeSlots # {}
  THEN LET i == Min(FreeSlots) IN
       /\ tp' = [tp EXCEPT ![i] = t]
       /\ persistent' = [persistent EXCEPT ![i] = p]
       /\ elNext' = EvtRegister(elNext, i)
       /\ elListener' = [elListener EXCEPT ![i] = t]
  ELSE UNCHANGED tblVars

-----------------------------------------------------------------------------
(* Threads.                                                                *)

Rank(t) == IF t \in Keepers THEN 2 ELSE IF t = User THEN 1 ELSE 0

\* t is the running thread: ready, and no thread of a higher priority is.
Running(t) == /\ ~ hung
              /\ monRun # "ready"
              /\ run[t] = "ready"
              /\ \A u \in Threads : run[u] = "ready" => Rank(u) <= Rank(t)

\* chThdCreateStatic on the working areas of a set of threads: each is reset,
\* whatever it was doing.  A thread that is not in a vexSleep counts as timed
\* out: no event is waiting to be taken.
Create(ts, otherPc) ==
  /\ run' = [t \in Threads |-> IF t \in ts THEN "ready" ELSE run[t]]
  /\ timedOut' = [t \in Threads |-> t \in ts \/ timedOut[t]]
  /\ pending' = [t \in Threads |-> t \notin ts /\ pending[t]]
  /\ pc' = [t \in Threads |-> IF t \in ts THEN "begin" ELSE otherPc[t]]

\* The vexSleep in which t is ready returns because of the event.
HasEvent(t) == pending[t] /\ ~ timedOut[t]

\* The event is still pending when t, which is running, next sleeps: it came
\* after the time-out that woke t.
StillPending(t) == pending[t] /\ timedOut[t]

\* Mutant of SleepState: a sleep does not look at events that came before it.
SleepStateIgnoresPending(t) == "asleep"

\* t calls vexSleep: an event that is already pending ends the sleep at once.
SleepState(t) == IF StillPending(t) THEN "ready" ELSE "asleep"
EnterSleep(t, next) ==
  /\ run' = [run EXCEPT ![t] = SleepState(t)]
  /\ timedOut' = [timedOut EXCEPT ![t] = FALSE]
  /\ pending' = [pending EXCEPT ![t] = StillPending(t)]
  /\ pc' = [pc EXCEPT ![t] = next]

\* Mutant of KeepsRunning: the persistent flag is not looked at.
KeepsRunningNever(t) == FALSE

\* A persistent thread only notes that the event came.
KeepsRunning(t) == SlotsOf(t) # {} /\ persistent[Min(SlotsOf(t))]

\* t is running and its vexSleep, if it was in one, has returned.
Awake(t) == Running(t) /\ (HasEvent(t) => KeepsRunning(t))

\* chThdExit, or a return from the thread function, releases a waiting monitor.
Awaited(t) == \/ mon = "settle" /\ t = User
              \/ mon = "reap" /\ tp[monIdx] = t
Exit(t) ==
  /\ run' = [run EXCEPT ![t] = "final"]
  /\ monRun' = IF monRun = "waiting" /\ Awaited(t) THEN "ready" ELSE monRun
  /\ UNCHANGED <<mon, monIdx, state, vexKillAll>>

\* vexSleep in a thread that is to end: unregister its listener, leave the
\* slot to the monitor, exit.  On a list that does not end, the search for a
\* listener that is not in it does not end either.
vexSleepTerminate(t) ==
  /\ Running(t)
  /\ HasEvent(t)
  /\ ~ KeepsRunning(t)
  /\ IF SlotsOf(t) = {}
     THEN UNCHANGED <<elNext, hung>>
     ELSE LET i == Min(SlotsOf(t)) IN
          /\ elNext' = EvtUnregister(elNext, i)
          /\ hung' = (i \notin Listeners(elNext) /\ ~ ListEnds(elNext))
  /\ pending' = [pending EXCEPT ![t] = FALSE]
  /\ Exit(t)
  /\ UNCHANGED <<comp, timedOut, pc, tp, persistent, elListener, motVars>>

-----------------------------------------------------------------------------
(* The user thread: vexAutonomous and vexOperator.                         *)

\* Both register and sleep for half a second.
UserBegin ==
  /\ Awake(User) /\ pc[User] = "begin"
  /\ vexTaskRegisterPersistant(User, FALSE)
  /\ EnterSleep(User, "start")
  /\ UNCHANGED <<comp, monVars, motVars, hung>>

\* Mutant of UserStart: an autonomous routine leaves the mechanisms locked.
UserStartLocked ==
  /\ Awake(User) /\ pc[User] = "start"
  /\ Create(Workers, [pc EXCEPT ![User] = IF state THEN "mode" ELSE "loop"])
  /\ locked' = TRUE
  /\ UNCHANGED <<comp, monVars, tblVars, cmd, val, hung>>

\* systemStartAll creates every mechanism thread, systemLockAll gives them the
\* joysticks; an autonomous routine starts by taking the mechanisms away again
\* (systemUnlockAll).
UserStart ==
  /\ Awake(User) /\ pc[User] = "start"
  /\ Create(Workers, [pc EXCEPT ![User] = IF state THEN "mode" ELSE "loop"])
  /\ locked' = ~ state
  /\ UNCHANGED <<comp, monVars, tblVars, cmd, val, hung>>

\* A mechanism's SetMotor(motor, value, immediate): the command is remembered,
\* and an immediate one goes to the motor at once.
SetMotor(w, nonzero, immediate) ==
  /\ cmd' = [cmd EXCEPT ![w] = nonzero]
  /\ val' = [val EXCEPT ![w] = IF immediate THEN nonzero ELSE @]

\* One round of an autonomous routine's timerRun.
UserMode ==
  /\ Awake(User) /\ pc[User] = "mode"
  /\ \E w \in Workers, nonzero \in BOOLEAN : SetMotor(w, nonzero, TRUE)
  /\ EnterSleep(User, "mode")
  /\ UNCHANGED <<comp, monVars, tblVars, locked, hung>>

\* The routine is over: vexAutonomous locks the mechanisms and returns, without
\* a vexSleep and so without leaving the listener list.
UserReturn ==
  /\ AutonReturns
  /\ Awake(User) /\ pc[User] = "mode"
  /\ locked' = TRUE
  /\ Exit(User)
  /\ UNCHANGED <<comp, timedOut, pending, pc, tblVars, cmd, val, hung>>

UserLoop ==
  /\ Awake(User) /\ pc[User] = "loop"
  /\ EnterSleep(User, "loop")
  /\ UNCHANGED <<comp, monVars, tblVars, motVars, hung>>

\* Mutant of vexTaskEmergencyStop: the persistent flags are left alone.
EmergencyStopKeepsFlags ==
  /\ EmergencyStops /\ ~ vexKillAll
  /\ Awake(User) /\ pc[User] = "loop"
  /\ vexKillAll' = TRUE
  /\ UNCHANGED <<comp, mon, monRun, monIdx, state, thrVars, tblVars, motVars, hung>>

\* vexTaskEmergencyStop, called from the operator's code.
vexTaskEmergencyStop ==
  /\ EmergencyStops /\ ~ vexKillAll
  /\ Awake(User) /\ pc[User] = "loop"
  /\ persistent' = [i \in Slots |-> FALSE]
  /\ vexKillAll' = TRUE
  /\ UNCHANGED <<comp, mon, monRun, monIdx, state, thrVars, tp, elNext, elListener, motVars, hung>>

-----------------------------------------------------------------------------
(* The mechanism threads and the persistent ones.                          *)

WorkerBegin(w) ==
  /\ Awake(w) /\ pc[w] = "begin"
  /\ vexTaskRegisterPersistant(w, FALSE)
  /\ pc' = [pc EXCEPT ![w] = "body"]
  /\ UNCHANGED <<comp, monVars, run, timedOut, pending, motVars, hung>>

\* One round: a locked mechanism moves as its joystick says.
WorkerBody(w) ==
  /\ Awake(w) /\ pc[w] = "body"
  /\ IF locked
     THEN \E nonzero, immediate \in BOOLEAN : SetMotor(w, nonzero, immediate)
     ELSE UNCHANGED <<cmd, val>>
  /\ EnterSleep(w, "body")
  /\ UNCHANGED <<comp, monVars, tblVars, locked, hung>>

\* The lift at its limit switch sleeps before it moves, and does not look again
\* whether it is still locked.
WorkerPause(w) ==
  /\ Awake(w) /\ pc[w] = "body"
  /\ locked
  /\ EnterSleep(w, "move")
  /\ UNCHANGED <<comp, monVars, tblVars, motVars, hung>>

WorkerMove(w) ==
  /\ Awake(w) /\ pc[w] = "move"
  /\ SetMotor(w, TRUE, TRUE)
  /\ EnterSleep(w, "body")
  /\ UNCHANGED <<comp, monVars, tblVars, locked, hung>>

\* vexRobotcTask registers the thread, which then makes itself persistent; the
\* slew task starts with every command cleared.
KeeperBegin(k) ==
  /\ Awake(k) /\ pc[k] = "begin"
  /\ vexTaskRegisterPersistant(k, TRUE)
  /\ cmd' = [w \in Workers |-> FALSE]
  /\ pc' = [pc EXCEPT ![k] = "body"]
  /\ UNCHANGED <<comp, monVars, run, timedOut, pending, locked, val, hung>>

\* A slew step moves each value towards its command: a stopped motor with a
\* command starts, a stopped one without stays, any other may pass through 0.
Slewed == {v \in [Workers -> BOOLEAN] :
             \A w \in Workers : ~ val[w] => v[w] = cmd[w]}
KeeperBody(k) ==
  /\ Awake(k) /\ pc[k] = "body"
  /\ val' \in Slewed
  /\ EnterSleep(k, "body")
  /\ UNCHANGED <<comp, monVars, tblVars, locked, cmd, hung>>

-----------------------------------------------------------------------------
(* vexCortexMonitorTask.                                                   *)

MonitorRuns(where) == ~ hung /\ monRun = "ready" /\ mon = where

MonitorGoes(where, how) == mon' = where /\ monRun' = how

\* Top of the loop, after its 16 ms sleep: is the robot enabled?
MonitorIdle ==
  /\ MonitorRuns("idle")
  /\ IF comp.disabled THEN MonitorGoes("idle", "asleep") ELSE MonitorGoes("select", "ready")
  /\ UNCHANGED <<comp, monIdx, state, vexKillAll, thrVars, tblVars, motVars, hung>>

\* The competition state is read a second time to choose the user thread.
MonitorSelect ==
  /\ MonitorRuns("select")
  /\ state' = comp.autonomous
  /\ Create({User}, pc)
  /\ MonitorGoes("run", "ready")
  /\ UNCHANGED <<comp, monIdx, vexKillAll, tblVars, motVars, hung>>

\* While the state is the one the thread was started for, sleep; a change or
\* vexKillAll ends the phase.  vexKillAll is only looked at after a sleep.
SameState == ~ comp.disabled /\ comp.autonomous = state
MonitorRun ==
  /\ MonitorRuns("run")
  /\ IF SameState /\ ~ vexKillAll
     THEN MonitorGoes("run", "asleep")
     ELSE MonitorGoes("ending", "asleep")
  /\ UNCHANGED <<comp, monIdx, state, vexKillAll, thrVars, tblVars, motVars, hung>>

\* chEvtBroadcastI(&task_terminate), 50 ms later: every listener's thread gets
\* the event, a sleeping one becomes ready.  A list that does not end keeps
\* the kernel busy for ever.
Signalled == {elListener[i] : i \in Listeners(elNext)}
MonitorBroadcast ==
  /\ MonitorRuns("ending")
  /\ pending' = [t \in Threads |-> pending[t] \/ t \in Signalled]
  /\ run' = [t \in Threads |-> IF t \in Signalled /\ run[t] = "asleep" THEN "ready" ELSE run[t]]
  /\ hung' = ~ ListEnds(elNext)
  /\ MonitorGoes("settle", "asleep")
  /\ UNCHANGED <<comp, monIdx, state, vexKillAll, timedOut, pc, tblVars, motVars>>

\* chThdWait(tp), then vexMotorStopAll.
MonitorSettle ==
  /\ MonitorRuns("settle")
  /\ IF run[User] = "final"
     THEN /\ MonitorGoes("reap", "ready")
          /\ val' = [w \in Workers |-> FALSE]
     ELSE /\ MonitorGoes("settle", "waiting")
          /\ UNCHANGED val
  /\ UNCHANGED <<comp, monIdx, state, vexKillAll, thrVars, tblVars, locked, cmd, hung>>

\* Mutant of MonitorReap: slots are freed without a chThdWait.
MonitorReapNoWait ==
  /\ MonitorRuns("reap") /\ monIdx < MAX_THREAD
  /\ tp' = [tp EXCEPT ![monIdx] = IF persistent[monIdx] THEN @ ELSE NoThread]
  /\ monIdx' = monIdx + 1
  /\ UNCHANGED <<comp, mon, monRun, state, vexKillAll, thrVars, persistent, elNext, elListener, motVars, hung>>

\* Slot after slot: wait for a thread that is not persistent, free its slot.
MonitorReap ==
  /\ MonitorRuns("reap") /\ monIdx < MAX_THREAD
  /\ IF tp[monIdx] # NoThread /\ ~ persistent[monIdx]
     THEN IF run[tp[monIdx]] = "final"
          THEN /\ tp' = [tp EXCEPT ![monIdx] = NoThread]
               /\ monIdx' = monIdx + 1
               /\ UNCHANGED monRun
          ELSE /\ monRun' = "waiting"
               /\ UNCHANGED <<tp, monIdx>>
     ELSE /\ monIdx' = monIdx + 1
          /\ UNCHANGED <<tp, monRun>>
  /\ UNCHANGED <<comp, mon, state, vexKillAll, thrVars, persistent, elNext, elListener, motVars, hung>>

\* Mutant of MonitorDone: the slot index runs on instead of starting over.
MonitorDoneKeepsIndex ==
  /\ MonitorRuns("reap") /\ monIdx = MAX_THREAD
  /\ monIdx' = monIdx + 1
  /\ MonitorGoes(IF vexKillAll THEN "killed" ELSE "idle", "asleep")
  /\ UNCHANGED <<comp, state, vexKillAll, thrVars, tblVars, motVars, hung>>

\* Back to the top, or to the end of the road after an emergency stop.
MonitorDone ==
  /\ MonitorRuns("reap") /\ monIdx = MAX_THREAD
  /\ monIdx' = 0
  /\ MonitorGoes(IF vexKillAll THEN "killed" ELSE "idle", "asleep")
  /\ UNCHANGED <<comp, state, vexKillAll, thrVars, tblVars, motVars, hung>>

MonitorKilled ==
  /\ MonitorRuns("killed")
  /\ MonitorGoes("killed", "asleep")
  /\ UNCHANGED <<comp, monIdx, state, vexKillAll, thrVars, tblVars, motVars, hung>>

-----------------------------------------------------------------------------
(* The environment.                                                        *)

\* Only the idle thread is ready.
CpuIdle == ~ hung /\ monRun # "ready" /\ \A t \in Threads : run[t] # "ready"
Asleep == {t \in Threads : run[t] = "asleep"}

\* A clock tick in which the sleeps of the threads ts, and the monitor's if m
\* holds, are over: chVTDoTickI calls wakeup for each, which makes it ready with
\* RDY_TIMEOUT.
Tick(ts, m) ==
  /\ CpuIdle
  /\ m => monRun = "asleep"
  /\ ts # {} \/ m
  /\ run' = [t \in Threads |-> IF t \in ts THEN "ready" ELSE run[t]]
  /\ timedOut' = [t \in Threads |-> t \in ts \/ timedOut[t]]
  /\ monRun' = IF m THEN "ready" ELSE monRun
  /\ UNCHANGED <<comp, mon, monIdx, state, vexKillAll, pending, pc, tblVars, motVars, hung>>

TickWakes(t) == \E ts \in SUBSET Asleep, m \in BOOLEAN : t \in ts /\ Tick(ts, m)
TickMonitor == \E ts \in SUBSET Asleep : Tick(ts, TRUE)

\* The field control or the driver's switch.
CompetitionChange ==
  /\ ~ hung
  /\ comp' \in [disabled : BOOLEAN, autonomous : BOOLEAN] \ {comp}
  /\ UNCHANGED <<monVars, thrVars, tblVars, motVars, hung>>

\* The kernel walks the listener list round and round.
Spin == hung /\ UNCHANGED vars

-----------------------------------------------------------------------------
\* vexUserInit is over: the robot is disabled, no thread is registered, the
\* persistent threads have been created and the monitor starts its loop.
Init ==
  /\ comp = [disabled |-> TRUE, autonomous |-> FALSE]
  /\ mon = "idle" /\ monRun = "asleep" /\ monIdx = 0
  /\ state = FALSE /\ vexKillAll = FALSE
  /\ run = [t \in Threads |-> IF t \in Keepers THEN "ready" ELSE "final"]
  /\ timedOut = [t \in Threads |-> TRUE]
  /\ pending = [t \in Threads |-> FALSE]
  /\ pc = [t \in Threads |-> "begin"]
  /\ tp = [i \in Slots |-> NoThread]
  /\ persistent = [i \in Slots |-> FALSE]
  /\ elNext = [i \in Slots \cup {Source} |-> Source]
  /\ elListener = [i \in Slots |-> NoThread]
  /\ locked = TRUE
  /\ cmd = [w \in Workers |-> FALSE]
  /\ val = [w \in Workers |-> FALSE]
  /\ hung = FALSE

Monitor == \/ MonitorIdle \/ MonitorSelect \/ MonitorRun \/ MonitorBroadcast
           \/ MonitorSettle \/ MonitorReap \/ MonitorDone \/ MonitorKilled

UserStep == \/ UserBegin \/ UserStart \/ UserMode \/ UserReturn \/ UserLoop

ThreadStep(t) == \/ vexSleepTerminate(t)
                 \/ t = User /\ UserStep
                 \/ t \in Workers /\ (WorkerBegin(t) \/ WorkerBody(t) \/ WorkerPause(t) \/ WorkerMove(t))
                 \/ t \in Keepers /\ (KeeperBegin(t) \/ KeeperBody(t))

Next == \/ Monitor
        \/ \E t \in Threads : ThreadStep(t)
        \/ vexTaskEmergencyStop
        \/ \E ts \in SUBSET Asleep, m \in BOOLEAN : Tick(ts, m)
        \/ CompetitionChange
        \/ Spin

Spec == Init /\ [][Next]_vars

\* Every thread that can run does, every sleep ends: ChibiOS schedules by
\* priority and no thread loops without a sleep, so the CPU is idle again and
\* again; a time-out is then delivered sooner or later.
Fairness == /\ WF_vars(Monitor)
            /\ \A t \in Threads : WF_vars(ThreadStep(t)) /\ SF_vars(TickWakes(t))
            /\ SF_vars(TickMonitor)

FairSpec == Spec /\ Fairness

-----------------------------------------------------------------------------
(* Properties.                                                             *)

\* chThdCreateStatic never re-initialises the working area of a thread that is
\* still alive - waVexUserTask ("only one if these can be active so re-use
\* space") or a mechanism's.  Neither the monitor nor systemStartAll checks:
\* it rests on the monitor having seen every thread of the last phase end.
NoLiveOverwrite ==
  [][/\ MonitorSelect => run[User] = "final"
     /\ UserStart => \A w \in Workers : run[w] = "final"]_vars

\* When the monitor is back at the top of its loop, no thread of the phase that
\* ended is alive and none is left in the table, so the next phase starts from
\* the table the first one started from.
CleanBetweenPhases ==
  mon \in {"idle", "select"} =>
    /\ \A t \in Threads \ Keepers : run[t] = "final"
    /\ \A i \in Slots : tp[i] \in Keepers \cup {NoThread}

\* A thread registered as persistent outlives every phase change: only an
\* emergency stop can end it.
PersistentSurvives ==
  [][\A k \in Keepers : run[k] # "final" /\ run'[k] = "final" => vexKillAll]_vars

\* While an autonomous routine runs it alone commands the mechanisms: no
\* joystick command of a mechanism's thread gets in between.  Nothing makes a
\* mechanism let go; it rests on vexAutonomous starting, locking and unlocking
\* them without a sleep, at a priority above theirs, so that none has looked at
\* its lock when the routine begins.
RoutineInControl ==
  [][run[User] # "final" /\ pc[User] = "mode" /\ cmd' # cmd => UserMode]_vars

\* Once the monitor has come to rest after vexTaskEmergencyStop, every
\* registered task is dead, the persistent ones included, and no motor runs.
EmergencyStopIsFinal ==
  mon = "killed" => /\ \A t \in Threads : run[t] = "final"
                    /\ \A w \in Workers : ~ val[w]

\* "Register a thread so it can be terminated during vexSleep": a live thread
\* that has registered is on the listener list, and the list ends, so a
\* broadcast reaches the thread and returns.
RegisteredAreListening ==
  /\ ListEnds(elNext)
  /\ \A t \in Threads :
       run[t] # "final" /\ SlotsOf(t) # {} => SlotsOf(t) \cap Listeners(elNext) # {}

\* "Register a thread so it can be terminated during vexSleep": a broadcast that
\* returns has sent the event to every live thread with a slot, also when a routine
\* that has returned has left its slot on the list.
BroadcastReachesAll ==
  [][MonitorBroadcast /\ ~ hung' =>
       \A t \in Threads : run[t] # "final" /\ SlotsOf(t) # {} => pending'[t]]_vars

\* A thread of the phase that has been sent the terminate event ends, whatever
\* it was doing when the event came.
SignalledEnds ==
  \A t \in Threads \ Keepers : pending[t] ~> run[t] = "final"

\* "wait for all threads to stop": a phase that is being ended is over one day,
\* and the monitor is free to start the next.
PhaseEnds == mon = "ending" ~> mon \in {"idle", "killed"}

\* "stop all motors": between two phases no motor runs.
MotorsStayStopped == mon = "idle" => \A w \in Workers : ~ val[w]
=============================================================================
