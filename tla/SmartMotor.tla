----------------------------- MODULE SmartMotor -----------------------------
(***************************************************************************)
(* One motor, from the command a mechanism gives to the voltage on its     *)
(* H-bridge: SetMotor, the current and temperature monitors and the slew   *)
(* rate task of convex/cortex/opt/smartmotor.c, and the motor table and    *)
(* the PWM interrupt of convex/cortex/fw/vexmotor.c.                       *)
(*                                                                         *)
(* Five threads of control share the motor's record without a lock.  What  *)
(* keeps them apart is only their priority: the PWM interrupt, then the    *)
(* monitor that stops all motors, SmartMotorTask, the slew rate task and   *)
(* last the mechanisms.  A thread's accesses are steps of their own where  *)
(* one above it can come in between: the slew rate task reads limit_cmd    *)
(* four times over, and SmartMotorTask may change it from one to the next. *)
(*                                                                         *)
(* Motors share nothing but their bank's PTC, so one stands for all; it    *)
(* has both the bridge of ports 1 and 10 and the power expander of the     *)
(* others.  Currents and temperatures are inputs: the monitors only ask    *)
(* on which side of their thresholds they are.                             *)
(***************************************************************************)
EXTENDS Integers

CONSTANTS MAX_CMD,       \* SMLIB_MOTOR_MAX_CMD, 127, also the limit of vexMotorSet
          DEADBAND,      \* SMLIB_MOTOR_DEADBAND
          SLEW_RATES,    \* rates a program may set; 10 is the default
          UNDEFINED,     \* SMLIB_MOTOR_MAX_CMD_UNDEFINED, 255: no limit
          MAX_REQUEST,   \* bound on the values passed to SetMotor
          Limiters,      \* limiters the program uses; {"current"} in this firmware
          ZeroCurrents,  \* may a current limit be 0 A?
          Mounted        \* is the motor kVexMotorReversed? one answer, or both

ASSUME CmdAssumption == /\ MAX_CMD \in Nat \ {0}
                        /\ DEADBAND \in Nat
                        /\ UNDEFINED \in Int /\ UNDEFINED > MAX_CMD
                        /\ MAX_REQUEST \in Nat
                        /\ Limiters \subseteq {"ptc", "current"}
                        /\ ZeroCurrents \in BOOLEAN /\ Mounted \subseteq BOOLEAN
\* "negative or 0 is invalid" (SmartMotorSetSlewRate).
ASSUME SlewAssumption == SLEW_RATES \subseteq Nat \ {0} /\ SLEW_RATES # {}

VARIABLES
  motor_cmd, motor_req, motor_slew, limit_cmd, limit_tripped, ptc_tripped,
  zeroLimit,     \* limit_current is 0 A
  bank_tripped,  \* bank->ptc_tripped
  bank_zero,     \* bank->safe_current is 0 A
  enabled,       \* which of the two limiters is on, if any
  turn,          \* SmartMotorTask looks at the motor next, or at the bank
  value,         \* vexMotors[].value
  reversed,      \* vexMotors[].reversed
  pwm,           \* m0_cur_value, what the bridge is driven with
  slewPc, motorTmp,   \* the slew rate task and its local
  setPc, setValue     \* a mechanism in SetMotor, its argument

cmdVars == <<motor_cmd, motor_slew, zeroLimit, enabled>>
monVars == <<limit_cmd, limit_tripped, ptc_tripped, bank_tripped, bank_zero, turn>>
slewVars == <<motor_req, slewPc, motorTmp>>
setVars == <<setPc, setValue>>
vars == <<cmdVars, monVars, slewVars, setVars, value, reversed, pwm>>

Speed == (-MAX_CMD) .. MAX_CMD
Requests == (-MAX_REQUEST) .. MAX_REQUEST

Abs(x) == IF x < 0 THEN -x ELSE x
sgn(x) == IF x = 0 THEN 0 ELSE IF x > 0 THEN 1 ELSE -1

\* Clipping to the command range, done by SetMotor and again by vexMotorSet.
Clip(x) == IF x > MAX_CMD THEN MAX_CMD ELSE IF x < -MAX_CMD THEN -MAX_CMD ELSE x

TypeOK ==
  /\ motor_cmd \in Speed /\ motor_req \in Speed \cup {UNDEFINED}
  /\ motorTmp \in (-MAX_CMD) .. UNDEFINED
  /\ value \in Speed /\ pwm \in Speed
  /\ motor_slew \in SLEW_RATES
  /\ limit_cmd \in Speed \cup {UNDEFINED}
  /\ limit_tripped \in BOOLEAN /\ ptc_tripped \in BOOLEAN /\ bank_tripped \in BOOLEAN
  /\ zeroLimit \in BOOLEAN /\ bank_zero \in BOOLEAN /\ reversed \in BOOLEAN
  /\ enabled \in {"off", "ptc", "current"}
  /\ turn \in {"motor", "bank"}
  /\ slewPc \in {"asleep", "limit", "compare", "direction", "apply", "set"}
  /\ setPc \in {"idle", "immediate"}
  /\ setValue \in Requests

-----------------------------------------------------------------------------
(* vexmotor.c                                                              *)

\* vexMotorSet: the table holds a clipped value.
vexMotorSet(v) == value' = Clip(v)

\* vexMotorStopAll, called by the competition monitor.
vexMotorStopAll ==
  /\ vexMotorSet(0)
  /\ UNCHANGED <<cmdVars, monVars, slewVars, setVars, reversed, pwm>>

\* Mutant of Bridge: the bridge is switched from one direction to the other.
BridgeDirect(new) == new

\* TIM4_IRQHandler: a new value is given to the bridge unless it is of the other
\* direction: then this interrupt gives 0 and the next one the value.
Bridge(new) == IF new = 0 \/ sgn(pwm) \in {0, sgn(new)} THEN new ELSE 0

PwmInterrupt ==
  /\ pwm' = Bridge(IF reversed THEN -value ELSE value)
  /\ UNCHANGED <<cmdVars, monVars, slewVars, setVars, value, reversed>>

-----------------------------------------------------------------------------
(* The user's side of smartmotor.c.  A mechanism has the lowest priority:  *)
(* it runs only while the slew rate task is asleep.                        *)

UserRuns == slewPc = "asleep" /\ setPc = "idle"

\* The command is clipped, and small ones are taken for 0.
Command(v) == IF Abs(v) < DEADBAND /\ Abs(v) <= MAX_CMD THEN 0 ELSE Clip(v)

SetMotor(v, immediate) ==
  /\ UserRuns
  /\ motor_cmd' = Command(v)
  /\ setPc' = IF immediate THEN "immediate" ELSE "idle"
  /\ setValue' = IF immediate THEN v ELSE 0
  /\ UNCHANGED <<motor_slew, zeroLimit, enabled, monVars, slewVars, value, reversed, pwm>>

\* "new - for hard stop": the motor gets the value of an immediate command
\* itself, past the slew rate and past the limiter.
SetMotorImmediate ==
  /\ slewPc = "asleep" /\ setPc = "immediate"
  /\ vexMotorSet(setValue)
  /\ setPc' = "idle" /\ setValue' = 0
  /\ UNCHANGED <<cmdVars, monVars, slewVars, reversed, pwm>>

SmartMotorSetSlewRate(r) ==
  /\ UserRuns
  /\ motor_slew' = r
  /\ UNCHANGED <<motor_cmd, zeroLimit, enabled, monVars, slewVars, setVars, value, reversed, pwm>>

SmartMotorSetLimitCurent(zero) ==
  /\ UserRuns
  /\ zeroLimit' = zero
  /\ UNCHANGED <<motor_cmd, motor_slew, enabled, monVars, slewVars, setVars, value, reversed, pwm>>

\* SmartMotorPtcMonitorEnable, SmartMotorCurrentMonitorEnable: one limiter
\* switches the other off.
MonitorEnable(limiter) ==
  /\ UserRuns
  /\ enabled' = limiter
  /\ UNCHANGED <<motor_cmd, motor_slew, zeroLimit, monVars, slewVars, setVars, value, reversed, pwm>>

MonitorDisable(limiter) ==
  /\ UserRuns
  /\ enabled' = IF enabled = limiter THEN "off" ELSE enabled
  /\ UNCHANGED <<motor_cmd, motor_slew, zeroLimit, monVars, slewVars, setVars, value, reversed, pwm>>

-----------------------------------------------------------------------------
(* SmartMotorTask.  It gives a motor's limit one value in a pass; the one   *)
(* thread above it that it shares data with, the competition monitor, does *)
(* not look at limits, so a pass is one step.                              *)

\* SmartMotorSafeCommand: a command of the direction the motor turns in, that
\* keeps it at the target current; 0 for a target of 0 A.
SafeCommand(zero) ==
  IF zero THEN {0} ELSE IF value >= 0 THEN 1 .. MAX_CMD ELSE (-MAX_CMD) .. (-1)

\* A measurement and the two thresholds of a trip with hysteresis.
Level == {"above", "between", "below"}
Tripped(was, level) == level = "above" \/ (was /\ level # "below")

\* A limiter that is tripped sets a limit, one that is not removes it.
LimitFor(tripped, zero) ==
  IF tripped THEN limit_cmd' \in SafeCommand(zero) ELSE limit_cmd' = UNDEFINED

\* SmartMotorMonitorPtc: a tripped bank's limit is left alone.
SmartMotorMonitorPtc(temperature) ==
  /\ ptc_tripped' = Tripped(ptc_tripped, temperature)
  /\ IF bank_tripped THEN UNCHANGED limit_cmd ELSE LimitFor(ptc_tripped', FALSE)
  /\ UNCHANGED limit_tripped

\* SmartMotorMonitorCurrent.  No current is below 90% of 0 A.
SmartMotorMonitorCurrent(current) ==
  /\ zeroLimit => current # "below"
  /\ limit_tripped' = Tripped(limit_tripped, current)
  /\ LimitFor(limit_tripped', zeroLimit)
  /\ UNCHANGED ptc_tripped

MotorPass(level) ==
  /\ turn = "motor" /\ turn' = "bank"
  /\ \/ enabled = "ptc" /\ SmartMotorMonitorPtc(level)
     \/ enabled = "current" /\ SmartMotorMonitorCurrent(level)
     \/ enabled = "off" /\ UNCHANGED <<limit_cmd, limit_tripped, ptc_tripped>>
  /\ UNCHANGED <<cmdVars, bank_tripped, bank_zero, slewVars, setVars, value, reversed, pwm>>

\* After the last motor: SmartMotorControllerMonitorPtc, and the voltage of
\* the power expander ("tripped - bad !": its safe current drops to 0 for ever).
BankPass(level, expanderLow) ==
  /\ turn = "bank" /\ turn' = "motor"
  /\ bank_tripped' = IF enabled = "ptc" THEN Tripped(bank_tripped, level) ELSE bank_tripped
  /\ IF enabled = "ptc" /\ bank_tripped'
     THEN limit_cmd' \in SafeCommand(bank_zero)
     ELSE UNCHANGED limit_cmd
  /\ bank_zero' = (bank_zero \/ expanderLow)
  /\ UNCHANGED <<cmdVars, limit_tripped, ptc_tripped, slewVars, setVars, value, reversed, pwm>>

-----------------------------------------------------------------------------
(* SmartMotorSlewRateTask.                                                 *)

SlewGet ==
  /\ slewPc = "asleep"
  /\ motorTmp' = value
  /\ slewPc' = "limit"
  /\ UNCHANGED <<cmdVars, monVars, motor_req, setVars, value, reversed, pwm>>

\* Mutant of Approach: the step is added twice.
ApproachTwice(from, to) ==
  IF from < to
  THEN IF from + 2 * motor_slew > to THEN to ELSE from + 2 * motor_slew
  ELSE IF from - 2 * motor_slew < to THEN to ELSE from - 2 * motor_slew

\* Mutant of Approach: the goal may be passed.
ApproachUncut(from, to) == IF from < to THEN from + motor_slew ELSE from - motor_slew

\* One step of at most motor_slew, cut short at the goal.
Approach(from, to) ==
  IF from < to
  THEN IF from + motor_slew > to THEN to ELSE from + motor_slew
  ELSE IF from - motor_slew < to THEN to ELSE from - motor_slew

\* The requested speed is settled: only this task writes it.  A motor that is
\* where it should be is not written.
Request(req) ==
  /\ motor_req' = req
  /\ IF motorTmp = req
     THEN slewPc' = "asleep" /\ motorTmp' = 0
     ELSE slewPc' = "set" /\ motorTmp' = Approach(motorTmp, req)

\* One of the three tests on the limit: where it fails the command is followed.
SlewTest(test, holds, next) ==
  /\ slewPc = test
  /\ IF holds
     THEN slewPc' = next /\ UNCHANGED <<motor_req, motorTmp>>
     ELSE Request(motor_cmd)
  /\ UNCHANGED <<cmdVars, monVars, setVars, value, reversed, pwm>>

\* Is there a limit, is the command larger, is it of the limit's direction?
LimitSet == enabled # "off" /\ limit_cmd # UNDEFINED
LimitSmaller == Abs(motor_cmd) > Abs(limit_cmd)
SameDirection == sgn(motor_cmd) = sgn(limit_cmd)

SlewLimit == SlewTest("limit", LimitSet, "compare")
SlewCompare == SlewTest("compare", LimitSmaller, "direction")
SlewDirection == SlewTest("direction", SameDirection, "apply")

\* Mutant of SlewApply: the command is followed, whatever the limit.
SlewApplyIgnored ==
  /\ slewPc = "apply"
  /\ Request(motor_cmd)
  /\ UNCHANGED <<cmdVars, monVars, setVars, value, reversed, pwm>>

\* The limit is read again.  It may no longer be the one that was tested, nor a
\* limit at all: 255 is then taken for the speed that is requested.
SlewApply ==
  /\ slewPc = "apply"
  /\ Request(limit_cmd)
  /\ UNCHANGED <<cmdVars, monVars, setVars, value, reversed, pwm>>

\* Mutant of SlewSet: the task forgets to write.
SlewSetForgets ==
  /\ slewPc = "set"
  /\ slewPc' = "asleep"
  /\ UNCHANGED <<cmdVars, monVars, motor_req, motorTmp, setVars, value, reversed, pwm>>

SlewSet ==
  /\ slewPc = "set"
  /\ vexMotorSet(motorTmp)
  /\ slewPc' = "asleep" /\ motorTmp' = 0
  /\ UNCHANGED <<cmdVars, monVars, motor_req, setVars, reversed, pwm>>

-----------------------------------------------------------------------------
\* SmartMotorsInit, the limiter vexUserInit enables, and the first lines of the
\* slew rate task.
Init ==
  /\ motor_cmd = 0 /\ motor_req = 0 /\ motor_slew \in SLEW_RATES
  /\ limit_cmd = UNDEFINED /\ zeroLimit = FALSE
  /\ limit_tripped = FALSE /\ ptc_tripped = FALSE
  /\ bank_tripped = FALSE /\ bank_zero = FALSE
  /\ enabled \in Limiters /\ turn = "motor"
  /\ value = 0 /\ reversed \in Mounted /\ pwm = 0
  /\ slewPc = "asleep" /\ motorTmp = 0
  /\ setPc = "idle" /\ setValue = 0

SmartMotorTask == \/ \E level \in Level : MotorPass(level)
                  \/ \E level \in Level, low \in BOOLEAN :
                       (low => ZeroCurrents) /\ BankPass(level, low)

SlewRateTask == \/ SlewGet \/ SlewLimit \/ SlewCompare \/ SlewDirection
                \/ SlewApply \/ SlewSet

Mechanism == \/ \E v \in Requests, immediate \in BOOLEAN : SetMotor(v, immediate)
             \/ SetMotorImmediate
             \/ \E r \in SLEW_RATES : SmartMotorSetSlewRate(r)
             \/ \E zero \in BOOLEAN : (zero => ZeroCurrents) /\ SmartMotorSetLimitCurent(zero)
             \/ \E limiter \in Limiters :
                  MonitorEnable(limiter) \/ MonitorDisable(limiter)

Next == vexMotorStopAll \/ PwmInterrupt \/ SmartMotorTask \/ SlewRateTask \/ Mechanism

Spec == Init /\ [][Next]_vars

\* The interrupt is periodic, the two tasks sleep 10 and 15 ms and are never
\* ended by a phase change; a SetMotor that has begun is finished, since the
\* threads above it sleep almost all the time.  Nobody has to command a motor.
Fairness == /\ WF_vars(PwmInterrupt)
            /\ WF_vars(SlewRateTask)
            /\ SF_vars(SetMotorImmediate)

FairSpec == Spec /\ Fairness

-----------------------------------------------------------------------------
(* Properties.                                                             *)

\* "transition via 0": whatever the threads do to the table between two
\* interrupts, the bridge never goes from one direction straight to the other.
BreakBeforeMake == [][~ (sgn(pwm') = 1 /\ sgn(pwm) = -1) /\ ~ (sgn(pwm') = -1 /\ sgn(pwm) = 1)]_vars

\* Of all the writes the slew rate task is about to make, none moves the motor
\* by more than the slew rate, away from the requested speed or past it -
\* unless the motors have all been stopped since the task read the value.  This
\* is so even of a request that is the 255 of a limit just removed.
SlewIsGentle ==
  slewPc = "set" =>
    \/ value = 0
    \/ /\ Abs(motorTmp - value) <= motor_slew
       /\ \/ value < motorTmp /\ motorTmp <= motor_req
          \/ value > motorTmp /\ motorTmp >= motor_req

\* The limit applies to a larger command of its own direction.
Limited == LimitSet /\ LimitSmaller /\ SameDirection

Commanding == \/ \E v \in Requests, immediate \in BOOLEAN : SetMotor(v, immediate)
              \/ SetMotorImmediate
              \/ vexMotorStopAll

\* The slew rate task is between its first read of limit_cmd and its last.
TestingLimit == slewPc \in {"compare", "direction", "apply"}

\* A motor that is left alone and not limited settles at its last command, and
\* its bridge with it - unless SmartMotorTask keeps changing the limit between
\* two of the slew rate task's reads: each time it does, the task may put two
\* limits together that do not apply to one that does.
SettlesAtCommand ==
  <>[][/\ motor_cmd' = motor_cmd /\ ~ Commanding /\ ~ Limited /\ ~ Limited'
       /\ TestingLimit => limit_cmd' = limit_cmd]_vars
    => <>[](value = motor_cmd /\ pwm = IF reversed THEN -value ELSE value)

\* A motor that is left alone under a lasting limit ends up within it.
LimitHolds ==
  <>[][Limited /\ limit_cmd' = limit_cmd /\ ~ Commanding]_vars /\ <>[]Limited
    => <>[](Abs(value) <= Abs(limit_cmd))

\* "override if current is 0": a motor whose safe current is 0 A is brought to
\* a stop.
ZeroLimitStops ==
  <>[](enabled # "off" /\ limit_cmd = 0) /\ <>[][~ Commanding]_vars => <>[](value = 0)
=============================================================================
