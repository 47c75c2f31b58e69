--------------------------- MODULE SmartMotorProof ---------------------------
(***************************************************************************)
(* Proofs about SmartMotor, for every command range, deadband, slew rate   *)
(* and set of requests.                                                    *)
(***************************************************************************)
EXTENDS SmartMotor, TLAPS

\* The integers the operators work on.
LEMMA Ranges ==
  /\ MAX_CMD \in Nat /\ MAX_CMD > 0 /\ MAX_REQUEST \in Nat
  /\ Speed \subseteq Int /\ Requests \subseteq Int /\ 0 \in Speed /\ 0 \in Requests
  /\ SLEW_RATES \subseteq Nat /\ \A r \in SLEW_RATES : r > 0
  /\ UNDEFINED \in Int /\ UNDEFINED > MAX_CMD
  BY CmdAssumption, SlewAssumption DEF Speed, Requests

\* Whatever is passed to vexMotorSet or SetMotor, the result is a speed.
LEMMA ClipIsSpeed == \A x \in Int : Clip(x) \in Speed /\ (x \in Speed => Clip(x) = x)
  BY Ranges DEF Clip, Speed

\* SetMotor's clipping and dead band yield a speed.
LEMMA CommandIsSpeed == \A x \in Int : Command(x) \in Speed
  BY ClipIsSpeed, Ranges DEF Command

\* A safe command is a speed.
LEMMA SafeIsSpeed ==
  ASSUME NEW zero, value \in Speed
  PROVE SafeCommand(zero) \subseteq Speed
  BY Ranges DEF SafeCommand, Speed

\* The bridge is given a speed, and never one of the other direction.
LEMMA BridgeIsSafe ==
  ASSUME pwm \in Speed, NEW new \in Speed
  PROVE /\ Bridge(new) \in Speed
        /\ ~ (sgn(Bridge(new)) = 1 /\ sgn(pwm) = -1)
        /\ ~ (sgn(Bridge(new)) = -1 /\ sgn(pwm) = 1)
  BY Ranges DEF Bridge, sgn, Speed

\* Where the slew task may be heading for: a speed, or the 255 of a limit that
\* was removed under its hands.
Goal == Speed \cup {UNDEFINED}

\* A slew step goes towards the goal, not past it, and is bounded by the slew
\* rate.
LEMMA ApproachIsGentle ==
  ASSUME motor_slew \in SLEW_RATES, NEW from \in Speed, NEW to \in Goal, from # to
  PROVE LET step == Approach(from, to) IN
        /\ step \in (-MAX_CMD) .. UNDEFINED
        /\ Abs(step - from) <= motor_slew
        /\ \/ from < step /\ step <= to
           \/ from > step /\ step >= to
  <1>1. motor_slew \in Nat /\ motor_slew > 0
    BY Ranges
  <1>2. to \in Int /\ -MAX_CMD <= to /\ to <= UNDEFINED
    BY Ranges DEF Goal, Speed
  <1>3. CASE from < to
    BY <1>1, <1>2, <1>3, Ranges DEF Approach, Abs, Speed
  <1>4. CASE from > to
    BY <1>1, <1>2, <1>4, Ranges DEF Approach, Abs, Speed
  <1> QED
    BY <1>2, <1>3, <1>4, Ranges DEF Speed

-----------------------------------------------------------------------------
(* The inductive invariant: between its two calls of vexmotor.c the slew    *)
(* task's copy of the value is exact, or the motors have been stopped.      *)

CopyIsExact ==
  slewPc \in {"limit", "compare", "direction", "apply"} =>
    motorTmp \in Speed /\ (value = 0 \/ motorTmp = value)

IInv == TypeOK /\ CopyIsExact /\ SlewIsGentle

\* Init establishes the invariant.
LEMMA InitIInv == Init => IInv
  <1> SUFFICES ASSUME Init PROVE IInv
    OBVIOUS
  <1>1. 0 \in (-MAX_CMD) .. UNDEFINED /\ enabled \in {"off", "ptc", "current"}
    BY Ranges, CmdAssumption DEF Init
  <1>2. reversed \in BOOLEAN
    BY CmdAssumption, Zenon DEF Init
  <1> QED
    BY <1>1, <1>2, Ranges DEF Init, IInv, TypeOK, CopyIsExact, SlewIsGentle

\* A limit that is set is a speed.
LEMMA LimitForType ==
  ASSUME TypeOK, NEW tripped, NEW zero, LimitFor(tripped, zero)
  PROVE limit_cmd' \in Speed \cup {UNDEFINED}
  BY SafeIsSpeed DEF TypeOK, LimitFor

\* A trip flag stays a flag.
LEMMA TrippedType == \A was \in BOOLEAN, l \in Level : Tripped(was, l) \in BOOLEAN
  BY DEF Tripped

\* SmartMotorTask, which may come between any two steps of the slew task, leaves
\* the speeds and the slew task alone.
LEMMA SmartMotorTaskStep == IInv /\ SmartMotorTask => IInv'
  <1> SUFFICES ASSUME IInv, SmartMotorTask PROVE IInv'
    OBVIOUS
  <1> USE DEF IInv
  <1>1. ASSUME NEW level \in Level, MotorPass(level) PROVE IInv'
    <2>1. /\ limit_cmd' \in Speed \cup {UNDEFINED}
          /\ limit_tripped' \in BOOLEAN /\ ptc_tripped' \in BOOLEAN
      <3>1. CASE SmartMotorMonitorPtc(level)
        BY <3>1, LimitForType, TrippedType DEF SmartMotorMonitorPtc, TypeOK
      <3>2. CASE SmartMotorMonitorCurrent(level)
        BY <3>2, LimitForType, TrippedType DEF SmartMotorMonitorCurrent, TypeOK
      <3>3. CASE UNCHANGED <<limit_cmd, limit_tripped, ptc_tripped>>
        BY <3>3 DEF TypeOK
      <3> QED
        BY <1>1, <3>1, <3>2, <3>3 DEF MotorPass
    <2> QED
      BY <1>1, <2>1 DEF MotorPass, TypeOK, CopyIsExact, SlewIsGentle, cmdVars, slewVars, setVars
  <1>2. ASSUME NEW level \in Level, NEW low \in BOOLEAN, BankPass(level, low) PROVE IInv'
    <2>1. limit_cmd' \in Speed \cup {UNDEFINED}
      BY <1>2, SafeIsSpeed DEF BankPass, TypeOK
    <2>2. bank_tripped' \in BOOLEAN /\ bank_zero' \in BOOLEAN
      BY <1>2, TrippedType DEF BankPass, TypeOK
    <2> QED
      BY <1>2, <2>1, <2>2 DEF BankPass, TypeOK, CopyIsExact, SlewIsGentle, cmdVars, slewVars, setVars
  <1> QED
    BY <1>1, <1>2 DEF SmartMotorTask

\* Whatever speed the slew task settles on, the step it computes is gentle.
LEMMA RequestStep ==
  ASSUME IInv, slewPc \in {"limit", "compare", "direction", "apply"},
         NEW req \in Goal, Request(req),
         UNCHANGED <<cmdVars, monVars, setVars, value, reversed, pwm>>
  PROVE  IInv'
  <1> USE DEF IInv
  <1>1. motor_req' = req /\ req \in Speed \cup {UNDEFINED}
    BY DEF Request, Goal
  <1>2. CASE motorTmp = req
    <2>1. slewPc' = "asleep" /\ motorTmp' = 0 /\ 0 \in (-MAX_CMD) .. UNDEFINED
      BY <1>2, Ranges DEF Request
    <2> QED
      BY <1>1, <2>1 DEF TypeOK, CopyIsExact, SlewIsGentle, cmdVars, monVars, setVars
  <1>3. CASE motorTmp # req
    <2>1. motorTmp' = Approach(motorTmp, req) /\ slewPc' = "set" /\ motorTmp \in Speed
      BY <1>3 DEF Request, CopyIsExact
    <2>2. /\ motorTmp' \in (-MAX_CMD) .. UNDEFINED
          /\ Abs(motorTmp' - motorTmp) <= motor_slew
          /\ \/ motorTmp < motorTmp' /\ motorTmp' <= req
             \/ motorTmp > motorTmp' /\ motorTmp' >= req
      BY <1>3, <2>1, ApproachIsGentle DEF TypeOK
    <2>3. SlewIsGentle'
      BY <1>1, <2>2 DEF CopyIsExact, SlewIsGentle, cmdVars, Abs
    <2> QED
      BY <1>1, <2>1, <2>2, <2>3 DEF TypeOK, CopyIsExact, cmdVars, monVars, setVars
  <1> QED
    BY <1>2, <1>3

\* A test on the limit only moves the task on, or settles on the command.
LEMMA SlewTestStep ==
  ASSUME IInv, NEW holds \in BOOLEAN,
         NEW test \in {"limit", "compare", "direction"},
         NEW next \in {"compare", "direction", "apply"}, SlewTest(test, holds, next)
  PROVE  IInv'
  <1>1. CASE holds
    BY <1>1 DEF SlewTest, IInv, TypeOK, CopyIsExact, SlewIsGentle, cmdVars, monVars, setVars
  <1>2. CASE ~ holds
    <2>1. motor_cmd \in Goal /\ Request(motor_cmd) /\ slewPc \in {"limit", "compare", "direction"}
      BY <1>2 DEF SlewTest, IInv, TypeOK, Goal
    <2> QED
      BY <2>1, RequestStep DEF SlewTest
  <1> QED
    BY <1>1, <1>2

\* The slew task: what it reads is the value, what it computes is gentle.
LEMMA SlewRateTaskStep == IInv /\ SlewRateTask => IInv'
  <1> SUFFICES ASSUME IInv, SlewRateTask PROVE IInv'
    OBVIOUS
  <1>1. CASE SlewGet
    <2>1. motorTmp' \in Speed /\ motorTmp' \in (-MAX_CMD) .. UNDEFINED
      BY <1>1, Ranges DEF SlewGet, IInv, TypeOK, Speed
    <2> QED
      BY <1>1, <2>1
      DEF SlewGet, IInv, TypeOK, CopyIsExact, SlewIsGentle, cmdVars, monVars, setVars
  <1>2. CASE SlewLimit
    <2>1. LimitSet \in BOOLEAN
      BY DEF LimitSet
    <2> QED
      BY <1>2, <2>1, SlewTestStep DEF SlewLimit
  <1>3. CASE SlewCompare
    <2>1. LimitSmaller \in BOOLEAN
      BY DEF LimitSmaller
    <2> QED
      BY <1>3, <2>1, SlewTestStep DEF SlewCompare
  <1>4. CASE SlewDirection
    <2>1. SameDirection \in BOOLEAN
      BY DEF SameDirection
    <2> QED
      BY <1>4, <2>1, SlewTestStep DEF SlewDirection
  <1>5. CASE SlewApply
    <2>1. limit_cmd \in Goal
      BY DEF IInv, TypeOK, Goal
    <2> QED
      BY <1>5, <2>1, RequestStep DEF SlewApply
  <1>6. CASE SlewSet
    <2>1. value' \in Speed
      BY <1>6, ClipIsSpeed, Ranges DEF SlewSet, vexMotorSet, IInv, TypeOK
    <2>2. 0 \in (-MAX_CMD) .. UNDEFINED
      BY Ranges
    <2> QED
      BY <1>6, <2>1, <2>2
      DEF SlewSet, IInv, TypeOK, CopyIsExact, SlewIsGentle, cmdVars, monVars, setVars
  <1> QED
    BY <1>1, <1>2, <1>3, <1>4, <1>5, <1>6 DEF SlewRateTask

\* A mechanism runs only while the slew task is asleep: this is where the
\* priorities are needed.
LEMMA MechanismStep == IInv /\ Mechanism => IInv'
  <1> SUFFICES ASSUME IInv, Mechanism PROVE IInv'
    OBVIOUS
  <1> USE DEF IInv, UserRuns, monVars, slewVars
  <1>1. ASSUME NEW v \in Requests, NEW immediate \in BOOLEAN, SetMotor(v, immediate) PROVE IInv'
    <2>1. motor_cmd' \in Speed
      BY <1>1, CommandIsSpeed, Ranges DEF SetMotor
    <2> QED
      BY <1>1, <2>1, Ranges DEF SetMotor, TypeOK, CopyIsExact, SlewIsGentle
  <1>2. CASE SetMotorImmediate
    <2>1. value' \in Speed
      BY <1>2, ClipIsSpeed, Ranges DEF SetMotorImmediate, vexMotorSet, TypeOK
    <2> QED
      BY <1>2, <2>1, Ranges DEF SetMotorImmediate, TypeOK, CopyIsExact, SlewIsGentle, cmdVars
  <1>3. ASSUME NEW r \in SLEW_RATES, SmartMotorSetSlewRate(r) PROVE IInv'
    BY <1>3 DEF SmartMotorSetSlewRate, TypeOK, CopyIsExact, SlewIsGentle, setVars
  <1>4. ASSUME NEW zero \in BOOLEAN, SmartMotorSetLimitCurent(zero) PROVE IInv'
    BY <1>4 DEF SmartMotorSetLimitCurent, TypeOK, CopyIsExact, SlewIsGentle, setVars
  <1>5. ASSUME NEW limiter \in Limiters, MonitorEnable(limiter) PROVE IInv'
    <2>1. limiter \in {"ptc", "current"}
      BY CmdAssumption
    <2> QED
      BY <1>5, <2>1 DEF MonitorEnable, TypeOK, CopyIsExact, SlewIsGentle, setVars
  <1>6. ASSUME NEW limiter \in Limiters, MonitorDisable(limiter) PROVE IInv'
    BY <1>6 DEF MonitorDisable, TypeOK, CopyIsExact, SlewIsGentle, setVars
  <1> QED
    BY <1>1, <1>2, <1>3, <1>4, <1>5, <1>6 DEF Mechanism

\* Every step preserves the invariant.
LEMMA NextIInv == IInv /\ [Next]_vars => IInv'
  <1> SUFFICES ASSUME IInv, [Next]_vars PROVE IInv'
    OBVIOUS
  <1>1. CASE vexMotorStopAll
    <2>1. value' = 0
      BY <1>1, ClipIsSpeed, Ranges DEF vexMotorStopAll, vexMotorSet
    <2> QED
      BY <1>1, <2>1, Ranges DEF vexMotorStopAll, IInv, TypeOK, CopyIsExact, SlewIsGentle,
         cmdVars, monVars, slewVars, setVars
  <1>2. CASE PwmInterrupt
    <2>1. (IF reversed THEN -value ELSE value) \in Speed
      BY Ranges DEF IInv, TypeOK, Speed
    <2>2. pwm' \in Speed
      BY <1>2, <2>1, BridgeIsSafe DEF PwmInterrupt, IInv, TypeOK
    <2> QED
      BY <1>2, <2>2 DEF PwmInterrupt, IInv, TypeOK, CopyIsExact, SlewIsGentle,
         cmdVars, monVars, slewVars, setVars
  <1>3. CASE UNCHANGED vars
    BY <1>3 DEF vars, IInv, TypeOK, CopyIsExact, SlewIsGentle, cmdVars, monVars, slewVars, setVars
  <1> QED
    BY <1>1, <1>2, <1>3, SmartMotorTaskStep, SlewRateTaskStep, MechanismStep DEF Next

\* The invariant holds throughout.
LEMMA IInvAlways == Spec => []IInv
  BY InitIInv, NextIInv, PTL DEF Spec

-----------------------------------------------------------------------------
\* The commands, the motor table and the bridge stay within the command range,
\* for every sequence of commands, limits and interrupts - although the speed
\* the slew rate task heads for may be the 255 of a limit that was removed while
\* the task looked at it (smartmotor.c, 1645 to 1650).
THEOREM TypeCorrect == Spec => []TypeOK
  BY IInvAlways, PTL DEF IInv

\* The slew rate task never jumps, turns back or overshoots, whichever thread
\* interrupts it between vexMotorGet and vexMotorSet.
THEOREM SlewAlwaysGentle == Spec => []SlewIsGentle
  BY IInvAlways, PTL DEF IInv

\* No interrupt switches the bridge from one direction straight to the other.
THEOREM BridgeNeverReverses == Spec => BreakBeforeMake
  <1>1. IInv /\ [Next]_vars
          => [~ (sgn(pwm') = 1 /\ sgn(pwm) = -1) /\ ~ (sgn(pwm') = -1 /\ sgn(pwm) = 1)]_vars
    <2> SUFFICES ASSUME IInv, Next
                 PROVE ~ (sgn(pwm') = 1 /\ sgn(pwm) = -1) /\ ~ (sgn(pwm') = -1 /\ sgn(pwm) = 1)
      OBVIOUS
    <2>1. CASE PwmInterrupt
      <3>1. (IF reversed THEN -value ELSE value) \in Speed
        BY Ranges DEF IInv, TypeOK, Speed
      <3> QED
        BY <2>1, <3>1, BridgeIsSafe DEF PwmInterrupt, IInv, TypeOK
    <2>2. CASE pwm' = pwm
      BY <2>2 DEF IInv, TypeOK, sgn, Speed
    <2>3. ASSUME ~ PwmInterrupt PROVE pwm' = pwm
      BY <2>3 DEF Next, vexMotorStopAll, SmartMotorTask, MotorPass, BankPass, SlewRateTask,
         SlewGet, SlewLimit, SlewCompare, SlewDirection, SlewTest, SlewApply, SlewSet, Mechanism, SetMotor, SetMotorImmediate,
         SmartMotorSetSlewRate, SmartMotorSetLimitCurent, MonitorEnable, MonitorDisable
    <2> QED
      BY <2>1, <2>2, <2>3
  <1> QED
    BY IInvAlways, <1>1, PTL DEF Spec, BreakBeforeMake
=============================================================================
