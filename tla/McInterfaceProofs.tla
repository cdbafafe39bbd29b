------------------------- MODULE McInterfaceProofs -------------------------
(***************************************************************************)
(* Proofs about McInterface, for any number of controllers, any stop times *)
(* and any bounds: the types, the time for which commands are refused      *)
(* after a fault, and that the motor is off for that time.                 *)
(***************************************************************************)
EXTENDS McInterface, TLAPS

ThreadPc == {"idle", "try", "take", "mode", "state", "done", "locked"}
ThreadState == [pc : ThreadPc, cmd : Setter]
TimerPc == {"sleep", "stop_time", "stop_pwm", "stop_code", "count", "decrement", "clear"}
TimerState == [pc : TimerPc, read : Nat, code : FaultCode, next : {"count", "sleep"}]

(* What mc_interface_fault_stop has left stands, as long as no fault stop  *)
(* fell into the gap between a check and its action:                       *)
(* the decrement of m_ignore_iterations writes what it read;               *)
ReadIsFresh == timer.pc = "decrement" => timer.read = ignore

(* commands are refused from the first step of a fault stop in the timer   *)
(* thread on, but the speed controller is not;                             *)
Passed(t) == thread[t].pc \in {"take", "mode", "state"}
StopIsUnderWay ==
  timer.pc = "stop_pwm" => ignore > 0 /\ \A t \in Threads : ~Passed(t)

(* and otherwise nobody has anything left to do to a motor that is off     *)
(* while commands are refused.                                             *)
RefusedIsOff ==
  ignore > 0 /\ timer.pc # "stop_pwm" => state = "OFF" /\ mode = "NONE" /\ ~Acting

StopHolds == FaultTimeIsKept /\ ReadIsFresh /\ StopIsUnderWay /\ RefusedIsOff

DecrementPositive == timer.pc = "decrement" => timer.read > 0

MotorInv == TypeOK /\ DecrementPositive /\ (~raced => StopHolds)

-----------------------------------------------------------------------------
(* What the helpers on the thread's place do to its type, and to who is    *)
(* past the gate.                                                          *)
LEMMA BeginThread ==
  ASSUME thread \in [Threads -> ThreadState], NEW t \in Threads, NEW c \in Setter, Begin(t, c)
  PROVE  /\ thread' \in [Threads -> ThreadState]
         /\ \A u \in Threads : Passed(u)' => Passed(u)
  BY DEF Begin, ThreadState, ThreadPc, Passed

(* ... and Goto lets at most its own thread past it.                        *)
LEMMA GotoThread ==
  ASSUME thread \in [Threads -> ThreadState], NEW t \in Threads, NEW p \in ThreadPc, Goto(t, p)
  PROVE  /\ thread' \in [Threads -> ThreadState]
         /\ \A u \in Threads : Passed(u)' => Passed(u) \/ (u = t /\ p \in {"take", "mode", "state"})
  BY DEF Goto, ThreadState, ThreadPc, Passed

(* A thread with nothing to send is well-typed.                            *)
LEMMA IdleType == Idle \in ThreadState
  BY DEF Idle, ThreadState, ThreadPc, Setter

(* A refused or finished command is not past the gate any more.            *)
LEMMA FinishThread ==
  ASSUME thread \in [Threads -> ThreadState], NEW t \in Threads, Finish(t)
  PROVE  /\ thread' \in [Threads -> ThreadState]
         /\ \A u \in Threads : Passed(u)' => Passed(u)
<1> DEFINE q == IF t = Detector THEN "locked" ELSE "done"
<1>1. thread' = [thread EXCEPT ![t] = [pc |-> q, cmd |-> "release"]]
  <2>1. [Idle EXCEPT !.pc = q] = [pc |-> q, cmd |-> "release"]
    BY DEF Idle
  <2> QED
    BY <2>1, Zenon DEF Finish
<1>2. q \in {"locked", "done"}
  OBVIOUS
<1> HIDE DEF q
<1> QED
  BY <1>1, <1>2 DEF ThreadState, ThreadPc, Setter, Passed

(* Neither is a thread that goes back to idle.                             *)
LEMMA IdleThread ==
  ASSUME thread \in [Threads -> ThreadState], NEW t \in Threads, thread' = [thread EXCEPT ![t] = Idle]
  PROVE  /\ thread' \in [Threads -> ThreadState]
         /\ \A u \in Threads : Passed(u)' => Passed(u)
  BY DEF ThreadState, ThreadPc, Setter, Passed, Idle

(* What the setters and controllers of mcpwm.c make of a state.            *)
LEMMA McpwmTypes ==
  ASSUME NEW s \in McState, NEW c \in Setter, NEW md \in ControlMode
  PROVE  /\ ModeSet(c) \in ControlMode
         /\ StateSet(c, s) \subseteq McState
         /\ set_duty_cycle_hl(s) \subseteq McState
         /\ set_zero_duty_hl(s) \subseteq McState
         /\ ControlStep(s, md) \subseteq McState
         /\ ControlStep("OFF", md) = {"OFF"}
  BY DEF McState, Setter, ControlMode, ModeSet, StateSet, set_duty_cycle_hl, set_zero_duty_hl,
         ControlStep

(* The timer thread's place.                                               *)
LEMMA TimerGotoPlace ==
  ASSUME timer \in TimerState, NEW p \in TimerPc, TimerGoto(p)
  PROVE  timer' \in TimerState /\ timer'.pc = p
  BY DEF TimerGoto, TimerState, TimerPc

(* mc_interface_fault_stop begins with the time.                           *)
LEMMA FaultStopPlace ==
  ASSUME NEW f \in FaultCode, NEW n \in {"count", "sleep"}, FaultStopBegins(f, n)
  PROVE  timer' \in TimerState /\ timer'.pc = "stop_time"
  BY DEF FaultStopBegins, TimerState, TimerPc

(* The timer thread between two turns.                                     *)
LEMMA AsleepType == Asleep \in TimerState /\ Asleep.pc = "sleep"
  BY DEF Asleep, TimerState, TimerPc, FaultCode

(* Where a fault stop returns to.                                          *)
LEMMA StopCodePlace ==
  ASSUME timer \in TimerState, timer' = [Asleep EXCEPT !.pc = timer.next]
  PROVE  timer' \in TimerState /\ timer'.pc \in {"count", "sleep"}
  BY AsleepType DEF TimerState, TimerPc

(* update_override_limits ends the turn or begins a fault stop.            *)
LEMMA UpdateLimitsPlace ==
  ASSUME UpdateLimits
  PROVE  timer' \in TimerState /\ timer'.pc \in {"sleep", "stop_time"} /\ cycled' \in BOOLEAN
<1>1. CASE timer' = Asleep
  BY <1>1, AsleepType DEF UpdateLimits
<1>2. CASE FaultStopBegins("OVER_TEMP_FET", "sleep")
  BY <1>2, FaultStopPlace DEF UpdateLimits, FaultCode
<1> QED
  BY <1>1, <1>2 DEF UpdateLimits

TypeParts ==
  /\ state \in McState /\ mode \in ControlMode
  /\ ignore \in Nat /\ fault \in FaultCode
  /\ lock \in BOOLEAN /\ override \in BOOLEAN
  /\ thread \in [Threads -> ThreadState]
  /\ timer \in TimerState
  /\ speed \in {"check", "output", "too_slow", "stop"}
  /\ silence \in 0..(TimeoutMsec + 1) /\ has_timeout \in BOOLEAN
  /\ voltage \in {"ok", "wrong"} /\ wrong \in 0..WrongVoltage /\ drv \in BOOLEAN
  /\ cycled \in BOOLEAN /\ raced \in BOOLEAN
  /\ elapsed \in 0..FaultStopTime /\ passes \in 0..2
  /\ commands \in 0..MaxCommands /\ faults \in 0..MaxFaults

(* The types, with the names above for the records.                        *)
LEMMA SameTypes == (TypeOK <=> TypeParts) /\ (TypeOK' <=> TypeParts')
<1>1. TypeOK <=> TypeParts
  BY DEF TypeOK, TypeParts, ThreadState, ThreadPc, TimerState, TimerPc
<1>2. TypeOK' <=> TypeParts'
  BY DEF TypeOK, TypeParts, ThreadState, ThreadPc, TimerState, TimerPc
<1> QED
  BY <1>1, <1>2

-----------------------------------------------------------------------------
(* mc_interface_init establishes the invariant.                            *)
LEMMA MotorInvInit == Init => MotorInv
<1> SUFFICES ASSUME Init PROVE MotorInv
  OBVIOUS
<1>1. thread \in [Threads -> ThreadState]
  BY IdleType DEF Init
<1>2. timer \in TimerState
  BY DEF Init, Asleep, TimerState, TimerPc, FaultCode
<1>3. TypeParts
  <2>1. /\ silence \in 0..(TimeoutMsec + 1) /\ wrong \in 0..WrongVoltage
        /\ elapsed \in 0..FaultStopTime /\ passes \in 0..2
        /\ commands \in 0..MaxCommands /\ faults \in 0..MaxFaults /\ ignore \in Nat
    BY McInterfaceAssumption DEF Init
  <2> QED
    BY <1>1, <1>2, <2>1, Zenon DEF Init, TypeParts, McState, ControlMode, FaultCode
<1>4. FaultTimeIsKept
  BY McInterfaceAssumption DEF Init, FaultTimeIsKept
<1>5. DecrementPositive /\ ReadIsFresh /\ StopIsUnderWay /\ RefusedIsOff
  BY DEF Init, DecrementPositive, ReadIsFresh, StopIsUnderWay, RefusedIsOff, Asleep
<1> QED
  BY <1>3, <1>4, <1>5, SameTypes DEF MotorInv, StopHolds

(* Every step keeps the types; m_ignore_iterations-- writes no negative    *)
(* value because only a positive one is read for it.                       *)
LEMMA MotorTypesNext ==
  TypeOK /\ DecrementPositive /\ [Next]_vars => TypeOK' /\ DecrementPositive'
<1> SUFFICES ASSUME TypeParts, DecrementPositive, [Next]_vars
             PROVE  TypeParts' /\ DecrementPositive'
  BY SameTypes
<1> USE McInterfaceAssumption DEF TypeParts, DecrementPositive, motor, gate, sense, history, bounds
<1>0. CASE UNCHANGED vars
  BY <1>0 DEF vars
<1>1. ASSUME NEW t \in Controllers, NEW c \in Commands, Command(t, c)
      PROVE  TypeParts' /\ DecrementPositive'
  BY <1>1, BeginThread DEF Command, Threads
<1>2. ASSUME NEW t \in Controllers, StoreConfiguration(t)
      PROVE  TypeParts' /\ DecrementPositive'
  <2>1. t \in Threads /\ "release" \in Setter /\ Begin(t, "release")
    BY <1>2 DEF StoreConfiguration, Threads, Setter
  <2>2. thread' \in [Threads -> ThreadState]
    BY <2>1, BeginThread
  <2> QED
    <3>1. lock' \in BOOLEAN
      BY <1>2, Zenon DEF StoreConfiguration
    <3>2. commands' \in 0..MaxCommands
      BY <1>2 DEF StoreConfiguration
    <3> QED
      BY <1>2, <2>2, <3>1, <3>2, Zenon DEF StoreConfiguration
<1>3. CASE mc_interface_lock
  BY <1>3, GotoThread DEF mc_interface_lock, Threads, ThreadPc
<1>4. ASSUME NEW c \in Commands, mc_interface_lock_override_once(c)
      PROVE  TypeParts' /\ DecrementPositive'
  BY <1>4, BeginThread DEF mc_interface_lock_override_once, Threads
<1>5. ASSUME NEW t \in Threads, try_input(t)
      PROVE  TypeParts' /\ DecrementPositive'
  <2>1. thread' \in [Threads -> ThreadState]
    BY <1>5, FinishThread, GotoThread DEF try_input, ThreadPc
  <2>2. state' \in McState /\ mode' \in ControlMode /\ ignore' \in Nat
    BY <1>5 DEF try_input, McState, ControlMode
  <2>3. passes' \in 0..2
    BY <1>5 DEF try_input
  <2>4. raced' \in BOOLEAN
    BY <1>5, Zenon DEF try_input, StopStrikes
  <2> QED
    BY <1>5, <2>1, <2>2, <2>3, <2>4 DEF try_input
<1>6. ASSUME NEW t \in Threads, TakeOverride(t)
      PROVE  TypeParts' /\ DecrementPositive'
  BY <1>6, GotoThread DEF TakeOverride, ThreadPc
<1>7. ASSUME NEW t \in Threads, SetMode(t)
      PROVE  TypeParts' /\ DecrementPositive'
  <2>1. thread[t].cmd \in Setter
    BY DEF ThreadState
  <2>2. mode' \in ControlMode
    BY <1>7, <2>1, McpwmTypes DEF SetMode
  <2> QED
    BY <1>7, <2>2, GotoThread DEF SetMode, ThreadPc
<1>8. ASSUME NEW t \in Threads, SetState(t)
      PROVE  TypeParts' /\ DecrementPositive'
  <2>1. thread[t].cmd \in Setter
    BY DEF ThreadState
  <2>2. state' \in McState
    BY <1>8, <2>1, McpwmTypes DEF SetState
  <2> QED
    BY <1>8, <2>2, FinishThread DEF SetState
<1>9. ASSUME NEW t \in Threads, CommandReturns(t)
      PROVE  TypeParts' /\ DecrementPositive'
  <2>1. thread' \in [Threads -> ThreadState]
    BY <1>9, IdleThread DEF CommandReturns
  <2> QED
    BY <1>9, <2>1 DEF CommandReturns
<1>10. CASE mc_interface_unlock
  BY <1>10, IdleThread DEF mc_interface_unlock, Threads
<1>11. CASE TimeoutFires
  BY <1>11, BeginThread DEF TimeoutFires, Threads, Setter
<1>12. CASE TimeoutDone
  BY <1>12, IdleThread DEF TimeoutDone, Threads
<1>13. CASE TimeoutNotDue
  BY <1>13 DEF TimeoutNotDue
<1>14. CASE SpeedCheck
  BY <1>14 DEF SpeedCheck
<1>15. CASE SpeedTooSlow
  BY <1>15 DEF SpeedTooSlow, ControlMode
<1>16. CASE SpeedOutput
  <2>1. state' \in McState
    BY <1>16, McpwmTypes DEF SpeedOutput, Setter, ControlMode
  <2> QED
    BY <1>16, <2>1 DEF SpeedOutput
<1>17. CASE TimerWakes
  <2>1. timer' \in TimerState /\ timer'.pc # "decrement"
    <3>1. CASE TimerGoto("count")
      BY <3>1, TimerGotoPlace DEF TimerPc
    <3>2. CASE FaultStopBegins("DRV8302", "count")
      BY <3>2, FaultStopPlace DEF FaultCode
    <3> QED
      BY <1>17, <3>1, <3>2 DEF TimerWakes
  <2>2. silence' \in 0..(TimeoutMsec + 1)
    BY <1>17 DEF TimerWakes
  <2> QED
    BY <1>17, <2>1, <2>2 DEF TimerWakes
<1>18. CASE StopTime
  <2>1. timer' \in TimerState /\ timer'.pc # "decrement"
    BY <1>18, TimerGotoPlace DEF StopTime, TimerPc
  <2>2. raced' \in BOOLEAN
    BY <1>18, Zenon DEF StopTime, Strikes
  <2> QED
    BY <1>18, <2>1, <2>2 DEF StopTime
<1>19. CASE StopPwm
  <2>1. timer' \in TimerState /\ timer'.pc # "decrement"
    BY <1>19, TimerGotoPlace DEF StopPwm, TimerPc
  <2>2. raced' \in BOOLEAN
    BY <1>19, Zenon DEF StopPwm, Strikes
  <2> QED
    BY <1>19, <2>1, <2>2 DEF StopPwm, McState, ControlMode
<1>20. CASE StopCode
  <2>1. timer' \in TimerState /\ timer'.pc # "decrement" /\ timer.code \in FaultCode
    BY <1>20, StopCodePlace DEF StopCode, TimerState
  <2> QED
    BY <1>20, <2>1 DEF StopCode
<1>21. ASSUME UpdateLimits
       PROVE  timer' \in TimerState /\ timer'.pc # "decrement" /\ cycled' \in BOOLEAN
  BY <1>21, UpdateLimitsPlace
<1>22. ASSUME UpdateLimits
       PROVE  faults' \in 0..MaxFaults
  BY <1>22 DEF UpdateLimits
<1>23. CASE Count
  <2>1. CASE UpdateLimits
    BY <1>21, <1>22, <1>23, <2>1 DEF Count
  <2>2. CASE /\ ignore > 0
             /\ timer' = [timer EXCEPT !.pc = "decrement", !.read = ignore]
             /\ UNCHANGED <<cycled, faults>>
    <3>1. timer' \in TimerState /\ timer'.read = ignore
      BY <2>2 DEF TimerState, TimerPc
    <3> QED
      BY <1>23, <2>2, <3>1 DEF Count
  <2>3. CASE TimerGoto("clear") /\ UNCHANGED <<cycled, faults>>
    <3>1. timer' \in TimerState /\ timer'.pc = "clear"
      BY <2>3, TimerGotoPlace DEF TimerPc
    <3> QED
      BY <1>23, <2>3, <3>1 DEF Count
  <2> QED
    BY <1>23, <2>1, <2>2, <2>3 DEF Count
<1>24. CASE Decrement
  <2>1. ignore' \in Nat
    BY <1>24 DEF Decrement, TimerState
  <2>2. elapsed' \in 0..FaultStopTime
    BY <1>24 DEF Decrement
  <2> QED
    BY <1>21, <1>22, <1>24, <2>1, <2>2 DEF Decrement
<1>25. CASE ClearFault
  BY <1>21, <1>22, <1>25 DEF ClearFault, FaultCode
<1>26. CASE PwmInterrupt
  <2>1. state' \in McState /\ mode' \in ControlMode /\ ignore' \in Nat
    BY <1>26, McpwmTypes DEF PwmInterrupt, IsrFaultStop, McState, ControlMode, Setter
  <2>2. wrong' \in 0..WrongVoltage /\ faults' \in 0..MaxFaults
    BY <1>26 DEF PwmInterrupt, WrongVoltageCount
  <2>3. fault' \in FaultCode /\ elapsed' \in 0..FaultStopTime
    BY <1>26 DEF PwmInterrupt, IsrFaultStop, FaultCode
  <2>4. raced' \in BOOLEAN
    BY <1>26, Zenon DEF PwmInterrupt, IsrFaultStop, Strikes
  <2> QED
    BY <1>26, <2>1, <2>2, <2>3, <2>4 DEF PwmInterrupt
<1>27. CASE Environment
  <2>1. drv' \in BOOLEAN
    BY <1>27, Zenon DEF Environment
  <2> QED
    BY <1>27, <2>1 DEF Environment
<1> QED
  BY <1>0, <1>1, <1>2, <1>3, <1>4, <1>5, <1>6, <1>7, <1>8, <1>9, <1>10, <1>11, <1>12, <1>13,
     <1>14, <1>15, <1>16, <1>17, <1>18, <1>19, <1>20, <1>23, <1>24, <1>25, <1>26, <1>27, Zenon
     DEF Next, CommandStep, TimeoutStep, SpeedStep, TimerStep

-----------------------------------------------------------------------------
(* The gap a fault stop fell into is never forgotten.                      *)
LEMMA RacedStays == [Next]_vars /\ raced => raced'
<1>1. ASSUME NEW t \in Threads, CommandStep(t), raced PROVE raced'
  BY <1>1, Zenon DEF CommandStep, try_input, StopStrikes, TakeOverride, SetMode, SetState,
     CommandReturns, history
<1>2. ASSUME TimeoutStep \/ SpeedStep, raced PROVE raced'
  BY <1>2, Zenon DEF TimeoutStep, TimeoutFires, TimeoutDone, TimeoutNotDue, SpeedStep,
     SpeedCheck, SpeedTooSlow, SpeedOutput, history
<1>3. ASSUME TimerStep, raced PROVE raced'
  BY <1>3, Zenon DEF TimerStep, TimerWakes, StopTime, StopPwm, StopCode, Count, Decrement,
     ClearFault, Strikes, history
<1>4. ASSUME PwmInterrupt, raced PROVE raced'
  BY <1>4, Zenon DEF PwmInterrupt, IsrFaultStop, Strikes
<1> QED
  BY <1>1, <1>2, <1>3, <1>4, Zenon
     DEF Next, vars, Command, StoreConfiguration, mc_interface_lock,
         mc_interface_lock_override_once, mc_interface_unlock, Environment, history

(* A command that is past the gate got there with no time left to ignore,  *)
(* and no fault stop has begun since.                                      *)
LEMMA PassedIsOpen ==
  ASSUME TypeParts, StopHolds, NEW t \in Threads, Passed(t)
  PROVE  ignore = 0 /\ timer.pc # "stop_pwm"
  BY DEF TypeParts, StopHolds, StopIsUnderWay, RefusedIsOff, Acting, Passed

(* A step that touches neither the motor nor the stop times, and that lets *)
(* nobody past the gate, keeps what a fault stop has left.                 *)
LEMMA QuietStep ==
  ASSUME StopHolds, UNCHANGED <<state, mode, ignore, elapsed, timer, speed>>,
         \A u \in Threads : Passed(u)' => Passed(u)
  PROVE  StopHolds'
  BY DEF StopHolds, FaultTimeIsKept, ReadIsFresh, StopIsUnderWay, RefusedIsOff, Acting, Passed

(* So does a step that drives the motor while commands are let in, or      *)
(* while the fault stop of the timer thread has yet to stop the motor.     *)
LEMMA DrivingStep ==
  ASSUME StopHolds, UNCHANGED <<ignore, elapsed, timer>>,
         ignore = 0 \/ (timer.pc = "stop_pwm" /\ UNCHANGED thread),
         TypeParts
  PROVE  StopHolds'
  BY DEF StopHolds, FaultTimeIsKept, ReadIsFresh, StopIsUnderWay, RefusedIsOff, Acting, Passed,
     TypeParts

(* And so does a step of the timer thread to a place that promises nothing.*)
LEMMA TimerMoves ==
  ASSUME StopHolds, UNCHANGED <<state, mode, ignore, elapsed, thread, speed>>,
         timer.pc # "stop_pwm", timer'.pc \notin {"stop_pwm", "decrement"}
  PROVE  StopHolds'
  BY DEF StopHolds, FaultTimeIsKept, ReadIsFresh, StopIsUnderWay, RefusedIsOff, Acting, Passed

(* A fault stop that falls into no gap leaves a motor that is off, and     *)
(* refused for all of the fault time.                                      *)
LEMMA StopIsClean ==
  ASSUME TypeParts, StopHolds, Strikes, ~raced', ignore' = FaultStopTime, elapsed' = 0,
         mode' = "NONE", state' = "OFF", UNCHANGED <<timer, thread, speed>>
  PROVE  StopHolds'
<1>1. ~Acting /\ timer.pc # "decrement"
  BY Zenon DEF Strikes
<1>2. ~Acting'
  BY <1>1 DEF Acting
<1> QED
  BY <1>1, <1>2, McInterfaceAssumption
     DEF StopHolds, FaultTimeIsKept, ReadIsFresh, StopIsUnderWay, RefusedIsOff, Passed, TypeParts,
         Acting

(* Every step that races with nothing keeps what a fault stop has left.    *)
LEMMA StopHoldsNext ==
  ASSUME TypeParts, TypeParts', StopHolds, ~raced', Next
  PROVE  StopHolds'
<1> USE DEF motor, gate, sense, history, bounds
<1>t. thread \in [Threads -> ThreadState] /\ timer \in TimerState
  BY DEF TypeParts
<1>1. ASSUME NEW t \in Controllers, NEW c \in Commands, Command(t, c)
      PROVE  StopHolds'
  <2>1. \A u \in Threads : Passed(u)' => Passed(u)
    BY <1>1, <1>t, McInterfaceAssumption, BeginThread DEF Command, Threads
  <2> QED
    BY <1>1, <2>1, QuietStep DEF Command
<1>2. ASSUME NEW t \in Controllers, StoreConfiguration(t)
      PROVE  StopHolds'
  <2>1. "release" \in Setter /\ t \in Threads
    BY DEF Setter, Threads
  <2>2. \A u \in Threads : Passed(u)' => Passed(u)
    BY <1>2, <1>t, <2>1, BeginThread DEF StoreConfiguration
  <2> QED
    BY <1>2, <2>2, QuietStep DEF StoreConfiguration
<1>3. CASE mc_interface_lock
  <2>1. \A u \in Threads : Passed(u)' => Passed(u)
    BY <1>3, <1>t, GotoThread DEF mc_interface_lock, Threads, ThreadPc
  <2> QED
    BY <1>3, <2>1, QuietStep DEF mc_interface_lock
<1>4. ASSUME NEW c \in Commands, mc_interface_lock_override_once(c)
      PROVE  StopHolds'
  <2>1. \A u \in Threads : Passed(u)' => Passed(u)
    BY <1>4, <1>t, McInterfaceAssumption, BeginThread DEF mc_interface_lock_override_once, Threads
  <2> QED
    BY <1>4, <2>1, QuietStep DEF mc_interface_lock_override_once
<1>5. ASSUME NEW t \in Threads, try_input(t)
      PROVE  StopHolds'
  <2>1. CASE state = "DETECTING"
    <3>1. ~Acting /\ timer.pc \notin {"decrement", "clear", "stop_pwm"}
      BY <1>5, <2>1, Zenon DEF try_input, StopStrikes
    <3>2. ignore = 0 /\ elapsed = FaultStopTime
      BY <2>1, <3>1, McInterfaceAssumption DEF StopHolds, RefusedIsOff, FaultTimeIsKept, TypeParts
    <3>3. \A u \in Threads : Passed(u)' => Passed(u)
      BY <1>5, <1>t, <2>1, FinishThread DEF try_input
    <3>4. ~Acting'
      BY <1>5, <3>1, <3>3 DEF Acting, Passed, try_input
    <3>5. /\ state' = "OFF" /\ mode' = "NONE" /\ UNCHANGED <<timer, elapsed>>
          /\ ignore' = DetectStopTime
      BY <1>5, <2>1 DEF try_input
    <3> QED
      BY <3>1, <3>2, <3>4, <3>5, McInterfaceAssumption
         DEF StopHolds, FaultTimeIsKept, ReadIsFresh, StopIsUnderWay, RefusedIsOff
  <2>2. CASE state # "DETECTING" /\ ignore = 0 /\ UNCHANGED ignore
    BY <1>5, <2>2, DrivingStep DEF try_input
  <2>3. CASE state # "DETECTING" /\ Finish(t)
    <3>1. \A u \in Threads : Passed(u)' => Passed(u)
      BY <1>5, <1>t, <2>3, FinishThread
    <3> QED
      BY <1>5, <2>3, <3>1, QuietStep DEF try_input
  <2> QED
    BY <1>5, <2>1, <2>2, <2>3 DEF try_input
<1>6. ASSUME NEW t \in Threads, TakeOverride(t)
      PROVE  StopHolds'
  <2>1. Passed(t)
    BY <1>6 DEF TakeOverride, At, Passed
  <2> QED
    BY <1>6, <2>1, PassedIsOpen, DrivingStep DEF TakeOverride
<1>7. ASSUME NEW t \in Threads, SetMode(t)
      PROVE  StopHolds'
  <2>1. Passed(t)
    BY <1>7 DEF SetMode, At, Passed
  <2> QED
    BY <1>7, <2>1, PassedIsOpen, DrivingStep DEF SetMode
<1>8. ASSUME NEW t \in Threads, SetState(t)
      PROVE  StopHolds'
  <2>1. Passed(t)
    BY <1>8 DEF SetState, At, Passed
  <2> QED
    BY <1>8, <2>1, PassedIsOpen, DrivingStep DEF SetState
<1>9. ASSUME NEW t \in Threads, CommandReturns(t)
      PROVE  StopHolds'
  <2>1. \A u \in Threads : Passed(u)' => Passed(u)
    BY <1>9, <1>t, IdleThread DEF CommandReturns
  <2> QED
    BY <1>9, <2>1, QuietStep DEF CommandReturns
<1>10. CASE mc_interface_unlock
  <2>1. \A u \in Threads : Passed(u)' => Passed(u)
    BY <1>10, <1>t, IdleThread DEF mc_interface_unlock, Threads
  <2> QED
    BY <1>10, <2>1, QuietStep DEF mc_interface_unlock
<1>11. CASE TimeoutStep
  <2>1. CASE TimeoutFires
    <3>1. TimeoutCommand \in Setter /\ TimeoutThread \in Threads
      BY McInterfaceAssumption DEF Setter, Threads
    <3>2. \A u \in Threads : Passed(u)' => Passed(u)
      BY <1>t, <2>1, <3>1, BeginThread DEF TimeoutFires
    <3> QED
      BY <2>1, <3>2, QuietStep DEF TimeoutFires
  <2>2. CASE TimeoutDone
    <3>1. \A u \in Threads : Passed(u)' => Passed(u)
      BY <1>t, <2>2, IdleThread DEF TimeoutDone, Threads
    <3> QED
      BY <2>2, <3>1, QuietStep DEF TimeoutDone
  <2>3. CASE TimeoutNotDue
    BY <2>3, QuietStep DEF TimeoutNotDue, Passed
  <2> QED
    BY <1>11, <2>1, <2>2, <2>3 DEF TimeoutStep
<1>12. CASE SpeedStep
  <2>1. ignore = 0 \/ timer.pc = "stop_pwm"
    BY <1>12 DEF SpeedStep, SpeedCheck, SpeedTooSlow, SpeedOutput, StopHolds, RefusedIsOff, Acting,
       TypeParts
  <2>2. UNCHANGED <<ignore, elapsed, timer, thread>>
    BY <1>12 DEF SpeedStep, SpeedCheck, SpeedTooSlow, SpeedOutput
  <2> QED
    BY <2>1, <2>2, DrivingStep
<1>13. CASE TimerWakes
  <2>1. timer'.pc \notin {"stop_pwm", "decrement"}
    <3>1. CASE TimerGoto("count")
      BY <1>t, <3>1, TimerGotoPlace DEF TimerPc
    <3>2. CASE FaultStopBegins("DRV8302", "count")
      BY <3>2, FaultStopPlace DEF FaultCode
    <3> QED
      BY <1>13, <3>1, <3>2 DEF TimerWakes
  <2> QED
    BY <1>13, <2>1, TimerMoves DEF TimerWakes
<1>14. CASE StopTime
  <2>1. ~Acting /\ timer'.pc = "stop_pwm"
    <3>1. ~Acting
      BY <1>14, Zenon DEF StopTime, Strikes
    <3> QED
      BY <1>14, <1>t, <3>1, TimerGotoPlace DEF StopTime, TimerPc
  <2>2. \A t \in Threads : ~Passed(t)'
    BY <1>14, <2>1 DEF StopTime, Acting, Passed
  <2> QED
    BY <1>14, <2>1, <2>2, McInterfaceAssumption
       DEF StopTime, StopHolds, FaultTimeIsKept, ReadIsFresh, StopIsUnderWay, RefusedIsOff
<1>15. CASE StopPwm
  <2>1. ~Acting /\ timer'.pc = "stop_code"
    <3>1. ~Acting
      BY <1>15, Zenon DEF StopPwm, Strikes
    <3> QED
      BY <1>15, <1>t, <3>1, TimerGotoPlace DEF StopPwm, TimerPc
  <2>2. ~Acting'
    BY <1>15, <2>1 DEF StopPwm, Acting
  <2> QED
    BY <1>15, <2>1, <2>2
       DEF StopPwm, StopHolds, FaultTimeIsKept, ReadIsFresh, StopIsUnderWay, RefusedIsOff
<1>16. CASE StopCode
  <2>1. timer'.pc \notin {"stop_pwm", "decrement"}
    BY <1>16, <1>t, StopCodePlace DEF StopCode
  <2> QED
    BY <1>16, <2>1, TimerMoves DEF StopCode
<1>17. CASE Count
  <2>1. CASE UpdateLimits
    BY <1>17, <2>1, UpdateLimitsPlace, TimerMoves DEF Count
  <2>2. CASE /\ ignore > 0
             /\ timer' = [timer EXCEPT !.pc = "decrement", !.read = ignore]
    <3>1. timer'.pc = "decrement" /\ timer'.read = ignore
      BY <1>t, <2>2 DEF TimerState
    <3>2. ~Acting' <=> ~Acting
      BY <1>17 DEF Count, Acting
    <3> QED
      BY <1>17, <3>1, <3>2
         DEF Count, StopHolds, FaultTimeIsKept, ReadIsFresh, StopIsUnderWay, RefusedIsOff
  <2>3. CASE TimerGoto("clear")
    <3>1. timer'.pc = "clear"
      BY <1>t, <2>3, TimerGotoPlace DEF TimerPc
    <3> QED
      BY <1>17, <3>1, TimerMoves DEF Count
  <2> QED
    BY <1>17, <2>1, <2>2, <2>3 DEF Count
<1>18. CASE Decrement
  <2>2. ignore' = ignore - 1 /\ (~Acting' <=> ~Acting)
    BY <1>18 DEF Decrement, StopHolds, ReadIsFresh, Acting
  <2>3. timer'.pc \notin {"stop_pwm", "decrement"}
    BY <1>18, UpdateLimitsPlace DEF Decrement
  <2>4. FaultTimeIsKept'
    BY <1>18, <2>2, McInterfaceAssumption DEF Decrement, StopHolds, FaultTimeIsKept, TypeParts
  <2> QED
    BY <1>18, <2>2, <2>3, <2>4
       DEF Decrement, StopHolds, ReadIsFresh, StopIsUnderWay, RefusedIsOff, TypeParts
<1>19. CASE ClearFault
  <2>1. timer'.pc \notin {"stop_pwm", "decrement"}
    BY <1>19, UpdateLimitsPlace DEF ClearFault
  <2> QED
    BY <1>19, <2>1, TimerMoves DEF ClearFault
<1>20. CASE PwmInterrupt
  <2>1. ASSUME NEW f, IsrFaultStop(f) PROVE StopHolds'
    BY <1>20, <2>1, StopIsClean DEF PwmInterrupt, IsrFaultStop
  <2>2. CASE /\ state' \in ControlStep(state, mode)
             /\ UNCHANGED <<mode, ignore, fault, raced, elapsed, faults>>
    <3>1. CASE ignore > 0 /\ timer.pc # "stop_pwm"
      <4>1. state = "OFF" /\ state' = "OFF"
        BY <2>2, <3>1 DEF ControlStep, StopHolds, RefusedIsOff
      <4> QED
        BY <1>20, <2>2, <4>1, QuietStep DEF PwmInterrupt, Passed
    <3>2. CASE ~(ignore > 0 /\ timer.pc # "stop_pwm")
      BY <1>20, <2>2, <3>2, DrivingStep DEF PwmInterrupt, TypeParts
    <3> QED
      BY <3>1, <3>2
  <2> QED
    BY <1>20, <2>1, <2>2 DEF PwmInterrupt
<1>21. CASE Environment
  BY <1>21, QuietStep DEF Environment, Passed
<1> QED
  BY <1>1, <1>2, <1>3, <1>4, <1>5, <1>6, <1>7, <1>8, <1>9, <1>10, <1>11, <1>12, <1>13, <1>14,
     <1>15, <1>16, <1>17, <1>18, <1>19, <1>20, <1>21, Zenon DEF Next, CommandStep, TimerStep

(* The invariant is inductive ...                                          *)
LEMMA MotorInvNext == MotorInv /\ [Next]_vars => MotorInv'
<1> SUFFICES ASSUME MotorInv, [Next]_vars PROVE MotorInv'
  OBVIOUS
<1>1. TypeOK' /\ DecrementPositive'
  BY MotorTypesNext DEF MotorInv
<1>2. ASSUME ~raced' PROVE StopHolds'
  <2>1. StopHolds
    BY <1>2, RacedStays DEF MotorInv
  <2>2. CASE UNCHANGED vars
    BY <2>1, <2>2, QuietStep DEF vars, motor, gate, history, Passed
  <2>3. CASE Next
    BY <1>1, <1>2, <2>1, <2>3, StopHoldsNext, SameTypes DEF MotorInv
  <2> QED
    BY <2>2, <2>3
<1> QED
  BY <1>1, <1>2 DEF MotorInv

(* ... and so holds throughout.                                            *)
LEMMA MotorInvHolds == Spec => []MotorInv
  BY MotorInvInit, MotorInvNext, PTL DEF Spec

-----------------------------------------------------------------------------
(* The shared variables of mc_interface.c, timeout.c and mcpwm.c keep      *)
(* their types under every interleaving; in particular the time to ignore  *)
(* is never decremented below zero.                                        *)
THEOREM MotorTypes == Spec => []TypeOK
<1>1. MotorInv => TypeOK
  BY DEF MotorInv
<1> QED
  BY <1>1, MotorInvHolds, PTL

(* mc_interface_try_input refuses commands for at least the whole fault    *)
(* time after the last fault stop, unless a fault stop fell into a         *)
(* check-then-act of another thread.                                       *)
THEOREM FaultTimeKept == Spec => []FaultTimeIsKeptUnlessRaced
<1>1. MotorInv => FaultTimeIsKeptUnlessRaced
  BY DEF MotorInv, StopHolds, FaultTimeIsKeptUnlessRaced
<1> QED
  BY <1>1, MotorInvHolds, PTL

(* While a fault is reported and waited out, the motor is off: no command  *)
(* thread, no speed controller and no PWM interrupt can undo               *)
(* mc_interface_fault_stop, unless it was past its check when it struck.   *)
THEOREM MotorStaysOff == Spec => []FaultHoldsMotorOff
<1>1. MotorInv => FaultHoldsMotorOff
  BY DEF MotorInv, StopHolds, RefusedIsOff, FaultHoldsMotorOff
<1> QED
  BY <1>1, MotorInvHolds, PTL
=============================================================================
