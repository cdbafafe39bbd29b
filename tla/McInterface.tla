---------------------------- MODULE McInterface ----------------------------
(***************************************************************************)
(* Who may drive the motor: mc_interface.c and timeout.c over mcpwm.c.     *)
(*                                                                         *)
(* Threads send commands through mc_interface_try_input, which refuses     *)
(* them while m_ignore_iterations runs down after a fault and while the    *)
(* control is locked.  A detection thread locks the control and lets its   *)
(* own commands in one by one; the timeout thread brakes when nobody sends *)
(* commands; the rpm thread runs the speed controller; the mcif timer      *)
(* thread ends the fault time.  All of them have the same priority and are *)
(* time-sliced, and the PWM interrupt, which finds the faults, preempts    *)
(* them anywhere.  No lock protects what they share, so each read or write *)
(* of a shared variable that another actor can fall between is a step.     *)
(***************************************************************************)
EXTENDS Naturals, Mcpwm

CONSTANTS
  Controllers,    \* threads that send commands (apps, USB, CAN, UART)
  Detector,       \* the thread that runs a detection with the control locked
  TimeoutThread,
  FaultStopTime,  \* m_fault_stop_time_ms
  DetectStopTime, \* MCPWM_DETECT_STOP_TIME
  WrongVoltage,   \* PWM cycles of wrong voltage that make a fault (8)
  TimeoutMsec,    \* timeout_msec, in loops of the mcif timer thread (1 ms)
  TimeoutCommand, \* what timeout_brake_current amounts to: a brake, a release
  Commands,       \* the commands the controllers and the detector send
  MaxCommands,    \* bound on commands of the controllers and the detector
  MaxFaults       \* bound on changes of the fault conditions

Threads == Controllers \cup {Detector, TimeoutThread}

ASSUME McInterfaceAssumption ==
  /\ Detector \notin Controllers /\ TimeoutThread \notin Controllers
  /\ Detector # TimeoutThread
  /\ FaultStopTime \in Nat \ {0} /\ DetectStopTime \in Nat \ {0}
  /\ WrongVoltage \in Nat \ {0}
  /\ TimeoutMsec \in Nat
  /\ TimeoutCommand \in {"brake_current", "release"}
  /\ Commands \subseteq Setter
  /\ MaxCommands \in Nat /\ MaxFaults \in Nat

VARIABLES
  state, mode,    \* mcpwm.c: state, control_mode
  ignore,         \* m_ignore_iterations
  fault,          \* m_fault_now
  lock, override, \* m_lock_enabled, m_lock_override_once
  thread,         \* where each command thread stands, and with which command
  timer,          \* the mcif timer thread: its step, the value it has read
  speed,          \* the step of the rpm thread
  silence,        \* ms since timeout_reset, at most TimeoutMsec + 1
  has_timeout,
  voltage,        \* input voltage: "ok" or "wrong"
  wrong,          \* wrong_voltage_iterations, at most WrongVoltage
  drv,            \* IS_DRV_FAULT()
  cycled,         \* the PWM interrupt ran since the timer thread slept
  raced,          \* history: a fault stop fell into a check-then-act
  elapsed,        \* history: decrements since the last fault stop
  passes,         \* history: commands let in by the last override
  commands, faults

motor == <<state, mode>>
gate == <<ignore, fault, lock, override>>
sense == <<voltage, wrong, drv>>
history == <<raced, elapsed, passes>>
bounds == <<commands, faults>>
vars == <<motor, gate, thread, timer, speed, silence, has_timeout, sense,
          cycled, history, bounds>>

FaultCode == {"NONE", "VOLTAGE", "DRV8302", "ABS_OVER_CURRENT", "OVER_TEMP_FET"}
Idle == [pc |-> "idle", cmd |-> "release"]
At(t, p) == thread[t].pc = p
Goto(t, p) == thread' = [thread EXCEPT ![t].pc = p]
Begin(t, c) == thread' = [thread EXCEPT ![t] = [pc |-> "try", cmd |-> c]]
Finish(t) ==
  thread' = [thread EXCEPT ![t] =
    [Idle EXCEPT !.pc = IF t = Detector THEN "locked" ELSE "done"]]

(* Threads that have passed their check and not yet acted on it.           *)
Acting ==
  \/ \E t \in Threads : thread[t].pc \in {"take", "mode", "state"}
  \/ speed # "check"
Strikes == raced' = (raced \/ Acting \/ timer.pc \in {"decrement", "clear"})

(* Stopping a detection must not fall into a fault stop either.            *)
StopStrikes ==
  raced' = (raced \/ Acting \/ timer.pc \in {"decrement", "clear", "stop_pwm"})

-----------------------------------------------------------------------------
(* A command: the gate, then the setter of mcpwm.c.                        *)

(* A controller sends a command ...                                        *)
Command(t, c) ==
  /\ At(t, "idle") /\ t \in Controllers
  /\ commands < MaxCommands
  /\ commands' = commands + 1
  /\ Begin(t, c)
  /\ UNCHANGED <<motor, gate, timer, speed, silence, has_timeout, sense,
                 cycled, history, faults>>

(* ... or stores a configuration, which unlocks and releases the motor.    *)
StoreConfiguration(t) ==
  /\ At(t, "idle") /\ t \in Controllers
  /\ commands < MaxCommands
  /\ commands' = commands + 1
  /\ lock' = FALSE
  /\ Begin(t, "release")
  /\ UNCHANGED <<motor, ignore, fault, override, timer, speed, silence,
                 has_timeout, sense, cycled, history, faults>>

(* mc_interface_try_input.  A detection under way is stopped; otherwise    *)
(* the command passes if no time is left to ignore and the control is      *)
(* unlocked, or locked with an override to take.                           *)
try_input(t) ==
  /\ At(t, "try")
  /\ \/ /\ state = "DETECTING"
        /\ state' = "OFF" /\ mode' = "NONE"
        /\ ignore' = DetectStopTime
        /\ Finish(t)
        /\ StopStrikes
        /\ UNCHANGED passes
     \/ /\ state # "DETECTING"
        /\ \/ /\ ignore > 0 \/ (lock /\ ~override)
              /\ Finish(t)
              /\ UNCHANGED passes
           \/ /\ ignore = 0 /\ ~lock
              /\ Goto(t, "mode")
              /\ UNCHANGED passes
           \/ /\ ignore = 0 /\ lock /\ override
              /\ Goto(t, "take")
              /\ passes' = IF passes < 2 THEN passes + 1 ELSE passes
        /\ UNCHANGED <<motor, ignore, raced>>
  /\ UNCHANGED <<fault, lock, override, timer, speed, silence, has_timeout,
                 sense, cycled, elapsed, bounds>>

TakeOverride(t) ==
  /\ At(t, "take")
  /\ override' = FALSE
  /\ Goto(t, "mode")
  /\ UNCHANGED <<motor, ignore, fault, lock, timer, speed, silence,
                 has_timeout, sense, cycled, history, bounds>>

SetMode(t) ==
  /\ At(t, "mode")
  /\ mode' = ModeSet(thread[t].cmd)
  /\ Goto(t, "state")
  /\ UNCHANGED <<state, gate, timer, speed, silence, has_timeout, sense,
                 cycled, history, bounds>>

SetState(t) ==
  /\ At(t, "state")
  /\ state' \in StateSet(thread[t].cmd, state)
  /\ Finish(t)
  /\ UNCHANGED <<mode, gate, timer, speed, silence, has_timeout, sense,
                 cycled, history, bounds>>

(* ... and, accepted or not, it resets the timeout, unless it comes from   *)
(* the terminal or from the store of a configuration.                      *)
CommandReturns(t) ==
  /\ At(t, "done") /\ t \in Controllers
  /\ silence' = 0 \/ UNCHANGED silence
  /\ thread' = [thread EXCEPT ![t] = Idle]
  /\ UNCHANGED <<motor, gate, timer, speed, has_timeout, sense, cycled,
                 history, bounds>>

-----------------------------------------------------------------------------
(* The detections of conf_general.c and mcpwm_foc.c lock the control, let  *)
(* their commands in one by one and unlock it.                             *)

mc_interface_lock ==
  /\ At(Detector, "idle")
  /\ commands < MaxCommands
  /\ lock' = TRUE
  /\ Goto(Detector, "locked")
  /\ UNCHANGED <<motor, ignore, fault, override, timer, speed, silence,
                 has_timeout, sense, cycled, history, bounds>>

mc_interface_lock_override_once(c) ==
  /\ At(Detector, "locked")
  /\ commands < MaxCommands
  /\ commands' = commands + 1
  /\ override' = TRUE
  /\ passes' = 0
  /\ Begin(Detector, c)
  /\ UNCHANGED <<motor, ignore, fault, lock, timer, speed, silence,
                 has_timeout, sense, cycled, raced, elapsed, faults>>

mc_interface_unlock ==
  /\ At(Detector, "locked")
  /\ lock' = FALSE
  /\ thread' = [thread EXCEPT ![Detector] = Idle]
  /\ UNCHANGED <<motor, ignore, fault, override, timer, speed, silence,
                 has_timeout, sense, cycled, history, bounds>>

-----------------------------------------------------------------------------
(* The timeout thread.                                                     *)

Expired == TimeoutMsec # 0 /\ silence > TimeoutMsec

(* Unlock, then mc_interface_set_brake_current(timeout_brake_current).     *)
MutantTimeoutFires ==
  /\ At(TimeoutThread, "idle") /\ Expired /\ ~has_timeout
  /\ lock' = FALSE
  /\ Begin(TimeoutThread, TimeoutCommand)
  /\ UNCHANGED <<motor, ignore, fault, override, timer, speed, silence,
                 has_timeout, sense, cycled, history, bounds>>

TimeoutFires ==
  /\ At(TimeoutThread, "idle") /\ Expired
  /\ lock' = FALSE
  /\ Begin(TimeoutThread, TimeoutCommand)
  /\ UNCHANGED <<motor, ignore, fault, override, timer, speed, silence,
                 has_timeout, sense, cycled, history, bounds>>

TimeoutDone ==
  /\ At(TimeoutThread, "done")
  /\ has_timeout' = TRUE
  /\ thread' = [thread EXCEPT ![TimeoutThread] = Idle]
  /\ UNCHANGED <<motor, gate, timer, speed, silence, sense, cycled, history,
                 bounds>>

TimeoutNotDue ==
  /\ At(TimeoutThread, "idle") /\ ~Expired
  /\ has_timeout' = FALSE
  /\ UNCHANGED <<motor, gate, thread, timer, speed, silence, sense, cycled,
                 history, bounds>>

-----------------------------------------------------------------------------
(* The speed controller, in the rpm thread of mcpwm.c.                     *)

SpeedCheck ==
  /\ speed = "check" /\ mode = "SPEED"
  /\ speed' \in {"output", "too_slow"}
  /\ UNCHANGED <<motor, gate, thread, timer, silence, has_timeout, sense,
                 cycled, history, bounds>>

(* The set speed is below s_pid_min_erpm: mcpwm_set_duty(0).               *)
SpeedTooSlow ==
  /\ speed = "too_slow"
  /\ mode' = "DUTY"
  /\ speed' = "stop"
  /\ UNCHANGED <<state, gate, thread, timer, silence, has_timeout, sense,
                 cycled, history, bounds>>

SpeedOutput ==
  /\ speed \in {"output", "stop"}
  /\ state' \in IF speed = "output" THEN set_duty_cycle_hl(state)
                                    ELSE set_zero_duty_hl(state)
  /\ speed' = "check"
  /\ UNCHANGED <<mode, gate, thread, timer, silence, has_timeout, sense,
                 cycled, history, bounds>>

-----------------------------------------------------------------------------
(* The mcif timer thread.  mc_interface_fault_stop is three steps in it.   *)

TimerGoto(p) == timer' = [timer EXCEPT !.pc = p]
FaultStopBegins(f, next) ==
  timer' = [pc |-> "stop_time", code |-> f, next |-> next, read |-> 0]
Asleep == [pc |-> "sleep", code |-> "NONE", next |-> "count", read |-> 0]

(* A millisecond, many PWM cycles, has gone by.  The DRV8302 is checked.   *)
TimerWakes ==
  /\ timer.pc = "sleep" /\ cycled
  /\ silence' = IF silence <= TimeoutMsec THEN silence + 1 ELSE silence
  /\ \/ drv /\ FaultStopBegins("DRV8302", "count")
     \/ ~drv /\ TimerGoto("count")
  /\ UNCHANGED <<motor, gate, thread, speed, has_timeout, sense, cycled,
                 history, bounds>>

StopTime ==
  /\ timer.pc = "stop_time"
  /\ ignore' = FaultStopTime
  /\ elapsed' = 0
  /\ Strikes
  /\ TimerGoto("stop_pwm")
  /\ UNCHANGED <<motor, fault, lock, override, thread, speed, silence,
                 has_timeout, sense, cycled, passes, bounds>>

StopPwm ==
  /\ timer.pc = "stop_pwm"
  /\ mode' = "NONE" /\ state' = "OFF"
  /\ Strikes
  /\ TimerGoto("stop_code")
  /\ UNCHANGED <<gate, thread, speed, silence, has_timeout, sense, cycled,
                 elapsed, passes, bounds>>

StopCode ==
  /\ timer.pc = "stop_code"
  /\ fault' = timer.code
  /\ timer' = [Asleep EXCEPT !.pc = timer.next]
  /\ UNCHANGED <<motor, ignore, lock, override, thread, speed, silence,
                 has_timeout, sense, cycled, history, bounds>>

(* update_override_limits, which stops an overheated motor, ends a turn.   *)
UpdateLimits ==
  /\ \/ timer' = Asleep /\ UNCHANGED faults
     \/ /\ faults < MaxFaults /\ faults' = faults + 1
        /\ FaultStopBegins("OVER_TEMP_FET", "sleep")
  /\ cycled' = FALSE

MutantCount ==
  /\ timer.pc = "count"
  /\ timer' = [timer EXCEPT !.pc = "decrement", !.read = ignore]
  /\ UNCHANGED <<motor, gate, thread, speed, silence, has_timeout, sense,
                 cycled, history, bounds>>

(* m_ignore_iterations-- is a read ...                                     *)
Count ==
  /\ timer.pc = "count"
  /\ \/ /\ ignore > 0
        /\ timer' = [timer EXCEPT !.pc = "decrement", !.read = ignore]
        /\ UNCHANGED <<cycled, faults>>
     \/ /\ ignore = 0 /\ ~drv
        /\ TimerGoto("clear")
        /\ UNCHANGED <<cycled, faults>>
     \/ /\ ignore = 0 /\ drv
        /\ UpdateLimits
  /\ UNCHANGED <<motor, gate, thread, speed, silence, has_timeout, sense,
                 history, commands>>

(* ... and a write.                                                        *)
Decrement ==
  /\ timer.pc = "decrement"
  /\ ignore' = timer.read - 1
  /\ elapsed' = IF elapsed < FaultStopTime THEN elapsed + 1 ELSE elapsed
  /\ UpdateLimits
  /\ UNCHANGED <<motor, fault, lock, override, thread, speed, silence,
                 has_timeout, sense, raced, passes, commands>>

ClearFault ==
  /\ timer.pc = "clear"
  /\ fault' = "NONE"
  /\ UpdateLimits
  /\ UNCHANGED <<motor, ignore, lock, override, thread, speed, silence,
                 has_timeout, sense, history, commands>>

-----------------------------------------------------------------------------
(* The PWM interrupt: duty cycle control, then mc_interface_mc_timer_isr,  *)
(* whose mc_interface_fault_stop no thread can interrupt.                  *)

MutantStopLl(f) ==
  /\ ignore' = FaultStopTime
  /\ state' = "OFF" /\ UNCHANGED mode
  /\ fault' = f
  /\ elapsed' = 0
  /\ Strikes

MutantNoExtend(f) ==
  /\ ignore' = IF ignore > 0 THEN ignore ELSE FaultStopTime
  /\ mode' = "NONE" /\ state' = "OFF"
  /\ fault' = f
  /\ elapsed' = 0
  /\ Strikes

IsrFaultStop(f) ==
  /\ ignore' = FaultStopTime
  /\ mode' = "NONE" /\ state' = "OFF"
  /\ fault' = f
  /\ elapsed' = 0
  /\ Strikes

WrongVoltageCount ==
  IF voltage = "ok" THEN 0
  ELSE IF wrong < WrongVoltage THEN wrong + 1 ELSE wrong

MutantVoltageFault == voltage = "wrong" /\ wrong + 1 = WrongVoltage

VoltageFault == voltage = "wrong" /\ WrongVoltageCount = WrongVoltage

PwmInterrupt ==
  /\ cycled' = TRUE
  /\ wrong' = WrongVoltageCount
  /\ \/ /\ VoltageFault
        /\ IsrFaultStop("VOLTAGE")
        /\ UNCHANGED faults
     \/ /\ faults < MaxFaults /\ faults' = faults + 1
        /\ IsrFaultStop("ABS_OVER_CURRENT")
     \/ /\ ~VoltageFault
        /\ state' \in ControlStep(state, mode)
        /\ UNCHANGED <<mode, ignore, fault, raced, elapsed, faults>>
  /\ UNCHANGED <<lock, override, thread, timer, speed, silence, has_timeout,
                 voltage, drv, passes, commands>>

(* The fault conditions come and go.                                       *)
Environment ==
  /\ faults < MaxFaults /\ faults' = faults + 1
  /\ \/ /\ voltage' = IF voltage = "ok" THEN "wrong" ELSE "ok"
        /\ UNCHANGED drv
     \/ drv' = ~drv /\ UNCHANGED voltage
  /\ UNCHANGED <<motor, gate, thread, timer, speed, silence, has_timeout,
                 wrong, cycled, history, commands>>

-----------------------------------------------------------------------------
Init ==
  /\ state = "OFF" /\ mode = "NONE"
  /\ ignore = 0 /\ fault = "NONE"
  /\ lock = FALSE /\ override = FALSE
  /\ thread = [t \in Threads |-> Idle]
  /\ timer = Asleep
  /\ speed = "check"
  /\ silence = 0 /\ has_timeout = FALSE
  /\ voltage = "ok" /\ wrong = 0 /\ drv = FALSE
  /\ cycled = FALSE
  /\ raced = FALSE /\ elapsed = FaultStopTime /\ passes = 0
  /\ commands = 0 /\ faults = 0

CommandStep(t) ==
  \/ try_input(t) \/ TakeOverride(t) \/ SetMode(t) \/ SetState(t)
  \/ CommandReturns(t)

TimeoutStep ==
  \/ TimeoutFires \/ TimeoutDone \/ TimeoutNotDue

SpeedStep == SpeedCheck \/ SpeedTooSlow \/ SpeedOutput

TimerStep ==
  \/ TimerWakes \/ StopTime \/ StopPwm \/ StopCode
  \/ Count \/ Decrement \/ ClearFault

Next ==
  \/ \E t \in Controllers, c \in Commands : Command(t, c)
  \/ \E t \in Controllers : StoreConfiguration(t)
  \/ mc_interface_lock
  \/ \E c \in Commands \ {"detect"} : mc_interface_lock_override_once(c)
  \/ \E t \in Threads : CommandStep(t)
  \/ mc_interface_unlock \/ TimeoutStep \/ SpeedStep \/ TimerStep
  \/ PwmInterrupt \/ Environment

(* Equal priorities and a time quantum: each thread that can run does, and *)
(* the PWM timer never stops.  Nobody must send commands.                  *)
Fairness ==
  /\ \A t \in Threads : WF_vars(CommandStep(t))
  /\ WF_vars(mc_interface_unlock) /\ WF_vars(TimeoutStep) /\ WF_vars(SpeedStep)
  /\ WF_vars(TimerStep) /\ WF_vars(PwmInterrupt)

Spec == Init /\ [][Next]_vars /\ Fairness

-----------------------------------------------------------------------------
(* Properties.                                                             *)

(* The shared variables of mc_interface.c, timeout.c and mcpwm.c have      *)
(* their types; the time to ignore never runs below zero.                  *)
TypeOK ==
  /\ state \in McState /\ mode \in ControlMode
  /\ ignore \in Nat /\ fault \in FaultCode
  /\ lock \in BOOLEAN /\ override \in BOOLEAN
  /\ thread \in [Threads ->
       [pc : {"idle", "try", "take", "mode", "state", "done", "locked"},
        cmd : Setter]]
  /\ timer \in
       [pc : {"sleep", "stop_time", "stop_pwm", "stop_code", "count",
              "decrement", "clear"},
        read : Nat, code : FaultCode, next : {"count", "sleep"}]
  /\ speed \in {"check", "output", "too_slow", "stop"}
  /\ silence \in 0..(TimeoutMsec + 1) /\ has_timeout \in BOOLEAN
  /\ voltage \in {"ok", "wrong"} /\ wrong \in 0..WrongVoltage /\ drv \in BOOLEAN
  /\ cycled \in BOOLEAN /\ raced \in BOOLEAN
  /\ elapsed \in 0..FaultStopTime /\ passes \in 0..2
  /\ commands \in 0..MaxCommands /\ faults \in 0..MaxFaults

(* While a reported fault is being waited out the motor is off, whichever  *)
(* of the command threads, the speed controller and the timeout thread     *)
(* runs: only a command or a controller cycle that was past its check when *)
(* the fault struck can undo mc_interface_fault_stop.                      *)
FaultHoldsMotorOff ==
  ~raced /\ fault # "NONE" /\ ignore > 0 /\ timer.pc # "stop_pwm" =>
    state = "OFF" /\ mode = "NONE"

(* mc_interface_try_input refuses commands for all of the fault time, also *)
(* when faults follow each other.                                          *)
FaultTimeIsKept == ignore + elapsed >= FaultStopTime

(* The same as long as no fault falls into the decrement of the time, into *)
(* a detection being stopped or into a command that is past the gate.      *)
FaultTimeIsKeptUnlessRaced == ~raced => FaultTimeIsKept

(* An override lets one command into the locked control.                   *)
OverrideOnce == passes <= 1

(* When nobody sends commands any more, the timeout thread gets the motor  *)
(* released or braked for good, whatever lock, fault or speed controller   *)
(* was in the way.                                                         *)
SilenceReleases == TimeoutMsec # 0 => <>[](mode \in {"NONE", "CURRENT_BRAKE"})

(* A wrong input voltage that stays keeps the motor off for good, although *)
(* single commands may still get past the gate.                            *)
PersistentFaultStops == <>[](voltage = "wrong") => <>[](state = "OFF")
=============================================================================
