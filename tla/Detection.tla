----------------------------- MODULE Detection -----------------------------
(***************************************************************************)
(* The motor detections and the two configuration commands, as the threads *)
(* that run them interleave: the packet threads (commands.c, terminal.c)   *)
(* and the detect thread.  A procedure is the sequence of its calls that   *)
(* change shared state.  It borrows the motor configuration, the command   *)
(* timeout, the control lock and the motor, and has to give all of them    *)
(* back.                                                                   *)
(*                                                                         *)
(* Applications and the timeout thread go on meanwhile.  Silence is a      *)
(* choice: last_update_time is not touched when a procedure sets a long    *)
(* timeout, so that one can be over already as well.  The gap between      *)
(* check and effect of a setter is the subject of module McInterface.      *)
(***************************************************************************)
EXTENDS Naturals, Sequences

CONSTANTS
  Port,         \* the packet threads that run procedures; there are others, for
                \* commands that take one step
  MaxCalls      \* bound on commands

ASSUME DetectionAssumption == MaxCalls \in Nat /\ {"detect", "none"} \cap Port = {}

Thread == Port \cup {"detect"}        \* detect_thread of commands.c
MotorType == {"BLDC", "FOC"}
Worker == [BLDC |-> {"timer", "rpm"}, FOC |-> {"foc_timer"}]
Off == 0                              \* timeout_msec = 0
Short == 1                            \* any other that the user configures
Long == 2                             \* what the procedures configure
Own == MaxCalls + 1                   \* version of a detection's own settings

(* The three statics mcconf_old: commands_process_packet's, the global of  *)
(* conf_general.c, terminal_process_string's.                              *)
Cell == {"commands", "general", "terminal"}

VARIABLES
  todo,         \* what each thread has still to call
  cell,         \* the mcconf_old it uses
  target,       \* the argument of its mc_interface_set_configuration
  tout, foc_old,  \* its locals: timeout and foc_* fields
  mcconf_old,
  m_conf,       \* [type, base, foc]: versions of its parts
  timeout,
  lock, override,
  driver,       \* the procedure whose command the motor follows, or "none"
  alive, stop,  \* threads of the motor implementations, their *_thd_stop
  drv_fault,    \* IS_DRV_FAULT: the gate driver holds its fault line
  measuring,    \* m_samples.measure_inductance_now
  event,        \* detect_thread is signalled
  calls,
  wanted, wanted_timeout,   \* history: what the user configured last
  overlapped,   \* history: a procedure met another one
  spun_up       \* history: a flux linkage measurement succeeded

procs == <<todo, cell, target, tout, foc_old, mcconf_old>>
motor == <<lock, override, driver, measuring>>
impl == <<alive, stop, drv_fault>>
history == <<wanted, wanted_timeout, overlapped, spun_up>>
dvars == <<procs, m_conf, timeout, motor, impl, event, calls, history>>

UserConf(type, v) == [type |-> type, base |-> v, foc |-> v]

Init ==
  /\ todo = [t \in Thread |-> <<>>] /\ cell = [t \in Thread |-> "general"]
  /\ tout = [t \in Thread |-> Off] /\ foc_old = [t \in Thread |-> 0]
  /\ m_conf \in {UserConf(type, 0) : type \in MotorType}
  /\ target = [t \in Thread |-> m_conf] /\ mcconf_old = [c \in Cell |-> m_conf]
  /\ timeout = Short
  /\ lock = FALSE /\ override = FALSE /\ driver = "none" /\ measuring = FALSE
  /\ alive = Worker[m_conf.type] /\ stop = {} /\ drv_fault = FALSE
  /\ event = FALSE /\ calls = 0
  /\ wanted = m_conf /\ wanted_timeout = timeout
  /\ overlapped = FALSE /\ spun_up = FALSE

-----------------------------------------------------------------------------
(* The procedures.                                                         *)
detect_motor_param ==
  <<"save", "bldc", "lock", "override", "drive", "override", "drive", "override", "off",
    "override", "drive", "override", "off", "restore", "unlock">>

measure_flux_linkage == <<"save", "bldc", "no_timeout", "lock", "override", "drive", "spinup">>
MutantSpunUp == <<"override", "drive", "restore", "off">>
SpunUp == <<"override", "drive", "restore", "unlock", "off">>
MutantNotSpunUp == <<"off", "timeout", "unlock">>
NotSpunUp == <<"off", "timeout", "restore", "unlock">>

encoder_detect ==
  <<"lock", "foc_drive", "no_timeout", "foc_edit", "foc_stop", "foc_unedit", "timeout", "unlock">>

hall_detect == <<"lock", "foc_drive", "no_timeout", "foc_stop", "timeout", "unlock">>
measure_resistance == hall_detect

MutantMeasureInductance == <<"no_timeout", "lock", "pulse", "pulsed", "unlock">>
measure_inductance == <<"no_timeout", "lock", "pulse", "pulsed", "timeout", "unlock">>

(* Both measurements are taken with growing currents and a last time (one  *)
(* turn of each loop here).                                                *)
measure_res_ind ==
  <<"foc_edit">> \o measure_resistance \o measure_resistance
  \o measure_inductance \o measure_inductance \o <<"foc_unedit">>

(* COMM_DETECT_MOTOR_R_L, _ENCODER and _HALL_FOC.                          *)
InFoc(calls_) == <<"foc">> \o calls_ \o <<"restore">>
FocDetections == {encoder_detect, hall_detect, measure_res_ind}

(* terminal_process_string: its own way to the same functions.             *)
measure_linkage_foc == <<"foc", "no_timeout", "drive", "off", "restore", "timeout">>
TerminalDetections ==
  {InFoc(p) : p \in FocDetections \cup {measure_inductance}} \cup {measure_linkage_foc}

(* COMM_SET_MCCONF and COMM_SET_APPCONF; storing unlocks and releases the  *)
(* motor (what it writes is the subject of module ConfGeneral).            *)
set_mcconf == <<"unlock", "off", "user">>
set_appconf == <<"unlock", "off", "user_timeout">>

-----------------------------------------------------------------------------
(* Beginning of a command on thread t.                                     *)
Idle(t) == todo[t] = <<>>
Alone(t) == \A u \in Thread \ {t} : Idle(u)

Begin(t, c, p) ==
  /\ Idle(t)
  /\ todo' = [todo EXCEPT ![t] = p]
  /\ cell' = [cell EXCEPT ![t] = c]
  /\ overlapped' = (overlapped \/ ~Alone(t))
  /\ UNCHANGED <<tout, foc_old, m_conf, timeout, motor, impl, spun_up>>

Counted == calls < MaxCalls /\ calls' = calls + 1

Detect(t) ==
  /\ Counted
  /\ \/ \E p \in FocDetections : Begin(t, "commands", <<"save">> \o InFoc(p))
     \/ Begin(t, "general", measure_flux_linkage)
  /\ UNCHANGED <<target, mcconf_old, event, wanted, wanted_timeout>>

(* COMM_DETECT_MOTOR_PARAM, and what the detect thread does about it.      *)
DetectMotorParam ==
  /\ Counted
  /\ event' = TRUE
  /\ UNCHANGED <<procs, m_conf, timeout, motor, impl, history>>

DetectThread ==
  /\ event /\ event' = FALSE
  /\ Begin("detect", "general", detect_motor_param)
  /\ UNCHANGED <<target, mcconf_old, calls, wanted, wanted_timeout>>

(* Every terminal command saves the configuration, also one that needs no  *)
(* copy ...                                                                *)
TerminalDetect(t) ==
  /\ Counted
  /\ \/ \E p \in TerminalDetections : Begin(t, "terminal", p)
     \/ \E p \in {measure_flux_linkage, detect_motor_param} : Begin(t, "general", p)
  /\ mcconf_old' = [mcconf_old EXCEPT !["terminal"] = m_conf]
  /\ UNCHANGED <<target, event, wanted, wanted_timeout>>

(* ... and then overlaps with a detection that was started there.          *)
TerminalCommand ==
  /\ Counted
  /\ mcconf_old' = [mcconf_old EXCEPT !["terminal"] = m_conf]
  /\ overlapped' = (overlapped \/ \E u \in Thread : ~Idle(u) /\ cell[u] = "terminal")
  /\ UNCHANGED <<todo, cell, target, tout, foc_old, m_conf, timeout, motor, impl, event,
                 wanted, wanted_timeout, spun_up>>

SetMcconf(t, type) ==
  /\ Counted
  /\ Begin(t, "commands", set_mcconf)
  /\ target' = [target EXCEPT ![t] = UserConf(type, calls')]
  /\ wanted' = target'[t]
  /\ UNCHANGED <<mcconf_old, event, wanted_timeout>>

SetAppconf(t, msec) ==
  /\ Counted
  /\ Begin(t, "commands", set_appconf)
  /\ wanted_timeout' = msec
  /\ UNCHANGED <<target, mcconf_old, event, wanted>>

-----------------------------------------------------------------------------
(* The calls.                                                              *)
Next1(t) == Head(todo[t])
Call(t, names) ==
  /\ todo[t] # <<>> /\ Next1(t) \in names
  /\ todo' = [todo EXCEPT ![t] = Tail(@)]
  /\ UNCHANGED <<cell, event, calls, wanted, wanted_timeout, overlapped>>

(* mcconf_old = *mc_interface_get_configuration().                         *)
Save(t) ==
  /\ Call(t, {"save"})
  /\ mcconf_old' = [mcconf_old EXCEPT ![cell[t]] = m_conf]
  /\ UNCHANGED <<target, tout, foc_old, m_conf, timeout, motor, impl, spun_up>>

(* The argument of mc_interface_set_configuration: a changed copy of       *)
(* mcconf_old, mcconf_old itself, or what the user sent.                   *)
Argument(t) ==
  CASE Next1(t) = "bldc" -> [mcconf_old[cell[t]] EXCEPT !.type = "BLDC", !.base = Own]
    [] Next1(t) = "foc" -> [mcconf_old[cell[t]] EXCEPT !.type = "FOC", !.base = Own]
    [] Next1(t) = "restore" -> mcconf_old[cell[t]]
    [] OTHER -> target[t]

MutantInstall(conf) == m_conf' = conf /\ UNCHANGED <<driver, measuring>>

(* The end of mc_interface_set_configuration: m_conf is assigned and the   *)
(* implementation's own stops the motor.                                   *)
Install(conf) ==
  /\ m_conf' = conf
  /\ driver' = "none"
  /\ UNCHANGED measuring

SetSameType(t) ==
  /\ Call(t, {"bldc", "foc", "restore", "user"})
  /\ Argument(t).type = m_conf.type
  /\ Install(Argument(t))
  /\ UNCHANGED <<target, tout, foc_old, mcconf_old, timeout, lock, override, impl, spun_up>>

(* Another type: mcpwm_deinit or mcpwm_foc_deinit tells the threads to     *)
(* stop and waits until they have cleared the flags ...                    *)
Deinit(t) ==
  /\ todo[t] # <<>> /\ Next1(t) \in {"bldc", "foc", "restore", "user"}
  /\ Argument(t).type # m_conf.type
  /\ stop' = stop \cup Worker[m_conf.type]
  /\ target' = [target EXCEPT ![t] = Argument(t)]
  /\ todo' = [todo EXCEPT ![t] = <<"init">> \o Tail(@)]
  /\ UNCHANGED <<cell, tout, foc_old, mcconf_old, m_conf, timeout, motor, alive, drv_fault,
                 event, calls, history>>

(* ... and then m_conf is assigned and mcpwm_init or mcpwm_foc_init        *)
(* begins, ...                                                             *)
InitImpl(t) ==
  /\ todo[t] # <<>> /\ Next1(t) = "init"
  /\ stop \cap Worker[IF target[t].type = "FOC" THEN "BLDC" ELSE "FOC"] = {}
  /\ todo' = [todo EXCEPT ![t] = <<"cal">> \o Tail(@)]
  /\ m_conf' = target[t] /\ driver' = "none"
  /\ measuring' = (measuring /\ target[t].type # "FOC")
  /\ UNCHANGED <<cell, target, tout, foc_old, mcconf_old, timeout, lock, override, impl, event,
                 calls, history>>

MutantCalibrate(t) ==
  /\ Call(t, {"cal"})
  /\ ~drv_fault
  /\ stop' = stop \ Worker[target[t].type]
  /\ alive' = alive \cup (Worker[target[t].type] \ {"rpm"})
  /\ driver' = "none"
  /\ UNCHANGED <<target, tout, foc_old, mcconf_old, m_conf, timeout, lock, override, measuring,
                 drv_fault, spun_up>>

(* ... whose do_dc_cal waits without a bound until the gate driver reports *)
(* no fault, and which then starts the threads.  The implementation's own  *)
(* set_configuration stops the motor once more.                            *)
Calibrate(t) ==
  /\ Call(t, {"cal"})
  /\ ~drv_fault
  /\ stop' = stop \ Worker[target[t].type]
  /\ alive' = alive \cup Worker[target[t].type]
  /\ driver' = "none"
  /\ UNCHANGED <<target, tout, foc_old, mcconf_old, m_conf, timeout, lock, override, measuring,
                 drv_fault, spun_up>>

(* The encoder and current controller fields that a detection replaces in  *)
(* m_conf itself, and puts back.                                           *)
EditFoc(t) ==
  /\ \/ /\ Call(t, {"foc_edit"})
        /\ foc_old' = [foc_old EXCEPT ![t] = m_conf.foc]
        /\ m_conf' = [m_conf EXCEPT !.foc = Own]
     \/ /\ Call(t, {"foc_unedit"})
        /\ m_conf' = [m_conf EXCEPT !.foc = foc_old[t]]
        /\ foc_old' = [foc_old EXCEPT ![t] = 0]
  /\ UNCHANGED <<target, tout, mcconf_old, timeout, motor, impl, spun_up>>

(* timeout_configure.                                                      *)
ConfigureTimeout(t) ==
  /\ \/ /\ Call(t, {"no_timeout"})
        /\ tout' = [tout EXCEPT ![t] = timeout] /\ timeout' = Long
     \/ /\ Call(t, {"timeout"})
        /\ timeout' = tout[t] /\ tout' = [tout EXCEPT ![t] = Off]
     \/ Call(t, {"user_timeout"}) /\ timeout' = wanted_timeout /\ UNCHANGED tout
  /\ UNCHANGED <<target, foc_old, mcconf_old, m_conf, motor, impl, spun_up>>

LockOps(t) ==
  /\ \/ Call(t, {"lock"}) /\ lock' = TRUE /\ UNCHANGED override
     \/ Call(t, {"unlock"}) /\ lock' = FALSE /\ UNCHANGED override
     \/ Call(t, {"override"}) /\ override' = TRUE /\ UNCHANGED lock
  /\ UNCHANGED <<target, tout, foc_old, mcconf_old, m_conf, timeout, driver, measuring, impl,
                 spun_up>>

(* A setter by d: mc_interface_try_input refuses it in a fault time (at    *)
(* any moment here) or when locked; the override is spent only if needed.  *)
Setter(d) ==
  \/ UNCHANGED <<driver, override>>
  \/ /\ ~lock \/ override
     /\ override' = (override /\ ~lock)
     /\ driver' = d

Command(t) ==
  /\ \/ Call(t, {"drive"}) /\ Setter(t)
     \/ Call(t, {"off"}) /\ Setter("none")
  /\ UNCHANGED <<target, tout, foc_old, mcconf_old, m_conf, timeout, lock, measuring, impl, spun_up>>

(* The FOC procedures set control mode and state themselves.               *)
DriveFoc(t) ==
  /\ \/ Call(t, {"foc_drive"}) /\ driver' = t
     \/ Call(t, {"foc_stop"}) /\ driver' = "none"
  /\ UNCHANGED <<target, tout, foc_old, mcconf_old, m_conf, timeout, lock, override, measuring,
                 impl, spun_up>>

(* One sample of the inductance: the FOC interrupt makes the pulses (see   *)
(* Pulsed); the procedure gives up after five seconds.                     *)
Pulse(t) ==
  /\ \/ Call(t, {"pulse"}) /\ measuring' = TRUE
     \/ Call(t, {"pulsed"}) /\ UNCHANGED measuring
  /\ UNCHANGED <<target, tout, foc_old, mcconf_old, m_conf, timeout, lock, override, driver,
                 impl, spun_up>>

(* The duty cycle is reached, or not within five seconds.                  *)
SpinUp(t) ==
  /\ todo[t] # <<>> /\ Next1(t) = "spinup"
  /\ \/ /\ todo' = [todo EXCEPT ![t] = SpunUp]
        /\ spun_up' = TRUE /\ tout' = [tout EXCEPT ![t] = Off]
     \/ todo' = [todo EXCEPT ![t] = NotSpunUp] /\ UNCHANGED <<spun_up, tout>>
  /\ UNCHANGED <<cell, target, foc_old, mcconf_old, m_conf, timeout, motor, impl, event,
                 calls, wanted, wanted_timeout, overlapped>>

Step(t) ==
  \/ Save(t) \/ SetSameType(t) \/ Deinit(t) \/ InitImpl(t) \/ Calibrate(t) \/ EditFoc(t)
  \/ ConfigureTimeout(t) \/ LockOps(t) \/ Command(t) \/ DriveFoc(t) \/ Pulse(t) \/ SpinUp(t)

-----------------------------------------------------------------------------
(* Around the procedures.                                                  *)
around == <<procs, m_conf, timeout, event, calls, history>>

MutantWorkerStops(w) ==
  /\ w \in alive \cap stop
  /\ stop' = stop \ {w}
  /\ UNCHANGED <<around, motor, alive, drv_fault>>

(* A timer or rpm thread sees its flag, clears it and returns.             *)
WorkerStops(w) ==
  /\ w \in alive \cap stop
  /\ alive' = alive \ {w} /\ stop' = stop \ {w}
  /\ UNCHANGED <<around, motor, drv_fault>>

(* The gate driver pulls its fault line, here only while somebody looks at *)
(* it (an earlier fault shows no earlier), or lets go of it.               *)
DrvFault ==
  /\ drv_fault \/ \E t \in Thread : ~Idle(t) /\ Next1(t) = "cal"
  /\ drv_fault' = ~drv_fault
  /\ UNCHANGED <<around, motor, alive, stop>>

(* The FOC interrupt makes a series of pulses and stops the outputs.       *)
Pulsed ==
  /\ measuring /\ m_conf.type = "FOC"
  /\ measuring' = FALSE /\ driver' = "none"
  /\ UNCHANGED <<around, impl, lock, override>>

(* mc_interface_fault_stop.                                                *)
Fault ==
  /\ driver # "none" /\ driver' = "none"
  /\ UNCHANGED <<around, impl, lock, override, measuring>>

(* A motor command of an application or a packet.                          *)
AppCommand ==
  /\ Setter("none")
  /\ UNCHANGED <<around, impl, lock, measuring>>

(* timeout_thread.  A call of a procedure between unlock and brake has the *)
(* effect of a brake that is refused, or of one more command.              *)
TimeoutFires ==
  /\ timeout # Off
  /\ lock' = FALSE
  /\ driver' \in {driver, "none"}
  /\ UNCHANGED <<around, impl, override, measuring>>

Next ==
  \/ \E t \in Port :
       \/ Detect(t) \/ TerminalDetect(t)
       \/ \E type \in MotorType : SetMcconf(t, type)
       \/ \E msec \in {Off, Short} : SetAppconf(t, msec)
  \/ DetectMotorParam \/ TerminalCommand \/ DetectThread
  \/ \E t \in Thread : Step(t)
  \/ \E w \in UNION {Worker[type] : type \in MotorType} : WorkerStops(w)
  \/ DrvFault \/ Pulsed \/ Fault \/ AppCommand
  \/ TimeoutFires

(* Threads of one priority are time-sliced, and the waits of a procedure   *)
(* have a bound but for those that are guards here: for stop and for       *)
(* drv_fault, of which nothing says that it ends.                          *)
Fairness ==
  /\ WF_dvars(DetectThread)
  /\ \A t \in Thread : WF_dvars(Step(t))
  /\ \A w \in UNION {Worker[type] : type \in MotorType} : WF_dvars(WorkerStops(w))

Spec == Init /\ [][Next]_dvars /\ Fairness

-----------------------------------------------------------------------------
(* Properties.                                                             *)

Quiet == \A t \in Thread : Idle(t)

(* Only threads of the motor implementation in use are alive: the other    *)
(* one's are gone before mc_interface_set_configuration starts new ones.   *)
TypeOK ==
  /\ m_conf.type \in MotorType /\ timeout \in {Off, Short, Long}
  /\ driver \in Thread \cup {"none"}
  /\ stop \subseteq UNION {Worker[type] : type \in MotorType}
  /\ ~overlapped => alive \subseteq Worker[m_conf.type]

(* After any sequence of detections, whatever failed in them, the motor    *)
(* configuration is what the user set last, unless two procedures met.     *)
ConfigurationRestored == Quiet /\ ~overlapped => m_conf = wanted

(* So is the command timeout, except after a flux linkage measurement that *)
(* succeeded, which leaves its own 60 s behind.                            *)
TimeoutRestored == Quiet /\ ~overlapped /\ ~spun_up => timeout = wanted_timeout

(* No thread leaves the control locked, even if procedures met.            *)
LockReleased == Quiet => ~lock

(* The motor follows a procedure's command only while the procedure runs,  *)
(* also when its command to stop was refused and when procedures met.      *)
OwnedDrive == \A t \in Thread : driver = t => ~Idle(t)

(* A procedure that meets no other one comes to its end: the threads it    *)
(* waits for are there to clear their flags.  A gate driver that holds its *)
(* fault line keeps a change of the motor type in do_dc_cal for ever; if   *)
(* it lets go in the end, every procedure ends.                            *)
ProcedureEnds ==
  \A t \in Thread : <>[]~drv_fault => (~Idle(t) ~> Idle(t) \/ overlapped)
=============================================================================
