------------------------------ MODULE AppBase ------------------------------
(***************************************************************************)
(* What every application meets: faults of the motor, the command timeout  *)
(* and reconfiguration.  A fault outlasts a turn of the application's loop *)
(* (its stop time is three seconds by default), and commands are refused   *)
(* as long as it stands.  Time passes in choices: silence may set in at    *)
(* any moment.                                                             *)
(***************************************************************************)
EXTENDS Integers

CONSTANT MaxConfigs     \* bound on COMM_SET_APPCONF

ASSUME AppAssumption == MaxConfigs \in Nat

VARIABLES
  fault,          \* mc_interface_get_fault() is not FAULT_CODE_NONE
  seen,           \* the application has had a turn since the fault
  timeout_msec,   \* 0 or 1, for any other
  quiet,          \* nobody has called timeout_reset for that long
  has_timeout,
  output,         \* last command that took effect
  pc,             \* the application's loop: "wait", or a place in a turn
  conf_pc,        \* app_*_configure: "idle" or "reset"
  safe_start,     \* config.safe_start
  configs,
  calm,           \* history: how long without power, up to what is enough
  unsafe          \* history: driven with safe_start before that

env == <<fault, seen, timeout_msec, quiet, has_timeout>>
basevars == <<env, output, pc, conf_pc, safe_start, configs, calm, unsafe>>

InitBase ==
  /\ fault = FALSE /\ seen = TRUE /\ timeout_msec \in {0, 1}
  /\ quiet = FALSE /\ has_timeout = FALSE
  /\ output = "none" /\ pc = "wait" /\ conf_pc = "idle"
  /\ safe_start \in BOOLEAN /\ configs = 0
  /\ calm = 0 /\ unsafe = FALSE

(* A command of the application, refused by mc_interface in a fault.       *)
Command(c, enough) ==
  /\ output' = IF fault THEN output ELSE c
  /\ unsafe' = (unsafe \/ (c \in {"drive", "pid"} /\ ~fault /\ safe_start /\ conf_pc = "idle" /\ ~enough))

FaultOccurs ==
  /\ ~fault
  /\ fault' = TRUE /\ seen' = FALSE
  /\ output' = "none" /\ calm' = 0
  /\ UNCHANGED <<timeout_msec, quiet, has_timeout, pc, conf_pc, safe_start, configs, unsafe>>

FaultClears ==
  /\ fault /\ seen
  /\ fault' = FALSE
  /\ UNCHANGED <<seen, timeout_msec, quiet, has_timeout, output, pc, conf_pc, safe_start,
                 configs, calm, unsafe>>

GetsQuiet ==
  /\ ~quiet /\ timeout_msec # 0
  /\ quiet' = TRUE
  /\ UNCHANGED <<fault, seen, timeout_msec, has_timeout, output, pc, conf_pc, safe_start,
                 configs, calm, unsafe>>

(* COMM_ALIVE or another command that resets the timeout.                  *)
Alive ==
  /\ quiet /\ quiet' = FALSE
  /\ UNCHANGED <<fault, seen, timeout_msec, has_timeout, output, pc, conf_pc, safe_start,
                 configs, calm, unsafe>>

MutantTimeoutThread ==
  /\ has_timeout' = (timeout_msec # 0 /\ quiet)
  /\ output' = IF has_timeout' /\ ~has_timeout /\ ~fault THEN "brake" ELSE output
  /\ UNCHANGED <<fault, seen, timeout_msec, quiet, pc, conf_pc, safe_start, configs, calm, unsafe>>

(* A turn of timeout_thread.                                               *)
TimeoutThread ==
  /\ has_timeout' = (timeout_msec # 0 /\ quiet)
  /\ output' = IF has_timeout' /\ ~fault THEN "brake" ELSE output
  /\ UNCHANGED <<fault, seen, timeout_msec, quiet, pc, conf_pc, safe_start, configs, calm, unsafe>>

(* COMM_SET_APPCONF on a packet thread: app_*_configure stores the new     *)
(* configuration, then resets the application's count (see Reset of the    *)
(* applications), then timeout_configure.                                  *)
Configure(safe) ==
  /\ conf_pc = "idle" /\ configs < MaxConfigs
  /\ configs' = configs + 1
  /\ safe_start' = safe
  /\ conf_pc' = "reset"
  /\ UNCHANGED <<env, output, pc, calm, unsafe>>

(* A turn that is under way writes back the count that it read before, so  *)
(* that the application stays armed: nothing is promised after that until  *)
(* the next stop (enough).                                                 *)
Reset(enough) ==
  /\ conf_pc = "reset" /\ conf_pc' = "idle"
  /\ timeout_msec' \in {0, 1}
  /\ calm' = IF pc = "wait" THEN 0 ELSE enough
  /\ UNCHANGED <<fault, seen, quiet, has_timeout, output, pc, safe_start, configs, unsafe>>

Around == FaultOccurs \/ FaultClears \/ GetsQuiet \/ Alive \/ TimeoutThread

-----------------------------------------------------------------------------
(* Properties of every application.                                        *)

(* With safe_start the motor is driven, or held at a speed, only after a   *)
(* long enough stretch without power since the last fault or               *)
(* configuration, and for PPM since the last timeout or lost signal too.   *)
(* Not claimed, as the code does not give it: between the store of a       *)
(* configuration and its Reset, after a Reset in the middle of a turn      *)
(* until the next stop, and for ADC rates of no whole milliseconds.        *)
StartIsSafe == ~unsafe

(* If nothing resets the timeout any more, the motor ends up released or   *)
(* braked for good, also when the application was past its checks.         *)
SilenceBrakes == <>[](quiet /\ timeout_msec # 0) => <>[](output \notin {"drive", "pid", "cruise"})

=============================================================================
