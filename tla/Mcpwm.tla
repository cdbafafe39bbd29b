------------------------------- MODULE Mcpwm -------------------------------
(***************************************************************************)
(* The state machine of the BLDC/DC motor control, mcpwm.c: the motor      *)
(* state, the control mode, and what each setter and each PWM interrupt    *)
(* makes of them.  Duty cycle, speed and current are abstracted away: an   *)
(* operator gives the set of the states the code may choose by them.       *)
(***************************************************************************)

McState == {"OFF", "DETECTING", "RUNNING", "FULL_BRAKE"}
ControlMode ==
  {"NONE", "DUTY", "SPEED", "POS", "CURRENT", "CURRENT_BRAKE"}

(* The setters.  "brake" is a duty cycle, "release" a current, of zero.    *)
Setter ==
  {"duty", "brake_now", "speed", "pos", "current", "release",
   "brake_current", "detect"}

(* set_duty_cycle_hl with a duty cycle of at least l_min_duty.  Out of a   *)
(* full brake a sensorless motor starts only when it is slow enough.       *)
set_duty_cycle_hl(s) ==
  CASE s = "DETECTING"  -> {"OFF"}
    [] s = "FULL_BRAKE" -> {"RUNNING", "FULL_BRAKE"}
    [] OTHER            -> {"RUNNING"}

(* The same with a smaller one: a motor that spins is ramped down first.   *)
set_zero_duty_hl(s) ==
  CASE s = "DETECTING" -> {"OFF"}
    [] s = "RUNNING"   -> {"RUNNING"}
    [] OTHER           -> {"RUNNING", "FULL_BRAKE"}

(* A setter writes control_mode first ...                                  *)
ModeSet(cmd) ==
  CASE cmd \in {"duty", "brake_now"}   -> "DUTY"
    [] cmd = "speed"                   -> "SPEED"
    [] cmd = "pos"                     -> "POS"
    [] cmd = "current"                 -> "CURRENT"
    [] cmd = "brake_current"           -> "CURRENT_BRAKE"
    [] cmd \in {"release", "detect"}   -> "NONE"

(* ... and the state after it.                                             *)
StateSet(cmd, s) ==
  CASE cmd \in {"duty", "pos", "current"} -> set_duty_cycle_hl(s)
    [] cmd = "brake_now"                  -> set_zero_duty_hl(s)
    [] cmd = "speed"                      -> {s}
    [] cmd = "release"                    -> {"OFF"}
    [] cmd = "detect"                     -> {"DETECTING"}
    [] cmd = "brake_current"              ->
         IF s \in {"RUNNING", "FULL_BRAKE"} THEN {s}
         ELSE {"RUNNING", "FULL_BRAKE"}

(* The duty cycle control of the PWM interrupt.  Under current and         *)
(* position control the duty cycle never falls below l_min_duty; otherwise *)
(* a motor slow enough ends in a full brake.                               *)
ControlStep(s, m) ==
  IF s = "RUNNING" /\ m \notin {"CURRENT", "POS"}
  THEN {"RUNNING", "FULL_BRAKE"}
  ELSE {s}
=============================================================================
