----------------------------- MODULE AppNunchuk -----------------------------
(***************************************************************************)
(* app_nunchuk.c: data of the remote (from I2C, the radio or a packet) and *)
(* the output thread, with direction change, cruise control and the two    *)
(* ways it stops: the command timeout and chuck_error.                     *)
(***************************************************************************)
EXTENDS AppBase

CONSTANTS
  MaxRpm,         \* bound on speeds
  MinErpm         \* s_pid_min_erpm

ASSUME NunchukAssumption == MaxRpm \in Nat /\ MinErpm \in 0..MaxRpm

VARIABLES
  ctrl_chuk,            \* config.ctrl_type
  js_y, bt_c, bt_z,     \* chuck_d; the stick back, in the dead band, forward
  chuck_error,          \* it is not 0
  output_running,
  is_reverse, was_z,
  cruises, cruise_rpm,  \* was_pid, pid_rpm of output_thread
  out_val               \* its local

chuck_d == <<js_y, bt_c, bt_z>>
outvars == <<is_reverse, was_z, cruises, cruise_rpm, out_val>>
chukvars == <<ctrl_chuk, chuck_d, chuck_error, output_running, outvars>>

ChukCtrlType == {"none", "current"}   \* norev: as current, without Toggle's change
Data == {-1, 0, 1} \X BOOLEAN \X BOOLEAN
Speed == -MaxRpm..MaxRpm

InitNunchuk ==
  /\ ctrl_chuk \in ChukCtrlType
  /\ js_y = 0 /\ bt_c = FALSE /\ bt_z = FALSE
  /\ chuck_error = FALSE
  /\ output_running = FALSE
  /\ is_reverse = FALSE /\ was_z = FALSE
  /\ cruises = FALSE /\ cruise_rpm = 0 /\ out_val = 0

(* app_nunchuk_update_output.                                              *)
UpdateOutput(d) ==
  /\ output_running' = TRUE
  /\ js_y' = d[1] /\ bt_c' = d[2] /\ bt_z' = d[3]
  /\ quiet' = FALSE
  /\ UNCHANGED <<fault, seen, timeout_msec, has_timeout, output, pc, conf_pc, safe_start, configs, calm, unsafe>>

(* chuk_thread: a reading that differs from the last one ...               *)
ReadChuk(d) ==
  /\ UpdateOutput(d)
  /\ chuck_error' = has_timeout
  /\ UNCHANGED <<ctrl_chuk, outvars>>

(* ... the same bytes once more after a timeout, or none.                  *)
ReadNothingNew ==
  /\ ~chuck_error /\ chuck_error' = TRUE
  /\ UNCHANGED <<basevars, ctrl_chuk, chuck_d, output_running, outvars>>

(* The radio's MOTE_PACKET_BUTTONS, and COMM_SET_CHUCK_DATA.               *)
RemoteData(d) ==
  /\ UpdateOutput(d)
  /\ UNCHANGED <<ctrl_chuk, chuck_error, outvars>>

-----------------------------------------------------------------------------
(* A turn of output_thread.  The remote's data may change between any two  *)
(* of its reads, which a step each stands for.                             *)
turn == <<fault, timeout_msec, quiet, has_timeout, conf_pc, safe_start, configs, calm,
          ctrl_chuk, chuck_d, chuck_error, output_running>>
At(place, next) == pc = place /\ pc' = next

(* The thread wakes up and goes on, or has a reason not to.                *)
Stops == has_timeout \/ chuck_error \/ ctrl_chuk = "none"

Idles ==
  /\ output_running /\ At("wait", "wait") /\ Stops
  /\ ~seen /\ seen' = TRUE
  /\ UNCHANGED <<turn, output, unsafe, outvars>>

Wakes ==
  /\ output_running /\ At("wait", IF bt_c THEN "both" ELSE "toggle") /\ ~Stops
  /\ seen' = TRUE
  /\ UNCHANGED <<turn, output, unsafe, outvars>>

(* Both buttons: nothing is done.                                          *)
Both ==
  /\ At("both", IF bt_z THEN "wait" ELSE "toggle")
  /\ UNCHANGED <<turn, seen, output, unsafe, outvars>>

(* The z button changes the direction when there is little current.        *)
Toggle ==
  /\ At("toggle", "was_z")
  /\ is_reverse' \in IF bt_z /\ ~was_z /\ ctrl_chuk = "current" THEN BOOLEAN ELSE {is_reverse}
  /\ UNCHANGED <<turn, seen, output, unsafe, was_z, cruises, cruise_rpm, out_val>>

KeepZ ==
  /\ At("was_z", "stick")
  /\ was_z' = bt_z
  /\ UNCHANGED <<turn, seen, output, unsafe, is_reverse, cruises, cruise_rpm, out_val>>

ReadStick ==
  /\ At("stick", "c")
  /\ out_val' = js_y
  /\ UNCHANGED <<turn, seen, output, unsafe, is_reverse, was_z, cruises, cruise_rpm>>

(* The last read, of the c button, and the command: nothing of the remote  *)
(* is looked at in between.  Cruise control starts from the filtered       *)
(* speed; a fast one the other way aborts, and leaves a speed that nobody  *)
(* looks at.  Commands to the other controllers on the bus are left out.   *)
Opposite(rev, r) == IF rev THEN r > 0 ELSE r < 0
Fast(r) == r > MinErpm \/ r < -MinErpm

CruiseStarts(rpm_filtered) ==
  /\ At("c", "wait") /\ bt_c /\ ~cruises
  /\ IF Opposite(is_reverse, rpm_filtered) /\ Fast(rpm_filtered)
     THEN UNCHANGED <<cruise_rpm, cruises, output, unsafe>>
     ELSE /\ cruise_rpm' = IF Opposite(is_reverse, rpm_filtered) THEN 0 ELSE rpm_filtered
          /\ cruises' = TRUE
          /\ Command("cruise", TRUE)
  /\ out_val' = 0
  /\ UNCHANGED <<turn, seen, is_reverse, was_z>>

(* The stick moves the speed that is kept by one.                          *)
MutantStick(rev, r) == r + (IF rev THEN -out_val ELSE out_val)

Stick(rev, r) ==
  (IF Opposite(rev, r) THEN 0 ELSE r) + (IF rev THEN -out_val ELSE out_val)

(* Speeds beyond the bound count as the bound.                             *)
Bounded(r) == IF r > MaxRpm THEN MaxRpm ELSE IF r < -MaxRpm THEN -MaxRpm ELSE r

CruiseGoesOn ==
  /\ At("c", "wait") /\ bt_c /\ cruises
  /\ cruise_rpm' = Bounded(Stick(is_reverse, cruise_rpm))
  /\ Command("cruise", TRUE)
  /\ out_val' = 0
  /\ UNCHANGED <<turn, seen, is_reverse, was_z, cruises>>

(* The stick sets a current or a brake; ramping may lag behind it.  The    *)
(* speed of a cruise control that has ended is not looked at again, and 0  *)
(* here.                                                                   *)
StickDrives ==
  /\ At("c", "wait") /\ ~bt_c
  /\ cruises' = FALSE /\ cruise_rpm' = 0
  /\ \E c \in {"drive", "none", "brake"} : Command(c, TRUE)
  /\ out_val' = 0
  /\ UNCHANGED <<turn, seen, is_reverse, was_z>>

(* app_nunchuk_configure, then timeout_configure.                          *)
ResetChuk ==
  /\ Reset(0)
  /\ ctrl_chuk' \in ChukCtrlType
  /\ UNCHANGED <<chuck_d, chuck_error, output_running, outvars>>

OutputThread ==
  \/ Idles \/ Wakes \/ Both \/ Toggle \/ KeepZ \/ ReadStick
  \/ (\E r \in Speed : CruiseStarts(r)) \/ CruiseGoesOn \/ StickDrives
NunchukStep(D) ==
  \/ (Around \/ Configure(FALSE)) /\ UNCHANGED chukvars
  \/ \E d \in D : ReadChuk(d) \/ RemoteData(d)
  \/ ReadNothingNew \/ OutputThread \/ ResetChuk
NunchukNext == NunchukStep(Data)

NunchukSpec == InitBase /\ InitNunchuk /\ [][NunchukNext]_<<basevars, chukvars>>

-----------------------------------------------------------------------------
(* Properties.                                                             *)

(* Cruise control never runs the motor against the direction that is set,  *)
(* by more than one step of the stick, also when the z button comes in the *)
(* middle of a turn of cruise control and changes the direction: the same  *)
(* turn then commands a speed that agrees, or ends cruise control.         *)
CruiseKeepsDirection ==
  output = "cruise" /\ pc \in {"wait", "both", "toggle"} =>
    IF is_reverse THEN cruise_rpm <= 1 ELSE cruise_rpm >= -1
=============================================================================
