------------------------------- MODULE AppPpm -------------------------------
(***************************************************************************)
(* app_ppm.c on top of servo_dec.c.  The capture interrupt accepts a pulse *)
(* and wakes the thread; so does a timer every two milliseconds, with the  *)
(* last position.  With safe_start the motor may run only after            *)
(* MIN_PULSES_WITHOUT_POWER turns in a row without power.                  *)
(***************************************************************************)
EXTENDS AppBase, ServoDec

CONSTANT MIN_PULSES

ASSUME PpmAssumption == MIN_PULSES \in Nat \ {0}

VARIABLES
  ctrl_type,
  servo_quiet,          \* servodec_get_time_since_update() > timeout_msec > 0
  recent,               \* the last pulse is less than a millisecond old
  pulses_without_power, pulses_without_power_before,
  val, count            \* locals: servo_val, and the count read for ++

servo == <<servo_pos, servo_quiet, recent>>
counts == <<pulses_without_power, pulses_without_power_before, val, count>>
ppmvars == <<servo, ctrl_type, counts>>

CtrlType == {"current", "norev", "brake", "none"}   \* duty and pid: as current

InitPpm ==
  /\ InitServo
  /\ ctrl_type \in CtrlType
  /\ servo_quiet \in BOOLEAN /\ recent = FALSE
  /\ pulses_without_power = 0 /\ pulses_without_power_before = 0
  /\ val = 0 /\ count = 0

-----------------------------------------------------------------------------
(* servo_dec.c accepts a pulse, and servodec_func.  Any position may come  *)
(* out of the filter, so that it is left to ServoDec.                      *)
Pulse(p) ==
  /\ servo_pos' = p
  /\ servo_quiet' = FALSE /\ recent' = TRUE
  /\ quiet' = FALSE
  /\ UNCHANGED <<fault, seen, timeout_msec, has_timeout, output, pc, conf_pc, safe_start, configs,
                 calm, unsafe, ctrl_type, counts>>

(* No pulse, or only ones out of range, for timeout_msec.                  *)
ServoGetsQuiet ==
  /\ ~servo_quiet /\ servo_quiet' = TRUE /\ recent' = FALSE
  /\ UNCHANGED <<basevars, servo_pos, ctrl_type, counts>>

(* The last pulse gets old.  update wakes the thread every two             *)
(* milliseconds, in between a pulse does: a turn can come at any time.     *)
ServoAges ==
  /\ recent /\ recent' = FALSE
  /\ UNCHANGED <<basevars, servo_pos, servo_quiet, ctrl_type, counts>>

-----------------------------------------------------------------------------
(* ppm_thread                                                              *)
SignalLost == IF timeout_msec = 0 THEN ~recent ELSE servo_quiet

(* utils_deadband has made small values 0; _NOREV maps -1..1 to 0..1.      *)
Scaled == IF ctrl_type = "norev" THEN (servo_pos + 2) \div 2 ELSE servo_pos
WithoutPower(v) == IF ctrl_type = "brake" THEN v <= 0 ELSE v = 0

(* The count goes on in the code; what is above the limit is all the same. *)
Capped(n) == IF n > MIN_PULSES THEN MIN_PULSES ELSE n

(* A turn that ends at once ...                                            *)
Stopped ==
  /\ pc = "wait"
  /\ has_timeout \/ SignalLost \/ fault
  /\ seen' = TRUE
  /\ pulses_without_power' = 0
  /\ calm' = 0
  /\ UNCHANGED <<fault, timeout_msec, quiet, has_timeout, output, pc, conf_pc, safe_start, configs,
                 unsafe, servo, ctrl_type, pulses_without_power_before, val, count>>

(* ... and one that goes on, up to the read of pulses_without_power.       *)
(* Turns before the first pulse are turns without power, at position 0.    *)
Evaluate ==
  /\ pc = "wait"
  /\ ~has_timeout /\ ~SignalLost /\ ~fault
  /\ seen' = TRUE
  /\ val' = Scaled /\ count' = pulses_without_power
  /\ pc' = IF ctrl_type = "none" THEN "wait" ELSE "rest"
  /\ UNCHANGED <<fault, timeout_msec, quiet, has_timeout, output, conf_pc, safe_start, configs,
                 calm, unsafe, servo, ctrl_type,
                 pulses_without_power, pulses_without_power_before>>

MutantHeld(n) == n
MutantHeldAlways(n) == IF n >= pulses_without_power_before THEN 0 ELSE n

(* Without a new turn without power the count starts again.                *)
Held(n) == IF n = pulses_without_power_before THEN 0 ELSE n

(* The rest of the turn.  A write of the count that began before a Reset   *)
(* undoes it.                                                              *)
Rest ==
  /\ pc = "rest" /\ pc' = "wait"
  /\ LET n == IF WithoutPower(val) THEN Capped(count + 1) ELSE pulses_without_power
         waiting == n < MIN_PULSES /\ safe_start
         k == IF calm = MIN_PULSES THEN calm
              ELSE IF WithoutPower(val) THEN calm + 1 ELSE 0
         enough == k = MIN_PULSES
     IN /\ calm' = k
        /\ pulses_without_power' = IF waiting THEN Held(n) ELSE n
        /\ pulses_without_power_before' =
             IF waiting THEN Held(n) ELSE pulses_without_power_before
        /\ IF waiting \/ (ctrl_type = "brake" /\ val < 0) THEN Command("brake", enough)
           ELSE Command(IF val = 0 THEN "none" ELSE "drive", enough)
  /\ val' = 0 /\ count' = 0
  /\ UNCHANGED <<env, conf_pc, safe_start, configs, servo, ctrl_type>>

(* The rest of app_ppm_configure.                                          *)
ResetPpm ==
  /\ Reset(MIN_PULSES)
  /\ pulses_without_power' = 0
  /\ ctrl_type' \in CtrlType
  /\ UNCHANGED <<servo, pulses_without_power_before, val, count>>

PpmThread == Stopped \/ Evaluate \/ Rest
PpmNext ==
  \/ (Around \/ \E safe \in BOOLEAN : Configure(safe)) /\ UNCHANGED ppmvars
  \/ \E p \in {-2, 0, 2} : Pulse(p)
  \/ ServoGetsQuiet \/ ServoAges \/ PpmThread \/ ResetPpm

PpmSpec == InitBase /\ InitPpm /\ [][PpmNext]_<<basevars, ppmvars>>

-----------------------------------------------------------------------------
(* Properties.                                                             *)

(* A good signal without power.                                            *)
Steady ==
  /\ ~fault /\ ~has_timeout /\ ~servo_quiet /\ timeout_msec # 0 /\ conf_pc = "idle"
  /\ servo_pos = 0 /\ ctrl_type = "current"

(* Such a signal, if it stays, arms the application: the count of turns    *)
(* without power gets to MIN_PULSES and is not reset by the wait itself.   *)
PpmArms == <>[]Steady => <>[](pulses_without_power >= MIN_PULSES)
=============================================================================
