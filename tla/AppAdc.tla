------------------------------- MODULE AppAdc -------------------------------
(***************************************************************************)
(* app_adc.c: throttle on an analog input, safe start by time without      *)
(* power, and cruise control while a button is pressed.  Times are in      *)
(* fractions of a millisecond: ms_without_power is a float that grows by   *)
(* the time slept, pulses_without_power_before an int.                     *)
(***************************************************************************)
EXTENDS AppBase

CONSTANTS
  MIN_MS,         \* MIN_MS_WITHOUT_POWER
  PerMs,          \* fractions in a millisecond
  SleepTime,      \* times slept for the update rates that can be configured
  Rpm             \* filtered speeds

NoRpm == -1
Missed == -2            \* released in a turn without a command of the throttle

(* No speed is one of the two marks.                                       *)
ASSUME AdcAssumption ==
  /\ MIN_MS \in Nat /\ PerMs \in Nat \ {0} /\ SleepTime \subseteq Nat \ {0}
  /\ {NoRpm, Missed} \cap Rpm = {}

VARIABLES
  ctrl_adc,                       \* config.ctrl_type, see AdcCtrlType
  sleep_time,
  ms_without_power, ms_before,    \* the latter: pulses_without_power_before
  pwr, cc_button,                 \* locals of a turn: 1, 0 or -1; the button
  ms_read,
  was_pid, pid_rpm,
  press_rpm                       \* history: speed at the first cruise command
                                  \* since the button was pressed, or Missed

adcvars == <<ctrl_adc, sleep_time, ms_without_power, ms_before, pwr, cc_button, ms_read, was_pid, pid_rpm,
             press_rpm>>

(* Current control with reverse or with brake, duty cycle, no control.     *)
AdcCtrlType == {"reverse", "brake", "duty", "none"}

InitAdc ==
  /\ sleep_time \in SleepTime /\ ctrl_adc \in AdcCtrlType
  /\ ms_without_power = 0 /\ ms_before = 0 /\ ms_read = 0
  /\ pwr = 0 /\ cc_button = FALSE /\ was_pid = FALSE /\ pid_rpm = 0
  /\ press_rpm = NoRpm

Enough == MIN_MS * PerMs
CappedMs(n) == IF n > Enough THEN Enough ELSE n

(* What the history makes of a release that the code may not notice.       *)
Released == IF was_pid THEN Missed ELSE NoRpm

(* A turn of adc_thread up to the read of ms_without_power.  A fault       *)
(* resets it, and the turn goes on.  Nothing is promised for a rate that   *)
(* gives no whole milliseconds.                                            *)
Sample(p, cc) ==
  /\ pc = "wait" /\ pc' = IF ctrl_adc = "none" THEN "wait" ELSE "rest"
  /\ seen' = TRUE
  /\ pwr' = p /\ cc_button' = cc
  /\ ms_without_power' = IF fault THEN 0 ELSE ms_without_power
  /\ ms_read' = ms_without_power'
  /\ calm' = IF sleep_time % PerMs # 0 THEN Enough ELSE IF fault THEN 0 ELSE calm
  /\ press_rpm' = IF ctrl_adc # "none" \/ (cc /\ p = 0) THEN press_rpm ELSE Released
  /\ UNCHANGED <<fault, timeout_msec, quiet, has_timeout, output, conf_pc, safe_start, configs, unsafe,
                 ctrl_adc, sleep_time, ms_before, was_pid, pid_rpm>>

NoPower == pwr = 0 \/ (pwr < 0 /\ ctrl_adc = "brake")
Added == IF NoPower THEN CappedMs(ms_read + sleep_time) ELSE ms_without_power

(* The float is compared with the int that was cut off from it.            *)
Restarted(n) == IF n = ms_before * PerMs THEN 0 ELSE n

Calm == IF calm = Enough THEN calm ELSE IF NoPower THEN CappedMs(calm + sleep_time) ELSE 0
Holds == cc_button /\ pwr = 0 /\ ctrl_adc # "duty"

Turn ==
  /\ pc = "rest" /\ pc' = "wait"
  /\ calm' = Calm
  /\ pwr' = 0 /\ cc_button' = FALSE /\ ms_read' = 0
  /\ UNCHANGED <<fault, seen, timeout_msec, has_timeout, conf_pc, safe_start, configs, ctrl_adc,
                 sleep_time>>

(* Safe start has not seen enough yet: the motor is braked.                *)
SafeStartWaits ==
  /\ Turn
  /\ Added < Enough /\ safe_start
  /\ ms_without_power' = Restarted(Added)
  /\ ms_before' = Restarted(Added) \div PerMs
  /\ Command("brake", Calm = Enough)
  /\ press_rpm' = IF Holds THEN press_rpm ELSE Released
  /\ UNCHANGED <<quiet, was_pid, pid_rpm>>

(* The button without throttle keeps the speed.                            *)
Cruise(rpm_filtered) ==
  /\ Turn
  /\ ~(Added < Enough /\ safe_start) /\ Holds
  /\ ms_without_power' = Added
  /\ quiet' = FALSE
  /\ was_pid' = TRUE
  /\ pid_rpm' = IF was_pid THEN pid_rpm ELSE rpm_filtered
  /\ press_rpm' = IF press_rpm = NoRpm THEN rpm_filtered ELSE press_rpm
  /\ Command("pid", Calm = Enough)
  /\ UNCHANGED ms_before

(* The throttle sets the current, the duty cycle or the brake.             *)
Throttle == IF pwr = 0 THEN "none" ELSE IF NoPower THEN "brake" ELSE "drive"

MutantDrive ==
  /\ Turn
  /\ ~(Added < Enough /\ safe_start) /\ ~Holds
  /\ ms_without_power' = Added
  /\ quiet' = FALSE
  /\ press_rpm' = NoRpm
  /\ Command(Throttle, Calm = Enough)
  /\ UNCHANGED <<ms_before, pid_rpm, was_pid>>

(* Otherwise the motor follows the throttle.  Commands to the other        *)
(* controllers on the bus are left out.                                    *)
Drive ==
  /\ Turn
  /\ ~(Added < Enough /\ safe_start) /\ ~Holds
  /\ ms_without_power' = Added
  /\ quiet' = FALSE
  /\ was_pid' = FALSE /\ press_rpm' = NoRpm
  /\ Command(Throttle, Calm = Enough)
  /\ UNCHANGED <<ms_before, pid_rpm>>

(* The rest of app_adc_configure.                                          *)
ResetAdc ==
  /\ Reset(Enough)
  /\ ms_without_power' = 0
  /\ sleep_time' \in SleepTime /\ ctrl_adc' \in AdcCtrlType
  /\ UNCHANGED <<ms_before, pwr, cc_button, ms_read, was_pid, pid_rpm, press_rpm>>

AdcThread ==
  \/ \E p \in {-1, 0, 1}, cc \in BOOLEAN : Sample(p, cc)
  \/ SafeStartWaits \/ Drive
  \/ \E r \in Rpm : Cruise(r)
AdcNext ==
  \/ (Around \/ \E safe \in BOOLEAN : Configure(safe)) /\ UNCHANGED adcvars
  \/ AdcThread \/ ResetAdc

AdcSpec == InitBase /\ InitAdc /\ [][AdcNext]_<<basevars, adcvars>>

-----------------------------------------------------------------------------
(* Properties.                                                             *)

(* Cruise control keeps the speed the motor had when the button was        *)
(* pressed, unless it was released and pressed again while safe start had  *)
(* the motor braked or no control type was set, which the code does not    *)
(* notice: then it keeps an old speed, and nothing is claimed.             *)
CruiseKeepsPressedSpeed == output = "pid" /\ press_rpm # Missed => pid_rpm = press_rpm
=============================================================================
