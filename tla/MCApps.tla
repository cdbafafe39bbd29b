------------------------------- MODULE MCApps -------------------------------
(* app_init starts the application of the configuration, and no other      *)
(* until the next boot: a behaviour shows one, or by itself the decoder of *)
(* the servo pulses, the radio's driver, work on the flash or the          *)
(* collection of samples.                                                  *)
EXTENDS AppPpm, AppAdc, AppNunchuk, NrfDriver, FlashHelper, Sampling

VARIABLE app_to_use

appvars == <<app_to_use, basevars, filter, ppmvars, adcvars, chukvars, nrfvars, flashvars, samplevars>>

AppsInit ==
  /\ app_to_use \in {"PPM", "SERVO", "ADC", "NUNCHUK", "NRF", "FLASH", "SAMPLES"}
  /\ InitBase /\ InitPpm /\ InitAdc /\ InitNunchuk /\ InitNrf /\ InitFlash
  /\ InitSampling /\ (app_to_use # "SAMPLES" => m_sample_len = MaxLen)
  /\ (app_to_use # "PPM" => ctrl_type = "none" /\ ~servo_quiet)
  /\ (app_to_use # "SERVO" => ~use_median_filter)
  /\ (app_to_use # "ADC" => ctrl_adc = "none" /\ sleep_time = PerMs)
  /\ ctrl_chuk = IF app_to_use = "NUNCHUK" THEN "current" ELSE "none"
  /\ (app_to_use \in {"SERVO", "NUNCHUK", "NRF", "FLASH", "SAMPLES"} => ~safe_start)
  /\ (app_to_use \notin {"PPM", "ADC"} => timeout_msec = 1)

In(app, A, others) == app_to_use = app /\ A /\ UNCHANGED <<app_to_use, others>>

(* Data of the remote that differ from the last in several values are the  *)
(* same as several data, with no step in between.                          *)
Near ==
  {<<y, bt_c, bt_z>> : y \in {-1, 0, 1}} \cup {<<js_y, ~bt_c, bt_z>>, <<js_y, bt_c, ~bt_z>>}

(* The remote's application ignores faults but for the refused commands,   *)
(* so that they are left out once it has been reconfigured.                *)
NunchukBound == timeout_msec = 1 /\ (fault => configs = 0)

AppsNext ==
  \/ In("PPM", PpmNext, <<filter, adcvars, chukvars, nrfvars, flashvars, samplevars>>)
  \/ In("SERVO", ServoNext, <<basevars, servo_quiet, recent, ctrl_type, counts, adcvars,
                             chukvars, nrfvars, flashvars, samplevars>>)
  \/ In("ADC", AdcNext, <<filter, ppmvars, chukvars, nrfvars, flashvars, samplevars>>)
  \/ In("NUNCHUK", NunchukStep(Near) /\ NunchukBound',
        <<filter, ppmvars, adcvars, nrfvars, flashvars, samplevars>>)
  \/ In("NRF", NrfNext, <<basevars, filter, ppmvars, adcvars, chukvars, flashvars, samplevars>>)
  \/ In("FLASH", FlashNext, <<basevars, filter, ppmvars, adcvars, chukvars, nrfvars, samplevars>>)
  \/ In("SAMPLES", SamplingNext, <<basevars, filter, ppmvars, adcvars, chukvars, nrfvars, flashvars>>)

(* The threads that must go on: timeout_thread, and those of the           *)
(* application.  Equal priorities are time-sliced; timers wake them.       *)
Thread ==
  \/ In("PPM", PpmThread, <<filter, adcvars, chukvars, nrfvars, flashvars, samplevars>>)
  \/ In("ADC", AdcThread, <<filter, ppmvars, chukvars, nrfvars, flashvars, samplevars>>)
  \/ In("NRF", RxThread, <<basevars, filter, ppmvars, adcvars, chukvars, flashvars, samplevars>>)

AppsSpec ==
  /\ AppsInit /\ [][AppsNext]_appvars
  /\ WF_appvars(In(app_to_use, TimeoutThread, <<filter, ppmvars, adcvars, chukvars, nrfvars, flashvars, samplevars>>))
  /\ WF_appvars(Thread)
=============================================================================
