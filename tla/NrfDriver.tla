----------------------------- MODULE NrfDriver -----------------------------
(***************************************************************************)
(* The restart timers of nrf_driver.c.  The receive thread counts both of  *)
(* them down and restarts the radio when one has run out; a received       *)
(* packet sets the one, an acknowledged transmission of either thread the  *)
(* other, without a lock.                                                  *)
(***************************************************************************)
EXTENDS Naturals

CONSTANTS
  RESTART,      \* NRF_RESTART_TIMEOUT in steps of 5 ms
  ALIVE         \* ALIVE_INTERVAL

ASSUME NrfAssumption == {RESTART, ALIVE} \subseteq Nat \ {0}

VARIABLES
  rx_time, tx_time,   \* nrf_restart_rx_time, nrf_restart_tx_time
  nosend_cnt,
  works,              \* the radio answers
  rpc, read_tx,       \* the receive thread: place, and tx_time read for -= 5
  restarted,          \* history: the last step restarted the radio
  rx_left, tx_left,   \* history: steps since the last packet, acknowledge
  race                \* history: a transmission fell into the decrement

nrfvars == <<rx_time, tx_time, nosend_cnt, works, rpc, read_tx, restarted, rx_left, tx_left, race>>

InitNrf ==
  /\ rx_time = 0 /\ tx_time = 0 /\ nosend_cnt = 0 /\ works = TRUE
  /\ rpc = "poll" /\ read_tx = 0
  /\ restarted = FALSE /\ rx_left = 0 /\ tx_left = 0 /\ race = FALSE

(* The link is lost; only a restart brings the radio back.                 *)
RadioHangs ==
  /\ works /\ works' = FALSE
  /\ UNCHANGED <<rx_time, tx_time, nosend_cnt, rpc, read_tx, restarted, rx_left, tx_left, race>>

(* rf_tx_wrapper: an acknowledge sets the timer.                           *)
rf_tx_wrapper(acked) ==
  /\ acked => works
  /\ tx_time' = IF acked THEN RESTART ELSE tx_time
  /\ tx_left' = IF acked THEN RESTART ELSE tx_left
  /\ race' = (race \/ (acked /\ rpc = "write"))

(* tx_thread, every millisecond.                                           *)
Tick ==
  /\ restarted' = FALSE
  /\ IF nosend_cnt + 1 >= ALIVE
     THEN nosend_cnt' = 0 /\ \E acked \in BOOLEAN : rf_tx_wrapper(acked)
     ELSE nosend_cnt' = nosend_cnt + 1 /\ UNCHANGED <<tx_time, tx_left, race>>
  /\ UNCHANGED <<rx_time, works, rpc, read_tx, rx_left>>

(* rx_thread: a packet; a reply to it is sent by nrf_driver_send_buffer.   *)
ReadPacket ==
  /\ rpc = "poll" /\ works
  /\ rx_time' = RESTART /\ rx_left' = RESTART
  /\ restarted' = FALSE
  /\ \/ UNCHANGED <<tx_time, tx_left, race, nosend_cnt>>
     \/ nosend_cnt' = 0 /\ \E acked \in BOOLEAN : rf_tx_wrapper(acked)
  /\ UNCHANGED <<works, rpc, read_tx>>

(* After 5 ms: both timers count down, the second in two steps ...         *)
CountDown ==
  /\ rpc = "poll" /\ rx_time > 0 /\ tx_time > 0
  /\ rx_time' = rx_time - 1 /\ read_tx' = tx_time
  /\ rx_left' = rx_left - 1
  /\ rpc' = "write" /\ restarted' = FALSE
  /\ UNCHANGED <<tx_time, nosend_cnt, works, tx_left, race>>

CountDownTx ==
  /\ rpc = "write" /\ rpc' = "poll"
  /\ tx_time' = read_tx - 1
  /\ tx_left' = IF tx_left > 0 THEN tx_left - 1 ELSE 0
  /\ restarted' = FALSE
  /\ UNCHANGED <<rx_time, nosend_cnt, works, read_tx, rx_left, race>>

MutantRestart ==
  /\ rpc = "poll" /\ ~(rx_time > 1 /\ tx_time > 1)
  /\ restarted' = TRUE
  /\ rx_time' = RESTART /\ tx_time' = RESTART /\ works' = TRUE
  /\ rx_left' = RESTART /\ tx_left' = RESTART /\ race' = FALSE
  /\ UNCHANGED <<nosend_cnt, rpc, read_tx>>

MutantNoRestart ==
  /\ rpc = "poll" /\ rx_time = 0 /\ tx_time = 0
  /\ restarted' = TRUE
  /\ rx_time' = RESTART /\ tx_time' = RESTART /\ works' = TRUE
  /\ rx_left' = RESTART /\ tx_left' = RESTART /\ race' = FALSE
  /\ UNCHANGED <<nosend_cnt, rpc, read_tx>>

(* ... or, when one has run out, rfhelp_power_up and rfhelp_restart.       *)
Restart ==
  /\ rpc = "poll" /\ ~(rx_time > 0 /\ tx_time > 0)
  /\ restarted' = TRUE
  /\ rx_time' = RESTART /\ tx_time' = RESTART /\ works' = TRUE
  /\ rx_left' = RESTART /\ tx_left' = RESTART /\ race' = FALSE
  /\ UNCHANGED <<nosend_cnt, rpc, read_tx>>

RxThread == CountDown \/ CountDownTx \/ Restart
NrfNext == RadioHangs \/ Tick \/ ReadPacket \/ RxThread

NrfSpec == InitNrf /\ [][NrfNext]_nrfvars

-----------------------------------------------------------------------------
(* Properties.                                                             *)

(* The radio is restarted only after a whole restart time in which nothing *)
(* was received or nothing was acknowledged, unless a transmission fell    *)
(* into the decrement and was forgotten.                                   *)
RestartOnlyWhenSilent == [][restarted' /\ ~restarted => rx_left = 0 \/ tx_left = 0 \/ race]_nrfvars

(* Whenever the radio hangs it is restarted some time later, although the  *)
(* alive packets go on.                                                    *)
RadioComesBack == []<>works
=============================================================================
