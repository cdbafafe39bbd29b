---------------------------- MODULE EepromStore ----------------------------
(***************************************************************************)
(* What the EEPROM emulation promises its callers, without pages: a map    *)
(* from virtual addresses to values that only a write changes, whatever    *)
(* power losses come between.  A write whose call did not return may or    *)
(* may not have taken effect, but never half of it, and a write that       *)
(* returned FLASH_COMPLETE has.                                            *)
(*                                                                         *)
(* Once the environment has struck where eeprom.c has no recovery          *)
(* (degraded) nothing is promised any more.                                *)
(***************************************************************************)
CONSTANTS Addr, Data, NotFound, NoReq

VARIABLES
  mem,       \* value of each address, or NotFound
  pending,   \* the write whose call has not returned, or NoReq
  up,        \* EE_Init has returned since the last power loss
  result,    \* what the last call returned
  degraded

vars == <<mem, pending, up, result, degraded>>

Init ==
  /\ mem = [v \in Addr |-> NotFound]
  /\ pending = NoReq
  /\ up = FALSE
  /\ degraded = FALSE

Applied == [mem EXCEPT ![pending.addr] = pending.data]

Write ==
  /\ up /\ pending = NoReq
  /\ pending' \in [addr : Addr, data : Data]
  /\ UNCHANGED <<mem, up, result>>

(* The write takes effect while its call is still running.                 *)
Commit ==
  /\ pending # NoReq
  /\ mem' = Applied
  /\ UNCHANGED <<pending, up, result>>

Ack ==
  /\ pending # NoReq
  /\ mem' = Applied
  /\ pending' = NoReq
  /\ result' = "FLASH_COMPLETE"
  /\ UNCHANGED up

Fail ==
  /\ pending # NoReq
  /\ pending' = NoReq
  /\ result' # "FLASH_COMPLETE"
  /\ UNCHANGED <<mem, up>>

PowerLoss ==
  /\ up' = FALSE
  /\ pending' = NoReq
  /\ UNCHANGED <<mem, result>>

Boot ==
  /\ ~up
  /\ up' = TRUE
  /\ UNCHANGED <<mem, pending>>

Next ==
  \/ /\ ~degraded'
     /\ Write \/ Commit \/ Ack \/ Fail \/ PowerLoss \/ Boot
  \/ degraded'

Spec == Init /\ [][Next]_vars
=============================================================================
