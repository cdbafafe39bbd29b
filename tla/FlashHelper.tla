---------------------------- MODULE FlashHelper ----------------------------
(***************************************************************************)
(* The critical sections around work on the flash: utils_sys_lock_cnt, the *)
(* stores of conf_general.c and the new application of flash_helper.c.     *)
(* The counter is tested before the kernel is locked; while it is locked   *)
(* no other thread runs.  The window watchdog has no clock meanwhile.      *)
(***************************************************************************)
EXTENDS Naturals, FiniteSets

CONSTANTS
  PacketThread,     \* threads that process commands
  NoThread,
  MaxFailures       \* bound on failing work on the new application

ASSUME FlashAssumption == NoThread \notin PacketThread /\ MaxFailures \in Nat

VARIABLES
  sys_lock_cnt,
  holder,           \* the thread with the kernel locked, or NoThread
  wwdg,             \* the watchdog has a clock
  fpc,              \* place of every thread
  work,             \* what it works on: "conf", "app"
  lost,             \* history: sections that were never left
  halted            \* the bootloader has taken over

flashvars == <<sys_lock_cnt, holder, wwdg, fpc, work, lost, halted>>

InitFlash ==
  /\ sys_lock_cnt = 0 /\ holder = NoThread /\ wwdg = TRUE
  /\ fpc = [t \in PacketThread |-> "idle"]
  /\ work = [t \in PacketThread |-> "conf"]
  /\ lost = 0 /\ halted = FALSE

MayRun(t) == ~halted /\ holder \in {t, NoThread}
Go(t, from, to) == MayRun(t) /\ fpc[t] = from /\ fpc' = [fpc EXCEPT ![t] = to]

(* conf_general_store_*, or flash_helper_erase_new_app and                 *)
(* flash_helper_write_new_app_data, up to utils_sys_lock_cnt (what they do *)
(* to the motor first is in McInterface).                                  *)
WorkCall(t, w) ==
  /\ Go(t, "idle", "test")
  /\ work' = [work EXCEPT ![t] = w]
  /\ UNCHANGED <<sys_lock_cnt, holder, wwdg, lost, halted>>

MutantTest(t) ==
  /\ Go(t, "test", IF sys_lock_cnt # 0 THEN "lock" ELSE "count")
  /\ UNCHANGED <<sys_lock_cnt, holder, wwdg, work, lost, halted>>

(* utils_sys_lock_cnt: if (!sys_lock_cnt) ...                              *)
Test(t) ==
  /\ Go(t, "test", IF sys_lock_cnt = 0 THEN "lock" ELSE "count")
  /\ UNCHANGED <<sys_lock_cnt, holder, wwdg, work, lost, halted>>

(* ... chSysLock() ...                                                     *)
Lock(t) ==
  /\ Go(t, "lock", "count")
  /\ holder' = t
  /\ UNCHANGED <<sys_lock_cnt, wwdg, work, lost, halted>>

(* ... sys_lock_cnt++; then the watchdog's clock is stopped.               *)
Count(t) ==
  /\ Go(t, "count", "work")
  /\ sys_lock_cnt' = sys_lock_cnt + 1
  /\ wwdg' = FALSE
  /\ UNCHANGED <<holder, work, lost, halted>>

MutantWorkEnds(t) ==
  /\ Go(t, "work", "unlock")
  /\ UNCHANGED <<sys_lock_cnt, holder, wwdg, work, lost, halted>>

(* The loop over words, sectors or bytes ends, for a store also at its     *)
(* first failure, and the clock is started ...                             *)
WorkEnds(t) ==
  /\ Go(t, "work", "unlock")
  /\ wwdg' = TRUE
  /\ UNCHANGED <<sys_lock_cnt, holder, work, lost, halted>>

(* ... but a failure with the new application returns at once.             *)
NewAppFails(t) ==
  /\ work[t] = "app" /\ lost < MaxFailures
  /\ Go(t, "work", "reply")
  /\ lost' = lost + 1
  /\ UNCHANGED <<sys_lock_cnt, holder, wwdg, work, halted>>

utils_sys_unlock_cnt(t) ==
  /\ Go(t, "unlock", "reply")
  /\ sys_lock_cnt' = IF sys_lock_cnt > 0 THEN sys_lock_cnt - 1 ELSE 0
  /\ holder' = IF sys_lock_cnt = 1 THEN NoThread ELSE holder
  /\ UNCHANGED <<wwdg, work, lost, halted>>

(* commands_send_packet: the kernel's own calls do not count, they lock    *)
(* and unlock.                                                             *)
Reply(t) ==
  /\ Go(t, "reply", "idle")
  /\ holder' = NoThread
  /\ UNCHANGED <<sys_lock_cnt, wwdg, work, lost, halted>>

(* flash_helper_jump_to_bootloader stops the clock, under no lock ...      *)
JumpToBootloader(t) ==
  /\ Go(t, "idle", "jump")
  /\ wwdg' = FALSE
  /\ UNCHANGED <<sys_lock_cnt, holder, work, lost, halted>>

(* ... and then chSysDisable() stops the other threads.                    *)
SysDisable(t) ==
  /\ MayRun(t) /\ fpc[t] = "jump"
  /\ halted' = TRUE
  /\ UNCHANGED <<sys_lock_cnt, holder, wwdg, fpc, work, lost>>

FlashNext ==
  \E t \in PacketThread :
    \/ \E w \in {"conf", "app"} : WorkCall(t, w)
    \/ Test(t) \/ Lock(t) \/ Count(t) \/ WorkEnds(t) \/ NewAppFails(t)
    \/ utils_sys_unlock_cnt(t) \/ Reply(t) \/ JumpToBootloader(t) \/ SysDisable(t)

FlashSpec == InitFlash /\ [][FlashNext]_flashvars

-----------------------------------------------------------------------------
(* Properties, of the time before a failure with the new application.      *)

(* A thread works on the flash only with the kernel locked, although the   *)
(* counter is tested before: no two threads are ever in a section.         *)
FlashWorkIsExclusive ==
  lost = 0 => \A t \in PacketThread : fpc[t] \in {"work", "unlock"} => holder = t

(* The watchdog has no clock while a thread works on the flash, and has    *)
(* one whenever the other threads can run, but for those that run while    *)
(* one is on its way into the bootloader.  (Of the clock only: a change of *)
(* the motor type resets the watchdog itself, see module Detection.)       *)
WatchdogGuards ==
  lost = 0 /\ ~halted =>
    /\ \A t \in PacketThread : fpc[t] = "work" => ~wwdg
    /\ holder = NoThread /\ (\A t \in PacketThread : fpc[t] # "jump") => wwdg
=============================================================================
