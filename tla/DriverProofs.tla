---------------------------- MODULE DriverProofs ----------------------------
(***************************************************************************)
(* Three drivers that share state between a thread and an interrupt or     *)
(* another thread, each under a specification of its own: the sections of  *)
(* flash_helper.c, the restart timers of nrf_driver.c and the sample       *)
(* buffers of mc_interface.c.                                              *)
(***************************************************************************)
EXTENDS NrfDriver, FlashHelper, Sampling, TLAPS

(***************************************************************************)
(* For any number of packet threads: as long as no work on the new         *)
(* application has failed, the sections of utils_sys_lock_cnt exclude each *)
(* other and the watchdog runs outside of them, but for a thread on its    *)
(* way into the bootloader.                                                *)
(***************************************************************************)
Place == {"idle", "test", "lock", "count", "work", "unlock", "reply", "jump"}

FlashTypeOK ==
  /\ sys_lock_cnt \in Nat /\ lost \in Nat
  /\ holder \in PacketThread \cup {NoThread}
  /\ fpc \in [PacketThread -> Place]
  /\ work \in [PacketThread -> {"conf", "app"}]

(* The kernel is locked from the lock to the unlock of one thread, and the *)
(* counter agrees with its place.                                          *)
LockedInside ==
  \A t \in PacketThread : fpc[t] \in {"count", "work", "unlock"} <=> holder = t

CountAgrees ==
  /\ holder = NoThread => sys_lock_cnt = 0
  /\ \A t \in PacketThread : fpc[t] = "count" => sys_lock_cnt = 0
  /\ \A t \in PacketThread : fpc[t] \in {"work", "unlock"} => sys_lock_cnt = 1

ClockAgrees ==
  /\ holder = NoThread /\ (\A t \in PacketThread : fpc[t] # "jump") => wwdg
  /\ \A t \in PacketThread : fpc[t] = "unlock" => wwdg
  /\ \A t \in PacketThread : fpc[t] = "work" => ~wwdg

FlashInv == FlashTypeOK /\ (lost = 0 => LockedInside /\ CountAgrees /\ ClockAgrees)

-----------------------------------------------------------------------------
(* The state app_init finds satisfies the invariant.                       *)
LEMMA FlashInvInit == InitFlash => FlashInv
  BY FlashAssumption
  DEF InitFlash, FlashInv, FlashTypeOK, Place, LockedInside, CountAgrees, ClockAgrees

(* Every step of a packet thread keeps the types.                          *)
LEMMA FlashTypeNext == FlashTypeOK /\ [FlashNext]_flashvars => FlashTypeOK'
<1> SUFFICES ASSUME FlashTypeOK, [FlashNext]_flashvars PROVE FlashTypeOK'
  OBVIOUS
<1> USE DEF FlashTypeOK, Place, Go
<1>1. CASE UNCHANGED flashvars
  BY <1>1 DEF flashvars
<1>2. ASSUME NEW t \in PacketThread, NEW w \in {"conf", "app"}, WorkCall(t, w)
      PROVE FlashTypeOK'
  BY <1>2 DEF WorkCall
<1>3. ASSUME NEW t \in PacketThread, Test(t) \/ Lock(t) \/ Count(t)
      PROVE FlashTypeOK'
  BY <1>3 DEF Test, Lock, Count
<1>4. ASSUME NEW t \in PacketThread, WorkEnds(t) \/ NewAppFails(t)
      PROVE FlashTypeOK'
  BY <1>4 DEF WorkEnds, NewAppFails
<1>5. ASSUME NEW t \in PacketThread,
             utils_sys_unlock_cnt(t) \/ Reply(t) \/ JumpToBootloader(t) \/ SysDisable(t)
      PROVE FlashTypeOK'
  BY <1>5 DEF utils_sys_unlock_cnt, Reply, JumpToBootloader, SysDisable
<1> QED
  BY <1>1, <1>2, <1>3, <1>4, <1>5 DEF FlashNext

(* Every step of a packet thread keeps the invariant: a thread that can    *)
(* take a step finds the kernel unlocked or locked by itself, so that the  *)
(* counter it tested is still the counter it increments.                   *)
LEMMA FlashInvNext == FlashInv /\ [FlashNext]_flashvars => FlashInv'
<1> SUFFICES ASSUME FlashInv, [FlashNext]_flashvars PROVE FlashInv'
  OBVIOUS
<1>0. FlashTypeOK /\ FlashTypeOK'
  BY FlashTypeNext DEF FlashInv
<1> DEFINE Good == LockedInside /\ CountAgrees /\ ClockAgrees
<1> SUFFICES ASSUME lost' = 0 PROVE Good'
  BY <1>0 DEF FlashInv
<1>1. lost = 0 /\ Good
  <2>1. lost = 0
    BY <1>0 DEF FlashNext, flashvars, FlashTypeOK, WorkCall, Test, Lock, Count, WorkEnds,
                NewAppFails, utils_sys_unlock_cnt, Reply, JumpToBootloader, SysDisable
  <2> QED
    BY <2>1 DEF FlashInv
<1> USE FlashAssumption, <1>0, <1>1
    DEF FlashTypeOK, Place, LockedInside, CountAgrees, ClockAgrees, Go, MayRun
<1>2. CASE UNCHANGED flashvars
  BY <1>2 DEF flashvars
<1>3. ASSUME NEW t \in PacketThread, NEW w \in {"conf", "app"}, WorkCall(t, w)
      PROVE Good'
  BY <1>3 DEF WorkCall
<1>4. ASSUME NEW t \in PacketThread, Test(t) PROVE Good'
  <2>1. sys_lock_cnt = 0
    BY <1>4 DEF Test
  <2> QED
    BY <1>4, <2>1 DEF Test
<1>5. ASSUME NEW t \in PacketThread, Lock(t) PROVE Good'
  BY <1>5 DEF Lock
<1>6. ASSUME NEW t \in PacketThread, Count(t) PROVE Good'
  BY <1>6 DEF Count
<1>7. ASSUME NEW t \in PacketThread, WorkEnds(t) PROVE Good'
  BY <1>7 DEF WorkEnds
<1>8. ASSUME NEW t \in PacketThread, NewAppFails(t) PROVE Good'
  BY <1>8 DEF NewAppFails
<1>9. ASSUME NEW t \in PacketThread, utils_sys_unlock_cnt(t) PROVE Good'
  BY <1>9 DEF utils_sys_unlock_cnt
<1>10. ASSUME NEW t \in PacketThread, Reply(t) PROVE Good'
  BY <1>10 DEF Reply
<1>11. ASSUME NEW t \in PacketThread, JumpToBootloader(t) PROVE Good'
  BY <1>11 DEF JumpToBootloader
<1>12. ASSUME NEW t \in PacketThread, SysDisable(t) PROVE Good'
  BY <1>12 DEF SysDisable
<1> QED
  BY <1>2, <1>3, <1>4, <1>5, <1>6, <1>7, <1>8, <1>9, <1>10, <1>11, <1>12 DEF FlashNext

(* utils_sys_lock_cnt keeps the sections apart although it tests the       *)
(* counter before it locks: whoever works on the flash has the kernel.     *)
THEOREM FlashExclusive == FlashSpec => []FlashWorkIsExclusive
<1>1. FlashInv => FlashWorkIsExclusive
  BY DEF FlashInv, LockedInside, FlashWorkIsExclusive
<1> QED
  BY <1>1, FlashInvInit, FlashInvNext, PTL DEF FlashSpec

(* The clock is off while a thread works on the flash, and on again        *)
(* whenever other threads can run and none is on its way into the          *)
(* bootloader, so that a hang outside of the sections is noticed.          *)
THEOREM FlashWatchdog == FlashSpec => []WatchdogGuards
<1>1. FlashInv => WatchdogGuards
  BY DEF FlashInv, ClockAgrees, WatchdogGuards
<1> QED
  BY <1>1, FlashInvInit, FlashInvNext, PTL DEF FlashSpec

-----------------------------------------------------------------------------
(***************************************************************************)
(* For every restart time and alive interval: the radio is restarted only  *)
(* after silence, or after a transmission was forgotten by the race of the *)
(* two threads on nrf_restart_tx_time.                                     *)
(***************************************************************************)
NrfTypeOK ==
  /\ {rx_time, tx_time, nosend_cnt, read_tx, rx_left, tx_left} \subseteq Nat
  /\ rpc \in {"poll", "write"}

(* The timers are the time left, the second one unless a write was lost;   *)
(* in the middle of its decrement the value read is not yet out of date.   *)
TimersAgree ==
  /\ rx_time = rx_left
  /\ rpc = "write" => read_tx > 0
  /\ ~race => tx_time = tx_left /\ (rpc = "write" => read_tx = tx_time)

NrfInv == NrfTypeOK /\ TimersAgree

-----------------------------------------------------------------------------
(* nrf_driver_init establishes the invariant.                              *)
LEMMA NrfInvInit == InitNrf => NrfInv
  BY DEF InitNrf, NrfInv, NrfTypeOK, TimersAgree

(* rf_tx_wrapper, called by either thread, keeps what concerns the second  *)
(* timer.                                                                  *)
LEMMA TxKeepsTimer ==
  ASSUME NrfInv, NEW acked \in BOOLEAN, rf_tx_wrapper(acked), UNCHANGED <<rpc, read_tx>>
  PROVE  /\ tx_time' \in Nat /\ tx_left' \in Nat
         /\ ~race' => tx_time' = tx_left' /\ (rpc' = "write" => read_tx' = tx_time')
  BY NrfAssumption DEF NrfInv, NrfTypeOK, TimersAgree, rf_tx_wrapper

(* Every step of the two threads and of the radio keeps the invariant.     *)
LEMMA NrfInvNext == NrfInv /\ [NrfNext]_nrfvars => NrfInv'
<1> SUFFICES ASSUME NrfInv, [NrfNext]_nrfvars PROVE NrfInv'
  OBVIOUS
<1> USE NrfAssumption
<1>1. CASE UNCHANGED nrfvars
  BY <1>1 DEF nrfvars, NrfInv, NrfTypeOK, TimersAgree
<1>2. CASE RadioHangs
  BY <1>2 DEF RadioHangs, NrfInv, NrfTypeOK, TimersAgree
<1>3. CASE Tick
  <2>1. CASE nosend_cnt + 1 >= ALIVE
    <3>1. PICK acked \in BOOLEAN : rf_tx_wrapper(acked)
      BY <1>3, <2>1 DEF Tick
    <3>2. UNCHANGED <<rx_time, rpc, read_tx, rx_left>> /\ nosend_cnt' = 0
      BY <1>3, <2>1 DEF Tick
    <3> QED
      BY <3>1, <3>2, TxKeepsTimer DEF NrfInv, NrfTypeOK, TimersAgree
  <2>2. CASE ~(nosend_cnt + 1 >= ALIVE)
    BY <1>3, <2>2 DEF Tick, NrfInv, NrfTypeOK, TimersAgree
  <2> QED
    BY <2>1, <2>2
<1>4. CASE ReadPacket
  <2>1. UNCHANGED <<rpc, read_tx>> /\ rx_time' = RESTART /\ rx_left' = RESTART
    BY <1>4 DEF ReadPacket
  <2>2. CASE UNCHANGED <<tx_time, tx_left, race, nosend_cnt>>
    BY <2>1, <2>2 DEF NrfInv, NrfTypeOK, TimersAgree
  <2>3. CASE nosend_cnt' = 0 /\ \E acked \in BOOLEAN : rf_tx_wrapper(acked)
    <3>1. PICK acked \in BOOLEAN : rf_tx_wrapper(acked)
      BY <2>3
    <3> QED
      BY <2>1, <2>3, <3>1, TxKeepsTimer DEF NrfInv, NrfTypeOK, TimersAgree
  <2> QED
    BY <1>4, <2>2, <2>3 DEF ReadPacket
<1>5. CASE CountDown
  BY <1>5 DEF CountDown, NrfInv, NrfTypeOK, TimersAgree
<1>6. CASE CountDownTx
  BY <1>6 DEF CountDownTx, NrfInv, NrfTypeOK, TimersAgree
<1>7. CASE Restart
  BY <1>7 DEF Restart, NrfInv, NrfTypeOK, TimersAgree
<1> QED
  BY <1>1, <1>2, <1>3, <1>4, <1>5, <1>6, <1>7 DEF NrfNext, RxThread

(* rx_thread restarts the radio only when nothing was received, or nothing *)
(* acknowledged, for a whole restart time, or an acknowledge was lost to   *)
(* the race.                                                               *)
THEOREM NrfRestarts == NrfSpec => RestartOnlyWhenSilent
<1> DEFINE Silent == restarted' /\ ~restarted => rx_left = 0 \/ tx_left = 0 \/ race
<1>1. NrfInv /\ [NrfNext]_nrfvars => [Silent]_nrfvars
  <2> SUFFICES ASSUME NrfInv, NrfNext, restarted', ~restarted
               PROVE  rx_left = 0 \/ tx_left = 0 \/ race
    OBVIOUS
  <2>1. Restart
    BY DEF NrfNext, RxThread, RadioHangs, Tick, ReadPacket, CountDown, CountDownTx
  <2> QED
    BY <2>1 DEF Restart, NrfInv, NrfTypeOK, TimersAgree
<1> QED
  BY <1>1, NrfInvInit, NrfInvNext, PTL DEF NrfSpec, RestartOnlyWhenSilent

-----------------------------------------------------------------------------
(***************************************************************************)
(* For every size of the buffers and every length that is asked for: the   *)
(* indexes into the sample buffers stay in them, unless a request made the *)
(* length no more than the index of the collection it fell into.           *)
(***************************************************************************)
SamplingTypeOK ==
  /\ m_sample_len \in Nat /\ m_sample_now \in Nat /\ send_i \in Nat
  /\ m_sample_len <= MaxLen

(* The equality that ends a collection is reached, because the index is    *)
(* still below the length.                                                 *)
IndexBelowLength == ~outgrown => m_sample_now < m_sample_len

(* The sender may find the length changed after its test, but the old one  *)
(* was within the buffers too.                                             *)
SenderBelowSize == send_pc = "send" => send_i < MaxLen

SamplingInv == SamplingTypeOK /\ IndexBelowLength /\ SenderBelowSize

-----------------------------------------------------------------------------
(* mc_interface_init establishes the invariant.                            *)
LEMMA SamplingInvInit == InitSampling => SamplingInv
  BY SamplingAssumption
  DEF InitSampling, SamplingInv, SamplingTypeOK, IndexBelowLength, SenderBelowSize

(* One sample: the index advances or, at the length, starts again.         *)
LEMMA CollectKeepsIndex ==
  ASSUME NEW n \in Nat, m_sample_len \in Nat, Collect(n)
  PROVE  /\ m_sample_now' \in Nat
         /\ n < m_sample_len => m_sample_now' < m_sample_len
         /\ m_sample_ready' => m_sample_len > 0 /\ m_sample_now' = 0
  BY DEF Collect

(* Every step of the request, the interrupt and the sender keeps it.       *)
LEMMA SamplingInvNext == SamplingInv /\ [SamplingNext]_samplevars => SamplingInv'
<1> SUFFICES ASSUME SamplingInv, [SamplingNext]_samplevars PROVE SamplingInv'
  OBVIOUS
<1> USE SamplingAssumption DEF SamplingInv, SamplingTypeOK, IndexBelowLength, SenderBelowSize
<1>1. CASE UNCHANGED samplevars
  BY <1>1 DEF samplevars
<1>2. ASSUME NEW t \in Asker, NEW len \in AskLen, Ask(t, len) PROVE SamplingInv'
  <2>1. len \in Nat
    OBVIOUS
  <2>2. m_sample_len' \in Nat /\ m_sample_len' <= MaxLen
    BY <1>2, <2>1 DEF Ask
  <2>3. m_sample_len' <= m_sample_now => outgrown'
    BY <1>2, Zenon DEF Ask
  <2>4. UNCHANGED <<m_sample_now, send_pc, send_i>>
    BY <1>2 DEF Ask
  <2> QED
    BY <2>2, <2>3, <2>4
<1>3. ASSUME NEW t \in Asker, AskAtStart(t) PROVE SamplingInv'
  BY <1>3 DEF AskAtStart
<1>4. ASSUME NEW t \in Asker, AskNow(t) PROVE SamplingInv'
  <2>1. m_sample_len = 0 => outgrown'
    BY <1>4, Zenon DEF AskNow
  <2>2. m_sample_now' = 0 /\ UNCHANGED <<m_sample_len, send_pc, send_i>>
    BY <1>4 DEF AskNow
  <2> QED
    BY <2>1, <2>2
<1>5. ASSUME NEW t \in Asker, AskReady(t) PROVE SamplingInv'
  BY <1>5 DEF AskReady
<1>6. CASE InterruptStarts
  <2>1. m_sample_len = 0 => outgrown'
    BY <1>6, Zenon DEF InterruptStarts
  <2>2. UNCHANGED <<m_sample_len, send_pc, send_i>>
    BY <1>6 DEF InterruptStarts
  <2>3. CASE Collect(0)
    <3>1. /\ m_sample_now' \in Nat
          /\ 0 < m_sample_len => m_sample_now' < m_sample_len
      BY <2>3, CollectKeepsIndex
    <3> QED
      BY <2>1, <2>2, <3>1
  <2>4. CASE m_sample_now' = 0 /\ m_sample_ready' = FALSE
    BY <2>4, <2>1, <2>2
  <2> QED
    BY <1>6, <2>3, <2>4 DEF InterruptStarts
<1>7. CASE Interrupt
  <2>1. Collect(m_sample_now)
    BY <1>7 DEF Interrupt
  <2>2. /\ m_sample_now' \in Nat
        /\ m_sample_now < m_sample_len => m_sample_now' < m_sample_len
        /\ m_sample_ready' => m_sample_len > 0 /\ m_sample_now' = 0
    BY <2>1, CollectKeepsIndex
  <2> QED
    BY <1>7, <2>2 DEF Interrupt
<1>8. CASE SendWakes
  BY <1>8 DEF SendWakes
<1>9. CASE SendTest
  BY <1>9 DEF SendTest
<1>10. CASE Send
  BY <1>10 DEF Send
<1> QED
  BY <1>1, <1>2, <1>3, <1>4, <1>5, <1>6, <1>7, <1>8, <1>9, <1>10 DEF SamplingNext

(* The invariant keeps both indexes inside the buffers.                    *)
LEMMA SamplingInvImplies == SamplingInv => SamplesStayInBuffers
  BY SamplingAssumption
  DEF SamplingInv, SamplingTypeOK, IndexBelowLength, SenderBelowSize, SamplesStayInBuffers

(* The interrupt of mc_interface.c writes, and sample_send_thread reads,   *)
(* inside the sample buffers through every sequence of requests, until one *)
(* makes the length no more than the running index.                        *)
THEOREM SamplesInBuffers == SamplingSpec => []SamplesStayInBuffers
<1>1. SamplingSpec => []SamplingInv
  BY SamplingInvInit, SamplingInvNext, PTL DEF SamplingSpec
<1> QED
  BY <1>1, SamplingInvImplies, PTL
=============================================================================
