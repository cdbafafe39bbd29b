------------------------------ MODULE Sampling ------------------------------
(***************************************************************************)
(* Sample collection of mc_interface.c: packet threads ask for samples,    *)
(* the PWM interrupt fills the buffers and a thread sends them.  The       *)
(* request is several stores, between which the interrupt and the other    *)
(* threads may run; the interrupt compares its index with the length for   *)
(* equality.  What a sample is and the decimation (any choice of           *)
(* interrupts) are left out.                                               *)
(***************************************************************************)
EXTENDS Naturals

CONSTANTS
  MaxLen,       \* ADC_SAMPLE_MAX_LEN, the size of the buffers
  Asker,        \* packet threads
  AskLen,       \* lengths that are asked for
  MaxIndex      \* bound on an index that has left the buffers

ASSUME SamplingAssumption ==
  MaxLen \in Nat \ {0} /\ AskLen \subseteq Nat /\ MaxIndex \in Nat /\ MaxIndex > MaxLen

VARIABLES
  m_sample_len, m_sample_ready, m_sample_now, m_sample_at_start,
  ask_pc,       \* mc_interface_sample_print_data of each: "idle", "how", "ready"
  send_event,   \* sample_send_thread is signalled
  send_pc, send_i,   \* sample_send_thread: "wait", "test" or "send", and its loop
  outgrown      \* history: the length was set to no more than the index, which
                \* has not started again since

samplevars == <<m_sample_len, m_sample_ready, m_sample_now, m_sample_at_start, ask_pc,
                send_event, send_pc, send_i, outgrown>>

InitSampling ==
  /\ m_sample_len \in 1..MaxLen /\ m_sample_ready = TRUE /\ m_sample_now = 0
  /\ m_sample_at_start = FALSE
  /\ ask_pc = [t \in Asker |-> "idle"] /\ send_event = FALSE /\ send_pc = "wait" /\ send_i = 0
  /\ outgrown = FALSE

-----------------------------------------------------------------------------
AskGoes(t, from, to) == ask_pc[t] = from /\ ask_pc' = [ask_pc EXCEPT ![t] = to]

(* mc_interface_sample_print_data: the length ...                          *)
Ask(t, len) ==
  /\ AskGoes(t, "idle", "how")
  /\ m_sample_len' = IF len > MaxLen THEN MaxLen ELSE len
  /\ outgrown' = (outgrown \/ m_sample_len' <= m_sample_now)
  /\ UNCHANGED <<m_sample_ready, m_sample_now, m_sample_at_start, send_event, send_pc, send_i>>

(* ... then either at the start of the motor, which leaves a collection    *)
(* that is under way alone ...                                             *)
AskAtStart(t) ==
  /\ AskGoes(t, "how", "idle")
  /\ m_sample_at_start' = TRUE
  /\ UNCHANGED <<m_sample_len, m_sample_ready, m_sample_now, send_event, send_pc, send_i, outgrown>>

(* ... or now, from the first index ...                                    *)
AskNow(t) ==
  /\ AskGoes(t, "how", "ready")
  /\ m_sample_now' = 0
  /\ outgrown' = (m_sample_len = 0)
  /\ UNCHANGED <<m_sample_len, m_sample_ready, m_sample_at_start, send_event, send_pc, send_i>>

AskReady(t) ==
  /\ AskGoes(t, "ready", "idle")
  /\ m_sample_ready' = FALSE
  /\ UNCHANGED <<m_sample_len, m_sample_now, m_sample_at_start, send_event, send_pc, send_i, outgrown>>

-----------------------------------------------------------------------------
(* mc_interface_mc_timer_isr, one sample into slot n.                      *)
MutantCollect(n) ==
  IF n + 1 = m_sample_len
  THEN m_sample_ready' = TRUE /\ m_sample_now' = n + 1 /\ send_event' = TRUE
  ELSE m_sample_ready' = FALSE /\ m_sample_now' = n + 1 /\ UNCHANGED send_event

Collect(n) ==
  IF n + 1 = m_sample_len
  THEN m_sample_ready' = TRUE /\ m_sample_now' = 0 /\ send_event' = TRUE
  ELSE m_sample_ready' = FALSE /\ m_sample_now' = n + 1 /\ UNCHANGED send_event

(* The motor starts, or commutates: the collection begins.                 *)
InterruptStarts ==
  /\ m_sample_at_start
  /\ m_sample_at_start' = FALSE
  /\ \/ Collect(0)
     \/ m_sample_now' = 0 /\ m_sample_ready' = FALSE /\ UNCHANGED send_event
  /\ outgrown' = (m_sample_len = 0)
  /\ UNCHANGED <<m_sample_len, ask_pc, send_pc, send_i>>

Interrupt ==
  /\ ~m_sample_ready /\ m_sample_now < MaxIndex
  /\ Collect(m_sample_now)
  /\ outgrown' = (outgrown /\ ~m_sample_ready')
  /\ UNCHANGED <<m_sample_len, m_sample_at_start, ask_pc, send_pc, send_i>>

-----------------------------------------------------------------------------
(* sample_send_thread.                                                     *)
SendWakes ==
  /\ send_pc = "wait" /\ send_event
  /\ send_event' = FALSE /\ send_pc' = "test" /\ send_i' = 0
  /\ UNCHANGED <<m_sample_len, m_sample_ready, m_sample_now, m_sample_at_start, ask_pc, outgrown>>

SendTest ==
  /\ send_pc = "test"
  /\ send_pc' = IF send_i < m_sample_len THEN "send" ELSE "wait"
  /\ UNCHANGED <<m_sample_len, m_sample_ready, m_sample_now, m_sample_at_start, ask_pc,
                 send_event, send_i, outgrown>>

Send ==
  /\ send_pc = "send" /\ send_pc' = "test"
  /\ send_i' = send_i + 1
  /\ UNCHANGED <<m_sample_len, m_sample_ready, m_sample_now, m_sample_at_start, ask_pc,
                 send_event, outgrown>>

SamplingNext ==
  \/ \E t \in Asker : (\E len \in AskLen : Ask(t, len)) \/ AskAtStart(t) \/ AskNow(t) \/ AskReady(t)
  \/ InterruptStarts \/ Interrupt
  \/ SendWakes \/ SendTest \/ Send

SamplingSpec == InitSampling /\ [][SamplingNext]_samplevars

-----------------------------------------------------------------------------
(* Properties.                                                             *)

(* The interrupt's and the sender's index stay in the buffers through      *)
(* every request, also one that falls into a collection, unless it makes   *)
(* the length no more than the index is already (or zero).                 *)
SamplesStayInBuffers ==
  /\ m_sample_now >= MaxLen => outgrown
  /\ send_pc = "send" => send_i < MaxLen
=============================================================================
