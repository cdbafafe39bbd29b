------------------------------- MODULE RxRing -------------------------------
(***************************************************************************)
(* A receive ring between a reader of the line (the writer of the ring)    *)
(* and a processing thread: serial_rx_buffer of comm_usb.c and of          *)
(* app_uartcomm.c, rx_frames of comm_can.c.  Nothing checks whether the    *)
(* ring is full.                                                           *)
(*                                                                         *)
(* On UART the writer is an interrupt and on CAN a thread of higher        *)
(* priority: for the processing thread a write is one step (Write).  The   *)
(* USB writer has the processing thread's priority and its stores are      *)
(* plain C: the byte may be stored before or after the position, and the   *)
(* position may be seen at Size before it is wrapped.                      *)
(***************************************************************************)
EXTENDS Naturals, Sequences

CONSTANTS
  Size,         \* SERIAL_RX_BUFFER_SIZE, RX_FRAMES_SIZE
  Item,         \* bytes, frames
  Zero          \* what static memory holds at the start

ASSUME RingAssumption == Size \in Nat /\ Size >= 2 /\ Zero \in Item

VARIABLES
  ring, read_pos, write_pos,
  event,        \* the event that the writer signals is pending
  wpc, item, slot, stored,  \* the preemptible writer: place, byte in hand,
                            \* its slot, and whether it is stored
  rpc,          \* the processing thread: "wait", "test" or "take"
  got,          \* item processed last
  preempts,     \* the writer can be preempted by the processing thread
  odd           \* history: the processing thread saw a half-done write

ringvars == <<ring, read_pos, write_pos, event, rpc, got, odd>>
wvars == <<wpc, item, slot, stored>>
rxvars == <<ringvars, wvars, preempts>>

Pos == 0..(Size - 1)
Wrapped(p) == IF p >= Size THEN p - Size ELSE p

InitRing ==
  /\ ring = [p \in Pos |-> Zero] /\ got = Zero /\ item = Zero
  /\ read_pos = 0 /\ write_pos = 0 /\ event = FALSE
  /\ wpc = "read" /\ slot = 0 /\ stored = TRUE
  /\ rpc = "wait" /\ odd = FALSE
  /\ preempts \in BOOLEAN

-----------------------------------------------------------------------------
(* rxchar of the UART and one turn of cancom_read_thread's loop: nobody    *)
(* looks before the event is signalled.                                    *)
Write(x) ==
  /\ ~preempts
  /\ ring' = [ring EXCEPT ![write_pos] = x]
  /\ write_pos' = Wrapped(write_pos + 1)
  /\ event' = TRUE
  /\ UNCHANGED <<read_pos, rpc, got, odd, wvars, preempts>>

(* serial_read_thread of comm_usb.c.  chSequentialStreamRead has a byte.   *)
ReadByte(x) ==
  /\ preempts /\ wpc = "read"
  /\ item' = x /\ slot' = write_pos /\ stored' = FALSE /\ wpc' = "advance"
  /\ UNCHANGED <<ringvars, preempts>>

(* The ring is overrun while its first item is being taken.                *)
Overtakes == rpc = "take" /\ Wrapped(slot) = read_pos

(* serial_rx_buffer[...] = buffer[i], at any point before the signal.      *)
StoreByte ==
  /\ ~stored
  /\ ring' = [ring EXCEPT ![slot] = item]
  /\ stored' = TRUE
  /\ odd' = (odd \/ Overtakes)
  /\ UNCHANGED <<read_pos, write_pos, event, rpc, got, wpc, item, slot, preempts>>

(* serial_rx_write_pos++ ...                                               *)
Advance ==
  /\ wpc = "advance"
  /\ write_pos' = write_pos + 1
  /\ odd' = (odd \/ Overtakes)
  /\ wpc' = "wrap"
  /\ UNCHANGED <<ring, read_pos, event, rpc, got, item, slot, stored, preempts>>

(* ... and back to 0 at the end of the ring.                               *)
WrapAround ==
  /\ wpc = "wrap"
  /\ write_pos' = Wrapped(write_pos)
  /\ wpc' = "signal"
  /\ UNCHANGED <<ring, read_pos, event, rpc, got, odd, item, slot, stored, preempts>>

MutantSignal ==
  /\ wpc = "signal" /\ stored
  /\ wpc' = "read"
  /\ UNCHANGED <<ringvars, item, slot, stored, preempts>>

(* chEvtSignal(process_tp, 1).                                             *)
Signal ==
  /\ wpc = "signal" /\ stored
  /\ event' = TRUE
  /\ wpc' = "read"
  /\ UNCHANGED <<ring, read_pos, write_pos, rpc, got, odd, item, slot, stored, preempts>>

-----------------------------------------------------------------------------
(* The processing thread.  chEvtWaitAny takes the event ...                *)
Wake ==
  /\ rpc = "wait" /\ event
  /\ event' = FALSE
  /\ rpc' = "test"
  /\ UNCHANGED <<ring, read_pos, write_pos, got, odd, wvars, preempts>>

(* ... and while (read_pos != write_pos) ...                               *)
Test ==
  /\ rpc = "test"
  /\ rpc' = IF read_pos # write_pos THEN "take" ELSE "wait"
  /\ odd' = (odd \/ (read_pos # write_pos /\ read_pos = Wrapped(write_pos)))
  /\ UNCHANGED <<ring, read_pos, write_pos, event, got, wvars, preempts>>

(* ... the item is processed and read_pos advances and wraps.  The item is *)
(* not there yet if the writer has advanced and not stored.                *)
Take ==
  /\ rpc = "take"
  /\ got' = ring[read_pos]
  /\ read_pos' = Wrapped(read_pos + 1)
  /\ odd' = (odd \/ (~stored /\ wpc # "advance" /\ slot = read_pos))
  /\ rpc' = "test"
  /\ UNCHANGED <<ring, write_pos, event, wvars, preempts>>

Writer == StoreByte \/ Advance \/ WrapAround \/ Signal
Reader == Wake \/ Test \/ Take

RingNext == (\E x \in Item : Write(x) \/ ReadByte(x)) \/ Writer \/ Reader

RingSpec == InitRing /\ [][RingNext]_rxvars /\ WF_rxvars(Writer) /\ WF_rxvars(Reader)

-----------------------------------------------------------------------------
(* The items in the ring.  A slot whose position is out and whose byte is  *)
(* not yet stored does not count.                                          *)
Published ==
  LET w == Wrapped(write_pos) IN
  IF w > read_pos THEN w - read_pos
  ELSE IF w < read_pos THEN w + Size - read_pos
  ELSE IF rpc = "take" THEN Size ELSE 0

Count ==
  IF ~stored /\ wpc # "advance" /\ Published > 0 THEN Published - 1 ELSE Published

Queued == [i \in 1..Count |-> ring[Wrapped(read_pos + i - 1)]]

F == INSTANCE LossyFifo
  WITH Capacity <- Size, queue <- Queued, ok <- ~odd, tears <- preempts

(* The ring is a FIFO that may lose what it holds when it is overrun: an   *)
(* item is processed once, in order and in the end, whatever the order of  *)
(* the writer's stores and the reader's tests.  A writer that is preempted *)
(* between position and wrap or store, as on USB, may break this.          *)
RingIsLossyFifo == F!Spec
=============================================================================
