------------------------------ MODULE CommCan ------------------------------
(***************************************************************************)
(* comm_can.c: frames, fragmented messages, the status table and the reply *)
(* path over CAN.  The other controllers run the same code, of which only  *)
(* comm_can_send_buffer and the transmissions matter here; their messages  *)
(* are on the way frame by frame and interleave.  Between the bus and      *)
(* cancom_process_thread lies the ring of module RxRing, used here as the  *)
(* FIFO it implements.                                                     *)
(***************************************************************************)
EXTENDS Commands, Integers, FiniteSets

CONSTANTS
  Message,        \* [data: sequence of bytes, cmd: what it asks for]
  crc16(_),
  ShortMax,       \* 6: longest payload of PROCESS_SHORT_BUFFER
  FillStep,       \* 7: payload bytes of FILL_RX_BUFFER
  FillMax,        \* 255: largest offset its byte can hold
  LongStep,       \* 6: payload bytes of FILL_RX_BUFFER_LONG
  RxBufferSize,   \* RX_BUFFER_SIZE
  StatusSlots,    \* CAN_STATUS_MSGS_TO_STORE
  RxFrames,       \* RX_FRAMES_SIZE
  MaxMessages,    \* bound on messages and single frames to this controller
  MaxLost         \* bound on frames canTransmit gives up

ASSUME CommCanAssumption ==
  /\ {ShortMax, FillStep, FillMax, LongStep, RxBufferSize, StatusSlots} \subseteq Nat \ {0}
  /\ RxFrames \in Nat /\ RxFrames >= 2 /\ MaxMessages \in Nat /\ MaxLost \in Nat
  /\ \A m \in Message :
       m.data \in Seq(0..255) /\ Len(m.data) \in 1..RxBufferSize /\ m.cmd \in Command

VARIABLES
  frames,       \* the ring of received frames
  rxmsg,        \* the frame being handled
  rx_buffer,
  stat_msgs,    \* id of each slot, None if free
  driven,       \* the last CAN_PACKET_SET_* frame was applied, timeout reset
  out,          \* frames a controller has still to send of its message
  messages, lost,
  whole,        \* history: nothing has disturbed the message in out
  verdict       \* history: the last PROCESS_RX_BUFFER frame and its outcome

bvars == <<rx_buffer, stat_msgs, driven, out, messages, lost, whole, verdict>>
canvars == <<rvars, frames, rxmsg, bvars>>

(* The addresses of a frame: this controller, all (255), another one.      *)
Address == {"me", "all", "other"}

-----------------------------------------------------------------------------
(* comm_can_send_buffer as the sequence of its frames.                     *)
Chunk(data, i, n) == SubSeq(data, i + 1, IF i + n <= Len(data) THEN i + n ELSE Len(data))

Least(a, b) == IF a <= b THEN a ELSE b
Fills(len) == Least((len + FillStep - 1) \div FillStep, FillMax \div FillStep + 1)
MutantLongs(len) ==
  LET end_a == Fills(len) * FillStep
  IN IF end_a < len THEN (len - end_a) \div LongStep ELSE 0

Longs(len) ==
  LET end_a == Fills(len) * FillStep
  IN IF end_a < len THEN (len - end_a + LongStep - 1) \div LongStep ELSE 0

Frame(cmd, r, m, send, off, data) ==
  [cmd |-> cmd, to |-> "me", from |-> r, msg |-> m, send |-> send,
   off |-> off, data |-> data, whole |-> TRUE]

LongFrames(r, m, send) ==
  LET n == Fills(Len(m.data)) IN
  [k \in 1..n |->
     Frame("FILL", r, m, send, (k - 1) * FillStep, Chunk(m.data, (k - 1) * FillStep, FillStep))]
  \o [k \in 1..Longs(Len(m.data)) |->
        LET i == n * FillStep + (k - 1) * LongStep
        IN Frame("LONG", r, m, send, i, Chunk(m.data, i, LongStep))]
  \o <<Frame("PROCESS", r, m, send, 0, <<>>)>>

Frames(r, m, send) ==
  IF Len(m.data) <= ShortMax
  THEN <<Frame("SHORT", r, m, send, 0, m.data)>>
  ELSE LongFrames(r, m, send)

-----------------------------------------------------------------------------
(* The bus.                                                                *)

(* The ring of received frames, as module RxRing implements it.            *)
Ring == INSTANCE LossyFifo
  WITH Item <- {}, Capacity <- RxFrames, queue <- frames, got <- rxmsg,
       ok <- TRUE, tears <- FALSE

(* Another controller calls comm_can_send_buffer, on its own (a request)   *)
(* or to answer a forwarded request.                                       *)
SendBuffer(r, m, send) ==
  /\ out[r] = <<>> /\ messages < MaxMessages
  /\ messages' = messages + 1
  /\ send => r \in forwarded
  /\ forwarded' = IF send THEN forwarded \ {r} ELSE forwarded
  /\ out' = [out EXCEPT ![r] = Frames(r, m, send)]
  /\ whole' = [whole EXCEPT ![r] = TRUE]
  /\ UNCHANGED <<send_func, send_buffer, rx_buffer_last_id, detect_event, place, command,
                 route, tx, requests, asker, intact, sent,
                 frames, rxmsg, rx_buffer, stat_msgs, driven, lost, verdict>>

(* A single frame: cancom_status_thread's CAN_PACKET_STATUS, which carries *)
(* the sender's own id, or one of comm_can_set_duty, _current,             *)
(* _current_brake, _rpm, _pos.                                             *)
SendSingle(r, cmd, to) ==
  /\ out[r] = <<>> /\ messages < MaxMessages
  /\ messages' = messages + 1
  /\ out' = [out EXCEPT ![r] = <<[Frame(cmd, r, None, FALSE, 0, <<>>) EXCEPT !.to = to]>>]
  /\ UNCHANGED <<rvars, frames, rxmsg, rx_buffer, stat_msgs, driven, lost, whole, verdict>>

(* History: frame f in the ring disturbs the message that r is sending.    *)
Disturbs(f, r) == r # f.from /\ f.cmd \in {"FILL", "LONG"}

(* comm_can_transmit of the next frame, received by cancom_read_thread,    *)
(* which may overrun the ring.                                             *)
Transmit(r) ==
  /\ out[r] # <<>>
  /\ \E room \in BOOLEAN :
       LET f == [Head(out[r]) EXCEPT !.whole = whole[r] /\ room] IN
       /\ Ring!Enqueue(f) /\ UNCHANGED rxmsg
       /\ room = (Len(frames') = Len(frames) + 1)
       /\ whole' = [q \in Remote |-> whole[q] /\ room /\ ~Disturbs(f, q)]
  /\ out' = [out EXCEPT ![r] = Tail(@)]
  /\ UNCHANGED <<rvars, rx_buffer, stat_msgs, driven, messages, lost, verdict>>

(* canTransmit gives up after 20 ms and nobody looks at its result.        *)
TransmitTimesOut(r) ==
  /\ out[r] # <<>> /\ lost < MaxLost
  /\ lost' = lost + 1
  /\ whole' = [whole EXCEPT ![r] = FALSE]
  /\ out' = [out EXCEPT ![r] = Tail(@)]
  /\ UNCHANGED <<rvars, frames, rxmsg, rx_buffer, stat_msgs, driven, messages, verdict>>

-----------------------------------------------------------------------------
(* cancom_process_thread takes a frame ...                                 *)
Receive(cmds, to) ==
  /\ place[CAN] = "idle"
  /\ Ring!Dequeue
  /\ rxmsg'.cmd \in cmds /\ rxmsg'.to \in to

Mine == {"me", "all"}

(* ... that only concerns others, or an unknown one.                       *)
Ignore ==
  /\ Receive({"SET"}, {"other"})
  /\ UNCHANGED <<rvars, bvars>>

(* CAN_PACKET_SET_*: the setter of mc_interface.c and timeout_reset.       *)
SetFrame ==
  /\ Receive({"SET"}, Mine)
  /\ driven' = TRUE
  /\ UNCHANGED <<rvars, rx_buffer, stat_msgs, out, messages, lost, whole, verdict>>

(* memcpy(rx_buffer + at, data, Len(data)).                                *)
MutantCopyIn(at, data) ==
  LET span == at..(at + LongStep - 1)
  IN [i \in DOMAIN rx_buffer \cup span |->
        IF i \in span /\ i - at < Len(data) THEN data[i - at + 1]
        ELSE IF i \in DOMAIN rx_buffer THEN rx_buffer[i] ELSE 0]

CopyIn(at, data) ==
  LET span == at..(at + Len(data) - 1)
  IN [i \in DOMAIN rx_buffer \cup span |->
        IF i \in span THEN data[i - at + 1] ELSE rx_buffer[i]]

(* CAN_PACKET_FILL_RX_BUFFER and _LONG, the latter only below the size.    *)
FillFrame ==
  /\ Receive({"FILL", "LONG"}, Mine)
  /\ rx_buffer' = IF rxmsg'.cmd = "LONG" /\ rxmsg'.off >= RxBufferSize
                  THEN rx_buffer ELSE CopyIn(rxmsg'.off, rxmsg'.data)
  /\ UNCHANGED <<rvars, stat_msgs, driven, out, messages, lost, whole, verdict>>

(* History: a message of r sets rx_buffer_last_id; replies that are still  *)
(* to go to another controller are disturbed.                              *)
Retarget(r) ==
  /\ intact' = [e \in Exchange |-> intact[e] /\ asker[e] \notin Remote \ {r}]
  /\ UNCHANGED asker

(* History: so does one that is the answer to a forwarded request, which   *)
(* the CAN thread carries on.                                              *)
Answer(r) ==
  LET was(e) == IF e = CAN THEN RELAY ELSE e
  IN /\ intact' = [e \in Exchange |-> intact[was(e)] /\ asker[was(e)] \notin Remote \ {r}]
     /\ asker' = [asker EXCEPT ![CAN] = asker[RELAY]]

(* The rest of PROCESS_RX_BUFFER and PROCESS_SHORT_BUFFER: pass the        *)
(* packet on to the sender of the last request, or process it and let      *)
(* replies go to where it came from.                                       *)
PassOn ==
  /\ rx_buffer_last_id' = rxmsg'.from
  /\ IF rxmsg'.send
     THEN /\ place' = [place EXCEPT ![CAN] = "send"]
          /\ command' = [command EXCEPT ![CAN] = "relay"]
          /\ Answer(rxmsg'.from)
          /\ UNCHANGED send_func
     ELSE /\ place' = [place EXCEPT ![CAN] = "process"]
          /\ send_func' = CAN
          /\ command' = [command EXCEPT ![CAN] = rxmsg'.msg.cmd]
          /\ Begin(CAN, rxmsg'.from)
  /\ UNCHANGED <<send_buffer, detect_event, route, tx, forwarded, requests, sent>>

ShortFrame ==
  /\ Receive({"SHORT"}, Mine)
  /\ PassOn
  /\ UNCHANGED bvars

Buffered(n) == [i \in 1..n |-> rx_buffer[i - 1]]

ProcessFrame ==
  /\ Receive({"PROCESS"}, Mine)
  /\ LET m == rxmsg'.msg
         n == Len(m.data)
         fits == n <= RxBufferSize /\ crc16(Buffered(n)) = crc16(m.data)
     IN /\ verdict' = [whole |-> rxmsg'.whole, accepted |-> fits,
                       right |-> fits /\ Buffered(n) = m.data]
        /\ \/ fits /\ PassOn
           \/ /\ ~fits
              /\ rx_buffer_last_id' = rxmsg'.from
              /\ Retarget(rxmsg'.from)
              /\ UNCHANGED <<send_func, send_buffer, detect_event, place, command,
                             route, tx, forwarded, requests, sent>>
  /\ UNCHANGED <<rx_buffer, stat_msgs, driven, out, messages, lost, whole>>

MutantStatusSlot(id) ==
  {i \in 1..StatusSlots : stat_msgs[i] = None /\ \A j \in 1..(i - 1) : stat_msgs[j] # None}

(* CAN_PACKET_STATUS: the first slot with this id or a free one, if any.   *)
StatusSlot(id) ==
  {i \in 1..StatusSlots :
     /\ stat_msgs[i] \in {id, None}
     /\ \A j \in 1..(i - 1) : stat_msgs[j] \notin {id, None}}

StatusFrame ==
  /\ Receive({"STATUS"}, Address)
  /\ stat_msgs' = [i \in 1..StatusSlots |->
                     IF i \in StatusSlot(rxmsg'.from) THEN rxmsg'.from ELSE stat_msgs[i]]
  /\ UNCHANGED <<rvars, rx_buffer, driven, out, messages, lost, whole, verdict>>

-----------------------------------------------------------------------------
InitCan ==
  /\ InitCommands
  /\ frames = <<>> /\ rxmsg = Frame("SET", None, None, FALSE, 0, <<>>)
  /\ rx_buffer = [i \in 0..(RxBufferSize - 1) |-> 0]
  /\ stat_msgs = [i \in 1..StatusSlots |-> None]
  /\ driven = FALSE
  /\ out = [r \in Remote |-> <<>>] /\ messages = 0 /\ lost = 0
  /\ whole = [r \in Remote |-> FALSE]
  /\ verdict = [whole |-> FALSE, accepted |-> FALSE, right |-> FALSE]

CanNext ==
  \/ CommandsStep /\ UNCHANGED <<frames, rxmsg, bvars>>
  \/ \E r \in Remote :
       \/ \E m \in Message, send \in BOOLEAN : SendBuffer(r, m, send)
       \/ \E to \in Address : SendSingle(r, "SET", to)
       \/ SendSingle(r, "STATUS", "other")
       \/ Transmit(r) \/ TransmitTimesOut(r)
  \/ Ignore \/ SetFrame \/ FillFrame \/ ShortFrame \/ ProcessFrame \/ StatusFrame

CanSpec == InitCan /\ [][CanNext]_canvars

-----------------------------------------------------------------------------
(* Properties.                                                             *)

(* rx_buffer is never written outside (its index set stays the same).      *)
CanTypeOK ==
  /\ DOMAIN rx_buffer = 0..(RxBufferSize - 1)
  /\ Len(frames) <= RxFrames
  /\ send_func \in Port \cup {CAN, None}
  /\ place \in [Thread -> {"idle", "process", "fill", "send", "lock", "copy", "crc"}]

(* A long message that met no loss, no overrun and no fragment of another  *)
(* message is processed with the content it was sent with: the fragments   *)
(* tile it, whatever was in rx_buffer before.                              *)
WholeMessageArrives == verdict.whole => verdict.accepted /\ verdict.right

(* A controller has one slot of the status table.                          *)
OneStatusSlot ==
  \A i, j \in 1..StatusSlots : stat_msgs[i] = stat_msgs[j] /\ stat_msgs[i] # None => i = j
=============================================================================
