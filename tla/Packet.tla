------------------------------- MODULE Packet -------------------------------
(***************************************************************************)
(* Packet framing, packet.c: packet_send_packet on one end of a serial     *)
(* line and packet_process_byte on the other.  A packet thread feeds      *)
(* received bytes to the parser while the timer thread of main.c calls     *)
(* packet_timerfunc every millisecond.  Both have the same priority and    *)
(* share rx_state and rx_timeout without a lock: what the parser does with *)
(* a byte is a read of rx_state (the switch) and, later, its effects, in   *)
(* which rx_state++ reads rx_state again and writes it.                    *)
(***************************************************************************)
EXTENDS Naturals, Sequences

CONSTANTS
  Base,        \* values of a byte (256)
  MaxPlLen,    \* PACKET_MAX_PL_LEN
  RxTimeout,   \* PACKET_RX_TIMEOUT
  Payloads,    \* what is sent
  crc16(_),    \* crc.c
  None,        \* no payload
  MaxPackets,  \* bound on packets sent
  MaxNoise     \* bound on bytes the line loses or changes

Byte == 0..(Base - 1)

ASSUME PacketAssumption ==
  /\ Base \in Nat /\ Base > 3
  /\ MaxPlLen \in Nat \ {0} /\ MaxPlLen < Base * Base
  /\ RxTimeout \in Nat \ {0}
  /\ Payloads \subseteq Seq(Byte)
  /\ \A p \in Payloads : crc16(p) \in 0..(Base * Base - 1)
  /\ None \notin Seq(Byte)
  /\ MaxPackets \in Nat /\ MaxNoise \in Nat

VARIABLES
  wire,            \* bytes sent and not yet parsed
  rx_state, rx_timeout, payload_length, rx_buffer, rx_data_ptr,
  crc_high, crc_low,
  parser,          \* packet_process_byte: its step, its byte, the case it took
  timer,           \* packet_timerfunc: its step, the value it read
  raced,           \* history: the timer reset rx_state inside the parser,
                   \* which has not been in state 0 since
  fed,             \* history: bytes parsed since state 0, unless raced
  last, lastframe, \* history: the last payload processed, and those bytes
  expect,          \* history: sent to an idle parser and not disturbed since
  packets, noise

rx == <<payload_length, rx_buffer, rx_data_ptr, crc_high, crc_low>>
history == <<raced, fed, last, lastframe, expect>>
bounds == <<packets, noise>>
vars == <<wire, rx_state, rx_timeout, rx, parser, timer, history, bounds>>

Waiting == [pc |-> "wait", byte |-> 0, st |-> 0]
Quiet == parser.pc = "wait"

-----------------------------------------------------------------------------
(* packet_send_packet.                                                     *)

(* len <= 256 goes into one byte.                                          *)
Header(len) ==
  IF len <= Base THEN <<2, len % Base>>
                 ELSE <<3, len \div Base, len % Base>>

Trailer(p) == <<crc16(p) \div Base, crc16(p) % Base, 3>>

Frame(p) == Header(Len(p)) \o p \o Trailer(p)

packet_send_packet(p) ==
  /\ packets < MaxPackets
  /\ packets' = packets + 1
  /\ Len(p) <= MaxPlLen
  /\ wire' = wire \o Frame(p)
  /\ expect' = IF wire = <<>> /\ Quiet /\ rx_state = 0 THEN p ELSE None
  /\ last' = None /\ lastframe' = <<>>
  /\ UNCHANGED <<rx_state, rx_timeout, rx, parser, timer, raced, fed, noise>>

(* The line loses a byte, or changes it.                                   *)
Noise ==
  /\ wire # <<>>
  /\ noise < MaxNoise /\ noise' = noise + 1
  /\ \/ wire' = Tail(wire)
     \/ wire' = <<(Head(wire) + 1) % Base>> \o Tail(wire)
  /\ expect' = None
  /\ UNCHANGED <<rx_state, rx_timeout, rx, parser, timer, raced, fed, last,
                 lastframe, packets>>

-----------------------------------------------------------------------------
(* packet_process_byte: the switch, then one action for each case.         *)

Dispatch ==
  /\ Quiet /\ wire # <<>>
  /\ parser' = [pc |-> "body", byte |-> Head(wire), st |-> rx_state]
  /\ wire' = Tail(wire)
  /\ raced' = (raced /\ rx_state # 0)
  /\ fed' = IF rx_state = 0 THEN <<Head(wire)>>
            ELSE IF raced THEN <<>> ELSE Append(fed, Head(wire))
  /\ UNCHANGED <<rx_state, rx_timeout, rx, timer, last, lastframe, expect,
                 bounds>>

In(s) == parser.pc = "body" /\ parser.st = s
Done == parser' = Waiting

(* rx_state += n on a volatile reads it again, after a reset or not; a     *)
(* reset between this read and the write is lost.                          *)
Bump(n) ==
  \/ rx_state' = rx_state + n
  \/ n > 0 /\ rx_state' = parser.st + n

(* A case that goes on to the next state and waits for the next byte.      *)
Advance(n) ==
  /\ Bump(n)
  /\ rx_timeout' = RxTimeout
  /\ Done
  /\ UNCHANGED <<wire, timer, history, bounds>>

Abandon ==
  /\ rx_state' = 0
  /\ Done
  /\ UNCHANGED <<wire, rx_timeout, rx, timer, history, bounds>>

MutantStartByte ==
  /\ In(0)
  /\ \/ /\ parser.byte \in {2, 3}
        /\ payload_length' = 0
        /\ UNCHANGED <<rx_buffer, rx_data_ptr, crc_high, crc_low>>
        /\ Advance(IF parser.byte = 2 THEN 2 ELSE 1)
     \/ parser.byte \notin {2, 3} /\ Abandon

StartByte ==
  /\ In(0)
  /\ \/ /\ parser.byte \in {2, 3}
        /\ rx_data_ptr' = 0 /\ payload_length' = 0
        /\ UNCHANGED <<rx_buffer, crc_high, crc_low>>
        /\ Advance(IF parser.byte = 2 THEN 2 ELSE 1)
     \/ parser.byte \notin {2, 3} /\ Abandon

LengthHigh ==
  /\ In(1)
  /\ payload_length' = parser.byte * Base
  /\ UNCHANGED <<rx_buffer, rx_data_ptr, crc_high, crc_low>>
  /\ Advance(1)

MutantLengthLow ==
  /\ In(2)
  /\ LET len == payload_length + parser.byte IN
     /\ payload_length' = len
     /\ UNCHANGED <<wire, rx_buffer, rx_data_ptr, crc_high, crc_low, timer,
                    history, bounds>>
     /\ \/ /\ 0 < len /\ len < MaxPlLen
           /\ Bump(1)
           /\ rx_timeout' = RxTimeout
        \/ /\ ~(0 < len /\ len < MaxPlLen)
           /\ rx_state' = 0
           /\ UNCHANGED rx_timeout
     /\ Done

(* The low byte of payload_length is zero here, so that |= adds.           *)
LengthLow ==
  /\ In(2)
  /\ LET len == payload_length + parser.byte IN
     /\ payload_length' = len
     /\ UNCHANGED <<wire, rx_buffer, rx_data_ptr, crc_high, crc_low, timer,
                    history, bounds>>
     /\ \/ /\ 0 < len /\ len <= MaxPlLen
           /\ Bump(1)
           /\ rx_timeout' = RxTimeout
        \/ /\ ~(0 < len /\ len <= MaxPlLen)
           /\ rx_state' = 0
           /\ UNCHANGED rx_timeout
     /\ Done

(* What a write past rx_buffer does is not modelled; that it happens is.   *)
PayloadByte ==
  /\ In(3)
  /\ rx_buffer' = [i \in 1..MaxPlLen |->
       IF i = rx_data_ptr + 1 THEN parser.byte ELSE rx_buffer[i]]
  /\ rx_data_ptr' = rx_data_ptr + 1
  /\ UNCHANGED <<payload_length, crc_high, crc_low>>
  /\ Advance(IF rx_data_ptr + 1 = payload_length THEN 1 ELSE 0)

CrcHigh ==
  /\ In(4)
  /\ crc_high' = parser.byte
  /\ UNCHANGED <<payload_length, rx_buffer, rx_data_ptr, crc_low>>
  /\ Advance(1)

CrcLow ==
  /\ In(5)
  /\ crc_low' = parser.byte
  /\ UNCHANGED <<payload_length, rx_buffer, rx_data_ptr, crc_high>>
  /\ Advance(1)

Payload == SubSeq(rx_buffer, 1, payload_length)

(* process_func gets the payload ...                                       *)
Process ==
  /\ last' = Payload /\ lastframe' = IF raced THEN <<>> ELSE fed
  /\ UNCHANGED <<raced, fed, expect>>

MutantEndByte ==
  /\ In(6)
  /\ \/ parser.byte = 3 /\ Process
     \/ parser.byte # 3 /\ UNCHANGED history
  /\ rx_state' = 0
  /\ Done
  /\ UNCHANGED <<wire, rx_timeout, rx, timer, bounds>>

(* ... if end byte and CRC are right.                                      *)
EndByte ==
  /\ In(6)
  /\ LET ok == parser.byte = 3 /\ crc16(Payload) = crc_high * Base + crc_low
     IN \/ ok /\ Process
        \/ ~ok /\ UNCHANGED history
  /\ rx_state' = 0
  /\ Done
  /\ UNCHANGED <<wire, rx_timeout, rx, timer, bounds>>

-----------------------------------------------------------------------------
(* packet_timerfunc.                                                       *)

(* rx_timeout-- reads and writes.  Its read is one with the test before    *)
(* it: in between, the parser can only make rx_timeout larger.             *)
MutantTimerCheck ==
  /\ timer.pc = "check"
  /\ timer' = [pc |-> "store", val |-> rx_timeout]
  /\ UNCHANGED <<wire, rx_state, rx_timeout, rx, parser, history, bounds>>

TimerCheck ==
  /\ timer.pc = "check"
  /\ timer' = IF rx_timeout > 0 THEN [pc |-> "store", val |-> rx_timeout]
                                ELSE [timer EXCEPT !.pc = "reset"]
  /\ UNCHANGED <<wire, rx_state, rx_timeout, rx, parser, history, bounds>>

TimerStore ==
  /\ timer.pc = "store"
  /\ rx_timeout' = timer.val - 1
  /\ timer' = [pc |-> "check", val |-> 0]
  /\ UNCHANGED <<wire, rx_state, rx, parser, history, bounds>>

MutantTimerReset ==
  /\ timer.pc = "reset"
  /\ rx_state' = IF rx_state = 3 THEN 3 ELSE 0
  /\ timer' = [pc |-> "check", val |-> 0]
  /\ raced' = (raced \/ (parser.pc = "body" /\ parser.st \in 1..5))
  /\ expect' = IF rx_state = 0 THEN expect ELSE None
  /\ UNCHANGED <<wire, rx_timeout, rx, parser, fed, last, lastframe, bounds>>

TimerReset ==
  /\ timer.pc = "reset"
  /\ rx_state' = 0
  /\ timer' = [pc |-> "check", val |-> 0]
  /\ raced' = (raced \/ (parser.pc = "body" /\ parser.st \in 1..5))
  /\ expect' = IF rx_state = 0 THEN expect ELSE None
  /\ UNCHANGED <<wire, rx_timeout, rx, parser, fed, last, lastframe, bounds>>

-----------------------------------------------------------------------------
Init ==
  /\ wire = <<>>
  /\ rx_state = 0 /\ rx_timeout = 0
  /\ payload_length = 0 /\ rx_data_ptr = 0
  /\ rx_buffer = [i \in 1..MaxPlLen |-> 0]
  /\ crc_high = 0 /\ crc_low = 0
  /\ parser = Waiting
  /\ timer = [pc |-> "check", val |-> 0]
  /\ raced = FALSE /\ fed = <<>>
  /\ last = None /\ lastframe = <<>> /\ expect = None
  /\ packets = 0 /\ noise = 0

packet_process_byte ==
  \/ Dispatch
  \/ StartByte \/ LengthHigh \/ LengthLow \/ PayloadByte
  \/ CrcHigh \/ CrcLow \/ EndByte

packet_timerfunc == TimerCheck \/ TimerStore \/ TimerReset

Next ==
  \/ \E p \in Payloads : packet_send_packet(p)
  \/ Noise
  \/ packet_process_byte
  \/ packet_timerfunc

(* The two threads run; nobody must send.                                  *)
Spec == Init /\ [][Next]_vars /\ WF_vars(packet_process_byte) /\ WF_vars(packet_timerfunc)

-----------------------------------------------------------------------------
(* Properties.                                                             *)

(* Types.  rx_state has no value the switch lacks, rx_timeout never runs   *)
(* below zero.                                                             *)
TypeOK ==
  /\ wire \in Seq(Byte)
  /\ rx_state \in 0..6 /\ rx_timeout \in 0..RxTimeout
  /\ payload_length \in Nat /\ rx_data_ptr \in Nat
  /\ rx_buffer \in [1..MaxPlLen -> Byte]
  /\ crc_high \in Byte /\ crc_low \in Byte
  /\ parser \in [pc : {"wait", "body"}, byte : Byte, st : 0..6]
  /\ timer \in [pc : {"check", "store", "reset"}, val : 0..RxTimeout]
  /\ timer.pc = "store" => timer.val > 0
  /\ raced \in BOOLEAN /\ fed \in Seq(Byte)
  /\ packets \in 0..MaxPackets /\ noise \in 0..MaxNoise

(* A payload byte goes into the part of rx_buffer that payload_length      *)
(* speaks of, whatever was lost or timed out before, unless the timer      *)
(* reset rx_state while the parser was between its switch and rx_state++   *)
(* in this same packet.                                                    *)
PayloadFits ==
  ~raced /\ In(3) => rx_data_ptr < payload_length /\ payload_length <= MaxPlLen

(* f is p framed: its header of two or three bytes, its bytes, its CRC.    *)
HeaderLen(f) == IF f[1] = 2 THEN 2 ELSE 3
HeaderHolds(f, n) ==
  \/ f[1] = 2 /\ f[2] = n
  \/ f[1] = 3 /\ f[2] * Base + f[3] = n
Frames(f, p) ==
  LET k == HeaderLen(f)
      n == Len(p)
  IN /\ Len(f) = k + n + 3
     /\ HeaderHolds(f, n)
     /\ \A i \in 1..n : f[k + i] = p[i]
     /\ f[k + n + 1] * Base + f[k + n + 2] = crc16(p)
     /\ f[k + n + 3] = 3

(* What process_func gets was on the line as one whole frame with its      *)
(* CRC: no byte of another packet, of noise or of a packet that timed out  *)
(* gets into it, unless the timer reset rx_state inside the parser since   *)
(* the packet's first byte.                                                *)
OnlyWholeFrames == last # None /\ lastframe # <<>> => Frames(lastframe, last)

(* A packet sent to an idle parser arrives when the line disturbs none of  *)
(* its bytes and no timeout falls into it.  The parser accepts no length   *)
(* of 0, which is what it gets of an empty payload and also of one of      *)
(* exactly 256 bytes.                                                      *)
CleanPacketArrives ==
  expect # None /\ Len(expect) \notin {0, Base} /\ wire = <<>> /\ Quiet => last = expect

(* On a silent line the parser gets back to its first state for good,      *)
(* whatever it has been left with.                                         *)
SilenceResyncs == <>[](wire = <<>>) => <>[](rx_state = 0)
=============================================================================
