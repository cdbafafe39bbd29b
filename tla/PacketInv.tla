----------------------------- MODULE PacketInv -----------------------------
(***************************************************************************)
(* The inductive invariant behind the properties of module Packet: what    *)
(* the state of the parser says about the bytes it was fed.                *)
(***************************************************************************)
EXTENDS Packet

(* The parser, in state s, has been fed the bytes f of one frame and x     *)
(* bytes it has not yet dealt with.                                        *)
Tracks(s, f, x) ==
  /\ s = 1 => Len(f) = 1 + x /\ f[1] = 3 /\ rx_data_ptr = 0
  /\ s = 2 =>
       /\ rx_data_ptr = 0
       /\ \/ Len(f) = 1 + x /\ f[1] = 2 /\ payload_length = 0
          \/ Len(f) = 2 + x /\ f[1] = 3 /\ payload_length = f[2] * Base
  /\ s \in 3..6 =>
       /\ f[1] \in {2, 3} /\ HeaderHolds(f, payload_length)
       /\ payload_length <= MaxPlLen
       /\ IF s = 3 THEN rx_data_ptr < payload_length
                   ELSE rx_data_ptr = payload_length
       /\ Len(f) = HeaderLen(f) + rx_data_ptr + (IF s < 5 THEN 0 ELSE s - 4) + x
       /\ \A i \in 1..rx_data_ptr : f[HeaderLen(f) + i] = rx_buffer[i]
  /\ s \in 5..6 => f[HeaderLen(f) + payload_length + 1] = crc_high
  /\ s = 6 => f[HeaderLen(f) + payload_length + 2] = crc_low

FedInv ==
  ~raced =>
    /\ Quiet => Tracks(rx_state, fed, 0)
    /\ ~Quiet =>
         /\ rx_state = parser.st \/ parser.st = 6
         /\ fed # <<>> /\ fed[Len(fed)] = parser.byte
         /\ parser.st = 0 => Len(fed) = 1
         /\ Tracks(parser.st, fed, 1)

(* The same without raced: rx_state++ finds what the switch found, or what *)
(* the timer left.                                                         *)
StateInv == ~Quiet => rx_state \in {0, parser.st}

(* The frame F, of which f has been fed and w is on the line.              *)
Splits(F, f, w) ==
  /\ Len(F) = Len(f) + Len(w)
  /\ \A i \in 1..Len(f) : f[i] = F[i]
  /\ \A i \in 1..Len(w) : w[i] = F[Len(f) + i]

(* The undisturbed packet is still on the line, or partly parsed, or has   *)
(* arrived.                                                                *)
Untouched == wire = Frame(expect) /\ Quiet /\ rx_state = 0
Parsing ==
  /\ ~raced /\ Splits(Frame(expect), fed, wire)
  /\ IF Quiet THEN rx_state # 0 ELSE rx_state = parser.st
Arrived == wire = <<>> /\ Quiet /\ rx_state = 0 /\ last = expect

ExpectInv ==
  expect # None =>
    /\ expect \in Payloads /\ Len(expect) <= MaxPlLen
    /\ Len(expect) \notin {0, Base} => Untouched \/ Parsing \/ Arrived

ParserInv == TypeOK /\ StateInv /\ FedInv /\ OnlyWholeFrames
=============================================================================
