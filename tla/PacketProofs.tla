---------------------------- MODULE PacketProofs ----------------------------
(***************************************************************************)
(* Proofs about module Packet: what the parser writes stays in rx_buffer   *)
(* and what it processes was framed, for every byte width, buffer size,    *)
(* timeout, CRC and set of payloads.                                       *)
(***************************************************************************)
EXTENDS PacketInv, TLAPS

(* The numbers among the constants.                                        *)
LEMMA ConstFacts ==
  /\ Base \in Nat /\ Base > 3
  /\ MaxPlLen \in Nat /\ RxTimeout \in Nat /\ RxTimeout > 0
  /\ MaxPackets \in Nat /\ MaxNoise \in Nat
BY PacketAssumption

(* The high byte of a two-byte number fits a byte.                         *)
LEMMA HighByte ==
  ASSUME NEW n \in Nat, n < Base * Base
  PROVE  n \div Base \in Byte /\ n % Base \in Byte
<1>1. Base \in Nat /\ Base > 3
  BY PacketAssumption
<1> DEFINE q == n \div Base
<1>2. q \in Nat /\ n % Base \in Byte /\ n = (Base * q) + (n % Base)
  BY <1>1 DEF Byte
<1>3. q < Base
  <2>1. SUFFICES ASSUME q >= Base PROVE FALSE
    BY <1>1, <1>2
  <2> DEFINE r == q - Base
  <2>2. r \in Nat /\ q = Base + r
    BY <2>1, <1>1, <1>2
  <2>3. Base * q = Base * Base + Base * r /\ Base * r \in Nat
    BY <2>2, <1>1
  <2> QED BY <2>3, <1>2, <1>1 DEF Byte
<1> QED BY <1>2, <1>3, <1>1 DEF Byte

(* packet_send_packet puts bytes on the line, for every length it accepts. *)
LEMMA FrameType ==
  ASSUME NEW p \in Payloads, Len(p) <= MaxPlLen
  PROVE  Frame(p) \in Seq(Byte)
<1>1. p \in Seq(Byte) /\ Len(p) \in Nat
  BY PacketAssumption
<1>2. Len(p) < Base * Base
  BY <1>1, PacketAssumption
<1>3. {2, 3} \subseteq Byte
  BY PacketAssumption DEF Byte
<1>4. Len(p) \div Base \in Byte /\ Len(p) % Base \in Byte
  BY <1>1, <1>2, HighByte
<1>5. crc16(p) \div Base \in Byte /\ crc16(p) % Base \in Byte
  <2>1. crc16(p) \in 0..(Base * Base - 1) /\ Base * Base \in Nat
    BY PacketAssumption
  <2>2. crc16(p) \in Nat /\ crc16(p) < Base * Base
    BY <2>1
  <2> QED BY <2>2, HighByte
<1>6. Header(Len(p)) \in Seq(Byte) /\ Trailer(p) \in Seq(Byte)
  BY <1>3, <1>4, <1>5 DEF Header, Trailer
<1> QED BY <1>1, <1>6 DEF Frame

(* A silent line and a parser at rest satisfy the invariant.               *)
LEMMA InitInv == Init => ParserInv
<1> SUFFICES ASSUME Init PROVE ParserInv
  OBVIOUS
<1>1. 0 \in Byte
  BY PacketAssumption DEF Byte
<1>2. TypeOK
  <2>1. <<>> \in Seq(Byte) /\ rx_buffer \in [1..MaxPlLen -> Byte]
    BY <1>1 DEF Init
  <2>2. parser \in [pc : {"wait", "body"}, byte : Byte, st : 0..6]
    BY <1>1 DEF Init, Waiting
  <2>3. timer \in [pc : {"check", "store", "reset"}, val : 0..RxTimeout]
    BY PacketAssumption DEF Init
  <2>4. timer.pc # "store"
    BY DEF Init
  <2>5. /\ rx_state \in 0..6 /\ rx_timeout \in 0..RxTimeout
        /\ payload_length \in Nat /\ rx_data_ptr \in Nat
        /\ packets \in 0..MaxPackets /\ noise \in 0..MaxNoise
        /\ crc_high \in Byte /\ crc_low \in Byte
    BY <1>1, ConstFacts DEF Init
  <2>6. wire \in Seq(Byte) /\ fed \in Seq(Byte) /\ raced \in BOOLEAN
    BY <2>1 DEF Init
  <2> QED BY <2>1, <2>2, <2>3, <2>4, <2>5, <2>6 DEF TypeOK
<1>3. StateInv /\ FedInv
  BY DEF Init, StateInv, FedInv, Quiet, Waiting, Tracks
<1>4. OnlyWholeFrames
  BY DEF Init, OnlyWholeFrames
<1> QED BY <1>2, <1>3, <1>4 DEF ParserInv

-----------------------------------------------------------------------------
(* A parser that waits holds no byte.                                      *)
LEMMA WaitingType ==
  Waiting \in [pc : {"wait", "body"}, byte : Byte, st : 0..6]
BY PacketAssumption DEF Waiting, Byte

(* rx_state++, reading what the switch read or what the timer left, gives  *)
(* a state of the parser.                                                  *)
LEMMA AdvanceType ==
  ASSUME TypeOK, StateInv, parser.pc = "body",
         NEW n \in 0..2, parser.st + n <= 6, Advance(n),
         payload_length' \in Nat, rx_data_ptr' \in Nat,
         rx_buffer' \in [1..MaxPlLen -> Byte],
         crc_high' \in Byte, crc_low' \in Byte
  PROVE  TypeOK' /\ StateInv'
<1>1. rx_state' \in 0..6
  <2>1. rx_state \in {0, parser.st} /\ parser.st \in 0..6
    BY DEF StateInv, Quiet, TypeOK
  <2> QED BY <2>1 DEF Advance, Bump
<1>2. rx_timeout' \in 0..RxTimeout
  BY ConstFacts DEF Advance
<1>3. parser' = Waiting
  BY DEF Advance, Done
<1>4. UNCHANGED <<wire, timer, raced, fed, packets, noise>>
  BY DEF Advance, history, bounds
<1>5. TypeOK'
  BY <1>1, <1>2, <1>3, <1>4, WaitingType DEF TypeOK
<1>6. StateInv'
  BY <1>3 DEF StateInv, Quiet, Waiting
<1> QED BY <1>5, <1>6

(* Every step keeps the types, a race or not.                              *)
LEMMA TypeNext == TypeOK /\ StateInv /\ [Next]_vars => TypeOK' /\ StateInv'
<1> SUFFICES ASSUME TypeOK, StateInv, [Next]_vars
             PROVE  TypeOK' /\ StateInv'
  OBVIOUS
<1>1. ASSUME NEW p \in Payloads, packet_send_packet(p)
      PROVE  TypeOK' /\ StateInv'
  <2>1. wire' \in Seq(Byte)
    BY <1>1, FrameType DEF packet_send_packet, TypeOK
  <2>2. packets' \in 0..MaxPackets
    BY <1>1, ConstFacts DEF packet_send_packet, TypeOK
  <2>3. UNCHANGED <<rx_state, rx_timeout, rx, parser, timer, raced, fed, noise>>
    BY <1>1 DEF packet_send_packet
  <2> QED BY <2>1, <2>2, <2>3 DEF TypeOK, StateInv, Quiet, rx
<1>2. CASE Noise
  <2>1. wire' \in Seq(Byte)
    <3>1. Tail(wire) \in Seq(Byte) /\ Head(wire) \in Byte
      BY <1>2 DEF Noise, TypeOK
    <3>2. (Head(wire) + 1) % Base \in Byte
      BY <3>1, ConstFacts DEF Byte
    <3>3. <<(Head(wire) + 1) % Base>> \in Seq(Byte)
      BY <3>2
    <3>4. <<(Head(wire) + 1) % Base>> \o Tail(wire) \in Seq(Byte)
      BY <3>1, <3>3
    <3> QED BY <1>2, <3>1, <3>4 DEF Noise
  <2>2. noise' \in 0..MaxNoise
    BY <1>2, ConstFacts DEF Noise, TypeOK
  <2>3. UNCHANGED <<rx_state, rx_timeout, rx, parser, timer, raced, fed, packets>>
    BY <1>2 DEF Noise
  <2> QED BY <2>1, <2>2, <2>3 DEF TypeOK, StateInv, Quiet, rx
<1>3. CASE Dispatch
  <2>1. wire' \in Seq(Byte) /\ Head(wire) \in Byte
    BY <1>3 DEF Dispatch, TypeOK
  <2>2. fed' \in Seq(Byte)
    BY <1>3, <2>1 DEF Dispatch, TypeOK
  <2>3. parser' = [pc |-> "body", byte |-> Head(wire), st |-> rx_state]
    BY <1>3 DEF Dispatch
  <2>4. parser' \in [pc : {"wait", "body"}, byte : Byte, st : 0..6]
    BY <2>1, <2>3 DEF TypeOK
  <2>5. UNCHANGED <<rx_state, rx_timeout, rx, timer, packets, noise>>
    BY <1>3 DEF Dispatch, bounds
  <2>7. raced' \in BOOLEAN
    BY <1>3, Zenon DEF Dispatch
  <2>6. StateInv'
    BY <2>3, <2>5 DEF StateInv
  <2> QED BY <2>1, <2>2, <2>4, <2>5, <2>6, <2>7 DEF TypeOK, rx
<1>4. CASE Abandon
  <2>1. parser' = Waiting /\ rx_state' = 0
    BY <1>4 DEF Abandon, Done
  <2>2. UNCHANGED <<wire, rx_timeout, rx, timer, raced, fed, packets, noise>>
    BY <1>4 DEF Abandon, history, bounds
  <2> QED BY <2>1, <2>2, WaitingType DEF TypeOK, StateInv, Quiet, Waiting, rx
<1>5. CASE StartByte
  <2>1. CASE parser.byte \in {2, 3} /\ ~Abandon
    <3> DEFINE n == IF parser.byte = 2 THEN 2 ELSE 1
    <3>1. Advance(n) /\ parser.pc = "body" /\ parser.st = 0
      BY <1>5, <2>1 DEF StartByte, In
    <3>2. /\ rx_data_ptr' = 0 /\ payload_length' = 0
          /\ UNCHANGED <<rx_buffer, crc_high, crc_low>>
      BY <1>5, <2>1 DEF StartByte
    <3>3. n \in 0..2 /\ parser.st + n <= 6
      BY <3>1
    <3> HIDE DEF n
    <3> QED BY <3>1, <3>2, <3>3, AdvanceType DEF TypeOK
  <2> QED BY <1>4, <1>5, <2>1 DEF StartByte
<1>6. CASE LengthHigh
  <2>1. Advance(1) /\ parser.pc = "body" /\ parser.st = 1
    BY <1>6 DEF LengthHigh, In
  <2>2. /\ payload_length' = parser.byte * Base
        /\ UNCHANGED <<rx_buffer, rx_data_ptr, crc_high, crc_low>>
    BY <1>6 DEF LengthHigh
  <2>3. payload_length' \in Nat
    BY <2>2, ConstFacts DEF TypeOK, Byte
  <2> QED BY <2>1, <2>2, <2>3, AdvanceType DEF TypeOK
<1>7. CASE LengthLow
  <2>1. /\ parser.pc = "body" /\ parser.st = 2
        /\ payload_length' = payload_length + parser.byte
        /\ UNCHANGED <<wire, rx_buffer, rx_data_ptr, crc_high, crc_low, timer,
                       history, bounds>>
        /\ parser' = Waiting
    BY <1>7 DEF LengthLow, In, Done
  <2>2. payload_length' \in Nat
    BY <2>1 DEF TypeOK, Byte
  <2>3. \/ rx_state' \in {rx_state + 1, 3} /\ rx_timeout' = RxTimeout
        \/ rx_state' = 0 /\ rx_timeout' = rx_timeout
    BY <1>7, <2>1 DEF LengthLow, Bump
  <2>4. rx_state \in {0, 2}
    BY <2>1 DEF StateInv, Quiet
  <2>5. rx_state' \in 0..6 /\ rx_timeout' \in 0..RxTimeout
    BY <2>3, <2>4, ConstFacts DEF TypeOK
  <2> QED BY <2>1, <2>2, <2>5, WaitingType
          DEF TypeOK, StateInv, Quiet, Waiting, history, bounds
<1>8. CASE PayloadByte
  <2> DEFINE n == IF rx_data_ptr + 1 = payload_length THEN 1 ELSE 0
  <2>1. Advance(n) /\ parser.pc = "body" /\ parser.st = 3
    BY <1>8 DEF PayloadByte, In
  <2>2. /\ rx_data_ptr' = rx_data_ptr + 1
        /\ UNCHANGED <<payload_length, crc_high, crc_low>>
    BY <1>8 DEF PayloadByte
  <2>3. rx_buffer' \in [1..MaxPlLen -> Byte]
    <3>1. rx_buffer' = [i \in 1..MaxPlLen |->
            IF i = rx_data_ptr + 1 THEN parser.byte ELSE rx_buffer[i]]
      BY <1>8 DEF PayloadByte
    <3> QED BY <3>1 DEF TypeOK
  <2>4. n \in 0..2 /\ parser.st + n <= 6
    BY <2>1
  <2> HIDE DEF n
  <2> QED BY <2>1, <2>2, <2>3, <2>4, AdvanceType DEF TypeOK
<1>9. CASE CrcHigh \/ CrcLow
  <2>1. Advance(1) /\ parser.pc = "body" /\ parser.st \in {4, 5}
    BY <1>9 DEF CrcHigh, CrcLow, In
  <2>2. /\ UNCHANGED <<payload_length, rx_buffer, rx_data_ptr>>
        /\ crc_high' \in {crc_high, parser.byte}
        /\ crc_low' \in {crc_low, parser.byte}
    BY <1>9 DEF CrcHigh, CrcLow
  <2>3. crc_high' \in Byte /\ crc_low' \in Byte
    BY <2>2 DEF TypeOK
  <2> QED BY <2>1, <2>2, <2>3, AdvanceType DEF TypeOK
<1>10. CASE EndByte
  <2>1. /\ rx_state' = 0 /\ parser' = Waiting
        /\ UNCHANGED <<wire, rx_timeout, rx, timer, bounds>>
    BY <1>10 DEF EndByte, Done
  <2>2. UNCHANGED <<raced, fed>>
    BY <1>10 DEF EndByte, Process, history
  <2> QED BY <2>1, <2>2, WaitingType
          DEF TypeOK, StateInv, Quiet, Waiting, rx, bounds
<1>11. CASE TimerCheck
  <2>1. timer' \in [pc : {"check", "store", "reset"}, val : 0..RxTimeout]
    BY <1>11 DEF TimerCheck, TypeOK
  <2>2. timer'.pc = "store" => timer'.val > 0
    BY <1>11 DEF TimerCheck, TypeOK
  <2>3. UNCHANGED <<wire, rx_state, rx_timeout, rx, parser, raced, fed, packets, noise>>
    BY <1>11 DEF TimerCheck, history, bounds
  <2> QED BY <2>1, <2>2, <2>3 DEF TypeOK, StateInv, Quiet, rx
<1>12. CASE TimerStore \/ TimerReset
  <2>1. timer' = [pc |-> "check", val |-> 0]
    BY <1>12 DEF TimerStore, TimerReset
  <2>2. timer' \in [pc : {"check", "store", "reset"}, val : 0..RxTimeout]
    BY <2>1, ConstFacts
  <2>3. timer'.pc # "store"
    BY <2>1
  <2>4. rx_timeout' \in 0..RxTimeout
    BY <1>12, ConstFacts DEF TimerStore, TimerReset, TypeOK
  <2>5. rx_state' \in {0, rx_state}
    BY <1>12 DEF TimerStore, TimerReset
  <2>6. UNCHANGED <<wire, rx, parser, fed, packets, noise>>
    BY <1>12 DEF TimerStore, TimerReset, history, bounds
  <2>7. raced' \in BOOLEAN
    BY <1>12 DEF TimerStore, TimerReset, TypeOK, history
  <2>8. rx_state' \in 0..6 /\ StateInv'
    BY <2>5, <2>6 DEF TypeOK, StateInv, Quiet
  <2> QED BY <2>2, <2>3, <2>4, <2>6, <2>7, <2>8 DEF TypeOK, rx
<1>13. CASE UNCHANGED vars
  BY <1>13 DEF vars, TypeOK, StateInv, Quiet, rx, history, bounds
<1> QED
  BY <1>1, <1>2, <1>3, <1>5, <1>6, <1>7, <1>8, <1>9, <1>10, <1>11, <1>12, <1>13
     DEF Next, packet_process_byte, packet_timerfunc

(* rx_state, rx_timeout, rx_buffer and the bytes on the line keep their    *)
(* types whatever noise, timeouts and races there are.                     *)
THEOREM ParserTypes == Spec => []TypeOK
<1>1. TypeOK /\ StateInv /\ [Next]_vars => (TypeOK /\ StateInv)'
  BY TypeNext
<1> QED BY <1>1, InitInv, PTL DEF Spec, ParserInv

-----------------------------------------------------------------------------
(* The bytes fed to the parser.                                            *)

(* One more byte fed: the ones before it keep their places.                *)
LEMMA AppendFacts ==
  ASSUME NEW S, NEW f \in Seq(S), NEW b \in S, NEW g, g = Append(f, b)
  PROVE  /\ Len(g) = Len(f) + 1 /\ g # <<>>
         /\ g[Len(g)] = b
         /\ \A i \in 1..Len(f) : g[i] = f[i]
OBVIOUS

(* Feeding the next byte of a frame leaves what the state says of the      *)
(* earlier ones.                                                           *)
LEMMA TracksAppend ==
  ASSUME TypeOK, NEW s \in 0..6, NEW b \in Byte, NEW g, g = Append(fed, b),
         Tracks(s, fed, 0)
  PROVE  Tracks(s, g, 1)
<1>1. /\ Len(g) = Len(fed) + 1
      /\ \A i \in 1..Len(fed) : g[i] = fed[i]
  BY AppendFacts DEF TypeOK
<1>2. Len(fed) \in Nat /\ payload_length \in Nat /\ rx_data_ptr \in Nat
  BY DEF TypeOK
<1>3. s \in 1..6 => Len(fed) >= 1 /\ g[1] = fed[1]
  BY <1>1, <1>2 DEF Tracks, HeaderLen
<1>4. CASE s \in 0..2
  BY <1>1, <1>2, <1>3, <1>4 DEF Tracks
<1>5. CASE s \in 3..6
  <2> DEFINE k == HeaderLen(fed)
  <2>1. k \in {2, 3} /\ HeaderLen(g) = k
    BY <1>3, <1>5 DEF HeaderLen
  <2>2. /\ fed[1] \in {2, 3} /\ HeaderHolds(fed, payload_length)
        /\ payload_length <= MaxPlLen
        /\ IF s = 3 THEN rx_data_ptr < payload_length
                    ELSE rx_data_ptr = payload_length
        /\ Len(fed) = k + rx_data_ptr + (IF s < 5 THEN 0 ELSE s - 4)
        /\ \A i \in 1..rx_data_ptr : fed[k + i] = rx_buffer[i]
        /\ s \in 5..6 => fed[k + payload_length + 1] = crc_high
        /\ s = 6 => fed[k + payload_length + 2] = crc_low
    BY <1>2, <1>5 DEF Tracks, HeaderLen
  <2>3. Len(fed) >= k
    BY <1>2, <1>5, <2>1, <2>2
  <2>4. HeaderHolds(g, payload_length)
    BY <1>1, <1>2, <2>1, <2>2, <2>3 DEF HeaderHolds, HeaderLen
  <2>5. \A i \in 1..rx_data_ptr : g[k + i] = rx_buffer[i]
    <3> SUFFICES ASSUME NEW i \in 1..rx_data_ptr PROVE g[k + i] = rx_buffer[i]
      OBVIOUS
    <3>1. k + i \in 1..Len(fed)
      BY <1>2, <1>5, <2>1, <2>2
    <3> QED BY <1>1, <2>2, <3>1
  <2>6. s \in 5..6 => g[k + payload_length + 1] = crc_high
    BY <1>1, <1>2, <2>1, <2>2
  <2>7. s = 6 => g[k + payload_length + 2] = crc_low
    BY <1>1, <1>2, <2>1, <2>2
  <2>8. Len(g) = k + rx_data_ptr + (IF s < 5 THEN 0 ELSE s - 4) + 1
    BY <1>1, <1>2, <1>5, <2>1, <2>2
  <2>9. g[1] \in {2, 3} /\ s # 1 /\ s # 2
    BY <1>3, <1>5, <2>2
  <2> HIDE DEF k
  <2> QED
    BY <2>1, <2>2, <2>4, <2>5, <2>6, <2>7, <2>8, <2>9 DEF Tracks
<1> QED BY <1>4, <1>5

(* A step after which the parser waits has to establish Tracks alone.      *)
LEMMA FedWaiting ==
  ASSUME parser' = Waiting, fed' = fed, raced' = raced,
         UNCHANGED <<last, lastframe>>, OnlyWholeFrames,
         ~raced => Tracks(rx_state, fed, 0)'
  PROVE  FedInv' /\ OnlyWholeFrames'
BY DEF FedInv, OnlyWholeFrames, Quiet, Waiting

(* What holds inside the parser, in state s.                               *)
LEMMA FedInside ==
  ASSUME TypeOK, FedInv, ~raced, NEW s \in 0..5, In(s)
  PROVE  /\ rx_state = s /\ Tracks(s, fed, 1)
         /\ Len(fed) \in Nat /\ Len(fed) > 0
         /\ fed[Len(fed)] = parser.byte
         /\ s = 0 => Len(fed) = 1
<1>1. Len(fed) \in Nat /\ (fed # <<>> => Len(fed) > 0)
  BY DEF TypeOK
<1> QED BY <1>1 DEF FedInv, In, Quiet

(* The payload of a full buffer, as process_func gets it.                  *)
LEMMA PayloadIs ==
  ASSUME TypeOK, payload_length <= MaxPlLen
  PROVE  /\ Len(Payload) = payload_length
         /\ \A i \in 1..payload_length : Payload[i] = rx_buffer[i]
<1>1. MaxPlLen \in Nat /\ payload_length \in Nat
  BY ConstFacts DEF TypeOK
<1>2. rx_buffer \in Seq(Byte) /\ Len(rx_buffer) = MaxPlLen
  BY <1>1 DEF TypeOK
<1> QED BY <1>1, <1>2 DEF Payload

(* A frame whose end byte and CRC are right is what was fed.               *)
LEMMA EndFrames ==
  ASSUME TypeOK, Tracks(6, fed, 1), fed[Len(fed)] = 3,
         crc16(Payload) = crc_high * Base + crc_low
  PROVE  Frames(fed, Payload)
<1> DEFINE k == HeaderLen(fed)
<1>1. /\ fed[1] \in {2, 3} /\ HeaderHolds(fed, payload_length)
      /\ payload_length <= MaxPlLen /\ rx_data_ptr = payload_length
      /\ Len(fed) = k + rx_data_ptr + 2 + 1
      /\ \A i \in 1..rx_data_ptr : fed[k + i] = rx_buffer[i]
      /\ fed[k + payload_length + 1] = crc_high
      /\ fed[k + payload_length + 2] = crc_low
  BY DEF Tracks
<1>2. /\ Len(Payload) = payload_length
      /\ \A i \in 1..payload_length : Payload[i] = rx_buffer[i]
  BY <1>1, PayloadIs
<1>3. k \in Nat /\ payload_length \in Nat
  BY DEF HeaderLen, TypeOK
<1>4. Len(fed) = k + payload_length + 3
  BY <1>1, <1>3
<1> HIDE DEF k
<1>5. /\ \A i \in 1..payload_length : fed[k + i] = Payload[i]
      /\ fed[k + payload_length + 3] = 3
  BY <1>1, <1>2, <1>4
<1> QED BY <1>1, <1>2, <1>4, <1>5 DEF Frames, k

(* Every step keeps what the state says of the bytes fed, and a payload    *)
(* is processed only when they frame it.                                   *)
LEMMA FedNext == ParserInv /\ [Next]_vars => FedInv' /\ OnlyWholeFrames'
<1> SUFFICES ASSUME TypeOK, StateInv, FedInv, OnlyWholeFrames, [Next]_vars
             PROVE  FedInv' /\ OnlyWholeFrames'
  BY DEF ParserInv
<1>1. ASSUME NEW p \in Payloads, packet_send_packet(p)
      PROVE  FedInv' /\ OnlyWholeFrames'
  <2>1. UNCHANGED <<rx_state, rx, parser, raced, fed>> /\ last' = None
    BY <1>1 DEF packet_send_packet
  <2> QED BY <2>1 DEF FedInv, OnlyWholeFrames, Quiet, Tracks, rx
<1>2. CASE Noise
  <2>1. UNCHANGED <<rx_state, rx, parser, raced, fed, last, lastframe>>
    BY <1>2 DEF Noise
  <2> QED BY <2>1 DEF FedInv, OnlyWholeFrames, Quiet, Tracks, rx
<1>3. CASE Dispatch
  <2> DEFINE b == Head(wire)
  <2>1. /\ UNCHANGED <<rx_state, rx, last, lastframe>> /\ Quiet
        /\ parser' = [pc |-> "body", byte |-> b, st |-> rx_state]
        /\ b \in Byte
    BY <1>3 DEF Dispatch, TypeOK
  <2>2. OnlyWholeFrames'
    BY <2>1 DEF OnlyWholeFrames, Frames, HeaderLen, HeaderHolds
  <2>3. ASSUME rx_state = 0 PROVE FedInv'
    <3>1. fed' = <<b>>
      BY <1>3, <2>3 DEF Dispatch
    <3>2. Len(fed') = 1 /\ fed'[1] = b /\ fed' # <<>>
      BY <3>1
    <3>3. Tracks(0, fed, 1)'
      BY DEF Tracks
    <3> QED BY <2>1, <2>3, <3>2, <3>3 DEF FedInv, Quiet
  <2>4. ASSUME ~raced, rx_state # 0 PROVE FedInv'
    <3>1. fed' = Append(fed, b)
      BY <1>3, <2>4 DEF Dispatch
    <3>2. fed' # <<>> /\ fed'[Len(fed')] = b
      BY <2>1, <3>1, AppendFacts DEF TypeOK
    <3>3. Tracks(rx_state, fed', 1)
      BY <2>1, <2>4, <3>1, TracksAppend DEF FedInv, TypeOK
    <3>4. Tracks(rx_state, fed, 1)'
      BY <2>1, <3>3 DEF Tracks, rx
    <3> QED BY <2>1, <2>4, <3>2, <3>4 DEF FedInv, Quiet
  <2>5. ASSUME raced, rx_state # 0 PROVE FedInv'
    <3>1. raced'
      BY <1>3, <2>5, Zenon DEF Dispatch
    <3> QED BY <3>1 DEF FedInv
  <2> QED BY <2>2, <2>3, <2>4, <2>5
<1>4. CASE StartByte
  <2>1. /\ In(0) /\ parser' = Waiting
        /\ UNCHANGED <<fed, raced, last, lastframe>>
    BY <1>4 DEF StartByte, Advance, Abandon, Done, history
  <2>2. ASSUME ~raced PROVE Tracks(rx_state, fed, 0)'
    <3>1. /\ rx_state = 0 /\ parser.st = 0 /\ Len(fed) = 1
          /\ fed[Len(fed)] = parser.byte
      BY <2>1, <2>2 DEF FedInv, In, Quiet
    <3>2. \/ rx_state' = 0
          \/ /\ rx_data_ptr' = 0 /\ payload_length' = 0
             /\ \/ rx_state' = 2 /\ parser.byte = 2
                \/ rx_state' = 1 /\ parser.byte = 3
      BY <1>4, <3>1 DEF StartByte, Advance, Bump, Abandon
    <3> QED BY <2>1, <3>1, <3>2 DEF Tracks
  <2> QED BY <2>1, <2>2, FedWaiting
<1>5. CASE LengthHigh
  <2>1. /\ In(1) /\ parser' = Waiting
        /\ UNCHANGED <<fed, raced, last, lastframe>>
        /\ rx_state' \in {rx_state + 1, 2}
        /\ payload_length' = parser.byte * Base /\ rx_data_ptr' = rx_data_ptr
    BY <1>5 DEF LengthHigh, Advance, Bump, In, Done, history
  <2>2. ASSUME ~raced PROVE Tracks(rx_state, fed, 0)'
    <3>1. rx_state = 1 /\ Tracks(1, fed, 1) /\ fed[Len(fed)] = parser.byte
      BY <2>1, <2>2, FedInside
    <3>2. Len(fed) = 2 /\ fed[1] = 3 /\ rx_data_ptr = 0
      BY <3>1 DEF Tracks
    <3> QED BY <2>1, <3>1, <3>2 DEF Tracks
  <2> QED BY <2>1, <2>2, FedWaiting
<1>6. CASE LengthLow
  <2> DEFINE len == payload_length + parser.byte
  <2>1. /\ In(2) /\ parser' = Waiting
        /\ UNCHANGED <<fed, raced, last, lastframe, rx_data_ptr>>
        /\ payload_length' = len
        /\ \/ 0 < len /\ len <= MaxPlLen /\ rx_state' \in {rx_state + 1, 3}
           \/ rx_state' = 0
    BY <1>6 DEF LengthLow, Bump, In, Done, history
  <2>2. ASSUME ~raced PROVE Tracks(rx_state, fed, 0)'
    <3>1. /\ rx_state = 2 /\ Tracks(2, fed, 1)
          /\ fed[Len(fed)] = parser.byte
      BY <2>1, <2>2, FedInside
    <3>2. /\ rx_data_ptr = 0
          /\ \/ Len(fed) = 2 /\ fed[1] = 2 /\ payload_length = 0
             \/ Len(fed) = 3 /\ fed[1] = 3 /\ payload_length = fed[2] * Base
      BY <3>1 DEF Tracks
    <3>3. len \in Nat /\ parser.byte \in Nat
      BY DEF TypeOK, Byte
    <3>4. Len(fed) = HeaderLen(fed)
      BY <3>2 DEF HeaderLen
    <3>5. HeaderHolds(fed, len)
      BY <3>1, <3>2, <3>3 DEF HeaderHolds
    <3>6. CASE rx_state' = 0
      BY <3>6 DEF Tracks
    <3>7. CASE 0 < len /\ len <= MaxPlLen /\ rx_state' = 3
      <4>1. /\ payload_length' = len /\ rx_data_ptr' = 0 /\ rx_state' = 3
            /\ fed' = fed
        BY <2>1, <3>2, <3>7
      <4>2. fed[1] \in {2, 3}
        BY <3>2
      <4>3. HeaderLen(fed) \in Nat
        BY DEF HeaderLen
      <4> HIDE DEF len
      <4> QED BY <3>3, <3>4, <3>5, <3>7, <4>1, <4>2, <4>3
              DEF Tracks, HeaderLen, HeaderHolds
    <3> QED BY <2>1, <3>1, <3>6, <3>7
  <2> QED BY <2>1, <2>2, FedWaiting
<1>7. CASE PayloadByte
  <2>1. /\ In(3) /\ parser' = Waiting
        /\ UNCHANGED <<fed, raced, last, lastframe, payload_length>>
        /\ rx_data_ptr' = rx_data_ptr + 1
        /\ rx_buffer' = [i \in 1..MaxPlLen |->
             IF i = rx_data_ptr + 1 THEN parser.byte ELSE rx_buffer[i]]
        /\ IF rx_data_ptr + 1 = payload_length
           THEN rx_state' \in {rx_state + 1, 4} ELSE rx_state' = rx_state + 0
    BY <1>7 DEF PayloadByte, Advance, Bump, In, Done, history
  <2>2. ASSUME ~raced PROVE Tracks(rx_state, fed, 0)'
    <3> DEFINE k == HeaderLen(fed)
    <3>1. /\ rx_state = 3 /\ Tracks(3, fed, 1)
          /\ fed[Len(fed)] = parser.byte
      BY <2>1, <2>2, FedInside
    <3>2. /\ fed[1] \in {2, 3} /\ HeaderHolds(fed, payload_length)
          /\ payload_length <= MaxPlLen /\ rx_data_ptr < payload_length
          /\ Len(fed) = k + rx_data_ptr + 0 + 1
          /\ \A i \in 1..rx_data_ptr : fed[k + i] = rx_buffer[i]
      BY <3>1 DEF Tracks
    <3>3. /\ payload_length \in Nat /\ rx_data_ptr \in Nat /\ k \in Nat
          /\ MaxPlLen \in Nat
      BY ConstFacts DEF TypeOK, HeaderLen
    <3> HIDE DEF k
    <3>4. \A i \in 1..(rx_data_ptr + 1) : fed[k + i] = rx_buffer'[i]
      <4> SUFFICES ASSUME NEW i \in 1..(rx_data_ptr + 1)
                   PROVE  fed[k + i] = rx_buffer'[i]
        OBVIOUS
      <4>1. i \in 1..MaxPlLen
        BY <3>2, <3>3
      <4>2. rx_buffer'[i] = IF i = rx_data_ptr + 1 THEN parser.byte ELSE rx_buffer[i]
        BY <2>1, <4>1
      <4>3. CASE i = rx_data_ptr + 1
        <5>1. k + i = Len(fed)
          BY <3>2, <3>3, <4>3
        <5> QED BY <3>1, <4>2, <4>3, <5>1
      <4>4. CASE i # rx_data_ptr + 1
        <5>1. i \in 1..rx_data_ptr
          BY <3>3, <4>4
        <5> QED BY <3>2, <4>2, <4>4, <5>1
      <4> QED BY <4>3, <4>4
    <3>5. /\ rx_state' \in {3, 4}
          /\ IF rx_state' = 3 THEN rx_data_ptr + 1 < payload_length
                              ELSE rx_data_ptr + 1 = payload_length
      BY <2>1, <3>1, <3>2, <3>3
    <3>6. /\ fed' = fed /\ payload_length' = payload_length
          /\ rx_data_ptr' = rx_data_ptr + 1 /\ k = HeaderLen(fed')
      BY <2>1 DEF k
    <3>7. Len(fed') = k + rx_data_ptr' + 0 + 0
      BY <3>2, <3>3, <3>6
    <3>8. HeaderHolds(fed, payload_length)'
      BY <3>2, <3>6 DEF HeaderHolds
    <3> QED BY <3>2, <3>4, <3>5, <3>6, <3>7, <3>8 DEF Tracks, HeaderLen
  <2> QED BY <2>1, <2>2, FedWaiting
<1>8. CASE CrcHigh
  <2>1. /\ In(4) /\ parser' = Waiting
        /\ UNCHANGED <<fed, raced, last, lastframe, payload_length, rx_data_ptr,
                       rx_buffer>>
        /\ crc_high' = parser.byte /\ rx_state' \in {rx_state + 1, 5}
    BY <1>8 DEF CrcHigh, Advance, Bump, In, Done, history
  <2>2. ASSUME ~raced PROVE Tracks(rx_state, fed, 0)'
    <3>1. /\ rx_state = 4 /\ Tracks(4, fed, 1)
          /\ fed[Len(fed)] = parser.byte
      BY <2>1, <2>2, FedInside
    <3>2. Len(fed) = HeaderLen(fed) + payload_length + 1
      BY <3>1 DEF Tracks, HeaderLen, TypeOK
    <3>3. rx_state' = 5 /\ fed'[HeaderLen(fed') + payload_length' + 1] = crc_high'
      BY <2>1, <3>1, <3>2
    <3> QED BY <2>1, <3>1, <3>3 DEF Tracks, HeaderLen, HeaderHolds, TypeOK
  <2> QED BY <2>1, <2>2, FedWaiting
<1>9. CASE CrcLow
  <2>1. /\ In(5) /\ parser' = Waiting
        /\ UNCHANGED <<fed, raced, last, lastframe, payload_length, rx_data_ptr,
                       rx_buffer, crc_high>>
        /\ crc_low' = parser.byte /\ rx_state' \in {rx_state + 1, 6}
    BY <1>9 DEF CrcLow, Advance, Bump, In, Done, history
  <2>2. ASSUME ~raced PROVE Tracks(rx_state, fed, 0)'
    <3>1. /\ rx_state = 5 /\ Tracks(5, fed, 1)
          /\ fed[Len(fed)] = parser.byte
      BY <2>1, <2>2, FedInside
    <3>2. Len(fed) = HeaderLen(fed) + payload_length + 2
      BY <3>1 DEF Tracks, HeaderLen, TypeOK
    <3>3. rx_state' = 6 /\ fed'[HeaderLen(fed') + payload_length' + 2] = crc_low'
      BY <2>1, <3>1, <3>2
    <3> QED BY <2>1, <3>1, <3>3 DEF Tracks, HeaderLen, HeaderHolds, TypeOK
  <2> QED BY <2>1, <2>2, FedWaiting
<1>10. CASE EndByte
  <2>1. In(6) /\ parser' = Waiting /\ rx_state' = 0 /\ UNCHANGED <<fed, raced>>
    BY <1>10 DEF EndByte, Done, Process, history
  <2>2. FedInv'
    BY <2>1 DEF FedInv, Quiet, Waiting, Tracks
  <2>3. CASE UNCHANGED <<last, lastframe>>
    BY <2>1, <2>2, <2>3 DEF OnlyWholeFrames, Frames, HeaderLen, HeaderHolds
  <2>4. CASE ~UNCHANGED <<last, lastframe>>
    <3>1. /\ parser.byte = 3 /\ crc16(Payload) = crc_high * Base + crc_low
          /\ last' = Payload /\ lastframe' = IF raced THEN <<>> ELSE fed
      BY <1>10, <2>4 DEF EndByte, Process, history
    <3>2. ASSUME ~raced PROVE Frames(fed, Payload)
      <4>1. Tracks(6, fed, 1) /\ fed[Len(fed)] = 3
        BY <2>1, <3>1, <3>2 DEF FedInv, In, Quiet
      <4> QED BY <3>1, <4>1, EndFrames
    <3>3. lastframe' # <<>> => Frames(lastframe', last')
      BY <3>1, <3>2
    <3> QED BY <2>2, <3>3 DEF OnlyWholeFrames, Frames, HeaderLen, HeaderHolds
  <2> QED BY <2>2, <2>3, <2>4
<1>11. CASE TimerCheck \/ TimerStore
  <2>1. UNCHANGED <<rx_state, rx, parser, raced, fed, last, lastframe>>
    BY <1>11 DEF TimerCheck, TimerStore, history
  <2> QED BY <2>1 DEF FedInv, OnlyWholeFrames, Quiet, Tracks, rx
<1>12. CASE TimerReset
  <2>1. /\ UNCHANGED <<rx, parser, fed, last, lastframe>> /\ rx_state' = 0
        /\ raced' = (raced \/ (parser.pc = "body" /\ parser.st \in 1..5))
    BY <1>12 DEF TimerReset
  <2>2. OnlyWholeFrames'
    BY <2>1 DEF OnlyWholeFrames
  <2>3. ASSUME ~raced' PROVE FedInv'
    <3>1. ~raced /\ ~(parser.pc = "body" /\ parser.st \in 1..5)
      BY <2>1, <2>3, Zenon
    <3>4. parser.pc \in {"wait", "body"} /\ parser.st \in 0..6
      BY DEF TypeOK
    <3>5. Quiet \/ parser.st \in {0, 6}
      BY <3>1, <3>4 DEF Quiet
    <3>2. CASE Quiet
      BY <2>1, <3>2 DEF FedInv, Quiet, Tracks
    <3>3. CASE ~Quiet
      <4>1. Tracks(parser.st, fed, 1)'
        BY <2>1, <3>1, <3>3 DEF FedInv, Tracks, rx
      <4> QED BY <2>1, <3>1, <3>3, <3>5, <4>1 DEF FedInv, Quiet
    <3> QED BY <3>2, <3>3
  <2>4. ASSUME raced' PROVE FedInv'
    BY <2>4 DEF FedInv
  <2> QED BY <2>2, <2>3, <2>4
<1>13. CASE UNCHANGED vars
  BY <1>13 DEF vars, FedInv, OnlyWholeFrames, Quiet, Tracks, rx, history
<1> QED
  BY <1>1, <1>2, <1>3, <1>4, <1>5, <1>6, <1>7, <1>8, <1>9, <1>10, <1>11, <1>12, <1>13
     DEF Next, packet_process_byte, packet_timerfunc

(* The invariant of the parser holds in every reachable state.             *)
LEMMA ParserCorrect == Spec => []ParserInv
<1>1. ParserInv /\ [Next]_vars => ParserInv'
  BY TypeNext, FedNext DEF ParserInv
<1> QED BY <1>1, InitInv, PTL DEF Spec

(* A payload byte is written inside the part of rx_buffer its length       *)
(* allows, for every buffer size and after any noise and any timeouts that *)
(* do not fall into the parser.                                            *)
THEOREM PayloadStaysInBuffer == Spec => []PayloadFits
<1>1. ParserInv => PayloadFits
  BY DEF ParserInv, FedInv, PayloadFits, In, Quiet, Tracks
<1> QED BY <1>1, ParserCorrect, PTL

(* process_func gets exactly what one frame on the line held.              *)
THEOREM OnlyFramesProcessed == Spec => []OnlyWholeFrames
<1>1. ParserInv => OnlyWholeFrames
  BY DEF ParserInv
<1> QED BY <1>1, ParserCorrect, PTL

-----------------------------------------------------------------------------
(* The packet that nothing disturbs.                                       *)

(* The bytes of three sequences put together.                              *)
LEMMA ConcatFacts ==
  ASSUME NEW h \in Seq(Byte), NEW p \in Seq(Byte), NEW t \in Seq(Byte)
  PROVE  /\ Len(h \o p \o t) = Len(h) + Len(p) + Len(t)
         /\ \A i \in 1..Len(h) : (h \o p \o t)[i] = h[i]
         /\ \A i \in 1..Len(p) : (h \o p \o t)[Len(h) + i] = p[i]
         /\ \A i \in 1..Len(t) : (h \o p \o t)[Len(h) + Len(p) + i] = t[i]
OBVIOUS

(* A number is put together again from its two bytes.                      *)
LEMMA TwoBytes ==
  ASSUME NEW n \in Nat
  PROVE  n = (n \div Base) * Base + (n % Base)
<1>1. Base \in Nat /\ Base > 3
  BY PacketAssumption
<1> DEFINE q == n \div Base
           r == n % Base
<1>2. q \in Nat /\ r \in Nat /\ n = (Base * q) + r
  BY <1>1
<1> HIDE DEF q, r
<1>3. n = q * Base + r
  BY <1>1, <1>2
<1> QED
  BY <1>3, Zenon DEF q, r

(* What packet_send_packet puts on the line is the frame of its payload,   *)
(* unless the one-byte length is 0.                                        *)
LEMMA FrameFrames ==
  ASSUME NEW p \in Payloads, Len(p) <= MaxPlLen, Len(p) \notin {0, Base}
  PROVE  Frames(Frame(p), p) /\ Frame(p)[1] \in {2, 3}
<1> DEFINE h == Header(Len(p))
           t == Trailer(p)
           F == Frame(p)
           n == Len(p)
           c == crc16(p)
           nh == n \div Base
           nl == n % Base
           ch == c \div Base
           cl == c % Base
<1>1. p \in Seq(Byte) /\ n \in Nat /\ n # 0 /\ n # Base /\ n < Base * Base
  BY PacketAssumption
<1>2. Base \in Nat /\ Base > 3 /\ c \in Nat /\ c < Base * Base
  <2>1. c \in 0..(Base * Base - 1) /\ Base * Base \in Nat
    BY PacketAssumption
  <2> QED
    BY <2>1, ConstFacts
<1>3. nh \in Byte /\ nl \in Byte /\ ch \in Byte /\ cl \in Byte
  BY <1>1, <1>2, HighByte
<1>4. 2 \in Byte /\ 3 \in Byte
  BY <1>2 DEF Byte
<1>5. t = <<ch, cl, 3>>
  BY DEF Trailer
<1>6. n = nh * Base + nl /\ c = ch * Base + cl
  BY <1>1, <1>2, TwoBytes
<1>7. (h = <<2, n>> /\ n \in Byte) \/ h = <<3, nh, nl>>
  <2>1. CASE n < Base
    <3>1. nl = n
      BY <1>1, <1>2, <2>1
    <3> QED
      BY <1>1, <1>2, <1>3, <2>1, <3>1 DEF Header
  <2>2. CASE n > Base
    BY <1>1, <1>2, <2>2 DEF Header
  <2> QED
    BY <1>1, <1>2, <2>1, <2>2
<1>8. F = h \o p \o t
  BY DEF Frame
<1> HIDE DEF F, h, t, nh, nl, ch, cl, n, c
<1>9. h \in Seq(Byte) /\ Len(h) \in {2, 3} /\ t \in Seq(Byte) /\ Len(t) = 3
  <2>1. CASE h = <<2, n>> /\ n \in Byte
    BY <1>3, <1>4, <1>5, <2>1
  <2>2. CASE h = <<3, nh, nl>>
    BY <1>3, <1>4, <1>5, <2>2
  <2> QED
    BY <1>7, <2>1, <2>2
<1>10. /\ Len(F) = Len(h) + n + 3
       /\ \A i \in 1..Len(h) : F[i] = h[i]
       /\ \A i \in 1..n : F[Len(h) + i] = p[i]
       /\ \A i \in 1..3 : F[Len(h) + n + i] = t[i]
  <2>0. p \in Seq(Byte) /\ h \in Seq(Byte) /\ t \in Seq(Byte)
    BY <1>1, <1>9
  <2>1. /\ Len(h \o p \o t) = Len(h) + n + Len(t)
        /\ \A i \in 1..Len(h) : (h \o p \o t)[i] = h[i]
        /\ \A i \in 1..n : (h \o p \o t)[Len(h) + i] = p[i]
        /\ \A i \in 1..Len(t) : (h \o p \o t)[Len(h) + n + i] = t[i]
    BY <2>0, ConcatFacts DEF n
  <2> QED
    BY <1>8, <1>9, <2>1, Zenon
<1>11. /\ F[Len(h) + n + 1] = ch /\ F[Len(h) + n + 2] = cl
       /\ F[Len(h) + n + 3] = 3
  BY <1>5, <1>10
<1>12. F[1] \in {2, 3} /\ Len(h) = HeaderLen(F) /\ HeaderHolds(F, n)
  <2>1. CASE h = <<2, n>>
    BY <1>10, <2>1 DEF HeaderLen, HeaderHolds
  <2>2. CASE h = <<3, nh, nl>>
    <3>1. Len(h) = 3 /\ F[1] = 3 /\ F[2] = nh /\ F[3] = nl
      BY <1>10, <2>2
    <3>2. F[2] * Base + F[3] = n
      BY <1>6, <3>1
    <3> QED
      BY <3>1, <3>2 DEF HeaderLen, HeaderHolds
  <2> QED
    BY <1>7, <2>1, <2>2
<1>13. F[Len(h) + n + 1] * Base + F[Len(h) + n + 2] = c
  BY <1>6, <1>11
<1> QED
  BY <1>10, <1>11, <1>12, <1>13 DEF Frames, F, n, c

(* The next byte goes from the line to the parser.                         *)
LEMMA SplitsNext ==
  ASSUME NEW F, NEW f \in Seq(Byte), NEW w \in Seq(Byte), w # <<>>, Splits(F, f, w)
  PROVE  Splits(F, Append(f, Head(w)), Tail(w))
<1> DEFINE g == Append(f, Head(w))
           u == Tail(w)
<1>1. /\ Len(g) = Len(f) + 1 /\ Len(u) = Len(w) - 1 /\ Len(f) \in Nat
      /\ Len(w) \in Nat /\ Len(w) > 0 /\ g[Len(f) + 1] = w[1]
      /\ \A i \in 1..Len(f) : g[i] = f[i]
      /\ \A i \in 1..Len(u) : u[i] = w[i + 1]
  OBVIOUS
<1> HIDE DEF g, u
<1>2. Len(F) = Len(g) + Len(u)
  BY <1>1 DEF Splits
<1>3. ASSUME NEW i \in 1..Len(g) PROVE g[i] = F[i]
  <2>1. CASE i = Len(f) + 1
    <3>1. w[1] = F[Len(f) + 1]
      BY <1>1 DEF Splits
    <3> QED
      BY <1>1, <2>1, <3>1
  <2>2. CASE i # Len(f) + 1
    <3>1. i \in 1..Len(f)
      BY <1>1, <2>2
    <3> QED
      BY <1>1, <3>1 DEF Splits
  <2> QED
    BY <2>1, <2>2
<1>4. ASSUME NEW i \in 1..Len(u) PROVE u[i] = F[Len(g) + i]
  <2>1. i + 1 \in 1..Len(w) /\ Len(g) + i = Len(f) + (i + 1)
    BY <1>1
  <2>2. w[i + 1] = F[Len(f) + (i + 1)]
    BY <2>1 DEF Splits
  <2> QED
    BY <1>1, <2>1, <2>2
<1>5. Splits(F, g, u)
  BY <1>2, <1>3, <1>4 DEF Splits
<1> QED
  BY <1>5 DEF g, u

(* The whole frame on the line: after its first byte.                      *)
LEMMA SplitsFirst ==
  ASSUME NEW w \in Seq(Byte), w # <<>>
  PROVE  Splits(w, <<Head(w)>>, Tail(w))
<1>1. Splits(w, <<>>, w)
  BY DEF Splits
<1>2. Append(<<>>, Head(w)) = <<Head(w)>> /\ <<>> \in Seq(Byte)
  OBVIOUS
<1> QED
  BY <1>1, <1>2, SplitsNext

(* The header that was fed is the frame's.                                 *)
LEMMA HeaderFed ==
  ASSUME NEW F, NEW f \in Seq(Byte), NEW w \in Seq(Byte), Splits(F, f, w), NEW p, Frames(F, p),
         NEW m, HeaderHolds(f, m), Len(f) >= HeaderLen(f), F[1] \in {2, 3}
  PROVE  HeaderLen(f) = HeaderLen(F) /\ m = Len(p)
<1>1. HeaderLen(f) \in {2, 3} /\ Len(f) \in Nat
  BY DEF HeaderLen
<1>2. f[1] = F[1] /\ f[2] = F[2]
  BY <1>1 DEF Splits
<1>3. HeaderLen(f) = HeaderLen(F)
  BY <1>2 DEF HeaderLen
<1>4. f[1] = 3 => f[3] = F[3]
  BY <1>1 DEF Splits, HeaderLen
<1>5. HeaderHolds(F, Len(p))
  BY DEF Frames
<1> QED
  BY <1>2, <1>3, <1>4, <1>5 DEF HeaderHolds

(* What is known of the expected packet.                                   *)
LEMMA ExpectedFrame ==
  ASSUME ExpectInv, expect # None, Len(expect) \notin {0, Base}
  PROVE  /\ expect \in Seq(Byte) /\ Len(expect) \in Nat /\ Len(expect) > 0 /\ Len(expect) <= MaxPlLen
         /\ Frames(Frame(expect), expect) /\ Frame(expect)[1] \in {2, 3}
         /\ Len(Frame(expect)) = HeaderLen(Frame(expect)) + Len(expect) + 3
<1>1. expect \in Payloads /\ Len(expect) <= MaxPlLen
  BY DEF ExpectInv
<1>2. expect \in Seq(Byte)
  BY <1>1, PacketAssumption
<1>3. Frames(Frame(expect), expect) /\ Frame(expect)[1] \in {2, 3}
  BY <1>1, FrameFrames
<1> QED
  BY <1>1, <1>2, <1>3 DEF Frames

(* The parser goes on to its next byte, in a state other than the first.   *)
LEMMA ParsingGoesOn ==
  ASSUME ExpectInv, Parsing, parser' = Waiting, rx_state' # 0,
         UNCHANGED <<wire, raced, fed, expect>>
  PROVE  ExpectInv'
BY DEF ExpectInv, Parsing, Quiet, Waiting, Splits, Frame, Header, Trailer

(* A parser with the whole frame on its state has not met its end.         *)
LEMMA NotAtEnd ==
  ASSUME TypeOK, FedInv, ExpectInv, expect # None, Len(expect) \notin {0, Base}, Parsing, Quiet
  PROVE  wire # <<>>
<1> DEFINE F == Frame(expect)
<1>1. ~raced /\ Splits(F, fed, wire) /\ rx_state # 0 /\ Tracks(rx_state, fed, 0)
  BY DEF Parsing, FedInv
<1>2. /\ Len(expect) \in Nat /\ Len(expect) > 0 /\ Frames(F, expect) /\ F[1] \in {2, 3}
      /\ Len(F) = HeaderLen(F) + Len(expect) + 3
  BY ExpectedFrame
<1>3. rx_state \in 1..6 /\ HeaderLen(F) \in {2, 3} /\ payload_length \in Nat /\ rx_data_ptr \in Nat
  BY <1>1 DEF TypeOK, HeaderLen
<1> HIDE DEF F
<1>4. CASE rx_state \in 1..2
  <2>0. rx_state = 1 \/ rx_state = 2
    BY <1>4
  <2>1. Len(fed) = 1 \/ Len(fed) = 2
    <3>1. CASE rx_state = 1
      BY <1>1, <3>1 DEF Tracks
    <3>2. CASE rx_state = 2
      BY <1>1, <3>2 DEF Tracks
    <3> QED
      BY <2>0, <3>1, <3>2
  <2>2. Len(F) >= 5
    BY <1>2, <1>3
  <2>3. Len(F) = Len(fed) + Len(wire)
    BY <1>1 DEF Splits
  <2>4. ASSUME wire = <<>> PROVE FALSE
    <3>1. Len(wire) = 0
      BY <2>4
    <3>2. Len(F) = 1 \/ Len(F) = 2
      BY <2>1, <2>3, <3>1
    <3> QED
      BY <2>2, <3>2
  <2> QED
    BY <2>4
<1>5. CASE rx_state \in 3..6
  <2>1. /\ HeaderHolds(fed, payload_length) /\ rx_data_ptr <= payload_length
        /\ Len(fed) = HeaderLen(fed) + rx_data_ptr + (IF rx_state < 5 THEN 0 ELSE rx_state - 4) + 0
    BY <1>1, <1>3, <1>5 DEF Tracks
  <2>2. HeaderLen(fed) \in {2, 3}
    BY DEF HeaderLen
  <2>3. Len(fed) >= HeaderLen(fed) /\ Len(fed) <= HeaderLen(fed) + payload_length + 2
    BY <1>3, <1>5, <2>1, <2>2
  <2>4. HeaderLen(fed) = HeaderLen(F) /\ payload_length = Len(expect)
    BY <1>1, <1>2, <2>1, <2>3, HeaderFed DEF TypeOK
  <2>5. Len(F) = Len(fed) + Len(wire)
    BY <1>1 DEF Splits
  <2> QED
    BY <1>2, <1>3, <2>3, <2>4, <2>5
<1> QED
  BY <1>3, <1>4, <1>5

(* The last byte of the undisturbed packet: process_func gets it.          *)
LEMMA EndArrives ==
  ASSUME TypeOK, StateInv, FedInv, ExpectInv, expect # None, Len(expect) \notin {0, Base},
         Parsing, EndByte
  PROVE  Arrived'
<1> DEFINE F == Frame(expect)
           L == payload_length
           k == HeaderLen(F)
<1>1. /\ In(6) /\ ~raced /\ Splits(F, fed, wire) /\ Tracks(6, fed, 1) /\ fed[Len(fed)] = parser.byte
  BY DEF EndByte, Parsing, FedInv, In, Quiet
<1>2. /\ expect \in Seq(Byte) /\ Len(expect) \in Nat /\ Frames(F, expect) /\ F[1] \in {2, 3}
      /\ Len(F) = k + Len(expect) + 3
  BY ExpectedFrame
<1>3. /\ HeaderHolds(fed, L) /\ L <= MaxPlLen /\ rx_data_ptr = L
      /\ Len(fed) = HeaderLen(fed) + rx_data_ptr + 2 + 1
      /\ \A i \in 1..rx_data_ptr : fed[HeaderLen(fed) + i] = rx_buffer[i]
      /\ fed[HeaderLen(fed) + L + 1] = crc_high
      /\ fed[HeaderLen(fed) + L + 2] = crc_low
  BY <1>1 DEF Tracks
<1>4. L \in Nat /\ HeaderLen(fed) \in {2, 3}
  BY DEF TypeOK, HeaderLen
<1>5. HeaderLen(fed) = k /\ L = Len(expect)
  <2>1. Len(fed) >= HeaderLen(fed)
    BY <1>3, <1>4
  <2> QED
    BY <1>1, <1>2, <1>3, <2>1, HeaderFed DEF TypeOK
<1> HIDE DEF F, k
<1>6. Len(fed) = Len(F) /\ Len(fed) = k + L + 3 /\ k \in {2, 3}
  BY <1>2, <1>3, <1>4, <1>5
<1>7. wire = <<>>
  <2>1. Len(F) = Len(fed) + Len(wire)
    BY <1>1 DEF Splits
  <2> QED
    BY <1>6, <2>1 DEF TypeOK
<1>8. \A i \in 1..(k + L + 3) : fed[i] = F[i]
  BY <1>1, <1>6 DEF Splits
<1>9. /\ \A i \in 1..L : F[k + i] = expect[i]
      /\ F[k + L + 1] * Base + F[k + L + 2] = crc16(expect)
      /\ F[k + L + 3] = 3
  BY <1>2, <1>5 DEF Frames, k
<1>10. parser.byte = 3 /\ crc_high * Base + crc_low = crc16(expect)
  <2>1. /\ fed[k + L + 3] = F[k + L + 3] /\ fed[k + L + 1] = F[k + L + 1]
        /\ fed[k + L + 2] = F[k + L + 2]
    BY <1>4, <1>6, <1>8
  <2> QED
    BY <1>1, <1>3, <1>5, <1>6, <1>9, <2>1
<1>11. Payload = expect
  <2>1. Len(Payload) = L /\ \A i \in 1..L : Payload[i] = rx_buffer[i]
    BY <1>3, PayloadIs
  <2>2. ASSUME NEW i \in 1..L PROVE Payload[i] = expect[i]
    <3>1. k + i \in 1..(k + L + 3)
      BY <1>4, <1>6
    <3> QED
      BY <1>3, <1>5, <1>8, <1>9, <2>1, <3>1
  <2>3. Payload \in Seq(Byte)
    <3>1. MaxPlLen \in Nat /\ rx_buffer \in Seq(Byte) /\ Len(rx_buffer) = MaxPlLen
      BY ConstFacts DEF TypeOK
    <3> QED
      BY <1>3, <1>4, <3>1 DEF Payload
  <2> QED
    BY <1>2, <1>5, <2>1, <2>2, <2>3
<1>12. last' = Payload
  <2>1. parser.byte = 3 /\ crc16(Payload) = crc_high * Base + crc_low
    BY <1>10, <1>11
  <2> QED
    BY <2>1 DEF EndByte, Process
<1>13. wire' = wire /\ parser' = Waiting /\ rx_state' = 0 /\ expect' = expect
  BY DEF EndByte, Done, Process, history
<1> QED
  BY <1>7, <1>11, <1>12, <1>13 DEF Arrived, Quiet, Waiting

(* No step but noise, another packet or a timeout inside it keeps the      *)
(* packet from arriving.                                                   *)
LEMMA ExpectNext ==
  ASSUME TypeOK, StateInv, FedInv, ExpectInv, [Next]_vars
  PROVE  ExpectInv'
<1>1. ASSUME NEW p \in Payloads, packet_send_packet(p) PROVE ExpectInv'
  <2>1. CASE expect' = None
    BY <2>1 DEF ExpectInv
  <2>2. CASE expect' # None
    <3>1. /\ wire = <<>> /\ Quiet /\ rx_state = 0 /\ expect' = p
          /\ wire' = wire \o Frame(p) /\ Len(p) <= MaxPlLen /\ UNCHANGED <<parser, rx_state>>
      BY <1>1, <2>2 DEF packet_send_packet
    <3>2. Frame(p) \in Seq(Byte)
      BY <3>1, FrameType
    <3>3. wire' = Frame(p)
      BY <3>1, <3>2
    <3>4. wire' = Frame(expect')
      BY <3>1, <3>3
    <3>5. Untouched'
      BY <3>1, <3>4 DEF Untouched, Quiet, Frame, Header, Trailer
    <3> QED
      BY <3>1, <3>5 DEF ExpectInv
  <2> QED
    BY <2>1, <2>2
<1>2. CASE Noise
  BY <1>2 DEF Noise, ExpectInv
<1>3. ASSUME expect' = expect \/ expect' = None,
             expect # None, Len(expect) \notin {0, Base}, expect' = expect =>
               Untouched' \/ Parsing' \/ Arrived'
      PROVE  ExpectInv'
  BY <1>3 DEF ExpectInv
<1>4. CASE ~(expect # None /\ Len(expect) \notin {0, Base}) /\ ~Noise
           /\ ~(\E p \in Payloads : packet_send_packet(p))
  <2>1. expect' = expect \/ expect' = None
    BY <1>4 DEF vars, history, Dispatch, StartByte, LengthHigh, LengthLow, PayloadByte, CrcHigh, CrcLow,
                EndByte, Advance, Abandon, Process, TimerCheck, TimerStore, TimerReset,
                Next, packet_process_byte, packet_timerfunc
  <2> QED
    BY <1>4, <2>1 DEF ExpectInv
<1>5. SUFFICES ASSUME expect # None, Len(expect) \notin {0, Base}, Untouched \/ Parsing \/ Arrived,
                      packet_process_byte \/ packet_timerfunc \/ UNCHANGED vars
               PROVE  ExpectInv'
  BY <1>1, <1>2, <1>4 DEF ExpectInv, Next
<1>6. CASE Dispatch
  <2>1. /\ Quiet /\ wire # <<>> /\ parser' = [pc |-> "body", byte |-> Head(wire), st |-> rx_state]
        /\ wire' = Tail(wire) /\ raced' = (raced /\ rx_state # 0)
        /\ UNCHANGED <<rx_state, expect>>
    BY <1>6 DEF Dispatch
  <2>2. ~Quiet' /\ rx_state' = parser'.st
    BY <2>1 DEF Quiet
  <2>3. ~raced' /\ Splits(Frame(expect), fed', wire')
    <3>1. CASE Untouched
      <4>1. rx_state = 0 /\ wire = Frame(expect) /\ fed' = <<Head(wire)>>
        BY <1>6, <3>1 DEF Untouched, Dispatch
      <4>2. Splits(wire, <<Head(wire)>>, Tail(wire))
        BY <2>1, SplitsFirst DEF TypeOK
      <4>3. ~raced'
        BY <2>1, <4>1, Zenon
      <4> QED
        BY <2>1, <4>1, <4>2, <4>3
    <3>2. CASE Parsing
      <4>1. ~raced /\ rx_state # 0 /\ Splits(Frame(expect), fed, wire)
        BY <2>1, <3>2 DEF Parsing
      <4>2. fed' = Append(fed, Head(wire))
        BY <1>6, <4>1 DEF Dispatch
      <4>3. ~raced'
        BY <2>1, <4>1, Zenon
      <4>4. Splits(Frame(expect), Append(fed, Head(wire)), Tail(wire))
        BY <2>1, <4>1, SplitsNext DEF TypeOK
      <4> QED
        BY <2>1, <4>2, <4>3, <4>4
    <3>3. CASE Arrived
      BY <2>1, <3>3 DEF Arrived
    <3> QED
      BY <1>5, <3>1, <3>2, <3>3
  <2>4. Parsing'
    BY <2>1, <2>2, <2>3 DEF Parsing, Splits, Frame, Header, Trailer
  <2> QED
    BY <1>3, <1>5, <2>1, <2>4
<1>7. ASSUME StartByte \/ LengthHigh \/ LengthLow \/ PayloadByte \/ CrcHigh \/ CrcLow
      PROVE  ExpectInv'
  <2> DEFINE F == Frame(expect)
  <2>1. /\ parser.pc = "body" /\ parser' = Waiting /\ UNCHANGED <<wire, raced, fed, expect>>
    BY <1>7 DEF StartByte, LengthHigh, LengthLow, PayloadByte, CrcHigh, CrcLow, In, Advance, Abandon,
                Done, history
  <2>2. Parsing /\ rx_state = parser.st /\ ~raced /\ Splits(F, fed, wire)
    BY <1>5, <2>1 DEF Untouched, Arrived, Parsing, Quiet
  <2>3. /\ Len(expect) \in Nat /\ Len(expect) > 0 /\ Len(expect) <= MaxPlLen
        /\ Frames(F, expect) /\ F[1] \in {2, 3}
    BY <1>5, ExpectedFrame
  <2>4. CASE StartByte
    <3>1. In(0)
      BY <2>4 DEF StartByte
    <3>2. fed[Len(fed)] = parser.byte /\ Len(fed) = 1
      BY <2>2, <3>1, FedInside
    <3>3. parser.byte \in {2, 3}
      BY <2>2, <2>3, <3>2 DEF Splits
    <3>4. rx_state' # 0
      BY <2>2, <2>4, <3>1, <3>3 DEF StartByte, Advance, Bump, In
    <3> QED
      BY <2>1, <2>2, <3>4, ParsingGoesOn
  <2>5. CASE LengthLow
    <3> DEFINE len == payload_length + parser.byte
    <3>1. In(2)
      BY <2>5 DEF LengthLow
    <3>2. rx_state = 2 /\ Tracks(2, fed, 1) /\ fed[Len(fed)] = parser.byte
      BY <2>2, <3>1, FedInside
    <3>3. \/ Len(fed) = 2 /\ fed[1] = 2 /\ payload_length = 0
          \/ Len(fed) = 3 /\ fed[1] = 3 /\ payload_length = fed[2] * Base
      BY <3>2 DEF Tracks
    <3>4. Len(fed) = HeaderLen(fed)
      BY <3>3 DEF HeaderLen
    <3>5. HeaderHolds(fed, len)
      <4>1. parser.byte \in Nat
        BY DEF TypeOK, Byte
      <4> QED
        BY <3>2, <3>3, <4>1 DEF HeaderHolds
    <3>6. len = Len(expect)
      <4> HIDE DEF len, F
      <4>1. Len(fed) >= HeaderLen(fed)
        BY <3>3, <3>4
      <4> QED
        BY <2>2, <2>3, <3>5, <4>1, HeaderFed DEF TypeOK
    <3>7. 0 < len /\ len <= MaxPlLen
      <4> HIDE DEF len
      <4> QED
        BY <2>3, <3>6
    <3>8. rx_state' # 0
      BY <2>5, <3>1, <3>2, <3>7 DEF LengthLow, Bump, In
    <3> QED
      BY <2>1, <2>2, <3>8, ParsingGoesOn
  <2>6. CASE LengthHigh \/ PayloadByte \/ CrcHigh \/ CrcLow
    <3>1. rx_state \in 1..5
      BY <2>2, <2>6 DEF LengthHigh, PayloadByte, CrcHigh, CrcLow, In
    <3>2. \E n \in {0, 1} : Bump(n)
      BY <2>6 DEF LengthHigh, PayloadByte, CrcHigh, CrcLow, Advance
    <3>3. rx_state' # 0
      BY <2>2, <3>1, <3>2 DEF Bump
    <3> QED
      BY <2>1, <2>2, <3>3, ParsingGoesOn
  <2> QED
    BY <1>7, <2>4, <2>5, <2>6
<1>8. CASE EndByte
  <2>1. Parsing /\ expect' = expect
    BY <1>5, <1>8 DEF EndByte, In, Untouched, Arrived, Quiet, Process, history
  <2> QED
    BY <1>3, <1>5, <1>8, <2>1, EndArrives
<1>9. CASE TimerReset
  <2>1. /\ rx_state' = 0 /\ UNCHANGED <<wire, parser, fed, last>>
        /\ expect' = (IF rx_state = 0 THEN expect ELSE None)
        /\ raced' = (raced \/ (parser.pc = "body" /\ parser.st \in 1..5))
    BY <1>9 DEF TimerReset
  <2>2. CASE rx_state # 0
    BY <2>1, <2>2 DEF ExpectInv
  <2>3. CASE rx_state = 0
    <3>1. expect' = expect /\ rx_state' = rx_state
      BY <2>1, <2>3
    <3>2. Untouched => Untouched'
      BY <2>1, <3>1 DEF Untouched, Quiet, Frame, Header, Trailer
    <3>3. Arrived => Arrived'
      BY <2>1, <3>1 DEF Arrived, Quiet
    <3>4. ASSUME Parsing PROVE Parsing'
      <4>1. ~raced /\ ~Quiet /\ parser.st = 0 /\ Splits(Frame(expect), fed, wire)
        BY <2>3, <3>4 DEF Parsing
      <4>2. ~(parser.st \in 1..5)
        BY <4>1
      <4>3. ~raced'
        BY <2>1, <4>1, <4>2, Zenon
      <4> QED
        BY <2>1, <3>1, <2>3, <4>1, <4>3 DEF Parsing, Quiet, Splits, Frame, Header, Trailer
    <3> QED
      BY <1>3, <1>5, <3>1, <3>2, <3>3, <3>4
  <2> QED
    BY <2>2, <2>3
<1>10. CASE TimerCheck \/ TimerStore \/ UNCHANGED vars
  <2>1. UNCHANGED <<wire, rx_state, parser, raced, fed, last, expect>>
    BY <1>10 DEF TimerCheck, TimerStore, vars, history
  <2> QED
    BY <2>1 DEF ExpectInv, Untouched, Parsing, Arrived, Quiet, Splits, Frame, Header, Trailer
<1> QED
  BY <1>5, <1>6, <1>7, <1>8, <1>9, <1>10 DEF packet_process_byte, packet_timerfunc

(* A packet sent to an idle parser arrives unless noise, another packet    *)
(* or a timeout falls into it: for every byte width and every CRC, and     *)
(* even after the timer has raced with the parser in an earlier packet.    *)
THEOREM CleanPackets == Spec => []CleanPacketArrives
<1> DEFINE Inv == ParserInv /\ ExpectInv
<1>1. Init => Inv
  BY InitInv DEF Init, ExpectInv
<1>2. Inv /\ [Next]_vars => Inv'
  BY TypeNext, FedNext, ExpectNext DEF ParserInv
<1>3. Inv => CleanPacketArrives
  <2> SUFFICES ASSUME ParserInv, ExpectInv, expect # None, Len(expect) \notin {0, Base}, wire = <<>>, Quiet
               PROVE  last = expect
    BY DEF CleanPacketArrives
  <2>1. ~Parsing
    BY NotAtEnd DEF ParserInv
  <2>2. ~Untouched
    <3>1. /\ Len(expect) \in Nat /\ HeaderLen(Frame(expect)) \in {2, 3}
          /\ Len(Frame(expect)) = HeaderLen(Frame(expect)) + Len(expect) + 3
      BY ExpectedFrame DEF HeaderLen
    <3>2. Len(Frame(expect)) > 0
      BY <3>1
    <3> QED
      BY <3>2 DEF Untouched
  <2> QED
    BY <2>1, <2>2 DEF ExpectInv, Arrived
<1> QED
  BY <1>1, <1>2, <1>3, PTL DEF Spec
=============================================================================
