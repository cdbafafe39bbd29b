---------------------------- MODULE LinksProofs ----------------------------
(***************************************************************************)
(* Proofs about the links: the CAN bus with the reply path of commands.c   *)
(* (CommCan, Commands), for any number of controllers and ports, any       *)
(* messages and any sizes; and the receive rings (RxRing), of any size, as *)
(* an implementation of LossyFifo.                                         *)
(***************************************************************************)
EXTENDS CommCan, RxRing, SequenceTheorems, TLAPS

(* A frame on its way.  The fragments of a message lie in rx_buffer.       *)
FrameCmd == {"SHORT", "FILL", "LONG", "PROCESS", "SET", "STATUS"}
FrameSet ==
  {f \in [cmd : FrameCmd, to : Address, from : Remote, msg : Message \cup {None},
          send : BOOLEAN, off : Nat, data : Seq(0..255), whole : BOOLEAN] :
     f.cmd \in {"FILL", "LONG"} => f.off + Len(f.data) <= RxBufferSize}

(* The frames, rx_buffer and the status table, whose slots fill from the   *)
(* first on.                                                               *)
BusInv ==
  /\ frames \in Seq(FrameSet) /\ Len(frames) <= RxFrames
  /\ out \in [Remote -> Seq(FrameSet)]
  /\ DOMAIN rx_buffer = 0..(RxBufferSize - 1)
  /\ whole \in [Remote -> BOOLEAN]

StatusInv ==
  /\ stat_msgs \in [1..StatusSlots -> Remote \cup {None}]
  /\ \A i, j \in 1..StatusSlots : i < j /\ stat_msgs[j] # None => stat_msgs[i] # None
  /\ OneStatusSlot

(* Where replies go.  An exchange that nobody disturbed is about the asker *)
(* that send_func and rx_buffer_last_id stand for; a reply in the making   *)
(* is what send_buffer holds, and what is on the way to the asker is it;   *)
(* only one thread sends under a mutex.                                    *)
Asker == Port \cup Remote
Place == {"idle", "process", "fill", "send", "lock", "copy", "crc"}
Maker == Thread \cup Remote \cup {None}
ReplyTypes ==
  /\ send_func \in Port \cup {CAN, None} /\ rx_buffer_last_id \in Remote \cup {None}
  /\ place \in [Thread -> Place] /\ route \in [Thread -> Asker \cup {None}]
  /\ command = [t \in Thread |-> command[t]]
  /\ \A t \in Thread \ {CAN} : command[t] # "relay"
  /\ tx \in [Asker -> Maker \X Maker]
  /\ send_buffer \in Maker \X Maker
  /\ asker \in [Exchange -> Asker \cup {None}] /\ intact \in [Exchange -> BOOLEAN]

IntactIsCurrent == \A e \in Exchange : intact[e] => asker[e] \in Asker /\ asker[e] = Destination
InHand(t) ==
  /\ command[t] # "relay" /\ place[t] = "fill" => send_buffer[1] = t
  /\ command[t] # "relay" /\ place[t] \in {"send", "lock", "copy", "crc"} => send_buffer = Both(t)
  /\ place[t] \in {"lock", "copy", "crc"} => route[t] = asker[t]
  /\ place[t] = "copy" => tx[asker[t]][1] = Origin(t)
  /\ place[t] = "crc" => tx[asker[t]] = Both(Origin(t))
ReplyInHand == \A t \in Thread : intact[t] => InHand(t)
OneSender ==
  \A t, u \in Thread :
    /\ place[t] \in {"copy", "crc"} /\ place[u] \in {"copy", "crc"}
    /\ route[t] = route[u] /\ route[t] \in Mutexed
    => t = u

ReplyInv == ReplyTypes /\ IntactIsCurrent /\ ReplyInHand /\ OneSender /\ ReplyReachesAsker

(* Fragments on the way.  Covers: frame f writes byte i of rx_buffer;      *)
(* Right: what it writes there is data's byte.  Arrives: after the first n *)
(* frames of fr are handled, buf has data's byte at i.                     *)
Covers(f, i) == f.cmd \in {"FILL", "LONG"} /\ i \in f.off..(f.off + Len(f.data) - 1)
Right(f, data, i) == Covers(f, i) => f.data[i - f.off + 1] = data[i + 1]
Arrives(fr, buf, n, data, i) ==
  \E q \in 0..n :
    /\ \/ q = 0 /\ buf[i] = data[i + 1]
       \/ q > 0 /\ Covers(fr[q], i)
    /\ \A p \in 1..n : p >= q => Right(fr[p], data, i)

Index(data) == 0..(Len(data) - 1)

(* The PROCESS frame f of an undisturbed message, after n frames of the    *)
(* ring, finds the message in rx_buffer ...                                *)
Arrived(fr, buf, n, f) ==
  f.cmd = "PROCESS" /\ f.whole =>
    f.msg \in Message /\ \A i \in Index(f.msg.data) : Arrives(fr, buf, n, f.msg.data, i)
ArrivalInv == \A p \in 1..Len(frames) : Arrived(frames, rx_buffer, p - 1, frames[p])

(* ... and of an undisturbed message that is still being sent (s) each     *)
(* byte is on the way or yet to be sent.                                   *)
UnderWay(fr, buf, s) ==
  LET m == s[Len(s)].msg
  IN /\ m \in Message
     /\ \A i \in Index(m.data) :
          /\ \A k \in 1..Len(s) : Right(s[k], m.data, i)
          /\ \/ Arrives(fr, buf, Len(fr), m.data, i)
             \/ \E k \in 1..Len(s) : Covers(s[k], i)
FramesOf(r, s) == \A k \in 1..Len(s) : s[k].from = r /\ (s[k].cmd = "PROCESS" => k = Len(s))
SendingInv ==
  \A r \in Remote :
    /\ FramesOf(r, out[r])
    /\ out[r] # <<>> /\ whole[r] /\ out[r][Len(out[r])].cmd = "PROCESS" =>
         UnderWay(frames, rx_buffer, out[r])

WholeInv == ArrivalInv /\ SendingInv /\ WholeMessageArrives

CanInv == BusInv /\ StatusInv /\ ReplyInv /\ WholeInv

(* The ring: where its writer is, and that a writer nobody preempts is     *)
(* never seen half-way.                                                    *)
RingInv ==
  /\ ring \in [Pos -> Item] /\ item \in Item /\ read_pos \in Pos /\ slot \in Pos
  /\ stored \in BOOLEAN /\ odd \in BOOLEAN /\ preempts \in BOOLEAN
  /\ wpc \in {"read", "advance", "wrap", "signal"} /\ rpc \in {"wait", "test", "take"}
  /\ wpc = "read" => stored /\ write_pos \in Pos
  /\ wpc = "advance" => write_pos = slot
  /\ wpc = "wrap" => write_pos = slot + 1
  /\ wpc = "signal" => write_pos = Wrapped(slot + 1)
  /\ ~preempts => wpc = "read" /\ ~odd

-----------------------------------------------------------------------------
(* The fragments of comm_can_send_buffer start inside the message ...      *)
LEMMA DivBounds ==
  ASSUME NEW a \in Nat, NEW b \in Nat \ {0}
  PROVE  a \div b \in Nat /\ (a \div b) * b <= a
  OBVIOUS

(* The fragments that a count rounded up asks for all begin inside the     *)
(* message: the loops of comm_can_send_buffer never send an empty          *)
(* fragment.                                                               *)
LEMMA StepBelow ==
  ASSUME NEW len \in Nat \ {0}, NEW n \in Nat \ {0}, NEW k \in Nat, k >= 1,
         k <= (len + n - 1) \div n
  PROVE  (k - 1) * n \in Nat /\ (k - 1) * n < len
<1> DEFINE q == (len + n - 1) \div n
<1>1. q \in Nat /\ q * n <= len + n - 1
  BY DivBounds
<1> HIDE DEF q
<1>2. k \in Nat /\ k <= q
  BY DEF q
<1>3. k * n <= q * n
  BY <1>1, <1>2
<1>4. (k - 1) * n = k * n - n /\ (k - 1) * n \in Nat
  OBVIOUS
<1>5. k * n \in Int /\ q * n \in Int
  BY <1>1
<1> QED
  BY <1>1, <1>3, <1>4, <1>5

(* So the fragments of both formats, those with a byte for the offset and  *)
(* those with two, begin inside the message.                               *)
LEMMA FragmentCounts ==
  ASSUME NEW len \in Nat \ {0}
  PROVE  /\ Fills(len) \in Nat /\ Longs(len) \in Nat
         /\ \A k \in 1..Fills(len) : (k - 1) * FillStep \in Nat /\ (k - 1) * FillStep < len
         /\ \A k \in 1..Longs(len) :
              LET i == Fills(len) * FillStep + (k - 1) * LongStep IN i \in Nat /\ i < len
<1> USE CommCanAssumption
<1> DEFINE f == Fills(len)
           a == (len + FillStep - 1) \div FillStep
           b == FillMax \div FillStep + 1
<1>1. a \in Nat /\ b \in Nat
  BY DivBounds
<1>2. f \in Nat /\ f <= a
  BY <1>1 DEF Fills, Least
<1>3. ASSUME NEW k \in 1..f PROVE (k - 1) * FillStep \in Nat /\ (k - 1) * FillStep < len
  <2>1. k \in Nat /\ k >= 1 /\ k <= a
    BY <1>1, <1>2, <1>3
  <2> QED
    BY <2>1, StepBelow
<1> HIDE DEF f, a, b
<1>e. f * FillStep \in Nat
  BY <1>2
<1>4. CASE f * FillStep < len
  <2> DEFINE rest == len - f * FillStep
             g == (rest + LongStep - 1) \div LongStep
  <2>1. rest \in Nat \ {0}
    BY <1>4, <1>e
  <2>2. Longs(len) = g
    BY <1>4 DEF Longs, f
  <2> HIDE DEF rest
  <2>3. g \in Nat
    BY <2>1, DivBounds
  <2>4. ASSUME NEW k \in 1..g
        PROVE  f * FillStep + (k - 1) * LongStep \in Nat /\ f * FillStep + (k - 1) * LongStep < len
    <3>1. k \in Nat /\ k >= 1 /\ k <= g
      BY <2>3, <2>4
    <3>2. (k - 1) * LongStep \in Nat /\ (k - 1) * LongStep < rest
      BY <2>1, <3>1, StepBelow
    <3> HIDE DEF g
    <3> QED
      BY <1>e, <3>2 DEF rest
  <2> QED
    BY <1>2, <1>3, <2>2, <2>3, <2>4 DEF f
<1>5. CASE ~(f * FillStep < len)
  <2>1. Longs(len) = 0
    BY <1>5 DEF Longs, f
  <2> QED
    BY <1>2, <1>3, <2>1 DEF f
<1> QED
  BY <1>4, <1>5

(* ... and end inside it.                                                  *)
LEMMA ChunkFits ==
  ASSUME NEW data \in Seq(0..255), NEW i \in Nat, i < Len(data), NEW n \in Nat \ {0}
  PROVE  Chunk(data, i, n) \in Seq(0..255) /\ i + Len(Chunk(data, i, n)) <= Len(data)
<1>0. \A j \in 1..Len(data) : data[j] \in 0..255
  BY ElementOfSeq
<1> DEFINE e == IF i + n <= Len(data) THEN i + n ELSE Len(data)
<1>1. e \in Nat /\ i + 1 <= e /\ e <= Len(data)
  OBVIOUS
<1> HIDE DEF e
<1>2. SubSeq(data, i + 1, e) \in Seq(0..255) /\ Len(SubSeq(data, i + 1, e)) = e - i
  <2>1. i + 1 \in Int /\ e \in Int /\ \A j \in (i + 1)..e : data[j] \in 0..255
    <3>1. Len(data) \in Nat
      OBVIOUS
    <3>2. \A j \in (i + 1)..e : j \in 1..Len(data)
      BY <1>1, <3>1
    <3> QED
      BY <1>0, <1>1, <3>2
  <2>2. /\ SubSeq(data, i + 1, e) \in Seq(0..255)
        /\ Len(SubSeq(data, i + 1, e)) = IF i + 1 <= e THEN e - (i + 1) + 1 ELSE 0
    BY <2>1, SubSeqProperties
  <2> QED
    BY <1>1, <2>2
<1>3. Chunk(data, i, n) = SubSeq(data, i + 1, e)
  BY DEF Chunk, e
<1> QED
  BY <1>1, <1>2, <1>3

(* Its bytes are the message's.                                            *)
LEMMA ChunkBytes ==
  ASSUME NEW data \in Seq(0..255), NEW i \in Nat, i < Len(data), NEW n \in Nat \ {0}
  PROVE  /\ Len(Chunk(data, i, n)) = IF i + n <= Len(data) THEN n ELSE Len(data) - i
         /\ \A k \in 1..Len(Chunk(data, i, n)) : Chunk(data, i, n)[k] = data[i + k]
<1>0. \A j \in 1..Len(data) : data[j] \in 0..255
  BY ElementOfSeq
<1> DEFINE e == IF i + n <= Len(data) THEN i + n ELSE Len(data)
<1>1. e \in Nat /\ i + 1 <= e /\ e <= Len(data) /\ Len(data) \in Nat
  OBVIOUS
<1>2. Chunk(data, i, n) = SubSeq(data, i + 1, e)
  BY DEF Chunk, e
<1> HIDE DEF e
<1>3. i + 1 \in Int /\ e \in Int /\ \A j \in (i + 1)..e : data[j] \in 0..255
  <2>1. \A j \in (i + 1)..e : j \in 1..Len(data)
    BY <1>1
  <2> QED
    BY <1>0, <1>1, <2>1
<1>4. /\ Len(SubSeq(data, i + 1, e)) = IF i + 1 <= e THEN e - (i + 1) + 1 ELSE 0
      /\ \A k \in 1..(e - (i + 1) + 1) : SubSeq(data, i + 1, e)[k] = data[(i + 1) + k - 1]
  BY <1>3, SubSeqProperties
<1>5. Len(Chunk(data, i, n)) = e - i
  BY <1>1, <1>2, <1>4
<1>6. \A k \in 1..(e - i) : Chunk(data, i, n)[k] = data[i + k]
  <2> SUFFICES ASSUME NEW k \in 1..(e - i) PROVE Chunk(data, i, n)[k] = data[i + k]
    OBVIOUS
  <2>1. k \in 1..(e - (i + 1) + 1) /\ (i + 1) + k - 1 = i + k
    BY <1>1
  <2> QED
    BY <1>2, <1>4, <2>1
<1> QED
  BY <1>5, <1>6 DEF e

(* comm_can_send_buffer: the frames with a byte of offset, the ones with   *)
(* two, and the one that closes the message.                               *)
FillPart(r, m, send) ==
  [k \in 1..Fills(Len(m.data)) |->
     Frame("FILL", r, m, send, (k - 1) * FillStep, Chunk(m.data, (k - 1) * FillStep, FillStep))]
LongOffset(m, k) == Fills(Len(m.data)) * FillStep + (k - 1) * LongStep
LongPart(r, m, send) ==
  [k \in 1..Longs(Len(m.data)) |->
     Frame("LONG", r, m, send, LongOffset(m, k), Chunk(m.data, LongOffset(m, k), LongStep))]
LastPart(r, m, send) == <<Frame("PROCESS", r, m, send, 0, <<>>)>>

(* What each of the two loops of comm_can_send_buffer, and its last frame, *)
(* puts on the bus.                                                        *)
LEMMA PartsTyped ==
  ASSUME NEW r \in Remote, NEW m \in Message, NEW send \in BOOLEAN
  PROVE  /\ FillPart(r, m, send) \in Seq(FrameSet) /\ LongPart(r, m, send) \in Seq(FrameSet)
         /\ LastPart(r, m, send) \in Seq(FrameSet)
         /\ Len(FillPart(r, m, send)) = Fills(Len(m.data))
         /\ Len(LongPart(r, m, send)) = Longs(Len(m.data))
         /\ Frame("SHORT", r, m, send, 0, m.data) \in FrameSet
<1> USE CommCanAssumption
<1> DEFINE data == m.data
           n == Fills(Len(data))
           a == FillPart(r, m, send)
           b == LongPart(r, m, send)
<1>1. data \in Seq(0..255) /\ Len(data) \in Nat \ {0} /\ Len(data) <= RxBufferSize
  OBVIOUS
<1>2. ASSUME NEW cmd \in FrameCmd, NEW i \in Nat, NEW d \in Seq(0..255),
             cmd \in {"FILL", "LONG"} => i + Len(d) <= RxBufferSize
      PROVE  Frame(cmd, r, m, send, i, d) \in FrameSet
  BY <1>2 DEF Frame, FrameSet, Address
<1>0. /\ a = [k \in 1..n |-> Frame("FILL", r, m, send, (k - 1) * FillStep,
                                 Chunk(data, (k - 1) * FillStep, FillStep))]
      /\ b = [k \in 1..Longs(Len(data)) |->
                 Frame("LONG", r, m, send, LongOffset(m, k), Chunk(data, LongOffset(m, k), LongStep))]
  BY DEF FillPart, LongPart
<1>x. \A k \in 1..Longs(Len(data)) : LongOffset(m, k) = n * FillStep + (k - 1) * LongStep
  BY DEF LongOffset
<1> HIDE DEF data, a, b
<1>3. \A k \in 1..n : a[k] \in FrameSet
  <2> SUFFICES ASSUME NEW k \in 1..n PROVE a[k] \in FrameSet
    OBVIOUS
  <2>1. (k - 1) * FillStep \in Nat /\ (k - 1) * FillStep < Len(data)
    BY <1>1, FragmentCounts
  <2>2. /\ Chunk(data, (k - 1) * FillStep, FillStep) \in Seq(0..255)
        /\ (k - 1) * FillStep + Len(Chunk(data, (k - 1) * FillStep, FillStep)) <= Len(data)
    BY <1>1, <2>1, ChunkFits
  <2>3. "FILL" \in FrameCmd
    BY DEF FrameCmd
  <2> QED
    BY <1>0, <1>1, <1>2, <2>1, <2>2, <2>3
<1>4. \A k \in 1..Longs(Len(data)) : b[k] \in FrameSet
  <2> SUFFICES ASSUME NEW k \in 1..Longs(Len(data)) PROVE b[k] \in FrameSet
    OBVIOUS
  <2>1. LongOffset(m, k) \in Nat /\ LongOffset(m, k) < Len(data)
    BY <1>1, <1>x, FragmentCounts
  <2>2. /\ Chunk(data, LongOffset(m, k), LongStep) \in Seq(0..255)
        /\ LongOffset(m, k) + Len(Chunk(data, LongOffset(m, k), LongStep)) <= Len(data)
    BY <1>1, <2>1, ChunkFits
  <2>3. "LONG" \in FrameCmd
    BY DEF FrameCmd
  <2> QED
    BY <1>0, <1>1, <1>2, <2>1, <2>2, <2>3
<1>5. Frame("PROCESS", r, m, send, 0, <<>>) \in FrameSet /\ Frame("SHORT", r, m, send, 0, data) \in FrameSet
  <2>1. "PROCESS" \in FrameCmd /\ "SHORT" \in FrameCmd /\ 0 \in Nat /\ <<>> \in Seq(0..255)
    BY DEF FrameCmd
  <2> QED
    BY <1>1, <1>2, <2>1
<1>6. n \in Nat /\ Longs(Len(data)) \in Nat
  BY <1>1, FragmentCounts
<1> HIDE DEF n
<1>7. a \in Seq(FrameSet) /\ Len(a) = n
  <2>1. a \in [1..n -> FrameSet]
    <3>1. a = [k \in 1..n |-> a[k]]
      BY <1>0
    <3> QED
      BY <1>3, <3>1
  <2> QED
    BY <1>6, <2>1, SeqDef, LenProperties
<1>8. b \in Seq(FrameSet) /\ Len(b) = Longs(Len(data))
  <2>1. b \in [1..Longs(Len(data)) -> FrameSet]
    <3>1. b = [k \in 1..Longs(Len(data)) |-> b[k]]
      BY <1>0
    <3> QED
      BY <1>4, <3>1
  <2> QED
    BY <1>6, <2>1, SeqDef, LenProperties
<1>9. LastPart(r, m, send) \in Seq(FrameSet)
  BY <1>5 DEF LastPart
<1> QED
  BY <1>5, <1>7, <1>8, <1>9 DEF a, b, n, data

(* All that comm_can_send_buffer puts on the bus is frames.                *)
LEMMA FramesTyped ==
  ASSUME NEW r \in Remote, NEW m \in Message, NEW send \in BOOLEAN
  PROVE  Frames(r, m, send) \in Seq(FrameSet)
<1>1. LongFrames(r, m, send) = FillPart(r, m, send) \o LongPart(r, m, send) \o LastPart(r, m, send)
  BY DEF LongFrames, FillPart, LongPart, LastPart, LongOffset
<1> QED
  BY <1>1, PartsTyped DEF Frames

(* The frames of a long message by position.                               *)
LEMMA FramesShape ==
  ASSUME NEW r \in Remote, NEW m \in Message, NEW send \in BOOLEAN
  PROVE  LET s == LongFrames(r, m, send)
             n == Fills(Len(m.data))
             l == Longs(Len(m.data))
         IN /\ n \in Nat /\ l \in Nat /\ Len(s) = n + l + 1
            /\ \A k \in 1..n : s[k] = FillPart(r, m, send)[k]
            /\ \A k \in 1..l : s[n + k] = LongPart(r, m, send)[k]
            /\ s[n + l + 1] = Frame("PROCESS", r, m, send, 0, <<>>)
<1> DEFINE a == FillPart(r, m, send)
           b == LongPart(r, m, send)
           c == LastPart(r, m, send)
           n == Fills(Len(m.data))
           l == Longs(Len(m.data))
<1>0. Len(m.data) \in Nat \ {0}
  BY CommCanAssumption
<1>1. LongFrames(r, m, send) = (a \o b) \o c
  BY DEF LongFrames, FillPart, LongPart, LastPart, LongOffset
<1>2. a \in Seq(FrameSet) /\ b \in Seq(FrameSet) /\ c \in Seq(FrameSet) /\ Len(a) = n /\ Len(b) = l
  BY PartsTyped
<1>3. n \in Nat /\ l \in Nat
  BY <1>0, FragmentCounts
<1>4. Len(c) = 1 /\ c[1] = Frame("PROCESS", r, m, send, 0, <<>>)
  BY DEF LastPart
<1> HIDE DEF a, b, c, n, l
<1>5. /\ a \o b \in Seq(FrameSet) /\ Len(a \o b) = n + l
      /\ \A k \in 1..(n + l) : (a \o b)[k] = IF k <= n THEN a[k] ELSE b[k - n]
  BY <1>2, <1>3, ConcatProperties
<1> DEFINE ab == a \o b
<1>y. ab \in Seq(FrameSet) /\ Len(ab) = n + l
  BY <1>5
<1> HIDE DEF ab
<1>6. /\ Len(ab \o c) = n + l + 1
      /\ \A k \in 1..(n + l + 1) : (ab \o c)[k] = IF k <= n + l THEN ab[k] ELSE c[k - (n + l)]
  <2>1. c \in Seq(FrameSet)
    BY <1>2
  <2>2. /\ Len(ab \o c) = Len(ab) + Len(c)
        /\ \A k \in 1..(Len(ab) + Len(c)) :
             (ab \o c)[k] = IF k <= Len(ab) THEN ab[k] ELSE c[k - Len(ab)]
    BY <1>y, <2>1, ConcatProperties
  <2> QED
    BY <1>4, <1>y, <2>2
<1>7. \A k \in 1..n : (ab \o c)[k] = a[k]
  BY <1>3, <1>5, <1>6 DEF ab
<1>8. \A k \in 1..l : (ab \o c)[n + k] = b[k]
  BY <1>3, <1>5, <1>6 DEF ab
<1>9. (ab \o c)[n + l + 1] = c[1]
  BY <1>3, <1>6
<1> QED
  BY <1>1, <1>3, <1>4, <1>6, <1>7, <1>8, <1>9 DEF a, b, n, l, ab

(* Fragments of one step tile what they are about: byte i of them is in    *)
(* fragment i \div n + 1.                                                  *)
LEMMA Tile ==
  ASSUME NEW i \in Nat, NEW n \in Nat \ {0}
  PROVE  LET k == i \div n + 1
         IN /\ k \in Nat /\ k >= 1 /\ (k - 1) * n <= i /\ i < (k - 1) * n + n
            /\ \A c \in Nat : i < c * n => k <= c
<1> DEFINE q == i \div n
<1>1. q \in Nat /\ q * n <= i /\ i < q * n + n
  OBVIOUS
<1> HIDE DEF q
<1>2. ASSUME NEW c \in Nat, i < c * n PROVE q + 1 <= c
  <2>1. ASSUME c <= q PROVE FALSE
    <3>1. c * n <= q * n /\ c * n \in Int /\ q * n \in Int
      BY <1>1, <2>1
    <3> QED
      BY <1>1, <1>2, <3>1
  <2> QED
    BY <1>1, <2>1
<1>3. q + 1 - 1 = q
  BY <1>1
<1> QED
  BY <1>1, <1>2, <1>3 DEF q

(* A count rounded up is enough: the fragments reach the end of the        *)
(* message.                                                                *)
LEMMA CountCovers ==
  ASSUME NEW len \in Nat, NEW n \in Nat \ {0}
  PROVE  (len + n - 1) \div n \in Nat /\ len <= ((len + n - 1) \div n) * n
<1> DEFINE q == (len + n - 1) \div n
<1>1. len + n - 1 \in Nat
  OBVIOUS
<1>2. q \in Nat /\ len + n - 1 < q * n + n
  BY <1>1
<1> HIDE DEF q
<1>3. q * n \in Int
  BY <1>2
<1> QED
  BY <1>2, <1>3 DEF q

(* Every byte of a message lies in the fragment of one of the two loops.   *)
LEMMA AllCovered ==
  ASSUME NEW len \in Nat \ {0}, NEW i \in 0..(len - 1)
  PROVE  \/ \E k \in 1..Fills(len) : LET o == (k - 1) * FillStep
                                   IN o \in Nat /\ o < len /\ o <= i /\ i < o + FillStep
         \/ \E k \in 1..Longs(len) : LET o == Fills(len) * FillStep + (k - 1) * LongStep
                                   IN o \in Nat /\ o < len /\ o <= i /\ i < o + LongStep
<1> USE CommCanAssumption
<1> DEFINE f == Fills(len)
           l == Longs(len)
<1>1. /\ f \in Nat /\ l \in Nat
      /\ \A k \in 1..f : (k - 1) * FillStep \in Nat /\ (k - 1) * FillStep < len
      /\ \A k \in 1..l : f * FillStep + (k - 1) * LongStep \in Nat
                        /\ f * FillStep + (k - 1) * LongStep < len
  BY FragmentCounts
<1>2. f * FillStep \in Nat
  BY <1>1
<1>l. f * FillStep < len => l = (len - f * FillStep + LongStep - 1) \div LongStep
  BY DEF Longs
<1> HIDE DEF f, l
<1>3. CASE i < f * FillStep
  <2> DEFINE k == i \div FillStep + 1
  <2>0. i \in Nat
    OBVIOUS
  <2>1. k \in Nat /\ k >= 1 /\ (k - 1) * FillStep <= i /\ i < (k - 1) * FillStep + FillStep /\ k <= f
    BY <1>1, <1>3, <2>0, Tile
  <2> HIDE DEF k
  <2>2. k \in 1..f
    BY <1>1, <2>1
  <2> QED
    BY <1>1, <2>1, <2>2 DEF f
<1>4. CASE ~(i < f * FillStep)
  <2> DEFINE rest == len - f * FillStep
             j == i - f * FillStep
             k == j \div LongStep + 1
  <2>1. rest \in Nat /\ j \in Nat /\ j < rest /\ f * FillStep < len /\ i = f * FillStep + j
    BY <1>2, <1>4
  <2>2. l = (rest + LongStep - 1) \div LongStep
    BY <1>l, <2>1
  <2> HIDE DEF rest, j
  <2>3. rest <= l * LongStep
    BY <2>1, <2>2, CountCovers
  <2>4. j < l * LongStep
    BY <1>1, <2>1, <2>3
  <2>5. k \in Nat /\ k >= 1 /\ (k - 1) * LongStep <= j /\ j < (k - 1) * LongStep + LongStep /\ k <= l
    BY <1>1, <2>1, <2>4, Tile
  <2> HIDE DEF k
  <2>6. k \in 1..l
    BY <1>1, <2>5
  <2>7. (k - 1) * LongStep \in Int
    BY <2>5
  <2>8. f * FillStep + (k - 1) * LongStep <= i /\ i < f * FillStep + (k - 1) * LongStep + LongStep
    <3> DEFINE a == f * FillStep
               b == (k - 1) * LongStep
    <3>1. a \in Nat /\ b \in Int /\ LongStep \in Nat /\ j \in Nat
      BY <1>1, <1>2, <2>1, <2>7
    <3>2. i = a + j /\ b <= j /\ j < b + LongStep
      BY <2>1, <2>5
    <3> HIDE DEF a, b
    <3>3. a + b <= i /\ i < a + b + LongStep
      BY <3>1, <3>2
    <3> QED
      BY <3>3 DEF a, b
  <2> QED
    BY <1>1, <2>6, <2>8 DEF f, l
<1> QED
  BY <1>3, <1>4

(* A fragment writes the message's bytes, and all those of its step.       *)
LEMMA FragmentRight ==
  ASSUME NEW m \in Message, NEW r, NEW send, NEW cmd \in {"FILL", "LONG"},
         NEW o \in Nat, o < Len(m.data), NEW n \in Nat \ {0}
  PROVE  LET f == Frame(cmd, r, m, send, o, Chunk(m.data, o, n))
         IN /\ \A i \in Index(m.data) : Right(f, m.data, i)
            /\ \A i \in Index(m.data) : o <= i /\ i < o + n => Covers(f, i)
<1> DEFINE data == m.data
           c == Chunk(data, o, n)
           f == Frame(cmd, r, m, send, o, c)
<1>1. data \in Seq(0..255) /\ Len(data) \in Nat
  BY CommCanAssumption
<1>2. o < Len(data)
  OBVIOUS
<1>3. f.cmd = cmd /\ f.off = o /\ f.data = c
  BY DEF Frame
<1> HIDE DEF data
<1>4. /\ Len(c) = IF o + n <= Len(data) THEN n ELSE Len(data) - o
      /\ \A k \in 1..Len(c) : c[k] = data[o + k]
  BY <1>1, <1>2, ChunkBytes
<1> HIDE DEF c, f
<1>5. \A i \in Index(data) : Right(f, data, i)
  <2> SUFFICES ASSUME NEW i \in Index(data), Covers(f, i) PROVE f.data[i - f.off + 1] = data[i + 1]
    BY DEF Right
  <2>1. i \in Int /\ i \in o..(o + Len(c) - 1) /\ Len(c) \in Nat
    BY <1>1, <1>2, <1>3, <1>4 DEF Covers, Index
  <2>2. i - o + 1 \in 1..Len(c) /\ o + (i - o + 1) = i + 1
    BY <2>1
  <2> QED
    BY <1>3, <1>4, <2>2
<1>6. \A i \in Index(data) : o <= i /\ i < o + n => Covers(f, i)
  BY <1>1, <1>2, <1>3, <1>4 DEF Covers, Index
<1> QED
  BY <1>5, <1>6 DEF f, c, data

(* comm_can_send_buffer of a long message.                                 *)
LEMMA MessageIsTiled ==
  ASSUME NEW r \in Remote, NEW m \in Message, NEW send \in BOOLEAN,
         NEW s, s = LongFrames(r, m, send)
  PROVE  /\ s # <<>> /\ s[Len(s)].cmd = "PROCESS" /\ s[Len(s)].msg = m
         /\ FramesOf(r, s)
         /\ \A i \in Index(m.data) : \A k \in 1..Len(s) : Right(s[k], m.data, i)
         /\ \A i \in Index(m.data) : \E k \in 1..Len(s) : Covers(s[k], i)
<1> USE CommCanAssumption
<1> DEFINE data == m.data
           n == Fills(Len(data))
           l == Longs(Len(data))
           fill(k) == Frame("FILL", r, m, send, (k - 1) * FillStep,
                            Chunk(data, (k - 1) * FillStep, FillStep))
           long(k) == Frame("LONG", r, m, send, LongOffset(m, k),
                            Chunk(data, LongOffset(m, k), LongStep))
           closing == Frame("PROCESS", r, m, send, 0, <<>>)
<1>0. data \in Seq(0..255) /\ Len(data) \in Nat \ {0}
  OBVIOUS
<1>1. /\ n \in Nat /\ l \in Nat /\ Len(s) = n + l + 1
      /\ \A k \in 1..n : s[k] = fill(k)
      /\ \A k \in 1..l : s[n + k] = long(k)
      /\ s[n + l + 1] = closing
  BY FramesShape DEF FillPart, LongPart
<1>2. \A k \in 1..n : (k - 1) * FillStep \in Nat /\ (k - 1) * FillStep < Len(data)
  BY <1>0, FragmentCounts
<1>3. \A k \in 1..l : LongOffset(m, k) \in Nat /\ LongOffset(m, k) < Len(data)
  BY <1>0, FragmentCounts DEF LongOffset
<1>4. \A k \in 1..n : /\ fill(k).from = r /\ fill(k).cmd = "FILL"
                      /\ \A i \in Index(data) : Right(fill(k), data, i)
                      /\ \A i \in Index(data) : (k - 1) * FillStep <= i /\ i < (k - 1) * FillStep + FillStep
                                              => Covers(fill(k), i)
  <2> SUFFICES ASSUME NEW k \in 1..n
               PROVE  /\ fill(k).from = r /\ fill(k).cmd = "FILL"
                      /\ \A i \in Index(data) : Right(fill(k), data, i)
                      /\ \A i \in Index(data) : (k - 1) * FillStep <= i /\ i < (k - 1) * FillStep + FillStep
                                              => Covers(fill(k), i)
    OBVIOUS
  <2>1. fill(k).from = r /\ fill(k).cmd = "FILL"
    BY DEF Frame
  <2>2. "FILL" \in {"FILL", "LONG"}
    OBVIOUS
  <2> QED
    BY <1>2, <2>1, <2>2, FragmentRight
<1>5. \A k \in 1..l : /\ long(k).from = r /\ long(k).cmd = "LONG"
                      /\ \A i \in Index(data) : Right(long(k), data, i)
                      /\ \A i \in Index(data) : LongOffset(m, k) <= i /\ i < LongOffset(m, k) + LongStep
                                              => Covers(long(k), i)
  <2> SUFFICES ASSUME NEW k \in 1..l
               PROVE  /\ long(k).from = r /\ long(k).cmd = "LONG"
                      /\ \A i \in Index(data) : Right(long(k), data, i)
                      /\ \A i \in Index(data) : LongOffset(m, k) <= i /\ i < LongOffset(m, k) + LongStep
                                             => Covers(long(k), i)
    OBVIOUS
  <2>1. long(k).from = r /\ long(k).cmd = "LONG"
    BY DEF Frame
  <2>2. "LONG" \in {"FILL", "LONG"}
    OBVIOUS
  <2> QED
    BY <1>3, <2>1, <2>2, FragmentRight
<1>6. closing.from = r /\ closing.cmd = "PROCESS" /\ closing.msg = m /\ \A i : Right(closing, data, i)
  BY DEF Frame, Right, Covers
<1>7. \A i \in Index(data) :
         \/ \E k \in 1..n : (k - 1) * FillStep <= i /\ i < (k - 1) * FillStep + FillStep
         \/ \E k \in 1..l : LongOffset(m, k) <= i /\ i < LongOffset(m, k) + LongStep
  <2> SUFFICES ASSUME NEW i \in 0..(Len(data) - 1)
               PROVE  \/ \E k \in 1..n : (k - 1) * FillStep <= i /\ i < (k - 1) * FillStep + FillStep
                      \/ \E k \in 1..l : LongOffset(m, k) <= i /\ i < LongOffset(m, k) + LongStep
    BY DEF Index
  <2> QED
    BY <1>0, AllCovered DEF LongOffset
<1> HIDE DEF n, l, fill, long, closing, data
<1>8. ASSUME NEW k \in 1..Len(s)
      PROVE  \/ k \in 1..n /\ s[k] = fill(k)
             \/ \E j \in 1..l : k = n + j /\ s[k] = long(j)
             \/ k = Len(s) /\ s[k] = closing
  <2>1. CASE k <= n
    BY <1>1, <2>1
  <2>2. CASE k > n /\ k <= n + l
    <3>1. k - n \in 1..l /\ k = n + (k - n)
      BY <1>1, <2>2
    <3> QED
      BY <1>1, <3>1
  <2>3. CASE k > n + l
    BY <1>1, <2>3
  <2> QED
    BY <1>1, <2>1, <2>2, <2>3
<1>9. \A k \in 1..Len(s) : s[k].from = r /\ (s[k].cmd = "PROCESS" => k = Len(s))
  BY <1>4, <1>5, <1>6, <1>8
<1>13. \A i \in Index(data) : \A k \in 1..Len(s) : Right(s[k], data, i)
  BY <1>4, <1>5, <1>6, <1>8
<1>10. \A i \in Index(data) : \E k \in 1..Len(s) : Covers(s[k], i)
  <2> SUFFICES ASSUME NEW i \in Index(data) PROVE \E k \in 1..Len(s) : Covers(s[k], i)
    OBVIOUS
  <2>1. CASE \E k \in 1..n : (k - 1) * FillStep <= i /\ i < (k - 1) * FillStep + FillStep
    <3>1. PICK k \in 1..n : (k - 1) * FillStep <= i /\ i < (k - 1) * FillStep + FillStep
      BY <2>1
    <3>2. Covers(s[k], i) /\ k \in 1..Len(s)
      BY <1>1, <1>4, <3>1
    <3> QED
      BY <3>2
  <2>2. CASE \E k \in 1..l : LongOffset(m, k) <= i /\ i < LongOffset(m, k) + LongStep
    <3>1. PICK k \in 1..l : LongOffset(m, k) <= i /\ i < LongOffset(m, k) + LongStep
      BY <2>2
    <3>2. Covers(s[n + k], i)
      BY <1>1, <1>5, <3>1
    <3>3. n + k \in 1..Len(s)
      BY <1>1
    <3> QED
      BY <3>2, <3>3
  <2> QED
    BY <1>7, <2>1, <2>2
<1>11. s # <<>> /\ Len(s) = n + l + 1
  <2>1. s = <<>> => Len(s) = 0
    OBVIOUS
  <2> QED
    BY <1>1, <2>1
<1>12. s[Len(s)].cmd = "PROCESS" /\ s[Len(s)].msg = m
  BY <1>1, <1>6
<1> QED
  BY <1>9, <1>10, <1>11, <1>12, <1>13 DEF data, FramesOf

-----------------------------------------------------------------------------
(* The ring of frames: an item is appended or the ring is lost.            *)
LEMMA EnqueueKeeps ==
  ASSUME frames \in Seq(FrameSet), Len(frames) <= RxFrames, NEW f \in FrameSet, Ring!Enqueue(f)
  PROVE  frames' \in Seq(FrameSet) /\ Len(frames') <= RxFrames
<1> USE CommCanAssumption
<1>1. CASE Len(frames) < RxFrames /\ frames' = Append(frames, f)
  BY <1>1
<1>2. CASE frames' = <<>>
  BY <1>2
<1>3. CASE frames' = <<f>>
  BY <1>3
<1> QED
  BY <1>1, <1>2, <1>3 DEF Ring!Enqueue

(* What the process thread takes from the ring is a frame, and the rest    *)
(* stays in it.                                                            *)
LEMMA DequeueKeeps ==
  ASSUME frames \in Seq(FrameSet), Len(frames) <= RxFrames, Ring!Dequeue
  PROVE  /\ rxmsg' \in FrameSet
         /\ frames' \in Seq(FrameSet) /\ Len(frames') <= RxFrames
<1> USE CommCanAssumption
<1>1. Len(frames) \in Nat \ {0} /\ rxmsg' = Head(frames) /\ frames' = Tail(frames)
  BY DEF Ring!Dequeue
<1>2. Head(frames) \in FrameSet /\ Tail(frames) \in Seq(FrameSet)
      /\ Len(Tail(frames)) = Len(frames) - 1
  BY <1>1
<1> QED
  BY <1>1, <1>2

(* The three fields that a frame's handling relies on.                     *)
LEMMA FrameFields ==
  ASSUME NEW f \in FrameSet
  PROVE  /\ f.from \in Remote /\ f.off \in Nat /\ f.data \in Seq(0..255)
         /\ f.cmd \in {"FILL", "LONG"} => f.off + Len(f.data) <= RxBufferSize
         /\ \A b \in BOOLEAN : [f EXCEPT !.whole = b] \in FrameSet
         /\ \A a \in Address : /\ [f EXCEPT !.to = a] \in FrameSet
                              /\ [f EXCEPT !.to = a].cmd = f.cmd /\ [f EXCEPT !.to = a].from = f.from
  BY DEF FrameSet

(* A copy that ends inside rx_buffer leaves its size alone.                *)
LEMMA CopyStaysInside ==
  ASSUME DOMAIN rx_buffer = 0..(RxBufferSize - 1), NEW at \in Nat, NEW data \in Seq(0..255),
         at + Len(data) <= RxBufferSize
  PROVE  DOMAIN CopyIn(at, data) = 0..(RxBufferSize - 1)
<1> USE CommCanAssumption
<1>1. DOMAIN CopyIn(at, data) = DOMAIN rx_buffer \cup (at..(at + Len(data) - 1))
  BY DEF CopyIn
<1>2. Len(data) \in Nat
  OBVIOUS
<1> QED
  BY <1>1, <1>2

-----------------------------------------------------------------------------
(* The two exchanges of the history are no threads; the strings that name  *)
(* threads are no ports and no controllers.                                *)
LEMMA Names ==
  /\ RELAY \notin Thread /\ SIGNAL \notin Thread /\ CAN \notin Port
  /\ CAN \in Thread /\ DETECT \in Thread /\ Port \subseteq Thread /\ CAN # DETECT
  /\ Thread \subseteq Exchange /\ RELAY \in Exchange /\ SIGNAL \in Exchange
  /\ \A r \in Remote : r # None /\ r \notin Port
  /\ \A p \in Port : p # None /\ p # DETECT /\ p # CAN /\ p \notin Remote
  BY CommandsAssumption DEF RELAY, SIGNAL, CAN, DETECT, Thread, Exchange

-----------------------------------------------------------------------------
(* Init *)
LEMMA CanInit == InitCan => CanInv
<1> SUFFICES ASSUME InitCan PROVE CanInv
  OBVIOUS
<1> USE CommCanAssumption, CommandsAssumption DEF InitCan, InitCommands
<1>1. BusInv
  BY DEF BusInv
<1>2. StatusInv
  BY DEF StatusInv, OneStatusSlot
<1>3. ReplyTypes
  BY Names DEF ReplyTypes, Asker, Place, Maker, Both
<1>4. IntactIsCurrent /\ ReplyInHand /\ OneSender
  BY Names DEF IntactIsCurrent, ReplyInHand, OneSender
<1>5. ReplyReachesAsker
  BY DEF ReplyReachesAsker, NoPacket
<1>6. WholeInv
  <2>1. Len(frames) = 0 /\ \A r \in Remote : out[r] = <<>> /\ Len(out[r]) = 0
    OBVIOUS
  <2>2. ArrivalInv /\ SendingInv
    BY <2>1 DEF ArrivalInv, SendingInv, FramesOf
  <2>3. WholeMessageArrives
    BY DEF WholeMessageArrives
  <2> QED
    BY <2>2, <2>3 DEF WholeInv
<1> QED
  BY <1>1, <1>2, <1>3, <1>4, <1>5, <1>6 DEF CanInv, ReplyInv

-----------------------------------------------------------------------------
(* What the bus does to the frames and the buffer.                         *)
LEMMA BusStep ==
  ASSUME BusInv, CanNext
  PROVE  BusInv'
<1> USE CommCanAssumption, CommandsAssumption
<1>1. CASE UNCHANGED <<frames, rxmsg, bvars>>
  BY <1>1 DEF BusInv, bvars
<1>2. ASSUME NEW r \in Remote, NEW m \in Message, NEW send \in BOOLEAN, SendBuffer(r, m, send)
      PROVE  BusInv'
  <2>1. Frames(r, m, send) \in Seq(FrameSet)
    BY FramesTyped
  <2>2. out' = [out EXCEPT ![r] = Frames(r, m, send)] /\ whole' = [whole EXCEPT ![r] = TRUE]
        /\ UNCHANGED <<frames, rx_buffer>>
    BY <1>2 DEF SendBuffer
  <2> QED
    BY <2>1, <2>2 DEF BusInv
<1>3. ASSUME NEW r \in Remote, NEW cmd \in {"SET", "STATUS"}, NEW to \in Address,
             SendSingle(r, cmd, to)
      PROVE  BusInv'
  <2> DEFINE f == [Frame(cmd, r, None, FALSE, 0, <<>>) EXCEPT !.to = to]
  <2>1. f \in FrameSet
    <3>1. <<>> \in Seq(0..255) /\ cmd \in FrameCmd /\ cmd \notin {"FILL", "LONG"}
          /\ "me" \in Address
      BY DEF FrameCmd, Address
    <3>2. Frame(cmd, r, None, FALSE, 0, <<>>) \in FrameSet
      BY <3>1 DEF FrameSet, Frame
    <3> QED
      BY <3>2, FrameFields
  <2>2. out' = [out EXCEPT ![r] = <<f>>] /\ UNCHANGED <<frames, rx_buffer, whole>>
    BY <1>3 DEF SendSingle
  <2> HIDE DEF f
  <2> QED
    BY <2>1, <2>2 DEF BusInv
<1>4. ASSUME NEW r \in Remote, Transmit(r) PROVE BusInv'
  <2>1. PICK room \in BOOLEAN :
          LET f == [Head(out[r]) EXCEPT !.whole = whole[r] /\ room] IN
          /\ Ring!Enqueue(f)
          /\ whole' = [q \in Remote |-> whole[q] /\ room /\ ~Disturbs(f, q)]
    BY <1>4 DEF Transmit
  <2> DEFINE f == [Head(out[r]) EXCEPT !.whole = whole[r] /\ room]
  <2>2. out[r] # <<>> /\ out[r] \in Seq(FrameSet) /\ out' = [out EXCEPT ![r] = Tail(@)]
        /\ UNCHANGED rx_buffer
    BY <1>4 DEF Transmit, BusInv
  <2>3. Head(out[r]) \in FrameSet /\ Tail(out[r]) \in Seq(FrameSet)
    BY <2>2
  <2>4. (whole[r] /\ room) \in BOOLEAN
    OBVIOUS
  <2>5. f \in FrameSet
    BY <2>3, <2>4, FrameFields
  <2>6. Ring!Enqueue(f) /\ whole' = [q \in Remote |-> whole[q] /\ room /\ ~Disturbs(f, q)]
    BY <2>1
  <2> HIDE DEF f
  <2>7. frames' \in Seq(FrameSet) /\ Len(frames') <= RxFrames
    BY <2>5, <2>6, EnqueueKeeps DEF BusInv
  <2>8. out' \in [Remote -> Seq(FrameSet)]
    BY <2>2, <2>3 DEF BusInv
  <2>9. whole' \in [Remote -> BOOLEAN]
    BY <2>6
  <2> QED
    BY <2>2, <2>7, <2>8, <2>9 DEF BusInv
<1>5. ASSUME NEW r \in Remote, TransmitTimesOut(r) PROVE BusInv'
  <2>1. out[r] # <<>> /\ out[r] \in Seq(FrameSet) /\ out' = [out EXCEPT ![r] = Tail(@)]
        /\ whole' = [whole EXCEPT ![r] = FALSE] /\ UNCHANGED <<frames, rx_buffer>>
    BY <1>5 DEF TransmitTimesOut, BusInv
  <2>2. Tail(out[r]) \in Seq(FrameSet)
    BY <2>1
  <2> QED
    BY <2>1, <2>2 DEF BusInv
<1>6. ASSUME Ring!Dequeue, UNCHANGED <<rx_buffer, out, whole>> PROVE BusInv'
  <2>1. frames' \in Seq(FrameSet) /\ Len(frames') <= RxFrames
    BY <1>6, DequeueKeeps DEF BusInv
  <2> QED
    BY <1>6, <2>1 DEF BusInv
<1>7. CASE FillFrame
  <2>1. frames' \in Seq(FrameSet) /\ Len(frames') <= RxFrames /\ rxmsg' \in FrameSet
    BY <1>7, DequeueKeeps DEF BusInv, FillFrame, Receive
  <2>2. rxmsg'.cmd \in {"FILL", "LONG"} /\ UNCHANGED <<out, whole>>
        /\ rx_buffer' \in {rx_buffer, CopyIn(rxmsg'.off, rxmsg'.data)}
    BY <1>7 DEF FillFrame, Receive
  <2>3. rxmsg'.off \in Nat /\ rxmsg'.data \in Seq(0..255)
        /\ rxmsg'.off + Len(rxmsg'.data) <= RxBufferSize
    BY <2>1, <2>2, FrameFields
  <2>4. DOMAIN CopyIn(rxmsg'.off, rxmsg'.data) = 0..(RxBufferSize - 1)
    BY <2>3, CopyStaysInside DEF BusInv
  <2> QED
    BY <2>1, <2>2, <2>4 DEF BusInv
<1>8. CASE Ignore \/ SetFrame \/ ShortFrame \/ StatusFrame
  BY <1>6, <1>8 DEF Ignore, SetFrame, ShortFrame, StatusFrame, Receive, bvars
<1>9. CASE ProcessFrame
  BY <1>6, <1>9 DEF ProcessFrame, Receive
<1>11. "other" \in Address /\ "SET" \in {"SET", "STATUS"} /\ "STATUS" \in {"SET", "STATUS"}
  BY DEF Address
<1> QED
  BY <1>1, <1>2, <1>3, <1>4, <1>5, <1>7, <1>8, <1>9, <1>11 DEF CanNext

-----------------------------------------------------------------------------
(* The status table.  The slot is the controller's own or, the slots being *)
(* filled from the first on, the controller is in none.                    *)
LEMMA StatusStep ==
  ASSUME BusInv, StatusInv, CanNext
  PROVE  StatusInv'
<1> USE CommCanAssumption, CommandsAssumption
<1>1. CASE stat_msgs' = stat_msgs
  BY <1>1 DEF StatusInv, OneStatusSlot
<1>2. CASE StatusFrame
  <2> DEFINE id == rxmsg'.from
             S == StatusSlot(id)
  <2>1. id \in Remote /\ id # None
    BY <1>2, DequeueKeeps, FrameFields DEF BusInv, StatusFrame, Receive
  <2>2. stat_msgs' = [i \in 1..StatusSlots |-> IF i \in S THEN id ELSE stat_msgs[i]]
    BY <1>2 DEF StatusFrame
  <2> HIDE DEF id
  <2>3. \A i, j \in S : i = j
    BY DEF StatusSlot
  <2>4. S \subseteq 1..StatusSlots
    BY DEF StatusSlot
  <2>5. \A i \in S : \A j \in 1..StatusSlots : stat_msgs[j] = id => j = i
    <3> SUFFICES ASSUME NEW i \in S, NEW j \in 1..StatusSlots, stat_msgs[j] = id PROVE j = i
      OBVIOUS
    <3>1. CASE stat_msgs[i] = id
      BY <2>1, <2>4, <3>1 DEF StatusInv, OneStatusSlot
    <3>2. CASE stat_msgs[i] = None
      <4>1. i <= j
        BY DEF StatusSlot
      <4>2. i = j \/ stat_msgs[i] # None
        BY <2>1, <2>4, <4>1 DEF StatusInv
      <4> QED
        BY <3>2, <4>2
    <3> QED
      BY <3>1, <3>2 DEF StatusSlot
  <2>6. \A i \in S : \A k \in 1..(i - 1) : stat_msgs[k] # None
    BY DEF StatusSlot
  <2> HIDE DEF S
  <2>7. stat_msgs' \in [1..StatusSlots -> Remote \cup {None}]
    BY <2>1, <2>2 DEF StatusInv
  <2>8. \A i, j \in 1..StatusSlots : i < j /\ stat_msgs'[j] # None => stat_msgs'[i] # None
    BY <2>1, <2>2, <2>6 DEF StatusInv
  <2>9. OneStatusSlot'
    BY <2>1, <2>2, <2>3, <2>5 DEF StatusInv, OneStatusSlot
  <2> QED
    BY <2>7, <2>8, <2>9 DEF StatusInv
<1>3. CASE CanNext /\ ~StatusFrame
  BY <1>1, <1>3 DEF CanNext, bvars, SendBuffer, SendSingle, Transmit, TransmitTimesOut, Ignore,
     SetFrame, FillFrame, ShortFrame, ProcessFrame
<1> QED
  BY <1>2, <1>3

-----------------------------------------------------------------------------
(* A thread whose packet, place and bytes stay the same still has its      *)
(* reply in hand; the CAN thread's also needs the sender of what it        *)
(* relays.                                                                 *)
LEMMA HandKept ==
  ASSUME ReplyTypes, NEW s \in Thread, InHand(s),
         place'[s] = place[s], command'[s] = command[s], route'[s] = route[s], asker'[s] = asker[s],
         command[s] = "relay" \/ send_buffer' = send_buffer \/ place[s] \in {"idle", "process"},
         place[s] \in {"copy", "crc"} => tx'[asker[s]] = tx[asker[s]],
         rx_buffer_last_id' = rx_buffer_last_id \/ s # CAN
  PROVE  InHand(s)'
<1>1. Origin(s)' = Origin(s)
  BY DEF Origin, ReplyTypes
<1> QED
  BY <1>1 DEF InHand, Both

(* What leaves commands.c alone.                                           *)
LEMMA SameKeeps ==
  ASSUME ReplyInv,
         UNCHANGED <<send_func, send_buffer, rx_buffer_last_id, place, command, route, tx,
                     asker, intact, sent>>
  PROVE  ReplyInv'
<1>1. ReplyTypes' /\ IntactIsCurrent' /\ OneSender' /\ ReplyReachesAsker'
  BY DEF ReplyInv, ReplyTypes, IntactIsCurrent, OneSender, ReplyReachesAsker, Destination
<1>2. ReplyInHand'
  BY HandKept DEF ReplyInv, ReplyInHand
<1> QED
  BY <1>1, <1>2 DEF ReplyInv

(* Threads that send go on sending alone when no thread starts to.         *)
LEMMA NoNewSender ==
  ASSUME OneSender,
         \A s \in Thread : place'[s] \in {"copy", "crc"} =>
                             place[s] \in {"copy", "crc"} /\ route'[s] = route[s]
  PROVE  OneSender'
  BY DEF OneSender

(* A request makes its asker the one that replies go to.                   *)
LEMMA BeginKeeps ==
  ASSUME ReplyInv, NEW t \in Thread, t # DETECT, NEW a \in Asker, Begin(t, a), Destination' = a,
         send_func' \in Port \cup {CAN}, rx_buffer_last_id' \in Remote \cup {None},
         rx_buffer_last_id' = rx_buffer_last_id \/ t = CAN,
         place[t] = "idle", place' = [place EXCEPT ![t] = "process"],
         NEW c, command' = [command EXCEPT ![t] = c], c # "relay" \/ t = CAN,
         UNCHANGED <<send_buffer, route, tx, sent>>
  PROVE  ReplyInv'
<1> USE Names DEF ReplyInv
<1>1. asker' = [asker EXCEPT ![t] = a] /\ intact' = [e \in Exchange |-> e = t \/ (intact[e] /\ asker[e] = a)]
  BY DEF Begin
<1>2. ReplyTypes'
  <2>1. asker' \in [Exchange -> Asker \cup {None}]
    BY <1>1 DEF ReplyTypes
  <2>2. intact' \in [Exchange -> BOOLEAN]
    BY <1>1
  <2>3. place' \in [Thread -> Place]
    BY DEF ReplyTypes, Place
  <2>4. command' = [s \in Thread |-> command'[s]] /\ \A s \in Thread \ {CAN} : command'[s] # "relay"
    BY DEF ReplyTypes
  <2> QED
    BY <2>1, <2>2, <2>3, <2>4 DEF ReplyTypes
<1>3. IntactIsCurrent'
  <2> SUFFICES ASSUME NEW x \in Exchange, intact'[x] PROVE asker'[x] \in Asker /\ asker'[x] = a
    BY DEF IntactIsCurrent
  <2>1. CASE x = t
    BY <1>1, <2>1 DEF ReplyTypes
  <2>2. CASE x # t
    BY <1>1, <2>2 DEF ReplyTypes
  <2> QED
    BY <2>1, <2>2
<1>4. ReplyInHand'
  <2> SUFFICES ASSUME NEW s \in Thread, intact'[s] PROVE InHand(s)'
    BY DEF ReplyInHand
  <2>1. CASE s = t
    BY <2>1 DEF ReplyTypes, InHand
  <2>2. CASE s # t
    <3>1. /\ intact[s] /\ asker'[s] = asker[s] /\ place'[s] = place[s] /\ command'[s] = command[s]
          /\ rx_buffer_last_id' = rx_buffer_last_id \/ s # CAN
      BY <1>1, <2>2 DEF ReplyTypes
    <3> QED
      BY <3>1, HandKept DEF ReplyInHand
  <2> QED
    BY <2>1, <2>2
<1>5. ReplyReachesAsker'
  BY DEF ReplyReachesAsker
<1>6. OneSender'
  BY NoNewSender DEF ReplyTypes
<1> QED
  BY <1>2, <1>3, <1>4, <1>5, <1>6

(* An exchange that goes on elsewhere keeps its asker.                     *)
LEMMA ContinueKeeps ==
  ASSUME ReplyInv, NEW t \in Exchange, NEW e \in {RELAY, SIGNAL, DETECT}, Continue(t, e),
         place' \in [Thread -> Place],
         \A s \in Thread : place'[s] = place[s] \/ place'[s] \in {"idle", "process"},
         e = DETECT => place'[e] = "process",
         UNCHANGED <<send_func, send_buffer, rx_buffer_last_id, command, route, tx, sent>>
  PROVE  ReplyInv'
<1> USE Names DEF ReplyInv
<1>1. asker' = [asker EXCEPT ![e] = asker[t]] /\ intact' = [intact EXCEPT ![e] = intact[t]]
  BY DEF Continue
<1>0. e \in Exchange /\ Destination' = Destination
  BY DEF Destination
<1>2. ReplyTypes'
  BY <1>0, <1>1 DEF ReplyTypes
<1>3. IntactIsCurrent'
  <2> SUFFICES ASSUME NEW x \in Exchange, intact'[x]
               PROVE  asker'[x] \in Asker /\ asker'[x] = Destination
    BY <1>0 DEF IntactIsCurrent
  <2>1. CASE x = e
    BY <1>0, <1>1, <2>1 DEF IntactIsCurrent, ReplyTypes
  <2>2. CASE x # e
    BY <1>0, <1>1, <2>2 DEF IntactIsCurrent, ReplyTypes
  <2> QED
    BY <2>1, <2>2
<1>4. ReplyInHand'
  <2> SUFFICES ASSUME NEW s \in Thread, intact'[s] PROVE InHand(s)'
    BY DEF ReplyInHand
  <2>1. CASE place'[s] \in {"idle", "process"}
    BY <2>1 DEF InHand
  <2>2. CASE place'[s] \notin {"idle", "process"}
    <3>1. s # e /\ place'[s] = place[s]
      BY <2>2
    <3>2. intact[s] /\ asker'[s] = asker[s]
      BY <1>1, <3>1 DEF ReplyTypes
    <3> QED
      BY <3>1, <3>2, HandKept DEF ReplyInHand
  <2> QED
    BY <2>1, <2>2
<1>5. ReplyReachesAsker'
  BY DEF ReplyReachesAsker
<1>6. OneSender'
  BY NoNewSender
<1> QED
  BY <1>2, <1>3, <1>4, <1>5, <1>6

(* A message of another controller changes where CAN replies go: those to  *)
(* another are disturbed.                                                  *)
LEMMA RetargetKeeps ==
  ASSUME ReplyInv, NEW r \in Remote, place[CAN] = "idle", Retarget(r), rx_buffer_last_id' = r,
         UNCHANGED <<send_func, send_buffer, place, command, route, tx, sent>>
  PROVE  ReplyInv'
<1> USE Names DEF ReplyInv
<1>1. intact' = [e \in Exchange |-> intact[e] /\ asker[e] \notin Remote \ {r}] /\ asker' = asker
  BY DEF Retarget
<1>2. ReplyTypes'
  <2>1. intact' \in [Exchange -> BOOLEAN]
    BY <1>1
  <2> QED
    BY <1>1, <2>1 DEF ReplyTypes
<1>3. IntactIsCurrent'
  BY <1>1 DEF IntactIsCurrent, ReplyTypes, Destination, Asker
<1>4. ReplyInHand'
  <2> SUFFICES ASSUME NEW s \in Thread, intact[s] PROVE InHand(s)'
    BY <1>1 DEF ReplyInHand
  <2>1. CASE s = CAN
    BY <2>1 DEF InHand
  <2>2. CASE s # CAN
    BY <1>1, <2>2, HandKept DEF ReplyInHand
  <2> QED
    BY <2>1, <2>2
<1>5. ReplyReachesAsker'
  BY DEF ReplyReachesAsker
<1>6. OneSender'
  BY DEF OneSender
<1> QED
  BY <1>2, <1>3, <1>4, <1>5, <1>6

(* So does the answer to a forwarded request, which the CAN thread takes   *)
(* on.                                                                     *)
LEMMA AnswerKeeps ==
  ASSUME ReplyInv, NEW r \in Remote, place[CAN] = "idle", Answer(r), rx_buffer_last_id' = r,
         place' = [place EXCEPT ![CAN] = "send"], command' = [command EXCEPT ![CAN] = "relay"],
         UNCHANGED <<send_func, send_buffer, route, tx, sent>>
  PROVE  ReplyInv'
<1> USE Names DEF ReplyInv
<1>1. /\ \A e \in Exchange \ {CAN} : intact'[e] = (intact[e] /\ asker[e] \notin Remote \ {r})
      /\ intact'[CAN] = (intact[RELAY] /\ asker[RELAY] \notin Remote \ {r})
      /\ intact' \in [Exchange -> BOOLEAN]
      /\ asker' = [asker EXCEPT ![CAN] = asker[RELAY]]
  BY DEF Answer
<1>2. ReplyTypes'
  <2>1. asker' \in [Exchange -> Asker \cup {None}] /\ place' \in [Thread -> Place]
    BY <1>1 DEF ReplyTypes, Place
  <2>2. command' = [s \in Thread |-> command'[s]] /\ \A s \in Thread \ {CAN} : command'[s] # "relay"
    BY DEF ReplyTypes
  <2> QED
    BY <1>1, <2>1, <2>2 DEF ReplyTypes
<1>3. IntactIsCurrent'
  <2> SUFFICES ASSUME NEW x \in Exchange, intact'[x]
               PROVE  asker'[x] \in Asker /\ asker'[x] = Destination'
    BY DEF IntactIsCurrent
  <2>0. ASSUME NEW y \in Exchange, intact[y], asker[y] \notin Remote \ {r}
        PROVE  asker[y] \in Asker /\ asker[y] = Destination'
    BY <2>0 DEF IntactIsCurrent, ReplyTypes, Destination, Asker
  <2>1. CASE x = CAN
    BY <1>1, <2>0, <2>1 DEF ReplyTypes
  <2>2. CASE x # CAN
    BY <1>1, <2>0, <2>2 DEF ReplyTypes
  <2> QED
    BY <2>1, <2>2
<1>4. ReplyInHand'
  <2> SUFFICES ASSUME NEW s \in Thread, intact'[s] PROVE InHand(s)'
    BY DEF ReplyInHand
  <2>1. CASE s = CAN
    BY <2>1 DEF InHand, ReplyTypes
  <2>2. CASE s # CAN
    <3>1. intact[s] /\ asker'[s] = asker[s] /\ place'[s] = place[s] /\ command'[s] = command[s]
      BY <1>1, <2>2 DEF ReplyTypes
    <3> QED
      BY <2>2, <3>1, HandKept DEF ReplyInHand
  <2> QED
    BY <2>1, <2>2
<1>5. ReplyReachesAsker'
  BY DEF ReplyReachesAsker
<1>6. OneSender'
  BY NoNewSender DEF ReplyTypes
<1> QED
  BY <1>2, <1>3, <1>4, <1>5, <1>6

(* The reply in send_buffer.  Writing to it disturbs whoever has not sent  *)
(* what was there.                                                         *)
LEMMA FillKeeps ==
  ASSUME ReplyInv, NEW t \in Thread, Fill(t) \/ FillRest(t)
  PROVE  ReplyInv'
<1> USE Names DEF ReplyInv
<1>1. /\ intact' = [e \in Exchange |-> intact[e] /\ e \notin Replying \ {t}]
      /\ UNCHANGED <<send_func, rx_buffer_last_id, command, route, tx, asker, sent>>
  BY DEF Fill, FillRest, Disturb
<1>0. /\ \/ place[t] = "process" /\ place' = [place EXCEPT ![t] = "fill"] /\ send_buffer' = <<t, send_buffer[2]>>
         \/ place[t] = "fill" /\ place' = [place EXCEPT ![t] = "send"] /\ send_buffer' = <<send_buffer[1], t>>
  BY DEF Fill, FillRest
<1>2. ReplyTypes'
  <2>1. intact' \in [Exchange -> BOOLEAN]
    BY <1>1
  <2>2. place' \in [Thread -> Place] /\ send_buffer' \in Maker \X Maker
    BY <1>0 DEF ReplyTypes, Place, Maker
  <2> QED
    BY <1>1, <2>1, <2>2 DEF ReplyTypes
<1>3. IntactIsCurrent'
  BY <1>1 DEF IntactIsCurrent, Destination
<1>4. ReplyInHand'
  <2> SUFFICES ASSUME NEW s \in Thread, intact'[s] PROVE InHand(s)'
    BY DEF ReplyInHand
  <2>0. intact[s] /\ InHand(s) /\ s \notin Replying \ {t}
    BY <1>1 DEF ReplyInHand
  <2>1. CASE s = t
    <3>1. place[t] = "fill" /\ command[t] # "relay" => send_buffer[1] = t
      BY <2>0, <2>1 DEF InHand
    <3>2. CASE place'[t] = "fill" /\ send_buffer'[1] = t
      BY <2>1, <3>2 DEF InHand
    <3>3. CASE place[t] = "fill" /\ place'[t] = "send" /\ send_buffer' = <<send_buffer[1], t>>
      BY <1>1, <2>1, <3>1, <3>3 DEF InHand, Both
    <3> QED
      BY <1>0, <3>2, <3>3 DEF ReplyTypes
  <2>2. CASE s # t
    <3>1. command[s] = "relay" \/ place[s] \in {"idle", "process"}
      BY <2>0, <2>2 DEF Replying, ReplyTypes, Place
    <3>2. place'[s] = place[s]
      BY <1>0, <2>2 DEF ReplyTypes
    <3> QED
      BY <1>1, <2>0, <3>1, <3>2, HandKept
  <2> QED
    BY <2>1, <2>2
<1>5. ReplyReachesAsker'
  BY <1>1 DEF ReplyReachesAsker
<1>6. OneSender'
  BY <1>0, <1>1, NoNewSender DEF ReplyTypes
<1> QED
  BY <1>2, <1>3, <1>4, <1>5, <1>6

(* The call through send_func takes an undisturbed reply to its asker.     *)
LEMMA SendKeeps ==
  ASSUME ReplyInv, NEW t \in Thread, Send(t)
  PROVE  ReplyInv'
<1> USE Names DEF ReplyInv
<1>1. /\ UNCHANGED <<send_func, send_buffer, rx_buffer_last_id, command, tx, asker, intact, sent>>
      /\ place[t] = "send" /\ route' = [route EXCEPT ![t] = Destination]
      /\ \E q \in {"idle", "lock"} : place' = [place EXCEPT ![t] = q]
  BY DEF Send
<1>2. ReplyTypes'
  <2>1. place' \in [Thread -> Place] /\ route' \in [Thread -> Asker \cup {None}]
    BY <1>1 DEF ReplyTypes, Place, Destination, Asker
  <2> QED
    BY <1>1, <2>1 DEF ReplyTypes
<1>3. IntactIsCurrent'
  BY <1>1 DEF IntactIsCurrent, Destination
<1>4. ReplyInHand'
  <2> SUFFICES ASSUME NEW s \in Thread, intact[s] PROVE InHand(s)'
    BY <1>1 DEF ReplyInHand
  <2>1. CASE s = t
    <3>1. InHand(t) /\ asker[t] = Destination
      BY <2>1 DEF ReplyInHand, IntactIsCurrent
    <3>2. route'[t] = Destination /\ place'[t] \in {"idle", "lock"}
      BY <1>1 DEF ReplyTypes
    <3> QED
      BY <1>1, <2>1, <3>1, <3>2 DEF InHand, Both
  <2>2. CASE s # t
    <3>1. place'[s] = place[s] /\ route'[s] = route[s]
      BY <1>1, <2>2 DEF ReplyTypes
    <3> QED
      BY <1>1, <3>1, HandKept DEF ReplyInHand
  <2> QED
    BY <2>1, <2>2
<1>5. ReplyReachesAsker'
  BY <1>1 DEF ReplyReachesAsker
<1>6. OneSender'
  <2>1. ASSUME NEW s \in Thread, place'[s] \in {"copy", "crc"}
        PROVE  place[s] \in {"copy", "crc"} /\ route'[s] = route[s]
    BY <1>1, <2>1 DEF ReplyTypes
  <2> QED
    BY <2>1, NoNewSender
<1> QED
  BY <1>2, <1>3, <1>4, <1>5, <1>6

(* What an undisturbed thread sends from is its own.                       *)
LEMMA SourceIsOwn ==
  ASSUME NEW t \in Thread, InHand(t), place[t] \in {"lock", "copy", "crc"}
  PROVE  Source(t) = Both(Origin(t))
  BY DEF InHand, Source, Origin

(* A copied half changes what is on the way to that receiver only.         *)
LEMMA CopyHalf ==
  ASSUME ReplyTypes, NEW d \in Asker, NEW h \in {1, 2}, NEW x \in Maker,
         tx' = [tx EXCEPT ![d][h] = x]
  PROVE  /\ tx' \in [Asker -> Maker \X Maker]
         /\ tx'[d] = IF h = 1 THEN <<x, tx[d][2]>> ELSE <<tx[d][1], x>>
         /\ \A e \in Asker : e # d => tx'[e] = tx[e]
<1> DEFINE new == [tx[d] EXCEPT ![h] = x]
<1>1. tx[d] \in Maker \X Maker
  BY DEF ReplyTypes
<1>2. new \in Maker \X Maker /\ new = IF h = 1 THEN <<x, tx[d][2]>> ELSE <<tx[d][1], x>>
  <2>1. PICK a \in Maker, b \in Maker : tx[d] = <<a, b>>
    BY <1>1
  <2>2. CASE h = 1
    BY <2>1, <2>2
  <2>3. CASE h = 2
    BY <2>1, <2>3
  <2> QED
    BY <2>2, <2>3
<1>3. tx' = [tx EXCEPT ![d] = new]
  OBVIOUS
<1> HIDE DEF new
<1> QED
  BY <1>2, <1>3 DEF ReplyTypes

(* Copying a half: nobody else is sending to that receiver, or is          *)
(* disturbed.                                                              *)
LEMMA CopyKeeps ==
  ASSUME ReplyInv, NEW t \in Thread, CopyFirst(t) \/ CopyRest(t)
  PROVE  ReplyInv'
<1> USE Names DEF ReplyInv
<1> DEFINE d == route[t]
<1>0. PICK h \in {1, 2} :
        /\ tx' = [tx EXCEPT ![d][h] = Source(t)[h]]
        /\ h = 1 => /\ place[t] = "lock" /\ place' = [place EXCEPT ![t] = "copy"]
                    /\ d \in Mutexed => Sending(d) = {}
        /\ h = 2 => place[t] = "copy" /\ place' = [place EXCEPT ![t] = "crc"]
  <2>1. CASE CopyFirst(t)
    <3>1. /\ tx' = [tx EXCEPT ![d][1] = Source(t)[1]]
          /\ place[t] = "lock" /\ place' = [place EXCEPT ![t] = "copy"]
          /\ d \in Mutexed => Sending(d) = {}
      BY <2>1 DEF CopyFirst, Copy
    <3> QED
      BY <3>1
  <2>2. CASE CopyRest(t)
    <3>1. /\ tx' = [tx EXCEPT ![d][2] = Source(t)[2]]
          /\ place[t] = "copy" /\ place' = [place EXCEPT ![t] = "crc"]
      BY <2>2 DEF CopyRest, Copy
    <3> QED
      BY <3>1
  <2> QED
    BY <2>1, <2>2
<1>1. /\ intact' = [e \in Exchange |-> intact[e] /\ e \notin (IF d \in Mutexed THEN {} ELSE Sending(d) \ {t})]
      /\ UNCHANGED <<send_func, send_buffer, rx_buffer_last_id, command, route, asker, sent>>
  BY DEF CopyFirst, CopyRest, Copy, Disturb
<1> HIDE DEF d
<1>2. place' \in [Thread -> Place] /\ intact' \in [Exchange -> BOOLEAN]
  BY <1>0, <1>1 DEF ReplyTypes, Place
<1>3. Source(t)[h] \in Maker
  BY DEF Source, Both, Maker, ReplyTypes
<1>4. tx' \in [Asker -> Maker \X Maker]
  <2>1. CASE d \in Asker
    BY <1>0, <1>3, <2>1, CopyHalf
  <2>2. CASE d \notin Asker
    BY <1>0, <2>2 DEF ReplyTypes
  <2> QED
    BY <2>1, <2>2
<1>5. ReplyTypes'
  BY <1>1, <1>2, <1>4 DEF ReplyTypes
<1>6. IntactIsCurrent'
  BY <1>1 DEF IntactIsCurrent, Destination
<1>7. ReplyInHand'
  <2> SUFFICES ASSUME NEW s \in Thread, intact'[s] PROVE InHand(s)'
    BY DEF ReplyInHand
  <2>0. intact[s] /\ InHand(s) /\ asker[s] \in Asker
    BY <1>1 DEF ReplyInHand, IntactIsCurrent
  <2>1. CASE s = t
    <3>1. d = asker[t] /\ d \in Asker /\ Source(t) = Both(Origin(t)) /\ Origin(t)' = Origin(t)
      BY <1>0, <1>1, <2>0, <2>1, SourceIsOwn DEF InHand, Origin, d
    <3>2. tx'[d] = IF h = 1 THEN <<Origin(t), tx[d][2]>> ELSE <<tx[d][1], Origin(t)>>
      <4>1. Source(t)[h] = Origin(t)
        BY <3>1 DEF Both
      <4>2. Origin(t) \in Maker /\ tx' = [tx EXCEPT ![d][h] = Origin(t)]
        BY <1>0, <1>3, <4>1
      <4>3. d \in Asker /\ h \in {1, 2} /\ ReplyTypes
        BY <3>1
      <4> QED
        BY <4>2, <4>3, CopyHalf
    <3>3. command[t] # "relay" => send_buffer' = Both(t)
      BY <1>0, <1>1, <2>0, <2>1 DEF InHand
    <3>4. route'[t] = asker'[t] /\ asker'[t] = d /\ command'[t] = command[t]
      BY <1>1, <3>1 DEF d
    <3>5. CASE h = 1
      <4>1. place'[t] = "copy" /\ tx'[d][1] = Origin(t)
        BY <1>0, <3>2, <3>5 DEF ReplyTypes
      <4> QED
        BY <2>1, <3>1, <3>3, <3>4, <4>1 DEF InHand
    <3>6. CASE h = 2
      <4>1. place'[t] = "crc" /\ tx[d][1] = Origin(t)
        BY <1>0, <2>0, <2>1, <3>1, <3>6 DEF ReplyTypes, InHand
      <4>2. tx'[d] = Both(Origin(t))
        BY <3>2, <3>6, <4>1 DEF Both
      <4> QED
        BY <2>1, <3>1, <3>3, <3>4, <4>1, <4>2 DEF InHand
    <3> QED
      BY <3>5, <3>6
  <2>2. CASE s # t
    <3>1. place'[s] = place[s]
      BY <1>0, <2>2 DEF ReplyTypes
    <3>2. place[s] \in {"copy", "crc"} => asker[s] # d
      <4>1. ASSUME place[s] \in {"copy", "crc"}, route[s] = d PROVE FALSE
        <5>1. s \in Sending(d)
          BY <4>1 DEF Sending
        <5>2. d \in Mutexed
          BY <1>1, <2>2, <5>1
        <5>3. h = 2 /\ place[t] = "copy"
          BY <1>0, <5>1, <5>2
        <5> QED
          BY <2>2, <4>1, <5>2, <5>3 DEF OneSender, d
      <4> QED
        BY <2>0, <4>1 DEF InHand
    <3>3. place[s] \in {"copy", "crc"} => tx'[asker[s]] = tx[asker[s]]
      <4>1. CASE d \in Asker
        BY <1>0, <1>3, <2>0, <3>2, <4>1, CopyHalf
      <4>2. CASE d \notin Asker
        BY <1>0, <4>2 DEF ReplyTypes
      <4> QED
        BY <4>1, <4>2
    <3> QED
      BY <1>1, <2>0, <3>1, <3>3, HandKept
  <2> QED
    BY <2>1, <2>2
<1>8. OneSender'
  <2> SUFFICES ASSUME NEW u \in Thread, NEW v \in Thread, u # v, route[u] = route[v],
                      route[u] \in Mutexed, place'[u] \in {"copy", "crc"}, place'[v] \in {"copy", "crc"}
               PROVE  FALSE
    BY <1>1 DEF OneSender
  <2>1. CASE u # t /\ v # t
    BY <1>0, <2>1 DEF OneSender, ReplyTypes
  <2>2. CASE h = 2
    BY <1>0, <2>2 DEF OneSender, ReplyTypes
  <2>3. CASE h = 1 /\ u = t
    <3>1. v \in Sending(d) /\ d \in Mutexed
      BY <1>0, <2>3 DEF Sending, ReplyTypes, d
    <3> QED
      BY <1>0, <2>3, <3>1
  <2>4. CASE h = 1 /\ v = t
    <3>1. u \in Sending(d) /\ d \in Mutexed
      BY <1>0, <2>4 DEF Sending, ReplyTypes, d
    <3> QED
      BY <1>0, <2>4, <3>1
  <2> QED
    BY <2>1, <2>2, <2>3, <2>4
<1>9. ReplyReachesAsker'
  BY <1>1 DEF ReplyReachesAsker
<1> QED
  BY <1>5, <1>6, <1>7, <1>8, <1>9

(* The CRC completes a packet: an undisturbed one is whole and goes to its *)
(* asker.                                                                  *)
LEMMA SendCrcKeeps ==
  ASSUME ReplyInv, NEW t \in Thread, SendCrc(t)
  PROVE  ReplyInv'
<1> USE Names DEF ReplyInv
<1>1. /\ UNCHANGED <<send_func, send_buffer, rx_buffer_last_id, command, tx, asker, intact>>
      /\ place[t] = "crc" /\ place' = [place EXCEPT ![t] = "idle"]
      /\ route' = [route EXCEPT ![t] = None]
  BY DEF SendCrc
<1>2. ReplyTypes'
  <2>1. place' \in [Thread -> Place] /\ route' \in [Thread -> Asker \cup {None}]
    BY <1>1 DEF ReplyTypes, Place
  <2> QED
    BY <1>1, <2>1 DEF ReplyTypes
<1>3. IntactIsCurrent'
  BY <1>1 DEF IntactIsCurrent, Destination
<1>4. ReplyInHand'
  <2> SUFFICES ASSUME NEW s \in Thread, intact[s] PROVE InHand(s)'
    BY <1>1 DEF ReplyInHand
  <2>1. CASE s = t
    BY <1>1, <2>1 DEF InHand, ReplyTypes
  <2>2. CASE s # t
    <3>1. place'[s] = place[s] /\ route'[s] = route[s]
      BY <1>1, <2>2 DEF ReplyTypes
    <3> QED
      BY <1>1, <3>1, HandKept DEF ReplyInHand
  <2> QED
    BY <2>1, <2>2
<1>5. OneSender'
  <2>1. ASSUME NEW s \in Thread, place'[s] \in {"copy", "crc"}
        PROVE  place[s] \in {"copy", "crc"} /\ route'[s] = route[s]
    BY <1>1, <2>1 DEF ReplyTypes
  <2> QED
    BY <2>1, NoNewSender
<1>6. ReplyReachesAsker'
  <2> DEFINE what == IF tx[route[t]] = Source(t) THEN tx[route[t]] ELSE Both(Broken)
  <2>1. intact[t] => route[t] = asker[t] /\ what = Both(Origin(t))
    <3> SUFFICES ASSUME intact[t] PROVE route[t] = asker[t] /\ what = Both(Origin(t))
      OBVIOUS
    <3>1. InHand(t)
      BY DEF ReplyInHand
    <3>2. route[t] = asker[t] /\ tx[route[t]] = Both(Origin(t))
      BY <1>1, <3>1 DEF InHand
    <3>3. Source(t) = Both(Origin(t))
      BY <1>1, <3>1, SourceIsOwn
    <3> QED
      BY <3>2, <3>3
  <2>2. sent' = [by |-> Origin(t), to |-> route[t], asker |-> asker[t], intact |-> intact[t], what |-> what]
    BY DEF SendCrc
  <2> HIDE DEF what
  <2>3. /\ sent'.intact = intact[t] /\ sent'.to = route[t] /\ sent'.asker = asker[t]
        /\ sent'.what = what /\ sent'.by = Origin(t)
    BY <2>2
  <2> QED
    BY <2>1, <2>3 DEF ReplyReachesAsker
<1> QED
  BY <1>2, <1>3, <1>4, <1>5, <1>6

-----------------------------------------------------------------------------
(* Every step of commands.c, the replies of the detect thread included,    *)
(* keeps the route of a reply.                                             *)
LEMMA CommandsKeep ==
  ASSUME ReplyInv, CommandsStep
  PROVE  ReplyInv'
<1> USE Names
<1>1. ASSUME NEW p \in Port, NEW c \in Command, Request(p, c) PROVE ReplyInv'
  <2>1. /\ p \in Thread /\ p # DETECT /\ p \in Asker /\ Begin(p, p) /\ send_func' = p
        /\ place[p] = "idle" /\ place' = [place EXCEPT ![p] = "process"]
        /\ command' = [command EXCEPT ![p] = c] /\ c # "relay"
        /\ UNCHANGED <<send_buffer, rx_buffer_last_id, route, tx, sent>>
    BY <1>1 DEF Request, Asker, Command
  <2>2. Destination' = p
    BY <2>1 DEF Destination
  <2>3. rx_buffer_last_id' \in Remote \cup {None} /\ send_func' \in Port \cup {CAN}
    BY <2>1 DEF ReplyInv, ReplyTypes
  <2> QED
    BY <2>1, <2>2, <2>3, BeginKeeps
<1>2. ASSUME NEW t \in Thread, NoReply(t) PROVE ReplyInv'
  <2>1. /\ place' = [place EXCEPT ![t] = "idle"] /\ t \in Exchange
        /\ UNCHANGED <<send_func, send_buffer, rx_buffer_last_id, command, route, tx, sent>>
    BY <1>2 DEF NoReply
  <2>2. /\ place' \in [Thread -> Place]
        /\ \A s \in Thread : place'[s] = place[s] \/ place'[s] = "idle"
    BY <2>1 DEF ReplyInv, ReplyTypes, Place
  <2>3. CASE Continue(t, RELAY) \/ Continue(t, SIGNAL)
    <3>1. PICK e \in {RELAY, SIGNAL} : Continue(t, e)
      BY <2>3
    <3>2. e \in {RELAY, SIGNAL, DETECT} /\ e # DETECT
      BY <3>1
    <3>3. \A s \in Thread : place'[s] = place[s] \/ place'[s] \in {"idle", "process"}
      BY <2>2
    <3> QED
      BY <2>1, <2>2, <3>1, <3>2, <3>3, ContinueKeeps
  <2>4. CASE UNCHANGED <<asker, intact>>
    <3>1. ReplyTypes' /\ IntactIsCurrent'
      BY <2>1, <2>2, <2>4 DEF ReplyInv, ReplyTypes, IntactIsCurrent, Destination
    <3>2. ReplyInHand'
      <4> SUFFICES ASSUME NEW s \in Thread, intact[s] PROVE InHand(s)'
        BY <2>4 DEF ReplyInHand
      <4>1. CASE place'[s] = "idle"
        BY <4>1 DEF InHand
      <4>2. CASE place'[s] = place[s]
        BY <2>1, <2>4, <4>2, HandKept DEF ReplyInv, ReplyInHand
      <4> QED
        BY <2>2, <4>1, <4>2
    <3>3. ReplyReachesAsker'
      BY <2>1 DEF ReplyInv, ReplyReachesAsker
    <3>4. OneSender'
      BY <2>1, <2>2, NoNewSender DEF ReplyInv
    <3> QED
      BY <3>1, <3>2, <3>3, <3>4 DEF ReplyInv
  <2> QED
    BY <1>2, <2>3, <2>4 DEF NoReply
<1>3. CASE DetectStarts
  <2>1. /\ place' = [place EXCEPT ![DETECT] = "process"] /\ Continue(SIGNAL, DETECT)
        /\ UNCHANGED <<send_func, send_buffer, rx_buffer_last_id, command, route, tx, sent>>
    BY <1>3 DEF DetectStarts
  <2>2. /\ place' \in [Thread -> Place]
        /\ \A s \in Thread : place'[s] = place[s] \/ place'[s] \in {"idle", "process"}
        /\ place'[DETECT] = "process"
    BY <2>1 DEF ReplyInv, ReplyTypes, Place
  <2> QED
    BY <2>1, <2>2, ContinueKeeps
<1> QED
  BY <1>1, <1>2, <1>3, FillKeeps, SendKeeps, CopyKeeps, SendCrcKeeps DEF CommandsStep

(* A message from the bus passed to commands.c takes the route back to its *)
(* sender, an answer from the bus that of the request.                     *)
LEMMA PassOnKeeps ==
  ASSUME ReplyInv, place[CAN] = "idle", rxmsg'.from \in Remote, PassOn
  PROVE  ReplyInv'
<1> USE Names
<1> DEFINE r == rxmsg'.from
<1>0. /\ rx_buffer_last_id' = r /\ r \in Remote /\ r \in Asker
      /\ UNCHANGED <<send_buffer, route, tx, sent>>
  BY DEF PassOn, Asker
<1>1. CASE rxmsg'.send
  <2>1. /\ place' = [place EXCEPT ![CAN] = "send"] /\ command' = [command EXCEPT ![CAN] = "relay"]
        /\ Answer(r) /\ UNCHANGED send_func
    BY <1>1 DEF PassOn
  <2> HIDE DEF r
  <2> QED
    BY <1>0, <2>1, AnswerKeeps
<1>2. CASE ~rxmsg'.send
  <2>1. /\ place' = [place EXCEPT ![CAN] = "process"] /\ send_func' = CAN /\ Begin(CAN, r)
        /\ command' = [command EXCEPT ![CAN] = rxmsg'.msg.cmd]
    BY <1>2 DEF PassOn
  <2>2. Destination' = r
    BY <1>0, <2>1 DEF Destination
  <2> HIDE DEF r
  <2>3. rx_buffer_last_id' \in Remote \cup {None} /\ send_func' \in Port \cup {CAN}
    BY <1>0, <2>1
  <2> QED
    BY <1>0, <2>1, <2>2, <2>3, BeginKeeps
<1> QED
  BY <1>1, <1>2

(* Every step on the bus and in commands.c keeps the route of the replies. *)
LEMMA ReplyStep ==
  ASSUME BusInv, ReplyInv, CanNext
  PROVE  ReplyInv'
<1> USE Names
<1>1. CASE rvars' = rvars
  BY <1>1, SameKeeps DEF rvars
<1>2. ASSUME NEW r \in Remote, NEW m \in Message, NEW send \in BOOLEAN, SendBuffer(r, m, send)
      PROVE  ReplyInv'
  BY <1>2, SameKeeps DEF SendBuffer
<1>3. ASSUME Ring!Dequeue PROVE rxmsg'.from \in Remote
  BY <1>3, DequeueKeeps, FrameFields DEF BusInv
<1>4. CASE ShortFrame
  BY <1>3, <1>4, PassOnKeeps DEF ShortFrame, Receive
<1>5. CASE ProcessFrame
  <2>1. place[CAN] = "idle" /\ rxmsg'.from \in Remote
    BY <1>3, <1>5 DEF ProcessFrame, Receive
  <2>2. CASE PassOn
    BY <2>1, <2>2, PassOnKeeps
  <2>3. CASE /\ rx_buffer_last_id' = rxmsg'.from /\ Retarget(rxmsg'.from)
             /\ UNCHANGED <<send_func, send_buffer, place, command, route, tx, sent>>
    BY <2>1, <2>3, RetargetKeeps
  <2> QED
    BY <1>5, <2>2, <2>3 DEF ProcessFrame
<1>6. CASE \/ Ignore \/ SetFrame \/ FillFrame \/ StatusFrame
  BY <1>1, <1>6 DEF Ignore, SetFrame, FillFrame, StatusFrame
<1>7. ASSUME NEW r \in Remote, NEW cmd, NEW to, SendSingle(r, cmd, to) PROVE ReplyInv'
  BY <1>1, <1>7 DEF SendSingle
<1>8. ASSUME NEW r \in Remote, Transmit(r) \/ TransmitTimesOut(r) PROVE ReplyInv'
  BY <1>1, <1>8 DEF Transmit, TransmitTimesOut
<1> QED
  BY <1>2, <1>4, <1>5, <1>6, <1>7, <1>8, CommandsKeep DEF CanNext

-----------------------------------------------------------------------------
(* Messages on the way.  What the first frames of the ring bring about     *)
(* does not depend on later ones.                                          *)
LEMMA ArrivesKept ==
  ASSUME NEW n \in Nat, NEW fr, NEW gr, NEW buf, \A q \in 1..n : gr[q] = fr[q],
         NEW data, NEW i, Arrives(fr, buf, n, data, i)
  PROVE  Arrives(gr, buf, n, data, i)
  BY DEF Arrives

(* One more frame, which brings the byte or does not disturb it.           *)
LEMMA ArrivesMore ==
  ASSUME NEW n \in Nat, NEW fr, NEW gr, NEW buf, \A q \in 1..n : gr[q] = fr[q],
         NEW data, NEW i, Right(gr[n + 1], data, i),
         Arrives(fr, buf, n, data, i) \/ Covers(gr[n + 1], i)
  PROVE  Arrives(gr, buf, n + 1, data, i)
<1>1. CASE Covers(gr[n + 1], i)
  <2>1. n + 1 \in 0..(n + 1) /\ n + 1 > 0
    OBVIOUS
  <2>2. \A p \in 1..(n + 1) : p >= n + 1 => p = n + 1
    OBVIOUS
  <2> QED
    BY <1>1, <2>1, <2>2 DEF Arrives
<1>2. CASE Arrives(fr, buf, n, data, i)
  <2>1. PICK q \in 0..n :
          /\ \/ q = 0 /\ buf[i] = data[i + 1]
             \/ q > 0 /\ Covers(fr[q], i)
          /\ \A p \in 1..n : p >= q => Right(fr[p], data, i)
    BY <1>2 DEF Arrives
  <2>2. q \in 0..(n + 1) /\ (q > 0 => q \in 1..n)
    OBVIOUS
  <2>3. \A p \in 1..(n + 1) : p \in 1..n \/ p = n + 1
    OBVIOUS
  <2>4. \A p \in 1..(n + 1) : p >= q => Right(gr[p], data, i)
    BY <2>1, <2>3
  <2>5. (q = 0 /\ buf[i] = data[i + 1]) \/ (q > 0 /\ Covers(gr[q], i))
    BY <2>1, <2>2
  <2> QED
    BY <2>2, <2>4, <2>5 DEF Arrives
<1> QED
  BY <1>1, <1>2

(* The first frame is handled: it is in rx_buffer now.                     *)
LEMMA ArrivesHandled ==
  ASSUME NEW n \in Nat \ {0}, NEW fr, NEW gr, NEW buf, NEW cuf, NEW data, NEW i,
         Arrives(fr, buf, n, data, i),
         \A q \in 1..(n - 1) : gr[q] = fr[q + 1],
         cuf[i] = IF Covers(fr[1], i) THEN fr[1].data[i - fr[1].off + 1] ELSE buf[i]
  PROVE  Arrives(gr, cuf, n - 1, data, i)
<1>1. PICK q \in 0..n :
        /\ \/ q = 0 /\ buf[i] = data[i + 1]
           \/ q > 0 /\ Covers(fr[q], i)
        /\ \A p \in 1..n : p >= q => Right(fr[p], data, i)
  BY DEF Arrives
<1>2. \A p \in 1..(n - 1) : p + 1 \in 1..n /\ gr[p] = fr[p + 1]
  OBVIOUS
<1>3. CASE q <= 1
  <2>1. Right(fr[1], data, i)
    BY <1>1, <1>3
  <2>2. cuf[i] = data[i + 1]
    BY <1>1, <1>3, <2>1 DEF Right
  <2>3. \A p \in 1..(n - 1) : Right(gr[p], data, i)
    BY <1>1, <1>2, <1>3
  <2>4. 0 \in 0..(n - 1)
    OBVIOUS
  <2> QED
    BY <2>2, <2>3, <2>4 DEF Arrives
<1>4. CASE q > 1
  <2>1. q - 1 \in 1..(n - 1) /\ q - 1 \in 0..(n - 1) /\ q - 1 > 0 /\ (q - 1) + 1 = q
    BY <1>4
  <2>2. Covers(gr[q - 1], i)
    BY <1>1, <1>2, <1>4, <2>1
  <2>3. \A p \in 1..(n - 1) : p >= q - 1 => Right(gr[p], data, i)
    BY <1>1, <1>2
  <2> QED
    BY <2>1, <2>2, <2>3 DEF Arrives
<1> QED
  BY <1>3, <1>4

(* What is left to send of one controller is frames of it.                 *)
LEMMA TailFrames ==
  ASSUME NEW o \in Seq(FrameSet), o # <<>>, NEW r, FramesOf(r, o)
  PROVE  FramesOf(r, Tail(o))
<1> DEFINE t == Tail(o)
           n == Len(o)
<1>1. n \in Nat \ {0} /\ Len(t) = n - 1 /\ \A k \in 1..(n - 1) : t[k] = o[k + 1]
  BY HeadTailProperties
<1> HIDE DEF t, n
<1> SUFFICES ASSUME NEW k \in 1..Len(t)
             PROVE  t[k].from = r /\ (t[k].cmd = "PROCESS" => k = Len(t))
  BY DEF FramesOf, t
<1>2. k \in 1..(n - 1) /\ k + 1 \in 1..n /\ (k + 1 = n => k = Len(t))
  BY <1>1
<1>3. o[k + 1].from = r /\ (o[k + 1].cmd = "PROCESS" => k + 1 = n)
  BY <1>2 DEF FramesOf, n
<1> QED
  BY <1>1, <1>2, <1>3

(* A controller starts on another message.                                 *)
LEMMA SendKeepsWhole ==
  ASSUME BusInv, WholeInv, NEW r \in Remote, NEW s,
         UNCHANGED <<frames, rx_buffer, verdict>>,
         out' = [out EXCEPT ![r] = s],
         whole' = [whole EXCEPT ![r] = TRUE] \/ whole' = whole,
         FramesOf(r, s),
         s # <<>> /\ s[Len(s)].cmd = "PROCESS" => UnderWay(frames, rx_buffer, s)
  PROVE  WholeInv'
<1>1. ArrivalInv' /\ WholeMessageArrives'
  BY DEF WholeInv, ArrivalInv, WholeMessageArrives
<1>2. SendingInv'
  <2> SUFFICES ASSUME NEW x \in Remote
               PROVE  /\ FramesOf(x, out'[x])
                      /\ out'[x] # <<>> /\ whole'[x] /\ out'[x][Len(out'[x])].cmd = "PROCESS" =>
                           UnderWay(frames, rx_buffer, out'[x])
    BY DEF SendingInv
  <2>1. CASE x = r
    <3>1. out'[x] = s
      BY <2>1 DEF BusInv
    <3> QED
      BY <2>1, <3>1
  <2>2. CASE x # r
    <3>1. out'[x] = out[x] /\ whole'[x] = whole[x]
      BY <2>2 DEF BusInv
    <3> QED
      BY <3>1 DEF WholeInv, SendingInv
  <2> QED
    BY <2>1, <2>2
<1> QED
  BY <1>1, <1>2 DEF WholeInv

(* A frame enters the ring.                                                *)
LEMMA TransmitKeepsWhole ==
  ASSUME BusInv, WholeInv, NEW r \in Remote, Transmit(r)
  PROVE  WholeInv'
<1> USE CommCanAssumption
<1> DEFINE o == out[r]
           n == Len(frames)
<1>1. PICK room \in BOOLEAN :
        LET f == [Head(out[r]) EXCEPT !.whole = whole[r] /\ room] IN
        /\ Ring!Enqueue(f) /\ room = (Len(frames') = Len(frames) + 1)
        /\ whole' = [q \in Remote |-> whole[q] /\ room /\ ~Disturbs(f, q)]
  BY DEF Transmit
<1> DEFINE f == [Head(out[r]) EXCEPT !.whole = whole[r] /\ room]
<1>2. o # <<>> /\ o \in Seq(FrameSet) /\ out' = [out EXCEPT ![r] = Tail(@)]
      /\ UNCHANGED <<rx_buffer, verdict>>
  BY DEF Transmit, BusInv
<1>3. /\ Ring!Enqueue(f) /\ room = (Len(frames') = n + 1)
      /\ whole' = [q \in Remote |-> whole[q] /\ room /\ ~Disturbs(f, q)]
  BY <1>1
<1>4. /\ Len(o) \in Nat \ {0} /\ Head(o) = o[1] /\ Head(o) \in FrameSet
      /\ Len(Tail(o)) = Len(o) - 1 /\ \A k \in 1..(Len(o) - 1) : Tail(o)[k] = o[k + 1]
  BY <1>2, HeadTailProperties
<1>5. /\ f.cmd = o[1].cmd /\ f.off = o[1].off /\ f.data = o[1].data /\ f.msg = o[1].msg
      /\ f.from = o[1].from /\ f.whole = (whole[r] /\ room)
  <2>1. Head(o) \in [cmd : FrameCmd, to : Address, from : Remote, msg : Message \cup {None},
          send : BOOLEAN, off : Nat, data : Seq(0..255), whole : BOOLEAN]
    BY <1>4 DEF FrameSet
  <2> QED
    BY <1>4, <2>1
<1>6. FramesOf(r, o) /\ (whole[r] /\ o[Len(o)].cmd = "PROCESS" => UnderWay(frames, rx_buffer, o))
  BY <1>2 DEF WholeInv, SendingInv
<1>7. frames \in Seq(FrameSet) /\ n \in Nat
  BY DEF BusInv
<1>13. f \in FrameSet
  BY <1>4, FrameFields
<1>14. Tail(o) # <<>> => Len(o) - 1 >= 1
  <2>1. Tail(o) \in Seq(FrameSet)
    BY <1>2
  <2> QED
    BY <1>4, <2>1
<1>15. \A x \in Remote : out'[x] = IF x = r THEN Tail(o) ELSE out[x]
  BY <1>2 DEF BusInv
<1>16. IF room THEN frames' = Append(frames, f) ELSE frames' = <<>> \/ frames' = <<f>>
  <2> HIDE DEF f
  <2>1. CASE n < RxFrames /\ frames' = Append(frames, f)
    <3>1. Len(frames') = n + 1
      BY <1>7, <1>13, <2>1
    <3> QED
      BY <1>3, <2>1, <3>1
  <2>2. CASE n >= RxFrames - 1 /\ frames' \in {<<>>, <<f>>}
    <3>1. (Len(frames') = 0 \/ Len(frames') = 1) /\ n >= 1
      <4>1. Len(frames') = 0 \/ Len(frames') = 1
        BY <2>2
      <4> HIDE DEF n
      <4>2. n >= 1
        BY <1>7, <2>2
      <4> QED
        BY <4>1, <4>2
    <3> DEFINE l == Len(frames')
    <3>2. l # n + 1
      <4>1. (l = 0 \/ l = 1) /\ n \in Nat /\ n >= 1
        BY <1>7, <3>1
      <4> HIDE DEF l, n
      <4> QED
        BY <4>1
    <3> QED
      BY <1>3, <2>2, <3>2
  <2> QED
    BY <1>3, <2>1, <2>2 DEF Ring!Enqueue
<1> HIDE DEF f, o, n
<1>17. o[1].from = r
  <2>1. 1 \in 1..Len(o)
    BY <1>4
  <2> QED
    BY <1>6, <2>1 DEF FramesOf
<1>8. FramesOf(r, Tail(o))
  BY <1>2, <1>6, TailFrames
<1>9. WholeMessageArrives'
  BY <1>2 DEF WholeInv, WholeMessageArrives
<1>10. \A x \in Remote : FramesOf(x, out'[x])
  <2> SUFFICES ASSUME NEW x \in Remote PROVE FramesOf(x, out'[x])
    OBVIOUS
  <2>1. out'[x] = IF x = r THEN Tail(o) ELSE out[x]
    BY <1>15
  <2>2. FramesOf(x, out[x])
    BY DEF WholeInv, SendingInv
  <2> QED
    BY <1>8, <2>1, <2>2
<1>11. CASE ~room
  <2>1. ~f.whole /\ \A x \in Remote : ~whole'[x]
    BY <1>3, <1>5, <1>11
  <2>2. frames' = <<>> \/ frames' = <<f>>
    BY <1>11, <1>16
  <2>3. ArrivalInv'
    <3> SUFFICES ASSUME NEW p \in 1..Len(frames') PROVE ~frames'[p].whole
      BY DEF ArrivalInv, Arrived
    <3> QED
      BY <2>1, <2>2
  <2>4. SendingInv'
    BY <1>10, <2>1 DEF SendingInv
  <2> QED
    BY <1>9, <2>3, <2>4 DEF WholeInv
<1>12. CASE room
  <2>1. frames' = Append(frames, f)
    BY <1>12, <1>16
  <2>2. Len(frames') = n + 1 /\ frames'[n + 1] = f /\ \A q \in 1..n : frames'[q] = frames[q]
    BY <1>7, <1>13, <2>1 DEF n
  <2>3. \A i : (Covers(f, i) <=> Covers(o[1], i)) /\ \A data : Right(f, data, i) <=> Right(o[1], data, i)
    BY <1>5 DEF Covers, Right
  <2>4. ArrivalInv'
    <3> SUFFICES ASSUME NEW p \in 1..(n + 1) PROVE Arrived(frames', rx_buffer, p - 1, frames'[p])
      BY <1>2, <2>2 DEF ArrivalInv
    <3>0. \A data, i : \A m \in 0..n : Arrives(frames, rx_buffer, m, data, i) => Arrives(frames', rx_buffer, m, data, i)
      <4> SUFFICES ASSUME NEW data, NEW i, NEW m \in 0..n, Arrives(frames, rx_buffer, m, data, i)
                   PROVE  Arrives(frames', rx_buffer, m, data, i)
        OBVIOUS
      <4>1. m \in Nat /\ \A q \in 1..m : frames'[q] = frames[q]
        BY <1>7, <2>2
      <4> QED
        BY <4>1, ArrivesKept
    <3>1. CASE p <= n
      <4>1. frames'[p] = frames[p] /\ p - 1 \in 0..n /\ p \in 1..n
        BY <1>7, <2>2, <3>1
      <4>2. Arrived(frames, rx_buffer, p - 1, frames[p])
        BY <4>1 DEF WholeInv, ArrivalInv, n
      <4> QED
        BY <3>0, <4>1, <4>2 DEF Arrived
    <3>2. CASE p = n + 1
      <4> SUFFICES ASSUME f.cmd = "PROCESS", f.whole
                   PROVE  f.msg \in Message /\ \A i \in Index(f.msg.data) : Arrives(frames', rx_buffer, n, f.msg.data, i)
        BY <1>7, <2>2, <3>2 DEF Arrived
      <4>1. Len(o) = 1 /\ o[1].cmd = "PROCESS" /\ whole[r]
        <5>1. 1 \in 1..Len(o)
          BY <1>4
        <5>2. o[1].cmd = "PROCESS" /\ whole[r]
          BY <1>5
        <5> QED
          BY <1>6, <5>1, <5>2 DEF FramesOf
      <4>2. o[Len(o)].msg = f.msg /\ \A k \in 1..Len(o) : \A i : ~Covers(o[k], i)
        BY <1>5, <4>1 DEF Covers
      <4>3. UnderWay(frames, rx_buffer, o)
        BY <1>6, <4>1
      <4>4. f.msg \in Message /\ \A i \in Index(f.msg.data) : Arrives(frames, rx_buffer, n, f.msg.data, i)
        BY <4>2, <4>3 DEF UnderWay, n
      <4>5. n \in 0..n
        BY <1>7
      <4> QED
        BY <3>0, <4>4, <4>5
    <3> QED
      BY <1>7, <3>1, <3>2
  <2>5. SendingInv'
    <3> SUFFICES ASSUME NEW x \in Remote, out'[x] # <<>>, whole'[x],
                        out'[x][Len(out'[x])].cmd = "PROCESS"
                 PROVE  UnderWay(frames', rx_buffer, out'[x])
      BY <1>2, <1>10 DEF SendingInv
    <3>0. whole[x] /\ ~Disturbs(f, x)
      BY <1>3
    <3> DEFINE s == out'[x]
               t == out[x]
               m == s[Len(s)].msg
    <3>1. CASE x = r
      <4>1. s = Tail(o) /\ s # <<>>
        BY <1>15, <3>1
      <4>2. Len(o) - 1 >= 1 /\ s[Len(s)] = o[Len(o)]
        <5>1. Len(o) - 1 \in 1..(Len(o) - 1) /\ (Len(o) - 1) + 1 = Len(o)
          BY <1>4, <1>14, <4>1
        <5> QED
          BY <1>4, <4>1, <5>1
      <4>3. UnderWay(frames, rx_buffer, o)
        BY <1>6, <3>0, <3>1, <4>2 DEF s
      <4>4. m = o[Len(o)].msg
        BY <4>2
      <4> HIDE DEF s, m
      <4>5. m \in Message /\ \A i \in Index(m.data) : \A k \in 1..Len(o) : Right(o[k], m.data, i)
        BY <4>3, <4>4 DEF UnderWay
      <4>6. \A i \in Index(m.data) : \/ Arrives(frames, rx_buffer, n, m.data, i)
                                     \/ \E k \in 1..Len(o) : Covers(o[k], i)
        BY <4>3, <4>4 DEF UnderWay, n
      <4>7. ASSUME NEW i \in Index(m.data)
            PROVE  /\ \A k \in 1..Len(s) : Right(s[k], m.data, i)
                   /\ \/ Arrives(frames', rx_buffer, n + 1, m.data, i)
                      \/ \E k \in 1..Len(s) : Covers(s[k], i)
        <5>1. \A k \in 1..Len(s) : k + 1 \in 1..Len(o) /\ s[k] = o[k + 1]
          BY <1>4, <4>1
        <5>2. \A k \in 1..Len(s) : Right(s[k], m.data, i)
          BY <4>5, <5>1
        <5>3. 1 \in 1..Len(o)
          BY <1>4
        <5>4. Right(frames'[n + 1], m.data, i)
          BY <2>2, <2>3, <4>5, <5>3
        <5>5. CASE Arrives(frames, rx_buffer, n, m.data, i) \/ Covers(o[1], i)
          <6>1. Arrives(frames, rx_buffer, n, m.data, i) \/ Covers(frames'[n + 1], i)
            BY <2>2, <2>3, <5>5
          <6>2. Arrives(frames', rx_buffer, n + 1, m.data, i)
            BY <1>7, <2>2, <5>4, <6>1, ArrivesMore
          <6> QED
            BY <5>2, <6>2
        <5>6. CASE \E k \in 1..Len(o) : Covers(o[k], i) /\ k # 1
          <6>1. PICK k \in 1..Len(o) : Covers(o[k], i) /\ k # 1
            BY <5>6
          <6>2. k - 1 \in 1..Len(s) /\ (k - 1) + 1 = k
            BY <1>4, <4>1, <6>1
          <6>3. Covers(s[k - 1], i)
            BY <5>1, <6>1, <6>2
          <6> QED
            BY <5>2, <6>2, <6>3
        <5> QED
          BY <4>6, <5>5, <5>6
      <4> QED
        BY <2>2, <4>5, <4>7 DEF UnderWay, s, m
    <3>2. CASE x # r
      <4>1. s = t
        BY <1>15, <3>2
      <4>2. UnderWay(frames, rx_buffer, t)
        BY <3>0, <4>1 DEF WholeInv, SendingInv
      <4>3. \A i : ~Covers(f, i)
        <5>1. f.from = r
          BY <1>5, <1>17
        <5> QED
          BY <3>0, <3>2, <5>1 DEF Disturbs, Covers
      <4>4. \A i, data : Arrives(frames, rx_buffer, n, data, i) => Arrives(frames', rx_buffer, n + 1, data, i)
        <5> SUFFICES ASSUME NEW i, NEW data, Arrives(frames, rx_buffer, n, data, i)
                     PROVE  Arrives(frames', rx_buffer, n + 1, data, i)
          OBVIOUS
        <5>1. Right(frames'[n + 1], data, i)
          BY <2>2, <4>3 DEF Right
        <5> QED
          BY <1>7, <2>2, <5>1, ArrivesMore
      <4> HIDE DEF s, t
      <4> QED
        BY <2>2, <4>1, <4>2, <4>4 DEF UnderWay, s, n
    <3> QED
      BY <3>1, <3>2
  <2> QED
    BY <1>9, <2>4, <2>5 DEF WholeInv
<1> QED
  BY <1>11, <1>12

(* A frame is handled.                                                     *)
LEMMA HandleKeepsWhole ==
  ASSUME BusInv, WholeInv, Ring!Dequeue, UNCHANGED <<out, whole>>,
         \A i \in 0..(RxBufferSize - 1) :
           rx_buffer'[i] = IF Covers(rxmsg', i) THEN rxmsg'.data[i - rxmsg'.off + 1] ELSE rx_buffer[i]
  PROVE  ArrivalInv' /\ SendingInv'
<1> USE CommCanAssumption
<1> DEFINE n == Len(frames)
<1>1. /\ n \in Nat \ {0} /\ rxmsg' = frames[1] /\ Len(frames') = n - 1
      /\ \A q \in 1..(n - 1) : frames'[q] = frames[q + 1]
  BY HeadTailProperties DEF BusInv, Ring!Dequeue
<1>2. \A m \in Message : Index(m.data) \subseteq 0..(RxBufferSize - 1)
  BY DEF Index
<1>3. \A data : \A i \in 0..(RxBufferSize - 1) : \A k \in 1..n :
        Arrives(frames, rx_buffer, k, data, i) => Arrives(frames', rx_buffer', k - 1, data, i)
  <2> SUFFICES ASSUME NEW data, NEW i \in 0..(RxBufferSize - 1), NEW k \in 1..n,
                      Arrives(frames, rx_buffer, k, data, i)
               PROVE  Arrives(frames', rx_buffer', k - 1, data, i)
    OBVIOUS
  <2>1. k \in Nat \ {0} /\ \A q \in 1..(k - 1) : frames'[q] = frames[q + 1]
    BY <1>1
  <2>2. rx_buffer'[i] = IF Covers(frames[1], i) THEN frames[1].data[i - frames[1].off + 1] ELSE rx_buffer[i]
    BY <1>1
  <2> QED
    BY <2>1, <2>2, ArrivesHandled
<1> HIDE DEF n
<1>4. ArrivalInv'
  <2> SUFFICES ASSUME NEW p \in 1..(n - 1) PROVE Arrived(frames', rx_buffer', p - 1, frames'[p])
    BY <1>1 DEF ArrivalInv
  <2>1. p \in 1..n /\ p + 1 \in 1..n /\ frames'[p] = frames[p + 1] /\ (p + 1) - 1 = p
    BY <1>1
  <2>2. Arrived(frames, rx_buffer, p, frames[p + 1])
    BY <2>1 DEF WholeInv, ArrivalInv, n
  <2> DEFINE g == frames[p + 1]
  <2>3. g.cmd = "PROCESS" /\ g.whole =>
          g.msg \in Message /\ \A i \in Index(g.msg.data) : Arrives(frames, rx_buffer, p, g.msg.data, i)
    BY <2>2 DEF Arrived
  <2> HIDE DEF g
  <2>4. g.cmd = "PROCESS" /\ g.whole =>
          g.msg \in Message /\ \A i \in Index(g.msg.data) : Arrives(frames', rx_buffer', p - 1, g.msg.data, i)
    BY <1>2, <1>3, <2>1, <2>3
  <2> QED
    BY <2>1, <2>4 DEF Arrived, g
<1>5. SendingInv'
  <2>1. ASSUME NEW s, UnderWay(frames, rx_buffer, s) PROVE UnderWay(frames', rx_buffer', s)
    <3> DEFINE m == s[Len(s)].msg
    <3>1. m \in Message /\ n \in 1..n /\ Len(frames') = n - 1
      BY <1>1, <2>1 DEF UnderWay
    <3>2. \A i \in Index(m.data) : \A k \in 1..Len(s) : Right(s[k], m.data, i)
      BY <2>1 DEF UnderWay
    <3>3. \A i \in Index(m.data) : Arrives(frames, rx_buffer, n, m.data, i) \/ \E k \in 1..Len(s) : Covers(s[k], i)
      BY <2>1 DEF UnderWay, n
    <3> HIDE DEF m
    <3>4. \A i \in Index(m.data) : Arrives(frames', rx_buffer', n - 1, m.data, i) \/ \E k \in 1..Len(s) : Covers(s[k], i)
      BY <1>2, <1>3, <3>1, <3>3
    <3> QED
      BY <3>1, <3>2, <3>4 DEF UnderWay, m
  <2> QED
    BY <2>1 DEF WholeInv, SendingInv
<1> QED
  BY <1>4, <1>5

(* The CRC of a message that has arrived.                                  *)
LEMMA ProcessSeesWhole ==
  ASSUME BusInv, WholeInv, ProcessFrame
  PROVE  WholeMessageArrives'
<1> USE CommCanAssumption
<1> DEFINE f == rxmsg'
           data == f.msg.data
           n == Len(data)
           fits == n <= RxBufferSize /\ crc16(Buffered(n)) = crc16(data)
<1>1. verdict' = [whole |-> f.whole, accepted |-> fits, right |-> fits /\ Buffered(n) = data]
  BY DEF ProcessFrame
<1>2. f.cmd = "PROCESS" /\ Len(frames) \in Nat \ {0} /\ f = frames[1]
  BY HeadTailProperties DEF ProcessFrame, Receive, Ring!Dequeue, BusInv
<1>3. Arrived(frames, rx_buffer, 0, f)
  <2>1. 1 \in 1..Len(frames) /\ 1 - 1 = 0
    BY <1>2
  <2> QED
    BY <1>2, <2>1 DEF WholeInv, ArrivalInv
<1> HIDE DEF f
<1>4. ASSUME f.whole PROVE fits /\ Buffered(n) = data
  <2>1. f.msg \in Message /\ \A i \in Index(data) : Arrives(frames, rx_buffer, 0, data, i)
    BY <1>2, <1>3, <1>4 DEF Arrived
  <2>2. data \in Seq(0..255) /\ n \in Nat /\ n <= RxBufferSize
    BY <2>1
  <2> HIDE DEF data
  <2>3. \A i \in Index(data) : rx_buffer[i] = data[i + 1]
    BY <2>1 DEF Arrives
  <2>4. \A i \in 1..n : rx_buffer[i - 1] = data[i]
    <3> SUFFICES ASSUME NEW i \in 1..n PROVE rx_buffer[i - 1] = data[i]
      OBVIOUS
    <3>1. i - 1 \in Index(data) /\ (i - 1) + 1 = i
      BY <2>2 DEF Index
    <3> QED
      BY <2>3, <3>1
  <2>5. data = [i \in 1..n |-> data[i]]
    BY <2>2, LenProperties
  <2>6. Buffered(n) = data
    BY <2>4, <2>5 DEF Buffered
  <2> QED
    BY <2>2, <2>6
<1> HIDE DEF fits, data
<1> DEFINE same == Buffered(n) = data
<1> HIDE DEF same
<1>5. f.whole => fits /\ same
  BY <1>4 DEF same
<1>6. verdict'.whole = f.whole /\ verdict'.accepted = fits /\ verdict'.right = (fits /\ same)
  BY <1>1 DEF same
<1> QED
  BY <1>5, <1>6 DEF WholeMessageArrives

(* Every step keeps WholeInv: a byte of an undisturbed message leaves the  *)
(* frames to send only for the ring, and the ring only for rx_buffer.      *)
LEMMA WholeStep ==
  ASSUME BusInv, WholeInv, CanNext
  PROVE  WholeInv'
<1> USE CommCanAssumption
<1>1. CASE UNCHANGED <<frames, rx_buffer, out, whole, verdict>>
  BY <1>1 DEF WholeInv, ArrivalInv, SendingInv, WholeMessageArrives
<1>2. ASSUME NEW r \in Remote, NEW m \in Message, NEW send \in BOOLEAN, SendBuffer(r, m, send)
      PROVE  WholeInv'
  <2> DEFINE s == Frames(r, m, send)
  <2>1. /\ out' = [out EXCEPT ![r] = s] /\ whole' = [whole EXCEPT ![r] = TRUE]
        /\ UNCHANGED <<frames, rx_buffer, verdict>>
    BY <1>2 DEF SendBuffer
  <2>2. FramesOf(r, s) /\ (s # <<>> /\ s[Len(s)].cmd = "PROCESS" => UnderWay(frames, rx_buffer, s))
    <3>1. CASE s = LongFrames(r, m, send)
      <4> HIDE DEF s
      <4>1. s[Len(s)].msg = m
        BY <3>1, MessageIsTiled
      <4>2. FramesOf(r, s)
        BY <3>1, MessageIsTiled
      <4>3. \A i \in Index(m.data) : \A k \in 1..Len(s) : Right(s[k], m.data, i)
        BY <3>1, MessageIsTiled
      <4>4. \A i \in Index(m.data) : \E k \in 1..Len(s) : Covers(s[k], i)
        BY <3>1, MessageIsTiled
      <4> QED
        BY <4>1, <4>2, <4>3, <4>4 DEF UnderWay
    <3>2. CASE s = <<Frame("SHORT", r, m, send, 0, m.data)>>
      <4> DEFINE g == Frame("SHORT", r, m, send, 0, m.data)
      <4>1. g.cmd = "SHORT" /\ g.from = r
        BY DEF Frame
      <4>2. s = <<g>>
        BY <3>2
      <4> HIDE DEF g, s
      <4>3. Len(s) = 1 /\ s[1] = g
        BY <4>2
      <4> QED
        BY <4>1, <4>3 DEF FramesOf
    <3> QED
      BY <3>1, <3>2 DEF Frames
  <2> HIDE DEF s
  <2> QED
    BY <2>1, <2>2, SendKeepsWhole
<1>3. ASSUME NEW r \in Remote, NEW cmd \in {"SET", "STATUS"}, NEW to \in Address,
             SendSingle(r, cmd, to)
      PROVE  WholeInv'
  <2> DEFINE h == Frame(cmd, r, None, FALSE, 0, <<>>)
             g == [h EXCEPT !.to = to]
             s == <<g>>
  <2>1. out' = [out EXCEPT ![r] = s] /\ whole' = whole /\ UNCHANGED <<frames, rx_buffer, verdict>>
    BY <1>3 DEF SendSingle
  <2>2. g.cmd = cmd /\ g.from = r
    <3>1. <<>> \in Seq(0..255) /\ cmd \in FrameCmd /\ cmd \notin {"FILL", "LONG"}
          /\ "me" \in Address
      BY DEF FrameCmd, Address
    <3>2. h \in FrameSet /\ h.cmd = cmd /\ h.from = r
      BY <3>1 DEF FrameSet, Frame
    <3> HIDE DEF h
    <3> QED
      BY <3>2, FrameFields
  <2> HIDE DEF g
  <2>3. Len(s) = 1 /\ s[1] = g
    OBVIOUS
  <2> HIDE DEF s
  <2>4. FramesOf(r, s) /\ s[Len(s)].cmd # "PROCESS"
    BY <2>2, <2>3 DEF FramesOf
  <2> QED
    BY <2>1, <2>4, SendKeepsWhole
<1>4. ASSUME NEW r \in Remote, TransmitTimesOut(r) PROVE WholeInv'
  <2> DEFINE o == out[r]
  <2>1. o # <<>> /\ o \in Seq(FrameSet) /\ out' = [out EXCEPT ![r] = Tail(o)]
        /\ whole' = [whole EXCEPT ![r] = FALSE] /\ UNCHANGED <<frames, rx_buffer, verdict>>
    BY <1>4 DEF TransmitTimesOut, BusInv
  <2>3. FramesOf(r, Tail(o))
    <3>1. FramesOf(r, o)
      BY DEF WholeInv, SendingInv
    <3> HIDE DEF o
    <3> QED
      BY <2>1, <3>1, TailFrames
  <2>4. ArrivalInv' /\ WholeMessageArrives'
    BY <2>1 DEF WholeInv, ArrivalInv, WholeMessageArrives
  <2>5. SendingInv'
    <3> SUFFICES ASSUME NEW x \in Remote
                 PROVE  /\ FramesOf(x, out'[x])
                        /\ out'[x] # <<>> /\ whole'[x] /\ out'[x][Len(out'[x])].cmd = "PROCESS" =>
                             UnderWay(frames, rx_buffer, out'[x])
      BY <2>1 DEF SendingInv
    <3>1. CASE x = r
      <4>1. out'[x] = Tail(o) /\ ~whole'[x]
        BY <2>1, <3>1 DEF BusInv
      <4> QED
        BY <2>3, <3>1, <4>1
    <3>2. CASE x # r
      <4>1. out'[x] = out[x] /\ whole'[x] = whole[x]
        BY <2>1, <3>2 DEF BusInv
      <4> QED
        BY <4>1 DEF WholeInv, SendingInv
    <3> QED
      BY <3>1, <3>2
  <2> QED
    BY <2>4, <2>5 DEF WholeInv
<1>5. ASSUME Ring!Dequeue, rxmsg'.cmd \notin {"FILL", "LONG"}, UNCHANGED <<rx_buffer, out, whole>>
      PROVE  ArrivalInv' /\ SendingInv'
  <2>1. \A i : ~Covers(rxmsg', i)
    BY <1>5 DEF Covers
  <2> QED
    BY <1>5, <2>1, HandleKeepsWhole
<1>6. CASE FillFrame
  <2> DEFINE f == rxmsg'
  <2>1. Ring!Dequeue /\ f.cmd \in {"FILL", "LONG"} /\ UNCHANGED <<out, whole, verdict>>
        /\ rx_buffer' = IF f.cmd = "LONG" /\ f.off >= RxBufferSize
                        THEN rx_buffer ELSE CopyIn(f.off, f.data)
    BY <1>6 DEF FillFrame, Receive
  <2>2. f \in FrameSet
    BY <2>1, DequeueKeeps DEF BusInv
  <2>3. f.off \in Nat /\ f.data \in Seq(0..255) /\ Len(f.data) \in Nat
        /\ f.off + Len(f.data) <= RxBufferSize
    BY <2>1, <2>2, FrameFields
  <2> HIDE DEF f
  <2>4. ASSUME NEW i \in 0..(RxBufferSize - 1)
        PROVE  rx_buffer'[i] = IF Covers(f, i) THEN f.data[i - f.off + 1] ELSE rx_buffer[i]
    <3>1. CASE rx_buffer' = rx_buffer /\ f.off >= RxBufferSize
      <4>1. ~Covers(f, i)
        BY <2>3, <3>1 DEF Covers
      <4> QED
        BY <3>1, <4>1
    <3>2. CASE rx_buffer' = CopyIn(f.off, f.data)
      <4>1. i \in DOMAIN rx_buffer
        BY DEF BusInv
      <4>2. CopyIn(f.off, f.data)[i] = IF i \in f.off..(f.off + Len(f.data) - 1)
                                     THEN f.data[i - f.off + 1] ELSE rx_buffer[i]
        BY <4>1 DEF CopyIn
      <4> QED
        BY <2>1, <3>2, <4>2 DEF Covers
    <3> QED
      BY <2>1, <3>1, <3>2
  <2>5. ArrivalInv' /\ SendingInv'
    BY <2>1, <2>4, HandleKeepsWhole DEF f
  <2>6. WholeMessageArrives'
    BY <2>1 DEF WholeInv, WholeMessageArrives
  <2> QED
    BY <2>5, <2>6 DEF WholeInv
<1>7. CASE Ignore \/ SetFrame \/ ShortFrame \/ StatusFrame
  <2>1. /\ Ring!Dequeue /\ rxmsg'.cmd \notin {"FILL", "LONG"}
        /\ UNCHANGED <<rx_buffer, out, whole, verdict>>
    BY <1>7 DEF Ignore, SetFrame, ShortFrame, StatusFrame, Receive, bvars
  <2>2. WholeMessageArrives'
    BY <2>1 DEF WholeInv, WholeMessageArrives
  <2> QED
    BY <1>5, <2>1, <2>2 DEF WholeInv
<1>8. CASE ProcessFrame
  <2>1. Ring!Dequeue /\ rxmsg'.cmd \notin {"FILL", "LONG"} /\ UNCHANGED <<rx_buffer, out, whole>>
    BY <1>8 DEF ProcessFrame, Receive
  <2> QED
    BY <1>5, <1>8, <2>1, ProcessSeesWhole DEF WholeInv
<1>10. CASE CommandsStep /\ UNCHANGED <<frames, rxmsg, bvars>>
  BY <1>1, <1>10 DEF bvars
<1>11. "other" \in Address /\ "SET" \in {"SET", "STATUS"} /\ "STATUS" \in {"SET", "STATUS"}
  BY DEF Address
<1> QED
  BY <1>2, <1>3, <1>4, <1>6, <1>7, <1>8, <1>10, <1>11, TransmitKeepsWhole DEF CanNext

-----------------------------------------------------------------------------
(* Every step keeps the invariant of the bus.                              *)
LEMMA CanStep == CanInv /\ [CanNext]_canvars => CanInv'
<1> SUFFICES ASSUME CanInv, [CanNext]_canvars PROVE CanInv'
  OBVIOUS
<1>1. CASE CanNext
  BY <1>1, BusStep, StatusStep, ReplyStep, WholeStep DEF CanInv
<1>2. CASE UNCHANGED canvars
  <2>1. BusInv'
    BY <1>2 DEF canvars, bvars, CanInv, BusInv
  <2>2. StatusInv'
    BY <1>2 DEF canvars, bvars, CanInv, StatusInv, OneStatusSlot
  <2>3. ReplyInv'
    BY <1>2, SameKeeps DEF canvars, rvars, CanInv
  <2>4. WholeInv'
    BY <1>2 DEF canvars, bvars, CanInv, WholeInv, ArrivalInv, SendingInv, WholeMessageArrives
  <2> QED
    BY <2>1, <2>2, <2>3, <2>4 DEF CanInv
<1> QED
  BY <1>1, <1>2

(* It holds in every reachable state.                                      *)
LEMMA CanAlways == CanSpec => []CanInv
  BY CanInit, CanStep, PTL DEF CanSpec

(* comm_can.c never writes outside of rx_buffer, whatever length, offset   *)
(* and order of fragments arrive, and every variable keeps its type.       *)
THEOREM BufferStaysInBounds == CanSpec => []CanTypeOK
<1>1. CanInv => CanTypeOK
  BY DEF CanInv, BusInv, ReplyInv, ReplyTypes, Place, CanTypeOK
<1> QED
  BY <1>1, CanAlways, PTL

(* The table of status messages never has two entries for one controller:  *)
(* find-or-insert is done by one thread only.                              *)
THEOREM StatusSlotsAreDistinct == CanSpec => []OneStatusSlot
<1>1. CanInv => OneStatusSlot
  BY DEF CanInv, StatusInv
<1> QED
  BY <1>1, CanAlways, PTL

(* A reply goes to the port or controller that asked, unless another       *)
(* request came between request and reply: send_func and send_buffer are   *)
(* shared, and this is all that sharing can do.                            *)
THEOREM RepliesReachAskers == CanSpec => []ReplyReachesAsker
<1>1. CanInv => ReplyReachesAsker
  BY DEF CanInv, ReplyInv
<1> QED
  BY <1>1, CanAlways, PTL

(* A message whose fragments all arrive, none of them among those of       *)
(* another controller, is the message that commands.c gets: for every      *)
(* length, across both fragment formats.                                   *)
THEOREM WholeMessagesArrive == CanSpec => []WholeMessageArrives
<1>1. CanInv => WholeMessageArrives
  BY DEF CanInv, WholeInv
<1> QED
  BY <1>1, CanAlways, PTL

-----------------------------------------------------------------------------
(* The receive rings.                                                      *)

(* The empty ring satisfies the invariant.                                 *)
LEMMA RingInit == InitRing => RingInv
<1> SUFFICES ASSUME InitRing PROVE RingInv
  OBVIOUS
<1>1. 0 \in Pos
  BY RingAssumption DEF Pos
<1>2. ring \in [Pos -> Item] /\ item \in Item
  BY RingAssumption DEF InitRing
<1> QED
  BY <1>1, <1>2, Zenon DEF InitRing, RingInv

(* Every store of the writer and of the reader keeps it.                   *)
LEMMA RingStep == RingInv /\ [RingNext]_rxvars => RingInv'
<1> SUFFICES ASSUME RingInv, [RingNext]_rxvars PROVE RingInv'
  OBVIOUS
<1> USE RingAssumption
<1>1. ASSUME NEW x \in Item, Write(x) PROVE RingInv'
  <2>1. wpc = "read" /\ write_pos \in Pos
    BY <1>1 DEF Write, RingInv
  <2>2. Wrapped(write_pos + 1) \in Pos
    BY <2>1 DEF Wrapped, Pos
  <2> QED
    BY <1>1, <2>1, <2>2 DEF RingInv, Write, wvars
<1>2. ASSUME NEW x \in Item, ReadByte(x) PROVE RingInv'
  BY <1>2 DEF RingInv, ReadByte, ringvars
<1>3. CASE StoreByte
  <2>1. (odd \/ Overtakes) \in BOOLEAN
    BY DEF Overtakes
  <2>2. preempts
    BY <1>3 DEF RingInv, StoreByte
  <2> QED
    BY <1>3, <2>1, <2>2 DEF RingInv, StoreByte
<1>4. CASE Advance
  <2>1. (odd \/ Overtakes) \in BOOLEAN
    BY DEF Overtakes
  <2>2. preempts
    BY <1>4 DEF RingInv, Advance
  <2> QED
    BY <1>4, <2>1, <2>2 DEF RingInv, Advance
<1>5. CASE WrapAround
  BY <1>5 DEF RingInv, WrapAround
<1>6. CASE Signal
  <2>1. Wrapped(slot + 1) \in Pos
    BY DEF RingInv, Pos, Wrapped
  <2> QED
    BY <1>6, <2>1 DEF RingInv, Signal
<1>7. CASE Wake
  BY <1>7 DEF RingInv, Wake, wvars
<1>8. CASE Test
  <2> DEFINE seen == read_pos # write_pos /\ read_pos = Wrapped(write_pos)
  <2>1. wpc = "read" => ~seen
    BY DEF RingInv, Pos, Wrapped
  <2>2. odd' \in BOOLEAN /\ (wpc = "read" => odd' = odd)
    <3> HIDE DEF seen
    <3>1. odd' = (odd \/ seen)
      BY <1>8 DEF Test, seen
    <3> QED
      BY <2>1, <3>1 DEF RingInv
  <2> QED
    BY <1>8, <2>2 DEF RingInv, Test, wvars
<1>9. CASE Take
  <2> DEFINE seen == ~stored /\ wpc # "advance" /\ slot = read_pos
  <2>1. wpc = "read" => ~seen
    BY DEF RingInv
  <2>2. odd' \in BOOLEAN /\ (wpc = "read" => odd' = odd)
    <3> HIDE DEF seen
    <3>1. odd' = (odd \/ seen)
      BY <1>9 DEF Take, seen
    <3> QED
      BY <2>1, <3>1 DEF RingInv
  <2>3. Wrapped(read_pos + 1) \in Pos
    BY DEF RingInv, Pos, Wrapped
  <2> QED
    BY <1>9, <2>2, <2>3 DEF RingInv, Take, wvars
<1>10. CASE UNCHANGED rxvars
  BY <1>10 DEF RingInv, rxvars, ringvars, wvars
<1> QED
  BY <1>1, <1>2, <1>3, <1>4, <1>5, <1>6, <1>7, <1>8, <1>9, <1>10 DEF RingNext, Writer, Reader

(* The items between two positions.                                        *)
Between(rp, w, taking) ==
  IF w > rp THEN w - rp ELSE IF w < rp THEN w + Size - rp ELSE IF taking THEN Size ELSE 0

Items(rg, rp, c) == [i \in 1..c |-> rg[Wrapped(rp + i - 1)]]

(* The items between the two positions: never more than the ring has, and  *)
(* their places are places of the ring.                                    *)
LEMMA BetweenBounds ==
  ASSUME NEW rp \in Pos, NEW w \in Pos, NEW taking \in BOOLEAN
  PROVE  LET p == Between(rp, w, taking)
         IN /\ p \in Nat /\ p <= Size /\ Wrapped(rp + p) = w
            /\ taking => p >= 1
            /\ p = Size <=> taking /\ rp = w
            /\ \A i \in 1..p : Wrapped(rp + i - 1) \in Pos /\ (p < Size => Wrapped(rp + i - 1) # w)
  BY RingAssumption DEF Between, Pos, Wrapped

(* One step of the writer: one item more, or all of them overrun.          *)
LEMMA BetweenMore ==
  ASSUME NEW rp \in Pos, NEW w \in Pos, NEW taking \in BOOLEAN
  PROVE  LET p == Between(rp, w, taking)
         IN Between(rp, Wrapped(w + 1), taking) =
              IF p = Size THEN 1 ELSE IF p = Size - 1 THEN (IF taking THEN Size ELSE 0) ELSE p + 1
  BY RingAssumption DEF Between, Pos, Wrapped

(* One step of the reader: one item less.                                  *)
LEMMA BetweenLess ==
  ASSUME NEW rp \in Pos, NEW w \in Pos
  PROVE  Between(Wrapped(rp + 1), w, FALSE) = Between(rp, w, TRUE) - 1
  BY RingAssumption DEF Between, Pos, Wrapped

(* The last of the items is in the slot before the write position, the     *)
(* others are not.                                                         *)
LEMMA LastSlot ==
  ASSUME NEW rp \in Pos, NEW last \in Pos, NEW p \in 1..Size, Wrapped(rp + p) = Wrapped(last + 1)
  PROVE  /\ Wrapped(rp + (p - 1)) = last
         /\ \A i \in 1..(p - 1) : Wrapped(rp + i - 1) \in Pos /\ Wrapped(rp + i - 1) # last
  BY RingAssumption DEF Pos, Wrapped

(* A write position that has run off the end is put back before it is      *)
(* used.                                                                   *)
LEMMA PositionWraps ==
  ASSUME NEW sl \in Pos, NEW wp, wp \in Pos \/ wp = sl \/ wp = sl + 1 \/ wp = Wrapped(sl + 1)
  PROVE  Wrapped(wp) \in Pos
<1> USE RingAssumption
<1>1. wp \in Pos \/ wp = sl + 1
  BY DEF Pos, Wrapped
<1>2. wp \in Nat /\ wp <= Size
  BY <1>1 DEF Pos
<1> QED
  BY <1>2 DEF Wrapped, Pos

(* The items of the ring from a position on are a sequence of as many      *)
(* items.                                                                  *)
LEMMA ItemsTyped ==
  ASSUME NEW rg \in [Pos -> Item], NEW rp \in Pos, NEW c \in Nat, c <= Size
  PROVE  /\ Items(rg, rp, c) \in Seq(Item) /\ Len(Items(rg, rp, c)) = c
         /\ \A i \in 1..c : Items(rg, rp, c)[i] = rg[Wrapped(rp + i - 1)]
<1>1. \A i \in 1..c : Wrapped(rp + i - 1) \in Pos
  BY RingAssumption DEF Pos, Wrapped
<1>2. Items(rg, rp, c) \in [1..c -> Item]
  BY <1>1 DEF Items
<1>3. Items(rg, rp, c) \in Seq(Item)
  BY <1>2, SeqDef
<1>4. Len(Items(rg, rp, c)) = c
  BY <1>2, <1>3, LenProperties
<1> QED
  BY <1>3, <1>4 DEF Items

(* They are the same when their slots are.                                 *)
LEMMA ItemsSame ==
  ASSUME NEW rg \in [Pos -> Item], NEW sg \in [Pos -> Item], NEW rp \in Pos, NEW c \in Nat, c <= Size,
         \A i \in 1..c : sg[Wrapped(rp + i - 1)] = rg[Wrapped(rp + i - 1)]
  PROVE  Items(sg, rp, c) = Items(rg, rp, c)
  BY DEF Items

(* One more slot appends its item.                                         *)
LEMMA ItemsMore ==
  ASSUME NEW rg \in [Pos -> Item], NEW sg \in [Pos -> Item], NEW rp \in Pos, NEW c \in Nat, c < Size,
         \A i \in 1..c : sg[Wrapped(rp + i - 1)] = rg[Wrapped(rp + i - 1)]
  PROVE  Items(sg, rp, c + 1) = Append(Items(rg, rp, c), sg[Wrapped(rp + c)])
<1> DEFINE a == Items(sg, rp, c + 1)
           b == Items(rg, rp, c)
           x == sg[Wrapped(rp + c)]
           d == Append(b, x)
<1>1. c + 1 \in Nat /\ c + 1 <= Size /\ c <= Size
  BY RingAssumption
<1>2. a \in Seq(Item) /\ Len(a) = c + 1 /\ \A i \in 1..(c + 1) : a[i] = sg[Wrapped(rp + i - 1)]
  BY <1>1, ItemsTyped
<1>3. b \in Seq(Item) /\ Len(b) = c /\ \A i \in 1..c : b[i] = rg[Wrapped(rp + i - 1)]
  BY <1>1, ItemsTyped
<1>4. x \in Item
  <2>1. Wrapped(rp + c) \in Pos
    BY RingAssumption DEF Pos, Wrapped
  <2> QED
    BY <2>1
<1>y. a[c + 1] = x
  <2>1. c + 1 \in 1..(c + 1) /\ rp + (c + 1) - 1 = rp + c
    BY DEF Pos
  <2> QED
    BY <1>2, <2>1
<1> HIDE DEF a, b, x
<1>5. d \in Seq(Item) /\ Len(d) = c + 1 /\ d[c + 1] = x /\ \A i \in 1..c : d[i] = b[i]
  BY <1>3, <1>4, AppendProperties
<1> HIDE DEF d
<1>6. \A i \in 1..(c + 1) : a[i] = d[i]
  <2> SUFFICES ASSUME NEW i \in 1..(c + 1) PROVE a[i] = d[i]
    OBVIOUS
  <2>1. CASE i = c + 1
    BY <1>5, <1>y, <2>1
  <2>2. CASE i # c + 1
    <3>1. i \in 1..c
      BY <2>2
    <3> QED
      BY <1>2, <1>3, <1>5, <3>1
  <2> QED
    BY <2>1, <2>2
<1>7. a = d
  BY <1>2, <1>5, <1>6, SeqEqual
<1> QED
  BY <1>7 DEF a, d, b, x

(* A step of the read position takes the first item away.                  *)
LEMMA ItemsLess ==
  ASSUME NEW rg \in [Pos -> Item], NEW rp \in Pos, NEW c \in Nat \ {0}, c <= Size
  PROVE  LET q == Items(rg, rp, c)
         IN q # <<>> /\ Head(q) = rg[rp] /\ Tail(q) = Items(rg, Wrapped(rp + 1), c - 1)
<1> DEFINE q == Items(rg, rp, c)
           a == Tail(q)
           b == Items(rg, Wrapped(rp + 1), c - 1)
<1>1. q \in Seq(Item) /\ Len(q) = c /\ \A i \in 1..c : q[i] = rg[Wrapped(rp + i - 1)]
  BY ItemsTyped
<1>2. Wrapped(rp + 1) \in Pos /\ c - 1 \in Nat /\ c - 1 <= Size
  BY RingAssumption DEF Pos, Wrapped
<1>3. b \in Seq(Item) /\ Len(b) = c - 1 /\ \A i \in 1..(c - 1) : b[i] = rg[Wrapped(Wrapped(rp + 1) + i - 1)]
  BY <1>2, ItemsTyped
<1> HIDE DEF q, b
<1>4. q # <<>>
  BY <1>1
<1>5. a \in Seq(Item) /\ Len(a) = c - 1 /\ \A i \in 1..(c - 1) : a[i] = q[i + 1]
  BY <1>1, <1>4, HeadTailProperties
<1>6. Head(q) = rg[rp]
  <2>1. 1 \in 1..c /\ Wrapped(rp + 1 - 1) = rp
    BY RingAssumption DEF Pos, Wrapped
  <2> QED
    BY <1>1, <1>4, <2>1
<1> HIDE DEF a
<1>7. \A i \in 1..(c - 1) : a[i] = b[i]
  <2> SUFFICES ASSUME NEW i \in 1..(c - 1) PROVE a[i] = b[i]
    OBVIOUS
  <2>1. i + 1 \in 1..c /\ Wrapped(Wrapped(rp + 1) + i - 1) = Wrapped(rp + (i + 1) - 1)
    BY RingAssumption DEF Pos, Wrapped
  <2> QED
    BY <1>1, <1>3, <1>5, <2>1
<1>8. a = b
  BY <1>3, <1>5, <1>7, SeqEqual
<1> QED
  BY <1>4, <1>6, <1>8 DEF q, a, b

(* No slots, no items.                                                     *)
LEMMA ItemsNone == \A rg, rp : Items(rg, rp, 0) = <<>>
  BY DEF Items

(* What the ring holds, in these terms.                                    *)
LEMMA QueuedIs ==
  ASSUME RingInv
  PROVE  /\ Wrapped(write_pos) \in Pos
         /\ Published = Between(read_pos, Wrapped(write_pos), rpc = "take")
         /\ Published \in Nat /\ Published <= Size
         /\ Count \in Nat /\ Count <= Size
         /\ Queued = Items(ring, read_pos, Count)
         /\ Queued \in Seq(Item) /\ Len(Queued) = Count
<1> USE RingAssumption
<1>1. Wrapped(write_pos) \in Pos
  BY DEF RingInv, Wrapped, Pos
<1>2. Published = Between(read_pos, Wrapped(write_pos), rpc = "take")
  BY DEF Published, Between
<1>3. (rpc = "take") \in BOOLEAN /\ read_pos \in Pos /\ ring \in [Pos -> Item]
  BY DEF RingInv
<1>4. Published \in Nat /\ Published <= Size
  BY <1>1, <1>2, <1>3, BetweenBounds
<1>5. Count \in Nat /\ Count <= Size
  BY <1>4 DEF Count
<1>6. Queued = Items(ring, read_pos, Count)
  BY DEF Queued, Items
<1>7. Queued \in Seq(Item) /\ Len(Queued) = Count
  BY <1>3, <1>5, <1>6, ItemsTyped
<1> QED
  BY <1>1, <1>2, <1>4, <1>5, <1>6, <1>7

(* The same after a step.                                                  *)
LEMMA QueuedIsPrimed ==
  ASSUME RingInv'
  PROVE  /\ Wrapped(write_pos') \in Pos
         /\ Published' = Between(read_pos', Wrapped(write_pos'), rpc' = "take")
         /\ Count' = IF ~stored' /\ wpc' # "advance" /\ Published' > 0 THEN Published' - 1 ELSE Published'
         /\ Queued' = Items(ring', read_pos', Count')
<1> USE RingAssumption
<1>1. Wrapped(write_pos') \in Pos
  <2>1. slot' \in Pos /\ wpc' \in {"read", "advance", "wrap", "signal"}
    BY DEF RingInv
  <2>2. \/ write_pos' \in Pos \/ write_pos' = slot' \/ write_pos' = slot' + 1
        \/ write_pos' = Wrapped(slot' + 1)
    BY <2>1 DEF RingInv
  <2> QED
    BY <2>1, <2>2, PositionWraps
<1>2. Published' = Between(read_pos', Wrapped(write_pos'), rpc' = "take")
  BY DEF Published, Between
<1>3. Count' = IF ~stored' /\ wpc' # "advance" /\ Published' > 0 THEN Published' - 1 ELSE Published'
  BY DEF Count
<1>4. Queued' = Items(ring', read_pos', Count')
  BY DEF Queued, Items
<1> QED
  BY <1>1, <1>2, <1>3, <1>4

(* A step that changes neither ring nor what of it counts.                 *)
LEMMA QueuedKept ==
  ASSUME RingInv, RingInv', UNCHANGED <<ring, read_pos, got, odd, preempts>>, Count' = Count
  PROVE  UNCHANGED F!fifo
<1>1. Queued' = Queued
  BY QueuedIs, QueuedIsPrimed
<1> QED
  BY <1>1 DEF F!fifo

(* A step that adds an item, or overruns all of them, is a Put of the      *)
(* abstract queue.                                                         *)
LEMMA PutStep ==
  ASSUME ~odd, ~odd', UNCHANGED <<got, preempts>>, NEW x \in Item,
         \/ Len(Queued) < Size /\ Queued' = Append(Queued, x)
         \/ Len(Queued) >= Size - 1 /\ Queued' \in {<<>>, <<x>>}
  PROVE  F!Next
<1>1. F!Put(x)
  BY DEF F!Put, F!Enqueue
<1> QED
  BY <1>1 DEF F!Next

(* The interrupt of UART and the high-priority thread of CAN.              *)
LEMMA WriteIsPut ==
  ASSUME RingInv, RingInv', NEW x \in Item, Write(x)
  PROVE  F!Next
<1> USE RingAssumption
<1> DEFINE p == Published
           rp == read_pos
           w == write_pos
           taking == rpc = "take"
<1>1. /\ ~preempts /\ wpc = "read" /\ stored /\ w \in Pos /\ ~odd /\ ~odd' /\ rp \in Pos
      /\ ring \in [Pos -> Item] /\ ring' \in [Pos -> Item] /\ taking \in BOOLEAN
  BY DEF Write, RingInv, wvars
<1>2. /\ ring' = [ring EXCEPT ![w] = x] /\ write_pos' = Wrapped(w + 1)
      /\ UNCHANGED <<read_pos, rpc, got, odd, wpc, stored, preempts>>
  BY DEF Write, wvars
<1>3. Wrapped(w) = w /\ Wrapped(write_pos') = write_pos'
  BY <1>1, <1>2 DEF Wrapped, Pos
<1>4. p = Between(rp, w, taking) /\ Count = p /\ Queued = Items(ring, rp, p)
      /\ p \in Nat /\ p <= Size /\ Len(Queued) = p
  BY <1>1, <1>3, QueuedIs DEF Count
<1>5. Count' = Between(rp, Wrapped(w + 1), taking) /\ Queued' = Items(ring', rp, Count')
  BY <1>1, <1>2, <1>3, QueuedIsPrimed
<1> HIDE DEF p, rp, w, taking
<1>6. Count' = IF p = Size THEN 1 ELSE IF p = Size - 1 THEN (IF taking THEN Size ELSE 0) ELSE p + 1
  BY <1>1, <1>4, <1>5, BetweenMore
<1>7. Wrapped(rp + p) = w /\ (p < Size => \A i \in 1..p : Wrapped(rp + i - 1) \in Pos /\ Wrapped(rp + i - 1) # w)
      /\ (p = Size => rp = w)
  BY <1>1, <1>4, BetweenBounds
<1>8. CASE Count' = p + 1 /\ p < Size
  <2>1. \A i \in 1..p : ring'[Wrapped(rp + i - 1)] = ring[Wrapped(rp + i - 1)]
    BY <1>1, <1>2, <1>7, <1>8
  <2>2. Items(ring', rp, p + 1) = Append(Items(ring, rp, p), ring'[Wrapped(rp + p)])
    BY <1>1, <1>4, <1>8, <2>1, ItemsMore
  <2>3. ring'[Wrapped(rp + p)] = x
    BY <1>1, <1>2, <1>7
  <2>4. Queued' = Append(Queued, x)
    BY <1>4, <1>5, <1>8, <2>2, <2>3
  <2> QED
    BY <1>1, <1>2, <1>4, <1>8, <2>4, PutStep
<1>9. CASE Count' = 0 /\ p = Size - 1
  <2>1. Queued' = <<>>
    BY <1>5, <1>9, ItemsNone
  <2>2. Len(Queued) >= Size - 1
    BY <1>4, <1>9
  <2> QED
    BY <1>1, <1>2, <2>1, <2>2, PutStep
<1>10. CASE p = Size
  <2>1. 0 \in Nat /\ 0 < Size /\ 0 + 1 = 1 /\ \A i \in 1..0 : ring'[Wrapped(rp + i - 1)] = ring'[Wrapped(rp + i - 1)]
    OBVIOUS
  <2>2. Items(ring', rp, 1) = Append(Items(ring', rp, 0), ring'[Wrapped(rp + 0)])
    BY <1>1, <2>1, ItemsMore
  <2>3. ring'[Wrapped(rp + 0)] = x
    <3>1. Wrapped(rp + 0) = w
      BY <1>1, <1>3, <1>7, <1>10 DEF Pos
    <3> QED
      BY <1>1, <1>2, <3>1
  <2>4. Append(<<>>, x) = <<x>>
    OBVIOUS
  <2>5. Queued' = <<x>>
    BY <1>5, <1>6, <1>10, <2>2, <2>3, <2>4, ItemsNone
  <2>6. Len(Queued) >= Size - 1
    BY <1>4, <1>10
  <2> QED
    BY <1>1, <1>2, <2>5, <2>6, PutStep
<1> QED
  BY <1>4, <1>6, <1>8, <1>9, <1>10

(* The USB writer stores a byte whose position is not out yet, or the one  *)
(* that was missing.                                                       *)
LEMMA StoreIsPut ==
  ASSUME RingInv, RingInv', StoreByte, ~odd'
  PROVE  F!Next \/ UNCHANGED F!fifo
<1> USE RingAssumption
<1> DEFINE p == Published
           rp == read_pos
           w == Wrapped(write_pos)
           taking == rpc = "take"
<1>0. ~odd /\ ~Overtakes /\ odd' = odd
  <2>1. odd' = (odd \/ Overtakes) /\ odd \in BOOLEAN /\ odd' \in BOOLEAN
    BY DEF StoreByte, RingInv
  <2> QED
    BY <2>1, Zenon
<1>1. /\ ~stored /\ stored' /\ ~odd /\ ~Overtakes /\ ring' = [ring EXCEPT ![slot] = item]
      /\ UNCHANGED <<read_pos, write_pos, rpc, got, odd, wpc, preempts>>
  BY <1>0 DEF StoreByte
<1>2. /\ rp \in Pos /\ slot \in Pos /\ item \in Item /\ wpc \in {"advance", "wrap", "signal"}
      /\ ring \in [Pos -> Item] /\ ring' \in [Pos -> Item] /\ taking \in BOOLEAN
  BY <1>1 DEF RingInv
<1>3. p = Between(rp, w, taking) /\ p \in Nat /\ p <= Size /\ w \in Pos
      /\ Queued = Items(ring, rp, Count) /\ Len(Queued) = Count
      /\ Count = IF wpc # "advance" /\ p > 0 THEN p - 1 ELSE p
  BY <1>1, QueuedIs DEF Count
<1>4. Count' = p /\ Queued' = Items(ring', rp, p)
  BY <1>1, <1>3, QueuedIsPrimed
<1>5. /\ Wrapped(rp + p) = w
      /\ \A i \in 1..p : Wrapped(rp + i - 1) \in Pos /\ (p < Size => Wrapped(rp + i - 1) # w)
      /\ p = Size <=> taking /\ rp = w
  <2> HIDE DEF p, rp, w, taking
  <2> QED
    BY <1>2, <1>3, BetweenBounds
<1>6. ~(taking /\ slot = rp)
  BY <1>1, <1>2 DEF Overtakes, Wrapped, Pos
<1>7. wpc = "advance" => w = slot
  BY <1>2 DEF RingInv, Wrapped, Pos
<1>8. wpc # "advance" => w = Wrapped(slot + 1)
  BY <1>2 DEF RingInv, Wrapped, Pos
<1> HIDE DEF p, rp, w, taking
<1>9. CASE wpc = "advance"
  <2>1. p < Size /\ Count = p
    BY <1>3, <1>5, <1>6, <1>7, <1>9
  <2>2. \A i \in 1..p : ring'[Wrapped(rp + i - 1)] = ring[Wrapped(rp + i - 1)]
    BY <1>1, <1>2, <1>5, <1>7, <1>9, <2>1
  <2>3. Queued' = Queued
    <3>1. p \in Nat /\ p <= Size
      BY <1>3
    <3>2. Items(ring', rp, p) = Items(ring, rp, p)
      BY <1>2, <2>2, <3>1, ItemsSame
    <3> QED
      BY <1>3, <1>4, <2>1, <3>2
  <2> QED
    BY <1>1, <2>3 DEF F!fifo
<1>10. CASE wpc # "advance" /\ p = 0
  <2>1. Queued' = Queued
    BY <1>3, <1>4, <1>10, ItemsNone
  <2> QED
    BY <1>1, <2>1 DEF F!fifo
<1>11. CASE wpc # "advance" /\ p > 0
  <2> DEFINE c == p - 1
  <2>1. c \in Nat /\ c < Size /\ Count = c /\ c + 1 = p
    BY <1>3, <1>11
  <2>2. Wrapped(rp + c) = slot /\ \A i \in 1..c : Wrapped(rp + i - 1) \in Pos /\ Wrapped(rp + i - 1) # slot
    <3>1. Wrapped(rp + p) = Wrapped(slot + 1)
      BY <1>5, <1>8, <1>11
    <3>2. p \in 1..Size
      BY <1>3, <1>11
    <3> QED
      BY <1>2, <3>1, <3>2, LastSlot
  <2>3. \A i \in 1..c : ring'[Wrapped(rp + i - 1)] = ring[Wrapped(rp + i - 1)]
    BY <1>1, <1>2, <2>2
  <2> HIDE DEF c
  <2>4. Items(ring', rp, c + 1) = Append(Items(ring, rp, c), ring'[Wrapped(rp + c)])
    BY <1>2, <2>1, <2>3, ItemsMore
  <2>5. ring'[Wrapped(rp + c)] = item
    BY <1>1, <1>2, <2>2
  <2>6. Queued' = Append(Queued, item) /\ Len(Queued) < Size
    BY <1>3, <1>4, <2>1, <2>4, <2>5
  <2> QED
    BY <1>1, <1>2, <2>6, PutStep
<1> QED
  BY <1>3, <1>9, <1>10, <1>11

(* The USB writer's position: the byte is out if it was stored before; if  *)
(* the ring was full it looks empty.                                       *)
LEMMA AdvanceIsPut ==
  ASSUME RingInv, RingInv', Advance, ~odd'
  PROVE  F!Next \/ UNCHANGED F!fifo
<1> USE RingAssumption
<1> DEFINE p == Published
           rp == read_pos
           w == slot
           taking == rpc = "take"
<1>0. ~odd /\ ~Overtakes /\ odd' = odd
  <2>1. odd' = (odd \/ Overtakes) /\ odd \in BOOLEAN /\ odd' \in BOOLEAN
    BY DEF Advance, RingInv
  <2> QED
    BY <2>1, Zenon
<1>1. /\ wpc = "advance" /\ wpc' = "wrap" /\ ~odd /\ ~Overtakes /\ write_pos' = write_pos + 1
      /\ UNCHANGED <<ring, read_pos, rpc, got, odd, stored, preempts>>
  BY <1>0 DEF Advance
<1>2. /\ rp \in Pos /\ w \in Pos /\ write_pos = w /\ stored \in BOOLEAN
      /\ ring \in [Pos -> Item] /\ taking \in BOOLEAN
  BY <1>1 DEF RingInv
<1>3. Wrapped(write_pos) = w /\ Wrapped(write_pos') = Wrapped(w + 1)
  BY <1>1, <1>2 DEF Wrapped, Pos
<1>4. p = Between(rp, w, taking) /\ p \in Nat /\ p <= Size
      /\ Count = p /\ Queued = Items(ring, rp, p) /\ Len(Queued) = p
  BY <1>1, <1>3, QueuedIs DEF Count
<1>5. /\ Published' = Between(rp, Wrapped(w + 1), taking) /\ Queued' = Items(ring, rp, Count')
      /\ Count' = IF ~stored /\ Published' > 0 THEN Published' - 1 ELSE Published'
  BY <1>1, <1>3, QueuedIsPrimed
<1>6. Wrapped(rp + p) = w /\ (p = Size <=> taking /\ rp = w)
  <2> HIDE DEF p, rp, w, taking
  <2> QED
    BY <1>2, <1>4, BetweenBounds
<1>7. p < Size
  <2>1. ~(taking /\ w = rp)
    BY <1>1, <1>2, <1>3 DEF Overtakes
  <2> HIDE DEF p
  <2> QED
    BY <1>4, <1>6, <2>1
<1> HIDE DEF p, rp, w, taking
<1>8. Published' = IF p = Size - 1 THEN (IF taking THEN Size ELSE 0) ELSE p + 1
  BY <1>2, <1>4, <1>5, <1>7, BetweenMore
<1>9. CASE Published' = p + 1 /\ ~stored
  <2>1. Count' = p
    BY <1>4, <1>5, <1>9
  <2>2. Queued' = Queued
    BY <1>4, <1>5, <2>1
  <2> QED
    BY <1>1, <2>2 DEF F!fifo
<1>10. CASE Published' = p + 1 /\ stored
  <2>1. Count' = p + 1
    BY <1>5, <1>10
  <2>2. Items(ring, rp, p + 1) = Append(Items(ring, rp, p), ring[Wrapped(rp + p)])
    BY <1>2, <1>4, <1>7, ItemsMore
  <2>3. ring[Wrapped(rp + p)] \in Item
    BY <1>2, <1>6
  <2>4. Queued' = Append(Queued, ring[Wrapped(rp + p)]) /\ Len(Queued) < Size
    BY <1>4, <1>5, <1>7, <2>1, <2>2
  <2> QED
    BY <1>1, <2>3, <2>4, PutStep
<1>11. CASE Published' = 0 /\ p = Size - 1
  <2>1. Count' = 0
    BY <1>5, <1>11
  <2>2. Queued' = <<>> /\ Len(Queued) >= Size - 1
    BY <1>4, <1>5, <1>11, <2>1, ItemsNone
  <2>3. Zero \in Item
    OBVIOUS
  <2> QED
    BY <1>1, <2>2, <2>3, PutStep
<1> QED
  BY <1>2, <1>4, <1>8, <1>9, <1>10, <1>11

(* The processing thread takes the first item.                             *)
LEMMA TakeIsGet ==
  ASSUME RingInv, RingInv', Take, ~odd'
  PROVE  F!Next
<1> USE RingAssumption
<1> DEFINE p == Published
           rp == read_pos
           w == Wrapped(write_pos)
<1>1. /\ rpc = "take" /\ rpc' = "test" /\ ~odd /\ got' = ring[rp] /\ read_pos' = Wrapped(rp + 1)
      /\ ~(~stored /\ wpc # "advance" /\ slot = rp)
      /\ UNCHANGED <<ring, write_pos, wpc, stored, preempts, slot>>
  BY DEF Take, wvars
<1>2. rp \in Pos /\ ring \in [Pos -> Item] /\ slot \in Pos /\ stored \in BOOLEAN
  BY DEF RingInv
<1>3. p = Between(rp, w, TRUE) /\ p \in Nat /\ p <= Size /\ w \in Pos
      /\ Count \in Nat /\ Count <= Size /\ Queued = Items(ring, rp, Count)
      /\ Count = IF ~stored /\ wpc # "advance" /\ p > 0 THEN p - 1 ELSE p
  BY <1>1, QueuedIs DEF Count
<1>4. /\ Published' = Between(Wrapped(rp + 1), w, FALSE) /\ Queued' = Items(ring, Wrapped(rp + 1), Count')
      /\ Count' = IF ~stored /\ wpc # "advance" /\ Published' > 0 THEN Published' - 1 ELSE Published'
  BY <1>1, QueuedIsPrimed
<1>5. p >= 1 /\ Wrapped(rp + p) = w
  BY <1>2, <1>3, BetweenBounds
<1>6. ~stored /\ wpc # "advance" => w = Wrapped(slot + 1)
  BY DEF RingInv, Wrapped, Pos
<1> HIDE DEF p, rp, w
<1>7. Published' = p - 1
  BY <1>2, <1>3, <1>4, BetweenLess
<1>12. p \in Nat /\ p >= 1
  BY <1>3, <1>5
<1>8. ~stored /\ wpc # "advance" => p >= 2
  <2>1. ASSUME ~stored, wpc # "advance", p = 1 PROVE FALSE
    <3>1. Wrapped(rp + 1) = Wrapped(slot + 1)
      BY <1>5, <1>6, <2>1
    <3>2. rp = slot
      BY <1>2, <3>1 DEF Wrapped, Pos
    <3> QED
      BY <1>1, <2>1, <3>2
  <2>2. p = 1 \/ p >= 2
    BY <1>12
  <2> QED
    BY <2>1, <2>2
<1>13. Count = (IF ~stored /\ wpc # "advance" /\ p > 0 THEN p - 1 ELSE p)
  BY <1>3
<1>14. Count' = (IF ~stored /\ wpc # "advance" /\ p - 1 > 0 THEN (p - 1) - 1 ELSE p - 1)
  BY <1>4, <1>7
<1>9. Count \in Nat \ {0} /\ Count' = Count - 1
  <2>1. CASE ~stored /\ wpc # "advance"
    <3>1. p >= 2
      BY <1>8, <2>1
    <3>2. Count = p - 1 /\ Count' = p - 2
      BY <1>12, <1>13, <1>14, <2>1, <3>1
    <3> QED
      BY <1>12, <3>1, <3>2
  <2>2. CASE ~(~stored /\ wpc # "advance")
    <3>1. Count = p /\ Count' = p - 1
      BY <1>13, <1>14, <2>2
    <3> QED
      BY <1>12, <3>1
  <2> QED
    BY <2>1, <2>2
<1>10. Queued # <<>> /\ Head(Queued) = ring[rp] /\ Tail(Queued) = Items(ring, Wrapped(rp + 1), Count - 1)
  BY <1>2, <1>3, <1>9, ItemsLess
<1>11. F!Get
  BY <1>1, <1>4, <1>9, <1>10 DEF F!Get, F!Dequeue
<1> QED
  BY <1>11 DEF F!Next

(* Every store of the writer and the reader is a step of the abstract      *)
(* queue or changes nothing of it.                                         *)
LEMMA RingRefines ==
  ASSUME RingInv, RingInv', [RingNext]_rxvars
  PROVE  [F!Next]_(F!fifo)
<1> USE RingAssumption
<1>1. CASE preempts /\ odd' /\ preempts' = preempts
  <2>1. F!Torn
    BY <1>1 DEF F!Torn
  <2> QED
    BY <2>1 DEF F!Next
<1>2. CASE UNCHANGED rxvars
  <2>1. UNCHANGED <<ring, read_pos, got, odd, preempts>> /\ Count' = Count
    BY <1>2 DEF rxvars, ringvars, wvars, Count, Published
  <2> QED
    BY <2>1, QueuedKept
<1>3. CASE RingNext /\ ~(preempts /\ odd')
  <2>1. ~odd' /\ preempts' = preempts
    <3>1. preempts' = preempts
      BY <1>3 DEF RingNext, Writer, Reader, Write, ReadByte, StoreByte, Advance, WrapAround, Signal, Wake, Test, Take
    <3> QED
      BY <1>3, <3>1 DEF RingInv
  <2>2. ASSUME NEW x \in Item, ReadByte(x) PROVE UNCHANGED F!fifo
    <3>1. UNCHANGED <<ring, read_pos, write_pos, rpc, got, odd, preempts>>
          /\ stored /\ ~stored' /\ wpc' = "advance"
      BY <2>2 DEF ReadByte, ringvars, RingInv
    <3>2. Count' = Count
      BY <3>1 DEF Count, Published
    <3> QED
      BY <3>1, <3>2, QueuedKept
  <2>3. CASE WrapAround
    <3>1. UNCHANGED <<ring, read_pos, rpc, got, odd, stored, preempts>> /\ wpc = "wrap" /\ wpc' = "signal"
          /\ write_pos' = Wrapped(write_pos)
      BY <2>3 DEF WrapAround
    <3>2. Wrapped(write_pos') = Wrapped(write_pos)
      BY <3>1, QueuedIs DEF Wrapped, Pos
    <3>3. Published' = Published
      BY <3>1, <3>2, QueuedIs, QueuedIsPrimed
    <3>4. Count' = Count
      BY <3>1, <3>3, QueuedIsPrimed DEF Count
    <3> QED
      BY <3>1, <3>4, QueuedKept
  <2>4. CASE Signal
    <3>1. UNCHANGED <<ring, read_pos, write_pos, rpc, got, odd, stored, preempts>> /\ stored
      BY <2>4 DEF Signal
    <3>2. Count' = Count
      BY <3>1 DEF Count, Published
    <3> QED
      BY <3>1, <3>2, QueuedKept
  <2>5. CASE Wake
    <3>1. UNCHANGED <<ring, read_pos, write_pos, got, odd, stored, wpc, preempts>> /\ rpc = "wait" /\ rpc' = "test"
      BY <2>5 DEF Wake, wvars
    <3>2. Count' = Count
      BY <3>1 DEF Count, Published
    <3> QED
      BY <3>1, <3>2, QueuedKept
  <2>6. CASE Test
    <3>1. UNCHANGED <<ring, read_pos, write_pos, got, stored, wpc, preempts>> /\ rpc = "test"
          /\ rpc' = IF read_pos # write_pos THEN "take" ELSE "wait"
      BY <2>6 DEF Test, wvars
    <3> DEFINE seen == read_pos # write_pos /\ read_pos = Wrapped(write_pos)
    <3>2. ~seen
      <4>1. odd' = (odd \/ seen)
        BY <2>6 DEF Test
      <4> QED
        BY <2>1, <4>1, Zenon
    <3>3. odd' = odd
      <4>1. odd' = (odd \/ seen) /\ odd \in BOOLEAN
        BY <2>6 DEF Test, RingInv
      <4> QED
        BY <2>1, <4>1, Zenon
    <3>4. Published' = Published
      <4> DEFINE w == Wrapped(write_pos)
      <4>1. w \in Pos /\ Published = Between(read_pos, w, FALSE)
            /\ Published' = Between(read_pos, w, rpc' = "take") /\ read_pos \in Pos
        BY <3>1, QueuedIs, QueuedIsPrimed DEF RingInv
      <4>2. rpc' = "take" => read_pos # w
        BY <3>1, <3>2
      <4> HIDE DEF w
      <4>3. CASE rpc' = "take"
        BY <4>1, <4>2, <4>3 DEF Between, Pos
      <4>4. CASE rpc' # "take"
        BY <4>1, <4>4 DEF Between
      <4> QED
        BY <4>3, <4>4
    <3>5. Count' = Count
      BY <3>1, <3>4, QueuedIsPrimed DEF Count
    <3> QED
      BY <3>1, <3>3, <3>5, QueuedKept
  <2> QED
    BY <1>3, <2>1, <2>2, <2>3, <2>4, <2>5, <2>6, WriteIsPut, StoreIsPut, AdvanceIsPut, TakeIsGet
    DEF RingNext, Writer, Reader
<1>4. RingNext => preempts' = preempts
  BY DEF RingNext, Writer, Reader, Write, ReadByte, StoreByte, Advance, WrapAround, Signal, Wake, Test, Take
<1> QED
  BY <1>1, <1>2, <1>3, <1>4

(* The rings implement the lossy FIFO, whatever their size.                *)
THEOREM RingImplementsFifo == RingSpec => F!Fifo
<1>1. InitRing => F!Init
  <2> SUFFICES ASSUME InitRing PROVE F!Init
    OBVIOUS
  <2>1. Count = 0
    BY RingAssumption DEF InitRing, Count, Published, Wrapped
  <2>2. Queued = <<>>
    BY <2>1 DEF Queued
  <2> QED
    BY <2>2 DEF InitRing, F!Init
<1>2. RingInv /\ RingInv' /\ [RingNext]_rxvars => [F!Next]_(F!fifo)
  BY RingRefines
<1> QED
  BY <1>1, <1>2, RingInit, RingStep, PTL DEF RingSpec, F!Fifo
=============================================================================
