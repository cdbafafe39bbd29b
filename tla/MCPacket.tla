------------------------------ MODULE MCPacket ------------------------------
(* Bytes of two bits: a payload of four needs the length that no byte      *)
(* holds, one of five the two-byte length and all of the buffer.           *)
EXTENDS PacketInv, SequencesExt

CrcDef(p) == FoldLeft(LAMBDA c, b : (c * 5 + b + 3) % (Base * Base), 0, p)
PayloadsDef == {<<>>, <<1>>, <<0, 2, 1, 3>>, <<2, 1, 3, 3, 3>>}
=============================================================================
