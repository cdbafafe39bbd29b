------------------------------ MODULE MCLinks ------------------------------
(* Payloads of bytes 0..3 in a buffer of five.  FILL_RX_BUFFER holds two   *)
(* bytes at offsets up to 3, the long form two: a payload of five takes    *)
(* two of the one and a partly filled one of the other.                    *)
EXTENDS CommCan, RxRing, SequencesExt

CrcDef(p) == FoldLeft(LAMBDA c, b : (c * 3 + b) % 16, 0, p)
MessageDef == {[data |-> <<1>>, cmd |-> "detect"],
               [data |-> <<2, 1, 3, 3, 1>>, cmd |-> "get"]}

(* The ring of a serial port and the CAN bus share nothing but what        *)
(* Commands abstracts from: a behaviour shows one of them.                 *)
VARIABLE link

(* Bound: packets from the ports, messages from the bus and lost frames    *)
(* together, so that some behaviours have two of the first or the second.  *)
MaxTraffic == 3

LinksInit ==
  /\ InitRing /\ InitCan
  /\ link \in {"usb", "uart", "can"}
  /\ preempts = (link = "usb")

LinksNext ==
  \/ link = "can" /\ CanNext /\ requests' + messages' + lost' <= MaxTraffic /\ UNCHANGED <<rxvars, link>>
  \/ link # "can" /\ RingNext /\ UNCHANGED <<canvars, link>>

LinksSpec ==
  /\ LinksInit /\ [][LinksNext]_<<canvars, rxvars, link>>
  /\ WF_<<canvars, rxvars, link>>(link # "can" /\ Writer /\ UNCHANGED <<canvars, link>>)
  /\ WF_<<canvars, rxvars, link>>(link # "can" /\ Reader /\ UNCHANGED <<canvars, link>>)
=============================================================================
