------------------------------ MODULE Commands ------------------------------
(***************************************************************************)
(* Where replies go: commands.c with the process_packet callbacks of       *)
(* comm_usb.c and app_uartcomm.c and the detect thread.  There is one      *)
(* send_func, one send_buffer and one rx_buffer_last_id for all threads,   *)
(* which the scheduler switches between at any statement: a reply is       *)
(* written to send_buffer and read from it again half by half.             *)
(* The CAN thread's frames are in module CommCan.                          *)
(***************************************************************************)
EXTENDS Naturals, Sequences

CONSTANTS
  Port,         \* ports with a packet thread of their own (USB, UART)
  Remote,       \* ids of the other controllers on the CAN bus
  Mutexed,      \* ports that hold send_mutex while they send (USB)
  None,
  MaxRequests   \* bound on packets received on the ports

CAN == "can"          \* the thread cancom_process_thread, and its send function
DETECT == "detect"    \* detect_thread
RELAY == "relay"      \* history: a request that is out on the bus
SIGNAL == "signal"    \* history: a request that has signalled detect_thread
Thread == Port \cup {CAN, DETECT}
Exchange == Thread \cup {RELAY, SIGNAL}
Broken == "broken"    \* a packet whose CRC does not fit

(* What a packet asks for: a reply, no reply, conf_general_detect_motor_   *)
(* param in the detect thread, a packet to another controller.             *)
Command == {"get", "set", "detect", "forward"}

ASSUME CommandsAssumption ==
  /\ MaxRequests \in Nat /\ Mutexed \subseteq Port
  /\ Port \cap Remote = {} /\ None \notin Port \cup Remote
  /\ {CAN, DETECT, RELAY, SIGNAL, Broken} \cap (Port \cup Remote) = {}

VARIABLES
  send_func,
  send_buffer,  \* who wrote its first and its second half
  rx_buffer_last_id,
  detect_event,
  place,        \* of each thread in commands_process_packet
  command,      \* the packet it processes, "relay" to pass one on
  route,        \* where the packet it is sending goes
  tx,           \* the halves on the way to a receiver: tx_buffer of a port's
                \* handler, rx_buffer of a controller the fragments go to
  forwarded,    \* controllers with a forwarded request
  requests,
  asker, intact, sent   \* history

rvars == <<send_func, send_buffer, rx_buffer_last_id, detect_event, place,
           command, route, tx, forwarded, requests, asker, intact, sent>>

Both(x) == <<x, x>>
NoPacket == [by |-> None, to |-> None, what |-> None, asker |-> None, intact |-> FALSE]

InitCommands ==
  /\ send_func = None /\ send_buffer = Both(None) /\ rx_buffer_last_id = None
  /\ detect_event = FALSE
  /\ place = [t \in Thread |-> "idle"] /\ command = [t \in Thread |-> "set"]
  /\ route = [t \in Thread |-> None] /\ tx = [d \in Port \cup Remote |-> Both(None)]
  /\ forwarded = {} /\ requests = 0
  /\ asker = [e \in Exchange |-> None] /\ intact = [e \in Exchange |-> FALSE]
  /\ sent = NoPacket

-----------------------------------------------------------------------------
(* History: a request by a on thread t starts an exchange and disturbs     *)
(* those of every other asker.                                             *)
Begin(t, a) ==
  /\ asker' = [asker EXCEPT ![t] = a]
  /\ intact' = [e \in Exchange |-> e = t \/ (intact[e] /\ asker[e] = a)]

(* History: the exchange goes on elsewhere.                                *)
Continue(t, e) ==
  /\ asker' = [asker EXCEPT ![e] = asker[t]]
  /\ intact' = [intact EXCEPT ![e] = intact[t]]

(* History: a step disturbs these threads.                                 *)
Disturb(threads) == intact' = [e \in Exchange |-> intact[e] /\ e \notin threads]

(* The function send_func points to, as far as the receiver goes; the CAN  *)
(* wrapper sends to rx_buffer_last_id.                                     *)
Destination == IF send_func = CAN THEN rx_buffer_last_id ELSE send_func

(* Who made the packet that t sends, and the bytes it is sent from: those  *)
(* of the CAN thread's rx_buffer are its own, send_buffer is everybody's.  *)
Origin(t) == IF command[t] = "relay" THEN rx_buffer_last_id ELSE t
Source(t) == IF command[t] = "relay" THEN Both(rx_buffer_last_id) ELSE send_buffer

MutantRequest(p, c) ==
  /\ place[p] = "idle" /\ requests < MaxRequests
  /\ requests' = requests + 1
  /\ send_func' = IF send_func = None THEN p ELSE send_func
  /\ place' = [place EXCEPT ![p] = "process"]
  /\ command' = [command EXCEPT ![p] = c]
  /\ Begin(p, p)
  /\ UNCHANGED <<send_buffer, rx_buffer_last_id, detect_event, route, tx, forwarded, sent>>

(* process_packet of a port: commands_set_send_func, and into the switch.  *)
Request(p, c) ==
  /\ place[p] = "idle" /\ requests < MaxRequests
  /\ requests' = requests + 1
  /\ send_func' = p
  /\ place' = [place EXCEPT ![p] = "process"]
  /\ command' = [command EXCEPT ![p] = c]
  /\ Begin(p, p)
  /\ UNCHANGED <<send_buffer, rx_buffer_last_id, detect_event, route, tx, forwarded, sent>>

(* Threads with a reply in send_buffer, and in the middle of sending to d. *)
Replying == {t \in Thread : command[t] # "relay" /\ place[t] \in {"fill", "send", "lock", "copy", "crc"}}
Sending(d) == {t \in Thread : place[t] \in {"copy", "crc"} /\ route[t] = d}

(* A case that replies writes the first half of send_buffer ...            *)
Fill(t) ==
  /\ place[t] = "process" /\ (t = DETECT \/ command[t] = "get")
  /\ send_buffer' = <<t, send_buffer[2]>>
  /\ place' = [place EXCEPT ![t] = "fill"]
  /\ Disturb(Replying \ {t})
  /\ UNCHANGED <<send_func, rx_buffer_last_id, detect_event, command, route, tx,
                 forwarded, requests, asker, sent>>

(* ... and the rest of it.  Either disturbs the other threads that have a  *)
(* reply there.                                                            *)
FillRest(t) ==
  /\ place[t] = "fill"
  /\ send_buffer' = <<send_buffer[1], t>>
  /\ place' = [place EXCEPT ![t] = "send"]
  /\ Disturb(Replying \ {t})
  /\ UNCHANGED <<send_func, rx_buffer_last_id, detect_event, command, route, tx,
                 forwarded, requests, asker, sent>>

(* COMM_DETECT_MOTOR_PARAM, COMM_FORWARD_CAN, and cases without a reply.   *)
NoReply(t) ==
  /\ place[t] = "process" /\ t # DETECT
  /\ place' = [place EXCEPT ![t] = "idle"]
  /\ \/ command[t] = "set" /\ UNCHANGED <<detect_event, forwarded, asker, intact>>
     \/ command[t] = "detect" /\ detect_event' = TRUE
        /\ Continue(t, SIGNAL) /\ UNCHANGED forwarded
     \/ command[t] = "forward" /\ (\E r \in Remote : forwarded' = forwarded \cup {r})
        /\ Continue(t, RELAY) /\ UNCHANGED detect_event
  /\ UNCHANGED <<send_func, send_buffer, rx_buffer_last_id, command, route, tx, requests, sent>>

(* commands_send_packet: the call through send_func, if there is one.      *)
Send(t) ==
  /\ place[t] = "send"
  /\ place' = [place EXCEPT ![t] = IF send_func = None THEN "idle" ELSE "lock"]
  /\ route' = [route EXCEPT ![t] = Destination]
  /\ UNCHANGED <<send_func, send_buffer, rx_buffer_last_id, detect_event, command, tx,
                 forwarded, requests, asker, intact, sent>>

(* packet_send_packet copies the packet to tx_buffer, on USB under         *)
(* send_mutex, comm_can_send_buffer sends its fragments: the first half    *)
(* and the second.  Without the mutex this disturbs the other threads that *)
(* are sending to the same receiver.                                       *)
Copy(t, from, half, to) ==
  LET d == route[t] IN
  /\ place[t] = from
  /\ tx' = [tx EXCEPT ![d][half] = Source(t)[half]]
  /\ place' = [place EXCEPT ![t] = to]
  /\ Disturb(IF d \in Mutexed THEN {} ELSE Sending(d) \ {t})
  /\ UNCHANGED <<send_func, send_buffer, rx_buffer_last_id, detect_event, command, route,
                 forwarded, requests, asker, sent>>

CopyFirst(t) ==
  /\ route[t] \in Mutexed => Sending(route[t]) = {}
  /\ Copy(t, "lock", 1, "copy")

CopyRest(t) == Copy(t, "copy", 2, "crc")

(* Then the CRC of what the source holds by now, and the packet is sent.   *)
SendCrc(t) ==
  /\ place[t] = "crc"
  /\ LET bytes == tx[route[t]]
     IN sent' = [by |-> Origin(t), to |-> route[t], asker |-> asker[t], intact |-> intact[t],
                 what |-> IF bytes = Source(t) THEN bytes ELSE Both(Broken)]
  /\ place' = [place EXCEPT ![t] = "idle"]
  /\ route' = [route EXCEPT ![t] = None]
  /\ UNCHANGED <<send_func, send_buffer, rx_buffer_last_id, detect_event, command, tx,
                 forwarded, requests, asker, intact>>

(* detect_thread wakes up; Fill and Send are its reply.                    *)
DetectStarts ==
  /\ place[DETECT] = "idle" /\ detect_event
  /\ detect_event' = FALSE
  /\ place' = [place EXCEPT ![DETECT] = "process"]
  /\ Continue(SIGNAL, DETECT)
  /\ UNCHANGED <<send_func, send_buffer, rx_buffer_last_id, command, route, tx,
                 forwarded, requests, sent>>

CommandsStep ==
  \/ \E p \in Port, c \in Command : Request(p, c)
  \/ \E t \in Thread :
       \/ Fill(t) \/ FillRest(t) \/ NoReply(t)
       \/ Send(t) \/ CopyFirst(t) \/ CopyRest(t) \/ SendCrc(t)
  \/ DetectStarts

-----------------------------------------------------------------------------
(* Properties.                                                             *)

(* A reply, also one relayed from another controller or sent by the detect *)
(* thread long after, goes to whoever asked and has the answer to its      *)
(* question, whole.  Not promised, as the code does not keep it: once      *)
(* another asker's packet has arrived since, once another thread has       *)
(* written to send_buffer between the reply's first byte there and its     *)
(* CRC, or when two threads send to one receiver that has no mutex.        *)
ReplyReachesAsker ==
  sent.intact => sent.to = sent.asker /\ sent.what = Both(sent.by)
=============================================================================
