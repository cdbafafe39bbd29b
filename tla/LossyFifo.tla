----------------------------- MODULE LossyFifo -----------------------------
(***************************************************************************)
(* What the receive rings promise: items come out once and in order, and   *)
(* every item comes out in the end.  A ring that is overrun loses what it  *)
(* holds.  A writer that can be preempted between its stores (tears) may   *)
(* break the promise altogether; any other writer may not.                 *)
(***************************************************************************)
EXTENDS Naturals, Sequences

CONSTANTS Item, Capacity

VARIABLES
  queue,    \* items received and not yet processed
  got,      \* the item processed last
  ok,       \* the promise holds
  tears     \* the writer can be seen between its stores

fifo == <<queue, got, ok, tears>>

Enqueue(x) ==
  \/ Len(queue) < Capacity /\ queue' = Append(queue, x)
  \/ Len(queue) >= Capacity - 1 /\ queue' \in {<<>>, <<x>>}

Dequeue ==
  /\ queue # <<>>
  /\ got' = Head(queue)
  /\ queue' = Tail(queue)

Put(x) == ok /\ Enqueue(x) /\ UNCHANGED <<got, ok, tears>>
Get == ok /\ Dequeue /\ UNCHANGED <<ok, tears>>
Torn == tears /\ ok' = FALSE /\ UNCHANGED tears

Init == queue = <<>> /\ ok = TRUE /\ tears \in BOOLEAN
Next == (\E x \in Item : Put(x)) \/ Get \/ Torn

Fifo == Init /\ [][Next]_fifo
Spec == Fifo /\ WF_fifo(Get)
=============================================================================
