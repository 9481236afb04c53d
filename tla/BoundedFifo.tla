---------------------------- MODULE BoundedFifo ----------------------------
(***************************************************************************)
(* What a queue of the engine promises to its users: a bounded first-in    *)
(* first-out buffer.  The lock-free MpscQueue and SpscQueue are shown to   *)
(* implement it.                                                           *)
(***************************************************************************)
EXTENDS Naturals, Sequences

CONSTANTS Items,         \* the packets that may be enqueued
          Capacity,      \* the number of slots
          StrictReject   \* TRUE: enqueue may fail only when the queue is full

VARIABLES queue,      \* accepted and not yet handed to the consumer
          delivered,  \* handed to the consumer, in order
          rejected    \* packets of failed enqueues

fifoVars == <<queue, delivered, rejected>>

FifoInit ==
  /\ queue = << >>
  /\ delivered = << >>
  /\ rejected = {}

\* A successful enqueue.
Accept(x) ==
  /\ Len(queue) < Capacity
  /\ queue' = Append(queue, x)
  /\ UNCHANGED <<delivered, rejected>>

\* A failed enqueue: the caller's unique_ptr destroys the packet.
Reject(x) ==
  /\ StrictReject => Len(queue) = Capacity
  /\ rejected' = rejected \cup {x}
  /\ UNCHANGED <<queue, delivered>>

\* The consumer is handed the n oldest packets.
Deliver(n) ==
  /\ delivered' = delivered \o SubSeq(queue, 1, n)
  /\ queue' = SubSeq(queue, n + 1, Len(queue))
  /\ UNCHANGED rejected

FifoNext ==
  \/ \E x \in Items : Accept(x) \/ Reject(x)
  \/ \E n \in 1..Len(queue) : Deliver(n)

FifoSpec == FifoInit /\ [][FifoNext]_fifoVars
=============================================================================
