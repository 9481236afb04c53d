----------------------------- MODULE SpscQueue -----------------------------
(***************************************************************************)
(* The single-producer single-consumer ring of                             *)
(* shared/algorithm/SpscQueue.h that carries received packets from a       *)
(* reactor to one of its workers.  One action per access to shared memory. *)
(* m_head <= m_tail always holds and neither reaches 2^64, so that the     *)
(* size_t subtraction never wraps and both are naturals.                   *)
(***************************************************************************)
EXTENDS Integers, Sequences

CONSTANTS Items, Null,
          Capacity     \* m_capacity, a power of two in the code

ASSUME SpscAssumption == Capacity \in Nat \ {0} /\ Null \notin Items

VARIABLES m_head, m_tail,
          ptr,          \* the Slot array
          ppc, item,    \* the producer inside enqueue, and its packet
          cpc, taken,   \* the consumer inside dequeue, and the pointer it read
          fresh,        \* packets nobody has tried to enqueue
          dropped,      \* packets of enqueues that returned false
          sent,         \* history: packets in the order of the m_tail stores
          out           \* history: packets dequeue has returned

spscProducerVars == <<ppc, item, fresh, dropped>>
spscConsumerVars == <<cpc, taken, out>>
spscVars == <<m_head, m_tail, ptr, sent, spscProducerVars, spscConsumerVars>>

Slots == 0..(Capacity - 1)

\* position & m_mask
Slot(i) == i % Capacity

SpscInit ==
  /\ m_head = 0 /\ m_tail = 0
  /\ ptr = [s \in Slots |-> Null]
  /\ ppc = "idle" /\ item = Null
  /\ cpc = "idle" /\ taken = Null
  /\ fresh = Items /\ dropped = {}
  /\ sent = << >> /\ out = << >>

(***************************************************************************)
(* enqueue.  Only the producer writes m_tail, so its own load is not a     *)
(* step of its own.                                                        *)
(***************************************************************************)
BeginEnqueue(x) ==
  /\ ppc = "idle"
  /\ x \in fresh
  /\ fresh' = fresh \ {x}
  /\ item' = x
  /\ ppc' = "check"
  /\ UNCHANGED <<m_head, m_tail, ptr, sent, dropped, spscConsumerVars>>

\* next - head > m_capacity compares after the increment: this one does not.
CheckRoomOffByOne ==
  /\ ppc = "check"
  /\ m_tail - m_head <= Capacity
  /\ ppc' = "store"
  /\ UNCHANGED <<m_head, m_tail, ptr, sent, item, fresh, dropped,
                 spscConsumerVars>>

\* The load of m_head finds a free slot.
CheckRoom ==
  /\ ppc = "check"
  /\ m_tail + 1 - m_head <= Capacity
  /\ ppc' = "store"
  /\ UNCHANGED <<m_head, m_tail, ptr, sent, item, fresh, dropped,
                 spscConsumerVars>>

\* Keeps a slot free, as rings that compare next with head must.
RejectFullKeepsGap ==
  /\ ppc = "check"
  /\ m_tail + 1 - m_head >= Capacity
  /\ dropped' = dropped \cup {item}
  /\ item' = Null
  /\ ppc' = "idle"
  /\ UNCHANGED <<m_head, m_tail, ptr, sent, fresh, spscConsumerVars>>

\* The load of m_head finds the ring full: enqueue returns false.
RejectFull ==
  /\ ppc = "check"
  /\ m_tail + 1 - m_head > Capacity
  /\ dropped' = dropped \cup {item}
  /\ item' = Null
  /\ ppc' = "idle"
  /\ UNCHANGED <<m_head, m_tail, ptr, sent, fresh, spscConsumerVars>>

StorePtr ==
  /\ ppc = "store"
  /\ ptr' = [ptr EXCEPT ![Slot(m_tail)] = item]
  /\ ppc' = "publish"
  /\ UNCHANGED <<m_head, m_tail, sent, item, fresh, dropped, spscConsumerVars>>

\* The store of m_tail; enqueue returns true.
PublishTail ==
  /\ ppc = "publish"
  /\ m_tail' = m_tail + 1
  /\ sent' = Append(sent, item)
  /\ item' = Null
  /\ ppc' = "idle"
  /\ UNCHANGED <<m_head, ptr, fresh, dropped, spscConsumerVars>>

(***************************************************************************)
(* dequeue                                                                 *)
(***************************************************************************)
\* head == tail: dequeue returns nullptr.
DequeueEmpty ==
  /\ cpc = "idle"
  /\ m_head = m_tail
  /\ UNCHANGED spscVars

DequeueNonEmpty ==
  /\ cpc = "idle"
  /\ m_head # m_tail
  /\ cpc' = "take"
  /\ UNCHANGED <<m_head, m_tail, ptr, sent, spscProducerVars, taken, out>>

TakePtr ==
  /\ cpc = "take"
  /\ taken' = ptr[Slot(m_head)]
  /\ ptr' = [ptr EXCEPT ![Slot(m_head)] = Null]
  /\ cpc' = "publish"
  /\ UNCHANGED <<m_head, m_tail, sent, spscProducerVars, out>>

\* The store of m_head; dequeue returns the packet.
PublishHead ==
  /\ cpc = "publish"
  /\ m_head' = m_head + 1
  /\ out' = Append(out, taken)
  /\ taken' = Null
  /\ cpc' = "idle"
  /\ UNCHANGED <<m_tail, ptr, sent, spscProducerVars>>

SpscProducer == CheckRoom \/ RejectFull \/ StorePtr \/ PublishTail

SpscConsumer == DequeueEmpty \/ DequeueNonEmpty \/ TakePtr \/ PublishHead

SpscNext ==
  \/ \E x \in Items : BeginEnqueue(x)
  \/ SpscProducer
  \/ SpscConsumer

SpscSpec == SpscInit /\ [][SpscNext]_spscVars

-----------------------------------------------------------------------------
(***************************************************************************)
(* Types.  out \in Seq(Items) also says that the pointer dequeue returns   *)
(* for a non-empty ring is never null, which the worker's                  *)
(* while (auto pkt = dequeue()) would take for an empty ring.              *)
(***************************************************************************)
SpscTypeOK ==
  /\ m_head \in Nat /\ m_tail \in Nat
  /\ ptr \in [Slots -> Items \cup {Null}]
  /\ ppc \in {"idle", "check", "store", "publish"}
  /\ item \in Items \cup {Null}
  /\ ppc # "idle" => item \in Items
  /\ cpc \in {"idle", "take", "publish"}
  /\ taken \in Items \cup {Null}
  /\ cpc = "publish" => taken \in Items
  /\ fresh \subseteq Items /\ dropped \subseteq Items
  /\ sent \in Seq(Items) /\ out \in Seq(Items)

(***************************************************************************)
(* slot.ptr is not atomic: when the producer is about to write or has just *)
(* written a slot and the consumer is about to read and clear one, the two *)
(* slots differ.                                                           *)
(***************************************************************************)
SlotRaceFree ==
  ppc \in {"store", "publish"} /\ cpc \in {"take", "publish"}
    => Slot(m_tail) # Slot(m_head)

(***************************************************************************)
(* The ring implements the bounded FIFO, and here enqueue fails only when  *)
(* all Capacity slots are occupied at its load of m_head: the store of     *)
(* m_tail hands a packet over, the store of m_head takes it out.           *)
(***************************************************************************)
Fifo == INSTANCE BoundedFifo WITH
          StrictReject <- TRUE,
          queue <- SubSeq(sent, m_head + 1, m_tail),
          delivered <- out,
          rejected <- dropped

ImplementsFifo == Fifo!FifoSpec
=============================================================================
