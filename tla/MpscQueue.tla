----------------------------- MODULE MpscQueue -----------------------------
(***************************************************************************)
(* The multi-producer single-consumer ring of shared/algorithm/MpscQueue.h *)
(* that carries outgoing packets from the shard workers to a reactor.      *)
(* One action per atomic access to shared memory.  m_head and m_tail never *)
(* reach WordSize in practice, so they are naturals; their difference is   *)
(* a size_t and wraps.  Each packet is enqueued at most once, because it   *)
(* is owned by one unique_ptr: Items bounds a behaviour.                   *)
(***************************************************************************)
EXTENDS Integers, Sequences

CONSTANTS Producers, Items, Null,
          Capacity,    \* m_capacity, a power of two in the code
          WordSize     \* 2^64: the modulus of size_t

ASSUME MpscAssumption ==
  /\ Capacity \in Nat \ {0}
  /\ WordSize \in Nat /\ WordSize > Capacity
  /\ Null \notin Items

VARIABLES m_head, m_tail,   \* published consumer and producer positions
          ready, ptr,       \* the two fields of each Slot
          pc, item, tail,   \* each producer inside enqueue
          cpc, head,        \* the consumer inside dequeueAll
          fresh,            \* packets nobody has tried to enqueue
          dropped,          \* packets of enqueues that returned false
          claimed,          \* history: packets in the order of their claims
          out               \* history: packets the consumer has read

sharedVars == <<m_head, m_tail, ready, ptr>>
producerVars == <<pc, item, tail, fresh, dropped, claimed>>
consumerVars == <<cpc, head, out>>
vars == <<sharedVars, producerVars, consumerVars>>

Slots == 0..(Capacity - 1)

\* idx = position & m_mask; the mask is Capacity - 1, Capacity a power of two.
Slot(i) == i % Capacity

\* tail - head in size_t.
Distance(t, h) == IF t >= h THEN t - h ELSE (t - h) + WordSize

Init ==
  /\ m_head = 0 /\ m_tail = 0
  /\ ready = [s \in Slots |-> FALSE]
  /\ ptr = [s \in Slots |-> Null]
  /\ pc = [p \in Producers |-> "idle"]
  /\ item = [p \in Producers |-> Null]
  /\ tail = [p \in Producers |-> 0]
  /\ cpc = "idle" /\ head = 0
  /\ fresh = Items /\ dropped = {}
  /\ claimed = << >> /\ out = << >>

Goto(p, l) == pc' = [pc EXCEPT ![p] = l]

(***************************************************************************)
(* enqueue                                                                 *)
(***************************************************************************)
Enqueue(p, x) ==
  /\ pc[p] = "idle"
  /\ x \in fresh
  /\ fresh' = fresh \ {x}
  /\ item' = [item EXCEPT ![p] = x]
  /\ Goto(p, "load")
  /\ UNCHANGED <<sharedVars, consumerVars, tail, dropped, claimed>>

LoadTail(p) ==
  /\ pc[p] = "load"
  /\ tail' = [tail EXCEPT ![p] = m_tail]
  /\ Goto(p, "check")
  /\ UNCHANGED <<sharedVars, consumerVars, item, fresh, dropped, claimed>>

\* Accepts one packet too many.
CheckFullOffByOne(p) ==
  /\ pc[p] = "check"
  /\ IF Distance(tail[p], m_head) > Capacity
       THEN /\ dropped' = dropped \cup {item[p]}
            /\ Goto(p, "idle")
       ELSE /\ Goto(p, "cas")
            /\ UNCHANGED dropped
  /\ UNCHANGED <<sharedVars, consumerVars, item, tail, fresh, claimed>>

\* The load of m_head and the capacity test on the local tail.
CheckFull(p) ==
  /\ pc[p] = "check"
  /\ IF Distance(tail[p], m_head) >= Capacity
       THEN /\ dropped' = dropped \cup {item[p]}
            /\ Goto(p, "idle")
       ELSE /\ Goto(p, "cas")
            /\ UNCHANGED dropped
  /\ UNCHANGED <<sharedVars, consumerVars, item, tail, fresh, claimed>>

\* A plain store of tail + 1 in place of the compare-exchange.
ClaimWithoutCompare(p) ==
  /\ pc[p] = "cas"
  /\ m_tail' = tail[p] + 1
  /\ claimed' = Append(claimed, item[p])
  /\ Goto(p, "fill")
  /\ UNCHANGED <<m_head, ready, ptr, consumerVars, item, tail, fresh, dropped>>

Claim(p) ==
  /\ pc[p] = "cas"
  /\ m_tail = tail[p]
  /\ m_tail' = m_tail + 1
  /\ claimed' = Append(claimed, item[p])
  /\ Goto(p, "fill")
  /\ UNCHANGED <<m_head, ready, ptr, consumerVars, item, tail, fresh, dropped>>

\* compare_exchange_weak may also fail when the values are equal.
ClaimFails(p) ==
  /\ pc[p] = "cas"
  /\ Goto(p, "load")
  /\ UNCHANGED <<sharedVars, consumerVars, item, tail, fresh, dropped, claimed>>

Fill(p) ==
  /\ pc[p] = "fill"
  /\ ptr' = [ptr EXCEPT ![Slot(tail[p])] = item[p]]
  /\ Goto(p, "publish")
  /\ UNCHANGED <<m_head, m_tail, ready, consumerVars, item, tail, fresh, dropped,
                 claimed>>

Publish(p) ==
  /\ pc[p] = "publish"
  /\ ready' = [ready EXCEPT ![Slot(tail[p])] = TRUE]
  /\ Goto(p, "idle")
  /\ UNCHANGED <<m_head, m_tail, ptr, consumerVars, item, tail, fresh, dropped,
                 claimed>>

(***************************************************************************)
(* dequeueAll                                                              *)
(***************************************************************************)
BeginDequeueAll ==
  /\ cpc = "idle"
  /\ head' = m_head
  /\ cpc' = "scan"
  /\ UNCHANGED <<sharedVars, producerVars, out>>

ScanReady ==
  /\ cpc = "scan"
  /\ ready[Slot(head)]
  /\ cpc' = "take"
  /\ UNCHANGED <<sharedVars, producerVars, head, out>>

TakePtr ==
  /\ cpc = "take"
  /\ out' = Append(out, ptr[Slot(head)])
  /\ ptr' = [ptr EXCEPT ![Slot(head)] = Null]
  /\ cpc' = "clear"
  /\ UNCHANGED <<m_head, m_tail, ready, producerVars, head>>

ClearReady ==
  /\ cpc = "clear"
  /\ ready' = [ready EXCEPT ![Slot(head)] = FALSE]
  /\ head' = head + 1
  /\ cpc' = "scan"
  /\ UNCHANGED <<m_head, m_tail, ptr, producerVars, out>>

\* The first slot that is not ready ends the call; m_head is stored once.
EndDequeueAll ==
  /\ cpc = "scan"
  /\ ~ready[Slot(head)]
  /\ m_head' = head
  /\ cpc' = "idle"
  /\ UNCHANGED <<m_tail, ready, ptr, producerVars, head, out>>

Producer(p) ==
  \/ LoadTail(p) \/ CheckFull(p) \/ Claim(p) \/ ClaimFails(p)
  \/ Fill(p) \/ Publish(p)

Consumer ==
  BeginDequeueAll \/ ScanReady \/ TakePtr \/ ClearReady \/ EndDequeueAll

Next ==
  \/ \E p \in Producers : Producer(p) \/ \E x \in Items : Enqueue(p, x)
  \/ Consumer

Spec == Init /\ [][Next]_vars

-----------------------------------------------------------------------------
PC == {"idle", "load", "check", "cas", "fill", "publish"}
CPC == {"idle", "scan", "take", "clear"}

(***************************************************************************)
(* Types.  out \in Seq(Items) also says that dequeueAll never hands its    *)
(* caller a null packet.                                                   *)
(***************************************************************************)
TypeOK ==
  /\ m_head \in Nat /\ m_tail \in Nat /\ head \in Nat
  /\ ready \in [Slots -> BOOLEAN]
  /\ ptr \in [Slots -> Items \cup {Null}]
  /\ pc \in [Producers -> PC]
  /\ item \in [Producers -> Items \cup {Null}]
  /\ \A p \in Producers : pc[p] # "idle" => item[p] \in Items
  /\ tail \in [Producers -> Nat]
  /\ cpc \in CPC
  /\ fresh \subseteq Items /\ dropped \subseteq Items
  /\ claimed \in Seq(Items) /\ out \in Seq(Items)

\* Producer p has claimed position tail[p] and not yet published it.
InFlight(p) == pc[p] \in {"fill", "publish"}

\* The first position whose pointer the consumer has not read.
Unread == IF cpc = "clear" THEN head + 1 ELSE head

(***************************************************************************)
(* The consumer reads packets exactly in the order of the successful       *)
(* compare-exchanges on m_tail: none is lost, duplicated or overtaken.     *)
(***************************************************************************)
DeliveredInClaimOrder ==
  /\ Len(out) <= Len(claimed)
  /\ \A i \in 1..Len(out) : out[i] = claimed[i]

(***************************************************************************)
(* slot.ptr is not atomic: at any time at most one thread is between the   *)
(* two accesses that give it the slot, so no two threads race on a ptr.    *)
(***************************************************************************)
ExclusiveSlot ==
  /\ \A p, q \in Producers :
       p # q /\ InFlight(p) /\ InFlight(q) => Slot(tail[p]) # Slot(tail[q])
  /\ \A p \in Producers :
       InFlight(p) /\ cpc \in {"take", "clear"} => Slot(tail[p]) # Slot(head)

(***************************************************************************)
(* Every claimed packet the consumer has not read is ready in its slot or  *)
(* is still held by the producer that claimed the slot; no claimed slot is *)
(* abandoned, so dequeueAll can only be stopped by a producer in flight.   *)
(***************************************************************************)
NothingStranded ==
  \A i \in Unread..(m_tail - 1) :
    \/ ready[Slot(i)] /\ ptr[Slot(i)] = claimed[i + 1]
    \/ \E p \in Producers :
         InFlight(p) /\ tail[p] = i /\ item[p] = claimed[i + 1]

(***************************************************************************)
(* enqueue refuses a packet only when the ring is full, or when the        *)
(* consumer has passed the tail that this producer loaded before it loaded *)
(* m_head: tail - head then wraps.                                         *)
(***************************************************************************)
FullOrOvertaken ==
  [][\A p \in Producers : pc[p] = "check" /\ pc'[p] = "idle" =>
       m_tail = m_head + Capacity \/ tail[p] < m_head]_vars

(***************************************************************************)
(* The ring implements the bounded FIFO: a claim is the linearization      *)
(* point of a successful enqueue and the store of m_head that of           *)
(* dequeueAll, which hands over the whole batch.                           *)
(***************************************************************************)
Fifo == INSTANCE BoundedFifo WITH
          StrictReject <- FALSE,
          queue <- SubSeq(claimed, m_head + 1, m_tail),
          delivered <- SubSeq(out, 1, m_head),
          rejected <- dropped

ImplementsFifo == Fifo!FifoSpec
=============================================================================
