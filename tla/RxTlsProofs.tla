---------------------------- MODULE RxTlsProofs -----------------------------
(***************************************************************************)
(* Safety of SpscQueue and of the worker loop around it, for any set of    *)
(* packets and any capacity; and of TlsConnection, for every packet        *)
(* length, budget and number of packets: records leave whole and in order, *)
(* and a connection with packets left has EPOLLOUT armed between two       *)
(* events.                                                                 *)
(***************************************************************************)
EXTENDS RxWorker, TlsConnection, QueueLemmas

(***************************************************************************)
(* Counters: the ring holds at most Capacity packets; a producer past its  *)
(* test has room and a consumer past its test has a packet, because each   *)
(* side can only make the other's test more true.                          *)
(***************************************************************************)
SpscWindow ==
  /\ m_head <= m_tail /\ m_tail <= m_head + Capacity
  /\ Len(sent) = m_tail /\ Len(out) = m_head
  /\ ppc \in {"store", "publish"} => m_tail < m_head + Capacity
  /\ cpc \in {"take", "publish"} => m_head < m_tail

(***************************************************************************)
(* Contents: every sent packet that has not been taken is in its slot.     *)
(***************************************************************************)
SpscContents ==
  /\ \A i \in m_head..(m_tail - 1) :
       (i = m_head /\ cpc = "publish") \/ ptr[Slot(i)] = sent[i + 1]
  /\ ppc = "publish" => ptr[Slot(m_tail)] = item
  /\ cpc = "publish" => taken = sent[m_head + 1]

SpscIInv == SpscTypeOK /\ SpscWindow /\ SpscContents

\* Every position has a slot of the ring.
LEMMA SlotType == ASSUME NEW i \in Nat PROVE Slot(i) \in Slots
BY SpscAssumption, SMT DEF Slot, Slots

\* Positions less than a ring apart use different slots.
LEMMA SlotDistinct ==
  ASSUME NEW i \in Nat, NEW j \in Nat, i < j, j < i + Capacity
  PROVE  Slot(i) # Slot(j)
BY SpscAssumption, RemainderDistinct DEF Slot

\* The empty ring satisfies the invariant.
LEMMA SpscInitIInv == SpscInit => SpscIInv
BY SpscAssumption DEF SpscInit, SpscIInv, SpscTypeOK, SpscWindow, SpscContents

\* The steps of enqueue that leave the slots and the counters alone.
LEMMA BeginAndTestSteps ==
  ASSUME SpscIInv,
         \/ \E x \in Items : BeginEnqueue(x)
         \/ CheckRoom \/ RejectFull
  PROVE  SpscIInv'
<1> USE SpscAssumption DEF SpscIInv, SpscTypeOK, SpscWindow, SpscContents, spscConsumerVars
<1>1. CASE \E x \in Items : BeginEnqueue(x)
  BY <1>1 DEF BeginEnqueue
<1>2. CASE CheckRoom
  BY <1>2 DEF CheckRoom
<1>3. CASE RejectFull
  BY <1>3 DEF RejectFull
<1>4. QED BY <1>1, <1>2, <1>3

\* The store of the pointer touches no slot that holds a packet.
LEMMA StorePtrStep == ASSUME SpscIInv, StorePtr PROVE SpscIInv'
<1> USE SpscAssumption DEF spscConsumerVars
<1>1. SpscTypeOK'
  <2>1. Slot(m_tail) \in Slots
    BY SlotType DEF SpscIInv, SpscTypeOK
  <2>2. QED BY <2>1 DEF SpscIInv, SpscTypeOK, StorePtr
<1>2. SpscWindow'
  BY DEF SpscIInv, SpscTypeOK, SpscWindow, StorePtr
<1>3. SpscContents'
  <2>1. ASSUME NEW i \in m_head..(m_tail - 1)
        PROVE  i \in Nat /\ Slot(i) \in Slots /\ Slot(i) # Slot(m_tail)
    <3>1. i \in Nat /\ m_tail \in Nat /\ i < m_tail /\ m_tail < i + Capacity
      BY DEF SpscIInv, SpscTypeOK, SpscWindow, StorePtr
    <3>2. QED BY <3>1, SlotType, SlotDistinct
  <2>2. Slot(m_tail) \in Slots
    BY SlotType DEF SpscIInv, SpscTypeOK
  <2>3. ptr' = [ptr EXCEPT ![Slot(m_tail)] = item]
        /\ ptr \in [Slots -> Items \cup {Null}]
        /\ UNCHANGED <<m_head, m_tail, sent, item, cpc, taken>>
    BY DEF SpscIInv, SpscTypeOK, StorePtr
  <2>4. QED BY <2>1, <2>2, <2>3 DEF SpscIInv, SpscContents, Slot
<1>4. QED BY <1>1, <1>2, <1>3 DEF SpscIInv

\* The store of m_tail hands over the packet in the slot.
LEMMA PublishTailStep == ASSUME SpscIInv, PublishTail PROVE SpscIInv'
<1> USE SpscAssumption DEF spscConsumerVars
<1>1. /\ sent \in Seq(Items) /\ item \in Items /\ sent' = Append(sent, item)
      /\ Len(sent) = m_tail /\ m_tail \in Nat /\ m_head \in Nat /\ m_tail' = m_tail + 1
  BY DEF SpscIInv, SpscTypeOK, SpscWindow, PublishTail
<1>2. /\ sent' \in Seq(Items) /\ Len(sent') = m_tail + 1 /\ sent'[m_tail + 1] = item
      /\ \A i \in 1..m_tail : sent'[i] = sent[i]
  BY <1>1, AppendProperties
<1>3. SpscTypeOK'
  BY <1>1, <1>2 DEF SpscIInv, SpscTypeOK, PublishTail
<1>4. SpscWindow'
  BY <1>1, <1>2 DEF SpscIInv, SpscTypeOK, SpscWindow, PublishTail
<1>5. SpscContents'
  <2>1. UNCHANGED <<m_head, ptr, cpc, taken>> /\ ppc' = "idle" /\ ppc = "publish"
    BY DEF PublishTail
  <2>2. ptr[Slot(m_tail)] = sent'[m_tail + 1]
    BY <1>2, <2>1 DEF SpscIInv, SpscContents
  <2>3. ASSUME NEW i \in m_head..(m_tail - 1)
        PROVE  sent'[i + 1] = sent[i + 1]
    BY <1>1, <1>2
  <2>4. cpc = "publish" => sent'[m_head + 1] = sent[m_head + 1]
    BY <1>1, <1>2 DEF SpscIInv, SpscWindow
  <2>5. ASSUME NEW i \in m_head'..(m_tail' - 1)
        PROVE  (i = m_head' /\ cpc' = "publish") \/ ptr'[Slot(i)'] = sent'[i + 1]
    <3>1. i = m_tail \/ i \in m_head..(m_tail - 1)
      BY <1>1, <2>1
    <3>2. QED BY <3>1, <2>1, <2>2, <2>3 DEF SpscIInv, SpscContents, Slot
  <2>6. QED BY <2>1, <2>4, <2>5 DEF SpscIInv, SpscContents, Slot
<1>6. QED BY <1>3, <1>4, <1>5 DEF SpscIInv

\* The steps of dequeue.
LEMMA DequeueSteps == ASSUME SpscIInv, SpscConsumer PROVE SpscIInv'
<1> USE SpscAssumption DEF spscProducerVars
<1>1. CASE DequeueEmpty
  BY <1>1 DEF DequeueEmpty, spscVars, spscConsumerVars, SpscIInv, SpscTypeOK,
              SpscWindow, SpscContents, Slot
<1>2. CASE DequeueNonEmpty
  BY <1>2 DEF DequeueNonEmpty, SpscIInv, SpscTypeOK, SpscWindow, SpscContents, Slot
<1>3. CASE TakePtr
  <2>1. /\ cpc = "take" /\ cpc' = "publish" /\ taken' = ptr[Slot(m_head)]
        /\ ptr' = [ptr EXCEPT ![Slot(m_head)] = Null]
        /\ UNCHANGED <<m_head, m_tail, sent, ppc, item, fresh, dropped, out>>
    BY <1>3 DEF TakePtr
  <2>2. /\ m_head \in Nat /\ m_tail \in Nat /\ m_head < m_tail
        /\ m_tail <= m_head + Capacity
        /\ ppc \in {"store", "publish"} => m_tail < m_head + Capacity
        /\ ptr \in [Slots -> Items \cup {Null}] /\ Slot(m_head) \in Slots
    BY <2>1, SlotType DEF SpscIInv, SpscTypeOK, SpscWindow
  <2>3. taken' = sent[m_head + 1] /\ taken' \in Items
    <3>1. taken' = sent[m_head + 1]
      BY <2>1, <2>2 DEF SpscIInv, SpscContents
    <3>2. m_head + 1 \in 1..Len(sent) /\ sent \in Seq(Items)
      BY <2>2 DEF SpscIInv, SpscTypeOK, SpscWindow
    <3>3. QED BY <3>1, <3>2, ElementOfSeq
  <2>4. SpscTypeOK'
    BY <2>1, <2>2, <2>3 DEF SpscIInv, SpscTypeOK
  <2>5. SpscWindow'
    BY <2>1, <2>2 DEF SpscIInv, SpscWindow
  <2>6. ASSUME NEW i \in (m_head + 1)..m_tail, i < m_head + Capacity
        PROVE  ptr'[Slot(i)] = ptr[Slot(i)]
    <3>1. i \in Nat /\ m_head < i
      BY <2>2
    <3>2. Slot(i) # Slot(m_head) /\ Slot(i) \in Slots
      BY <3>1, <2>2, <2>6, SlotDistinct, SlotType
    <3>3. QED BY <3>2, <2>1, <2>2
  <2>7. ppc = "publish" => ptr'[Slot(m_tail)] = ptr[Slot(m_tail)]
    BY <2>2, <2>6
  <2>8. ASSUME NEW i \in m_head..(m_tail - 1), i # m_head
        PROVE  ptr'[Slot(i)] = sent[i + 1]
    <3>1. i \in (m_head + 1)..m_tail /\ i < m_head + Capacity
      BY <2>2, <2>8
    <3>2. QED BY <3>1, <2>6, <2>8, <2>1 DEF SpscIInv, SpscContents
  <2>9. SpscContents'
    BY <2>1, <2>3, <2>7, <2>8 DEF SpscIInv, SpscContents, Slot
  <2>10. QED BY <2>4, <2>5, <2>9 DEF SpscIInv
<1>4. CASE PublishHead
  <2>1. /\ cpc = "publish" /\ cpc' = "idle" /\ m_head' = m_head + 1
        /\ out' = Append(out, taken) /\ taken' = Null
        /\ UNCHANGED <<m_tail, ptr, sent, ppc, item, fresh, dropped>>
    BY <1>4 DEF PublishHead
  <2>2. /\ out \in Seq(Items) /\ taken \in Items /\ Len(out) = m_head
        /\ m_head \in Nat /\ m_tail \in Nat /\ m_head < m_tail
    BY <2>1 DEF SpscIInv, SpscTypeOK, SpscWindow
  <2>3. out' \in Seq(Items) /\ Len(out') = m_head + 1
    BY <2>1, <2>2, AppendProperties
  <2>4. SpscTypeOK'
    BY <2>1, <2>2, <2>3 DEF SpscIInv, SpscTypeOK
  <2>5. SpscWindow'
    BY <2>1, <2>2, <2>3 DEF SpscIInv, SpscWindow
  <2>6. ASSUME NEW i \in (m_head + 1)..(m_tail - 1)
        PROVE  ptr[Slot(i)] = sent[i + 1]
    <3>1. i \in m_head..(m_tail - 1) /\ i # m_head
      BY <2>2
    <3>2. QED BY <3>1 DEF SpscIInv, SpscContents
  <2>7. SpscContents'
    BY <2>1, <2>6 DEF SpscIInv, SpscContents, Slot
  <2>8. QED BY <2>4, <2>5, <2>7 DEF SpscIInv
<1>5. QED BY <1>1, <1>2, <1>3, <1>4 DEF SpscConsumer

\* Every step preserves the invariant.
LEMMA SpscNextIInv == SpscIInv /\ [SpscNext]_spscVars => SpscIInv'
<1> SUFFICES ASSUME SpscIInv, [SpscNext]_spscVars PROVE SpscIInv'
  OBVIOUS
<1>1. CASE UNCHANGED spscVars
  BY <1>1 DEF spscVars, spscProducerVars, spscConsumerVars, SpscIInv, SpscTypeOK,
              SpscWindow, SpscContents, Slot
<1>2. QED BY <1>1, BeginAndTestSteps, StorePtrStep, PublishTailStep, DequeueSteps
          DEF SpscNext, SpscProducer

\* The inductive invariant of the ring.
LEMMA SpscIInvInvariant == SpscSpec => []SpscIInv
BY SpscInitIInv, SpscNextIInv, PTL DEF SpscSpec

(***************************************************************************)
(* enqueue and dequeue never access one slot at the same time, so the      *)
(* non-atomic Slot::ptr is not raced.                                      *)
(***************************************************************************)
THEOREM SlotRaceFreedom == SpscSpec => []SlotRaceFree
<1>1. SpscIInv => SlotRaceFree
  BY SlotDistinct DEF SpscIInv, SpscTypeOK, SpscWindow, SlotRaceFree
<1>2. QED BY <1>1, SpscIInvInvariant, PTL

\* The oldest element of a suffix, as a sequence.
LEMMA SuffixHead ==
  ASSUME NEW S, NEW s \in Seq(S), NEW k \in 0..(Len(s) - 1)
  PROVE  SubSeq(SubSeq(s, k + 1, Len(s)), 1, 1) = << s[k + 1] >>
<1> DEFINE q == SubSeq(s, k + 1, Len(s))
<1>1. k \in 0..Len(s) /\ 1 \in 1..(Len(s) - k) /\ k + 1 \in 1..Len(s)
  OBVIOUS
<1>2. q \in Seq(S) /\ Len(q) = Len(s) - k /\ q[1] = s[k + 1]
  BY <1>1, SuffixElements
<1>3. q[1] \in S
  BY <1>1, <1>2, ElementOfSeq
<1> HIDE DEF q
<1>4. SubSeq(q, 1, 1) = << q[1] >>
  <2>1. \A i \in 1..1 : q[i] \in S
    BY <1>3
  <2>2. SubSeq(q, 1, 1) \in Seq(S) /\ Len(SubSeq(q, 1, 1)) = 1
        /\ SubSeq(q, 1, 1)[1] = q[1]
    BY <2>1, SubSeqProperties
  <2>3. << q[1] >> \in Seq(S) /\ Len(<< q[1] >>) = 1 /\ << q[1] >>[1] = q[1]
    BY <1>3
  <2>4. \A i \in 1..Len(SubSeq(q, 1, 1)) : SubSeq(q, 1, 1)[i] = << q[1] >>[i]
    BY <2>2, <2>3
  <2>5. QED BY ONLY <2>2, <2>3, <2>4, SeqEqual
<1>5. QED BY <1>2, <1>4 DEF q

(***************************************************************************)
(* SpscQueue implements a bounded FIFO whose enqueue fails only when it is *)
(* full.                                                                   *)
(***************************************************************************)
THEOREM SpscRefinesFifo == SpscSpec => ImplementsFifo
<1> USE SpscAssumption
<1> DEFINE Q == SubSeq(sent, m_head + 1, m_tail)
<1>1. SpscInit => Fifo!FifoInit
  BY SubSeqEmpty DEF SpscInit, Fifo!FifoInit
<1>2. SpscIInv /\ [SpscNext]_spscVars => [Fifo!FifoNext]_Fifo!fifoVars
  <2> SUFFICES ASSUME SpscIInv, [SpscNext]_spscVars
               PROVE  Fifo!FifoNext \/ UNCHANGED <<Q, out, dropped>>
    BY DEF Fifo!fifoVars
  <2>0. /\ sent \in Seq(Items) /\ Len(sent) = m_tail /\ m_head \in 0..Len(sent)
        /\ m_head \in Nat /\ m_tail \in Nat /\ Len(Q) = m_tail - m_head
    BY SuffixElements DEF SpscIInv, SpscTypeOK, SpscWindow
  <2>1. CASE (\E x \in Items : BeginEnqueue(x)) \/ CheckRoom \/ StorePtr
    BY <2>1 DEF BeginEnqueue, CheckRoom, StorePtr, spscConsumerVars
  <2>2. CASE RejectFull
    <3>1. item \in Items /\ dropped' = dropped \cup {item} /\ UNCHANGED <<Q, out>>
          /\ m_tail - m_head = Capacity
      BY <2>0, <2>2 DEF RejectFull, spscConsumerVars, SpscIInv, SpscTypeOK, SpscWindow
    <3>2. QED BY <2>0, <3>1 DEF Fifo!FifoNext, Fifo!Reject
  <2>3. CASE PublishTail
    <3>1. /\ item \in Items /\ sent' = Append(sent, item) /\ m_tail' = m_tail + 1
          /\ UNCHANGED <<m_head, out, dropped>> /\ m_tail < m_head + Capacity
      BY <2>3 DEF PublishTail, spscConsumerVars, SpscIInv, SpscTypeOK, SpscWindow
    <3>2. Q' = Append(Q, item)
      BY <3>1, <2>0, AppendSuffix
    <3>3. Len(Q) < Capacity
      BY <3>1, <2>0
    <3>4. QED BY <3>1, <3>2, <3>3 DEF Fifo!FifoNext, Fifo!Accept
  <2>4. CASE PublishHead
    <3>1. /\ m_head' = m_head + 1 /\ out' = Append(out, sent[m_head + 1])
          /\ UNCHANGED <<m_tail, sent, dropped>> /\ m_head < m_tail
      BY <2>4 DEF PublishHead, spscProducerVars, SpscIInv, SpscWindow, SpscContents
    <3>2. m_head \in 0..(Len(sent) - 1) /\ m_head + 1 \in m_head..Len(sent)
          /\ (m_head + 1) - m_head = 1 /\ 1 \in 1..Len(Q)
      BY <3>1, <2>0
    <3>3. SubSeq(Q, 1, 1) = << sent[m_head + 1] >>
      BY <3>2, <2>0, SuffixHead
    <3>4. out' = out \o SubSeq(Q, 1, 1)
      <4>1. out \in Seq(Items) /\ sent[m_head + 1] \in Items
        BY <3>2, <2>0, ElementOfSeq DEF SpscIInv, SpscTypeOK
      <4>2. Append(out, sent[m_head + 1]) = out \o << sent[m_head + 1] >>
        BY <4>1, AppendIsConcat
      <4>3. QED BY <3>1, <3>3, <4>2
    <3>5. Q' = SubSeq(Q, 1 + 1, Len(Q))
      BY <3>1, <3>2, <2>0, SuffixOfSuffix
    <3>6. Fifo!Deliver(1)
      BY <3>1, <3>4, <3>5 DEF Fifo!Deliver
    <3>7. QED BY <3>2, <3>6 DEF Fifo!FifoNext
  <2>5. CASE DequeueEmpty \/ DequeueNonEmpty \/ TakePtr \/ UNCHANGED spscVars
    BY <2>5 DEF DequeueEmpty, DequeueNonEmpty, TakePtr, spscVars, spscProducerVars,
                spscConsumerVars
  <2>6. QED BY <2>1, <2>2, <2>3, <2>4, <2>5 DEF SpscNext, SpscProducer, SpscConsumer
<1>3. QED BY <1>1, <1>2, SpscIInvInvariant, PTL DEF SpscSpec, ImplementsFifo, Fifo!FifoSpec

-----------------------------------------------------------------------------
(***************************************************************************)
(* The worker loop.  Every step of it is a step of the ring or leaves the  *)
(* ring alone, so the ring's invariant carries over.                       *)
(***************************************************************************)
LEMMA RxStepIsSpscStep == [RxNext]_rxVars => [SpscNext]_spscVars
BY DEF RxNext, rxVars, EnqueueRx, EnqueueStep, EnqueueTrue, Wakeup, Worker, CheckRunning,
       WaitReturns, WaitInterrupted, DrainWakeup, DequeueStep, DequeueNull, DequeueEmpty,
       StopFlag, StopWakeup, Terminated, SpscNext, SpscProducer, SpscConsumer

\* The ring inside a worker is used as SpscQueue allows.
THEOREM RxWorkerUsesRing == RxSpec => SpscSpec
BY RxStepIsSpscStep, PTL DEF RxSpec, RxInit, SpscSpec

(***************************************************************************)
(* m_running is cleared for good by stop(), which the worker's exit        *)
(* follows; what was sent at that time is a prefix of what was sent.       *)
(***************************************************************************)
RxIInv ==
  /\ RxTypeOK /\ SpscIInv
  /\ m_running => spc = "none"
  /\ spc = "none" => m_running
  /\ wpc \in {"final", "done"} => spc # "none"
  /\ sentAtStop <= m_tail
  /\ NoLostWakeup /\ StopIsSeen /\ StopDrains

\* Every step of the worker, its reactor and stop() preserves the invariant.
LEMMA RxNextIInv == RxIInv /\ [RxNext]_rxVars => RxIInv'
<1> SUFFICES ASSUME RxIInv, [RxNext]_rxVars PROVE RxIInv'
  OBVIOUS
<1>0. /\ SpscIInv' /\ SpscTypeOK' /\ m_head' \in Nat /\ m_tail' \in Nat
      /\ Len(sent) = m_tail /\ Len(out) = m_head /\ m_head \in Nat /\ m_tail \in Nat
      /\ Len(out') = m_head'
  BY SpscNextIInv, RxStepIsSpscStep DEF RxIInv, SpscIInv, SpscTypeOK, SpscWindow
<1> USE <1>0 DEF RxIInv, RxTypeOK, NoLostWakeup, StopIsSeen, StopDrains
<1>1. CASE \E x \in Items : EnqueueRx(x)
  BY <1>1 DEF EnqueueRx, BeginEnqueue, workerVars, spscConsumerVars
<1>2. CASE EnqueueStep
  BY <1>2 DEF EnqueueStep, CheckRoom, RejectFull, StorePtr, workerVars, spscConsumerVars
<1>3. CASE EnqueueTrue
  BY <1>3 DEF EnqueueTrue, PublishTail, spscConsumerVars
<1>4. CASE Wakeup
  BY <1>4 DEF Wakeup, spscVars, spscConsumerVars
<1>5. CASE CheckRunning
  <2>1. CASE m_running
    BY <1>5, <2>1 DEF CheckRunning, spscVars, spscConsumerVars
  <2>2. CASE ~m_running
    BY <1>5, <2>2 DEF CheckRunning, spscVars, spscConsumerVars
  <2>3. QED BY <2>1, <2>2
<1>11. CASE WaitReturns \/ WaitInterrupted \/ DrainWakeup
  <2>1. CASE WaitReturns
    BY <1>11, <2>1 DEF WaitReturns, spscVars, spscConsumerVars
  <2>2. CASE WaitInterrupted
    BY <1>11, <2>2 DEF WaitInterrupted, spscVars, spscConsumerVars
  <2>3. CASE DrainWakeup
    BY <1>11, <2>3 DEF DrainWakeup, spscVars, spscConsumerVars
  <2>4. QED BY <1>11, <2>1, <2>2, <2>3
<1>6. CASE DequeueStep
  BY <1>6 DEF DequeueStep, DequeueNonEmpty, TakePtr, PublishHead, workerVars
<1>7. CASE DequeueNull
  BY <1>7 DEF DequeueNull, DequeueEmpty, spscVars, spscConsumerVars
<1>8. CASE StopFlag
  <2>1. sentAtStop' = m_tail' /\ sentAtStop' \in Nat
    BY <1>8 DEF StopFlag, spscVars
  <2>2. wpc' # "done" /\ spc' = "flagged" /\ ~m_running' /\ m_running' \in BOOLEAN
    BY <1>8 DEF StopFlag
  <2>3. UNCHANGED <<m_head, m_tail, cpc, wpc, eventFd, notify>>
    BY <1>8 DEF StopFlag, spscVars, spscConsumerVars
  <2>4. RxTypeOK'
    BY <2>1, <2>2, <2>3
  <2>5. QED BY <2>1, <2>2, <2>3, <2>4
<1>9. CASE StopWakeup
  BY <1>9 DEF StopWakeup, spscVars, spscConsumerVars
<1>10. CASE Terminated \/ UNCHANGED rxVars
  BY <1>10 DEF Terminated, rxVars, workerVars, spscVars, spscConsumerVars
<1>12. QED BY <1>11, <1>1, <1>2, <1>3, <1>4, <1>5, <1>6, <1>7, <1>8, <1>9, <1>10
           DEF RxNext, Worker

\* The inductive invariant of the worker loop.
LEMMA RxIInvInvariant == RxSpec => []RxIInv
<1>1. RxInit => RxIInv
  <2>1. RxInit => SpscIInv
    BY SpscInitIInv DEF RxInit
  <2>2. RxInit => RxTypeOK
    <3>1. RxInit => eventFd \in BOOLEAN /\ notify \in BOOLEAN /\ m_running \in BOOLEAN
      BY Zenon DEF RxInit
    <3>2. QED BY <2>1, <3>1 DEF RxInit, SpscInit, RxTypeOK, SpscIInv
  <2>3. RxInit => NoLostWakeup /\ StopIsSeen /\ StopDrains
    BY DEF RxInit, SpscInit, NoLostWakeup, StopIsSeen, StopDrains
  <2>4. QED BY <2>1, <2>2, <2>3 DEF RxInit, SpscInit, RxIInv
<1>2. QED BY <1>1, RxNextIInv, PTL DEF RxSpec

(***************************************************************************)
(* Types of the worker and its ring; dequeue runs only in processPacket's  *)
(* loop or in the drain after stop().                                      *)
(***************************************************************************)
THEOREM RxTypeCorrect == RxSpec => []RxTypeOK
BY RxIInvInvariant, PTL DEF RxIInv

(***************************************************************************)
(* The wakeup protocol of enqueueRx and processPacket loses no wakeup.     *)
(***************************************************************************)
THEOREM RxNoLostWakeup == RxSpec => []NoLostWakeup
BY RxIInvInvariant, PTL DEF RxIInv

(***************************************************************************)
(* stop() never leaves the worker asleep in epoll_wait.                    *)
(***************************************************************************)
THEOREM RxStopIsSeen == RxSpec => []StopIsSeen
BY RxIInvInvariant, PTL DEF RxIInv

(***************************************************************************)
(* A worker that has ended has handled every packet enqueued before        *)
(* stop().                                                                 *)
(***************************************************************************)
THEOREM RxStopDrains == RxSpec => []StopDrains
BY RxIInvInvariant, PTL DEF RxIInv

-----------------------------------------------------------------------------
Packet == [id : Nat, left : 1..PacketLen]

Flags ==
  /\ pc \in {"idle", "batch", "flushTx", "flushWritable", "closed"}
  /\ hs \in BOOLEAN /\ armed \in BOOLEAN

TlsTypes ==
  /\ txQueue \in Seq(Packet) /\ written \in Seq(Nat)
  /\ used \in 0..Budget /\ offered \in 0..MaxPackets

\* TlsTxOrder position by position: the queue goes on where written ends.
Numbered ==
  /\ Len(written) + Len(txQueue) = offered
  /\ \A i \in 1..Len(written) : written[i] = i
  /\ \A i \in 1..Len(txQueue) : txQueue[i].id = Len(written) + i
  /\ \A i \in 2..Len(txQueue) : txQueue[i].left = PacketLen

\* QueueIsArmed is not inductive: flushTx, called by processTxQueue, ends
\* without touching the interest.
ArmedWhileFlushing == pc = "flushTx" /\ txQueue # << >> => armed

TlsIInv == Flags /\ TlsTypes /\ Numbered /\ QueueIsArmed /\ ArmedWhileFlushing

LEMMA Sizes == /\ PacketLen \in Nat /\ PacketLen > 0 /\ Budget \in Nat /\ Budget > 0
               /\ MaxPackets \in Nat /\ MaxPackets > 0
BY TlsAssumption

(***************************************************************************)
(* One SSL_write: pops the head, or shortens it.                           *)
(***************************************************************************)
LEMMA WriteKeeps ==
  ASSUME TlsIInv, Write
  PROVE  TlsIInv'
<1> USE Sizes
<1>1. PICK n \in 1..Head(txQueue).left :
        IF n = Head(txQueue).left
          THEN /\ txQueue' = Tail(txQueue) /\ used' = used + 1
               /\ written' = Append(written, Head(txQueue).id)
          ELSE /\ txQueue' = [txQueue EXCEPT ![1].left = @ - n]
               /\ UNCHANGED <<used, written>>
  BY DEF Write
<1>2. /\ txQueue \in Seq(Packet) /\ written \in Seq(Nat) /\ txQueue # << >>
      /\ used \in 0..Budget /\ used < Budget
      /\ offered \in 0..MaxPackets /\ offered' = offered
  BY DEF TlsIInv, Flags, TlsTypes, Write
<1>3. PICK m \in Nat, k \in Nat : m = Len(txQueue) /\ k = Len(written) /\ m > 0
  BY <1>2, EmptySeq, LenProperties
<1>4. Head(txQueue) = txQueue[1] /\ txQueue[1] \in Packet
  BY <1>2, <1>3, ElementOfSeq, HeadTailProperties
<1>5. /\ k + m = offered
      /\ \A i \in 1..k : written[i] = i
      /\ \A i \in 1..m : txQueue[i].id = k + i
      /\ \A i \in 2..m : txQueue[i].left = PacketLen
  BY <1>3 DEF TlsIInv, Numbered
<1>6. Flags' /\ QueueIsArmed' /\ ArmedWhileFlushing'
  <2>1. Flags'
    BY Zenon DEF TlsIInv, Write, Flags
  <2>2. pc' = pc /\ pc \in {"flushTx", "flushWritable"} /\ armed' = armed
    BY DEF Write, Flushing
  <2>3. QueueIsArmed'
    BY <2>2 DEF QueueIsArmed
  <2>4. ArmedWhileFlushing'
    BY <1>2, <2>2, Zenon DEF TlsIInv, ArmedWhileFlushing
  <2> QED  BY <2>1, <2>3, <2>4
<1>7. CASE n = Head(txQueue).left
  <2>1. /\ txQueue' = Tail(txQueue) /\ used' = used + 1
        /\ written' = Append(written, txQueue[1].id)
    BY <1>1, <1>4, <1>7
  <2>2. /\ txQueue' \in Seq(Packet) /\ Len(txQueue') = m - 1
        /\ \A i \in 1..(m - 1) : txQueue'[i] = txQueue[i + 1]
    BY <1>2, <1>3, <2>1, HeadTailProperties
  <2>3. txQueue[1].id \in Nat /\ txQueue[1].id = k + 1
    BY <1>3, <1>5
  <2>4. /\ written' \in Seq(Nat) /\ Len(written') = k + 1
        /\ \A i \in 1..k : written'[i] = written[i]
        /\ written'[k + 1] = txQueue[1].id
    BY <1>2, <1>3, <2>1, <2>3, AppendProperties
  <2>5. TlsTypes'
    BY <1>2, <2>1, <2>2, <2>4 DEF TlsTypes
  <2>6. Numbered'
    <3>1. ASSUME NEW i \in 1..(k + 1)  PROVE written'[i] = i
      <4>1. CASE i \in 1..k
        BY <1>5, <2>4, <4>1
      <4>2. CASE i = k + 1
        BY <2>3, <2>4, <4>2
      <4> QED  BY <1>3, <4>1, <4>2
    <3>2. ASSUME NEW i \in 1..(m - 1)  PROVE txQueue'[i].id = (k + 1) + i
      <4>1. i + 1 \in 1..m
        BY <1>3
      <4>2. txQueue'[i] = txQueue[i + 1] /\ txQueue[i + 1].id = k + (i + 1)
        BY <1>5, <2>2, <4>1
      <4> QED  BY <1>3, <4>2
    <3>3. ASSUME NEW i \in 2..(m - 1)  PROVE txQueue'[i].left = PacketLen
      <4>1. i \in 1..(m - 1) /\ i + 1 \in 2..m
        BY <1>3
      <4> QED  BY <1>5, <2>2, <4>1
    <3>4. Len(written') + Len(txQueue') = offered'
      <4>1. (k + 1) + (m - 1) = offered
        BY <1>3, <1>5
      <4> QED  BY <1>2, <2>2, <2>4, <4>1
    <3> QED  BY <2>2, <2>4, <3>1, <3>2, <3>3, <3>4 DEF Numbered
  <2> QED  BY <1>6, <2>5, <2>6 DEF TlsIInv
<1>8. CASE n # Head(txQueue).left
  <2>1. txQueue' = [txQueue EXCEPT ![1].left = @ - n] /\ UNCHANGED <<used, written>>
    BY <1>1, <1>8
  <2>2. PICK p : p = [txQueue[1] EXCEPT !.left = @ - n]
    OBVIOUS
  <2>3. p \in Packet /\ p.id = txQueue[1].id
    BY <1>1, <1>4, <1>8, <2>2 DEF Packet
  <2>4. txQueue' = [txQueue EXCEPT ![1] = p]
    BY <2>1, <2>2
  <2>5. /\ txQueue' \in Seq(Packet) /\ Len(txQueue') = m /\ txQueue'[1] = p
        /\ \A i \in 2..m : txQueue'[i] = txQueue[i]
    BY <1>2, <1>3, <2>3, <2>4, ExceptSeq
  <2>6. TlsTypes'
    BY <1>2, <2>1, <2>5 DEF TlsTypes
  <2>7. Numbered'
    <3>1. \A i \in 1..m : txQueue'[i].id = k + i
      BY <1>3, <1>5, <2>3, <2>5
    <3> QED  BY <1>2, <1>3, <1>5, <2>1, <2>5, <3>1 DEF Numbered
  <2> QED  BY <1>6, <2>6, <2>7 DEF TlsIInv
<1> QED  BY <1>7, <1>8

LEMMA PushTxKeeps ==
  ASSUME TlsIInv, PushTx
  PROVE  TlsIInv'
<1> USE Sizes
<1>1. PICK p : p = [id |-> offered + 1, left |-> PacketLen]
  OBVIOUS
<1>2. /\ offered \in 0..MaxPackets /\ offered < MaxPackets /\ offered' = offered + 1
      /\ used \in 0..Budget /\ used' = used
      /\ txQueue' = Append(txQueue, p) /\ txQueue \in Seq(Packet)
      /\ written \in Seq(Nat) /\ written' = written
  BY <1>1 DEF PushTx, TlsIInv, TlsTypes
<1>3. p \in Packet /\ p.id = offered + 1 /\ p.left = PacketLen
  BY <1>1, <1>2 DEF Packet
<1>4. PICK m \in Nat, k \in Nat : m = Len(txQueue) /\ k = Len(written)
  BY <1>2, LenProperties
<1>5. /\ k + m = offered
      /\ \A i \in 1..k : written[i] = i
      /\ \A i \in 1..m : txQueue[i].id = k + i
      /\ \A i \in 2..m : txQueue[i].left = PacketLen
  BY <1>4 DEF TlsIInv, Numbered
<1>6. /\ txQueue' \in Seq(Packet) /\ Len(txQueue') = m + 1
      /\ \A i \in 1..m : txQueue'[i] = txQueue[i]
      /\ txQueue'[m + 1] = p
  BY <1>2, <1>3, <1>4, AppendProperties
<1>7. TlsTypes'
  BY <1>2, <1>6 DEF TlsTypes
<1>8. Numbered'
  <2>1. ASSUME NEW i \in 1..(m + 1)
        PROVE  /\ txQueue'[i].id = k + i
               /\ i \in 2..(m + 1) => txQueue'[i].left = PacketLen
    <3>1. CASE i = m + 1
      <4>1. txQueue'[i] = p /\ offered + 1 = k + i
        BY <1>4, <1>5, <1>6, <3>1
      <4> QED  BY <1>3, <4>1
    <3>2. CASE i \in 1..m
      <4>1. txQueue'[i] = txQueue[i] /\ txQueue[i].id = k + i
        BY <1>5, <1>6, <3>2
      <4>2. i \in 2..(m + 1) => i \in 2..m
        BY <1>4, <3>2
      <4> QED  BY <1>5, <4>1, <4>2
    <3> QED  BY <1>4, <3>1, <3>2
  <2>2. Len(written') + Len(txQueue') = offered'
    BY ONLY <1>2, <1>4, <1>5, <1>6
  <2>3. \A i \in 1..k : written'[i] = i
    BY <1>2, <1>5
  <2>4. Len(written') = k /\ Len(txQueue') = m + 1
    BY ONLY <1>2, <1>4, <1>6
  <2>5. \A i \in 2..(m + 1) : i \in 1..(m + 1)
    BY <1>4
  <2> QED  BY ONLY <2>1, <2>2, <2>3, <2>4, <2>5 DEF Numbered
<1>9. Flags' /\ QueueIsArmed' /\ ArmedWhileFlushing'
  <2>1. Flags'
    BY Zenon DEF TlsIInv, PushTx, Flags
  <2>2. pc' = "batch"
    BY DEF PushTx
  <2> QED  BY <2>1, <2>2 DEF QueueIsArmed, ArmedWhileFlushing
<1> QED  BY <1>7, <1>8, <1>9 DEF TlsIInv

LEMMA TlsInitially == TlsInit => TlsIInv
<1> SUFFICES ASSUME TlsInit  PROVE TlsIInv
  OBVIOUS
<1>1. Flags
  BY DEF TlsInit, Flags
<1>2. TlsTypes
  BY Sizes, EmptySeq DEF TlsInit, TlsTypes
<1>3. Len(txQueue) = 0 /\ Len(written) = 0 /\ offered = 0
  BY EmptySeq DEF TlsInit
<1>4. Numbered
  BY <1>3 DEF Numbered
<1> QED  BY <1>1, <1>2, <1>4 DEF TlsInit, TlsIInv, QueueIsArmed, ArmedWhileFlushing

(***************************************************************************)
(* Every other step leaves the queue and what was sent alone; it may only  *)
(* disturb the interest.                                                   *)
(***************************************************************************)
LEMMA TlsStep == TlsIInv /\ [TlsNext]_tlsVars => TlsIInv'
<1> SUFFICES ASSUME TlsIInv, [TlsNext]_tlsVars  PROVE TlsIInv'
  OBVIOUS
<1> DEFINE Same == UNCHANGED <<txQueue, offered, written>>
<1>1. Same => Numbered'
  BY DEF TlsIInv, Numbered
<1>2. CASE PushTx  BY <1>2, PushTxKeeps
<1>3. CASE Write  BY <1>3, WriteKeeps
<1>4. CASE BatchEnds
  <2>1. Flags'
    BY <1>4, Zenon DEF BatchEnds, UpdateInterest, TlsIInv, Flags
  <2>2. TlsTypes'
    BY <1>4, Sizes DEF BatchEnds, TlsIInv, TlsTypes
  <2>3. QueueIsArmed' /\ ArmedWhileFlushing'
    BY <1>4 DEF BatchEnds, UpdateInterest, QueueIsArmed, ArmedWhileFlushing
  <2> QED  BY <1>1, <1>4, <2>1, <2>2, <2>3 DEF BatchEnds, TlsIInv
<1>5. CASE HandshakeDone
  BY <1>1, <1>5 DEF HandshakeDone, CanDrive, UpdateInterest, TlsIInv, Flags, TlsTypes,
     QueueIsArmed, ArmedWhileFlushing
<1>6. CASE HandshakeWants
  BY <1>1, <1>6 DEF HandshakeWants, CanDrive, TlsIInv, Flags, TlsTypes,
     QueueIsArmed, ArmedWhileFlushing
<1>7. CASE ReceiveWantsWrite
  BY <1>1, <1>7 DEF ReceiveWantsWrite, TlsIInv, Flags, TlsTypes, QueueIsArmed, ArmedWhileFlushing
<1>8. CASE Fails \/ WriteFails
  BY <1>1, <1>8 DEF Fails, WriteFails, CloseConnection, TlsIInv, Flags, TlsTypes,
     QueueIsArmed, ArmedWhileFlushing
<1>9. CASE OnWritable
  BY <1>1, <1>9, Sizes DEF OnWritable, TlsIInv, Flags, TlsTypes, QueueIsArmed,
     ArmedWhileFlushing
<1>10. CASE WriteBlocks
  BY <1>1, <1>10 DEF WriteBlocks, TlsIInv, Flags, TlsTypes, QueueIsArmed, ArmedWhileFlushing
<1>11. CASE FlushEnds
  BY <1>1, <1>11 DEF FlushEnds, Flushing, UpdateInterest, TlsIInv, Flags, TlsTypes, QueueIsArmed,
     ArmedWhileFlushing
<1>12. CASE TlsClosed \/ UNCHANGED tlsVars
  BY <1>1, <1>12 DEF TlsClosed, tlsVars, TlsIInv, Flags, TlsTypes, QueueIsArmed, ArmedWhileFlushing
<1> QED
  BY <1>2, <1>3, <1>4, <1>5, <1>6, <1>7, <1>8, <1>9, <1>10, <1>11, <1>12 DEF TlsNext

LEMMA TlsInvariant == TlsSpec => []TlsIInv
BY TlsInitially, TlsStep, PTL DEF TlsSpec

(***************************************************************************)
(* Packets leave whole and in the order in which processTxQueue queued     *)
(* them, whatever SSL_write takes at a time.                               *)
(***************************************************************************)
THEOREM TlsSendsInOrder == TlsSpec => []TlsTxOrder
<1>1. TlsIInv => TlsTxOrder
  <2> SUFFICES ASSUME TlsIInv  PROVE TlsTxOrder
    OBVIOUS
  <2> DEFINE ids == [i \in 1..Len(txQueue) |-> txQueue[i].id]
  <2>1. /\ written \in Seq(Nat) /\ Len(written) \in Nat /\ Len(txQueue) \in Nat
        /\ offered = Len(written) + Len(txQueue)
        /\ \A i \in 1..Len(txQueue) : txQueue[i].id = Len(written) + i
    BY LenProperties DEF TlsIInv, Flags, TlsTypes, Numbered
  <2>2. ids \in Seq(Nat) /\ Len(ids) = Len(txQueue)
    BY <2>1, IsASeq
  <2>3. \A i \in 1..Len(txQueue) : ids[i] = Len(written) + i
    BY <2>1
  <2> HIDE DEF ids
  <2>4. /\ written \o ids \in Seq(Nat) /\ Len(written \o ids) = offered
        /\ \A i \in 1..offered : (written \o ids)[i] = IF i <= Len(written) THEN written[i]
                                                     ELSE ids[i - Len(written)]
    <3>1. /\ written \o ids \in Seq(Nat) /\ Len(written \o ids) = Len(written) + Len(ids)
          /\ \A i \in 1..(Len(written) + Len(ids)) :
               (written \o ids)[i] = IF i <= Len(written) THEN written[i] ELSE ids[i - Len(written)]
      <4>1. written \in Seq(Nat) /\ ids \in Seq(Nat)
        BY <2>1, <2>2
      <4> QED  BY ONLY <4>1, ConcatProperties, Zenon
    <3>2. Len(written) + Len(ids) = offered
      BY <2>1, <2>2
    <3> QED  BY <3>1, <3>2, Zenon
  <2>5. ASSUME NEW i \in 1..offered  PROVE (written \o ids)[i] = i
    <3>1. CASE i <= Len(written)
      BY <2>1, <2>4, <3>1 DEF TlsIInv, Numbered
    <3>2. CASE ~(i <= Len(written))
      <4>1. i - Len(written) \in 1..Len(txQueue)
        BY <2>1, <3>2
      <4>2. (written \o ids)[i] = ids[i - Len(written)]
        BY <2>4, <3>2
      <4> QED  BY <2>1, <2>3, <4>1, <4>2
    <3> QED  BY <3>1, <3>2
  <2>6. PICK t : t = [i \in 1..offered |-> i]
    OBVIOUS
  <2>7. t \in Seq(Nat) /\ Len(t) = offered /\ \A i \in 1..offered : t[i] = i
    BY <2>1, <2>6, IsASeq
  <2>8. written \o ids = t
    BY <2>4, <2>5, <2>7, SeqEqual
  <2> QED  BY <2>6, <2>8 DEF ids, TlsTxOrder, TlsIInv, Numbered
<1> QED  BY <1>1, TlsInvariant, PTL

(***************************************************************************)
(* A connection whose handshake is done and that has packets left has      *)
(* EPOLLOUT armed between two events: the safety half of QueuedIsSent.     *)
(***************************************************************************)
THEOREM TlsQueueArmed == TlsSpec => []QueueIsArmed
BY TlsInvariant, PTL DEF TlsIInv

(***************************************************************************)
(* Types; no flush exceeds its budget, and no packet is queued without     *)
(* bytes left to write.                                                    *)
(***************************************************************************)
THEOREM TlsTypeCorrect == TlsSpec => []TlsTypeOK
<1>1. TlsIInv => TlsTypeOK
  <2> SUFFICES ASSUME TlsIInv  PROVE TlsTypeOK
    OBVIOUS
  <2>1. \A i \in 1..Len(txQueue) : txQueue[i].id \in 1..MaxPackets
                                   /\ txQueue[i].left \in 1..PacketLen
    <3>1. ASSUME NEW i \in 1..Len(txQueue)
          PROVE  txQueue[i].id \in 1..MaxPackets /\ txQueue[i].left \in 1..PacketLen
      <4>1. txQueue \in Seq(Packet) /\ written \in Seq(Nat) /\ offered \in 0..MaxPackets
        BY DEF TlsIInv, TlsTypes
      <4>2. Len(txQueue) \in Nat /\ Len(written) \in Nat /\ txQueue[i] \in Packet
        BY <4>1, ElementOfSeq, LenProperties
      <4>3. txQueue[i].id = Len(written) + i /\ Len(written) + Len(txQueue) = offered
        BY DEF TlsIInv, Numbered
      <4>4. txQueue[i].id \in 1..MaxPackets
        BY <4>1, <4>2, <4>3, Sizes
      <4>5. txQueue[i].left \in 1..PacketLen
        BY <4>2 DEF Packet
      <4> QED  BY <4>4, <4>5
    <3> QED  BY <3>1
  <2> QED  BY <2>1 DEF TlsIInv, Flags, TlsTypes, TlsTypeOK
<1> QED  BY <1>1, TlsInvariant, PTL
=============================================================================
