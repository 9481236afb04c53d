---------------------------- MODULE ThreadProofs ----------------------------
(***************************************************************************)
(* The threads of serverd.  What they hand to each other: MpscQueue, for   *)
(* any number of producers and packets and any capacity, and the wakeup    *)
(* protocol of enqueueTx around it (TxHandoff).  And how they start and    *)
(* end: Lifecycle, for any set of threads and whichever of them adds       *)
(* which.                                                                  *)
(***************************************************************************)
EXTENDS TxHandoff, Lifecycle, QueueLemmas

(***************************************************************************)
(* Counters: the consumer works in the window m_head..m_tail, which is     *)
(* never longer than the ring, and reads exactly the positions below       *)
(* Unread.                                                                 *)
(***************************************************************************)
Window ==
  /\ m_head <= head /\ Unread <= m_tail /\ m_tail <= m_head + Capacity
  /\ cpc = "idle" => head = m_head
  /\ Len(claimed) = m_tail
  /\ Len(out) = Unread

(***************************************************************************)
(* What a producer knows: a loaded tail is never ahead of m_tail, and if   *)
(* it passed the capacity test and is still current, there is room.        *)
(***************************************************************************)
LoadedTail ==
  \A p \in Producers :
    /\ pc[p] \in {"check", "cas"} => tail[p] <= m_tail
    /\ pc[p] = "cas" /\ tail[p] = m_tail => m_tail < m_head + Capacity

(***************************************************************************)
(* A producer in flight owns a claimed position the consumer has not       *)
(* reached, alone, and its slot is not ready.                              *)
(***************************************************************************)
OwnedPosition ==
  /\ \A p \in Producers : InFlight(p) =>
       /\ head <= tail[p] /\ tail[p] < m_tail
       /\ cpc \in {"take", "clear"} => head < tail[p]
       /\ item[p] = claimed[tail[p] + 1]
       /\ ~ready[Slot(tail[p])]
       /\ pc[p] = "publish" => ptr[Slot(tail[p])] = item[p]
  /\ \A p, q \in Producers :
       p # q /\ InFlight(p) /\ InFlight(q) => tail[p] # tail[q]

(***************************************************************************)
(* The slots of the ring seen from the consumer: position head is ready    *)
(* while it is being taken, and the positions from m_tail to the end of    *)
(* the ring are empty.                                                     *)
(***************************************************************************)
SlotState ==
  /\ cpc \in {"take", "clear"} => head < m_tail /\ ready[Slot(head)]
  /\ \A i \in m_tail..(head + Capacity - 1) : ~ready[Slot(i)]

IInv ==
  /\ TypeOK
  /\ Window
  /\ LoadedTail
  /\ OwnedPosition
  /\ SlotState
  /\ NothingStranded
  /\ DeliveredInClaimOrder

-----------------------------------------------------------------------------
(***************************************************************************)
(* Arithmetic of the mask: position & m_mask as a remainder.               *)
(***************************************************************************)

\* Every position has a slot of the ring.
LEMMA SlotType == ASSUME NEW i \in Nat PROVE Slot(i) \in Slots
BY MpscAssumption, SMT DEF Slot, Slots

\* Positions less than a ring apart use different slots.
LEMMA SlotDistinct ==
  ASSUME NEW i \in Nat, NEW j \in Nat, i < j, j < i + Capacity
  PROVE  Slot(i) # Slot(j)
BY MpscAssumption, RemainderDistinct, Zenon DEF Slot

\* A position one ring later uses the same slot.
LEMMA SlotWrap == ASSUME NEW i \in Nat PROVE Slot(i + Capacity) = Slot(i)
BY MpscAssumption, RemainderWrap, Zenon DEF Slot

-----------------------------------------------------------------------------
(***************************************************************************)
(* The invariant holds initially and is preserved by every step of enqueue *)
(* and dequeueAll.                                                         *)
(***************************************************************************)

\* The empty ring satisfies the invariant.
LEMMA InitIInv == Init => IInv
<1> SUFFICES ASSUME Init PROVE IInv
  BY Zenon
<1> USE MpscAssumption DEF Init
<1>1. TypeOK
  BY DEF TypeOK, PC, CPC
<1>2. Window /\ LoadedTail /\ OwnedPosition
  BY DEF Window, LoadedTail, OwnedPosition, InFlight, Unread
<1>3. SlotState
  <2>1. \A i \in 0..(Capacity - 1) : Slot(i) \in Slots
    BY SlotType
  <2>2. QED BY <2>1 DEF SlotState
<1>4. NothingStranded /\ DeliveredInClaimOrder
  BY DEF NothingStranded, DeliveredInClaimOrder, Unread
<1>5. QED BY <1>1, <1>2, <1>3, <1>4, Zenon DEF IInv

\* The steps of enqueue before the compare-exchange touch only locals.
LEMMA LocalSteps ==
  ASSUME IInv, NEW p \in Producers,
         \/ \E x \in Items : Enqueue(p, x)
         \/ LoadTail(p) \/ CheckFull(p) \/ ClaimFails(p)
  PROVE  IInv'
<1> USE MpscAssumption
<1>0. /\ UNCHANGED <<m_head, m_tail, ready, ptr, cpc, head, out, claimed>>
      /\ pc' = [pc EXCEPT ![p] = pc'[p]] /\ pc[p] \in {"idle", "load", "check", "cas"}
      /\ pc'[p] \in {"idle", "load", "check", "cas"}
      /\ tail' = [tail EXCEPT ![p] = tail'[p]] /\ item' = [item EXCEPT ![p] = item'[p]]
      /\ TypeOK'
  <2> USE DEF IInv, TypeOK, PC, CPC, Goto, sharedVars, consumerVars
  <2>1. CASE \E x \in Items : Enqueue(p, x)
    BY <2>1 DEF Enqueue
  <2>2. CASE LoadTail(p)
    BY <2>2, Zenon DEF LoadTail
  <2>3. CASE CheckFull(p)
    <3>1. CASE Goto(p, "idle") /\ dropped' = dropped \cup {item[p]}
      BY <2>3, <3>1, Zenon DEF CheckFull
    <3>2. CASE Goto(p, "cas") /\ UNCHANGED dropped
      BY <2>3, <3>2, Zenon DEF CheckFull
    <3> QED BY ONLY <2>3, <3>1, <3>2, Zenon DEF CheckFull
  <2>4. CASE ClaimFails(p)
    BY <2>4, Zenon DEF ClaimFails
  <2>5. QED BY <2>1, <2>2, <2>3, <2>4, Zenon
<1>1. \A q \in Producers : /\ InFlight(q)' <=> InFlight(q)
                           /\ InFlight(q) => /\ tail'[q] = tail[q] /\ item'[q] = item[q]
                                             /\ pc'[q] = pc[q]
  BY <1>0, Zenon DEF IInv, TypeOK, InFlight
<1>2. Window'
  BY <1>0, Zenon DEF IInv, Window, Unread
<1>3. LoadedTail'
  <2> SUFFICES ASSUME NEW q \in Producers
               PROVE  /\ pc'[q] \in {"check", "cas"} => tail'[q] <= m_tail
                      /\ pc'[q] = "cas" /\ tail'[q] = m_tail => m_tail < m_head + Capacity
    BY <1>0, Zenon DEF LoadedTail
  <2>1. CASE q # p
    BY <2>1, <1>0, Zenon DEF IInv, TypeOK, LoadedTail
  <2>2. CASE q = p
    BY <2>2 DEF IInv, TypeOK, Window, Unread, LoadedTail, Enqueue, LoadTail, CheckFull,
                ClaimFails, Goto, Distance
  <2>3. QED BY <2>1, <2>2, Zenon
<1>4. OwnedPosition'
  BY <1>0, <1>1 DEF IInv, OwnedPosition
<1>5. SlotState'
  BY <1>0, Zenon DEF IInv, SlotState
<1>6. NothingStranded' /\ DeliveredInClaimOrder'
  BY <1>0, <1>1 DEF IInv, NothingStranded, DeliveredInClaimOrder, Unread
<1>7. QED BY <1>0, <1>2, <1>3, <1>4, <1>5, <1>6, Zenon DEF IInv

\* A claimed position lies in the ring, next to the positions of other producers.
LEMMA ClaimStep == ASSUME IInv, NEW p \in Producers, Claim(p) PROVE IInv'
<1> USE MpscAssumption
<1>0. /\ UNCHANGED <<m_head, ready, ptr, cpc, head, out, item, tail>>
      /\ m_tail' = m_tail + 1 /\ m_tail = tail[p] /\ m_tail < m_head + Capacity
      /\ claimed' = Append(claimed, item[p]) /\ item[p] \in Items
      /\ Len(claimed) = m_tail /\ Len(claimed') = m_tail + 1
      /\ pc' = [pc EXCEPT ![p] = "fill"] /\ pc[p] = "cas"
      /\ Unread' = Unread
  BY DEF IInv, TypeOK, LoadedTail, Window, Claim, Goto, consumerVars, Unread
<1>1. TypeOK'
  BY <1>0 DEF IInv, TypeOK, PC, Claim
<1>2. /\ claimed'[m_tail + 1] = item[p]
      /\ \A i \in 1..m_tail : claimed'[i] = claimed[i]
  BY <1>0 DEF IInv, TypeOK
<1>3. Window' /\ LoadedTail'
  BY <1>0 DEF IInv, TypeOK, Window, LoadedTail, Unread
<1>4. ~ready[Slot(m_tail)] /\ head <= m_tail /\ (cpc \in {"take", "clear"} => head < m_tail)
  BY <1>0 DEF IInv, TypeOK, SlotState, Window, Unread
<1>5. \A q \in Producers : q # p => (InFlight(q)' <=> InFlight(q)) /\ pc'[q] = pc[q]
  BY <1>0, Zenon DEF IInv, TypeOK, InFlight
<1>6. OwnedPosition'
  <2>1. ASSUME NEW q \in Producers, InFlight(q)'
        PROVE  /\ head' <= tail'[q] /\ tail'[q] < m_tail'
               /\ cpc' \in {"take", "clear"} => head' < tail'[q]
               /\ item'[q] = claimed'[tail'[q] + 1]
               /\ ~ready'[Slot(tail'[q])]
               /\ pc'[q] = "publish" => ptr'[Slot(tail'[q])] = item'[q]
    <3>1. CASE q = p
      BY <3>1, <1>0, <1>2, <1>4 DEF IInv, TypeOK
    <3>2. CASE q # p
      BY <3>2, <2>1, <1>0, <1>2, <1>5 DEF IInv, TypeOK, OwnedPosition
    <3>3. QED BY <3>1, <3>2, Zenon
  <2>2. ASSUME NEW q \in Producers, NEW r \in Producers,
               q # r, InFlight(q)', InFlight(r)'
        PROVE  tail'[q] # tail'[r]
    <3>1. \A s \in Producers : s # p /\ InFlight(s)' => tail'[s] < m_tail
      BY <1>0, <1>5, Zenon DEF IInv, OwnedPosition
    <3>2. CASE q = p \/ r = p
      BY <3>1, <3>2, <2>2, <1>0 DEF IInv, TypeOK
    <3>3. CASE q # p /\ r # p
      BY <3>3, <2>2, <1>0, <1>5, Zenon DEF IInv, OwnedPosition
    <3>4. QED BY <3>2, <3>3, Zenon
  <2>3. QED BY <2>1, <2>2, Zenon DEF OwnedPosition
<1>7. SlotState'
  BY <1>0 DEF IInv, TypeOK, SlotState
<1>8. NothingStranded'
  <2>0. m_tail' - 1 = m_tail
    BY <1>0 DEF IInv, TypeOK
  <2> SUFFICES ASSUME NEW i \in Unread..m_tail
               PROVE  \/ ready[Slot(i)] /\ ptr[Slot(i)] = claimed'[i + 1]
                      \/ \E q \in Producers :
                           InFlight(q)' /\ tail[q] = i /\ item[q] = claimed'[i + 1]
    BY <2>0, <1>0, Zenon DEF NothingStranded
  <2>1. i \in Nat
    BY DEF IInv, TypeOK, Unread
  <2>2. CASE i = m_tail
    BY <2>2, <1>0, <1>2, Zenon DEF IInv, TypeOK, InFlight
  <2>3. CASE i # m_tail
    <3>1. i \in Unread..(m_tail - 1) /\ claimed'[i + 1] = claimed[i + 1]
      BY <2>1, <2>3, <1>2 DEF IInv, TypeOK
    <3>2. ~InFlight(p)
      BY <1>0, Zenon DEF InFlight
    <3>3. QED BY <3>1, <3>2, <1>5, Zenon DEF IInv, NothingStranded
  <2>4. QED BY <2>2, <2>3, Zenon
<1>9. DeliveredInClaimOrder'
  BY <1>0, <1>2 DEF IInv, TypeOK, DeliveredInClaimOrder
<1>10. QED BY <1>1, <1>3, <1>6, <1>7, <1>8, <1>9, Zenon DEF IInv

\* Storing the pointer disturbs no other slot.
LEMMA FillStep == ASSUME IInv, NEW p \in Producers, Fill(p) PROVE IInv'
<1> USE MpscAssumption
<1>0. /\ UNCHANGED <<m_head, m_tail, ready, cpc, head, out, item, tail, claimed>>
      /\ ptr' = [ptr EXCEPT ![Slot(tail[p])] = item[p]] /\ item[p] \in Items
      /\ pc' = [pc EXCEPT ![p] = "publish"] /\ pc[p] = "fill"
      /\ Unread' = Unread
  BY Zenon DEF IInv, TypeOK, Fill, Goto, consumerVars, Unread
<1>1. TypeOK'
  BY <1>0, Zenon DEF IInv, TypeOK, PC, Fill
<1>2. Window' /\ LoadedTail' /\ SlotState' /\ DeliveredInClaimOrder'
  BY <1>0, Zenon DEF IInv, TypeOK, Window, LoadedTail, SlotState, DeliveredInClaimOrder
<1>3. /\ \A q \in Producers : (InFlight(q)' <=> InFlight(q)) /\ (q # p => pc'[q] = pc[q])
      /\ InFlight(p) /\ tail[p] \in Nat /\ Slot(tail[p]) \in Slots
  BY <1>0, SlotType, Zenon DEF IInv, TypeOK, InFlight
<1>4. ASSUME NEW s \in Slots, s # Slot(tail[p]) PROVE ptr'[s] = ptr[s]
  BY <1>0, <1>4, Zenon DEF IInv, TypeOK
<1>5. \A q \in Producers : q # p /\ InFlight(q) =>
          Slot(tail[q]) # Slot(tail[p]) /\ Slot(tail[q]) \in Slots
  BY <1>3, SlotDistinct, SlotType DEF IInv, TypeOK, OwnedPosition, Window
<1>6. OwnedPosition'
  BY <1>0, <1>3, <1>4, <1>5 DEF IInv, TypeOK, OwnedPosition
<1>7. NothingStranded'
  <2> SUFFICES ASSUME NEW i \in Unread..(m_tail - 1)
               PROVE  \/ ready[Slot(i)] /\ ptr'[Slot(i)] = claimed[i + 1]
                      \/ \E q \in Producers :
                           InFlight(q)' /\ tail[q] = i /\ item[q] = claimed[i + 1]
    BY <1>0, Zenon DEF NothingStranded
  <2>1. i \in Nat /\ Slot(i) \in Slots
    BY SlotType DEF IInv, TypeOK, Unread
  <2>2. CASE ready[Slot(i)] /\ ptr[Slot(i)] = claimed[i + 1]
    BY <2>1, <2>2, <1>3, <1>4, Zenon DEF IInv, OwnedPosition
  <2>3. CASE \E q \in Producers :
               InFlight(q) /\ tail[q] = i /\ item[q] = claimed[i + 1]
    BY <2>3, <1>3, Zenon
  <2>4. QED BY <2>2, <2>3, Zenon DEF IInv, NothingStranded
<1>8. QED BY <1>1, <1>2, <1>6, <1>7, Zenon DEF IInv

\* Setting the flag hands the filled slot to the consumer.
LEMMA PublishStep == ASSUME IInv, NEW p \in Producers, Publish(p) PROVE IInv'
<1> USE MpscAssumption
<1>0. /\ UNCHANGED <<m_head, m_tail, ptr, cpc, head, out, item, tail, claimed>>
      /\ ready' = [ready EXCEPT ![Slot(tail[p])] = TRUE]
      /\ pc' = [pc EXCEPT ![p] = "idle"] /\ pc[p] = "publish"
      /\ Unread' = Unread
  BY Zenon DEF Publish, Goto, consumerVars, Unread
<1>1. TypeOK'
  BY <1>0, Zenon DEF IInv, TypeOK, PC, Publish
<1>2. Window' /\ LoadedTail' /\ DeliveredInClaimOrder'
  BY <1>0, Zenon DEF IInv, TypeOK, Window, LoadedTail, DeliveredInClaimOrder
<1>3. /\ \A q \in Producers : q # p => (InFlight(q)' <=> InFlight(q)) /\ pc'[q] = pc[q]
      /\ InFlight(p) /\ ~InFlight(p)' /\ tail[p] \in Nat /\ Slot(tail[p]) \in Slots
      /\ ready'[Slot(tail[p])]
  BY <1>0, SlotType, Zenon DEF IInv, TypeOK, InFlight
<1>4. \A s \in Slots : s # Slot(tail[p]) => ready'[s] = ready[s]
  BY <1>0, Zenon DEF IInv, TypeOK
<1>5. \A q \in Producers : q # p /\ InFlight(q) =>
          Slot(tail[q]) # Slot(tail[p]) /\ Slot(tail[q]) \in Slots
  BY <1>3, SlotDistinct, SlotType DEF IInv, TypeOK, OwnedPosition, Window
<1>6. OwnedPosition'
  BY <1>0, <1>3, <1>4, <1>5 DEF IInv, OwnedPosition
<1>7. SlotState'
  <2>1. ASSUME NEW i \in m_tail..(head + Capacity - 1) PROVE ~ready'[Slot(i)]
    <3>1. i \in Nat /\ Slot(i) \in Slots /\ tail[p] < i /\ i < tail[p] + Capacity
      BY <1>3, SlotType DEF IInv, TypeOK, OwnedPosition
    <3>2. Slot(i) # Slot(tail[p])
      BY <3>1, <1>3, SlotDistinct, Zenon
    <3>3. QED BY <3>1, <3>2, <1>4, Zenon DEF IInv, SlotState
  <2>2. cpc \in {"take", "clear"} => head < m_tail /\ ready'[Slot(head)]
    <3>1. Slot(head) \in Slots
      BY SlotType, Zenon DEF IInv, TypeOK
    <3>2. QED BY <3>1, <1>3, <1>4, Zenon DEF IInv, SlotState
  <2>3. QED BY <2>1, <2>2, <1>0, Zenon DEF SlotState
<1>8. NothingStranded'
  <2> SUFFICES ASSUME NEW i \in Unread..(m_tail - 1)
               PROVE  \/ ready'[Slot(i)] /\ ptr[Slot(i)] = claimed[i + 1]
                      \/ \E q \in Producers :
                           InFlight(q)' /\ tail[q] = i /\ item[q] = claimed[i + 1]
    BY <1>0, Zenon DEF NothingStranded
  <2>1. i \in Nat /\ Slot(i) \in Slots
    BY SlotType DEF IInv, TypeOK, Unread
  <2>2. CASE ready[Slot(i)] /\ ptr[Slot(i)] = claimed[i + 1]
    BY <2>1, <2>2, <1>3, <1>4, Zenon
  <2>3. CASE i = tail[p]
    BY <2>3, <1>0, <1>3, Zenon DEF IInv, OwnedPosition
  <2>4. CASE \E q \in Producers :
               InFlight(q) /\ tail[q] = i /\ item[q] = claimed[i + 1]
    BY <2>3, <2>4, <1>3, Zenon
  <2>5. QED BY <2>2, <2>4, Zenon DEF IInv, NothingStranded
<1>9. QED BY <1>1, <1>2, <1>6, <1>7, <1>8, Zenon DEF IInv

\* Starting a call and reading a flag change only the consumer's locals.
LEMMA BeginAndScanSteps == ASSUME IInv, BeginDequeueAll \/ ScanReady PROVE IInv'
<1> USE MpscAssumption
<1>0. /\ UNCHANGED <<m_head, m_tail, ready, ptr, pc, item, tail, fresh, dropped, claimed, out>>
      /\ head' = head /\ cpc' \in {"scan", "take"} /\ cpc \in {"idle", "scan"}
      /\ cpc' = "take" => ready[Slot(head)]
      /\ Unread' = Unread /\ Unread = head
  BY Zenon DEF IInv, Window, BeginDequeueAll, ScanReady, sharedVars, producerVars, Unread
<1>1. TypeOK'
  BY <1>0, Zenon DEF IInv, TypeOK, CPC
<1>2. \A q \in Producers : InFlight(q)' <=> InFlight(q)
  BY <1>0, Zenon DEF InFlight
<1>3. cpc' = "take" => head < m_tail
  BY <1>0 DEF IInv, TypeOK, Window, SlotState
<1>4. \A q \in Producers : cpc' = "take" /\ InFlight(q) => head < tail[q]
  BY <1>0 DEF IInv, TypeOK, OwnedPosition
<1>5. Window' /\ LoadedTail' /\ DeliveredInClaimOrder' /\ NothingStranded'
  BY <1>0, <1>2 DEF IInv, TypeOK, Window, LoadedTail, DeliveredInClaimOrder, NothingStranded
<1>6. SlotState'
  BY <1>0, <1>3, Zenon DEF IInv, SlotState
<1>7. OwnedPosition'
  BY <1>0, <1>2, <1>4, Zenon DEF IInv, OwnedPosition
<1>8. QED BY <1>1, <1>5, <1>6, <1>7, Zenon DEF IInv

\* The packet read is the oldest unread claim, and only its slot is emptied.
LEMMA TakeStep == ASSUME IInv, TakePtr PROVE IInv'
<1> USE MpscAssumption
<1>0. /\ UNCHANGED <<m_head, m_tail, ready, pc, item, tail, fresh, dropped, claimed, head>>
      /\ cpc = "take" /\ cpc' = "clear"
      /\ out' = Append(out, ptr[Slot(head)])
      /\ ptr' = [ptr EXCEPT ![Slot(head)] = Null]
      /\ Unread = head /\ Unread' = head + 1
  BY Zenon DEF TakePtr, producerVars, Unread
<1>1. /\ head \in Nat /\ Slot(head) \in Slots /\ head < m_tail /\ m_tail \in Nat
      /\ m_tail <= head + Capacity
      /\ Len(out) = head /\ Len(claimed) = m_tail
  BY <1>0, SlotType DEF IInv, TypeOK, Window, SlotState
<1>2. ptr[Slot(head)] = claimed[head + 1] /\ claimed[head + 1] \in Items
  <2>1. head \in Unread..(m_tail - 1)
    BY <1>0, <1>1
  <2>2. \A q \in Producers : ~(InFlight(q) /\ tail[q] = head)
    BY <1>0, <1>1 DEF IInv, TypeOK, OwnedPosition
  <2>3. QED BY <2>1, <2>2, <1>1 DEF IInv, TypeOK, NothingStranded
<1>3. /\ Len(out') = head + 1 /\ out'[head + 1] = claimed[head + 1]
      /\ \A i \in 1..head : out'[i] = out[i]
      /\ out' \in Seq(Items)
  BY <1>0, <1>1, <1>2 DEF IInv, TypeOK
<1>4. TypeOK'
  BY <1>0, <1>3, Zenon DEF IInv, TypeOK, CPC
<1>5. Window'
  BY <1>0, <1>1, <1>3 DEF IInv, TypeOK, Window
<1>6. DeliveredInClaimOrder'
  BY <1>0, <1>1, <1>3 DEF IInv, DeliveredInClaimOrder
<1>7. LoadedTail' /\ SlotState'
  BY <1>0, Zenon DEF IInv, LoadedTail, SlotState
<1>8. \A i \in (head + 1)..(m_tail - 1) :
         i \in Nat /\ Slot(i) \in Slots /\ Slot(i) # Slot(head) /\ ptr'[Slot(i)] = ptr[Slot(i)]
  <2> TAKE i \in (head + 1)..(m_tail - 1)
  <2>1. i \in Nat /\ head < i /\ i < head + Capacity
    BY <1>1
  <2>2. Slot(i) \in Slots /\ Slot(i) # Slot(head)
    BY <2>1, <1>1, SlotType, SlotDistinct, Zenon
  <2>3. QED BY <2>1, <2>2, <1>0, Zenon DEF IInv, TypeOK
<1>9. OwnedPosition'
  <2>1. \A q \in Producers : /\ InFlight(q)' <=> InFlight(q)
                             /\ InFlight(q) => tail[q] \in (head + 1)..(m_tail - 1)
    BY <1>0, <1>1 DEF IInv, TypeOK, OwnedPosition, InFlight
  <2>2. QED BY <2>1, <1>0, <1>8, Zenon DEF IInv, OwnedPosition
<1>10. NothingStranded'
  <2> SUFFICES ASSUME NEW i \in (head + 1)..(m_tail - 1)
               PROVE  \/ ready[Slot(i)] /\ ptr'[Slot(i)] = claimed[i + 1]
                      \/ \E q \in Producers :
                           InFlight(q)' /\ tail[q] = i /\ item[q] = claimed[i + 1]
    BY <1>0, Zenon DEF NothingStranded
  <2>1. i \in Unread..(m_tail - 1) /\ ptr'[Slot(i)] = ptr[Slot(i)]
    BY <1>0, <1>1, <1>8
  <2>2. \A q \in Producers : InFlight(q)' <=> InFlight(q)
    BY <1>0, Zenon DEF InFlight
  <2>3. QED BY <2>1, <2>2, Zenon DEF IInv, NothingStranded
<1>11. QED BY <1>4, <1>5, <1>6, <1>7, <1>9, <1>10, Zenon DEF IInv

\* Clearing the flag frees the slot for the position one ring later.
LEMMA ClearStep == ASSUME IInv, ClearReady PROVE IInv'
<1> USE MpscAssumption
<1>0. /\ UNCHANGED <<m_head, m_tail, ptr, pc, item, tail, fresh, dropped, claimed, out>>
      /\ cpc = "clear" /\ cpc' = "scan"
      /\ ready' = [ready EXCEPT ![Slot(head)] = FALSE]
      /\ head' = head + 1
      /\ Unread = head + 1 /\ Unread' = head + 1
  BY Zenon DEF ClearReady, producerVars, Unread
<1>1. /\ head \in Nat /\ Slot(head) \in Slots /\ head < m_tail /\ m_tail \in Nat
      /\ m_tail <= head + Capacity
  BY <1>0, SlotType DEF IInv, TypeOK, Window, SlotState
<1>2. TypeOK'
  BY <1>0, <1>1 DEF IInv, TypeOK, CPC
<1>3. Window' /\ LoadedTail' /\ DeliveredInClaimOrder'
  BY <1>0, <1>1 DEF IInv, TypeOK, Window, LoadedTail, DeliveredInClaimOrder
<1>4. \A s \in Slots : ready'[s] = (ready[s] /\ s # Slot(head))
  BY <1>0, Zenon DEF IInv, TypeOK
<1>5. \A q \in Producers :
        /\ InFlight(q)' <=> InFlight(q)
        /\ InFlight(q) => head + 1 <= tail[q] /\ Slot(tail[q]) \in Slots
  BY <1>0, <1>1, SlotType DEF IInv, TypeOK, OwnedPosition, InFlight
<1>6. OwnedPosition'
  BY <1>0, <1>4, <1>5 DEF IInv, OwnedPosition
<1>7. SlotState'
  <2>1. ASSUME NEW i \in m_tail..(head + Capacity) PROVE ~ready'[Slot(i)]
    <3>1. i \in Nat /\ Slot(i) \in Slots
      BY <1>1, SlotType
    <3>2. CASE i = head + Capacity
      BY <3>1, <3>2, <1>1, <1>4, SlotWrap, Zenon
    <3>3. CASE i # head + Capacity
      <4>1. i \in m_tail..(head + Capacity - 1)
        BY <3>1, <3>3, <1>1
      <4>2. QED BY <4>1, <3>1, <1>4, Zenon DEF IInv, SlotState
    <3>4. QED BY <3>2, <3>3, Zenon
  <2>2. head' + Capacity - 1 = head + Capacity
    BY <1>0, <1>1
  <2>3. QED BY <2>1, <2>2, <1>0, Zenon DEF SlotState
<1>8. NothingStranded'
  <2> SUFFICES ASSUME NEW i \in (head + 1)..(m_tail - 1)
               PROVE  \/ ready'[Slot(i)] /\ ptr[Slot(i)] = claimed[i + 1]
                      \/ \E q \in Producers :
                           InFlight(q)' /\ tail[q] = i /\ item[q] = claimed[i + 1]
    BY <1>0, Zenon DEF NothingStranded
  <2>1. i \in Nat /\ head < i /\ i < head + Capacity
    BY <1>1
  <2>2. Slot(i) \in Slots /\ Slot(i) # Slot(head)
    BY <2>1, <1>1, SlotType, SlotDistinct, Zenon
  <2>3. i \in Unread..(m_tail - 1)
    BY <1>0, Zenon
  <2>4. QED BY <2>2, <2>3, <1>4, <1>5, Zenon DEF IInv, NothingStranded
<1>9. QED BY <1>2, <1>3, <1>6, <1>7, <1>8, Zenon DEF IInv

\* Publishing m_head only gives the producers more room.
LEMMA EndStep == ASSUME IInv, EndDequeueAll PROVE IInv'
<1> USE MpscAssumption
<1>0. /\ UNCHANGED <<m_tail, ready, ptr, pc, item, tail, fresh, dropped, claimed, out, head>>
      /\ cpc = "scan" /\ cpc' = "idle" /\ m_head' = head
      /\ Unread = head /\ Unread' = head
  BY Zenon DEF EndDequeueAll, producerVars, Unread
<1>1. TypeOK'
  BY <1>0, Zenon DEF IInv, TypeOK, CPC
<1>2. Window' /\ LoadedTail'
  BY <1>0 DEF IInv, TypeOK, Window, LoadedTail
<1>3. SlotState' /\ DeliveredInClaimOrder' /\ OwnedPosition' /\ NothingStranded'
  BY <1>0 DEF IInv, SlotState, DeliveredInClaimOrder, OwnedPosition, NothingStranded, InFlight
<1>4. QED BY <1>1, <1>2, <1>3, Zenon DEF IInv

\* The invariant is inductive.
LEMMA NextIInv == IInv /\ [Next]_vars => IInv'
<1> SUFFICES ASSUME IInv, [Next]_vars PROVE IInv'
  BY Zenon
<1>1. ASSUME NEW p \in Producers, NEW x \in Items, Enqueue(p, x) PROVE IInv'
  BY <1>1, LocalSteps, Zenon
<1>2. ASSUME NEW p \in Producers, Producer(p) PROVE IInv'
  BY <1>2, LocalSteps, ClaimStep, FillStep, PublishStep, Zenon DEF Producer
<1>3. CASE Consumer
  BY <1>3, BeginAndScanSteps, TakeStep, ClearStep, EndStep, Zenon DEF Consumer
<1>4. CASE UNCHANGED vars
  <2> USE <1>4 DEF vars, sharedVars, producerVars, consumerVars
  <2>1. TypeOK' /\ Window' /\ LoadedTail'
    BY Zenon DEF IInv, TypeOK, Window, LoadedTail, Unread
  <2>2. OwnedPosition' /\ SlotState'
    BY Zenon DEF IInv, OwnedPosition, SlotState, InFlight, Unread
  <2>3. NothingStranded' /\ DeliveredInClaimOrder'
    BY DEF IInv, NothingStranded, DeliveredInClaimOrder, InFlight, Unread
  <2> QED BY ONLY <2>1, <2>2, <2>3, Zenon DEF IInv
<1>5. QED BY <1>1, <1>2, <1>3, <1>4, Zenon DEF Next

\* IInv is an invariant of the queue.
LEMMA IInvInvariant == Spec => []IInv
BY InitIInv, NextIInv, PTL DEF Spec

-----------------------------------------------------------------------------
(***************************************************************************)
(* Type correctness; in particular dequeueAll never returns a null packet. *)
(***************************************************************************)
THEOREM TypeCorrect == Spec => []TypeOK
<1>1. IInv => TypeOK
  BY Zenon DEF IInv
<1>2. QED BY <1>1, IInvInvariant, PTL

(***************************************************************************)
(* MpscQueue delivers every claimed packet once and in claim order, for    *)
(* any number of producers and any capacity.                               *)
(***************************************************************************)
THEOREM FifoDelivery == Spec => []DeliveredInClaimOrder
<1>1. IInv => DeliveredInClaimOrder
  BY Zenon DEF IInv
<1>2. QED BY <1>1, IInvInvariant, PTL

(***************************************************************************)
(* No two threads access the non-atomic field ptr of one slot at a time.   *)
(***************************************************************************)
THEOREM SlotExclusion == Spec => []ExclusiveSlot
<1>1. IInv => ExclusiveSlot
  BY MpscAssumption, SlotDistinct
     DEF IInv, TypeOK, OwnedPosition, Window, SlotState, ExclusiveSlot
<1>2. QED BY <1>1, IInvInvariant, PTL

(***************************************************************************)
(* A claimed packet that was not read is ready or held by its producer.    *)
(***************************************************************************)
THEOREM NoStrandedPacket == Spec => []NothingStranded
<1>1. IInv => NothingStranded
  BY Zenon DEF IInv
<1>2. QED BY <1>1, IInvInvariant, PTL

-----------------------------------------------------------------------------
(***************************************************************************)
(* enqueue refuses a packet only when the ring is full or the consumer has *)
(* overtaken the tail that the producer loaded: no other race makes it     *)
(* lose one.                                                               *)
(***************************************************************************)
THEOREM RejectedFullOrOvertaken == Spec => FullOrOvertaken
<1>1. IInv /\ [Next]_vars =>
        [\A p \in Producers : pc[p] = "check" /\ pc'[p] = "idle" =>
           m_tail = m_head + Capacity \/ tail[p] < m_head]_vars
  <2> SUFFICES ASSUME IInv, Next, NEW p \in Producers, pc[p] = "check", pc'[p] = "idle", tail[p] >= m_head
               PROVE  m_tail = m_head + Capacity
    BY DEF IInv, TypeOK
  <2>1. CheckFull(p)
    <3>1. ASSUME NEW q \in Producers, NEW l, Goto(q, l), pc[q] # "check"  PROVE FALSE
      BY <3>1, Zenon DEF IInv, TypeOK, Goto
    <3>2. ASSUME NEW q \in Producers, CheckFull(q), q # p  PROVE FALSE
      BY <3>2, Zenon DEF IInv, TypeOK, Goto, CheckFull
    <3>3. CASE Consumer
      BY <3>3, Zenon DEF Consumer, BeginDequeueAll, ScanReady, TakePtr, ClearReady, EndDequeueAll,
                         producerVars
    <3> QED
      BY <3>1, <3>2, <3>3
         DEF Next, Producer, Enqueue, LoadTail, Claim, ClaimFails, Fill, Publish
  <2>2. Distance(tail[p], m_head) >= Capacity
    BY <2>1, Zenon DEF CheckFull, Goto, IInv, TypeOK
  <2>3. tail[p] \in Nat /\ m_head \in Nat /\ m_tail \in Nat
    BY Zenon DEF IInv, TypeOK
  <2>4. tail[p] <= m_tail /\ m_tail <= m_head + Capacity
    BY Zenon DEF IInv, LoadedTail, Window
  <2> QED  BY <2>2, <2>3, <2>4, MpscAssumption DEF Distance
<1> QED  BY <1>1, IInvInvariant, PTL DEF Spec, FullOrOvertaken

(***************************************************************************)
(* Refinement of BoundedFifo.  The abstract queue is the part of the claim *)
(* history from m_head on.                                                 *)
(***************************************************************************)

(***************************************************************************)
(* MpscQueue implements a bounded FIFO: enqueue takes effect at its        *)
(* compare-exchange, dequeueAll at its store of m_head.                    *)
(***************************************************************************)
THEOREM RefinesFifo == Spec => ImplementsFifo
<1> USE MpscAssumption
<1> DEFINE Q == SubSeq(claimed, m_head + 1, m_tail)
           D == SubSeq(out, 1, m_head)
<1>1. Init => Fifo!FifoInit
  <2> SUFFICES ASSUME Init PROVE Q = << >> /\ D = << >> /\ dropped = {}
    BY Zenon DEF Fifo!FifoInit
  <2>1. QED BY SubSeqEmpty DEF Init
<1>2. IInv /\ [Next]_vars => [Fifo!FifoNext]_Fifo!fifoVars
  <2> SUFFICES ASSUME IInv, [Next]_vars
               PROVE  Fifo!FifoNext \/ UNCHANGED <<Q, D, dropped>>
    BY Zenon DEF Fifo!fifoVars
  <2>0. /\ claimed \in Seq(Items) /\ out \in Seq(Items) /\ Len(claimed) = m_tail
        /\ m_head \in 0..Len(claimed) /\ head \in m_head..Len(claimed)
        /\ head <= Len(out) /\ m_head <= Len(out)
        /\ \A i \in 1..Len(out) : out[i] = claimed[i]
    BY DEF IInv, TypeOK, Window, Unread, DeliveredInClaimOrder
  <2>1. ASSUME NEW p \in Producers, NEW x \in Items, Enqueue(p, x)
        PROVE  UNCHANGED <<Q, D, dropped>>
    BY <2>1, Zenon DEF Enqueue, sharedVars, consumerVars
  <2>2. ASSUME NEW p \in Producers, LoadTail(p) \/ ClaimFails(p) \/ Fill(p) \/ Publish(p)
        PROVE  UNCHANGED <<Q, D, dropped>>
    BY <2>2, Zenon DEF LoadTail, ClaimFails, Fill, Publish, sharedVars, consumerVars
  <2>3. ASSUME NEW p \in Producers, CheckFull(p)
        PROVE  Fifo!FifoNext \/ UNCHANGED <<Q, D, dropped>>
    <3>1. item[p] \in Items /\ UNCHANGED <<Q, D>>
      BY <2>3, Zenon DEF IInv, TypeOK, CheckFull, sharedVars, consumerVars
    <3>2. dropped' = dropped \cup {item[p]} \/ UNCHANGED dropped
      BY <2>3, Zenon DEF CheckFull
    <3>3. CASE dropped' = dropped \cup {item[p]}
      BY <3>1, <3>3, Zenon DEF Fifo!FifoNext, Fifo!Reject
    <3>4. QED BY <3>1, <3>2, <3>3, Zenon
  <2>4. ASSUME NEW p \in Producers, Claim(p)
        PROVE  Fifo!FifoNext
    <3>1. /\ item[p] \in Items /\ m_tail' = m_tail + 1 /\ UNCHANGED <<m_head, out, dropped>>
          /\ claimed' = Append(claimed, item[p]) /\ m_tail < m_head + Capacity
      BY <2>4, Zenon DEF IInv, TypeOK, LoadedTail, Claim, consumerVars
    <3>2. Q' = Append(Q, item[p]) /\ D' = D
      BY <3>1, <2>0, AppendSuffix, Zenon
    <3>3. Len(Q) < Capacity
      BY <3>1, <2>0, SuffixElements
    <3>4. Fifo!Accept(item[p])
      BY <3>1, <3>2, <3>3, Zenon DEF Fifo!Accept
    <3>5. QED BY <3>1, <3>4, Zenon DEF Fifo!FifoNext
  <2>5. CASE BeginDequeueAll \/ ScanReady \/ ClearReady
    BY <2>5, Zenon DEF BeginDequeueAll, ScanReady, ClearReady, sharedVars, producerVars
  <2>6. CASE TakePtr
    <3>1. out' \in Seq(Items) /\ out' = Append(out, ptr[Slot(head)])
          /\ UNCHANGED <<claimed, m_head, m_tail, dropped>>
      BY <2>6, TakeStep, Zenon DEF IInv, TypeOK, TakePtr, producerVars
    <3>2. ptr[Slot(head)] \in Items
      <4>1. Len(out') = Len(out) + 1 /\ out'[Len(out) + 1] = ptr[Slot(head)]
        BY <3>1, <2>0
      <4>2. QED BY <3>1, <4>1, <2>0, ElementOfSeq
    <3>3. D' = D
      BY <3>1, <3>2, <2>0, AppendPrefix
    <3>4. QED BY <3>1, <3>3, Zenon
  <2>7. CASE EndDequeueAll
    <3>1. m_head' = head /\ UNCHANGED <<claimed, m_tail, out, dropped>>
      BY <2>7, Zenon DEF EndDequeueAll, producerVars
    <3>2. CASE head = m_head
      BY <3>1, <3>2, Zenon
    <3>3. CASE head # m_head
      <4> DEFINE n == head - m_head
      <4>1. Len(Q) = m_tail - m_head /\ n \in 1..Len(Q)
        BY <3>3, <2>0, SuffixElements
      <4>2. Q' = SubSeq(Q, n + 1, Len(Q))
        BY <3>1, <2>0, SuffixOfSuffix, Zenon
      <4>3. D' = D \o SubSeq(Q, 1, n)
        <5>1. head <= Len(out) /\ \A i \in 1..head : out[i] = claimed[i]
          BY <2>0
        <5>2. SubSeq(out, 1, head) = SubSeq(out, 1, m_head)
                 \o SubSeq(SubSeq(claimed, m_head + 1, Len(claimed)), 1, head - m_head)
          BY <5>1, <2>0, PrefixGrows, Zenon
        <5>3. QED BY <5>2, <3>1, <2>0, Zenon
      <4>4. Fifo!Deliver(n)
        BY <4>2, <4>3, <3>1, Zenon DEF Fifo!Deliver
      <4>5. QED BY <4>1, <4>4, Zenon DEF Fifo!FifoNext
    <3>4. QED BY <3>2, <3>3, Zenon
  <2>8. CASE UNCHANGED vars
    BY <2>8, Zenon DEF vars, sharedVars, producerVars, consumerVars
  <2>9. QED BY <2>1, <2>2, <2>3, <2>4, <2>5, <2>6, <2>7, <2>8, Zenon DEF Next, Producer, Consumer
<1>3. QED BY <1>1, <1>2, IInvInvariant, PTL DEF Spec, ImplementsFifo, Fifo!FifoSpec
-----------------------------------------------------------------------------
(***************************************************************************)
(* The wakeup protocol of enqueueTx, for any number of shard workers.      *)
(***************************************************************************)

\* Every step of the egress path is a step of the ring or leaves it alone.
LEMMA TxStepIsRingStep == [TxNext]_txVars => [Next]_vars
BY DEF TxNext, txVars, TxProducer, EnqueueTx, EnqueueStep, EnqueueTrue, Wakeup, Reactor,
       WaitReturns, DrainWakeup, ProcessTxQueue, DequeueStep, ProcessTxQueueEnds, WaitAgain,
       Next, Producer, Consumer

(***************************************************************************)
(* The egress path uses the ring as MpscQueue allows, so that all that is  *)
(* proved of the ring (order, exclusion, refinement of the FIFO) holds in  *)
(* it.                                                                     *)
(***************************************************************************)
THEOREM TxHandoffUsesRing == TxSpec => Spec
BY TxStepIsRingStep, PTL DEF TxSpec, TxInit, Spec

\* Where the reactor is, and that it will be woken.
TxIInv ==
  /\ IInv
  /\ rpc \in {"wait", "woken", "drained", "tx", "loop"}
  /\ rpc = "tx" <=> cpc # "idle"
  /\ NoLostWakeup

\* Every step of a producer or of the reactor preserves the invariant.
LEMMA TxNextIInv == TxIInv /\ [TxNext]_txVars => TxIInv'
<1> SUFFICES ASSUME TxIInv, [TxNext]_txVars PROVE TxIInv'
  BY Zenon
<1>0. IInv'
  BY TxStepIsRingStep, NextIInv, Zenon DEF TxIInv
<1> USE <1>0 DEF TxIInv, NoLostWakeup
<1>1. ASSUME NEW p \in Producers, NEW x \in Items, EnqueueTx(p, x) PROVE TxIInv'
  BY <1>1, Zenon DEF EnqueueTx, Enqueue, reactorVars, sharedVars, consumerVars, Slot
<1>2. ASSUME NEW p \in Producers, EnqueueStep(p) PROVE TxIInv'
  BY <1>2 DEF EnqueueStep, LoadTail, CheckFull, Claim, ClaimFails, Fill, reactorVars,
              sharedVars, consumerVars, Slot
<1>3. ASSUME NEW p \in Producers, EnqueueTrue(p) PROVE TxIInv'
  <2>1. waking' # {}
    BY <1>3, Zenon DEF EnqueueTrue
  <2>2. UNCHANGED <<rpc, cpc>>
    BY <1>3, Zenon DEF EnqueueTrue, Publish, consumerVars
  <2>3. QED BY <2>1, <2>2, Zenon
<1>4. ASSUME NEW p \in Producers, Wakeup(p) PROVE TxIInv'
  BY <1>4, Zenon DEF Wakeup, vars, consumerVars
<1>5. CASE WaitReturns
  BY <1>5, Zenon DEF WaitReturns, vars, consumerVars
<1>6. CASE DrainWakeup
  BY <1>6, Zenon DEF DrainWakeup, vars, consumerVars
<1>7. CASE ProcessTxQueue
  BY <1>7, Zenon DEF ProcessTxQueue, BeginDequeueAll
<1>8. CASE DequeueStep
  BY <1>8, Zenon DEF DequeueStep, ScanReady, TakePtr, ClearReady, reactorVars
<1>9. CASE ProcessTxQueueEnds
  <2>1. ~ready'[Slot(m_head)'] /\ rpc' = "loop" /\ cpc' = "idle"
    BY <1>9, Zenon DEF ProcessTxQueueEnds, EndDequeueAll, Slot
  <2>2. QED BY <2>1, Zenon
<1>10. CASE WaitAgain
  BY <1>10, Zenon DEF WaitAgain, vars, sharedVars, consumerVars, Slot
<1>11. CASE UNCHANGED txVars
  BY <1>11, Zenon DEF txVars, reactorVars, vars, sharedVars, consumerVars, Slot
<1>12. QED BY <1>1, <1>2, <1>3, <1>4, <1>5, <1>6, <1>7, <1>8, <1>9, <1>10, <1>11
           DEF TxNext, TxProducer, Reactor

LEMMA TxIInvInvariant == TxSpec => []TxIInv
<1>1. TxInit => TxIInv
  <2>1. TxInit => IInv
    BY InitIInv, Zenon DEF TxInit
  <2>2. TxInit => ~ready[Slot(m_head)]
    BY SlotType, Zenon DEF TxInit, Init
  <2>3. QED BY <2>1, <2>2, Zenon DEF TxInit, Init, TxIInv, NoLostWakeup
<1>2. QED BY <1>1, TxNextIInv, PTL DEF TxSpec

(***************************************************************************)
(* enqueueTx and the reactor's loop lose no wakeup, for any number of      *)
(* producers and any order in which they publish.                          *)
(***************************************************************************)
THEOREM TxNoLostWakeup == TxSpec => []NoLostWakeup
BY TxIInvInvariant, PTL DEF TxIInv

\* The eventfd, and the producers between enqueue and wakeup.
WakeTypes == eventFd \in BOOLEAN /\ waking \subseteq Producers

LEMMA WakeTypesInvariant == TxSpec => []WakeTypes
<1>1. TxInit => WakeTypes
  BY Zenon DEF TxInit, WakeTypes
<1>2. WakeTypes /\ [TxNext]_txVars => WakeTypes'
  <2> SUFFICES ASSUME WakeTypes, [TxNext]_txVars PROVE WakeTypes'
    BY Zenon
  <2> USE DEF WakeTypes
  <2>1. ASSUME NEW p \in Producers, NEW x \in Items, EnqueueTx(p, x) PROVE WakeTypes'
    BY <2>1, Zenon DEF EnqueueTx, reactorVars
  <2>2. ASSUME NEW p \in Producers, EnqueueStep(p) PROVE WakeTypes'
    BY <2>2, Zenon DEF EnqueueStep, reactorVars
  <2>3. ASSUME NEW p \in Producers, EnqueueTrue(p) \/ Wakeup(p) PROVE WakeTypes'
    BY <2>3, Zenon DEF EnqueueTrue, Wakeup
  <2>4. CASE Reactor \/ UNCHANGED txVars
    BY <2>4, Zenon DEF Reactor, WaitReturns, DrainWakeup, ProcessTxQueue, DequeueStep,
       ProcessTxQueueEnds, WaitAgain, txVars, reactorVars
  <2>5. QED BY <2>1, <2>2, <2>3, <2>4, Zenon DEF TxNext, TxProducer
<1>3. QED BY <1>1, <1>2, PTL DEF TxSpec

(***************************************************************************)
(* Types of the ring and of the reactor's loop; the reactor dequeues only  *)
(* in processTxQueue.                                                      *)
(***************************************************************************)
THEOREM TxTypeCorrect == TxSpec => []TxTypeOK
<1>1. TxIInv /\ WakeTypes => TxTypeOK
  BY Zenon DEF TxIInv, WakeTypes, TxTypeOK, IInv
<1>2. QED BY <1>1, TxIInvInvariant, WakeTypesInvariant, PTL
-----------------------------------------------------------------------------
(***************************************************************************)
(* Lifecycle.  A thread that runs is known to somebody: until stopAll has  *)
(* taken its snapshot it is in m_threads or about to be put there, and     *)
(* then it is still to be joined.  This needs that nothing is added once   *)
(* startThreads is over: the threads that add have left their start().     *)
(***************************************************************************)
Live(t) == tpc[t] \notin {"none", "done"}

Waiting(t) == t \in Range(m_threads) \/ \E a \in Adders : pending[a] = t

SnapshotTaken == mpc \in {"stop", "wake", "join", "done"}

LifeIInv ==
  /\ m_threads \in Seq(Threads) /\ joins \in Seq(Threads)
  /\ pending \in [Adders -> Threads \cup {None}]
  /\ added \in [Adders -> Nat]
  /\ DOMAIN tpc = Threads
  /\ mpc \in {"add", "sleep", "addClient", "stopAll", "stop", "wake", "join", "done"}
  /\ mpc = "add" /\ added[Main] = 0 =>
       (\A t \in Threads : ~Live(t)) /\ (\A a \in Adders : pending[a] = None)
  /\ mpc \notin {"add", "sleep"} =>
       \A a \in Adders \ {Main} : pending[a] = None /\ tpc[a] \notin {"start", "adding"}
  /\ mpc \notin {"add", "sleep", "addClient"} => pending[Main] = None
  /\ ~SnapshotTaken => \A t \in Threads : Live(t) => Waiting(t)
  /\ SnapshotTaken => \A t \in Threads : Live(t) => t \in Range(joins)
  /\ mpc = "done" => joins = << >>

\* It holds at first.
LEMMA LifeInitially == LifeInit => LifeIInv
BY LifecycleAssumption DEF LifeInit, LifeIInv, Live, SnapshotTaken, Adders

\* No thread begins to run; nothing is added and the main thread does not move.
Lives == UNCHANGED <<addVars, mainVars>> /\ \A u \in Threads : Live(u)' => Live(u)

\* A thread that runs goes on, or ends; only its start() leads to adding.
LEMMA ThreadMoves ==
  ASSUME LifeIInv, NEW t \in Threads, NEW l, MoveTo(t, l), Live(t), l # "none", l # "start",
         l = "adding" => tpc[t] = "start", UNCHANGED <<addVars, mainVars>>
  PROVE  LifeIInv' /\ Lives
<1>1. /\ tpc' = [tpc EXCEPT ![t] = l]
      /\ UNCHANGED <<added, pending, m_threads, mpc, targets, joins, stopped>>
  BY Zenon DEF MoveTo, addVars, mainVars
<1>2. DOMAIN tpc' = Threads /\ tpc'[t] = l /\ \A u \in Threads \ {t} : tpc'[u] = tpc[u]
  BY <1>1, Zenon DEF LifeIInv
<1>3. \A u \in Threads : Live(u)' => Live(u)
  BY <1>2, Zenon DEF Live
<1>4. ~(mpc = "add" /\ added[Main] = 0)
  BY Zenon DEF LifeIInv
<1>5. \A a \in Adders \ {Main} : tpc[a] \notin {"start", "adding"} => tpc'[a] \notin {"start", "adding"}
  BY <1>2, Zenon DEF Adders, Threads
<1>6. SnapshotTaken' = SnapshotTaken /\ \A u : Waiting(u) => Waiting(u)'
  BY <1>1, Zenon DEF SnapshotTaken, Waiting
<1>7. LifeIInv'
  BY <1>1, <1>2, <1>3, <1>4, <1>5, <1>6, Zenon DEF LifeIInv
<1> QED  BY <1>3, <1>7, Zenon DEF Lives

\* The steps of the threads
LEMMA ThreadSteps ==
  ASSUME LifeIInv, NEW t \in Threads, ThreadStep(t) \/ WokenByTraffic(t)
  PROVE  LifeIInv' /\ Lives
<1>1. UNCHANGED <<addVars, mainVars>>
  BY Zenon DEF ThreadStep, ServerStart, ReactorStart, ReactorFails, ShardStart, CheckRunning, Woken,
         SleepEnds, WokenByTraffic
<1>2. \E l : /\ MoveTo(t, l) /\ Live(t) /\ l # "none" /\ l # "start"
             /\ l = "adding" => tpc[t] = "start"
  <2>1. CASE ServerStart(t)
    BY <2>1, Zenon DEF ServerStart, Live
  <2>2. CASE MoveTo(t, "loop") /\ Live(t)
    BY <2>2
  <2>3. CASE MoveTo(t, "done") /\ Live(t)
    BY <2>3
  <2>4. CASE CheckRunning(t)
    BY <2>4 DEF CheckRunning, Live
  <2> QED
    BY <2>1, <2>2, <2>3, <2>4
       DEF ThreadStep, ReactorStart, ReactorFails, ShardStart, Woken, SleepEnds, WokenByTraffic, Live
<1> QED  BY <1>1, <1>2, ThreadMoves, Zenon

\* and those of the managers and of the client keep it.
LEMMA ManagerSteps ==
  ASSUME LifeIInv, ManagerStep \/ ClientStep \/ LoginEnds \/ LobbyEnds
  PROVE  LifeIInv' /\ Lives
<1>1. UNCHANGED <<addVars, mainVars>>
  BY DEF ManagerStep, ShardManagerStart, ShardManagerWaits, SessionManagerStart, ClientStep,
         ClientConnect, ClientFails, LoginFails, LoginEnds, ClientPing, LobbyFails, LobbyEnds
<1>2. \E t \in {ShardManager, SessionManager, Client}, l \in {"adding", "loop", "login", "lobby", "done"} :
        MoveTo(t, l) /\ Live(t) /\ (l = "adding" => tpc[t] = "start")
  BY DEF ManagerStep, ShardManagerStart, ShardManagerWaits, SessionManagerStart, ClientStep,
         ClientConnect, ClientFails, LoginFails, LoginEnds, ClientPing, LobbyFails, LobbyEnds, Live
<1> QED  BY <1>1, <1>2, ThreadMoves, Zenon DEF Threads

\* Who adds: the main thread, or one whose start() has begun.
LEMMA WhoAdds ==
  ASSUME LifeIInv, NEW a \in Adders, Adding(a)
  PROVE  /\ NextThread(a) \in Threads /\ mpc \in {"add", "sleep", "addClient"}
         /\ mpc = "addClient" => a = Main /\ NextThread(a) = Client
         /\ mpc = "add" /\ added[Main] = 0 => a = Main
<1>1. NextThread(a) \in Threads
  BY LifecycleAssumption DEF Adding, NextThread, LifeIInv
<1>2. CASE a = Main
  BY <1>1, <1>2, Zenon DEF Adding
<1>3. CASE a # Main
  <2>1. tpc[a] = "adding" /\ a \in Threads
    BY <1>3, Zenon DEF Adding, Adders, Threads
  <2>2. mpc \in {"add", "sleep"}
    BY <1>3, <2>1, Zenon DEF LifeIInv
  <2>3. ~(mpc = "add" /\ added[Main] = 0)
    BY <2>1, Zenon DEF LifeIInv, Live
  <2> QED  BY <1>1, <2>2, <2>3, Zenon
<1> QED  BY <1>2, <1>3, Zenon

\* ThreadManager::addThread creates a thread: it waits to be registered.
LEMMA CreateStep ==
  ASSUME LifeIInv, NEW a \in Adders, CreateThread(a)  PROVE LifeIInv'
<1> PICK t : t = NextThread(a)
  BY Zenon
<1>1. /\ Adding(a) /\ UNCHANGED <<m_threads, mpc, joins>>
      /\ tpc' = [tpc EXCEPT ![t] = IF t \in Workers THEN "loop" ELSE "start"]
      /\ added' = [added EXCEPT ![a] = @ + 1] /\ pending' = [pending EXCEPT ![a] = t]
  BY Zenon DEF CreateThread, mainVars
<1>2. /\ t \in Threads /\ mpc \in {"add", "sleep", "addClient"}
      /\ mpc = "addClient" => a = Main /\ t = Client
      /\ mpc = "add" /\ added[Main] = 0 => a = Main
  BY <1>1, WhoAdds, Zenon
<1>3. pending[a] = None
  BY <1>1, Zenon DEF Adding
<1>4. added' \in [Adders -> Nat] /\ pending' \in [Adders -> Threads \cup {None}] /\ DOMAIN tpc' = Threads
  BY <1>1, <1>2 DEF LifeIInv
<1>5. ~(mpc = "add" /\ added'[Main] = 0)
  <2>1. Main \in Adders
    BY Zenon DEF Adders
  <2>2. added[Main] \in Nat /\ (a = Main => added'[Main] = added[Main] + 1)
                            /\ (a # Main => added'[Main] = added[Main])
    BY <1>1, <2>1, Zenon DEF LifeIInv
  <2> QED  BY <1>2, <2>2
<1>6. mpc \notin {"add", "sleep"} =>
        \A d \in Adders \ {Main} : pending'[d] = None /\ tpc'[d] \notin {"start", "adding"}
  <2>1. SUFFICES ASSUME mpc = "addClient", NEW d \in Adders \ {Main}
                 PROVE  pending'[d] = None /\ tpc'[d] \notin {"start", "adding"}
    BY <1>2, Zenon
  <2>2. d # a /\ d # t /\ d \in Threads
    BY <1>2, <2>1, LifecycleAssumption, Zenon DEF Adders, Threads
  <2>3. pending[d] = None /\ tpc[d] \notin {"start", "adding"}
    BY <2>1, Zenon DEF LifeIInv
  <2> QED  BY <1>1, <2>2, <2>3, Zenon DEF LifeIInv
<1>7. ASSUME NEW u \in Threads, Live(u)'  PROVE Waiting(u)'
  <2>1. CASE u = t
    <3>1. pending'[a] = t
      BY <1>1, Zenon DEF LifeIInv
    <3> QED  BY <2>1, <3>1, Zenon DEF Waiting
  <2>2. CASE u # t
    <3>1. tpc'[u] = tpc[u]
      BY <1>1, <2>2, Zenon DEF LifeIInv
    <3>2. Waiting(u)
      BY <1>2, <1>7, <3>1, Zenon DEF LifeIInv, Live, SnapshotTaken
    <3>3. \A d \in Adders : pending[d] = u => pending'[d] = u
      BY <1>1, <1>3, LifecycleAssumption, Zenon DEF LifeIInv
    <3> QED  BY <1>1, <3>2, <3>3, Zenon DEF Waiting
  <2> QED  BY <2>1, <2>2, Zenon
<1>8. ~SnapshotTaken'
  BY <1>1, <1>2, Zenon DEF SnapshotTaken
<1> QED
  BY <1>1, <1>2, <1>4, <1>5, <1>6, <1>7, <1>8, Zenon DEF LifeIInv

\* A worker that could not be opened does not run.
LEMMA WorkerFailsStep ==
  ASSUME LifeIInv, NEW a \in Adders, WorkerFails(a)  PROVE LifeIInv'
<1> PICK t : t = NextThread(a)
  BY Zenon
<1>1. /\ Adding(a) /\ UNCHANGED <<m_threads, mpc, joins, pending>>
      /\ tpc' = [tpc EXCEPT ![t] = "done"] /\ added' = [added EXCEPT ![a] = @ + 1]
  BY Zenon DEF WorkerFails, mainVars
<1>2. t \in Threads
  BY <1>1, WhoAdds, Zenon
<1>3. added' \in [Adders -> Nat] /\ DOMAIN tpc' = Threads
  BY <1>1 DEF LifeIInv
<1>4. \A u \in Threads : tpc'[u] \in {tpc[u], "done"}
  BY <1>1, Zenon DEF LifeIInv
<1>5. \A u \in Threads : Live(u)' => Live(u)
  BY <1>4, Zenon DEF Live
<1>6. \A d \in Adders \ {Main} : tpc[d] \notin {"start", "adding"} => tpc'[d] \notin {"start", "adding"}
  BY <1>4, Zenon DEF Adders, Threads
<1>7. added'[Main] = 0 => added[Main] = 0
  BY <1>1 DEF LifeIInv, Adders
<1>8. SnapshotTaken' = SnapshotTaken /\ \A u : Waiting(u) => Waiting(u)'
  BY <1>1, Zenon DEF SnapshotTaken, Waiting
<1> QED
  BY <1>1, <1>3, <1>5, <1>6, <1>7, <1>8, Zenon DEF LifeIInv

\* It is registered: from pending into m_threads.
LEMMA RegisterStep ==
  ASSUME LifeIInv, NEW a \in Adders, Register(a)  PROVE LifeIInv'
<1>1. /\ UNCHANGED <<added, tpc, mpc, joins>> /\ pending[a] # None
      /\ m_threads' = Append(m_threads, pending[a])
      /\ pending' = [pending EXCEPT ![a] = None]
  BY Zenon DEF Register, threadVars, mainVars
<1>2. pending[a] \in Threads
  BY <1>1, Zenon DEF LifeIInv
<1>3. m_threads' \in Seq(Threads) /\ Range(m_threads') = Range(m_threads) \cup {pending[a]}
  BY <1>1, <1>2, ElementsOfAppend DEF LifeIInv
<1>4. /\ pending' \in [Adders -> Threads \cup {None}]
      /\ \A d \in Adders : pending[d] = None => pending'[d] = None
      /\ \A d \in Adders \ {a} : pending'[d] = pending[d]
  BY <1>1, Zenon DEF LifeIInv
<1>5. \A u : Waiting(u) => Waiting(u)'
  BY <1>3, <1>4, Zenon DEF Waiting
<1>6. SnapshotTaken' = SnapshotTaken /\ \A u : Live(u)' = Live(u)
  BY <1>1, Zenon DEF SnapshotTaken, Live
<1>7. Main \in Adders
  BY Zenon DEF Adders
<1> QED
  BY <1>1, <1>3, <1>4, <1>5, <1>6, <1>7, Zenon DEF LifeIInv

\* A step of the main thread that changes only where it is.
LEMMA MainMoves ==
  ASSUME LifeIInv, RunReturns \/ StartSleep \/ StartSleepEnds \/ WaitForShutdown \/ StopsDone
  PROVE  LifeIInv'
<1>1. UNCHANGED <<tpc, added, pending, m_threads, joins>>
  BY Zenon DEF RunReturns, StartSleep, StartSleepEnds, WaitForShutdown, StopsDone, threadVars, addVars
<1>2. (\A u : Live(u)' = Live(u)) /\ (\A u : Waiting(u)' = Waiting(u))
  BY <1>1, Zenon DEF Live, Waiting
<1>3. CASE RunReturns
  <2>1. mpc = "add" /\ added[Main] = 0 /\ mpc' = "stopAll"
    BY <1>3, Zenon DEF RunReturns
  <2>2. (\A t \in Threads : ~Live(t)) /\ (\A a \in Adders : pending[a] = None)
    BY <2>1, Zenon DEF LifeIInv
  <2>3. \A a \in Adders \ {Main} : tpc[a] \notin {"start", "adding"}
    BY <2>2, Zenon DEF Live, Adders, Threads
  <2>4. Main \in Adders
    BY Zenon DEF Adders
  <2> QED  BY <1>1, <1>2, <2>1, <2>2, <2>3, <2>4, Zenon DEF LifeIInv, SnapshotTaken
<1>4. CASE StartSleep
  BY <1>1, <1>2, <1>4, Zenon DEF StartSleep, LifeIInv, SnapshotTaken
<1>5. CASE StartSleepEnds
  <2>1. /\ mpc = "sleep" /\ mpc' = "addClient" /\ \A a \in Adders : pending[a] = None
        /\ \A t \in Threads : Started(t)
    BY <1>5, Zenon DEF StartSleepEnds
  <2>2. \A a \in Adders \ {Main} : tpc[a] \notin {"start", "adding"}
    BY <2>1, LifecycleAssumption, Zenon DEF Started, Adders, Threads
  <2> QED  BY <1>1, <1>2, <2>1, <2>2, Zenon DEF LifeIInv, SnapshotTaken
<1>6. CASE WaitForShutdown
  BY <1>1, <1>2, <1>6, Zenon DEF WaitForShutdown, HasAdded, LifeIInv, SnapshotTaken
<1>7. CASE StopsDone
  BY <1>1, <1>2, <1>7, Zenon DEF StopsDone, LifeIInv, SnapshotTaken
<1> QED  BY <1>3, <1>4, <1>5, <1>6, <1>7, Zenon

\* ThreadManager::stopAll
LEMMA StopAllSteps ==
  ASSUME LifeIInv, TakeSnapshot \/ CallStopFunc \/ StopFlag \/ StopWakeup \/ Join \/ AllJoined
  PROVE  LifeIInv'
<1>1. UNCHANGED <<tpc, added, pending>>
  BY Zenon DEF TakeSnapshot, CallStopFunc, StopFlag, StopWakeup, Join, AllJoined, threadVars, addVars
<1>2. \A u : Live(u)' = Live(u)
  BY <1>1, Zenon DEF Live
<1>3. CASE TakeSnapshot
  <2>1. mpc = "stopAll" /\ mpc' = "stop" /\ joins' = m_threads /\ m_threads' = << >>
    BY <1>3, Zenon DEF TakeSnapshot
  <2>2. \A a \in Adders : pending[a] = None
    BY <2>1, Zenon DEF LifeIInv
  <2>3. \A t \in Threads : Live(t) => t \in Range(joins')
    <3>1. \A t \in Threads : Live(t) => Waiting(t)
      BY <2>1, Zenon DEF LifeIInv, SnapshotTaken
    <3>2. None \notin Threads
      BY LifecycleAssumption, Zenon
    <3> QED  BY <2>1, <2>2, <3>1, <3>2, Zenon DEF Waiting
  <2>4. m_threads' \in Seq(Threads) /\ joins' \in Seq(Threads)
    BY <2>1 DEF LifeIInv
  <2> QED  BY <1>1, <1>2, <2>1, <2>3, <2>4, Zenon DEF LifeIInv, SnapshotTaken
<1>4. CASE CallStopFunc \/ StopFlag \/ StopWakeup
  <2>1. mpc \in {"stop", "wake"} /\ mpc' \in {"stop", "wake"} /\ UNCHANGED <<joins, m_threads>>
    BY <1>4, Zenon DEF CallStopFunc, StopFlag, StopWakeup, addVars
  <2> QED  BY <1>1, <1>2, <2>1, Zenon DEF LifeIInv, SnapshotTaken
<1>5. CASE Join
  <2>1. /\ mpc = "join" /\ mpc' = "join" /\ joins # << >> /\ joins' = Tail(joins)
        /\ tpc[Head(joins)] = "done" /\ m_threads' = m_threads
    BY <1>5, Zenon DEF Join, addVars
  <2>2. joins' \in Seq(Threads) /\ Range(joins) = {Head(joins)} \cup Range(joins')
    BY <2>1, ElementsOfTail, Zenon DEF LifeIInv
  <2>3. \A t \in Threads : Live(t) => t \in Range(joins')
    BY <2>1, <2>2, Zenon DEF LifeIInv, SnapshotTaken, Live
  <2> QED  BY <1>1, <1>2, <2>1, <2>2, <2>3, Zenon DEF LifeIInv, SnapshotTaken
<1>6. CASE AllJoined
  <2>1. mpc = "join" /\ mpc' = "done" /\ joins = << >> /\ UNCHANGED <<joins, m_threads>>
    BY <1>6, Zenon DEF AllJoined, addVars
  <2> QED  BY <1>1, <1>2, <2>1, Zenon DEF LifeIInv, SnapshotTaken
<1> QED  BY <1>3, <1>4, <1>5, <1>6, Zenon

\* Every step keeps it.
LEMMA LifeStep == LifeIInv /\ [LifeNext]_lifeVars => LifeIInv'
<1> SUFFICES ASSUME LifeIInv, [LifeNext]_lifeVars  PROVE LifeIInv'
  BY Zenon
<1>1. CASE UNCHANGED lifeVars
  BY <1>1, Zenon DEF lifeVars, threadVars, addVars, mainVars, LifeIInv, Live, Waiting, SnapshotTaken
<1>2. CASE \E t \in Threads : ThreadStep(t) \/ WokenByTraffic(t) \/ SleepsAgain(t)
  BY <1>1, <1>2, ThreadSteps, Zenon DEF SleepsAgain
<1>3. CASE \E a \in Adders : AddStep(a)
  BY <1>3, CreateStep, WorkerFailsStep, RegisterStep, Zenon DEF AddStep
<1>4. CASE ManagerStep \/ ClientStep \/ LoginEnds \/ LobbyEnds
  BY <1>4, ManagerSteps, Zenon
<1>5. CASE MainStep \/ RunReturns \/ WaitForShutdown
  BY <1>5, MainMoves, StopAllSteps, Zenon DEF MainStep
<1>6. CASE Terminated
  BY <1>1, <1>6, Zenon DEF Terminated
<1> QED  BY <1>1, <1>2, <1>3, <1>4, <1>5, <1>6, Zenon DEF LifeNext

(***************************************************************************)
(* When Core::shutdown says that all threads have terminated they have:    *)
(* stopAll's snapshot misses none, whoever added it.                       *)
(***************************************************************************)
THEOREM LifeAllThreadsEnded == LifeSpec => []AllThreadsEnded
<1>1. LifeIInv => AllThreadsEnded
  <2> SUFFICES ASSUME LifeIInv, mpc = "done", NEW t \in Threads, Live(t)  PROVE FALSE
    BY Zenon DEF AllThreadsEnded, Live
  <2>1. t \in Range(joins) /\ joins = << >>
    BY Zenon DEF LifeIInv, SnapshotTaken
  <2> QED  BY <2>1 DEF Range
<1> QED  BY <1>1, LifeInitially, LifeStep, PTL DEF LifeSpec

(***************************************************************************)
(* stopAll tells every thread that it has found.  A thread stands in the   *)
(* list of stop functions itself, or, if it is a worker, its server does,  *)
(* also when the server has ended because its reactor could not start.     *)
(***************************************************************************)
WillStop(s, t) == t \in Range(StopFunc(s))

Reached(t) == t \in stopped \/ t \in Range(targets) \/ \E s \in Range(stops) : WillStop(s, t)

ToldInv ==
  /\ stops \in Seq(Threads) /\ targets \in Seq(Threads)
  /\ ~SnapshotTaken => \A t \in Threads : Live(t) => \E s \in Threads : WillStop(s, t) /\ Waiting(s)
  /\ SnapshotTaken => \A t \in Threads : Live(t) => Reached(t)
  /\ mpc = "wake" => targets # << >> /\ Head(targets) \in stopped
  /\ mpc \in {"join", "done"} => targets = << >> /\ stops = << >>

\* A stop function stops threads,
LEMMA StopFuncType == ASSUME NEW s \in Threads PROVE StopFunc(s) \in Seq(Threads)
<1>1. CASE s \in Servers
  <2>1. Adds[s] \in Seq(Threads) /\ <<s>> \in Seq(Threads)
    BY <1>1, LifecycleAssumption DEF Adders
  <2> QED  BY <1>1, <2>1, LifecycleAssumption DEF StopFunc
<1>2. CASE s \notin Servers
  BY <1>2 DEF StopFunc
<1> QED  BY <1>1, <1>2, Zenon

\* among them its own, unless that is a worker,
LEMMA StopsItself == ASSUME NEW s \in Threads, s \notin Workers PROVE WillStop(s, s)
<1>1. CASE s \in Servers
  <2>1. Adds[s] \in Seq(Threads)
    BY <1>1, LifecycleAssumption, Zenon DEF Adders
  <2>2. StopFunc(s) = <<s>> \o Adds[s]
    BY <1>1, Zenon DEF StopFunc
  <2>3. StopFunc(s)[1] = s /\ 1 \in DOMAIN StopFunc(s)
    BY <2>1, <2>2
  <2> QED  BY <2>3, Zenon DEF WillStop, Range
<1>2. CASE s \notin Servers
  <2>1. StopFunc(s) = <<s>>
    BY <1>2, Zenon DEF StopFunc
  <2> QED  BY <2>1 DEF WillStop, Range
<1> QED  BY <1>1, <1>2, Zenon

\* and those that the server has added.
LEMMA StopsAdded ==
  ASSUME NEW s \in Servers, NEW i \in 1..Len(Adds[s])
  PROVE  WillStop(s, Adds[s][i])
<1>1. Adds[s] \in Seq(Threads) /\ s \notin Workers
  BY LifecycleAssumption, Zenon DEF Adders
<1>2. StopFunc(s) = <<s>> \o Adds[s]
  BY <1>1, Zenon DEF StopFunc
<1>3. StopFunc(s)[i + 1] = Adds[s][i] /\ i + 1 \in DOMAIN StopFunc(s)
  BY <1>1, <1>2
<1> QED  BY <1>3, Zenon DEF WillStop, Range

\* A step that creates no thread and calls no stop function keeps this.
LEMMA ToldKept ==
  ASSUME ToldInv, UNCHANGED <<stops, targets, stopped>>, SnapshotTaken' = SnapshotTaken,
         mpc' = "wake" => mpc = "wake",
         mpc' \in {"join", "done"} => mpc \in {"join", "done"} \/ (targets = << >> /\ stops = << >>),
         \A u \in Threads : Live(u)' => Live(u), \A u \in Threads : Waiting(u) => Waiting(u)'
  PROVE  ToldInv'
<1>1. \A u \in Threads : Reached(u) => Reached(u)'
  BY Zenon DEF Reached
<1> QED  BY <1>1, Zenon DEF ToldInv

\* The steps of the threads do.
LEMMA ToldLives == ASSUME ToldInv, Lives PROVE ToldInv'
<1>1. UNCHANGED <<mpc, stops, targets, stopped, m_threads, pending>> /\ \A u \in Threads : Live(u)' => Live(u)
  BY Zenon DEF Lives, addVars, mainVars
<1>2. SnapshotTaken' = SnapshotTaken /\ \A u \in Threads : Waiting(u) => Waiting(u)'
  BY <1>1, Zenon DEF SnapshotTaken, Waiting
<1> QED  BY <1>1, <1>2, ToldKept, Zenon

\* A thread that is created waits to be registered, or its server does already.
LEMMA ToldCreate ==
  ASSUME LifeIInv, ToldInv, NEW a \in Adders, CreateThread(a)  PROVE ToldInv'
<1> PICK t : t = NextThread(a)
  BY Zenon
<1>1. /\ Adding(a) /\ UNCHANGED <<m_threads, mpc, stops, targets, stopped>>
      /\ tpc' = [tpc EXCEPT ![t] = IF t \in Workers THEN "loop" ELSE "start"]
      /\ pending' = [pending EXCEPT ![a] = t]
  BY Zenon DEF CreateThread, mainVars
<1>2. t \in Threads /\ mpc \in {"add", "sleep", "addClient"} /\ pending[a] = None
  BY <1>1, WhoAdds, Zenon DEF Adding
<1>3. ~SnapshotTaken /\ ~SnapshotTaken'
  BY <1>1, <1>2, Zenon DEF SnapshotTaken
<1>4. \A u \in Threads : Waiting(u) => Waiting(u)'
  <2>1. \A d \in Adders : \A u \in Threads : pending[d] = u => pending'[d] = u
    BY <1>1, <1>2, LifecycleAssumption, Zenon DEF LifeIInv
  <2> QED  BY <1>1, <2>1, Zenon DEF Waiting
<1>5. Waiting(t)'
  <2>1. pending'[a] = t
    BY <1>1, Zenon DEF LifeIInv
  <2> QED  BY <2>1, Zenon DEF Waiting
<1>6. \E s \in Threads : WillStop(s, t) /\ Waiting(s)'
  <2>1. CASE t \notin Workers
    BY <1>2, <1>5, <2>1, StopsItself, Zenon
  <2>2. CASE t \in Workers
    <3>1. added[a] + 1 \in 1..Len(Adds[a]) /\ t = Adds[a][added[a] + 1]
      <4>1. added[a] \in Nat /\ Len(Adds[a]) \in Nat /\ added[a] < Len(Adds[a])
        BY <1>1, LifecycleAssumption DEF LifeIInv, Adding
      <4> QED  BY <4>1 DEF NextThread
    <3>2. a \in Servers
      BY <2>2, <3>1, LifecycleAssumption, Zenon
    <3>3. a \in Threads /\ a # Main
      BY <3>2, LifecycleAssumption, Zenon DEF Threads
    <3>4. Live(a)
      BY <1>1, <3>3, Zenon DEF Adding, Live
    <3>5. Waiting(a)'
      BY <1>3, <1>4, <3>3, <3>4, Zenon DEF LifeIInv
    <3>6. WillStop(a, t)
      BY <3>1, <3>2, StopsAdded, Zenon
    <3> QED  BY <3>3, <3>5, <3>6, Zenon
  <2> QED  BY <2>1, <2>2, Zenon
<1>7. \A u \in Threads : u # t => (Live(u)' => Live(u))
  BY <1>1, Zenon DEF Live, LifeIInv
<1>8. \A u \in Threads : Live(u)' => \E s \in Threads : WillStop(s, u) /\ Waiting(s)'
  BY <1>3, <1>4, <1>6, <1>7, Zenon DEF ToldInv
<1>9. mpc' \notin {"wake", "join", "done"}
  BY <1>1, <1>2, Zenon
<1> QED  BY <1>1, <1>3, <1>8, <1>9, Zenon DEF ToldInv, WillStop

\* What is registered, or could not be opened, changes nothing of this,
LEMMA ToldAdded ==
  ASSUME LifeIInv, ToldInv, NEW a \in Adders, WorkerFails(a) \/ Register(a)  PROVE ToldInv'
<1>1. UNCHANGED <<mpc, stops, targets, stopped>>
  BY Zenon DEF WorkerFails, Register, mainVars
<1>2. SnapshotTaken' = SnapshotTaken
  BY <1>1, Zenon DEF SnapshotTaken
<1>3. CASE WorkerFails(a)
  <2>1. tpc' = [tpc EXCEPT ![NextThread(a)] = "done"] /\ UNCHANGED <<m_threads, pending>>
    BY <1>3, Zenon DEF WorkerFails
  <2>2. \A u \in Threads : Live(u)' => Live(u)
    BY <2>1, Zenon DEF Live, LifeIInv
  <2>3. \A u \in Threads : Waiting(u) => Waiting(u)'
    BY <2>1, Zenon DEF Waiting
  <2> QED  BY <1>1, <1>2, <2>2, <2>3, ToldKept, Zenon
<1>4. CASE Register(a)
  <2>1. /\ m_threads' = Append(m_threads, pending[a]) /\ tpc' = tpc /\ pending[a] # None
        /\ pending' = [pending EXCEPT ![a] = None]
    BY <1>4, Zenon DEF Register, threadVars
  <2>2. pending[a] \in Threads
    BY <2>1, Zenon DEF LifeIInv
  <2>3. Range(m_threads') = Range(m_threads) \cup {pending[a]}
    BY <2>1, <2>2, ElementsOfAppend DEF LifeIInv
  <2>4. \A d \in Adders \ {a} : pending'[d] = pending[d]
    BY <2>1, Zenon DEF LifeIInv
  <2>5. \A u \in Threads : Waiting(u) => Waiting(u)'
    BY <2>3, <2>4, Zenon DEF Waiting
  <2>6. \A u \in Threads : Live(u)' => Live(u)
    BY <2>1, Zenon DEF Live
  <2> QED  BY <1>1, <1>2, <2>5, <2>6, ToldKept, Zenon
<1> QED  BY <1>3, <1>4, Zenon

\* nor do the steps of the main thread that tell none.
LEMMA ToldMain ==
  ASSUME ToldInv, \/ RunReturns \/ StartSleep \/ StartSleepEnds \/ WaitForShutdown
                  \/ StopsDone \/ Join \/ AllJoined
  PROVE  ToldInv'
<1>1. UNCHANGED <<tpc, m_threads, pending, stops, targets, stopped>>
  BY Zenon DEF RunReturns, StartSleep, StartSleepEnds, WaitForShutdown, StopsDone, Join, AllJoined,
               threadVars, addVars
<1>2. /\ SnapshotTaken' = SnapshotTaken /\ mpc' # "wake"
      /\ mpc' \in {"join", "done"} => mpc \in {"join", "done"} \/ (targets = << >> /\ stops = << >>)
  BY DEF RunReturns, StartSleep, StartSleepEnds, WaitForShutdown, StopsDone, Join, AllJoined,
         SnapshotTaken
<1>3. \A u \in Threads : (Live(u)' => Live(u)) /\ (Waiting(u) => Waiting(u)')
  BY <1>1, Zenon DEF Live, Waiting
<1> QED  BY <1>1, <1>2, <1>3, ToldKept, Zenon

\* stopAll calls the stop functions of its snapshot, each for what it stops.
LEMMA ToldStops ==
  ASSUME LifeIInv, ToldInv, TakeSnapshot \/ CallStopFunc \/ StopFlag \/ StopWakeup
  PROVE  ToldInv'
<1>1. tpc' = tpc
  BY Zenon DEF TakeSnapshot, CallStopFunc, StopFlag, StopWakeup, threadVars
<1>2. \A u : Live(u)' = Live(u)
  BY <1>1, Zenon DEF Live
<1>3. CASE TakeSnapshot
  <2>1. /\ mpc = "stopAll" /\ mpc' = "stop" /\ stops' = m_threads /\ targets' = targets
        /\ m_threads \in Seq(Threads)
    BY <1>3, Zenon DEF TakeSnapshot, LifeIInv
  <2>2. \A a \in Adders : pending[a] = None
    BY <2>1, Zenon DEF LifeIInv
  <2>3. \A s \in Threads : Waiting(s) => s \in Range(stops')
    BY <2>1, <2>2, LifecycleAssumption, Zenon DEF Waiting
  <2>4. \A t \in Threads : Live(t) => Reached(t)'
    BY <2>1, <2>3, Zenon DEF ToldInv, SnapshotTaken, Reached, WillStop
  <2> QED  BY <1>2, <2>1, <2>4, Zenon DEF ToldInv, SnapshotTaken
<1>4. CASE CallStopFunc
  <2>1. /\ mpc = "stop" /\ mpc' = "stop" /\ targets = << >> /\ stops # << >> /\ stopped' = stopped
        /\ targets' = StopFunc(Head(stops)) /\ stops' = Tail(stops)
    BY <1>4, Zenon DEF CallStopFunc
  <2>2. stops \in Seq(Threads)
    BY Zenon DEF ToldInv
  <2>3. Tail(stops) \in Seq(Threads) /\ Range(stops) = {Head(stops)} \cup Range(Tail(stops))
    BY <2>1, <2>2, ElementsOfTail, Zenon
  <2>4. Head(stops) \in Threads
    BY <2>1, <2>2
  <2>5. targets' \in Seq(Threads) /\ stops' \in Seq(Threads)
    BY <2>1, <2>3, <2>4, StopFuncType, Zenon
  <2>6. \A t : t \notin Range(targets)
    BY <2>1 DEF Range
  <2>7. \A t \in Threads : Reached(t) => Reached(t)'
    BY <2>1, <2>3, <2>6, Zenon DEF Reached, WillStop
  <2> QED  BY <1>2, <2>1, <2>5, <2>7, Zenon DEF ToldInv, SnapshotTaken
<1>5. CASE StopFlag
  <2>1. /\ mpc = "stop" /\ mpc' = "wake" /\ targets # << >> /\ UNCHANGED <<targets, stops>>
        /\ stopped' = stopped \cup {Head(targets)}
    BY <1>5, Zenon DEF StopFlag
  <2>2. \A t \in Threads : Reached(t) => Reached(t)'
    BY <2>1, Zenon DEF Reached, WillStop
  <2> QED  BY <1>2, <2>1, <2>2, Zenon DEF ToldInv, SnapshotTaken
<1>6. CASE StopWakeup
  <2>1. /\ mpc = "wake" /\ mpc' = "stop" /\ UNCHANGED <<stopped, stops>>
        /\ targets' = Tail(targets)
    BY <1>6, Zenon DEF StopWakeup
  <2>2. targets \in Seq(Threads) /\ targets # << >> /\ Head(targets) \in stopped
    BY <2>1, Zenon DEF ToldInv
  <2>3. Tail(targets) \in Seq(Threads) /\ Range(targets) = {Head(targets)} \cup Range(Tail(targets))
    BY <2>2, ElementsOfTail, Zenon
  <2>4. \A t \in Threads : Reached(t) => Reached(t)'
    BY <2>1, <2>2, <2>3, Zenon DEF Reached, WillStop
  <2> QED  BY <1>2, <2>1, <2>3, <2>4, Zenon DEF ToldInv, SnapshotTaken
<1> QED  BY <1>3, <1>4, <1>5, <1>6, Zenon

\* Every step keeps it.
LEMMA ToldStep == LifeIInv /\ ToldInv /\ [LifeNext]_lifeVars => ToldInv'
<1> SUFFICES ASSUME LifeIInv, ToldInv, [LifeNext]_lifeVars  PROVE ToldInv'
  BY Zenon
<1>1. CASE UNCHANGED lifeVars
  <2>1. Lives
    BY <1>1, Zenon DEF lifeVars, threadVars, Lives, Live
  <2> QED  BY <2>1, ToldLives, Zenon
<1>2. CASE \E t \in Threads : ThreadStep(t) \/ WokenByTraffic(t) \/ SleepsAgain(t)
  BY <1>1, <1>2, ThreadSteps, ToldLives, Zenon DEF SleepsAgain
<1>3. CASE \E a \in Adders : AddStep(a)
  BY <1>3, ToldCreate, ToldAdded, Zenon DEF AddStep
<1>4. CASE ManagerStep \/ ClientStep \/ LoginEnds \/ LobbyEnds
  BY <1>4, ManagerSteps, ToldLives, Zenon
<1>5. CASE MainStep \/ RunReturns \/ WaitForShutdown
  BY <1>5, ToldMain, ToldStops, Zenon DEF MainStep
<1>6. CASE Terminated
  BY <1>1, <1>6, Zenon DEF Terminated
<1> QED  BY <1>1, <1>2, <1>3, <1>4, <1>5, <1>6, Zenon DEF LifeNext

(***************************************************************************)
(* A thread that was told to stop, and did not set m_running afterwards,   *)
(* has m_running false, and is not left in epoll_wait: a reactor or worker *)
(* that waits has its eventfd open, so the wakeup is not lost.             *)
(***************************************************************************)
HeardOf(t) ==
  /\ Polls(t) /\ tpc[t] \in {"loop", "wait"} => m_eventFd[t] # "closed"
  /\ tpc[t] = "wait" => Polls(t)
  /\ ~overwritten /\ t \in stopped =>
       /\ ~m_running[t]
       /\ tpc[t] = "wait" => m_eventFd[t] = "set" \/ (mpc = "wake" /\ t = Head(targets))

HeardInv ==
  /\ DOMAIN m_running = Threads /\ DOMAIN m_eventFd = Threads
  /\ \A t \in Threads : HeardOf(t)

\* A step of one thread
OneThread(t) ==
  /\ UNCHANGED <<mpc, targets, stopped>> /\ (overwritten => overwritten')
  /\ DOMAIN m_running' = Threads /\ DOMAIN m_eventFd' = Threads
  /\ \A u \in Threads \ {t} : /\ tpc'[u] = tpc[u] /\ m_running'[u] = m_running[u]
                              /\ m_eventFd'[u] = m_eventFd[u]

\* It has to be shown of that thread.
LEMMA HeardKept ==
  ASSUME HeardInv, NEW t, OneThread(t), t \in Threads => HeardOf(t)'  PROVE HeardInv'
<1>1. ASSUME NEW u \in Threads \ {t}  PROVE HeardOf(u)'
  <2>1. /\ tpc'[u] = tpc[u] /\ m_running'[u] = m_running[u] /\ m_eventFd'[u] = m_eventFd[u]
        /\ mpc' = mpc /\ targets' = targets /\ stopped' = stopped /\ (overwritten => overwritten')
    BY Zenon DEF OneThread
  <2>2. HeardOf(u)
    BY Zenon DEF HeardInv
  <2> QED  BY <2>1, <2>2, Zenon DEF HeardOf, Polls
<1> QED  BY <1>1, Zenon DEF HeardInv, OneThread

\* A thread that moves and changes neither m_running nor its eventfd.
LEMMA HeardMoves ==
  ASSUME LifeIInv, HeardInv, NEW t \in Threads, NEW l, MoveTo(t, l), l # "wait",
         l = "loop" => ~Polls(t) \/ tpc[t] = "wait",
         UNCHANGED <<m_running, m_eventFd, overwritten, mpc, targets, stopped>>
  PROVE  HeardInv'
<1>1. tpc'[t] = l /\ \A u \in Threads \ {t} : tpc'[u] = tpc[u]
  BY Zenon DEF MoveTo, LifeIInv
<1>2. OneThread(t)
  BY <1>1, Zenon DEF OneThread, HeardInv
<1>3. HeardOf(t)
  BY Zenon DEF HeardInv
<1>4. HeardOf(t)'
  BY <1>1, <1>3, Zenon DEF HeardOf, Polls
<1> QED  BY <1>2, <1>4, HeardKept, Zenon

\* A thread that sets m_running and goes into its loop.
LEMMA HeardRuns ==
  ASSUME LifeIInv, HeardInv, NEW t \in Threads, NEW l \in {"adding", "loop"}, MoveTo(t, l), SetRunning(t),
         \/ m_eventFd' = [m_eventFd EXCEPT ![t] = "open"]
         \/ m_eventFd' = m_eventFd /\ ~Polls(t),
         UNCHANGED <<mpc, targets, stopped>>
  PROVE  HeardInv'
<1>1. tpc'[t] = l /\ \A u \in Threads \ {t} : tpc'[u] = tpc[u]
  BY Zenon DEF MoveTo, LifeIInv
<1>2. /\ DOMAIN m_running' = Threads /\ (overwritten => overwritten')
      /\ \A u \in Threads \ {t} : m_running'[u] = m_running[u]
  BY Zenon DEF SetRunning, HeardInv
<1>3. /\ DOMAIN m_eventFd' = Threads /\ (Polls(t) => m_eventFd'[t] = "open")
      /\ \A u \in Threads \ {t} : m_eventFd'[u] = m_eventFd[u]
  BY Zenon DEF HeardInv
<1>4. OneThread(t)
  BY <1>1, <1>2, <1>3, Zenon DEF OneThread
<1>5. t \in stopped' => overwritten'
  BY Zenon DEF SetRunning
<1>6. HeardOf(t)'
  BY <1>1, <1>3, <1>5 DEF HeardOf, Polls
<1> QED  BY <1>4, <1>6, HeardKept, Zenon

\* The steps of the reactors, workers and shards
LEMMA HeardThreads ==
  ASSUME LifeIInv, HeardInv, NEW t \in Threads, ThreadStep(t) \/ WokenByTraffic(t)  PROVE HeardInv'
<1>1. UNCHANGED <<mpc, targets, stopped>>
  BY Zenon DEF ThreadStep, ServerStart, ReactorStart, ReactorFails, ShardStart, CheckRunning, Woken,
               SleepEnds, WokenByTraffic, mainVars
<1>2. HeardOf(t)
  BY Zenon DEF HeardInv
<1>3. CASE ServerStart(t) \/ ReactorFails(t) \/ SleepEnds(t) \/ WokenByTraffic(t)
  <2>1. /\ UNCHANGED <<m_running, m_eventFd, overwritten>>
        /\ \E l : MoveTo(t, l) /\ l # "wait" /\ (l = "loop" => tpc[t] = "wait")
    BY <1>3 DEF ServerStart, ReactorFails, SleepEnds, WokenByTraffic
  <2> QED  BY <1>1, <2>1, HeardMoves, Zenon
<1>4. CASE ReactorStart(t)
  BY <1>1, <1>4, HeardRuns, Zenon DEF ReactorStart
<1>5. CASE ShardStart(t)
  <2>1. ~Polls(t) /\ MoveTo(t, "loop") /\ SetRunning(t) /\ m_eventFd' = m_eventFd
    BY <1>5, LifecycleAssumption, Zenon DEF ShardStart, Polls
  <2> QED  BY <1>1, <2>1, HeardRuns, Zenon
<1>6. CASE CheckRunning(t)
  <2>1. /\ Polls(t) /\ tpc[t] = "loop" /\ UNCHANGED <<m_running, overwritten>>
        /\ tpc' = [tpc EXCEPT ![t] = IF m_running[t] THEN "wait" ELSE "done"]
        /\ m_eventFd' = [m_eventFd EXCEPT ![t] = IF t \in Servers /\ ~m_running[t] THEN "closed" ELSE @]
    BY <1>6, Zenon DEF CheckRunning, MoveTo
  <2>2. OneThread(t)
    BY <1>1, <2>1, Zenon DEF OneThread, HeardInv, LifeIInv
  <2>3. /\ m_running[t] => tpc'[t] = "wait" /\ m_eventFd'[t] = m_eventFd[t]
        /\ ~m_running[t] => tpc'[t] = "done"
    BY <2>1, Zenon DEF HeardInv, LifeIInv
  <2>4. HeardOf(t)'
    BY <1>1, <1>2, <2>1, <2>3, Zenon DEF HeardOf, Polls
  <2> QED  BY <2>2, <2>4, HeardKept, Zenon
<1>7. CASE Woken(t)
  <2>1. /\ tpc' = [tpc EXCEPT ![t] = "loop"] /\ m_eventFd' = [m_eventFd EXCEPT ![t] = "open"]
        /\ UNCHANGED <<m_running, overwritten>>
    BY <1>7, Zenon DEF Woken, MoveTo
  <2>2. OneThread(t) /\ tpc'[t] = "loop" /\ m_eventFd'[t] = "open"
    BY <1>1, <2>1, Zenon DEF OneThread, HeardInv, LifeIInv
  <2>3. HeardOf(t)'
    BY <1>1, <1>2, <2>1, <2>2 DEF HeardOf, Polls
  <2> QED  BY <2>2, <2>3, HeardKept, Zenon
<1> QED  BY <1>3, <1>4, <1>5, <1>6, <1>7, Zenon DEF ThreadStep

\* The steps of the managers and of the client
LEMMA HeardManagers ==
  ASSUME LifeIInv, HeardInv, ManagerStep \/ ClientStep \/ LoginEnds \/ LobbyEnds  PROVE HeardInv'
<1>1. UNCHANGED <<mpc, targets, stopped>>
  BY Zenon DEF ManagerStep, ShardManagerStart, ShardManagerWaits, SessionManagerStart, ClientStep,
               ClientConnect, ClientFails, LoginFails, LoginEnds, ClientPing, LobbyFails, LobbyEnds, mainVars
<1>2. \A t \in {ShardManager, SessionManager, Client} : t \in Threads /\ ~Polls(t)
  BY LifecycleAssumption, Zenon DEF Polls, Threads
<1>3. CASE ShardManagerStart \/ SessionManagerStart \/ LoginEnds \/ LoginFails
  <2>1. \E t \in {ShardManager, SessionManager, Client}, l \in {"adding", "loop"} :
          MoveTo(t, l) /\ SetRunning(t) /\ m_eventFd' = m_eventFd
    BY <1>3, Zenon DEF ShardManagerStart, SessionManagerStart, LoginEnds, LoginFails
  <2> QED  BY <1>1, <1>2, <2>1, HeardRuns, Zenon
<1>4. CASE ShardManagerWaits \/ ClientFails \/ ClientPing \/ LobbyEnds \/ LobbyFails
  <2>1. /\ UNCHANGED <<m_running, m_eventFd, overwritten>>
        /\ \E t \in {ShardManager, SessionManager, Client} : \E l : MoveTo(t, l) /\ l # "wait"
    BY <1>4 DEF ShardManagerWaits, ClientFails, ClientPing, LobbyEnds, LobbyFails
  <2> QED  BY <1>1, <1>2, <2>1, HeardMoves, Zenon
<1>5. CASE ClientConnect
  <2>1. /\ tpc' = [tpc EXCEPT ![Client] = "login"] /\ m_eventFd' = [m_eventFd EXCEPT ![Client] = "open"]
        /\ UNCHANGED <<m_running, overwritten>>
    BY <1>5, Zenon DEF ClientConnect, MoveTo
  <2>2. OneThread(Client) /\ tpc'[Client] = "login"
    BY <1>1, <1>2, <2>1, Zenon DEF OneThread, HeardInv, LifeIInv
  <2>3. HeardOf(Client)
    BY <1>2, Zenon DEF HeardInv
  <2>4. HeardOf(Client)'
    BY <1>1, <2>1, <2>2, <2>3 DEF HeardOf, Polls
  <2> QED  BY <2>2, <2>4, HeardKept, Zenon
<1> QED  BY <1>3, <1>4, <1>5, Zenon DEF ManagerStep, ClientStep

\* Those of the threads that add: a worker begins with its eventfd open.
LEMMA HeardAdds ==
  ASSUME LifeIInv, HeardInv, NEW a \in Adders, AddStep(a)  PROVE HeardInv'
<1> PICK t : t = NextThread(a)
  BY Zenon
<1>1. UNCHANGED <<mpc, targets, stopped>>
  BY Zenon DEF AddStep, CreateThread, WorkerFails, Register, mainVars
<1>2. CASE CreateThread(a)
  <2>1. t \in Threads
    BY <1>2, WhoAdds, Zenon DEF CreateThread
  <2>2. /\ tpc' = [tpc EXCEPT ![t] = IF t \in Workers THEN "loop" ELSE "start"]
        /\ m_running' = [m_running EXCEPT ![t] = t \in Workers]
        /\ m_eventFd' = [m_eventFd EXCEPT ![t] = IF t \in Workers THEN "open" ELSE @]
        /\ overwritten' = (overwritten \/ (t \in Workers /\ t \in stopped))
    BY <1>2, Zenon DEF CreateThread
  <2>3. OneThread(t)
    BY <1>1, <2>2, Zenon DEF OneThread, HeardInv, LifeIInv
  <2>4. /\ t \in Workers => tpc'[t] = "loop" /\ m_eventFd'[t] = "open"
        /\ t \notin Workers => tpc'[t] = "start" /\ ~m_running'[t]
    BY <2>1, <2>2, Zenon DEF HeardInv, LifeIInv
  <2>5. t \in Workers => HeardOf(t)'
    BY <1>1, <2>2, <2>4, Zenon DEF HeardOf
  <2>6. t \notin Workers => HeardOf(t)'
    BY <2>4, Zenon DEF HeardOf
  <2> QED  BY <2>3, <2>5, <2>6, HeardKept, Zenon
<1>3. CASE WorkerFails(a)
  <2>1. t \in Threads
    BY <1>3, WhoAdds, Zenon DEF WorkerFails
  <2>2. MoveTo(t, "done") /\ UNCHANGED <<m_running, m_eventFd, overwritten>>
    BY <1>3, Zenon DEF WorkerFails, MoveTo
  <2> QED  BY <1>1, <2>1, <2>2, HeardMoves
<1>4. CASE Register(a)
  BY <1>1, <1>4, Zenon DEF Register, threadVars, HeardInv, HeardOf, Polls
<1> QED  BY <1>2, <1>3, <1>4, Zenon DEF AddStep

\* And those of the main thread: the wakeup follows the flag.
LEMMA HeardMain ==
  ASSUME LifeIInv, ToldInv, HeardInv, MainStep \/ RunReturns \/ WaitForShutdown  PROVE HeardInv'
<1>1. CASE StopFlag
  <2> PICK h : h = Head(targets)
    BY Zenon
  <2>1. /\ mpc = "stop" /\ mpc' = "wake" /\ targets' = targets /\ stopped' = stopped \cup {h}
        /\ m_running' = [m_running EXCEPT ![h] = FALSE] /\ UNCHANGED <<tpc, m_eventFd, overwritten>>
    BY <1>1, Zenon DEF StopFlag
  <2>2. ASSUME NEW u \in Threads  PROVE HeardOf(u)'
    <3>1. HeardOf(u) /\ (m_running'[u] => m_running[u]) /\ (u = h => ~m_running'[u])
      BY <2>1, Zenon DEF HeardInv
    <3> QED  BY <2>1, <3>1, Zenon DEF HeardOf, Polls
  <2> QED  BY <2>1, <2>2, Zenon DEF HeardInv
<1>2. CASE StopWakeup
  <2> PICK h : h = Head(targets)
    BY Zenon
  <2>1. /\ mpc = "wake" /\ mpc' = "stop" /\ UNCHANGED <<tpc, m_running, overwritten, stopped>>
        /\ m_eventFd' = [m_eventFd EXCEPT ![h] = WakeOrClose(h)]
    BY <1>2, Zenon DEF StopWakeup
  <2>2. ASSUME NEW u \in Threads  PROVE HeardOf(u)'
    <3>1. HeardOf(u) /\ (u # h => m_eventFd'[u] = m_eventFd[u]) /\ (u = h => m_eventFd'[u] = WakeOrClose(u))
      BY <2>1, Zenon DEF HeardInv
    <3>2. CASE u # h
      BY <2>1, <3>1, <3>2, Zenon DEF HeardOf, Polls
    <3>3. CASE u = h
      <4>1. Polls(u) => u # Client
        BY LifecycleAssumption, Zenon DEF Polls
      <4>2. Polls(u) /\ tpc[u] \in {"loop", "wait"} => m_eventFd'[u] = "set"
        BY <3>1, <3>3, <4>1, Zenon DEF HeardOf, WakeOrClose
      <4> QED  BY <2>1, <3>1, <4>2 DEF HeardOf, Polls
    <3> QED  BY <3>2, <3>3, Zenon
  <2> QED  BY <2>1, <2>2, Zenon DEF HeardInv
<1>3. CASE \/ TakeSnapshot \/ CallStopFunc \/ StartSleep \/ StartSleepEnds \/ StopsDone \/ Join \/ AllJoined
           \/ RunReturns \/ WaitForShutdown
  <2>1. mpc # "wake" /\ stopped' = stopped /\ UNCHANGED <<tpc, m_running, m_eventFd, overwritten>>
    BY <1>3 DEF TakeSnapshot, CallStopFunc, StartSleep, StartSleepEnds, StopsDone, Join, AllJoined,
                RunReturns, WaitForShutdown, threadVars
  <2>2. ASSUME NEW u \in Threads  PROVE HeardOf(u)'
    BY <2>1, Zenon DEF HeardInv, HeardOf, Polls
  <2> QED  BY <2>1, <2>2, Zenon DEF HeardInv
<1> QED  BY <1>1, <1>2, <1>3, Zenon DEF MainStep

\* Every step keeps it.
LEMMA HeardStep == LifeIInv /\ ToldInv /\ HeardInv /\ [LifeNext]_lifeVars => HeardInv'
<1> SUFFICES ASSUME LifeIInv, ToldInv, HeardInv, [LifeNext]_lifeVars  PROVE HeardInv'
  BY Zenon
<1>1. CASE UNCHANGED lifeVars
  <2>1. UNCHANGED <<tpc, m_running, m_eventFd, overwritten, mpc, targets, stopped>>
    BY <1>1, Zenon DEF lifeVars, threadVars, mainVars
  <2> QED  BY <2>1, Zenon DEF HeardInv, HeardOf, Polls
<1>2. CASE \E t \in Threads : ThreadStep(t) \/ WokenByTraffic(t) \/ SleepsAgain(t)
  BY <1>1, <1>2, HeardThreads, Zenon DEF SleepsAgain
<1>3. CASE \E a \in Adders : AddStep(a)
  BY <1>3, HeardAdds, Zenon
<1>4. CASE ManagerStep \/ ClientStep \/ LoginEnds \/ LobbyEnds
  BY <1>4, HeardManagers, Zenon
<1>5. CASE MainStep \/ RunReturns \/ WaitForShutdown
  BY <1>5, HeardMain, Zenon
<1>6. CASE Terminated
  BY <1>1, <1>6, Zenon DEF Terminated
<1> QED  BY <1>1, <1>2, <1>3, <1>4, <1>5, <1>6, Zenon DEF LifeNext

(***************************************************************************)
(* When stopAll begins to join, each thread that has not ended was told:   *)
(* m_running is false, and a reactor or worker that is in epoll_wait has   *)
(* its wakeup before it.  None is missed, whichever thread added it and    *)
(* whatever failed to start; a thread that set m_running after its stop()  *)
(* is the only exception.                                                  *)
(***************************************************************************)
THEOREM LifeStopReachesAll == LifeSpec => []StopReachesAll
<1>1. LifeInit => ToldInv /\ HeardInv
  <2> SUFFICES ASSUME LifeInit PROVE ToldInv /\ HeardInv
    BY Zenon
  <2>1. \A t \in Threads : tpc[t] = "none" /\ m_running[t] = FALSE /\ m_eventFd[t] = "closed"
    BY Zenon DEF LifeInit
  <2>2. ToldInv
    BY <2>1 DEF LifeInit, ToldInv, SnapshotTaken, Live
  <2>3. HeardInv
    BY <2>1 DEF LifeInit, HeardInv, HeardOf
  <2> QED  BY <2>2, <2>3, Zenon
<1>2. LifeIInv /\ ToldInv /\ HeardInv => StopReachesAll
  <2> SUFFICES ASSUME LifeIInv, ToldInv, HeardInv, mpc \in {"join", "done"}, ~overwritten,
                      NEW t \in Threads, Live(t)
               PROVE  ~m_running[t] /\ (tpc[t] = "wait" => m_eventFd[t] = "set")
    BY Zenon DEF StopReachesAll, Live
  <2>1. Reached(t) /\ targets = << >> /\ stops = << >>
    BY Zenon DEF ToldInv, SnapshotTaken
  <2>2. \A x : x \notin Range(targets) /\ x \notin Range(stops)
    BY <2>1 DEF Range
  <2>3. t \in stopped
    BY <2>1, <2>2, Zenon DEF Reached
  <2>4. HeardOf(t) /\ mpc # "wake"
    BY Zenon DEF HeardInv
  <2> QED  BY <2>3, <2>4, Zenon DEF HeardOf
<1> QED  BY <1>1, <1>2, LifeInitially, LifeStep, ToldStep, HeardStep, PTL DEF LifeSpec
=============================================================================
