--------------------------- MODULE ShardUdpProofs ---------------------------
(***************************************************************************)
(* The order of a shard's answers and the reasons for a late market dump,  *)
(* for any number of threads that dispatch, any number of events and any   *)
(* lengths of the tick and of the wait; and the UDP path, for any number   *)
(* of workers, shards and peers: what becomes of an answer, and the order  *)
(* of a peer's datagrams.                                                  *)
(***************************************************************************)
EXTENDS MarketSnapshot, UdpPath, QueueLemmas

(***************************************************************************)
(* What the steps of the worker do to the concatenation of its queues      *)
(***************************************************************************)
\* A sequence that is not empty is its head and its tail.
LEMMA HeadAndTail ==
  ASSUME NEW S, NEW q \in Seq(S), q # << >>
  PROVE  <<Head(q)>> \o Tail(q) = q
<1>1. /\ Head(q) \in S /\ Tail(q) \in Seq(S) /\ Len(Tail(q)) = Len(q) - 1
      /\ \A i \in 1..Len(Tail(q)) : Tail(q)[i] = q[i + 1]
  BY HeadTailProperties, Zenon
<1>2. <<Head(q)>> \in Seq(S) /\ Len(<<Head(q)>>) = 1 /\ <<Head(q)>>[1] = q[1]
  BY <1>1
<1>3. Len(q) \in Nat \ {0}
  BY EmptySeq, Zenon
<1> DEFINE r == <<Head(q)>> \o Tail(q)
<1>4. /\ r \in Seq(S) /\ Len(r) = Len(q)
      /\ \A i \in 1..Len(q) : r[i] = IF i <= 1 THEN <<Head(q)>>[i] ELSE Tail(q)[i - 1]
  BY <1>1, <1>2, <1>3, ConcatProperties
<1> HIDE DEF r
<1>5. \A i \in 1..Len(q) : r[i] = q[i]
  <2> TAKE i \in 1..Len(q)
  <2>1. CASE i = 1
    BY <2>1, <1>2, <1>4
  <2>2. CASE i # 1
    <3>1. ~(i <= 1) /\ i - 1 \in 1..Len(Tail(q)) /\ (i - 1) + 1 = i
      BY <2>2, <1>1, <1>3
    <3>2. QED BY <3>1, <1>1, <1>4, Zenon
  <2>3. QED BY <2>1, <2>2, Zenon
<1>6. QED BY <1>4, <1>5, SeqEqual, Zenon DEF r

\* An event that is pushed comes last.
LEMMA PushedLast ==
  ASSUME NEW S, NEW u \in Seq(S), NEW q \in Seq(S), NEW x \in S
  PROVE  u \o Append(q, x) = Append(u \o q, x)
<1>1. <<x>> \in Seq(S) /\ u \o q \in Seq(S)
  BY ConcatProperties
<1>2. Append(q, x) = q \o <<x>> /\ Append(u \o q, x) = (u \o q) \o <<x>>
  BY <1>1, AppendIsConcat, Zenon
<1>3. QED BY <1>1, <1>2, ConcatAssociative

\* Taking the first event into the empty hand changes nothing.
LEMMA TakenFromQueue ==
  ASSUME NEW S, NEW u \in Seq(S), NEW q \in Seq(S), q # << >>
  PROVE  u \o <<Head(q)>> \o Tail(q) = u \o << >> \o q
<1>1. <<Head(q)>> \in Seq(S) /\ Tail(q) \in Seq(S)
  BY HeadTailProperties
<1>2. u \o << >> = u
  BY ConcatEmptySeq, Zenon
<1>3. u \o <<Head(q)>> \o Tail(q) = u \o (<<Head(q)>> \o Tail(q))
  BY <1>1, ConcatAssociative
<1>4. QED BY <1>2, <1>3, HeadAndTail, Zenon

\* Handling the event in hand, with no actions left, changes nothing: it is
\* answered at once or becomes the only action.
LEMMA HandledEvent ==
  ASSUME NEW S, NEW a \in Seq(S), NEW e \in Seq(S), NEW q \in Seq(S)
  PROVE  /\ a \o (<< >> \o e) \o << >> \o q = a \o << >> \o e \o q
         /\ (a \o e) \o << >> \o << >> \o q = a \o << >> \o e \o q
<1>1. << >> \o e = e /\ a \o << >> = a
  BY ConcatEmptySeq, Zenon
<1>2. a \o e \in Seq(S)
  BY ConcatProperties, Zenon
<1>3. (a \o e) \o << >> = a \o e
  BY <1>2, ConcatEmptySeq, Zenon
<1>4. QED BY <1>1, <1>3, Zenon

\* Answering the first action changes nothing.
LEMMA HandledAction ==
  ASSUME NEW S, NEW a \in Seq(S), NEW m \in Seq(S), m # << >>
  PROVE  Append(a, Head(m)) \o Tail(m) = a \o m
<1>1. Head(m) \in S /\ <<Head(m)>> \in Seq(S) /\ Tail(m) \in Seq(S)
  BY HeadTailProperties
<1>2. Append(a, Head(m)) = a \o <<Head(m)>>
  BY <1>1, AppendIsConcat, Zenon
<1>3. QED BY <1>1, <1>2, ConcatAssociative, HeadAndTail

(***************************************************************************)
(* The worker                                                              *)
(***************************************************************************)
\* InShardOrder needs to know that the action queue is empty when an event
\* is handled, and the type of rem that a sample is at most one interval old.
ShardIInv ==
  /\ ShardTypeOK
  /\ rem + age <= TickInterval
  /\ m_actionQueue # << >> => wpc = "actions"
  /\ InShardOrder

LEMMA ActionsAreEvents == ShardTypeOK => m_actionQueue \in Seq(Events)
<1> DEFINE External == Events \ Internal
<1>1. External \subseteq Events
  BY Zenon
<1>2. ShardTypeOK => m_actionQueue \in Seq(External)
  BY Zenon DEF ShardTypeOK
<1> HIDE DEF External
<1>3. QED BY <1>1, <1>2, SeqMonotonic, Zenon

LEMMA ShardInitIInv == ShardInit => ShardIInv
<1> SUFFICES ASSUME ShardInit PROVE ShardIInv
  BY Zenon
<1>1. << >> = << >> \o << >> \o << >> \o << >>
  BY EmptySeq, ConcatEmptySeq, Zenon
<1>2. InShardOrder
  BY <1>1, Zenon DEF ShardInit, InShardOrder
<1>3. << >> \in Seq(Events) /\ << >> \in Seq(Events \ Internal) /\ Len(<< >>) = 0
  BY EmptySeq, Zenon
<1>4. TickInterval \in (-MaxLag)..TickInterval /\ TickInterval + 0 <= TickInterval
      /\ 0 \in 0..(MaxLag + TickInterval)
  BY ShardAssumption
<1>5. ppc \in [Producers -> {"idle", "notify"}]
  BY Zenon DEF ShardInit
<1>6. ShardTypeOK
  <2>1. /\ m_eventQueue \in Seq(Events) /\ m_actionQueue \in Seq(Events \ Internal)
        /\ event \in Seq(Events) /\ queued \in Seq(Events) /\ answered \in Seq(Events)
        /\ Len(event) <= 1
    BY <1>3 DEF ShardInit
  <2>2. rem \in (-MaxLag)..TickInterval /\ age \in 0..(MaxLag + TickInterval)
    BY <1>4, Zenon DEF ShardInit
  <2>3. QED BY <1>5, <2>1, <2>2, Zenon DEF ShardInit, ShardTypeOK
<1>7. QED BY <1>2, <1>4, <1>6, Zenon DEF ShardInit, ShardIInv

\* The steps that leave the queues alone.
LEMMA QuietSteps ==
  ASSUME ShardIInv,
         \/ \E p \in Producers : NotifyEvent(p)
         \/ Start \/ CheckRunning \/ EnterWait \/ LeaveWait \/ LeaveWaitSpuriously \/ BreakLoop
         \/ ActionsDone \/ NoTick \/ Tick \/ StopFlag \/ StopNotify \/ TimePasses
         \/ UNCHANGED shardVars
  PROVE  ShardIInv'
<1> USE ShardAssumption
<1>1. UNCHANGED <<shardQueues, event>>
  BY DEF NotifyEvent, Start, CheckRunning, EnterWait, LeaveWait, LeaveWaitSpuriously, BreakLoop,
         ActionsDone, NoTick, Tick, StopFlag, StopNotify, TimePasses, shardVars
<1>2. InShardOrder'
  BY <1>1, Zenon DEF ShardIInv, InShardOrder, shardQueues
<1>3. /\ rem' \in (-MaxLag)..TickInterval /\ age' \in 0..(MaxLag + TickInterval)
      /\ rem' + age' <= TickInterval
  <2> /\ rem \in (-MaxLag)..TickInterval /\ age \in 0..(MaxLag + TickInterval)
      /\ rem + age <= TickInterval
    BY Zenon DEF ShardIInv, ShardTypeOK
  <2>1. CASE UNCHANGED shardTime
    BY <2>1, Zenon DEF shardTime
  <2>2. CASE Start
    BY <2>2 DEF Start
  <2>3. CASE NoTick
    BY <2>3 DEF NoTick
  <2>4. CASE Tick
    BY <2>4 DEF Tick
  <2>5. CASE TimePasses
    BY <2>5 DEF TimePasses
  <2>6. QED BY <2>1, <2>2, <2>3, <2>4, <2>5
           DEF NotifyEvent, CheckRunning, EnterWait, LeaveWait, LeaveWaitSpuriously, BreakLoop,
               ActionsDone, StopFlag, StopNotify, shardVars
<1>4. /\ m_running' \in BOOLEAN /\ signalled' \in BOOLEAN /\ earlyStop' \in BOOLEAN
      /\ spc' \in {"none", "flagged", "done"}
      /\ ppc' \in [Producers -> {"idle", "notify"}]
  BY Zenon DEF ShardIInv, ShardTypeOK, NotifyEvent, NotifyOne, Start, CheckRunning, EnterWait,
         LeaveWait, LeaveWaitSpuriously, BreakLoop, ActionsDone, NoTick, Tick, StopFlag,
         StopNotify, TimePasses, shardVars, shardStop
<1>5. /\ wpc' \in {"start", "loop", "enter", "waiting", "locked", "handle", "actions",
                  "tick", "done"}
      /\ event' # << >> => wpc' = "handle"
      /\ m_actionQueue' # << >> => wpc' = "actions"
  BY <1>1 DEF ShardIInv, ShardTypeOK, NotifyEvent, Start, CheckRunning, EnterWait,
         LeaveWait, LeaveWaitSpuriously, BreakLoop, ActionsDone, NoTick, Tick, StopFlag,
         StopNotify, TimePasses, shardVars, shardQueues
<1>6. QED BY <1>1, <1>2, <1>3, <1>4, <1>5, Zenon DEF ShardIInv, ShardTypeOK, shardQueues

LEMMA PushStep ==
  ASSUME ShardIInv, NEW p \in Producers, NEW e \in Events, PushEvent(p, e)
  PROVE  ShardIInv'
<1> USE DEF ShardIInv, ShardTypeOK
<1>1. m_actionQueue \in Seq(Events)
  BY ActionsAreEvents, Zenon
<1>2. Append(queued, e) = answered \o m_actionQueue \o event \o Append(m_eventQueue, e)
  <2>1. answered \in Seq(Events) /\ event \in Seq(Events) /\ m_eventQueue \in Seq(Events)
    BY Zenon
  <2>2. queued = answered \o m_actionQueue \o event \o m_eventQueue
    BY Zenon DEF InShardOrder
  <2> HIDE DEF ShardIInv, ShardTypeOK
  <2> DEFINE u == answered \o m_actionQueue \o event
  <2>3. u \in Seq(Events)
    <3>1. answered \o m_actionQueue \in Seq(Events)
      BY <1>1, <2>1, ConcatProperties, Zenon
    <3>2. QED BY <2>1, <3>1, ConcatProperties, Zenon
  <2>4. u \o Append(m_eventQueue, e) = Append(u \o m_eventQueue, e)
    <3> HIDE DEF u
    <3>1. QED BY <2>1, <2>3, PushedLast
  <2>5. QED BY <2>2, <2>4, Zenon
<1>3. InShardOrder'
  BY <1>2, Zenon DEF InShardOrder, PushEvent
<1>4. Append(queued, e) \in Seq(Events) /\ Append(m_eventQueue, e) \in Seq(Events)
  BY AppendProperties, Zenon
<1>5. QED BY <1>3, <1>4, Zenon DEF PushEvent, shardTime, shardStop

LEMMA TakeStep == ASSUME ShardIInv, TakeEvent PROVE ShardIInv'
<1> USE DEF ShardIInv, ShardTypeOK
<1>1. m_actionQueue \in Seq(Events) /\ event = << >>
  BY ActionsAreEvents, Zenon DEF TakeEvent
<1>2. InShardOrder'
  <2>1. CASE m_eventQueue = << >>
    BY <2>1, Zenon DEF InShardOrder, TakeEvent
  <2>2. CASE m_eventQueue # << >>
    <3>1. answered \o m_actionQueue \o <<Head(m_eventQueue)>> \o Tail(m_eventQueue)
            = answered \o m_actionQueue \o << >> \o m_eventQueue
      <4>1. answered \in Seq(Events) /\ m_eventQueue \in Seq(Events)
        BY Zenon
      <4> HIDE DEF ShardIInv, ShardTypeOK
      <4> DEFINE u == answered \o m_actionQueue
      <4>2. u \in Seq(Events)
        BY <1>1, <4>1, ConcatProperties, Zenon
      <4> HIDE DEF u
      <4>3. u \o <<Head(m_eventQueue)>> \o Tail(m_eventQueue) = u \o << >> \o m_eventQueue
        BY <2>2, <4>1, <4>2, TakenFromQueue, Zenon
      <4>4. QED BY <4>3, Zenon DEF u
    <3>2. QED BY <1>1, <2>2, <3>1, Zenon DEF InShardOrder, TakeEvent
  <2>3. QED BY <2>1, <2>2, Zenon
<1>3. event' \in Seq(Events) /\ Len(event') <= 1 /\ m_eventQueue' \in Seq(Events)
  <2>1. CASE m_eventQueue = << >>
    BY <2>1, Zenon DEF TakeEvent
  <2>2. CASE m_eventQueue # << >>
    <3>1. Head(m_eventQueue) \in Events /\ Tail(m_eventQueue) \in Seq(Events)
      BY <2>2, HeadTailProperties, Zenon
    <3>2. event' = <<Head(m_eventQueue)>> /\ m_eventQueue' = Tail(m_eventQueue)
      BY <2>2, Zenon DEF TakeEvent
    <3> HIDE DEF ShardIInv, ShardTypeOK
    <3>3. QED BY <3>1, <3>2
  <2>3. QED BY <2>1, <2>2, Zenon
<1>4. rem + 0 <= TickInterval
  BY ShardAssumption
<1>5. QED BY <1>2, <1>3, <1>4, ShardAssumption DEF TakeEvent, shardStop

LEMMA HandleEventStep == ASSUME ShardIInv, HandleEvent PROVE ShardIInv'
<1> USE DEF ShardIInv, ShardTypeOK
<1>1. m_actionQueue = << >> /\ << >> \in Seq(Events \ Internal)
  BY EmptySeq, Zenon DEF HandleEvent
<1>2. << >> \o event = event /\ answered \o << >> = answered /\ << >> \o << >> = << >>
  BY EmptySeq, ConcatEmptySeq, Zenon
<1>3. CASE event = << >> \/ event[1] \in Internal
  <2>1. Committed = << >> /\ Fulfilled = event
    BY <1>3, Zenon DEF Committed, Fulfilled
  <2>2. m_actionQueue' = << >> /\ answered' = answered \o event /\ event' = << >>
    BY <1>1, <1>2, <2>1, Zenon DEF HandleEvent
  <2>3. InShardOrder'
    BY <1>1, <2>2, HandledEvent DEF HandleEvent, InShardOrder
  <2>4. answered' \in Seq(Events)
    BY <2>2, ConcatProperties, Zenon
  <2>5. QED BY <1>1, <2>2, <2>3, <2>4 DEF HandleEvent, shardTime, shardStop
<1>4. CASE event # << >> /\ event[1] \notin Internal
  <2>1. Committed = event /\ Fulfilled = << >>
    BY <1>4, Zenon DEF Committed, Fulfilled
  <2>2. m_actionQueue' = << >> \o event /\ answered' = answered /\ event' = << >>
    BY <1>1, <1>2, <2>1, Zenon DEF HandleEvent
  <2>3. InShardOrder'
    BY <1>1, <2>2, HandledEvent DEF HandleEvent, InShardOrder
  <2>4. event = <<event[1]>> /\ event[1] \in Events \ Internal
    <3>1. event \in Seq(Events) /\ Len(event) <= 1
      BY Zenon
    <3> HIDE DEF ShardIInv, ShardTypeOK
    <3>2. Len(event) \in Nat \ {0}
      BY <1>4, <3>1, EmptySeq, Zenon
    <3>3. Len(event) = 1 /\ 1 \in 1..Len(event)
      <4> DEFINE n == Len(event)
      <4>1. n \in Nat \ {0} /\ n <= 1
        BY <3>1, <3>2, Zenon
      <4> HIDE DEF n
      <4>2. n = 1 /\ 1 \in 1..n
        BY <4>1
      <4>3. QED BY <4>2, Zenon DEF n
    <3>4. event[1] \in Events
      BY <3>1, <3>3, ElementOfSeq, Zenon
    <3>5. QED BY <1>4, <3>1, <3>3, <3>4
  <2>5. m_actionQueue' \in Seq(Events \ Internal)
    BY <1>2, <2>2, <2>4
  <2>6. QED BY <2>2, <2>3, <2>5 DEF HandleEvent, shardTime, shardStop
<1>5. QED BY <1>3, <1>4, Zenon

LEMMA HandleActionStep == ASSUME ShardIInv, HandleAction PROVE ShardIInv'
<1> USE DEF ShardIInv, ShardTypeOK
<1>1. m_actionQueue \in Seq(Events)
  BY ActionsAreEvents, Zenon
<1>2. Append(answered, Head(m_actionQueue)) \o Tail(m_actionQueue) = answered \o m_actionQueue
  BY <1>1, HandledAction, Zenon DEF HandleAction
<1>3. InShardOrder'
  BY <1>2, Zenon DEF HandleAction, InShardOrder
<1>4. Head(m_actionQueue) \in Events /\ Tail(m_actionQueue) \in Seq(Events \ Internal)
  BY HeadTailProperties, Zenon DEF HandleAction
<1>5. QED BY <1>3, <1>4, AppendProperties, Zenon DEF HandleAction, shardTime, shardStop

LEMMA ShardNextIInv == ShardIInv /\ [ShardNext]_shardVars => ShardIInv'
BY QuietSteps, PushStep, TakeStep, HandleEventStep, HandleActionStep
   DEF ShardNext, ShardLoop, Terminated

LEMMA ShardIInvInvariant == ShardSpec => []ShardIInv
BY ShardInitIInv, ShardNextIInv, PTL DEF ShardSpec

(***************************************************************************)
(* ShardWorker.cpp answers the events of a shard in the order in which     *)
(* they were pushed, and neither drops nor doubles one, with any number of *)
(* threads in enqueueEvent.                                                *)
(***************************************************************************)
THEOREM ShardAnswersInOrder == ShardSpec => []InShardOrder
<1>1. ShardIInv => InShardOrder
  BY Zenon DEF ShardIInv
<1>2. QED BY <1>1, ShardIInvInvariant, PTL

(***************************************************************************)
(* The actions of an event are handled before the worker waits again, so   *)
(* that the lost notification of enqueueAction delays no answer.           *)
(***************************************************************************)
THEOREM ShardNoActionWaits == ShardSpec => []NoActionWaits
<1>1. ShardIInv => NoActionWaits
  BY Zenon DEF ShardIInv, NoActionWaits
<1>2. QED BY <1>1, ShardIInvInvariant, PTL

(***************************************************************************)
(* The market dump                                                         *)
(***************************************************************************)
\* Every step of the composed system is a step of the worker or leaves it alone.
LEMMA MarketStepIsShardStep ==
  ASSUME calls \in Nat, [MarketNext]_marketVars PROVE [ShardNext]_shardVars
<1> USE MarketAssumption
<1>1. CASE Request
  <2>1. Dumps[calls + 1] \in Events /\ Caller \in Producers
    <3>1. calls + 1 \in 1..Len(Dumps)
      BY <1>1, LenProperties DEF Request
    <3>2. QED BY <3>1, ElementOfSeq, ShardAssumption, Zenon
  <2>2. QED BY <1>1, <2>1, Zenon DEF Request, ShardNext
<1>2. CASE CallStep
  BY <1>2, Zenon DEF CallStep, RequestNotify, BeginWait, GetValue, GiveUp, Return, ShardNext
<1>3. ASSUME NEW p \in Others, Packet(p) PROVE ShardNext
  BY <1>3, Zenon DEF Packet, ShardNext
<1>4. CASE Worker \/ Environment \/ Clock
  BY <1>4, Zenon DEF Worker, Environment, Clock, ShardNext
<1>5. QED BY <1>1, <1>2, <1>3, <1>4, Zenon DEF MarketNext, marketVars

\* The calls are counted.
LEMMA CallsCounted == MarketSpec => [](calls \in Nat)
<1>1. MarketInit => calls \in Nat
  BY DEF MarketInit
<1>2. calls \in Nat /\ [MarketNext]_marketVars => (calls \in Nat)'
  BY DEF MarketNext, marketVars, callVars, Request, CallStep, RequestNotify, BeginWait, GetValue,
         GiveUp, Return, Packet, Worker, Environment, Clock
<1>3. QED BY <1>1, <1>2, PTL DEF MarketSpec

(***************************************************************************)
(* CoreControl uses the shard as any dispatcher does: what holds of the    *)
(* worker holds of the worker under marketSnapshot.                        *)
(***************************************************************************)
THEOREM MarketUsesShard == MarketSpec => ShardSpec
<1>1. MarketInit => ShardInit
  BY Zenon DEF MarketInit
<1>2. calls \in Nat /\ [MarketNext]_marketVars => [ShardNext]_shardVars
  BY MarketStepIsShardStep, Zenon
<1>3. QED BY <1>1, <1>2, CallsCounted, PTL DEF MarketSpec, ShardSpec

\* An element of a concatenation is one of a part, and the other way round.
LEMMA ConcatElement ==
  ASSUME NEW S, NEW s \in Seq(S), NEW t \in Seq(S), NEW d
  PROVE  (\E i \in 1..Len(s \o t) : (s \o t)[i] = d)
           <=> \/ \E i \in 1..Len(s) : s[i] = d
               \/ \E i \in 1..Len(t) : t[i] = d
<1> DEFINE m == Len(s)
           n == Len(t)
<1>1. /\ m \in Nat /\ n \in Nat /\ Len(s \o t) = m + n
      /\ \A i \in 1..m + n : (s \o t)[i] = IF i <= m THEN s[i] ELSE t[i - m]
  BY LenProperties, ConcatProperties, Zenon
<1> HIDE DEF m, n
<1>2. ASSUME NEW i \in 1..m + n, (s \o t)[i] = d
      PROVE  (\E j \in 1..m : s[j] = d) \/ (\E j \in 1..n : t[j] = d)
  <2>1. CASE i <= m
    <3>1. i \in 1..m /\ s[i] = d
      BY <1>1, <1>2, <2>1
    <3>2. QED BY <3>1, Zenon
  <2>2. CASE i > m
    <3>1. i - m \in 1..n /\ t[i - m] = d
      BY <1>1, <1>2, <2>2
    <3>2. QED BY <3>1, Zenon
  <2>3. i <= m \/ i > m
    BY <1>1
  <2>4. QED BY <2>1, <2>2, <2>3, Zenon
<1>3. ASSUME NEW i \in 1..m, s[i] = d PROVE \E j \in 1..m + n : (s \o t)[j] = d
  <2>1. i \in 1..m + n /\ i <= m
    BY <1>1
  <2>2. QED BY <1>1, <1>3, <2>1, Zenon
<1>4. ASSUME NEW i \in 1..n, t[i] = d PROVE \E j \in 1..m + n : (s \o t)[j] = d
  <2>1. i + m \in 1..m + n /\ ~(i + m <= m) /\ (i + m) - m = i
    BY <1>1
  <2>2. QED BY <1>1, <1>4, <2>1, Zenon
<1>5. QED BY <1>1, <1>2, <1>3, <1>4, Zenon DEF m, n

\* A dump that was pushed is answered, in hand or queued; it is no action.
LEMMA WhereADumpIs ==
  ASSUME ShardIInv, NEW d \in Internal, \E i \in 1..Len(queued) : queued[i] = d
  PROVE  Ready(d) \/ event = <<d>> \/ \E i \in 1..Len(m_eventQueue) : m_eventQueue[i] = d
<1>1. /\ answered \in Seq(Events) /\ event \in Seq(Events) /\ m_eventQueue \in Seq(Events)
      /\ m_actionQueue \in Seq(Events)
  BY ActionsAreEvents, Zenon DEF ShardIInv, ShardTypeOK
<1> DEFINE u == answered \o m_actionQueue
           v == u \o event
<1>2. u \in Seq(Events) /\ v \in Seq(Events)
  <2>1. u \in Seq(Events)
    BY <1>1, ConcatProperties, Zenon
  <2> HIDE DEF u
  <2>2. QED BY <1>1, <2>1, ConcatProperties, Zenon
<1>3. queued = v \o m_eventQueue
  BY Zenon DEF ShardIInv, InShardOrder
<1> HIDE DEF v
<1>4. (\E i \in 1..Len(v) : v[i] = d) \/ \E i \in 1..Len(m_eventQueue) : m_eventQueue[i] = d
  BY <1>1, <1>2, <1>3, ConcatElement
<1> HIDE DEF u
<1>5. (\E i \in 1..Len(v) : v[i] = d)
        => (\E i \in 1..Len(u) : u[i] = d) \/ \E i \in 1..Len(event) : event[i] = d
  BY <1>1, <1>2, ConcatElement DEF v
<1>6. (\E i \in 1..Len(u) : u[i] = d)
        => (\E i \in 1..Len(answered) : answered[i] = d)
             \/ \E i \in 1..Len(m_actionQueue) : m_actionQueue[i] = d
  BY <1>1, ConcatElement DEF u
<1>7. ASSUME NEW i \in 1..Len(m_actionQueue), m_actionQueue[i] = d PROVE FALSE
  <2>1. m_actionQueue \in Seq(Events \ Internal)
    BY Zenon DEF ShardIInv, ShardTypeOK
  <2>2. m_actionQueue[i] \in Events \ Internal
    BY <2>1, ElementOfSeq, Zenon
  <2>3. QED BY <1>7, <2>2, Zenon
<1>8. ASSUME NEW i \in 1..Len(event), event[i] = d PROVE event = <<d>>
  <2> DEFINE n == Len(event)
  <2>1. n \in Nat /\ n <= 1 /\ i \in 1..n
    BY <1>1, LenProperties, Zenon DEF ShardIInv, ShardTypeOK
  <2> HIDE DEF n
  <2>2. i = 1 /\ n = 1
    BY <2>1
  <2>3. event = <<event[1]>>
    BY <1>1, <2>2 DEF n
  <2>4. QED BY <1>8, <2>2, <2>3, Zenon
<1>9. QED BY <1>4, <1>5, <1>6, <1>7, <1>8 DEF Ready

\* What was answered stays answered.
LEMMA ReadyStays ==
  ASSUME ShardIInv, [ShardNext]_shardVars, NEW d, Ready(d) PROVE Ready(d)'
<1>1. CASE UNCHANGED answered
  BY <1>1, Zenon DEF Ready
<1>2. CASE HandleEvent
  <2>1. answered' = answered \o Fulfilled /\ answered \in Seq(Events) /\ Fulfilled \in Seq(Events)
    BY <1>2, EmptySeq, Zenon DEF HandleEvent, Fulfilled, ShardIInv, ShardTypeOK
  <2>2. QED BY <2>1, ConcatElement DEF Ready
<1>3. CASE HandleAction
  <2>1. /\ answered' = Append(answered, Head(m_actionQueue)) /\ answered \in Seq(Events)
        /\ Head(m_actionQueue) \in Events
    <3>1. Head(m_actionQueue) \in Events
      BY <1>3, ActionsAreEvents, HeadTailProperties, Zenon DEF HandleAction, ShardIInv
    <3>2. QED BY <1>3, <3>1, Zenon DEF HandleAction, ShardIInv, ShardTypeOK
  <2>2. PICK i \in 1..Len(answered) : answered[i] = d
    BY Zenon DEF Ready
  <2>3. i \in 1..Len(answered') /\ answered'[i] = d
    BY <2>1, <2>2, AppendProperties, LenProperties
  <2>4. QED BY <2>3, Zenon DEF Ready
<1>4. QED
  BY <1>1, <1>2, <1>3, Zenon
     DEF ShardNext, shardVars, shardQueues, ShardLoop, NotifyEvent, PushEvent, Start, CheckRunning,
         EnterWait, LeaveWait, LeaveWaitSpuriously, TakeEvent, BreakLoop, ActionsDone, NoTick,
         Tick, StopFlag, StopNotify, TimePasses, Terminated

\* The dump is answered or in hand, or it is the event of the turn that is
\* about to begin, or the worker has ended.
OnItsWay(d) ==
  \/ Ready(d) \/ event = <<d>> \/ wpc = "done"
  \/ /\ m_eventQueue # << >> /\ Head(m_eventQueue) = d
     /\ wpc = "locked" \/ (wpc = "waiting" /\ signalled)

\* Nothing the worker or another dispatcher does sets it back.
LEMMA OnItsWayStays ==
  ASSUME ShardIInv, [ShardNext]_shardVars, NEW d \in Internal, OnItsWay(d) PROVE OnItsWay(d)'
<1>0. /\ m_eventQueue \in Seq(Events) /\ answered \in Seq(Events) /\ event \in Seq(Events)
      /\ event # << >> => wpc = "handle"
      /\ d \in Events
  BY ShardAssumption, Zenon DEF ShardIInv, ShardTypeOK
<1>1. CASE Ready(d)
  BY <1>1, ReadyStays, Zenon DEF OnItsWay
<1>2. CASE wpc = "done"
  BY <1>2, Zenon DEF OnItsWay, ShardNext, shardVars, shardQueues, ShardLoop, NotifyEvent, PushEvent, Start,
         CheckRunning, EnterWait, LeaveWait, LeaveWaitSpuriously, TakeEvent, BreakLoop, HandleEvent,
         HandleAction, ActionsDone, NoTick, Tick, StopFlag, StopNotify, TimePasses, Terminated
<1>3. CASE event = <<d>>
  <2>1. wpc = "handle"
    BY <1>0, <1>3, Zenon
  <2>2. CASE UNCHANGED event
    BY <1>3, <2>2, Zenon DEF OnItsWay
  <2>3. CASE HandleEvent
    <3>1. answered' = answered \o <<d>>
      BY <1>3, <2>3, Zenon DEF HandleEvent, Fulfilled
    <3>2. <<d>> \in Seq(Events) /\ 1 \in 1..Len(<<d>>) /\ <<d>>[1] = d
      BY <1>0
    <3>3. Ready(d)'
      BY <1>0, <3>1, <3>2, ConcatElement DEF Ready
    <3>4. QED BY <3>3, Zenon DEF OnItsWay
  <2>4. QED BY <2>1, <2>2, <2>3 DEF ShardNext, shardVars, ShardLoop, NotifyEvent, PushEvent, Start,
         CheckRunning, EnterWait, LeaveWait, LeaveWaitSpuriously, TakeEvent, BreakLoop,
         HandleAction, ActionsDone, NoTick, Tick, StopFlag, StopNotify, TimePasses, Terminated
<1>4. CASE /\ m_eventQueue # << >> /\ Head(m_eventQueue) = d
           /\ wpc = "locked" \/ (wpc = "waiting" /\ signalled)
  <2>1. ASSUME NEW p \in Producers, NEW e \in Events, PushEvent(p, e) PROVE OnItsWay(d)'
    <3>1. m_eventQueue' = Append(m_eventQueue, e) /\ UNCHANGED <<wpc, signalled>>
      BY <2>1, Zenon DEF PushEvent
    <3>2. m_eventQueue' # << >> /\ Head(m_eventQueue') = d
      BY <1>0, <1>4, <3>1, AppendProperties, HeadTailAppend
    <3>3. QED BY <1>4, <3>1, <3>2, Zenon DEF OnItsWay
  <2>2. CASE TakeEvent
    BY <1>4, <2>2, Zenon DEF TakeEvent, OnItsWay
  <2>3. CASE BreakLoop
    BY <2>3, Zenon DEF BreakLoop, OnItsWay
  <2>4. CASE LeaveWait \/ LeaveWaitSpuriously
    BY <1>4, <2>4, Zenon DEF LeaveWait, LeaveWaitSpuriously, OnItsWay, shardQueues
  <2>5. CASE StopFlag \/ StopNotify \/ TimePasses \/ Terminated \/ UNCHANGED shardVars
    BY <1>4, <2>5, Zenon DEF StopFlag, StopNotify, NotifyOne, TimePasses, Terminated, shardVars,
                             OnItsWay, shardQueues
  <2>6. ASSUME NEW p \in Producers, NotifyEvent(p) PROVE OnItsWay(d)'
    BY <1>4, <2>6, Zenon DEF NotifyEvent, NotifyOne, OnItsWay, shardQueues
  <2>7. QED BY <1>4, <2>1, <2>2, <2>3, <2>4, <2>5, <2>6
            DEF ShardNext, ShardLoop, Start, CheckRunning, EnterWait, HandleEvent, HandleAction,
                ActionsDone, NoTick, Tick
<1>5. QED BY <1>1, <1>2, <1>3, <1>4, Zenon DEF OnItsWay

\* TimeoutExplained needs to know where a dump is that nothing has delayed:
\* before the wait it is on its way, and once time has passed it is answered.
MarketIInv ==
  /\ ShardIInv
  /\ cpc \in {"idle", "dispatch", "earlier", "wait", "got", "gaveUp"}
  /\ calls \in Nat /\ left \in 0..WaitTime
  /\ behind \in BOOLEAN /\ slow \in BOOLEAN
  /\ cpc # "idle" => calls \in 1..Len(Dumps)
  /\ cpc # "idle" => \E i \in 1..Len(queued) : queued[i] = Dump
  /\ cpc \in {"earlier", "wait"} /\ ~behind /\ ~slow => OnItsWay(Dump)
  /\ cpc = "wait" /\ left < WaitTime /\ ~behind /\ ~slow => Ready(Dump)
  /\ TimeoutExplained

LEMMA MarketInitIInv == MarketInit => MarketIInv
<1> SUFFICES ASSUME MarketInit PROVE MarketIInv
  BY Zenon
<1>1. ShardIInv
  BY ShardInitIInv, Zenon DEF MarketInit
<1>2. 0 \in 0..WaitTime
  BY MarketAssumption
<1>3. QED BY <1>1, <1>2, Zenon DEF MarketInit, MarketIInv, TimeoutExplained

\* The event of a call that has begun.
LEMMA DumpType == MarketIInv /\ cpc # "idle" => Dump \in Internal
<1> SUFFICES ASSUME MarketIInv, cpc # "idle" PROVE Dump \in Internal
  BY Zenon
<1>1. calls \in 1..Len(Dumps) /\ Dumps \in Seq(Internal)
  BY MarketAssumption, Zenon DEF MarketIInv
<1>2. QED BY <1>1, ElementOfSeq, Zenon DEF Dump

\* An event that was pushed stays in the history.
LEMMA QueuedStays ==
  ASSUME ShardIInv, [ShardNext]_shardVars, NEW d, \E i \in 1..Len(queued) : queued[i] = d
  PROVE  (\E i \in 1..Len(queued) : queued[i] = d)'
<1>1. CASE UNCHANGED queued
  BY <1>1, Zenon
<1>2. ASSUME NEW p \in Producers, NEW e \in Events, PushEvent(p, e)
      PROVE  (\E i \in 1..Len(queued) : queued[i] = d)'
  <2>1. queued' = Append(queued, e) /\ queued \in Seq(Events)
    BY <1>2, Zenon DEF PushEvent, ShardIInv, ShardTypeOK
  <2>2. PICK i \in 1..Len(queued) : queued[i] = d
    BY Zenon
  <2>3. i \in 1..Len(queued') /\ queued'[i] = d
    BY <2>1, <2>2, AppendProperties, LenProperties
  <2>4. QED BY <2>3, Zenon
<1>3. QED
  BY <1>1, <1>2, Zenon
     DEF ShardNext, shardVars, shardQueues, ShardLoop, NotifyEvent, Start, CheckRunning,
         EnterWait, LeaveWait, LeaveWaitSpuriously, TakeEvent, BreakLoop, HandleEvent, HandleAction,
         ActionsDone, NoTick, Tick, StopFlag, StopNotify, TimePasses, Terminated

\* A step that leaves the call where it is preserves the invariant.
LEMMA CallUntouched ==
  ASSUME MarketIInv, [ShardNext]_shardVars, UNCHANGED callVars PROVE MarketIInv'
<1>1. ShardIInv'
  BY ShardNextIInv, Zenon DEF MarketIInv
<1>2. UNCHANGED Dump
  BY Zenon DEF Dump, callVars
<1>3. cpc # "idle" => (\E i \in 1..Len(queued) : queued[i] = Dump)'
  BY <1>2, QueuedStays, Zenon DEF MarketIInv
<1>4. cpc # "idle" /\ Ready(Dump) => Ready(Dump)'
  BY <1>2, ReadyStays, Zenon DEF MarketIInv, Ready
<1>5. cpc # "idle" /\ OnItsWay(Dump) => OnItsWay(Dump)'
  BY <1>2, DumpType, OnItsWayStays, Zenon DEF MarketIInv, OnItsWay, Ready
<1>6. QED BY <1>1, <1>3, <1>4, <1>5, Zenon DEF MarketIInv, callVars, TimeoutExplained

LEMMA RequestStep == ASSUME MarketIInv, Request, ShardIInv' PROVE MarketIInv'
<1>1. calls + 1 \in 1..Len(Dumps)
  BY MarketAssumption, LenProperties DEF MarketIInv, Request
<1>2. queued' = Append(queued, Dump') /\ Dump' \in Events
  <2>1. Dumps[calls + 1] \in Internal
    BY <1>1, MarketAssumption, ElementOfSeq, Zenon
  <2>2. QED BY <2>1, ShardAssumption, Zenon DEF Request, PushEvent, Dump
<1>3. (\E i \in 1..Len(queued) : queued[i] = Dump)'
  <2>1. queued \in Seq(Events)
    BY Zenon DEF MarketIInv, ShardIInv, ShardTypeOK
  <2>2. Len(queued) \in Nat /\ Len(queued') = Len(queued) + 1 /\ queued'[Len(queued) + 1] = Dump'
    BY <1>2, <2>1, AppendProperties, LenProperties
  <2>3. QED BY <2>2
<1>4. QED BY <1>1, <1>3 DEF MarketIInv, Request, TimeoutExplained

LEMMA RequestNotifyStep == ASSUME MarketIInv, RequestNotify, ShardIInv' PROVE MarketIInv'
<1>1. cpc = "dispatch" /\ cpc' = "earlier" /\ UNCHANGED <<Dump, queued, answered, event, wpc, m_eventQueue>>
  BY Zenon DEF RequestNotify, NotifyEvent, Dump, shardQueues
<1>2. ~LeftBehind => OnItsWay(Dump)'
  <2>1. Ready(Dump) \/ event = <<Dump>> \/ \E i \in 1..Len(m_eventQueue) : m_eventQueue[i] = Dump
    BY <1>1, DumpType, WhereADumpIs, Zenon DEF MarketIInv
  <2>2. CASE Ready(Dump) \/ event = <<Dump>>
    BY <1>1, <2>2, Zenon DEF OnItsWay, Ready
  <2>3. CASE Head(m_eventQueue) = Dump /\ wpc \in {"waiting", "locked"}
             /\ \E i \in 1..Len(m_eventQueue) : m_eventQueue[i] = Dump
    <3>1. m_eventQueue # << >>
      BY <2>3
    <3>2. wpc = "waiting" => signalled'
      BY Zenon DEF RequestNotify, NotifyEvent, NotifyOne
    <3>3. QED BY <1>1, <2>3, <3>1, <3>2, Zenon DEF OnItsWay
  <2>4. QED BY <2>1, <2>2, <2>3, Zenon DEF LeftBehind
<1>3. behind' = LeftBehind /\ behind' \in BOOLEAN
  BY Zenon DEF RequestNotify, LeftBehind
<1>4. QED BY <1>1, <1>2, <1>3 DEF MarketIInv, RequestNotify, TimeoutExplained

LEMMA ClockStep == ASSUME MarketIInv, Clock, ShardIInv' PROVE MarketIInv'
<1>1. UNCHANGED <<cpc, calls, behind, Dump, queued, answered, event, wpc, m_eventQueue, signalled>>
  BY Zenon DEF Clock, TimePasses, Dump, shardQueues, shardVars
<1>2. left' \in 0..WaitTime /\ slow' \in BOOLEAN
  BY MarketAssumption DEF Clock, MarketIInv, Asleep
<1>3. cpc # "idle" /\ ~slow' => ~slow /\ Asleep
  BY Zenon DEF Clock, MarketIInv
<1>4. OnItsWay(Dump)' <=> OnItsWay(Dump)
  BY <1>1, Zenon DEF OnItsWay, Ready
<1>5. cpc = "wait" /\ ~behind /\ ~slow' => Ready(Dump)'
  <2> SUFFICES ASSUME cpc = "wait", ~behind, ~slow' PROVE Ready(Dump)'
    BY Zenon
  <2>1. OnItsWay(Dump) /\ Asleep
    BY <1>3, Zenon DEF MarketIInv
  <2>2. event = << >> /\ wpc = "waiting" /\ ~signalled
    BY <2>1, Zenon DEF Asleep, MarketIInv, ShardIInv, ShardTypeOK
  <2>3. QED BY <1>1, <2>1, <2>2, Zenon DEF OnItsWay, Ready
<1>6. slow => slow' \/ cpc = "idle"
  BY Zenon DEF Clock
<1>7. QED BY <1>1, <1>2, <1>3, <1>4, <1>5, <1>6, Zenon DEF MarketIInv, TimeoutExplained

\* The steps of the call that leave the worker alone.
LEMMA WaitSteps ==
  ASSUME MarketIInv, BeginWait \/ GetValue \/ GiveUp \/ Return PROVE MarketIInv'
<1>1. UNCHANGED <<shardVars, Dump>>
  BY Zenon DEF BeginWait, GetValue, GiveUp, Return, Dump
<1>2. ShardIInv' /\ (OnItsWay(Dump)' <=> OnItsWay(Dump)) /\ (Ready(Dump)' <=> Ready(Dump))
  BY <1>1, ShardNextIInv, Zenon DEF MarketIInv, shardVars, shardQueues, OnItsWay, Ready
<1>3. UNCHANGED queued
  BY <1>1, Zenon DEF shardVars, shardQueues
<1> USE <1>1, <1>2, <1>3, MarketAssumption DEF MarketIInv, TimeoutExplained
<1>4. CASE BeginWait
  BY <1>4 DEF BeginWait
<1>5. CASE GetValue
  BY <1>5, Zenon DEF GetValue
<1>6. CASE GiveUp
  BY <1>6 DEF GiveUp
<1>7. CASE Return
  <2>1. /\ cpc' = "idle" /\ calls' \in Nat /\ left' \in 0..WaitTime
        /\ behind' = FALSE /\ slow' = FALSE
    BY <1>7 DEF Return
  <2>2. QED BY <2>1, Zenon
<1>8. QED BY <1>4, <1>5, <1>6, <1>7, Zenon

LEMMA MarketNextIInv == MarketIInv /\ [MarketNext]_marketVars => MarketIInv'
<1> SUFFICES ASSUME MarketIInv, [MarketNext]_marketVars PROVE MarketIInv'
  BY Zenon
<1>1. [ShardNext]_shardVars
  BY MarketStepIsShardStep, Zenon DEF MarketIInv
<1>2. ShardIInv'
  BY <1>1, ShardNextIInv, Zenon DEF MarketIInv
<1>3. CASE Request
  BY <1>2, <1>3, RequestStep, Zenon
<1>4. CASE CallStep
  BY <1>2, <1>4, RequestNotifyStep, WaitSteps, Zenon DEF CallStep
<1>5. CASE UNCHANGED callVars
  BY <1>1, <1>5, CallUntouched, Zenon
<1>6. CASE Clock
  BY <1>2, <1>6, ClockStep, Zenon
<1>7. QED
  BY <1>3, <1>4, <1>5, <1>6, Zenon DEF MarketNext, marketVars, Packet, Worker, Environment

(***************************************************************************)
(* CoreControl::marketSnapshot reports a timeout for a shard only if the   *)
(* shard's worker was late by itself or the dump's notification did not    *)
(* reach it, whatever the tick interval and the length of the wait are.    *)
(***************************************************************************)
THEOREM MarketTimeoutExplained == MarketSpec => []TimeoutExplained
<1>1. MarketIInv => TimeoutExplained
  BY Zenon DEF MarketIInv
<1>2. QED BY <1>1, MarketInitIInv, MarketNextIInv, PTL DEF MarketSpec

(***************************************************************************)
(* The dumps of marketSnapshot and the events of packets are answered in   *)
(* the order in which they were pushed.                                    *)
(***************************************************************************)
THEOREM MarketAnswersInOrder == MarketSpec => []InShardOrder
BY MarketUsesShard, ShardAnswersInOrder, PTL

-----------------------------------------------------------------------------
(***************************************************************************)
(* AnswerKept.  The queue and the batch have no answer twice and none in   *)
(* common; the batch is empty except in processTxQueue, so that the next   *)
(* one overwrites nothing.                                                 *)
(***************************************************************************)
AnswerIInv ==
  /\ m_txQueue \in Seq(Nat) /\ batch \in Seq(Nat) /\ answers \in Nat
  /\ upc # "flush" => batch = << >>
  /\ IsInjective(m_txQueue) /\ IsInjective(batch)
  /\ Range(m_txQueue) \cap Range(batch) = {}
  /\ LET q == Range(m_txQueue) \cup Range(batch) IN
       /\ q \cup sent \cup lost = 1..answers
       /\ q \cap (sent \cup lost) = {} /\ sent \cap lost = {}

\* A queue with nothing in it
LEMMA EmptyQueue ==
  << >> \in Seq(Nat) /\ Range(<< >>) = {} /\ IsInjective(<< >>)
BY DEF Range, IsInjective

\* It holds at first.
LEMMA AnswerInitially == UdpInit => AnswerIInv
<1> SUFFICES ASSUME UdpInit  PROVE AnswerIInv
  BY Zenon
<1>1. m_txQueue = << >> /\ batch = << >> /\ answers = 0 /\ sent = {} /\ lost = {}
  BY Zenon DEF UdpInit
<1>2. 1..0 = {}
  OBVIOUS
<1> QED  BY <1>1, <1>2, EmptyQueue, Zenon DEF AnswerIInv

\* A new answer is queued behind the others, once.
LEMMA QueuedOnce ==
  ASSUME AnswerIInv, NEW x \in Nat, x \notin Range(m_txQueue), m_txQueue' = Append(m_txQueue, x)
  PROVE  /\ m_txQueue' \in Seq(Nat) /\ Range(m_txQueue') = Range(m_txQueue) \cup {x}
         /\ IsInjective(m_txQueue')
<1>1. m_txQueue \in Seq(Nat) /\ IsInjective(m_txQueue)
  BY Zenon DEF AnswerIInv
<1>2. Append(m_txQueue, x) \in Seq(Nat) /\ Range(Append(m_txQueue, x)) = Range(m_txQueue) \cup {x}
  BY ONLY <1>1, x \in Nat, ElementsOfAppend
<1>3. IsInjective(Append(m_txQueue, x))
  BY ONLY <1>1, x \in Nat, x \notin Range(m_txQueue), InjectiveAppend, Zenon
<1> QED  BY <1>2, <1>3, Zenon

\* enqueueTx: a new answer enters the queue or is lost.
LEMMA EnqueueTxStep ==
  ASSUME AnswerIInv, NEW p, EnqueueTx(p)  PROVE AnswerIInv'
<1> PICK x : x = answers + 1
  BY Zenon
<1>1. /\ answers' = x /\ Enqueue(x) /\ UNCHANGED <<upc, batch, sent>>
  BY Zenon DEF EnqueueTx
<1>2. x \in Nat /\ x \notin 1..answers /\ 1..x = 1..answers \cup {x}
  BY DEF AnswerIInv
<1>3. x \notin Range(m_txQueue) \cup Range(batch) \cup sent \cup lost
  BY <1>2, Zenon DEF AnswerIInv
<1>4. CASE m_txQueue' = Append(m_txQueue, x) /\ UNCHANGED lost
  <2>1. /\ m_txQueue' \in Seq(Nat) /\ Range(m_txQueue') = Range(m_txQueue) \cup {x}
        /\ IsInjective(m_txQueue')
    BY <1>2, <1>3, <1>4, QueuedOnce, Zenon
  <2> QED  BY <1>1, <1>2, <1>3, <1>4, <2>1 DEF AnswerIInv
<1>5. CASE lost' = lost \cup {x} /\ UNCHANGED m_txQueue
  BY <1>1, <1>2, <1>3, <1>5 DEF AnswerIInv
<1> QED  BY <1>1, <1>4, <1>5, Zenon DEF Enqueue

\* processTxQueue takes all there is.
LEMMA ProcessTxQueueStep ==
  ASSUME AnswerIInv, ProcessTxQueue  PROVE AnswerIInv'
<1>1. /\ batch' = m_txQueue /\ m_txQueue' = << >> /\ upc = "drained" /\ upc' = "flush"
      /\ UNCHANGED <<answers, sent, lost>>
  BY Zenon DEF ProcessTxQueue
<1>2. batch = << >>
  BY <1>1, Zenon DEF AnswerIInv
<1> QED  BY <1>1, <1>2, EmptyQueue, Zenon DEF AnswerIInv

\* flushPacket: the first of the batch is sent, lost, or queued again.
LEMMA FlushStep ==
  ASSUME AnswerIInv, FlushSent \/ FlushFails \/ FlushBlocks \/ FlushInterrupted
  PROVE  AnswerIInv'
<1> PICK x : x = Head(batch)
  BY Zenon
<1>1. upc = "flush" /\ batch # << >> /\ batch' = Tail(batch) /\ UNCHANGED <<upc, answers>>
  BY Zenon DEF FlushSent, FlushFails, FlushBlocks, FlushInterrupted
<1>2. /\ x \in Nat /\ batch' \in Seq(Nat) /\ Range(batch) = {x} \cup Range(batch')
      /\ IsInjective(batch') /\ x \notin Range(batch')
  BY <1>1, ElementsOfTail, InjectiveTail, Zenon DEF AnswerIInv
<1>3. x \notin Range(m_txQueue) \cup sent \cup lost
  BY <1>2, Zenon DEF AnswerIInv
<1>4. CASE sent' = sent \cup {x} /\ UNCHANGED <<m_txQueue, lost>>
  BY <1>1, <1>2, <1>3, <1>4 DEF AnswerIInv
<1>5. CASE lost' = lost \cup {x} /\ UNCHANGED <<m_txQueue, sent>>
  BY <1>1, <1>2, <1>3, <1>5 DEF AnswerIInv
<1>6. CASE m_txQueue' = Append(m_txQueue, x) /\ UNCHANGED <<lost, sent>>
  <2>1. /\ m_txQueue' \in Seq(Nat) /\ Range(m_txQueue') = Range(m_txQueue) \cup {x}
        /\ IsInjective(m_txQueue')
    BY <1>2, <1>3, <1>6, QueuedOnce, Zenon
  <2> QED  BY <1>1, <1>2, <1>3, <1>6, <2>1 DEF AnswerIInv
<1> QED
  BY <1>4, <1>5, <1>6, Zenon DEF FlushSent, FlushFails, FlushBlocks, FlushInterrupted, Enqueue

\* The other steps leave the answers where they are.
LEMMA AnswerStep == AnswerIInv /\ [UdpNext]_udpVars => AnswerIInv'
<1> SUFFICES ASSUME AnswerIInv, [UdpNext]_udpVars  PROVE AnswerIInv'
  BY Zenon
<1>1. ASSUME UNCHANGED <<m_txQueue, batch, answers, sent, lost>>,
             upc' # "flush" => upc # "flush" \/ batch = << >>
      PROVE  AnswerIInv'
  BY <1>1, Zenon DEF AnswerIInv
<1>2. CASE \E k \in Keys, e \in BOOLEAN : Arrives(k, e)
  BY <1>1, <1>2, Zenon DEF Arrives, txVars
<1>3. ASSUME NEW p \in Shards, EnqueueTx(p) \/ Wakeup(p)  PROVE AnswerIInv'
  BY <1>1, <1>3, EnqueueTxStep, Zenon DEF Wakeup
<1>4. CASE \E w \in Workers : Handle(w)
  BY <1>1, <1>4, Zenon DEF Handle, txVars
<1>5. CASE Wait \/ DrainWakeup \/ Recv \/ WaitAgain \/ RecvFrom \/ RecvEmpty \/ RecvEnds \/ FlushEnds
  BY <1>1, <1>5
     DEF Wait, DrainWakeup, Recv, WaitAgain, RecvFrom, RecvEmpty, RecvEnds, FlushEnds, txVars
<1>6. CASE UNCHANGED udpVars
  BY <1>1, <1>6, Zenon DEF udpVars, txVars
<1> QED
  BY <1>2, <1>3, <1>4, <1>5, <1>6, ProcessTxQueueStep, FlushStep, Zenon DEF UdpNext, UdpReactor

(***************************************************************************)
(* No answer is duplicated or mislaid by flushPacket putting it back into  *)
(* the queue.                                                              *)
(***************************************************************************)
THEOREM UdpAnswerKept == UdpSpec => []AnswerKept
<1>1. AnswerIInv => AnswerKept
  BY InjectiveConcat DEF AnswerIInv, AnswerKept
<1> QED  BY <1>1, AnswerInitially, AnswerStep, PTL DEF UdpSpec

\* EINTR and EAGAIN concern answers that are not in the queue.
LEMMA FirstOfBatch ==
  ASSUME AnswerIInv, batch # << >>  PROVE Head(batch) \notin Range(m_txQueue) /\ Head(batch) \notin lost
<1>1. Range(batch) = {Head(batch)} \cup Range(Tail(batch))
  BY ElementsOfTail, Zenon DEF AnswerIInv
<1> QED  BY <1>1, Zenon DEF AnswerIInv

\* Every step keeps the answers announced.
LEMMA AnnouncedStep == AnswerIInv /\ AnswerAnnounced /\ [UdpNext]_udpVars => AnswerAnnounced'
<1> SUFFICES ASSUME AnswerIInv, AnswerAnnounced, [UdpNext]_udpVars  PROVE AnswerAnnounced'
  BY Zenon
<1>1. ASSUME UNCHANGED <<m_txQueue, putBack>>, eventFd => eventFd', waking # {} => waking' # {} \/ eventFd',
             upc = "drained" => upc' = "drained"
      PROVE  AnswerAnnounced'
  BY <1>1, Zenon DEF AnswerAnnounced
<1>2. CASE \E k \in Keys, e \in BOOLEAN : Arrives(k, e)
  BY <1>1, <1>2 DEF Arrives, txVars
<1>3. ASSUME NEW p \in Shards, EnqueueTx(p)  PROVE AnswerAnnounced'
  <2> PICK x : x = answers + 1
    BY Zenon
  <2>1. /\ answers' = x /\ Enqueue(x) /\ UNCHANGED <<eventFd, putBack, upc>>
        /\ waking' = IF x \in lost' THEN waking ELSE waking \cup {p}
    BY <1>3, Zenon DEF EnqueueTx
  <2>2. CASE UNCHANGED m_txQueue
    BY <1>1, <2>1, <2>2, Zenon
  <2>3. CASE lost' = lost
    <3>1. x \notin lost
      BY DEF AnswerIInv
    <3> QED  BY <2>1, <2>3, <3>1, Zenon DEF AnswerAnnounced
  <2> QED  BY <2>1, <2>2, <2>3, Zenon DEF Enqueue
<1>4. ASSUME NEW p \in Shards, Wakeup(p)  PROVE AnswerAnnounced'
  BY <1>4, Zenon DEF Wakeup, AnswerAnnounced
<1>5. CASE \E w \in Workers : Handle(w)
  BY <1>1, <1>5 DEF Handle, txVars
<1>6. CASE Wait \/ Recv \/ WaitAgain \/ RecvFrom \/ RecvEmpty \/ RecvEnds \/ FlushEnds
  BY <1>1, <1>6 DEF Wait, Recv, WaitAgain, RecvFrom, RecvEmpty, RecvEnds, FlushEnds, txVars
<1>7. CASE DrainWakeup
  BY <1>7, Zenon DEF DrainWakeup, AnswerAnnounced
<1>8. CASE ProcessTxQueue
  BY <1>8, EmptyQueue, Zenon DEF ProcessTxQueue, AnswerAnnounced
<1>9. CASE FlushSent \/ FlushFails
  <2>1. /\ batch # << >> /\ putBack' = putBack \ {Head(batch)} /\ upc # "drained"
        /\ UNCHANGED <<m_txQueue, eventFd, waking>>
    BY <1>9 DEF FlushSent, FlushFails
  <2> QED  BY <2>1, FirstOfBatch, Zenon DEF AnswerAnnounced
<1>10. CASE FlushBlocks
  BY <1>10, Zenon DEF FlushBlocks, AnswerAnnounced
<1>11. CASE FlushInterrupted
  <2> PICK x : x = Head(batch)
    BY Zenon
  <2>1. /\ batch # << >> /\ Enqueue(x) /\ putBack' = (putBack \cup {x}) \ lost' /\ upc # "drained"
        /\ UNCHANGED <<eventFd, waking>>
    BY <1>11 DEF FlushInterrupted
  <2>2. x \notin Range(m_txQueue) /\ x \notin lost /\ Range(m_txQueue) \cap lost = {}
    BY <2>1, FirstOfBatch, Zenon DEF AnswerIInv
  <2>3. CASE m_txQueue' = Append(m_txQueue, x) /\ UNCHANGED lost
    <3>1. x \in Nat
      <4>1. batch \in Seq(Nat)
        BY Zenon DEF AnswerIInv
      <4> QED  BY <2>1, <4>1
    <3>2. Range(m_txQueue') = Range(m_txQueue) \cup {x}
      BY <2>2, <2>3, <3>1, QueuedOnce, Zenon
    <3> QED  BY <2>1, <2>2, <2>3, <3>2, Zenon DEF AnswerAnnounced
  <2>4. CASE lost' = lost \cup {x} /\ UNCHANGED m_txQueue
    BY <2>1, <2>2, <2>4, Zenon DEF AnswerAnnounced
  <2> QED  BY <2>1, <2>3, <2>4, Zenon DEF Enqueue
<1>12. CASE UNCHANGED udpVars
  BY <1>1, <1>12, Zenon DEF udpVars, txVars
<1> QED
  BY <1>2, <1>3, <1>4, <1>5, <1>6, <1>7, <1>8, <1>9, <1>10, <1>11, <1>12, Zenon DEF UdpNext, UdpReactor

(***************************************************************************)
(* An answer that enqueueTx took, or that flushPacket put back because the *)
(* socket was full, is never left in m_txQueue without a wakeup: the       *)
(* eventfd is drained before the queue is taken.                           *)
(***************************************************************************)
THEOREM UdpAnswerAnnounced == UdpSpec => []AnswerAnnounced
<1>1. UdpInit => AnswerAnnounced
  BY EmptyQueue, Zenon DEF UdpInit, AnswerAnnounced
<1> QED  BY <1>1, AnswerInitially, AnswerStep, AnnouncedStep, PTL DEF UdpSpec
-----------------------------------------------------------------------------
(***************************************************************************)
(* PeerOrder.  A datagram is behind the ones of its worker that were       *)
(* handled or wait in the worker's ring, and the socket's buffer is behind *)
(* them all; datagrams of one peer have one worker.                        *)
(***************************************************************************)
Below(A, B) == \A a \in A, b \in B : a < b

Increasing(s) == \A i, j \in DOMAIN s : i < j => s[i] < s[j]

OrderIInv ==
  /\ arrived \in Seq([key : Keys, empty : BOOLEAN])
  /\ sock \in Seq(Nat) /\ handled \in Seq(Nat) /\ rxQueue \in [Workers -> Seq(Nat)]
  /\ \A d \in Range(sock) \cup Range(handled) : d \in 1..Len(arrived)
  /\ Increasing(sock) /\ Below(Range(handled), Range(sock))
  /\ \A w \in Workers :
       /\ Increasing(rxQueue[w]) /\ Below(Range(rxQueue[w]), Range(sock))
       /\ \A d \in Range(rxQueue[w]) : d \in 1..Len(arrived) /\ WorkerOf(d) = w
       /\ Below({d \in Range(handled) : WorkerOf(d) = w}, Range(rxQueue[w]))
  /\ \A i, j \in DOMAIN handled :
       i < j /\ WorkerOf(handled[i]) = WorkerOf(handled[j]) => handled[i] < handled[j]

\* Its conjuncts
LEMMA OrderTypes ==
  ASSUME OrderIInv
  PROVE  /\ arrived \in Seq([key : Keys, empty : BOOLEAN])
         /\ sock \in Seq(Nat) /\ handled \in Seq(Nat) /\ rxQueue \in [Workers -> Seq(Nat)]
BY Zenon DEF OrderIInv

\* the socket buffer,
LEMMA OrderSock ==
  ASSUME OrderIInv
  PROVE  /\ \A d \in Range(sock) \cup Range(handled) : d \in 1..Len(arrived)
         /\ Increasing(sock) /\ Below(Range(handled), Range(sock))
BY Zenon DEF OrderIInv

\* the rings of the workers,
LEMMA OrderQueue ==
  ASSUME OrderIInv, NEW w \in Workers
  PROVE  /\ Increasing(rxQueue[w]) /\ Below(Range(rxQueue[w]), Range(sock))
         /\ \A d \in Range(rxQueue[w]) : d \in 1..Len(arrived) /\ WorkerOf(d) = w
         /\ Below({d \in Range(handled) : WorkerOf(d) = w}, Range(rxQueue[w]))
BY Zenon DEF OrderIInv

\* and what was handled.
LEMMA OrderHandled ==
  ASSUME OrderIInv
  PROVE  \A i, j \in DOMAIN handled :
           i < j /\ WorkerOf(handled[i]) = WorkerOf(handled[j]) => handled[i] < handled[j]
BY Zenon DEF OrderIInv

\* A larger element goes to the end,
LEMMA IncreasingAppend ==
  ASSUME NEW s \in Seq(Nat), NEW x \in Nat, Increasing(s), Below(Range(s), {x})
  PROVE  Increasing(Append(s, x))
<1> PICK n \in Nat : n = Len(s)
  OBVIOUS
<1>1. DOMAIN s = 1..n /\ DOMAIN Append(s, x) = 1..(n + 1)
  BY AppendProperties
<1> PICK t : t = Append(s, x)
  BY Zenon
<1>2. t[n + 1] = x /\ \A i \in 1..n : t[i] = s[i]
  BY AppendProperties
<1>3. \A i \in 1..n : s[i] < x
  BY <1>1, Zenon DEF Below, Range
<1>4. ASSUME NEW i \in 1..(n + 1), NEW j \in 1..(n + 1), i < j  PROVE t[i] < t[j]
  <2>1. i \in 1..n /\ (j \in 1..n \/ j = n + 1)
    BY ONLY <1>4, n \in Nat, i \in 1..(n + 1), j \in 1..(n + 1)
  <2> QED  BY <1>1, <1>2, <1>3, <1>4, <2>1, Zenon DEF Increasing
<1> QED  BY <1>1, <1>4, Zenon DEF Increasing

\* and the first one is taken from the front.
LEMMA IncreasingTail ==
  ASSUME NEW s \in Seq(Nat), s # << >>, Increasing(s)
  PROVE  Increasing(Tail(s)) /\ Below({Head(s)}, Range(Tail(s)))
<1>1. \A i \in DOMAIN Tail(s) : i \in Nat /\ i + 1 \in DOMAIN s /\ Tail(s)[i] = s[i + 1]
  BY TailElements, Zenon
<1>2. 1 \in DOMAIN s /\ s[1] = Head(s)
  BY TailElements, Zenon
<1>3. ASSUME NEW i \in DOMAIN Tail(s), NEW j \in DOMAIN Tail(s), i < j
      PROVE  Tail(s)[i] < Tail(s)[j]
  <2>1. i + 1 < j + 1
    BY <1>1, <1>3
  <2> QED  BY <1>1, <2>1, Zenon DEF Increasing
<1>4. ASSUME NEW i \in DOMAIN Tail(s)  PROVE Head(s) < Tail(s)[i]
  <2>1. i # 0
    <3>1. DOMAIN Tail(s) = 1..Len(Tail(s))
      BY TailElements
    <3> QED  BY <3>1
  <2>2. 1 < i + 1
    BY <1>1, <2>1
  <2> QED  BY <1>1, <1>2, <2>2, Zenon DEF Increasing
<1> QED  BY <1>3, <1>4, Zenon DEF Increasing, Below, Range

\* The worker of a datagram
LEMMA WorkerType ==
  ASSUME OrderIInv, NEW d \in 1..Len(arrived)
  PROVE  WorkerOf(d) \in Workers
<1>1. arrived[d].key \in Nat /\ NumWorkers \in Nat \ {0}
  <2>1. arrived[d] \in [key : Keys, empty : BOOLEAN]
    BY ElementOfSeq, Zenon DEF OrderIInv
  <2> QED  BY <2>1, UdpAssumption, Zenon
<1> PICK k \in Nat : k = arrived[d].key
  BY <1>1, Zenon
<1>2. k % NumWorkers \in 0..(NumWorkers - 1)
  BY <1>1
<1> QED  BY <1>2, Zenon DEF WorkerOf, Workers

\* It holds at first
LEMMA OrderInitially == UdpInit => OrderIInv
<1> SUFFICES ASSUME UdpInit  PROVE OrderIInv
  BY Zenon
<1>1. arrived = << >> /\ sock = << >> /\ handled = << >> /\ rxQueue = [w \in Workers |-> << >>]
  BY Zenon DEF UdpInit
<1>2. \A w \in Workers : rxQueue[w] = << >>
  BY <1>1, Zenon
<1>3. Range(<< >>) = {} /\ DOMAIN << >> = {}
  BY EmptyQueue
<1>4. Increasing(<< >>)
  BY <1>3, Zenon DEF Increasing
<1>5. arrived \in Seq([key : Keys, empty : BOOLEAN]) /\ rxQueue \in [Workers -> Seq(Nat)]
  BY <1>1
<1> QED  BY <1>1, <1>2, <1>3, <1>4, <1>5, EmptyQueue, Zenon DEF OrderIInv, Below

\* A datagram that arrives is behind all others.
LEMMA ArrivesStep ==
  ASSUME OrderIInv, NEW k \in Keys, NEW e \in BOOLEAN, Arrives(k, e)
  PROVE  OrderIInv'
<1> PICK n \in Nat : n = Len(arrived)
  BY DEF OrderIInv
<1>1. /\ arrived' = Append(arrived, [key |-> k, empty |-> e]) /\ UNCHANGED <<rxQueue, handled>>
      /\ sock' = Append(sock, Len(arrived'))
  BY Zenon DEF Arrives
<1>2. /\ arrived' \in Seq([key : Keys, empty : BOOLEAN]) /\ Len(arrived') = n + 1
      /\ \A d \in 1..n : arrived'[d] = arrived[d]
  <2>1. [key |-> k, empty |-> e] \in [key : Keys, empty : BOOLEAN]
    BY Zenon
  <2>2. arrived \in Seq([key : Keys, empty : BOOLEAN])
    BY OrderTypes, Zenon
  <2> QED  BY ONLY n = Len(arrived), <1>1, <2>1, <2>2, AppendProperties
<1>3. \A d \in 1..n : WorkerOf(d)' = WorkerOf(d) /\ d \in 1..(n + 1) /\ d < n + 1
  BY <1>2 DEF WorkerOf
<1>4. sock' \in Seq(Nat) /\ Range(sock') = Range(sock) \cup {n + 1}
  <2>1. n + 1 \in Nat /\ sock' = Append(sock, n + 1) /\ sock \in Seq(Nat)
    BY <1>1, <1>2, OrderTypes
  <2> QED  BY ONLY <2>1, ElementsOfAppend
<1>5. Increasing(sock')
  <2>1. \A d \in Range(sock) : d \in 1..n
    BY OrderSock, Zenon
  <2>2. Below(Range(sock), {n + 1})
    BY ONLY <1>3, <2>1, Zenon DEF Below
  <2>3. sock' = Append(sock, n + 1) /\ n + 1 \in Nat
    BY <1>1, <1>2
  <2>4. sock \in Seq(Nat) /\ Increasing(sock)
    BY OrderTypes, OrderSock, Zenon
  <2> QED  BY ONLY <2>2, <2>3, <2>4, IncreasingAppend, Zenon
<1>6. \A d \in Range(sock') \cup Range(handled) : d \in 1..(n + 1)
  BY <1>3, <1>4 DEF OrderIInv
<1>7. Below(Range(handled), Range(sock'))
  BY <1>3, <1>4, Zenon DEF OrderIInv, Below
<1>8. ASSUME NEW w \in Workers
      PROVE  /\ Below(Range(rxQueue[w]), Range(sock'))
             /\ \A d \in Range(rxQueue[w]) : d \in 1..(n + 1) /\ WorkerOf(d)' = w
             /\ Below({d \in Range(handled) : WorkerOf(d)' = w}, Range(rxQueue[w]))
  <2>1. Below(Range(rxQueue[w]), Range(sock'))
    <3>1. /\ Below(Range(rxQueue[w]), Range(sock))
          /\ \A d \in Range(rxQueue[w]) : d \in 1..n
      BY OrderQueue, Zenon
    <3> QED  BY ONLY <1>3, <1>4, <3>1, Zenon DEF Below
  <2>2. \A d \in Range(rxQueue[w]) : d \in 1..(n + 1) /\ WorkerOf(d)' = w
    BY <1>3, Zenon DEF OrderIInv
  <2>3. Below({d \in Range(handled) : WorkerOf(d)' = w}, Range(rxQueue[w]))
    <3>1. \A d \in Range(handled) : WorkerOf(d)' = WorkerOf(d)
      BY <1>3, Zenon DEF OrderIInv
    <3> QED  BY <3>1, Zenon DEF OrderIInv, Below
  <2> QED  BY <2>1, <2>2, <2>3, Zenon
<1>9. \A i \in DOMAIN handled : WorkerOf(handled[i])' = WorkerOf(handled[i])
  <2>1. \A i \in DOMAIN handled : handled[i] \in 1..n /\ handled'[i] = handled[i]
    BY <1>1, Zenon DEF OrderIInv, Range
  <2> QED  BY <1>1, <1>3, <2>1, Zenon
<1>10. \A i, j \in DOMAIN handled' :
         i < j /\ WorkerOf(handled[i])' = WorkerOf(handled[j])' => handled'[i] < handled'[j]
  <2>1. handled' = handled
    BY <1>1, Zenon
  <2> QED  BY ONLY OrderIInv, <1>9, <2>1, OrderHandled
<1>11. handled' \in Seq(Nat) /\ rxQueue' \in [Workers -> Seq(Nat)]
       /\ \A w \in Workers : rxQueue'[w] = rxQueue[w] /\ Increasing(rxQueue[w])
  BY <1>1, Zenon DEF OrderIInv
<1> QED
  BY <1>1, <1>2, <1>4, <1>5, <1>6, <1>7, <1>8, <1>10, <1>11, Zenon DEF OrderIInv

\* receivePackets takes the first datagram of the buffer.
LEMMA BufferShrinks ==
  ASSUME OrderIInv, sock # << >>, sock' = Tail(sock)
  PROVE  /\ sock' \in Seq(Nat) /\ Increasing(sock') /\ Range(sock') \subseteq Range(sock)
         /\ Head(sock) \in Range(sock) /\ Below({Head(sock)}, Range(sock'))
<1>1. /\ sock \in Seq(Nat) /\ Increasing(sock)
  BY Zenon DEF OrderIInv
<1>2. sock' \in Seq(Nat) /\ Range(sock) = {Head(sock)} \cup Range(sock')
  BY <1>1, ElementsOfTail, Zenon
<1> QED  BY <1>1, <1>2, IncreasingTail, Zenon

\* An empty one, and one whose worker's ring is full, is gone.
LEMMA DatagramDropped ==
  ASSUME OrderIInv, sock # << >>, sock' = Tail(sock), UNCHANGED <<arrived, rxQueue, handled>>
  PROVE  OrderIInv'
<1>1. \A d : WorkerOf(d)' = WorkerOf(d)
  BY Zenon DEF WorkerOf
<1> QED  BY <1>1, BufferShrinks, Zenon DEF OrderIInv, Below

\* Its worker's ring takes it, or not.
LEMMA RecvFromStep ==
  ASSUME OrderIInv, RecvFrom  PROVE OrderIInv'
<1> PICK d : d = Head(sock)
  BY Zenon
<1>1. sock # << >> /\ sock' = Tail(sock) /\ UNCHANGED <<arrived, handled>>
  BY Zenon DEF RecvFrom
<1>2. /\ sock' \in Seq(Nat) /\ Increasing(sock') /\ Range(sock') \subseteq Range(sock)
      /\ d \in Range(sock) /\ Below({d}, Range(sock'))
  BY <1>1, BufferShrinks, Zenon
<1>3. \A x : WorkerOf(x)' = WorkerOf(x)
  BY <1>1, Zenon DEF WorkerOf
<1>4. d \in 1..Len(arrived) /\ d \in Nat /\ WorkerOf(d) \in Workers
  <2>1. d \in 1..Len(arrived)
    BY <1>2, Zenon DEF OrderIInv
  <2>2. WorkerOf(d) \in Workers
    BY <2>1, WorkerType, Zenon
  <2> QED  BY <2>1, <2>2
<1>5. CASE UNCHANGED rxQueue
  BY <1>1, <1>5, DatagramDropped, Zenon
<1>6. CASE rxQueue' = [rxQueue EXCEPT ![WorkerOf(d)] = Append(@, d)]
  <2> PICK v \in Workers : v = WorkerOf(d)
    BY <1>4, Zenon
  <2>1. /\ rxQueue[v] \in Seq(Nat) /\ Increasing(rxQueue[v]) /\ Below(Range(rxQueue[v]), {d})
        /\ rxQueue'[v] = Append(rxQueue[v], d)
    <3>1. rxQueue \in [Workers -> Seq(Nat)]
      BY OrderTypes, Zenon
    <3>2. Increasing(rxQueue[v]) /\ Below(Range(rxQueue[v]), Range(sock))
      BY OrderQueue, Zenon
    <3>3. Below(Range(rxQueue[v]), {d})
      BY ONLY <1>2, <3>2, Zenon DEF Below
    <3>4. rxQueue'[v] = Append(rxQueue[v], d)
      BY ONLY <1>6, <3>1, v \in Workers, v = WorkerOf(d), Zenon
    <3> QED  BY ONLY <3>1, <3>2, <3>3, <3>4, v \in Workers, Zenon
  <2>2. rxQueue'[v] \in Seq(Nat) /\ Range(rxQueue'[v]) = Range(rxQueue[v]) \cup {d}
    <3>1. d \in Nat /\ rxQueue[v] \in Seq(Nat) /\ rxQueue'[v] = Append(rxQueue[v], d)
      BY ONLY <1>4, <2>1, Zenon
    <3> QED  BY ONLY <3>1, ElementsOfAppend
  <2>3. Increasing(rxQueue'[v])
    BY <1>4, <2>1, IncreasingAppend, Zenon
  <2>4. \A w \in Workers \ {v} : rxQueue'[w] = rxQueue[w]
    BY <1>6, Zenon DEF OrderIInv
  <2>5. rxQueue' \in [Workers -> Seq(Nat)]
    BY <1>6, <2>1, <2>2, Zenon DEF OrderIInv
  <2>6. Below({x \in Range(handled) : WorkerOf(x) = v}, Range(rxQueue'[v]))
    <3>1. /\ Below({x \in Range(handled) : WorkerOf(x) = v}, Range(rxQueue[v]))
          /\ Below(Range(handled), Range(sock))
      BY OrderQueue, OrderSock, Zenon
    <3> QED  BY ONLY <1>2, <2>2, <3>1, Zenon DEF Below
  <2>7. Below(Range(rxQueue'[v]), Range(sock'))
    BY <1>2, <2>2, Zenon DEF OrderIInv, Below
  <2>8. \A x \in Range(rxQueue'[v]) : x \in 1..Len(arrived) /\ WorkerOf(x) = v
    BY <1>4, <2>2, Zenon DEF OrderIInv
  <2>9. \A w \in Workers \ {v} : Below(Range(rxQueue'[w]), Range(sock'))
    BY <1>2, <2>4, Zenon DEF OrderIInv, Below
  <2>10. Below(Range(handled), Range(sock'))
    BY <1>2, Zenon DEF OrderIInv, Below
  <2>11. ASSUME NEW w \in Workers
         PROVE  /\ Increasing(rxQueue'[w]) /\ Below(Range(rxQueue'[w]), Range(sock'))
                /\ \A x \in Range(rxQueue'[w]) : x \in 1..Len(arrived) /\ WorkerOf(x) = w
                /\ Below({x \in Range(handled) : WorkerOf(x) = w}, Range(rxQueue'[w]))
    BY <2>3, <2>4, <2>6, <2>7, <2>8, <2>9, Zenon DEF OrderIInv
  <2>12. \A x \in Range(sock') \cup Range(handled) : x \in 1..Len(arrived)
    BY <1>2, Zenon DEF OrderIInv
  <2> HIDE DEF Below, Increasing
  <2> QED
    BY <1>1, <1>2, <1>3, <2>5, <2>10, <2>11, <2>12, Zenon DEF OrderIInv
<1> QED  BY <1>5, <1>6, Zenon DEF RecvFrom

\* A worker handles the first datagram of its ring: later than all it handled.
LEMMA HandleStep ==
  ASSUME OrderIInv, NEW v \in Workers, Handle(v)  PROVE OrderIInv'
<1> PICK d : d = Head(rxQueue[v])
  BY Zenon
<1>1. /\ rxQueue[v] # << >> /\ handled' = Append(handled, d) /\ UNCHANGED <<arrived, sock>>
      /\ rxQueue' = [rxQueue EXCEPT ![v] = Tail(@)]
  BY Zenon DEF Handle
<1>2. rxQueue[v] \in Seq(Nat) /\ Increasing(rxQueue[v]) /\ rxQueue'[v] = Tail(rxQueue[v])
  BY <1>1, Zenon DEF OrderIInv
<1>3. /\ d \in Nat /\ rxQueue'[v] \in Seq(Nat) /\ Range(rxQueue[v]) = {d} \cup Range(rxQueue'[v])
      /\ Increasing(rxQueue'[v]) /\ Below({d}, Range(rxQueue'[v]))
  BY <1>1, <1>2, ElementsOfTail, IncreasingTail, Zenon
<1>4. \A x : WorkerOf(x)' = WorkerOf(x)
  BY <1>1, Zenon DEF WorkerOf
<1>5. d \in 1..Len(arrived) /\ WorkerOf(d) = v /\ Below({d}, Range(sock))
  BY <1>3, Zenon DEF OrderIInv, Below
<1>6. handled' \in Seq(Nat) /\ Range(handled') = Range(handled) \cup {d}
  <2>1. handled \in Seq(Nat)
    BY Zenon DEF OrderIInv
  <2> QED  BY ONLY <1>1, <1>3, <2>1, ElementsOfAppend
<1>7. \A w \in Workers \ {v} : rxQueue'[w] = rxQueue[w]
  BY <1>1, Zenon DEF OrderIInv
<1>8. rxQueue' \in [Workers -> Seq(Nat)]
  BY <1>1, <1>2, <1>3, Zenon DEF OrderIInv
<1>9. Below({x \in Range(handled) : WorkerOf(x) = v}, {d})
  BY <1>3, Zenon DEF OrderIInv, Below
<1>10. ASSUME NEW w \in Workers
       PROVE  /\ Increasing(rxQueue'[w]) /\ Below(Range(rxQueue'[w]), Range(sock))
              /\ \A x \in Range(rxQueue'[w]) : x \in 1..Len(arrived) /\ WorkerOf(x) = w
              /\ Below({x \in Range(handled') : WorkerOf(x) = w}, Range(rxQueue'[w]))
  <2>1. CASE w = v
    <3>1. Below({x \in Range(handled') : WorkerOf(x) = v}, Range(rxQueue'[v]))
      BY <1>3, <1>6, Zenon DEF OrderIInv, Below
    <3>2. Below(Range(rxQueue'[v]), Range(sock))
      BY <1>3, Zenon DEF OrderIInv, Below
    <3> QED  BY <1>3, <2>1, <3>1, <3>2, Zenon DEF OrderIInv
  <2>2. CASE w # v
    <3>1. {x \in Range(handled') : WorkerOf(x) = w} = {x \in Range(handled) : WorkerOf(x) = w}
      BY <1>5, <1>6, <2>2, Zenon
    <3> QED  BY <1>7, <2>2, <3>1, Zenon DEF OrderIInv
  <2> QED  BY <2>1, <2>2, Zenon
<1>11. /\ \A x \in Range(sock) \cup Range(handled') : x \in 1..Len(arrived)
       /\ Below(Range(handled'), Range(sock))
  BY <1>5, <1>6, Zenon DEF OrderIInv, Below
<1>12. ASSUME NEW i \in DOMAIN handled', NEW j \in DOMAIN handled', i < j,
              WorkerOf(handled'[i]) = WorkerOf(handled'[j])
       PROVE  handled'[i] < handled'[j]
  <2> PICK n \in Nat : n = Len(handled)
    BY OrderTypes
  <2>1. /\ DOMAIN handled = 1..n /\ DOMAIN handled' = 1..(n + 1) /\ handled'[n + 1] = d
        /\ \A x \in 1..n : handled'[x] = handled[x]
    <3>1. handled \in Seq(Nat)
      BY OrderTypes, Zenon
    <3> QED  BY ONLY <1>1, <1>3, <3>1, n = Len(handled), AppendProperties
  <2>2. i \in 1..n /\ (j \in 1..n \/ j = n + 1)
    <3>1. i \in 1..(n + 1) /\ j \in 1..(n + 1) /\ i < j
      BY <1>12, <2>1, Zenon
    <3> QED  BY ONLY <3>1, n \in Nat
  <2>3. CASE j \in 1..n
    BY <1>12, <2>1, <2>2, <2>3, Zenon DEF OrderIInv
  <2>4. CASE j = n + 1
    <3>1. handled'[i] \in Range(handled)
      BY <2>1, <2>2, Zenon DEF Range
    <3> QED  BY <1>5, <1>9, <1>12, <2>1, <2>4, <3>1, Zenon DEF Below
  <2> QED  BY <2>2, <2>3, <2>4, Zenon
<1>13. arrived \in Seq([key : Keys, empty : BOOLEAN]) /\ sock \in Seq(Nat) /\ Increasing(sock)
  BY Zenon DEF OrderIInv
<1>14. \A i, j \in DOMAIN handled' :
         i < j /\ WorkerOf(handled[i])' = WorkerOf(handled[j])' => handled'[i] < handled'[j]
  BY <1>1, <1>12, Zenon DEF WorkerOf
<1> QED
  BY ONLY <1>1, <1>4, <1>6, <1>8, <1>10, <1>11, <1>13, <1>14, Zenon DEF OrderIInv

\* and every step keeps it.
LEMMA OrderStep == OrderIInv /\ [UdpNext]_udpVars => OrderIInv'
<1> SUFFICES ASSUME OrderIInv, [UdpNext]_udpVars  PROVE OrderIInv'
  BY Zenon
<1>1. ASSUME UNCHANGED rxVars  PROVE OrderIInv'
  BY <1>1, Zenon DEF OrderIInv, rxVars, WorkerOf
<1>2. CASE \E k \in Keys, e \in BOOLEAN : Arrives(k, e)
  BY <1>2, ArrivesStep, Zenon
<1>3. CASE \E p \in Shards : EnqueueTx(p) \/ Wakeup(p)
  BY <1>1, <1>3, Zenon DEF EnqueueTx, Wakeup
<1>4. CASE \E w \in Workers : Handle(w)
  BY <1>4, HandleStep, Zenon
<1>5. CASE RecvFrom
  BY <1>5, RecvFromStep, Zenon
<1>6. CASE RecvEmpty
  BY <1>6, DatagramDropped, Zenon DEF RecvEmpty
<1>7. CASE Wait \/ DrainWakeup \/ Recv \/ WaitAgain \/ RecvEnds \/ ProcessTxQueue
  BY <1>1, <1>7, Zenon DEF Wait, DrainWakeup, Recv, WaitAgain, RecvEnds, ProcessTxQueue
<1>8. CASE FlushSent \/ FlushFails \/ FlushBlocks \/ FlushInterrupted \/ FlushEnds
  BY <1>1, <1>8, Zenon DEF FlushSent, FlushFails, FlushBlocks, FlushInterrupted, FlushEnds
<1>9. CASE UNCHANGED udpVars
  BY <1>1, <1>9, Zenon DEF udpVars
<1> QED
  BY <1>2, <1>3, <1>4, <1>5, <1>6, <1>7, <1>8, <1>9, Zenon DEF UdpNext, UdpReactor

(***************************************************************************)
(* Datagrams of one peer reach RxRouter in the order of their arrival,     *)
(* for any number of workers and peers (UdpReactor, UdpWorker).            *)
(***************************************************************************)
THEOREM UdpPeerOrder == UdpSpec => []PeerOrder
<1>1. OrderIInv => PeerOrder
  <2> SUFFICES ASSUME OrderIInv, NEW i \in 1..Len(handled), NEW j \in 1..Len(handled), i < j,
                      arrived[handled[i]].key = arrived[handled[j]].key
               PROVE  handled[i] < handled[j]
    BY Zenon DEF PeerOrder
  <2>1. DOMAIN handled = 1..Len(handled)
    BY DEF OrderIInv
  <2>2. WorkerOf(handled[i]) = WorkerOf(handled[j])
    BY Zenon DEF WorkerOf
  <2> QED  BY <2>1, <2>2, Zenon DEF OrderIInv
<1> QED  BY <1>1, OrderInitially, OrderStep, PTL DEF UdpSpec
=============================================================================
