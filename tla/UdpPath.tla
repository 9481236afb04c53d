------------------------------- MODULE UdpPath -------------------------------
(***************************************************************************)
(* The UDP reactor: one thread and one socket for both directions.         *)
(* receivePackets hands every datagram to the worker of its address key;   *)
(* enqueueTx, called by the shards, queues answers and writes the eventfd; *)
(* flushPacket puts an answer back into the queue when sendto would block  *)
(* or is interrupted.  The rings are the bounded FIFOs that MpscQueue and  *)
(* SpscQueue implement.                                                    *)
(***************************************************************************)
EXTENDS Integers, Sequences, Functions

CONSTANTS Keys,          \* address keys: s_addr ^ port of the peers
          NumWorkers,    \* m_udpWorkers.size()
          Shards,        \* threads that call enqueueTx
          RxCapacity,    \* slots of a worker's ring, 65536 in the code
          TxCapacity,    \* slots of m_txQueue, 65536 in the code
          MaxDatagrams,  \* bound: datagrams in a behaviour
          MaxAnswers     \* bound: answers in a behaviour

ASSUME UdpAssumption ==
  /\ Keys \subseteq Nat
  /\ {NumWorkers, RxCapacity, TxCapacity} \subseteq Nat \ {0}

VARIABLES arrived,    \* history: datagrams [key, empty] in order of arrival
          sock,       \* datagrams (by number) in the socket's buffer
          rxQueue,    \* the workers' rings
          handled,    \* history: datagrams given to RxRouter
          dropped,    \* datagrams that found a full ring
          upc,        \* the reactor: wait, next, drained, flush, recv
          events,     \* what epoll_wait returned and is still to be served
          m_txQueue,  \* answers to send
          batch,      \* answers processTxQueue took and has not flushed
          eventFd,    \* the eventfd counter is positive
          waking,     \* shards between enqueue and wakeup
          answers,    \* answers offered to enqueueTx so far
          sent,       \* answers sendto took
          lost,       \* answers that found m_txQueue full or whose sendto failed
          putBack     \* answers queued again by EINTR, without a wakeup

rxVars == <<arrived, sock, rxQueue, handled, dropped>>
txVars == <<m_txQueue, batch, eventFd, waking, answers, sent, lost, putBack>>
udpVars == <<rxVars, upc, events, txVars>>

Workers == 0..(NumWorkers - 1)

UdpInit ==
  /\ arrived = << >> /\ sock = << >> /\ handled = << >> /\ dropped = {}
  /\ rxQueue = [w \in Workers |-> << >>]
  /\ upc = "wait" /\ events = {}
  /\ m_txQueue = << >> /\ batch = << >> /\ eventFd = FALSE /\ waking = {}
  /\ answers = 0 /\ sent = {} /\ lost = {} /\ putBack = {}

Arrives(key, empty) ==
  /\ Len(arrived) < MaxDatagrams
  /\ arrived' = Append(arrived, [key |-> key, empty |-> empty])
  /\ sock' = Append(sock, Len(arrived'))
  /\ UNCHANGED <<rxQueue, handled, dropped, upc, events, txVars>>

(***************************************************************************)
(* enqueueTx                                                               *)
(***************************************************************************)
\* MpscQueue::enqueue: false when the ring is full, and the packet is gone.
Enqueue(x) ==
  IF Len(m_txQueue) < TxCapacity
    THEN m_txQueue' = Append(m_txQueue, x) /\ UNCHANGED lost
    ELSE lost' = lost \cup {x} /\ UNCHANGED m_txQueue

EnqueueTx(p) ==
  /\ p \notin waking /\ answers < MaxAnswers
  /\ answers' = answers + 1
  /\ Enqueue(answers')
  /\ waking' = IF answers' \in lost' THEN waking ELSE waking \cup {p}
  /\ UNCHANGED <<rxVars, upc, events, batch, eventFd, sent, putBack>>

Wakeup(p) ==
  /\ p \in waking
  /\ waking' = waking \ {p} /\ eventFd' = TRUE
  /\ UNCHANGED <<rxVars, upc, events, m_txQueue, batch, answers, sent, lost, putBack>>

(***************************************************************************)
(* The loop of start: the descriptors of one epoll_wait, in any order      *)
(***************************************************************************)
Readable == (IF eventFd THEN {"wakeup"} ELSE {}) \cup (IF sock # << >> THEN {"sock"} ELSE {})

Wait ==
  /\ upc = "wait"
  /\ events' \in SUBSET Readable \ {{}}
  /\ upc' = "next"
  /\ UNCHANGED <<rxVars, txVars>>

DrainWakeup ==
  /\ upc = "next" /\ "wakeup" \in events
  /\ eventFd' = FALSE
  /\ events' = events \ {"wakeup"}
  /\ upc' = "drained"
  /\ UNCHANGED <<rxVars, m_txQueue, batch, waking, answers, sent, lost, putBack>>

Recv ==
  /\ upc = "next" /\ "sock" \in events
  /\ events' = events \ {"sock"}
  /\ upc' = "recv"
  /\ UNCHANGED <<rxVars, txVars>>

WaitAgain ==
  /\ upc = "next" /\ events = {}
  /\ upc' = "wait"
  /\ UNCHANGED <<rxVars, events, txVars>>

(***************************************************************************)
(* receivePackets                                                          *)
(***************************************************************************)
WorkerOf(d) == arrived[d].key % NumWorkers

\* Takes the workers in turn instead of by the peer's key.
RecvFromRoundRobin ==
  /\ upc = "recv" /\ sock # << >> /\ ~arrived[Head(sock)].empty
  /\ LET w == Head(sock) % NumWorkers IN
       rxQueue' = [rxQueue EXCEPT ![w] = Append(@, Head(sock))]
  /\ sock' = Tail(sock)
  /\ UNCHANGED <<arrived, handled, dropped, upc, events, txVars>>

RecvFrom ==
  /\ upc = "recv" /\ sock # << >> /\ ~arrived[Head(sock)].empty
  /\ LET w == WorkerOf(Head(sock)) IN
       IF Len(rxQueue[w]) < RxCapacity
         THEN /\ rxQueue' = [rxQueue EXCEPT ![w] = Append(@, Head(sock))]
              /\ UNCHANGED dropped
         ELSE /\ dropped' = dropped \cup {Head(sock)}
              /\ UNCHANGED rxQueue
  /\ sock' = Tail(sock)
  /\ UNCHANGED <<arrived, handled, upc, events, txVars>>

\* The whole buffer is given up with the empty datagram.
RecvEmptyDiscards ==
  /\ upc = "recv" /\ sock # << >> /\ arrived[Head(sock)].empty
  /\ sock' = << >>
  /\ upc' = "next"
  /\ UNCHANGED <<arrived, rxQueue, handled, dropped, events, txVars>>

\* bytes == 0 ends the loop; what is left makes epoll_wait return again.
RecvEmpty ==
  /\ upc = "recv" /\ sock # << >> /\ arrived[Head(sock)].empty
  /\ sock' = Tail(sock)
  /\ upc' = "next"
  /\ UNCHANGED <<arrived, rxQueue, handled, dropped, events, txVars>>

\* EAGAIN, or an error
RecvEnds ==
  /\ upc = "recv"
  /\ upc' = "next"
  /\ UNCHANGED <<rxVars, events, txVars>>

\* UdpWorker::processPacket: the worker's ring is a FIFO.
Handle(w) ==
  /\ rxQueue[w] # << >>
  /\ handled' = Append(handled, Head(rxQueue[w]))
  /\ rxQueue' = [rxQueue EXCEPT ![w] = Tail(@)]
  /\ UNCHANGED <<arrived, sock, dropped, upc, events, txVars>>

(***************************************************************************)
(* processTxQueue, flushPacket                                             *)
(***************************************************************************)
ProcessTxQueue ==
  /\ upc = "drained"
  /\ batch' = m_txQueue /\ m_txQueue' = << >>
  /\ upc' = "flush"
  /\ UNCHANGED <<rxVars, events, eventFd, waking, answers, sent, lost, putBack>>

FlushSent ==
  /\ upc = "flush" /\ batch # << >>
  /\ sent' = sent \cup {Head(batch)} /\ batch' = Tail(batch)
  /\ putBack' = putBack \ {Head(batch)}
  /\ UNCHANGED <<rxVars, upc, events, m_txQueue, eventFd, waking, answers, lost>>

\* sendto fails for another reason: logged, and the packet is gone.
FlushFails ==
  /\ upc = "flush" /\ batch # << >>
  /\ lost' = lost \cup {Head(batch)} /\ batch' = Tail(batch)
  /\ putBack' = putBack \ {Head(batch)}
  /\ UNCHANGED <<rxVars, upc, events, m_txQueue, eventFd, waking, answers, sent>>

\* Keeps the packet in the batch as well.
FlushBlocksKeeps ==
  /\ upc = "flush" /\ batch # << >>
  /\ Enqueue(Head(batch))
  /\ eventFd' = TRUE
  /\ UNCHANGED <<rxVars, upc, events, batch, waking, answers, sent, putBack>>

\* Queues the packet again without waking the reactor.
FlushBlocksUnwoken ==
  /\ upc = "flush" /\ batch # << >>
  /\ Enqueue(Head(batch)) /\ batch' = Tail(batch)
  /\ putBack' = putBack \ {Head(batch)}
  /\ UNCHANGED <<rxVars, upc, events, eventFd, waking, answers, sent>>

\* EAGAIN
FlushBlocks ==
  /\ upc = "flush" /\ batch # << >>
  /\ Enqueue(Head(batch)) /\ batch' = Tail(batch)
  /\ eventFd' = TRUE
  /\ putBack' = putBack \ {Head(batch)}
  /\ UNCHANGED <<rxVars, upc, events, waking, answers, sent>>

\* EINTR
FlushInterrupted ==
  /\ upc = "flush" /\ batch # << >>
  /\ Enqueue(Head(batch)) /\ batch' = Tail(batch)
  /\ putBack' = (putBack \cup {Head(batch)}) \ lost'
  /\ UNCHANGED <<rxVars, upc, events, eventFd, waking, answers, sent>>

FlushEnds ==
  /\ upc = "flush" /\ batch = << >>
  /\ upc' = "next"
  /\ UNCHANGED <<rxVars, events, txVars>>

UdpReactor ==
  \/ Wait \/ DrainWakeup \/ Recv \/ WaitAgain
  \/ RecvFrom \/ RecvEmpty \/ RecvEnds
  \/ ProcessTxQueue \/ FlushSent \/ FlushFails \/ FlushBlocks \/ FlushInterrupted \/ FlushEnds

UdpNext ==
  \/ \E k \in Keys, e \in BOOLEAN : Arrives(k, e)
  \/ \E p \in Shards : EnqueueTx(p) \/ Wakeup(p)
  \/ \E w \in Workers : Handle(w)
  \/ UdpReactor

UdpSpec == UdpInit /\ [][UdpNext]_udpVars

(***************************************************************************)
(* Threads run.  epoll_wait reports a descriptor that stays readable, a    *)
(* recvfrom that is called again and again does not fail for ever, and the *)
(* socket takes a datagram it is offered again and again: its buffer       *)
(* drains.                                                                 *)
(***************************************************************************)
UdpFairness ==
  /\ WF_udpVars(UdpReactor)
  /\ SF_udpVars(DrainWakeup) /\ SF_udpVars(Recv)
  /\ SF_udpVars(RecvFrom \/ RecvEmpty) /\ SF_udpVars(FlushSent)
  /\ \A p \in Shards : WF_udpVars(Wakeup(p))
  /\ \A w \in Workers : WF_udpVars(Handle(w))

UdpFairSpec == UdpSpec /\ UdpFairness
-----------------------------------------------------------------------------
(***************************************************************************)
(* Datagrams of one peer reach RxRouter in the order in which they         *)
(* arrived, although several workers handle datagrams at once.             *)
(***************************************************************************)
PeerOrder ==
  \A i, j \in 1..Len(handled) :
    i < j /\ arrived[handled[i]].key = arrived[handled[j]].key => handled[i] < handled[j]

(***************************************************************************)
(* An answer is never duplicated or mislaid by being queued again: each    *)
(* one offered is in exactly one place, the queue, the batch that is being *)
(* flushed, the network, or the losses.                                    *)
(***************************************************************************)
AnswerKept ==
  /\ IsInjective(m_txQueue \o batch)
  /\ LET q == Range(m_txQueue \o batch) IN
       /\ q \cup sent \cup lost = 1..answers
       /\ q \cap (sent \cup lost) = {} /\ sent \cap lost = {}

(***************************************************************************)
(* enqueueTx and the EAGAIN of flushPacket never leave an answer in        *)
(* m_txQueue for which the reactor is not woken: a shard is about to write *)
(* the eventfd, it is readable, or processTxQueue comes next.  Only what   *)
(* EINTR put back may lie there unannounced.                               *)
(***************************************************************************)
AnswerAnnounced ==
  (\E a \in Range(m_txQueue) : a \notin putBack) => eventFd \/ waking # {} \/ upc = "drained"

(***************************************************************************)
(* Every datagram with a payload is handled unless its worker's ring was   *)
(* full: the one behind an empty datagram, at which receivePackets stops,  *)
(* as well.                                                                *)
(***************************************************************************)
DatagramHandled ==
  \A d \in 1..MaxDatagrams :
    (d <= Len(arrived) /\ ~arrived[d].empty) ~> (d \in Range(handled) \cup dropped)

(***************************************************************************)
(* Every answer leaves the reactor, however often it is queued again; only *)
(* one that EINTR put back may wait for an answer queued later, because    *)
(* flushPacket writes no wakeup for it.                                    *)
(***************************************************************************)
AnswerFlushed ==
  \A a \in 1..MaxAnswers : (answers >= a) ~> (a \in sent \cup lost \cup putBack)
=============================================================================
