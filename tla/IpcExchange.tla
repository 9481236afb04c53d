---------------------------- MODULE IpcExchange ----------------------------
(***************************************************************************)
(* Requests of mgmtd to serverd over the unix socket, from both ends: the  *)
(* blocking IpcClient::send, one connection per call, and IpcReactor with  *)
(* its workers.  A connection is known to the workers by its descriptor    *)
(* only, and descriptors are reused.  mgmtd may die and be restarted while *)
(* its requests are being handled.  The rings between reactor and workers  *)
(* are the FIFOs that SpscQueue and MpscQueue implement; TxHandoff shows   *)
(* that a queued reply wakes the reactor.                                  *)
(***************************************************************************)
EXTENDS Integers, Sequences, FiniteSets, Functions

CONSTANTS Fds,          \* descriptors accept may return
          NumWorkers,   \* m_ipcWorkers.size()
          Callers,      \* threads of mgmtd that can be in send at once, 4 in the code
          HEADER_SIZE,  \* 2 in the code
          MAX_LEN,      \* longest body buildFrame keeps, 0xFFFF in the code
          TX_SIZE,      \* IPC_MAX_TX_BUFFER_SIZE, 65536 in the code
          Bodies,       \* lengths of the JSON texts a handler may return
          MaxCalls,     \* bound: calls of IpcClient::send
          MaxCrashes    \* bound: deaths of mgmtd

ASSUME IpcAssumption ==
  /\ {NumWorkers, Callers, HEADER_SIZE, MAX_LEN, TX_SIZE, MaxCalls} \subseteq Nat \ {0}
  /\ Bodies \subseteq Nat

VARIABLES calls,     \* calls so far; a call and its connection are known by its number
          cpc,       \* [call -> none, connected, header, waiting, replied, failed, gone]
          got,       \* [call -> the call whose reply was returned, or 0]
          backlog,   \* connections that wait for accept
          inbox,     \* [call -> parts (header, body) the reactor can read]
          wire,      \* [call -> bytes the caller can read, each marked with its call]
          shut,      \* calls whose connection the reactor has closed
          m_conns,   \* [descriptor -> connection]
          rxRing,    \* [connection -> parts in its rxRing]
          txRing,    \* [connection -> bytes in its txRing]
          armed,     \* connections with EPOLLOUT in their interest
          ready,     \* of the wakeup and listen descriptors, those reported and not served
          events,    \* events of connections that were reported and not served
          batch,     \* what dequeueAll returned and is still to be written
          dirtyFds,  \* descriptors to be flushed before the next event
          m_rr,      \* the next worker
          rxQueue,   \* the workers' rings: [fd, call]
          m_txQueue, \* replies [fd, call]
          frameLen,  \* [call -> length of its reply's frame, once built]
          dropped,   \* calls whose reply did not fit into the tx ring
          crashes    \* deaths of mgmtd so far

clientVars == <<calls, cpc, got, backlog, crashes>>
sockVars == <<inbox, wire, shut>>
connVars == <<m_conns, rxRing, txRing, armed>>
loopVars == <<ready, events, batch, dirtyFds>>
queueVars == <<m_rr, rxQueue, m_txQueue, frameLen, dropped>>
ipcVars == <<clientVars, sockVars, connVars, loopVars, queueVars>>

Calls == 1..MaxCalls
IpcWorkers == 0..(NumWorkers - 1)

IpcInit ==
  /\ calls = 0 /\ crashes = 0 /\ backlog = << >>
  /\ cpc = [k \in Calls |-> "none"] /\ got = [k \in Calls |-> 0]
  /\ inbox = [k \in Calls |-> 0] /\ wire = [k \in Calls |-> << >>] /\ shut = {}
  /\ m_conns = << >> /\ armed = {}
  /\ rxRing = [k \in Calls |-> 0] /\ txRing = [k \in Calls |-> << >>]
  /\ ready = {} /\ events = {} /\ batch = << >> /\ dirtyFds = {}
  /\ m_rr = 0 /\ rxQueue = [w \in IpcWorkers |-> << >>] /\ m_txQueue = << >>
  /\ frameLen = [k \in Calls |-> 0] /\ dropped = {}

(***************************************************************************)
(* IpcClient::send                                                         *)
(***************************************************************************)
\* The caller's end of the connection is closed.
CallerClosed(k) == cpc[k] \in {"replied", "failed", "gone"}

\* The first reply on the wire has arrived whole.
Complete(k) == wire[k] # << >> /\ Len(wire[k]) >= frameLen[Head(wire[k])]

Connect ==
  /\ calls < MaxCalls
  /\ Cardinality({k \in 1..calls : ~CallerClosed(k)}) < Callers
  /\ calls' = calls + 1
  /\ cpc' = [cpc EXCEPT ![calls'] = "connected"]
  /\ backlog' = Append(backlog, calls')
  /\ UNCHANGED <<got, crashes, sockVars, connVars, loopVars, queueVars>>

\* writeAll, for the header and then for the body
WriteAll(k) ==
  /\ cpc[k] \in {"connected", "header"}
  /\ IF k \in shut
       THEN cpc' = [cpc EXCEPT ![k] = "failed"] /\ UNCHANGED inbox
       ELSE /\ cpc' = [cpc EXCEPT ![k] = IF @ = "connected" THEN "header" ELSE "waiting"]
            /\ inbox' = [inbox EXCEPT ![k] = @ + 1]
  /\ UNCHANGED <<calls, got, backlog, crashes, wire, shut, connVars, loopVars,
                 queueVars>>

\* readExact, for the header and then for the body
ReadReply(k) ==
  /\ cpc[k] = "waiting" /\ Complete(k)
  /\ cpc' = [cpc EXCEPT ![k] = "replied"]
  /\ got' = [got EXCEPT ![k] = Head(wire[k])]
  /\ UNCHANGED <<calls, backlog, crashes, sockVars, connVars, loopVars, queueVars>>

ReadFails(k) ==
  /\ cpc[k] = "waiting" /\ ~Complete(k) /\ k \in shut
  /\ cpc' = [cpc EXCEPT ![k] = "failed"]
  /\ UNCHANGED <<calls, got, backlog, crashes, sockVars, connVars, loopVars, queueVars>>

\* mgmtd dies; its descriptors are closed.
Crash ==
  /\ crashes < MaxCrashes /\ calls > 0
  /\ crashes' = crashes + 1
  /\ cpc' = [k \in Calls |-> IF k <= calls /\ ~CallerClosed(k) THEN "gone" ELSE cpc[k]]
  /\ UNCHANGED <<calls, got, backlog, sockVars, connVars, loopVars, queueVars>>

(***************************************************************************)
(* IpcReactor: epoll_wait returns what is ready; the events are served in  *)
(* any order, by the descriptor's number.                                  *)
(***************************************************************************)
ConnEvent(d) ==
  [fd |-> d, hup |-> CallerClosed(m_conns[d]),
   in |-> inbox[m_conns[d]] > 0, out |-> m_conns[d] \in armed]

ReadyConns == {d \in DOMAIN m_conns :
                 LET e == ConnEvent(d) IN e.hup \/ e.in \/ e.out}

\* Not in the middle of an event.
Serving == batch = << >> /\ dirtyFds = {}

Wait ==
  /\ Serving /\ ready = {} /\ events = {}
  /\ ready' = {r \in {"wakeup", "listen"} :
                 IF r = "wakeup" THEN m_txQueue # << >> ELSE backlog # << >>}
  /\ events' = {ConnEvent(d) : d \in ReadyConns}
  /\ ready' # {} \/ events' # {}
  /\ UNCHANGED <<clientVars, sockVars, connVars, batch, dirtyFds, queueVars>>

\* accept until there is no connection, or no descriptor
AcceptConnection ==
  /\ Serving /\ "listen" \in ready
  /\ ready' = ready \ {"listen"}
  /\ LET free == Fds \ DOMAIN m_conns IN
       \E n \in 0..Len(backlog) : \E f \in [1..n -> free] :
         /\ IsInjective(f)
         /\ n = Len(backlog) \/ Range(f) = free
         /\ m_conns' = [d \in DOMAIN m_conns \cup Range(f) |->
                          IF d \in DOMAIN m_conns THEN m_conns[d]
                          ELSE backlog[CHOOSE i \in 1..n : f[i] = d]]
         /\ backlog' = SubSeq(backlog, n + 1, Len(backlog))
  /\ UNCHANGED <<calls, cpc, got, crashes, sockVars, rxRing, txRing, armed, events, batch,
                 dirtyFds, queueVars>>

CloseConnection(d) ==
  /\ m_conns' = Restrict(m_conns, DOMAIN m_conns \ {d})
  /\ shut' = shut \cup {m_conns[d]}

\* EPOLLERR, EPOLLHUP or EPOLLRDHUP
Hup(e) ==
  /\ Serving /\ e.hup
  /\ events' = events \ {e}
  /\ IF e.fd \in DOMAIN m_conns THEN CloseConnection(e.fd) ELSE UNCHANGED <<m_conns, shut>>
  /\ UNCHANGED <<clientVars, inbox, wire, rxRing, txRing, armed, ready, batch, dirtyFds,
                 queueVars>>

\* A whole frame goes to the next worker.
ExtractFrame(d, parts) ==
  IF parts = 2
    THEN /\ rxRing' = [rxRing EXCEPT ![m_conns[d]] = 0]
         /\ rxQueue' = [rxQueue EXCEPT ![m_rr] = Append(@, [fd |-> d, call |-> m_conns[d]])]
         /\ m_rr' = (m_rr + 1) % NumWorkers
    ELSE /\ rxRing' = [rxRing EXCEPT ![m_conns[d]] = parts]
         /\ UNCHANGED <<rxQueue, m_rr>>

\* receive reads what is there; the end of the stream closes the connection.
\* EPOLLOUT of the same event is next.
Receive(e) ==
  /\ Serving /\ ~e.hup /\ e.in
  /\ events' = events \ {e}
  /\ dirtyFds' = (IF e.out THEN {e.fd} ELSE {})
  /\ IF e.fd \in DOMAIN m_conns
       THEN LET k == m_conns[e.fd] IN
              /\ inbox' = [inbox EXCEPT ![k] = 0]
              /\ ExtractFrame(e.fd, rxRing[k] + inbox[k])
              /\ IF CallerClosed(k) THEN CloseConnection(e.fd)
                                    ELSE UNCHANGED <<m_conns, shut>>
       ELSE UNCHANGED <<inbox, shut, m_conns, rxRing, m_rr, rxQueue>>
  /\ UNCHANGED <<clientVars, wire, txRing, armed, ready, batch, m_txQueue, frameLen, dropped>>

\* EPOLLOUT
Writable(e) ==
  /\ Serving /\ ~e.hup /\ ~e.in
  /\ events' = events \ {e}
  /\ dirtyFds' = {e.fd}
  /\ UNCHANGED <<clientVars, sockVars, connVars, ready, batch, queueVars>>

(***************************************************************************)
(* The workers, and processTxQueue with flushTxBuffer                      *)
(***************************************************************************)
\* IpcMessage::buildFrame
FrameLen(body) == HEADER_SIZE + (IF body > MAX_LEN THEN MAX_LEN ELSE body)

\* IpcCommandHandler::handle: every command, known or not, and every text that
\* is not JSON is answered; the answer is known by its length.
HandlerReplies == Bodies

\* IpcWorker::drainRxQueue: handle the request and queue the reply.
HandleRequest(w) ==
  /\ rxQueue[w] # << >>
  /\ rxQueue' = [rxQueue EXCEPT ![w] = Tail(@)]
  /\ m_txQueue' = Append(m_txQueue, Head(rxQueue[w]))
  /\ \E body \in HandlerReplies :
       frameLen' = [frameLen EXCEPT ![Head(rxQueue[w]).call] = FrameLen(body)]
  /\ UNCHANGED <<clientVars, sockVars, connVars, loopVars, m_rr, dropped>>

\* dequeueAll
ProcessTxQueue ==
  /\ Serving /\ "wakeup" \in ready
  /\ ready' = ready \ {"wakeup"}
  /\ batch' = m_txQueue /\ m_txQueue' = << >>
  /\ UNCHANGED <<clientVars, sockVars, connVars, events, dirtyFds, m_rr, rxQueue, frameLen,
                 dropped>>

ReplyBytes(m) == [i \in 1..frameLen[m.call] |-> m.call]

Fits(m) == Len(txRing[m_conns[m.fd]]) + frameLen[m.call] <= TX_SIZE

\* Flushes only the connection written last.
WriteReplyOne ==
  /\ batch # << >> /\ batch' = Tail(batch)
  /\ LET m == Head(batch) IN
       IF m.fd \notin DOMAIN m_conns
         THEN UNCHANGED <<txRing, dirtyFds, dropped>>
         ELSE IF Fits(m)
           THEN /\ txRing' = [txRing EXCEPT ![m_conns[m.fd]] = @ \o ReplyBytes(m)]
                /\ dirtyFds' = {m.fd}
                /\ UNCHANGED dropped
           ELSE /\ dropped' = dropped \cup {m.call}
                /\ UNCHANGED <<txRing, dirtyFds>>
  /\ UNCHANGED <<clientVars, sockVars, m_conns, rxRing, armed, ready, events, m_rr, rxQueue,
                 m_txQueue, frameLen>>

\* One message: its connection is gone, or the reply fits the ring or is dropped.
WriteReply ==
  /\ batch # << >> /\ batch' = Tail(batch)
  /\ LET m == Head(batch) IN
       IF m.fd \notin DOMAIN m_conns
         THEN UNCHANGED <<txRing, dirtyFds, dropped>>
         ELSE IF Fits(m)
           THEN /\ txRing' = [txRing EXCEPT ![m_conns[m.fd]] = @ \o ReplyBytes(m)]
                /\ dirtyFds' = dirtyFds \cup {m.fd}
                /\ UNCHANGED dropped
           ELSE /\ dropped' = dropped \cup {m.call}
                /\ UNCHANGED <<txRing, dirtyFds>>
  /\ UNCHANGED <<clientVars, sockVars, m_conns, rxRing, armed, ready, events, m_rr, rxQueue,
                 m_txQueue, frameLen>>

\* flushTxBuffer is called for d.
FlushTxBuffer(d) == batch = << >> /\ d \in dirtyFds /\ dirtyFds' = dirtyFds \ {d}

\* There is something to send.
Unsent(d) == d \in DOMAIN m_conns /\ txRing[m_conns[d]] # << >>

FlushNothing(d) ==
  /\ FlushTxBuffer(d) /\ ~Unsent(d)
  /\ UNCHANGED <<clientVars, sockVars, connVars, ready, events, batch, queueVars>>

\* Closes the connection after a short send as well.
FlushPartCloses(d, n) ==
  /\ FlushTxBuffer(d) /\ Unsent(d) /\ ~CallerClosed(m_conns[d])
  /\ n < Len(txRing[m_conns[d]])
  /\ wire' = [wire EXCEPT ![m_conns[d]] = @ \o SubSeq(txRing[m_conns[d]], 1, n)]
  /\ CloseConnection(d)
  /\ UNCHANGED <<clientVars, inbox, rxRing, txRing, armed, ready, events, batch, queueVars>>

\* send takes n bytes and then no more; 0 stands for EAGAIN at once.
FlushPart(d, n) ==
  /\ FlushTxBuffer(d) /\ Unsent(d) /\ ~CallerClosed(m_conns[d])
  /\ LET k == m_conns[d] IN
       /\ n < Len(txRing[k])
       /\ wire' = [wire EXCEPT ![k] = @ \o SubSeq(txRing[k], 1, n)]
       /\ txRing' = [txRing EXCEPT ![k] = SubSeq(@, n + 1, Len(@))]
       /\ armed' = armed \cup {k}
  /\ UNCHANGED <<clientVars, inbox, shut, m_conns, rxRing, ready, events, batch, queueVars>>

\* With the whole ring sent the connection is closed.
FlushWhole(d) ==
  /\ FlushTxBuffer(d) /\ Unsent(d) /\ ~CallerClosed(m_conns[d])
  /\ LET k == m_conns[d] IN
       /\ wire' = [wire EXCEPT ![k] = @ \o txRing[k]]
       /\ txRing' = [txRing EXCEPT ![k] = << >>]
  /\ CloseConnection(d)
  /\ UNCHANGED <<clientVars, inbox, rxRing, armed, ready, events, batch, queueVars>>

\* The peer has closed its end.
FlushFails(d) ==
  /\ FlushTxBuffer(d) /\ Unsent(d) /\ CallerClosed(m_conns[d])
  /\ CloseConnection(d)
  /\ UNCHANGED <<clientVars, inbox, wire, rxRing, txRing, armed, ready, events, batch, queueVars>>

FlushSends(d) == FlushWhole(d) \/ \E n \in 1..TX_SIZE : FlushPart(d, n)

IpcReactorStep ==
  \/ Wait \/ AcceptConnection \/ ProcessTxQueue \/ WriteReply
  \/ \E e \in events : Hup(e) \/ Receive(e) \/ Writable(e)
  \/ \E d \in Fds : FlushNothing(d) \/ FlushSends(d) \/ FlushPart(d, 0) \/ FlushFails(d)

IpcNext ==
  \/ Connect \/ Crash
  \/ \E k \in Calls : WriteAll(k) \/ ReadReply(k) \/ ReadFails(k)
  \/ IpcReactorStep
  \/ \E w \in IpcWorkers : HandleRequest(w)

IpcSpec == IpcInit /\ [][IpcNext]_ipcVars

(***************************************************************************)
(* Threads run, handlers return, and a socket whose peer reads takes bytes *)
(* again: EAGAIN does not go on for ever.                                  *)
(***************************************************************************)
IpcFairness ==
  /\ WF_ipcVars(IpcReactorStep)
  /\ \A d \in Fds : SF_ipcVars(FlushSends(d))
  /\ \A w \in IpcWorkers : WF_ipcVars(HandleRequest(w))
  /\ \A k \in Calls : WF_ipcVars(WriteAll(k) \/ ReadReply(k) \/ ReadFails(k))

IpcFairSpec == IpcSpec /\ IpcFairness
-----------------------------------------------------------------------------
(***************************************************************************)
(* While mgmtd lives, every call that ends returns the reply to its own    *)
(* request, and none fails: round robin, fd reuse, the close after the     *)
(* first flush and events of connections that are gone do not mix up two   *)
(* calls.  (After a restart a reply to a call of the old process may reach *)
(* a new connection with the same descriptor.)                             *)
(***************************************************************************)
CallsExact ==
  \A k \in Calls : /\ cpc[k] = "replied" => got[k] = k \/ crashes > 0
                   /\ cpc[k] = "failed" => crashes > 0

(***************************************************************************)
(* While mgmtd lives, a call that waits is never forgotten: its connection *)
(* is yet to be accepted, its request can be read or is with a worker, its *)
(* reply is queued, or is in the tx ring with EPOLLOUT armed or a flush to *)
(* come, or can be read; unless it did not fit the ring.                   *)
(***************************************************************************)
CallUnderway ==
  \A k \in Calls : crashes = 0 /\ cpc[k] = "waiting" =>
    \/ k \in Range(backlog) \/ Complete(k) \/ k \in dropped
    \/ \E d \in DOMAIN m_conns :
         /\ m_conns[d] = k
         /\ \/ inbox[k] > 0
            \/ \E w \in IpcWorkers : [fd |-> d, call |-> k] \in Range(rxQueue[w])
            \/ [fd |-> d, call |-> k] \in Range(m_txQueue) \cup Range(batch)
            \/ txRing[k] # << >> /\ (k \in armed \/ d \in dirtyFds)

(***************************************************************************)
(* A call returns, with a reply or an error, also after a restart of mgmtd *)
(* has confused descriptors, unless its reply did not fit into the tx      *)
(* ring: then IpcClient::send, which has no timeout, waits for ever.       *)
(***************************************************************************)
CallReturns ==
  \A k \in Calls : (cpc[k] = "waiting") ~> (CallerClosed(k) \/ k \in dropped)
=============================================================================
