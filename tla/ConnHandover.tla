---------------------------- MODULE ConnHandover ----------------------------
(***************************************************************************)
(* Who owns a stream descriptor: TcpReactor accepts it, keeps it in its    *)
(* m_conns, and hands it to TlsReactor when it sees a TLS ClientHello;     *)
(* TlsReactor::handover puts it in m_handoverQueue and wakes the TLS       *)
(* thread, whose processHandover takes it into its own m_conns.  Either    *)
(* reactor closes descriptors, and the kernel gives the lowest free number *)
(* to the next accept.  epoll_wait returns a batch of events, and the      *)
(* events of a batch are handled with the numbers they were reported for.  *)
(***************************************************************************)
EXTENDS Integers, Sequences, FiniteSets, FiniteSetsExt

CONSTANTS Fds,          \* descriptor numbers
          HandoverCap,  \* capacity of m_handoverQueue
          MaxConns,     \* bound: connections accepted in a behaviour
          MaxBatch      \* bound: events epoll_wait returns at once

ASSUME HandoverAssumption ==
  /\ Fds \subseteq Nat /\ IsFiniteSet(Fds)
  /\ HandoverCap \in Nat /\ MaxBatch \in Nat \ {0}

VARIABLES open,       \* fd -> number of the connection that is open on it, or 0
          accepted,   \* connections so far
          m_tcpConns, \* m_conns of TcpReactor: fd -> connection
          m_tlsConns, \* m_conns of TlsReactor: fd -> connection
          m_handoverQueue,
          wakeup,     \* the TLS reactor's eventfd is readable
          hpc,        \* TcpReactor is about to wake the TLS reactor
          tcpEvents, tlsEvents,  \* what is left of the batches
          strayClose  \* history: connections closed on another one's event

tlsVars == <<m_tlsConns, tlsEvents>>
tcpVars == <<m_tcpConns, tcpEvents, accepted, hpc>>
handoverVars == <<open, tcpVars, tlsVars, m_handoverQueue, wakeup, strayClose>>

Free == {fd \in Fds : open[fd] = 0}
Drop(f, S) == [x \in DOMAIN f \ S |-> f[x]]
Put(f, x, v) == [y \in DOMAIN f \cup {x} |-> IF y = x THEN v ELSE f[y]]

HandoverInit ==
  /\ open = [fd \in Fds |-> 0] /\ accepted = 0
  /\ m_tcpConns = << >> /\ m_tlsConns = << >> /\ m_handoverQueue = << >>
  /\ wakeup = FALSE /\ hpc = FALSE
  /\ tcpEvents = << >> /\ tlsEvents = << >> /\ strayClose = {}

\* close(fd) of every descriptor in S; for is the connection meant by it.
CloseFds(S, for) ==
  /\ open' = [fd \in Fds |-> IF fd \in S THEN 0 ELSE open[fd]]
  /\ strayClose' = strayClose \cup {open[fd] : fd \in {f \in S : open[f] \notin {0, for[f]}}}

\* Batches of events: each descriptor at most once, in any order.
Batches(ready) ==
  {b \in UNION {[1..n -> ready] : n \in 1..MaxBatch} :
     \A i, j \in DOMAIN b : b[i].fd = b[j].fd => i = j}

ConnEvents(conns) ==
  {[fd |-> fd, ev |-> e, conn |-> conns[fd]] : fd \in DOMAIN conns, e \in {"in", "hup"}}

\* Events of the reactor's own descriptors; their numbers are not in Fds.
Special(name) == [fd |-> IF name = "listen" THEN -2 ELSE -1, ev |-> name, conn |-> 0]

(***************************************************************************)
(* TcpReactor                                                              *)
(***************************************************************************)
TcpWait ==
  /\ tcpEvents = << >> /\ ~hpc
  /\ tcpEvents' \in Batches(ConnEvents(m_tcpConns) \cup {Special("tx"), Special("listen")})
  /\ UNCHANGED <<open, accepted, m_tcpConns, tlsVars, m_handoverQueue, wakeup, hpc, strayClose>>

AtTcp(ev) == tcpEvents # << >> /\ ~hpc /\ Head(tcpEvents).ev = ev
TcpEventDone == tcpEvents' = Tail(tcpEvents)

\* The wakeup: processTxQueue, whose flushTxBuffer closes what it cannot
\* send to.
TcpTx ==
  /\ AtTcp("tx")
  /\ \E S \in SUBSET DOMAIN m_tcpConns :
       /\ CloseFds(S, m_tcpConns)
       /\ m_tcpConns' = Drop(m_tcpConns, S)
  /\ TcpEventDone
  /\ UNCHANGED <<accepted, tlsVars, m_handoverQueue, wakeup, hpc>>

\* One accept of acceptConnection's loop.
TcpAccept ==
  /\ AtTcp("listen")
  /\ accepted < MaxConns /\ Free # {}
  /\ accepted' = accepted + 1
  /\ open' = [open EXCEPT ![Min(Free)] = accepted + 1]
  /\ m_tcpConns' = IF Min(Free) \in DOMAIN m_tcpConns THEN m_tcpConns  \* emplace
                   ELSE Put(m_tcpConns, Min(Free), accepted + 1)
  /\ UNCHANGED <<tcpEvents, tlsVars, m_handoverQueue, wakeup, hpc, strayClose>>

TcpAcceptAgain ==
  /\ AtTcp("listen")
  /\ TcpEventDone
  /\ UNCHANGED <<open, accepted, m_tcpConns, tlsVars, m_handoverQueue, wakeup, hpc, strayClose>>

\* closeConnection for EPOLLERR, EPOLLHUP or EPOLLRDHUP
TcpCloses ==
  /\ AtTcp("hup")
  /\ LET e == Head(tcpEvents) IN
       /\ CloseFds({e.fd}, [f \in {e.fd} |-> e.conn])
       /\ m_tcpConns' = Drop(m_tcpConns, {e.fd})
  /\ TcpEventDone
  /\ UNCHANGED <<accepted, tlsVars, m_handoverQueue, wakeup, hpc>>

\* receive without a ClientHello, and flushTxBuffer: either may close the
\* connection, if there is one.
TcpReceives ==
  /\ AtTcp("in")
  /\ \E S \in SUBSET ({Head(tcpEvents).fd} \cap DOMAIN m_tcpConns) :
       /\ CloseFds(S, m_tcpConns)
       /\ m_tcpConns' = Drop(m_tcpConns, S)
  /\ TcpEventDone
  /\ UNCHANGED <<accepted, tlsVars, m_handoverQueue, wakeup, hpc>>

\* Leaves the connection in TcpReactor's m_conns.
HandoverKeepsConn ==
  /\ AtTcp("in")
  /\ LET fd == Head(tcpEvents).fd IN
       /\ fd \in DOMAIN m_tcpConns
       /\ m_handoverQueue' = Append(m_handoverQueue, [fd |-> fd, conn |-> m_tcpConns[fd]])
  /\ hpc' = TRUE
  /\ TcpEventDone
  /\ UNCHANGED <<open, strayClose, m_tcpConns, accepted, tlsVars, wakeup>>

\* handoverToTls and TlsReactor::handover up to its wakeup
HandoverToTls ==
  /\ AtTcp("in")
  /\ LET fd == Head(tcpEvents).fd IN
       /\ fd \in DOMAIN m_tcpConns
       /\ m_tcpConns' = Drop(m_tcpConns, {fd})
       /\ IF Len(m_handoverQueue) >= HandoverCap
            THEN /\ CloseFds({fd}, m_tcpConns)
                 /\ UNCHANGED <<m_handoverQueue, hpc>>
            ELSE /\ m_handoverQueue' =
                      Append(m_handoverQueue, [fd |-> fd, conn |-> m_tcpConns[fd]])
                 /\ hpc' = TRUE
                 /\ UNCHANGED <<open, strayClose>>
  /\ TcpEventDone
  /\ UNCHANGED <<accepted, tlsVars, wakeup>>

HandoverWakeup ==
  /\ hpc
  /\ hpc' = FALSE
  /\ wakeup' = TRUE
  /\ UNCHANGED <<open, accepted, m_tcpConns, tcpEvents, tlsVars, m_handoverQueue, strayClose>>

(***************************************************************************)
(* TlsReactor                                                              *)
(***************************************************************************)
TlsWait ==
  /\ tlsEvents = << >>
  /\ tlsEvents' \in Batches(ConnEvents(m_tlsConns)
                            \cup (IF wakeup THEN {Special("wakeup")} ELSE {}))
  /\ wakeup => \E i \in DOMAIN tlsEvents' : tlsEvents'[i].ev = "wakeup"
  /\ UNCHANGED <<open, tcpVars, m_tlsConns, m_handoverQueue, wakeup, strayClose>>

AtTls(ev) == tlsEvents # << >> /\ Head(tlsEvents).ev = ev
TlsEventDone == tlsEvents' = Tail(tlsEvents)

DrainWakeup ==
  /\ AtTls("wakeup")
  /\ wakeup' = FALSE
  /\ tlsEvents' = <<Special("handover")>> \o Tail(tlsEvents)
  /\ UNCHANGED <<open, tcpVars, m_tlsConns, m_handoverQueue, strayClose>>

\* Takes one item per wakeup.
ProcessHandoverOne ==
  /\ AtTls("handover")
  /\ IF m_handoverQueue = << >> THEN UNCHANGED <<m_tlsConns, m_handoverQueue>>
     ELSE /\ m_tlsConns' = Put(m_tlsConns, Head(m_handoverQueue).fd, Head(m_handoverQueue).conn)
          /\ m_handoverQueue' = Tail(m_handoverQueue)
  /\ TlsEventDone
  /\ UNCHANGED <<open, strayClose, tcpVars, wakeup>>

\* processWakeup: processHandover takes all items (SSL_new may fail for
\* some), then processTxQueue.
ProcessWakeup ==
  /\ AtTls("handover")
  /\ LET items == {m_handoverQueue[i] : i \in DOMAIN m_handoverQueue}
         all == [fd \in DOMAIN m_tlsConns \cup {x.fd : x \in items} |->
                   IF fd \in DOMAIN m_tlsConns THEN m_tlsConns[fd]   \* emplace
                   ELSE (CHOOSE x \in items : x.fd = fd).conn]
     IN \E noSsl \in SUBSET {x.fd : x \in items} :
        \E S \in SUBSET (DOMAIN all \ noSsl) :
          /\ CloseFds(S \cup noSsl, all)
          /\ m_tlsConns' = Drop(all, S \cup noSsl)
  /\ m_handoverQueue' = << >>
  /\ TlsEventDone
  /\ UNCHANGED <<tcpVars, wakeup>>

\* closeConnection for EPOLLERR, EPOLLHUP or EPOLLRDHUP
TlsCloses ==
  /\ AtTls("hup")
  /\ LET e == Head(tlsEvents) IN
       /\ CloseFds({e.fd}, [f \in {e.fd} |-> e.conn])
       /\ m_tlsConns' = Drop(m_tlsConns, {e.fd})
  /\ TlsEventDone
  /\ UNCHANGED <<tcpVars, m_handoverQueue, wakeup>>

\* onReadable and onWritable: a failed handshake, read or write closes the
\* connection, if there is one.
TlsServes ==
  /\ AtTls("in")
  /\ \E S \in SUBSET ({Head(tlsEvents).fd} \cap DOMAIN m_tlsConns) :
       /\ CloseFds(S, m_tlsConns)
       /\ m_tlsConns' = Drop(m_tlsConns, S)
  /\ TlsEventDone
  /\ UNCHANGED <<tcpVars, m_handoverQueue, wakeup>>

TlsReactor == TlsWait \/ DrainWakeup \/ ProcessWakeup \/ TlsCloses \/ TlsServes

HandoverNext ==
  \/ TcpWait \/ TcpTx \/ TcpAccept \/ TcpAcceptAgain \/ TcpCloses \/ TcpReceives
  \/ HandoverToTls \/ HandoverWakeup
  \/ TlsReactor

HandoverSpec == HandoverInit /\ [][HandoverNext]_handoverVars

\* Both reactor threads keep running.
HandoverFairSpec ==
  HandoverSpec /\ WF_handoverVars(HandoverWakeup) /\ WF_handoverVars(TlsReactor)
-----------------------------------------------------------------------------
(***************************************************************************)
(* Every open connection has exactly one owner: TcpReactor's table, the    *)
(* handover queue or TlsReactor's table.  No owner holds a descriptor that *)
(* is closed or that belongs to a later connection, and none is leaked.    *)
(* This is as long as no event that was reported for a connection is       *)
(* served after its number has been given to another one: the reactors     *)
(* know events by number only, and then close the wrong connection.        *)
(***************************************************************************)
SingleOwner ==
  strayClose = {} =>
  LET queued == {m_handoverQueue[i].fd : i \in DOMAIN m_handoverQueue} IN
    /\ DOMAIN m_tcpConns \cap DOMAIN m_tlsConns = {}
    /\ queued \cap (DOMAIN m_tcpConns \cup DOMAIN m_tlsConns) = {}
    /\ Cardinality(queued) = Len(m_handoverQueue)
    /\ \A fd \in Fds : open[fd] # 0 =>
         \/ fd \in DOMAIN m_tcpConns /\ m_tcpConns[fd] = open[fd]
         \/ fd \in DOMAIN m_tlsConns /\ m_tlsConns[fd] = open[fd]
         \/ \E i \in DOMAIN m_handoverQueue :
              m_handoverQueue[i] = [fd |-> fd, conn |-> open[fd]]
    /\ \A fd \in Fds : open[fd] = 0 =>
         fd \notin DOMAIN m_tcpConns \cup DOMAIN m_tlsConns \cup queued

(***************************************************************************)
(* No connection is left in m_handoverQueue unannounced: TcpReactor is     *)
(* about to wake the TLS thread, its eventfd is readable, or it has        *)
(* drained the eventfd and takes the queue next.                           *)
(***************************************************************************)
HandoverAnnounced == m_handoverQueue # << >> => hpc \/ wakeup \/ AtTls("handover")

(***************************************************************************)
(* A connection that is handed over is taken out of the queue in the end.  *)
(***************************************************************************)
HandoverServed == \A fd \in Fds :
  (\E i \in DOMAIN m_handoverQueue : m_handoverQueue[i].fd = fd)
    ~> ~(\E i \in DOMAIN m_handoverQueue : m_handoverQueue[i].fd = fd)
=============================================================================
