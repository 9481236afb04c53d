---------------------------- MODULE TlsConnection ----------------------------
(***************************************************************************)
(* One TLS connection under TlsReactor: the handshake, the queue of        *)
(* packets to send with its budget per event, and the EPOLLOUT interest    *)
(* that four functions set.  OpenSSL is external: each call returns one of *)
(* the outcomes the code distinguishes.  SSL_write also drives a handshake *)
(* that is not finished.  The rx ring and its framing are those of         *)
(* TcpConnection.  A packet can be queued before the handshake is done:    *)
(* answers are addressed by descriptor, and descriptors are reused.        *)
(***************************************************************************)
EXTENDS Integers, Sequences

CONSTANTS PacketLen,  \* bytes of a packet: SSL_write may take fewer
          Budget,     \* packets flushTx sends per call, 256 in the code
          MaxPackets  \* bound: packets queued in a behaviour

ASSUME TlsAssumption == {PacketLen, Budget, MaxPackets} \subseteq Nat \ {0}

VARIABLES pc,       \* idle, batch, flushTx (of processTxQueue), flushWritable, closed
          hs,       \* SSL_is_init_finished
          txQueue,  \* packets [id, left]
          armed,    \* EPOLLOUT is in the epoll interest
          used,     \* flushTx's local counter
          offered,  \* packets so far
          written   \* history: packets written completely

tlsVars == <<pc, hs, txQueue, armed, used, offered, written>>

TlsInit ==
  /\ pc = "idle" /\ hs = FALSE /\ armed = FALSE
  /\ txQueue = << >> /\ used = 0 /\ offered = 0 /\ written = << >>

\* The value updateInterest gives to EPOLLOUT.
UpdateInterest(done, q) == ~done \/ q # << >>

CloseConnection ==
  /\ pc' = "closed"
  /\ UNCHANGED <<hs, txQueue, armed, used, offered, written>>

(***************************************************************************)
(* processTxQueue                                                          *)
(***************************************************************************)
PushTx ==
  /\ pc \in {"idle", "batch"} /\ offered < MaxPackets
  /\ offered' = offered + 1
  /\ txQueue' = Append(txQueue, [id |-> offered + 1, left |-> PacketLen])
  /\ pc' = "batch"
  /\ UNCHANGED <<hs, armed, used, written>>

BatchEnds ==
  /\ pc = "batch"
  /\ armed' = UpdateInterest(hs, txQueue)
  /\ pc' = "flushTx" /\ used' = 0
  /\ UNCHANGED <<hs, txQueue, offered, written>>

(***************************************************************************)
(* driveHandshake, on EPOLLIN or EPOLLOUT                                  *)
(***************************************************************************)
CanDrive == pc = "idle" /\ ~hs

\* Forgets that packets may be waiting.
HandshakeDoneDisarms ==
  /\ CanDrive
  /\ hs' = TRUE /\ armed' = FALSE
  /\ UNCHANGED <<pc, txQueue, used, offered, written>>

\* updateInterest, then receive: SSL_read may want to write, or fail.
HandshakeDone ==
  /\ CanDrive
  /\ hs' = TRUE
  /\ armed' \in {UpdateInterest(TRUE, txQueue), TRUE}
  /\ pc' \in {"idle", "closed"}
  /\ UNCHANGED <<txQueue, used, offered, written>>

HandshakeWants ==
  /\ CanDrive
  /\ armed' \in BOOLEAN   \* WantWrite arms EPOLLOUT, WantRead disarms it
  /\ UNCHANGED <<pc, hs, txQueue, used, offered, written>>

(***************************************************************************)
(* receive, onWritable                                                     *)
(***************************************************************************)
\* SSL_read ends with SSL_ERROR_WANT_WRITE; WANT_READ changes nothing.
ReceiveWantsWrite ==
  /\ pc = "idle" /\ hs
  /\ armed' = TRUE
  /\ UNCHANGED <<pc, hs, txQueue, used, offered, written>>

\* A failed handshake or read, or EPOLLERR, EPOLLHUP, EPOLLRDHUP
Fails == pc = "idle" /\ CloseConnection

OnWritable ==
  /\ pc = "idle" /\ hs /\ armed
  /\ pc' = "flushWritable" /\ used' = 0
  /\ UNCHANGED <<hs, txQueue, armed, offered, written>>

(***************************************************************************)
(* flushTx                                                                 *)
(***************************************************************************)
Flushing == pc \in {"flushTx", "flushWritable"}

\* Sends the packet from its start again after a short write.
WriteRestarts ==
  /\ Flushing /\ used < Budget /\ txQueue # << >>
  /\ \E n \in 1..Head(txQueue).left :
       IF n = Head(txQueue).left
         THEN /\ txQueue' = Tail(txQueue) /\ used' = used + 1
              /\ written' = Append(written, Head(txQueue).id)
         ELSE /\ txQueue' = Append(Tail(txQueue), [Head(txQueue) EXCEPT !.left = @ - n])
              /\ UNCHANGED <<used, written>>
  /\ hs' = TRUE
  /\ UNCHANGED <<pc, armed, offered>>

\* SSL_write takes n bytes; a packet that is written is popped.
Write ==
  /\ Flushing /\ used < Budget /\ txQueue # << >>
  /\ \E n \in 1..Head(txQueue).left :
       IF n = Head(txQueue).left
         THEN /\ txQueue' = Tail(txQueue) /\ used' = used + 1
              /\ written' = Append(written, Head(txQueue).id)
         ELSE /\ txQueue' = [txQueue EXCEPT ![1].left = @ - n]
              /\ UNCHANGED <<used, written>>
  /\ hs' = TRUE
  /\ UNCHANGED <<pc, armed, offered>>

\* WANT_WRITE or WANT_READ: push_front and EPOLLOUT; SSL_write may have
\* finished the handshake.  onWritable then updates the interest.
WriteBlocks ==
  /\ Flushing /\ used < Budget /\ txQueue # << >>
  /\ armed' = TRUE
  /\ hs' \in {hs, TRUE}
  /\ pc' = "idle"
  /\ UNCHANGED <<txQueue, used, offered, written>>

WriteFails ==
  /\ Flushing /\ used < Budget /\ txQueue # << >>
  /\ CloseConnection

\* updateInterest is not called again.
FlushEndsAsArmed ==
  /\ Flushing /\ (used = Budget \/ txQueue = << >>)
  /\ pc' = "idle"
  /\ UNCHANGED <<armed, hs, txQueue, used, offered, written>>

FlushEnds ==
  /\ Flushing /\ (used = Budget \/ txQueue = << >>)
  /\ armed' = IF pc = "flushWritable" THEN UpdateInterest(hs, txQueue) ELSE armed
  /\ pc' = "idle"
  /\ UNCHANGED <<hs, txQueue, used, offered, written>>

TlsClosed == pc = "closed" /\ UNCHANGED tlsVars

TlsNext ==
  \/ PushTx \/ BatchEnds
  \/ HandshakeDone \/ HandshakeWants \/ ReceiveWantsWrite \/ Fails \/ OnWritable
  \/ Write \/ WriteBlocks \/ WriteFails \/ FlushEnds \/ TlsClosed

TlsSpec == TlsInit /\ [][TlsNext]_tlsVars

(***************************************************************************)
(* The reactor runs.  The peer finishes its handshake and goes on reading, *)
(* so that an armed EPOLLOUT is reported and a write that is tried again   *)
(* and again succeeds.                                                     *)
(***************************************************************************)
TlsFairness ==
  /\ WF_tlsVars(BatchEnds) /\ WF_tlsVars(FlushEnds) /\ WF_tlsVars(HandshakeDone)
  /\ SF_tlsVars(OnWritable) /\ SF_tlsVars(Write)

TlsFairSpec == TlsSpec /\ TlsFairness
-----------------------------------------------------------------------------
(***************************************************************************)
(* Types, and no flush exceeds its budget.                                 *)
(***************************************************************************)
TlsTypeOK ==
  /\ pc \in {"idle", "batch", "flushTx", "flushWritable", "closed"}
  /\ hs \in BOOLEAN /\ armed \in BOOLEAN
  /\ \A i \in 1..Len(txQueue) :
       txQueue[i].id \in 1..MaxPackets /\ txQueue[i].left \in 1..PacketLen
  /\ used \in 0..Budget /\ offered \in 0..MaxPackets

(***************************************************************************)
(* Packets leave whole and in the order processTxQueue queued them: only   *)
(* the first one may be partly written, and its rest goes out before the   *)
(* next packet, so that records never interleave.                          *)
(***************************************************************************)
TlsTxOrder ==
  /\ written \o [i \in 1..Len(txQueue) |-> txQueue[i].id] = [i \in 1..offered |-> i]
  /\ \A i \in 2..Len(txQueue) : txQueue[i].left = PacketLen

(***************************************************************************)
(* Once the handshake is done, a connection with packets left has EPOLLOUT *)
(* armed between two events, whichever of updateInterest, driveHandshake,  *)
(* receive and flushTx set the interest last; otherwise a budget that ran  *)
(* out would leave packets unsent.                                         *)
(***************************************************************************)
QueueIsArmed == pc = "idle" /\ hs /\ txQueue # << >> => armed

(***************************************************************************)
(* Every packet queued is sent unless the connection is closed.            *)
(***************************************************************************)
QueuedIsSent == \A k \in 1..MaxPackets : (offered >= k) ~> (Len(written) >= k \/ pc = "closed")

(***************************************************************************)
(* EPOLLOUT left armed over an empty queue, as processTxQueue leaves it,   *)
(* is given up at the next event: the level-triggered loop does not spin.  *)
(***************************************************************************)
InterestReleased ==
  (hs /\ armed /\ txQueue = << >>) ~> (~armed \/ txQueue # << >> \/ pc = "closed")
=============================================================================
