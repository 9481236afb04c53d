---------------------------- MODULE TcpConnection ----------------------------
(***************************************************************************)
(* One plain TCP connection under its reactor (TcpReactor::receive,        *)
(* processTxQueue, flushTxBuffer, TcpFraming): bytes of frames come in and *)
(* are cut out of the rx ring, packets go out through the tx ring, and     *)
(* EPOLLOUT is armed while the socket does not take them.  The reactor is  *)
(* one thread; epoll is level triggered.                                   *)
(***************************************************************************)
EXTENDS ByteRingBuffer

CONSTANTS HEADER_SIZE, MAX_BODY_LEN, RX_CAPACITY, TX_CAPACITY,
          BodyLens,    \* body lengths a peer sends
          TxLens,      \* lengths of the packets to send
          MaxFrames,   \* bound: frames from the peer
          MaxTx        \* bound: packets to send

ASSUME ConnectionAssumption ==
  /\ {HEADER_SIZE, MAX_BODY_LEN, RX_CAPACITY, TX_CAPACITY} \subseteq Nat \ {0}
  /\ BodyLens \subseteq 0..MAX_BODY_LEN
  /\ TxLens \subseteq Nat \ {0}

VARIABLES tpc,       \* what the reactor is doing with this connection
          rxRing, txRing,
          outArmed,  \* EPOLLOUT is in the connection's epoll interest
          room,      \* epoll reported EPOLLOUT: the socket takes a byte
          wire,      \* bytes the peer has sent and recv has not returned
          frames,    \* history: body lengths of the frames the peer sent
          stream,    \* history: their bytes
          extracted, \* history: bytes taken out of the rx ring
          delivered, \* history: frames given to the workers
          accepted,  \* history: bytes of the packets written to the tx ring
          taken,     \* history: bytes the socket took
          packets,   \* packets so far
          closedBy   \* why the connection ended, or "open"

rxVars == <<rxRing, wire, frames, stream, extracted, delivered>>
txVars == <<txRing, outArmed, room, accepted, taken, packets>>
connVars == <<tpc, rxVars, txVars, closedBy>>

\* The i-th byte of frame k.  The header's last byte carries the body length.
FrameBytes(k, bodyLen) ==
  [i \in 1..(HEADER_SIZE + bodyLen) |-> <<k, i, IF i = HEADER_SIZE THEN bodyLen ELSE 0>>]
PacketBytes(k, len) == [i \in 1..len |-> <<k, i>>]

ConnInit ==
  /\ tpc = "idle" /\ closedBy = "open"
  /\ rxRing = RingOf(RX_CAPACITY, << >>) /\ txRing = RingOf(TX_CAPACITY, << >>)
  /\ outArmed = FALSE /\ room = FALSE
  /\ wire = << >> /\ frames = << >> /\ stream = << >> /\ extracted = << >> /\ delivered = << >>
  /\ accepted = << >> /\ taken = << >> /\ packets = 0

\* closeConnection
Close(why) == tpc' = "closed" /\ closedBy' = why

(***************************************************************************)
(* The peer                                                                *)
(***************************************************************************)
PeerSends(bodyLen) ==
  /\ tpc # "closed"
  /\ Len(frames) < MaxFrames
  /\ frames' = Append(frames, bodyLen)
  /\ wire' = wire \o FrameBytes(Len(frames) + 1, bodyLen)
  /\ stream' = stream \o FrameBytes(Len(frames) + 1, bodyLen)
  /\ UNCHANGED <<tpc, rxRing, extracted, delivered, txVars, closedBy>>

\* EPOLLERR, EPOLLHUP or EPOLLRDHUP, or recv returns 0 or an error
PeerCloses ==
  /\ tpc = "idle" \/ (tpc = "recv" /\ writeLen(rxRing) > 0)
  /\ Close("peer")
  /\ UNCHANGED <<rxVars, txVars>>

(***************************************************************************)
(* receive                                                                 *)
(***************************************************************************)
Receive ==
  /\ tpc = "idle" /\ wire # << >>
  /\ tpc' = "recv"
  /\ UNCHANGED <<rxVars, txVars, closedBy>>

RxRingFull ==
  /\ tpc = "recv" /\ writeLen(rxRing) = 0
  /\ Close("full")
  /\ UNCHANGED <<rxVars, txVars>>

\* recv returns some of the bytes that have arrived, up to writeLen.
Recv ==
  /\ tpc = "recv"
  /\ \E n \in 1..Min({writeLen(rxRing), Len(wire)}) :
       /\ rxRing' = CopyIn(rxRing, SubSeq(wire, 1, n))
       /\ wire' = SubSeq(wire, n + 1, Len(wire))
  /\ tpc' = "extract"
  /\ UNCHANGED <<frames, stream, extracted, delivered, txVars, closedBy>>

\* EAGAIN: the other bytes are still on their way.
RecvAgain ==
  /\ tpc = "recv" /\ writeLen(rxRing) > 0
  /\ tpc' = "idle"
  /\ UNCHANGED <<rxVars, txVars, closedBy>>

\* The body length in the peeked header.
HeaderBodyLen(r) == peek(r, HEADER_SIZE)[HEADER_SIZE][3]

\* Wants a byte more than the frame has.
TryExtractLate(r) ==
  IF readable(r) < HEADER_SIZE THEN "NeedMoreData"
  ELSE IF HeaderBodyLen(r) > MAX_BODY_LEN THEN "InvalidBodyLen"
  ELSE IF readable(r) <= HEADER_SIZE + HeaderBodyLen(r) THEN "NeedMoreData"
  ELSE "Ok"

\* TcpFraming::tryExtractFrame
TryExtractFrame(r) ==
  IF readable(r) < HEADER_SIZE THEN "NeedMoreData"
  ELSE IF HeaderBodyLen(r) > MAX_BODY_LEN THEN "InvalidBodyLen"
  ELSE IF readable(r) < HEADER_SIZE + HeaderBodyLen(r) THEN "NeedMoreData"
  ELSE "Ok"

\* tryExtractFrame reads a frame of len bytes, which goes to its worker.
TakeFrame(len) ==
  /\ delivered' = Append(delivered, readBytes(rxRing, len))
  /\ extracted' = extracted \o readBytes(rxRing, len)
  /\ rxRing' = readRest(rxRing, len)

\* Extracts one frame and then goes back to recv.
ExtractOne ==
  /\ tpc = "extract"
  /\ IF TryExtractFrame(rxRing) = "Ok"
       THEN TakeFrame(HEADER_SIZE + HeaderBodyLen(rxRing))
       ELSE UNCHANGED <<rxRing, extracted, delivered>>
  /\ tpc' = "recv"
  /\ UNCHANGED <<wire, frames, stream, txVars, closedBy>>

\* One turn of the extraction loop.
Extract ==
  /\ tpc = "extract"
  /\ CASE TryExtractFrame(rxRing) = "NeedMoreData" ->
            tpc' = "recv" /\ UNCHANGED <<rxRing, extracted, delivered, closedBy>>
       [] TryExtractFrame(rxRing) = "InvalidBodyLen" ->
            Close("invalid") /\ UNCHANGED <<rxRing, extracted, delivered>>
       [] OTHER ->
            TakeFrame(HEADER_SIZE + HeaderBodyLen(rxRing)) /\ UNCHANGED <<tpc, closedBy>>
  /\ UNCHANGED <<wire, frames, stream, txVars>>

(***************************************************************************)
(* processTxQueue and flushTxBuffer                                        *)
(***************************************************************************)
\* Writes what fits of a packet.
TxPacketTruncated(len) ==
  /\ tpc \in {"idle", "tx"} /\ packets < MaxTx
  /\ packets' = packets + 1
  /\ txRing' = write(txRing, PacketBytes(packets + 1, len))
  /\ accepted' = accepted \o PacketBytes(packets + 1, len)
  /\ tpc' = "tx"
  /\ UNCHANGED <<rxVars, outArmed, room, taken, closedBy>>

\* One packet of the batch: written whole or dropped, which leaves the
\* connection out of dirtyFds.
TxPacket(len) ==
  /\ tpc \in {"idle", "tx"} /\ packets < MaxTx
  /\ packets' = packets + 1
  /\ IF writable(txRing) < len
       THEN UNCHANGED <<tpc, txRing, accepted>>
       ELSE /\ txRing' = write(txRing, PacketBytes(packets + 1, len))
            /\ accepted' = accepted \o PacketBytes(packets + 1, len)
            /\ tpc' = "tx"
  /\ UNCHANGED <<rxVars, outArmed, room, taken, closedBy>>

TxBatchEnds ==
  /\ tpc = "tx"
  /\ tpc' = "flush"
  /\ UNCHANGED <<rxVars, txVars, closedBy>>

\* EPOLLOUT
Writable ==
  /\ tpc = "idle" /\ outArmed
  /\ room' = TRUE
  /\ tpc' = "flush"
  /\ UNCHANGED <<rxVars, txRing, outArmed, accepted, taken, packets, closedBy>>

\* send takes n of the bytes at readPtr; 0 stands for EAGAIN, which does not
\* happen right after EPOLLOUT.
Flush ==
  /\ tpc = "flush" /\ readable(txRing) > 0
  /\ \E n \in 0..readLen(txRing) :
       /\ n = 0 => ~room
       /\ taken' = taken \o [i \in 1..n |-> txRing.m_buffer[txRing.m_head + i]]
       /\ txRing' = consume(txRing, n)
       /\ IF n < readLen(txRing) THEN outArmed' = TRUE /\ tpc' = "idle"
                                 ELSE UNCHANGED <<outArmed, tpc>>
  /\ room' = FALSE
  /\ UNCHANGED <<rxVars, accepted, packets, closedBy>>

\* Leaves EPOLLOUT armed.
FlushDoneStaysArmed ==
  /\ tpc = "flush" /\ readable(txRing) = 0
  /\ tpc' = "idle" /\ room' = FALSE
  /\ UNCHANGED <<rxVars, outArmed, txRing, accepted, taken, packets, closedBy>>

FlushDone ==
  /\ tpc = "flush" /\ readable(txRing) = 0
  /\ outArmed' = FALSE /\ room' = FALSE
  /\ tpc' = "idle"
  /\ UNCHANGED <<rxVars, txRing, accepted, taken, packets, closedBy>>

\* Any other errno of send
SendFails ==
  /\ tpc = "flush" /\ readable(txRing) > 0
  /\ Close("error")
  /\ UNCHANGED <<rxVars, txVars>>

Closed == tpc = "closed" /\ UNCHANGED connVars

Reactor ==
  \/ Receive \/ RxRingFull \/ Recv \/ RecvAgain \/ Extract
  \/ TxBatchEnds \/ Writable \/ Flush \/ FlushDone

ConnNext ==
  \/ Reactor \/ PeerCloses \/ SendFails \/ Closed
  \/ \E b \in BodyLens : PeerSends(b)
  \/ \E len \in TxLens : TxPacket(len)

ConnSpec == ConnInit /\ [][ConnNext]_connVars

(***************************************************************************)
(* The reactor keeps running, the peer's bytes keep arriving (Recv), and   *)
(* the peer keeps reading, so that an armed EPOLLOUT is reported.          *)
(***************************************************************************)
ConnFairness ==
  /\ WF_connVars(Receive) /\ SF_connVars(Recv)
  /\ WF_connVars(RxRingFull) /\ WF_connVars(RecvAgain) /\ WF_connVars(Extract)
  /\ WF_connVars(TxBatchEnds) /\ SF_connVars(Writable)
  /\ WF_connVars(Flush) /\ WF_connVars(FlushDone)

ConnFairSpec == ConnSpec /\ ConnFairness
-----------------------------------------------------------------------------
(***************************************************************************)
(* receive cuts the byte stream into exactly the peer's frames: however    *)
(* recv splits it and wherever the ring wraps, the workers get each frame  *)
(* whole and in order, and the ring and the wire hold exactly the rest of  *)
(* what it sent; head, tail and size of the ring agree.                    *)
(***************************************************************************)
RxStream ==
  /\ RingOK(rxRing, RX_CAPACITY)
  /\ Len(delivered) <= Len(frames)
  /\ \A k \in 1..Len(delivered) : delivered[k] = FrameBytes(k, frames[k])
  /\ extracted \o Contents(rxRing) \o wire = stream

(***************************************************************************)
(* flushTxBuffer sends exactly the packets processTxQueue accepted, whole  *)
(* and in order, and the tx ring is consistent.                            *)
(***************************************************************************)
TxStream == RingOK(txRing, TX_CAPACITY) /\ taken \o Contents(txRing) = accepted

(***************************************************************************)
(* Between two events EPOLLOUT is armed exactly while there are bytes to   *)
(* send: unarmed they would never be sent, and armed over an empty ring    *)
(* the level-triggered loop would spin.                                    *)
(***************************************************************************)
InterestExact == tpc = "idle" => (outArmed <=> readable(txRing) > 0)

(***************************************************************************)
(* The rx ring only fills up, which ends the connection, for a frame that  *)
(* is longer than the ring.                                                *)
(***************************************************************************)
FullOnlyWhenTooLong ==
  closedBy = "full" => HEADER_SIZE + frames[Len(delivered) + 1] > RX_CAPACITY

(***************************************************************************)
(* Every frame the peer sends is delivered, unless the connection ends:    *)
(* receive never returns with a complete frame left in the ring.           *)
(***************************************************************************)
FramesDelivered == (Len(frames) = MaxFrames) ~> (Len(delivered) = MaxFrames \/ tpc = "closed")
=============================================================================
