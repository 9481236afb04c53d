--------------------------- MODULE ByteRingBuffer ---------------------------
(***************************************************************************)
(* shared/algorithm/ByteRingBuffer.cpp: a ring of bytes as a record of its *)
(* buffer, head, tail and size.  The offset i of the code is the element   *)
(* i + 1 of the buffer.  The rings of a connection are only touched by its *)
(* reactor's thread.                                                       *)
(***************************************************************************)
EXTENDS Integers, Sequences, FiniteSetsExt

RingOf(capacity, filler) ==
  [m_buffer |-> [i \in 1..capacity |-> filler], m_head |-> 0, m_tail |-> 0, m_size |-> 0]

RingCapacity(r) == Len(r.m_buffer)

readable(r) == r.m_size
writable(r) == RingCapacity(r) - r.m_size

\* The contiguous room at writePtr, and the contiguous bytes at readPtr.
writeLen(r) == Min({RingCapacity(r) - r.m_tail, writable(r)})
readLen(r) == Min({RingCapacity(r) - r.m_head, readable(r)})

produce(r, n) == [r EXCEPT !.m_tail = (@ + n) % RingCapacity(r), !.m_size = @ + n]
consume(r, n) == [r EXCEPT !.m_head = (@ + n) % RingCapacity(r), !.m_size = @ - n]

\* memcpy of data to writePtr, followed by produce
CopyIn(r, data) ==
  produce([r EXCEPT !.m_buffer =
             [i \in DOMAIN @ |-> IF i \in (r.m_tail + 1)..(r.m_tail + Len(data))
                                   THEN data[i - r.m_tail] ELSE @[i]]],
          Len(data))

\* write: the loop copies at most two contiguous parts, to the end of the
\* buffer and from its start.
write(r, data) ==
  LET n1 == Min({writeLen(r), Len(data)})
      r1 == CopyIn(r, SubSeq(data, 1, n1))
      n2 == Min({writeLen(r1), Len(data) - n1})
  IN CopyIn(r1, SubSeq(data, n1 + 1, n1 + n2))

\* Reads on past the end of the buffer instead of from its start.
PeekNoWrap(r, len) ==
  [i \in 1..Min({len, r.m_size}) |->
     r.m_buffer[Min({r.m_head + i, RingCapacity(r)})]]

\* peek: a part up to the end of the buffer and a part from its start
peek(r, len) ==
  LET toRead == Min({len, r.m_size})
      first == Min({toRead, RingCapacity(r) - r.m_head})
  IN [i \in 1..toRead |-> IF i <= first THEN r.m_buffer[r.m_head + i] ELSE r.m_buffer[i - first]]

\* read: the bytes at readPtr, in at most two parts, and the ring after it
readBytes(r, len) ==
  LET n1 == Min({readLen(r), len})
      r1 == consume(r, n1)
      n2 == Min({readLen(r1), len - n1})
  IN [i \in 1..(n1 + n2) |-> IF i <= n1 THEN r.m_buffer[r.m_head + i]
                                        ELSE r1.m_buffer[r1.m_head + i - n1]]

readRest(r, len) ==
  LET r1 == consume(r, Min({readLen(r), len}))
  IN consume(r1, Min({readLen(r1), len - (r.m_size - r1.m_size)}))

\* The bytes in the ring, oldest first, by index arithmetic.
Contents(r) ==
  [i \in 1..r.m_size |-> r.m_buffer[((r.m_head + i - 1) % RingCapacity(r)) + 1]]

\* Head, tail and size agree, so that a full ring is told from an empty one.
RingOK(r, capacity) ==
  /\ DOMAIN r.m_buffer = 1..capacity
  /\ r.m_head \in 0..(capacity - 1) /\ r.m_tail \in 0..(capacity - 1)
  /\ r.m_size \in 0..capacity
  /\ r.m_tail = (r.m_head + r.m_size) % capacity
=============================================================================
