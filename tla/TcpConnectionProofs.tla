------------------------ MODULE TcpConnectionProofs ------------------------
(***************************************************************************)
(* Proofs about TcpConnection and its ByteRingBuffers, for every capacity, *)
(* header and body length, and any number of frames and packets.  The      *)
(* first part shows that the ring is a queue of bytes wherever it wraps;   *)
(* the second that packets leave whole, in order, with EPOLLOUT armed      *)
(* exactly while it is needed; the third that the stream is cut into the   *)
(* peer's frames and that the rx ring only fills up for one longer than    *)
(* it.                                                                     *)
(***************************************************************************)
EXTENDS TcpConnection, QueueLemmas

(***************************************************************************)
(* The ring of bytes, for every capacity.  An offset is less than twice    *)
(* the capacity, so that its remainder takes one subtraction at most.      *)
(***************************************************************************)
Slot(x, c) == IF x < c THEN x ELSE x - c

\* An offset below twice the capacity wraps at most once.
LEMMA OneWrap ==
  ASSUME NEW c \in Nat \ {0}, NEW x \in 0..(2 * c - 1)
  PROVE  x % c = Slot(x, c)
<1>1. ASSUME NEW y \in 0..(c - 1)  PROVE y % c = y
  OBVIOUS
<1>2. CASE x < c
  BY <1>1, <1>2 DEF Slot
<1>3. CASE ~(x < c)
  <2>1. x - c \in 0..(c - 1) /\ x - c \in Nat /\ (x - c) + c = x
    BY <1>3
  <2> QED  BY <1>1, <1>3, <2>1, RemainderWrap, Zenon DEF Slot
<1> QED  BY <1>2, <1>3, Zenon

\* std::min
LEMMA MinOfTwo ==
  ASSUME NEW a \in Int, NEW b \in Int
  PROVE  Min({a, b}) = IF a <= b THEN a ELSE b
BY DEF Min

(***************************************************************************)
(* The ring r of capacity c holds the bytes s, all from the set S.         *)
(***************************************************************************)
Holds(r, c, s, S) ==
  /\ r \in [m_buffer : [1..c -> S], m_head : 0..(c - 1), m_tail : 0..(c - 1), m_size : 0..c]
  /\ r.m_tail = Slot(r.m_head + r.m_size, c)
  /\ s \in Seq(S) /\ Len(s) = r.m_size
  /\ \A i \in 1..r.m_size : s[i] = r.m_buffer[Slot(r.m_head + i - 1, c) + 1]

\* What the ring's own length functions return.
LEMMA RingLengths ==
  ASSUME NEW c \in Nat \ {0}, NEW S, NEW r, NEW s, Holds(r, c, s, S)
  PROVE  /\ RingCapacity(r) = c /\ readable(r) = Len(s) /\ writable(r) = c - Len(s)
         /\ Len(s) \in 0..c /\ r.m_head \in 0..(c - 1) /\ r.m_tail \in 0..(c - 1)
         /\ writeLen(r) = IF c - r.m_tail <= c - Len(s) THEN c - r.m_tail ELSE c - Len(s)
         /\ readLen(r) = IF c - r.m_head <= Len(s) THEN c - r.m_head ELSE Len(s)
<1>1. /\ r.m_buffer \in [1..c -> S] /\ r.m_head \in 0..(c - 1) /\ r.m_tail \in 0..(c - 1)
      /\ r.m_size \in 0..c /\ Len(s) = r.m_size
  BY Zenon DEF Holds
<1>2. Len(r.m_buffer) = c
  BY <1>1
<1> PICK h \in Int : h = r.m_head
  BY <1>1
<1> PICK t \in Int : t = r.m_tail
  BY <1>1
<1> PICK z \in Int : z = r.m_size
  BY <1>1
<1>3. writeLen(r) = Min({c - t, c - z}) /\ readLen(r) = Min({c - h, z})
  BY <1>2, Zenon DEF writeLen, readLen, writable, readable, RingCapacity
<1>4. c - t \in Int /\ c - z \in Int /\ c - h \in Int
  OBVIOUS
<1>5. writeLen(r) = IF c - t <= c - z THEN c - t ELSE c - z
  BY <1>3, <1>4, MinOfTwo, Zenon
<1>6. readLen(r) = IF c - h <= z THEN c - h ELSE z
  BY <1>3, <1>4, MinOfTwo, Zenon
<1> QED  BY <1>1, <1>2, <1>5, <1>6, Zenon DEF writable, readable, RingCapacity

\* A ring that holds s has s as its contents, and is consistent.
LEMMA HoldsContents ==
  ASSUME NEW c \in Nat \ {0}, NEW S, NEW r, NEW s, Holds(r, c, s, S)
  PROVE  RingOK(r, c) /\ Contents(r) = s
<1>1. /\ r.m_buffer \in [1..c -> S] /\ r.m_head \in 0..(c - 1) /\ r.m_tail \in 0..(c - 1)
      /\ r.m_size \in 0..c /\ Len(s) = r.m_size /\ s \in Seq(S)
  BY Zenon DEF Holds
<1>2. RingCapacity(r) = c
  BY RingLengths, Zenon
<1>3. r.m_head + r.m_size \in 0..(2 * c - 1)
  BY <1>1
<1>4. r.m_tail = (r.m_head + r.m_size) % c
  BY <1>3, OneWrap, Zenon DEF Holds
<1>5. ASSUME NEW i \in 1..r.m_size  PROVE Contents(r)[i] = s[i]
  <2>1. r.m_head + i - 1 \in 0..(2 * c - 1)
    BY <1>1
  <2>2. (r.m_head + i - 1) % c = Slot(r.m_head + i - 1, c)
    BY <2>1, OneWrap, Zenon
  <2> QED  BY <1>2, <2>2, Zenon DEF Holds, Contents
<1>6. Contents(r) = [i \in 1..r.m_size |-> s[i]]
  BY <1>5, Zenon DEF Contents
<1>7. s = [i \in 1..Len(s) |-> s[i]]
  BY <1>1
<1> QED  BY <1>1, <1>4, <1>6, <1>7, Zenon DEF RingOK

\* A new ring
LEMMA EmptyRing ==
  ASSUME NEW c \in Nat \ {0}, NEW S, NEW x \in S
  PROVE  Holds(RingOf(c, x), c, << >>, S)
BY DEF Holds, RingOf, Slot

\* Where n bytes behind the contents go: they take the place of none of them.
FreeSlots(c, h, z, n, t) ==
  /\ (t + n) % c = Slot(h + (z + n), c) /\ (t + n) % c \in 0..(c - 1)
  /\ \A i \in 1..z : /\ Slot(h + i - 1, c) + 1 \in 1..c
                     /\ Slot(h + i - 1, c) + 1 \notin (t + 1)..(t + n)
  /\ \A i \in 1..n : /\ Slot(h + (z + i) - 1, c) + 1 = t + i
                     /\ t + i \in 1..c /\ t + i \in (t + 1)..(t + n)

\* The slots behind the contents are the ones at writePtr.
LEMMA WrittenSlots ==
  ASSUME NEW c \in Nat \ {0}, NEW h \in 0..(c - 1), NEW z \in 0..c, NEW n \in Nat, NEW t,
         t = Slot(h + z, c), n <= c - t, n <= c - z
  PROVE  FreeSlots(c, h, z, n, t)
<1>1. t \in 0..(c - 1)
  BY DEF Slot
<1>2. t + n \in 0..(2 * c - 1)
  BY <1>1
<1>3. (t + n) % c = Slot(t + n, c)
  BY <1>2, OneWrap, Zenon
<1>4. Slot(t + n, c) = Slot(h + (z + n), c) /\ Slot(t + n, c) \in 0..(c - 1)
  BY <1>1 DEF Slot
<1>5. ASSUME NEW i \in 1..z
      PROVE  Slot(h + i - 1, c) + 1 \in 1..c /\ Slot(h + i - 1, c) + 1 \notin (t + 1)..(t + n)
  BY <1>1 DEF Slot
<1>6. ASSUME NEW i \in 1..n
      PROVE  /\ Slot(h + (z + i) - 1, c) + 1 = t + i
             /\ t + i \in 1..c /\ t + i \in (t + 1)..(t + n)
  BY <1>1 DEF Slot
<1> QED  BY <1>1, <1>3, <1>4, <1>5, <1>6, Zenon DEF FreeSlots

\* recv or memcpy puts bytes at writePtr, followed by produce.
LEMMA CopyInHolds ==
  ASSUME NEW c \in Nat \ {0}, NEW S, NEW r, NEW s, Holds(r, c, s, S),
         NEW data \in Seq(S), Len(data) <= writeLen(r)
  PROVE  Holds(CopyIn(r, data), c, s \o data, S)
<1> DEFINE h == r.m_head
           t == r.m_tail
           z == r.m_size
           b == r.m_buffer
           n == Len(data)
           d == [i \in 1..c |-> IF i \in (t + 1)..(t + n) THEN data[i - t] ELSE b[i]]
           q == CopyIn(r, data)
<1>1. /\ r \in [m_buffer : [1..c -> S], m_head : 0..(c - 1), m_tail : 0..(c - 1), m_size : 0..c]
      /\ s \in Seq(S) /\ Len(s) = z /\ t = Slot(h + z, c)
      /\ \A i \in 1..z : s[i] = b[Slot(h + i - 1, c) + 1]
  BY Zenon DEF Holds
<1>2. /\ h \in 0..(c - 1) /\ t \in 0..(c - 1) /\ z \in 0..c /\ b \in [1..c -> S] /\ n \in Nat
  BY <1>1
<1>3. n <= c - t /\ n <= c - z
  <2>1. writeLen(r) = IF c - t <= c - Len(s) THEN c - t ELSE c - Len(s)
    BY RingLengths, Zenon
  <2> HIDE DEF t, z, n
  <2>2. n <= writeLen(r)
    BY Zenon DEF n
  <2> QED  BY <1>1, <1>2, <2>1, <2>2
<1>4. d \in [1..c -> S] /\ Len(d) = c
  <2> HIDE DEF t, b, n
  <2>1. ASSUME NEW i \in (t + 1)..(t + n)  PROVE data[i - t] \in S
    <3>1. i - t \in 1..n
      BY <1>2
    <3> QED  BY <3>1, ElementOfSeq, Zenon DEF n
  <2>2. d \in [1..c -> S]
    BY <1>2, <2>1, Zenon
  <2> QED  BY <2>2
<1>5. q = [m_buffer |-> d, m_head |-> h, m_tail |-> (t + n) % c, m_size |-> z + n]
  <2>1. DOMAIN b = 1..c
    BY <1>2, Zenon
  <2>2. q = produce([r EXCEPT !.m_buffer = d], n)
    BY <2>1, Zenon DEF CopyIn
  <2> HIDE DEF d, n, q
  <2>5. PICK w : w = [r EXCEPT !.m_buffer = d]
    BY Zenon
  <2>6. q = produce(w, n)
    BY ONLY <2>2, <2>5, Zenon
  <2>3. w = [m_buffer |-> d, m_head |-> h, m_tail |-> t, m_size |-> z]
    BY <1>1, <2>5, Zenon
  <2>4. produce(w, n) = [m_buffer |-> d, m_head |-> h, m_tail |-> (t + n) % c, m_size |-> z + n]
    <3>1. RingCapacity(w) = c
      BY ONLY <1>4, <2>3, Zenon DEF RingCapacity
    <3>2. produce(w, n) = [w EXCEPT !.m_tail = (t + n) % c, !.m_size = z + n]
      BY ONLY <2>3, <3>1, Zenon DEF produce
    <3> QED  BY ONLY <2>3, <3>2, Zenon
  <2> QED  BY <2>6, <2>4, Zenon
<1> HIDE DEF h, t, z, b, n, q, d
<1>6. /\ (t + n) % c = Slot(h + (z + n), c) /\ (t + n) % c \in 0..(c - 1)
      /\ \A i \in 1..z : /\ Slot(h + i - 1, c) + 1 \in 1..c
                         /\ Slot(h + i - 1, c) + 1 \notin (t + 1)..(t + n)
      /\ \A i \in 1..n : /\ Slot(h + (z + i) - 1, c) + 1 = t + i
                         /\ t + i \in 1..c /\ t + i \in (t + 1)..(t + n)
  <2>1. t = Slot(h + z, c)
    BY <1>1, Zenon
  <2>2. FreeSlots(c, h, z, n, t)
    BY ONLY c \in Nat \ {0}, <1>2, <1>3, <2>1, WrittenSlots, Zenon
  <2> QED  BY ONLY <2>2, Zenon DEF FreeSlots
<1>7. /\ s \o data \in Seq(S) /\ Len(s \o data) = z + n
      /\ \A i \in 1..z : (s \o data)[i] = s[i]
      /\ \A i \in 1..n : (s \o data)[z + i] = data[i]
  <2>1. /\ s \o data \in Seq(S) /\ Len(s \o data) = Len(s) + Len(data)
        /\ \A i \in 1..Len(s) : (s \o data)[i] = s[i]
        /\ \A i \in 1..Len(data) : (s \o data)[Len(s) + i] = data[i]
    <3>1. s \in Seq(S)
      BY <1>1, Zenon
    <3> QED  BY ONLY <3>1, data \in Seq(S), ConcatElements
  <2> QED  BY ONLY <1>1, <2>1, Zenon DEF n
<1>8. ASSUME NEW i \in 1..(z + n)  PROVE (s \o data)[i] = d[Slot(h + i - 1, c) + 1]
  <2>1. CASE i \in 1..z
    <3>1. d[Slot(h + i - 1, c) + 1] = b[Slot(h + i - 1, c) + 1]
      BY <1>6, <2>1, Zenon DEF d
    <3> QED  BY <1>1, <1>7, <2>1, <3>1, Zenon
  <2>2. ASSUME NEW j \in 1..n, i = z + j  PROVE (s \o data)[i] = d[Slot(h + i - 1, c) + 1]
    <3>1. Slot(h + i - 1, c) + 1 = t + j /\ t + j \in 1..c /\ t + j \in (t + 1)..(t + n)
      BY <1>6, <2>2, Zenon
    <3>2. (t + j) - t = j
      BY <1>2
    <3>3. d[t + j] = data[j]
      BY <3>1, <3>2, Zenon DEF d
    <3> QED  BY <1>7, <2>2, <3>1, <3>3, Zenon
  <2>3. i \in 1..z \/ (i - z \in 1..n /\ i = z + (i - z))
    BY <1>2
  <2> QED  BY <2>1, <2>2, <2>3, Zenon
<1>9. z + n \in 0..c
  BY <1>2, <1>3
<1>10. /\ q \in [m_buffer : [1..c -> S], m_head : 0..(c - 1), m_tail : 0..(c - 1), m_size : 0..c]
       /\ q.m_buffer = d /\ q.m_head = h /\ q.m_tail = (t + n) % c /\ q.m_size = z + n
  BY <1>2, <1>4, <1>5, <1>6, <1>9, Zenon
<1>11. Holds(q, c, s \o data, S)
  BY <1>6, <1>7, <1>8, <1>10, Zenon DEF Holds
<1> QED  BY <1>11, Zenon DEF q

\* Where the bytes behind the first n of the contents are.
LaterSlots(c, h, z, n) ==
  /\ (h + n) % c \in 0..(c - 1)
  /\ Slot(((h + n) % c) + (z - n), c) = Slot(h + z, c)
  /\ \A i \in 1..(z - n) : Slot(((h + n) % c) + i - 1, c) = Slot(h + (n + i) - 1, c)

\* Moving the head renumbers the slots that stay.
LEMMA ConsumedSlots ==
  ASSUME NEW c \in Nat \ {0}, NEW h \in 0..(c - 1), NEW z \in 0..c, NEW n \in 0..z
  PROVE  LaterSlots(c, h, z, n)
<1> DEFINE g == Slot(h + n, c)
<1>1. (h + n) % c = g
  <2>1. h + n \in 0..(2 * c - 1)
    OBVIOUS
  <2> QED  BY <2>1, OneWrap, Zenon
<1>2. g \in 0..(c - 1) /\ Slot(g + (z - n), c) = Slot(h + z, c)
  BY DEF Slot
<1>3. ASSUME NEW i \in 1..(z - n)  PROVE Slot(g + i - 1, c) = Slot(h + (n + i) - 1, c)
  BY DEF Slot
<1> HIDE DEF g
<1> QED  BY <1>1, <1>2, <1>3, Zenon DEF LaterSlots

\* consume drops the oldest n bytes.
LEMMA ConsumeHolds ==
  ASSUME NEW c \in Nat \ {0}, NEW S, NEW r, NEW s, Holds(r, c, s, S), NEW n \in 0..Len(s)
  PROVE  Holds(consume(r, n), c, SubSeq(s, n + 1, Len(s)), S)
<1> DEFINE h == r.m_head
           t == r.m_tail
           z == r.m_size
           b == r.m_buffer
           q == consume(r, n)
           p == SubSeq(s, n + 1, Len(s))
<1>1. /\ r \in [m_buffer : [1..c -> S], m_head : 0..(c - 1), m_tail : 0..(c - 1), m_size : 0..c]
      /\ s \in Seq(S) /\ Len(s) = z /\ t = Slot(h + z, c)
      /\ \A i \in 1..z : s[i] = b[Slot(h + i - 1, c) + 1]
  BY Zenon DEF Holds
<1>2. h \in 0..(c - 1) /\ t \in 0..(c - 1) /\ z \in 0..c /\ b \in [1..c -> S] /\ n \in 0..z
  BY <1>1, Zenon
<1>3. RingCapacity(r) = c
  BY RingLengths, Zenon
<1>4. q = [m_buffer |-> b, m_head |-> (h + n) % c, m_tail |-> t, m_size |-> z - n]
  <2>1. r = [m_buffer |-> b, m_head |-> h, m_tail |-> t, m_size |-> z]
    BY ONLY <1>1, Zenon
  <2> HIDE DEF b, h, t, z
  <2>2. q = [r EXCEPT !.m_head = (h + n) % c, !.m_size = z - n]
    BY ONLY <1>3, Zenon DEF consume, h, z
  <2> QED  BY ONLY <2>1, <2>2, Zenon
<1>5. p \in Seq(S) /\ Len(p) = z - n /\ \A i \in 1..(z - n) : p[i] = s[n + i]
  <2>1. s \in Seq(S)
    BY <1>1, Zenon
  <2>2. /\ p \in Seq(S) /\ Len(p) = Len(s) - n
        /\ \A i \in 1..(Len(s) - n) : p[i] = s[n + i]
    BY ONLY <2>1, n \in 0..Len(s), SuffixElements, Zenon
  <2> HIDE DEF p
  <2> QED  BY ONLY <1>1, <2>2, Zenon
<1> HIDE DEF h, t, z, b, q, p
<1>6. LaterSlots(c, h, z, n)
  BY ONLY c \in Nat \ {0}, <1>2, ConsumedSlots, Zenon
<1>7. z - n \in 0..c
  BY <1>2
<1>8. /\ q \in [m_buffer : [1..c -> S], m_head : 0..(c - 1), m_tail : 0..(c - 1), m_size : 0..c]
      /\ q.m_buffer = b /\ q.m_head = (h + n) % c /\ q.m_tail = t /\ q.m_size = z - n
  BY ONLY <1>2, <1>4, <1>6, <1>7, Zenon DEF LaterSlots
<1>9. ASSUME NEW i \in 1..(z - n)  PROVE p[i] = b[Slot(((h + n) % c) + i - 1, c) + 1]
  <2>1. n + i \in 1..z
    BY <1>2
  <2>2. p[i] = s[n + i]
    BY <1>5, Zenon
  <2>3. s[n + i] = b[Slot(h + (n + i) - 1, c) + 1]
    BY <1>1, <2>1, Zenon
  <2>4. Slot(((h + n) % c) + i - 1, c) = Slot(h + (n + i) - 1, c)
    BY <1>6, Zenon DEF LaterSlots
  <2> QED  BY ONLY <2>2, <2>3, <2>4, Zenon
<1>10. t = Slot(((h + n) % c) + (z - n), c)
  BY <1>1, <1>6, Zenon DEF LaterSlots
<1>11. Holds(q, c, p, S)
  BY ONLY <1>5, <1>8, <1>9, <1>10, Zenon DEF Holds
<1> QED  BY <1>11, Zenon DEF q, p

\* Concatenation is associative.
Regrouped(a, b, c) == (a \o b) \o c = a \o (b \o c)

\* The wrapped form, which the provers match.
LEMMA Regroup ==
  ASSUME NEW S, NEW a \in Seq(S), NEW b \in Seq(S), NEW c \in Seq(S)
  PROVE  Regrouped(a, b, c)
BY ConcatAssociative DEF Regrouped

\* A sequence cut in two.
LEMMA PrefixElements ==
  ASSUME NEW S, NEW s \in Seq(S), NEW k \in 0..Len(s)
  PROVE  /\ SubSeq(s, 1, k) \in Seq(S) /\ Len(SubSeq(s, 1, k)) = k
         /\ \A i \in 1..k : SubSeq(s, 1, k)[i] = s[i]
<1>1. \A i \in 1..k : s[i] \in S
  BY ElementOfSeq
<1>2. k \in Int /\ 1 \in Int /\ k - 1 + 1 = k /\ \A i \in 1..k : 1 + i - 1 = i
  OBVIOUS
<1>3. /\ SubSeq(s, 1, k) \in Seq(S)
      /\ Len(SubSeq(s, 1, k)) = IF 1 <= k THEN k - 1 + 1 ELSE 0
      /\ \A i \in 1..(k - 1 + 1) : SubSeq(s, 1, k)[i] = s[1 + i - 1]
  BY ONLY <1>1, <1>2, SubSeqProperties
<1> QED  BY <1>2, <1>3

\* Its two parts make the whole,
LEMMA SplitAt ==
  ASSUME NEW S, NEW s \in Seq(S), NEW k \in 0..Len(s)
  PROVE  SubSeq(s, 1, k) \o SubSeq(s, k + 1, Len(s)) = s
<1>1. Len(s) \in Nat
  OBVIOUS
<1>2. 1 \in 1..(Len(s) + 1) /\ k \in (1 - 1)..Len(s) /\ Len(s) \in k..Len(s)
  BY <1>1
<1>3. SubSeq(s, 1, k) \o SubSeq(s, k + 1, Len(s)) = SubSeq(s, 1, Len(s))
  BY ONLY s \in Seq(S), <1>2, ConcatAdjacentSubSeq, Zenon
<1> QED  BY <1>3, SubSeqFull, Zenon

\* and moving the first part from one queue to the next keeps the stream.
LEMMA MoveBytes ==
  ASSUME NEW S, NEW a \in Seq(S), NEW s \in Seq(S), NEW k \in 0..Len(s)
  PROVE  (a \o SubSeq(s, 1, k)) \o SubSeq(s, k + 1, Len(s)) = a \o s
<1> DEFINE p == SubSeq(s, 1, k)
           q == SubSeq(s, k + 1, Len(s))
<1>1. p \in Seq(S)
  BY PrefixElements, Zenon
<1>2. q \in Seq(S)
  BY SuffixElements, Zenon
<1>3. p \o q = s
  BY SplitAt, Zenon
<1> HIDE DEF p, q
<1>4. (a \o p) \o q = a \o (p \o q)
  BY <1>1, <1>2, ConcatAssociative
<1> QED  BY <1>3, <1>4, Zenon DEF p, q

\* The bytes at readPtr are the oldest ones.
AtReadPtr(r, i, s) == r.m_buffer[r.m_head + i] = s[i]

\* One memcpy from readPtr, no longer than contiguousReadable.
LEMMA ReadPart ==
  ASSUME NEW c \in Nat \ {0}, NEW S, NEW r, NEW s, Holds(r, c, s, S), NEW i \in 1..readLen(r)
  PROVE  AtReadPtr(r, i, s)
<1> DEFINE h == r.m_head
<1>1. /\ Len(s) \in 0..c /\ h \in 0..(c - 1)
      /\ readLen(r) = IF c - h <= Len(s) THEN c - h ELSE Len(s)
  BY RingLengths, Zenon
<1>2. \A k \in 1..Len(s) : s[k] = r.m_buffer[Slot(h + k - 1, c) + 1]
  BY Zenon DEF Holds
<1> HIDE DEF h
<1> PICK z \in Nat : z = Len(s)
  BY <1>1
<1>3. i \in 1..z /\ Slot(h + i - 1, c) + 1 = h + i
  BY <1>1 DEF Slot
<1> QED  BY <1>2, <1>3, Zenon DEF h, AtReadPtr

\* Writing up to the end of the buffer, and then from its start, writes all.
AllWritten(c, h, z, m, t, w, n, t1, w1) ==
  /\ w1 \in Int /\ m - n <= w1
  /\ (IF w1 <= m - n THEN w1 ELSE m - n) = m - n

\* Two turns of write's loop reach everything.
LEMMA TwoWrites ==
  ASSUME NEW c \in Nat \ {0}, NEW h \in 0..(c - 1), NEW z \in 0..c, NEW m \in Nat, m <= c - z,
         NEW t, t = Slot(h + z, c),
         NEW w, w = IF c - t <= c - z THEN c - t ELSE c - z,
         NEW n, n = IF w <= m THEN w ELSE m,
         NEW t1, t1 = Slot(h + (z + n), c),
         NEW w1, w1 = IF c - t1 <= c - (z + n) THEN c - t1 ELSE c - (z + n)
  PROVE  AllWritten(c, h, z, m, t, w, n, t1, w1)
<1>1. t \in 0..(c - 1)
  BY DEF Slot
<1>2. w \in Nat /\ w <= c - t /\ w <= c - z
  BY <1>1
<1>3. n \in 0..m /\ n <= w
  BY <1>2
<1>4. t1 \in 0..(c - 1) /\ w1 \in Nat
  BY <1>1, <1>2, <1>3 DEF Slot
<1>5. CASE n = m
  BY <1>3, <1>4, <1>5 DEF AllWritten
<1>6. CASE n = w /\ w < m
  <2>1. w = c - t
    BY <1>1, <1>6
  <2>2. t1 = 0
    BY <1>1, <1>6, <2>1 DEF Slot
  <2> QED  BY <1>2, <1>3, <1>6, <2>2 DEF AllWritten
<1> QED  BY <1>2, <1>3, <1>4, <1>5, <1>6

\* write puts all of the data behind the contents, where it fits.
LEMMA WriteHolds ==
  ASSUME NEW c \in Nat \ {0}, NEW S, NEW r, NEW s, Holds(r, c, s, S),
         NEW data \in Seq(S), Len(data) <= writable(r)
  PROVE  Holds(write(r, data), c, s \o data, S)
<1> DEFINE h == r.m_head
           t == r.m_tail
           z == Len(s)
           m == Len(data)
           n == Min({writeLen(r), m})
           d1 == SubSeq(data, 1, n)
           r1 == CopyIn(r, d1)
           n2 == Min({writeLen(r1), m - n})
           d2 == SubSeq(data, n + 1, n + n2)
<1>1. /\ h \in 0..(c - 1) /\ z \in 0..c /\ m \in Nat /\ m <= c - z
      /\ t = Slot(h + z, c)
      /\ writeLen(r) = IF c - t <= c - z THEN c - t ELSE c - z
  <2>1. /\ h \in 0..(c - 1) /\ z \in 0..c /\ writable(r) = c - z
        /\ writeLen(r) = IF c - t <= c - z THEN c - t ELSE c - z
    BY RingLengths, Zenon
  <2>2. t = Slot(h + z, c)
    BY Zenon DEF Holds
  <2>3. m \in Nat /\ m <= writable(r)
    OBVIOUS
  <2> HIDE DEF h, t, z, m
  <2> QED  BY ONLY <2>1, <2>2, <2>3, Zenon
<1> HIDE DEF h, t, z, m
<1>2. writeLen(r) \in Int
  BY ONLY c \in Nat \ {0}, <1>1 DEF Slot
<1>3. n = IF writeLen(r) <= m THEN writeLen(r) ELSE m
  BY ONLY <1>1, <1>2, MinOfTwo
<1>4. n \in 0..m /\ n <= writeLen(r)
  <2> HIDE DEF n
  <2> QED  BY ONLY c \in Nat \ {0}, <1>1, <1>3 DEF Slot
<1> HIDE DEF n
<1>5. d1 \in Seq(S) /\ Len(d1) = n
  BY <1>4, PrefixElements, Zenon DEF m
<1> HIDE DEF d1
<1>6. Holds(r1, c, s \o d1, S)
  <2>1. Len(d1) <= writeLen(r)
    BY <1>4, <1>5, Zenon
  <2> QED  BY ONLY c \in Nat \ {0}, Holds(r, c, s, S), <1>5, <2>1, CopyInHolds, Zenon
<1> HIDE DEF r1
<1>7. /\ Len(s \o d1) = z + n /\ s \o d1 \in Seq(S)
      /\ r1.m_head = h /\ r1.m_tail = Slot(h + (z + n), c)
      /\ writeLen(r1) = IF c - r1.m_tail <= c - (z + n) THEN c - r1.m_tail ELSE c - (z + n)
  <2>1. Len(s \o d1) = z + n /\ s \o d1 \in Seq(S)
    <3>1. s \in Seq(S) /\ d1 \in Seq(S)
      BY <1>5, Zenon DEF Holds
    <3>2. s \o d1 \in Seq(S) /\ Len(s \o d1) = Len(s) + Len(d1)
      BY ONLY <3>1, ConcatElements, Zenon
    <3> QED  BY ONLY <1>5, <3>2, Zenon DEF z
  <2>2. r1.m_head = h
    BY DEF r1, CopyIn, produce, h
  <2>3. r1.m_tail = Slot(r1.m_head + r1.m_size, c) /\ r1.m_size = z + n
    BY ONLY <1>6, <2>1, Zenon DEF Holds
  <2>4. writeLen(r1) = IF c - r1.m_tail <= c - Len(s \o d1) THEN c - r1.m_tail
                                                           ELSE c - Len(s \o d1)
    BY ONLY c \in Nat \ {0}, <1>6, RingLengths, Zenon
  <2> QED  BY ONLY <2>1, <2>2, <2>3, <2>4, Zenon
<1>8. /\ writeLen(r1) \in Int /\ m - n <= writeLen(r1)
      /\ (IF writeLen(r1) <= m - n THEN writeLen(r1) ELSE m - n) = m - n
  <2>1. AllWritten(c, h, z, m, t, writeLen(r), n, r1.m_tail, writeLen(r1))
    BY ONLY c \in Nat \ {0}, <1>1, <1>3, <1>7, TwoWrites, Zenon
  <2> QED  BY ONLY <2>1, Zenon DEF AllWritten
<1>9. n2 = m - n /\ n + n2 = m
  <2>1. m - n \in Int /\ n + (m - n) = m
    BY ONLY <1>1, <1>4
  <2> QED  BY ONLY <1>8, <2>1, MinOfTwo, Zenon
<1> HIDE DEF n2
<1>10. d2 \in Seq(S) /\ Len(d2) = m - n /\ d1 \o d2 = data
  BY <1>4, <1>9, SuffixElements, SplitAt, Zenon DEF m, d1
<1> HIDE DEF d2
<1>11. Holds(CopyIn(r1, d2), c, (s \o d1) \o d2, S)
  <2>1. Len(d2) <= writeLen(r1)
    BY <1>8, <1>10, Zenon
  <2> QED  BY ONLY c \in Nat \ {0}, <1>6, <1>10, <2>1, CopyInHolds, Zenon
<1>12. (s \o d1) \o d2 = s \o data
  <2>1. s \in Seq(S) /\ d1 \in Seq(S) /\ d2 \in Seq(S)
    BY <1>5, <1>10, Zenon DEF Holds
  <2>2. (s \o d1) \o d2 = s \o (d1 \o d2)
    BY ONLY <2>1, ConcatAssociative
  <2> QED  BY ONLY <1>10, <2>2, Zenon
<1>13. write(r, data) = CopyIn(r1, d2)
  BY Zenon DEF write, r1, d1, d2, n, n2, m
<1> QED  BY <1>11, <1>12, <1>13, Zenon

\* Reading up to the end of the buffer, and then from its start, reads all.
AllRead(c, h, z, m, w, n, h1, w1) ==
  /\ n \in 0..m /\ n <= w /\ w1 \in Int /\ m - n <= w1
  /\ (IF w1 <= m - n THEN w1 ELSE m - n) = m - n

\* Two turns of read's loop reach everything.
LEMMA TwoReads ==
  ASSUME NEW c \in Nat \ {0}, NEW h \in 0..(c - 1), NEW z \in 0..c, NEW m \in 0..z,
         NEW w, w = IF c - h <= z THEN c - h ELSE z,
         NEW n, n = IF w <= m THEN w ELSE m,
         NEW h1, h1 = Slot(h + n, c),
         NEW w1, w1 = IF c - h1 <= z - n THEN c - h1 ELSE z - n
  PROVE  AllRead(c, h, z, m, w, n, h1, w1)
<1>1. w \in Nat /\ w <= c - h /\ w <= z
  OBVIOUS
<1>2. n \in 0..m /\ n <= w
  BY <1>1
<1>3. h1 \in 0..(c - 1) /\ w1 \in Nat
  BY <1>1, <1>2 DEF Slot
<1>4. CASE n = m
  BY <1>2, <1>3, <1>4 DEF AllRead
<1>5. CASE n = w /\ w < m
  <2>1. w = c - h /\ h1 = 0
    BY <1>5 DEF Slot
  <2> QED  BY <1>1, <1>2, <1>5, <2>1 DEF AllRead
<1> QED  BY <1>1, <1>2, <1>3, <1>4, <1>5

\* read returns the oldest bytes and leaves the others.
LEMMA ReadHolds ==
  ASSUME NEW c \in Nat \ {0}, NEW S, NEW r, NEW s, Holds(r, c, s, S), NEW m \in 0..Len(s)
  PROVE  /\ readBytes(r, m) = SubSeq(s, 1, m)
         /\ Holds(readRest(r, m), c, SubSeq(s, m + 1, Len(s)), S)
<1> DEFINE h == r.m_head
           z == Len(s)
           n == Min({readLen(r), m})
           r1 == consume(r, n)
           s1 == SubSeq(s, n + 1, z)
           n2 == Min({readLen(r1), m - n})
<1>1. /\ h \in 0..(c - 1) /\ z \in 0..c /\ m \in 0..z /\ s \in Seq(S)
      /\ readLen(r) = IF c - h <= z THEN c - h ELSE z
  <2>1. /\ h \in 0..(c - 1) /\ z \in 0..c
        /\ readLen(r) = IF c - h <= z THEN c - h ELSE z
    BY RingLengths, Zenon
  <2>2. s \in Seq(S)
    BY Zenon DEF Holds
  <2> QED  BY ONLY <2>1, <2>2, m \in 0..Len(s), Zenon
<1> HIDE DEF h, z
<1>2. readLen(r) \in Nat /\ readLen(r) <= z
  BY ONLY c \in Nat \ {0}, <1>1
<1>3. n = IF readLen(r) <= m THEN readLen(r) ELSE m
  BY ONLY <1>1, <1>2, MinOfTwo
<1> HIDE DEF n
<1>4. n \in 0..m /\ n \in 0..z /\ n <= readLen(r)
  BY ONLY <1>1, <1>2, <1>3
<1>5. Holds(r1, c, s1, S)
  BY ONLY c \in Nat \ {0}, Holds(r, c, s, S), <1>4, ConsumeHolds, Zenon DEF z
<1>6. s1 \in Seq(S) /\ Len(s1) = z - n /\ \A i \in 1..(z - n) : s1[i] = s[n + i]
  BY ONLY <1>1, <1>4, SuffixElements, Zenon DEF z
<1>7. r1.m_head = Slot(h + n, c) /\ r1.m_buffer = r.m_buffer /\ r1.m_size = r.m_size - n
  <2>1. h + n \in 0..(2 * c - 1)
    BY ONLY c \in Nat \ {0}, <1>1, <1>4
  <2>2. (h + n) % c = Slot(h + n, c)
    BY ONLY c \in Nat \ {0}, <2>1, OneWrap, Zenon
  <2>3. RingCapacity(r) = c
    BY RingLengths, Zenon
  <2> QED  BY <2>2, <2>3, Zenon DEF Holds, consume, h
<1> HIDE DEF r1, s1
<1>8. readLen(r1) = IF c - r1.m_head <= z - n THEN c - r1.m_head ELSE z - n
  <2>1. readLen(r1) = IF c - r1.m_head <= Len(s1) THEN c - r1.m_head ELSE Len(s1)
    BY ONLY c \in Nat \ {0}, <1>5, RingLengths, Zenon
  <2> QED  BY ONLY <1>6, <2>1, Zenon
<1>9. /\ readLen(r1) \in Int /\ m - n <= readLen(r1)
      /\ (IF readLen(r1) <= m - n THEN readLen(r1) ELSE m - n) = m - n
  <2>1. AllRead(c, h, z, m, readLen(r), n, r1.m_head, readLen(r1))
    BY ONLY c \in Nat \ {0}, <1>1, <1>3, <1>7, <1>8, TwoReads, Zenon
  <2> QED  BY ONLY <2>1, Zenon DEF AllRead
<1>10. n2 = m - n /\ n + n2 = m /\ m - n \in 0..(z - n)
  <2>1. m - n \in Int /\ n + (m - n) = m /\ m - n \in 0..(z - n)
    BY ONLY <1>1, <1>4
  <2> QED  BY ONLY <1>9, <2>1, MinOfTwo, Zenon
<1> HIDE DEF n2
<1>11. \A i \in 1..n : r.m_buffer[r.m_head + i] = s[i]
  <2>1. \A i \in 1..n : i \in 1..readLen(r)
    BY ONLY <1>2, <1>4
  <2> QED  BY <2>1, ReadPart DEF AtReadPtr
<1>12. \A i \in 1..(m - n) : r1.m_buffer[r1.m_head + i] = s[n + i]
  <2>1. \A i \in 1..(m - n) : i \in 1..readLen(r1) /\ i \in 1..(z - n)
    BY ONLY <1>1, <1>4, <1>9
  <2>2. ASSUME NEW i \in 1..(m - n)  PROVE r1.m_buffer[r1.m_head + i] = s1[i]
    <3>1. i \in 1..readLen(r1)
      BY <2>1, Zenon
    <3>2. AtReadPtr(r1, i, s1)
      BY ONLY c \in Nat \ {0}, <1>5, <3>1, ReadPart, Zenon
    <3> QED  BY ONLY <3>2, Zenon DEF AtReadPtr
  <2> QED  BY ONLY <1>6, <2>1, <2>2, Zenon
<1>13. readBytes(r, m) = SubSeq(s, 1, m)
  <2> DEFINE y == SubSeq(s, 1, m)
  <2>1. y \in Seq(S) /\ Len(y) = m /\ \A i \in 1..m : y[i] = s[i]
    BY ONLY <1>1, PrefixElements, Zenon DEF z
  <2> HIDE DEF y
  <2>2. ASSUME NEW i \in 1..m
        PROVE  y[i] = IF i <= n THEN r.m_buffer[r.m_head + i]
                                ELSE r1.m_buffer[r1.m_head + i - n]
    <3>1. CASE i \in 1..n
      BY <1>4, <1>11, <2>1, <3>1
    <3>2. CASE i - n \in 1..(m - n) /\ n + (i - n) = i /\ ~(i <= n)
      <4>1. r1.m_head \in Int
        BY <1>1, <1>4, <1>7 DEF Slot
      <4>2. r1.m_head + (i - n) = r1.m_head + i - n
        BY <1>4, <4>1, Zenon
      <4> QED  BY <1>12, <2>1, <3>2, <4>2, Zenon
    <3> QED  BY <1>4, <3>1, <3>2
  <2>3. readBytes(r, m) = [i \in 1..(n + n2) |-> IF i <= n THEN r.m_buffer[r.m_head + i]
                                                ELSE r1.m_buffer[r1.m_head + i - n]]
    BY Zenon DEF readBytes, n, n2, r1
  <2>4. y = [i \in 1..m |-> y[i]]
    BY ONLY <2>1
  <2>5. readBytes(r, m) = y
    BY ONLY <1>10, <2>2, <2>3, <2>4, Zenon
  <2> QED  BY ONLY <2>5, Zenon DEF y
<1>14. readRest(r, m) = consume(r1, n2)
  <2>1. r.m_size - r1.m_size = n
    <3>1. r.m_size \in Int
      BY DEF Holds
    <3> QED  BY ONLY <1>4, <1>7, <3>1
  <2>2. readRest(r, m) = consume(r1, Min({readLen(r1), m - (r.m_size - r1.m_size)}))
    BY Zenon DEF readRest, n, r1
  <2> QED  BY ONLY <2>1, <2>2, Zenon DEF n2
<1>15. Holds(consume(r1, n2), c, SubSeq(s1, n2 + 1, Len(s1)), S)
  <2>1. n2 \in 0..Len(s1)
    BY ONLY <1>6, <1>10, Zenon
  <2> QED  BY ONLY c \in Nat \ {0}, <1>5, <2>1, ConsumeHolds, Zenon
<1>16. SubSeq(s1, n2 + 1, Len(s1)) = SubSeq(s, m + 1, z)
  <2>1. m \in n..z
    BY ONLY <1>1, <1>4
  <2> QED  BY ONLY <1>1, <1>4, <1>10, <2>1, SuffixOfSuffix, Zenon DEF s1, z
<1> QED  BY ONLY <1>13, <1>14, <1>15, <1>16, Zenon DEF z

\* peek returns the oldest bytes, when there are as many.
LEMMA PeekHolds ==
  ASSUME NEW c \in Nat \ {0}, NEW S, NEW r, NEW s, Holds(r, c, s, S), NEW m \in 0..Len(s)
  PROVE  \A i \in 1..m : peek(r, m)[i] = s[i]
<1> DEFINE h == r.m_head
           z == r.m_size
           b == r.m_buffer
           a == Min({m, z})
           f == Min({a, RingCapacity(r) - h})
<1>1. h \in 0..(c - 1) /\ z \in 0..c /\ m \in 0..z
  BY Zenon DEF Holds
<1>2. RingCapacity(r) = c
  BY RingLengths, Zenon
<1>3. \A i \in 1..z : s[i] = b[Slot(h + i - 1, c) + 1]
  BY Zenon DEF Holds
<1>4. peek(r, m) = [i \in 1..a |-> IF i <= f THEN b[h + i] ELSE b[i - f]]
  BY Zenon DEF peek
<1> HIDE DEF h, z, b
<1>5. a = m
  <2>1. a = IF m <= z THEN m ELSE z
    BY ONLY <1>1, MinOfTwo
  <2> QED  BY ONLY <1>1, <2>1
<1> HIDE DEF a
<1>6. f = IF m <= c - h THEN m ELSE c - h
  <2>1. f = Min({m, c - h}) /\ m \in Int /\ c - h \in Int
    BY ONLY c \in Nat \ {0}, <1>1, <1>2, <1>5
  <2> QED  BY ONLY <2>1, MinOfTwo, Zenon
<1> HIDE DEF f
<1>7. ASSUME NEW i \in 1..m  PROVE s[i] = IF i <= f THEN b[h + i] ELSE b[i - f]
  <2>1. i \in 1..z
    BY ONLY <1>1, i \in 1..m
  <2>2. Slot(h + i - 1, c) + 1 = IF i <= f THEN h + i ELSE i - f
    BY ONLY c \in Nat \ {0}, <1>1, <1>6, i \in 1..m DEF Slot
  <2> QED  BY ONLY <1>3, <2>1, <2>2, Zenon
<1> QED  BY ONLY <1>4, <1>5, <1>7, Zenon
-----------------------------------------------------------------------------
(***************************************************************************)
(* Sending.  The bytes of the packets are numbered pairs, and << >> is     *)
(* what the buffer of a new ring has in it.                                *)
(***************************************************************************)
TxByte == (Nat \X Nat) \cup {<< >>}

TxIInv ==
  /\ Holds(txRing, TX_CAPACITY, Contents(txRing), TxByte)
  /\ accepted \in Seq(TxByte) /\ taken \in Seq(TxByte) /\ packets \in Nat
  /\ taken \o Contents(txRing) = accepted
  /\ tpc \in {"idle", "recv", "extract"} => (outArmed <=> readable(txRing) > 0)

\* It holds at first
LEMMA TxInit == ConnInit => TxIInv
<1> SUFFICES ASSUME ConnInit  PROVE TxIInv
  BY Zenon
<1>1. TX_CAPACITY \in Nat \ {0}
  BY ConnectionAssumption, Zenon
<1>2. << >> \in TxByte
  BY Zenon DEF TxByte
<1>3. Holds(txRing, TX_CAPACITY, << >>, TxByte) /\ txRing.m_size = 0
  BY <1>1, <1>2, EmptyRing, Zenon DEF ConnInit, RingOf
<1>4. Contents(txRing) = << >>
  BY ONLY <1>1, <1>3, HoldsContents, Zenon
<1>5. << >> \in Seq(TxByte) /\ << >> \o << >> = << >>
  OBVIOUS
<1> QED  BY <1>3, <1>4, <1>5 DEF TxIInv, ConnInit, readable

\* The bytes of a ring after a step that keeps what it holds in order.
LEMMA RingAfter ==
  ASSUME NEW c \in Nat \ {0}, NEW S, NEW r, NEW s, Holds(r, c, s, S)
  PROVE  Contents(r) = s /\ Holds(r, c, Contents(r), S) /\ readable(r) = Len(s)
<1>1. Contents(r) = s
  BY HoldsContents, Zenon
<1> QED  BY <1>1, RingLengths

\* A step that leaves the tx ring and the interest alone, between events.
LEMMA TxSame ==
  ASSUME TxIInv, UNCHANGED <<txRing, accepted, taken, outArmed>>, packets' \in Nat,
         tpc' \in {"idle", "recv", "extract"} => tpc \in {"idle", "recv", "extract"}
  PROVE  TxIInv'
<1>1. readable(txRing)' = readable(txRing) /\ Contents(txRing)' = Contents(txRing)
  BY Zenon
<1> QED  BY <1>1, Zenon DEF TxIInv

\* processTxQueue appends a packet that fits.
LEMMA TxPacketStep ==
  ASSUME TxIInv, NEW len \in TxLens, TxPacket(len)
  PROVE  TxIInv'
<1>1. TX_CAPACITY \in Nat \ {0} /\ len \in Nat
  BY ConnectionAssumption, Zenon
<1>2. CASE writable(txRing) < len
  <2>1. UNCHANGED <<tpc, txRing, accepted, outArmed, taken>> /\ packets' = packets + 1
    BY <1>2, Zenon DEF TxPacket
  <2>2. packets' \in Nat
    BY <2>1 DEF TxIInv
  <2> QED  BY ONLY TxIInv, <2>1, <2>2, TxSame, Zenon
<1>3. CASE ~(writable(txRing) < len)
  <2> DEFINE s == Contents(txRing)
             d == PacketBytes(packets + 1, len)
  <2>1. /\ Holds(txRing, TX_CAPACITY, s, TxByte)
        /\ accepted \in Seq(TxByte) /\ taken \in Seq(TxByte) /\ packets \in Nat
        /\ taken \o s = accepted
    BY Zenon DEF TxIInv
  <2>2. /\ txRing' = write(txRing, d) /\ accepted' = accepted \o d /\ tpc' = "tx"
        /\ taken' = taken /\ packets' = packets + 1
    BY <1>3, Zenon DEF TxPacket
  <2>3. d \in Seq(TxByte) /\ Len(d) = len
    <3>1. \A i \in 1..len : <<packets + 1, i>> \in TxByte
      BY <2>1 DEF TxByte
    <3> QED  BY <1>1, <3>1 DEF PacketBytes
  <2> HIDE DEF s, d
  <2>4. Len(d) <= writable(txRing)
    <3>1. writable(txRing) = TX_CAPACITY - Len(s) /\ Len(s) \in 0..TX_CAPACITY
      BY ONLY <1>1, <2>1, RingLengths, Zenon
    <3> QED  BY ONLY <1>1, <1>3, <2>3, <3>1
  <2>5. Holds(txRing', TX_CAPACITY, s \o d, TxByte)
    BY ONLY <1>1, <2>1, <2>2, <2>3, <2>4, WriteHolds, Zenon
  <2>6. Contents(txRing') = s \o d /\ Holds(txRing', TX_CAPACITY, Contents(txRing'), TxByte)
    BY ONLY <1>1, <2>5, RingAfter, Zenon
  <2>7. taken \o (s \o d) = accepted \o d
    <3>1. taken \in Seq(TxByte) /\ s \in Seq(TxByte) /\ d \in Seq(TxByte)
      BY ONLY <2>1, <2>3, Zenon DEF Holds
    <3>2. (taken \o s) \o d = taken \o (s \o d)
      BY ONLY <3>1, ConcatAssociative
    <3> QED  BY ONLY <2>1, <3>2, Zenon
  <2>8. accepted \o d \in Seq(TxByte) /\ packets + 1 \in Nat
    BY ONLY <2>1, <2>3
  <2> QED  BY ONLY <2>1, <2>2, <2>6, <2>7, <2>8, Zenon DEF TxIInv, Contents, readable
<1> QED  BY <1>2, <1>3, Zenon

\* flushTxBuffer moves bytes from the front of the ring to the socket.
LEMMA FlushStep ==
  ASSUME TxIInv, Flush
  PROVE  TxIInv'
<1> DEFINE s == Contents(txRing)
<1>1. TX_CAPACITY \in Nat \ {0}
  BY ConnectionAssumption, Zenon
<1>2. /\ Holds(txRing, TX_CAPACITY, s, TxByte)
      /\ accepted \in Seq(TxByte) /\ taken \in Seq(TxByte) /\ packets \in Nat
      /\ taken \o s = accepted /\ s \in Seq(TxByte)
  BY Zenon DEF TxIInv, Holds
<1>3. PICK n \in 0..readLen(txRing) :
        /\ taken' = taken \o [i \in 1..n |-> txRing.m_buffer[txRing.m_head + i]]
        /\ txRing' = consume(txRing, n)
        /\ IF n < readLen(txRing) THEN outArmed' = TRUE /\ tpc' = "idle"
                                  ELSE UNCHANGED <<outArmed, tpc>>
  BY Zenon DEF Flush
<1>4. tpc = "flush" /\ accepted' = accepted /\ packets' = packets
  BY Zenon DEF Flush
<1> HIDE DEF s
<1>5. readLen(txRing) \in 0..Len(s) /\ n \in 0..Len(s)
  <2>1. /\ Len(s) \in 0..TX_CAPACITY /\ txRing.m_head \in 0..(TX_CAPACITY - 1)
        /\ readLen(txRing) = IF TX_CAPACITY - txRing.m_head <= Len(s) THEN TX_CAPACITY - txRing.m_head
                                                                     ELSE Len(s)
    BY ONLY <1>1, <1>2, RingLengths, Zenon
  <2> QED  BY ONLY <1>1, <2>1, n \in 0..readLen(txRing)
<1> DEFINE p == SubSeq(s, 1, n)
           q == SubSeq(s, n + 1, Len(s))
<1>6. /\ p \in Seq(TxByte) /\ Len(p) = n /\ \A i \in 1..n : p[i] = s[i]
  BY ONLY <1>2, <1>5, PrefixElements, Zenon
<1>7. q \in Seq(TxByte) /\ Len(q) = Len(s) - n
  BY ONLY <1>2, <1>5, SuffixElements, Zenon
<1>9. Holds(txRing', TX_CAPACITY, q, TxByte)
  BY ONLY <1>1, <1>2, <1>3, <1>5, ConsumeHolds, Zenon
<1> HIDE DEF p, q
<1>10. [i \in 1..n |-> txRing.m_buffer[txRing.m_head + i]] = p
  <2>1. ASSUME NEW i \in 1..n  PROVE txRing.m_buffer[txRing.m_head + i] = s[i]
    <3>1. i \in 1..readLen(txRing)
      BY ONLY <1>5, n \in 0..readLen(txRing), i \in 1..n
    <3>2. AtReadPtr(txRing, i, s)
      BY ONLY <1>1, <1>2, <3>1, ReadPart, Zenon
    <3> QED  BY ONLY <3>2, Zenon DEF AtReadPtr
  <2>2. p = [i \in 1..n |-> p[i]]
    BY ONLY <1>6
  <2> QED  BY ONLY <1>6, <2>1, <2>2, Zenon
<1>11. /\ Contents(txRing') = q /\ Holds(txRing', TX_CAPACITY, Contents(txRing'), TxByte)
       /\ readable(txRing') = Len(s) - n
  BY ONLY <1>1, <1>7, <1>9, RingAfter, Zenon
<1>12. (taken \o p) \o q = accepted /\ taken \o p \in Seq(TxByte)
  <2>1. (taken \o p) \o q = taken \o s
    BY ONLY <1>2, <1>5, MoveBytes, Zenon DEF p, q
  <2> QED  BY ONLY <1>2, <1>6, <2>1
<1>13. tpc' \in {"idle", "recv", "extract"} => (outArmed' <=> readable(txRing') > 0)
  <2>1. CASE n < readLen(txRing)
    <3>1. Len(s) - n > 0
      BY ONLY <1>5, <2>1, n \in 0..readLen(txRing)
    <3> QED  BY ONLY <1>3, <1>11, <2>1, <3>1, Zenon
  <2>2. CASE ~(n < readLen(txRing))
    BY ONLY <1>3, <1>4, <2>2, Zenon
  <2> QED  BY <2>1, <2>2, Zenon
<1> QED  BY ONLY <1>2, <1>3, <1>4, <1>10, <1>11, <1>12, <1>13, Zenon DEF TxIInv, Contents, readable

\* and every step keeps it.
LEMMA TxStep == TxIInv /\ [ConnNext]_connVars => TxIInv'
<1> SUFFICES ASSUME TxIInv, [ConnNext]_connVars  PROVE TxIInv'
  BY Zenon
<1>1. packets \in Nat
  BY Zenon DEF TxIInv
<1>2. CASE /\ UNCHANGED <<txRing, accepted, taken, outArmed, packets>>
           /\ tpc' \in {"idle", "recv", "extract"} => tpc \in {"idle", "recv", "extract"}
  BY ONLY TxIInv, <1>1, <1>2, TxSame, Zenon
<1>3. CASE UNCHANGED connVars
  BY <1>2, <1>3, Zenon DEF connVars, txVars
<1>4. ASSUME NEW b \in BodyLens, PeerSends(b)  PROVE TxIInv'
  BY <1>2, <1>4, Zenon DEF PeerSends, txVars
<1>5. CASE PeerCloses \/ Receive \/ RxRingFull
  BY <1>2, <1>5, Zenon DEF PeerCloses, Receive, RxRingFull, Close, txVars
<1>6. CASE Recv \/ RecvAgain
  BY <1>2, <1>6, Zenon DEF Recv, RecvAgain, txVars
<1>7. CASE Extract
  BY <1>2, <1>7, Zenon DEF Extract, txVars
<1>8. CASE TxBatchEnds \/ Writable
  BY <1>2, <1>8, Zenon DEF TxBatchEnds, Writable, txVars
<1>9. CASE SendFails \/ Closed
  BY <1>2, <1>3, <1>9, Zenon DEF SendFails, Closed, Close, txVars
<1>10. CASE FlushDone
  <2>1. UNCHANGED <<txRing, accepted, taken, packets>> /\ ~outArmed' /\ ~(readable(txRing) > 0)
    BY <1>10 DEF FlushDone
  <2> QED  BY ONLY TxIInv, <2>1, Zenon DEF TxIInv
<1>11. CASE Flush
  BY <1>11, FlushStep, Zenon
<1>12. ASSUME NEW len \in TxLens, TxPacket(len)  PROVE TxIInv'
  BY <1>12, TxPacketStep, Zenon
<1> QED
  BY <1>3, <1>4, <1>5, <1>6, <1>7, <1>8, <1>9, <1>10, <1>11, <1>12, Zenon DEF ConnNext, Reactor

(***************************************************************************)
(* flushTxBuffer sends exactly the packets processTxQueue accepted, whole  *)
(* and in order, for every capacity and packet length.                     *)
(***************************************************************************)
THEOREM ConnTxStream == ConnSpec => []TxStream
<1>1. TxIInv => TxStream
  <2> SUFFICES ASSUME TxIInv  PROVE TxStream
    BY Zenon
  <2>1. TX_CAPACITY \in Nat \ {0} /\ Holds(txRing, TX_CAPACITY, Contents(txRing), TxByte)
    BY ConnectionAssumption, Zenon DEF TxIInv
  <2>2. RingOK(txRing, TX_CAPACITY)
    BY ONLY <2>1, HoldsContents, Zenon
  <2> QED  BY <2>2, Zenon DEF TxIInv, TxStream
<1> QED  BY <1>1, TxInit, TxStep, PTL DEF ConnSpec

(***************************************************************************)
(* Between two events EPOLLOUT is armed exactly while the tx ring has      *)
(* bytes (flushTxBuffer, processTxQueue).                                  *)
(***************************************************************************)
THEOREM ConnInterestExact == ConnSpec => []InterestExact
<1>1. TxIInv => InterestExact
  BY Zenon DEF TxIInv, InterestExact
<1> QED  BY <1>1, TxInit, TxStep, PTL DEF ConnSpec
-----------------------------------------------------------------------------
(***************************************************************************)
(* Receiving.  start[k] is where frame k starts in what the peer sent.     *)
(***************************************************************************)
RxByte == (Nat \X Nat \X Nat) \cup {<< >>}

FrameStarts(start) ==
  /\ start \in [1..(Len(frames) + 1) -> Nat]
  /\ \A k \in 1..Len(frames) : start[k + 1] = start[k] + (HEADER_SIZE + frames[k])
  /\ \A k \in 1..Len(frames) : start[k + 1] <= Len(stream)
  /\ Len(stream) = start[Len(frames) + 1] /\ Len(extracted) = start[Len(delivered) + 1]
  /\ \A k \in 1..Len(frames) : \A i \in 1..(HEADER_SIZE + frames[k]) :
       stream[start[k] + i] = FrameBytes(k, frames[k])[i]

RxIInv ==
  /\ Holds(rxRing, RX_CAPACITY, Contents(rxRing), RxByte)
  /\ wire \in Seq(RxByte) /\ stream \in Seq(RxByte) /\ extracted \in Seq(RxByte)
  /\ frames \in Seq(BodyLens) /\ delivered \in Seq(Seq(RxByte))
  /\ extracted \o Contents(rxRing) \o wire = stream
  /\ Len(delivered) <= Len(frames)
  /\ \A k \in 1..Len(delivered) : delivered[k] = FrameBytes(k, frames[k])
  /\ \E start : FrameStarts(start)

\* A complete frame stays in the ring only while it is being taken out.
FullIInv ==
  /\ tpc \notin {"extract", "closed"} /\ Len(delivered) < Len(frames) =>
       readable(rxRing) < HEADER_SIZE + frames[Len(delivered) + 1]
  /\ closedBy = "full" => tpc = "closed" /\ FullOnlyWhenTooLong

\* The frame lengths the peer may use
LEMMA ConnTypes ==
  /\ HEADER_SIZE \in Nat \ {0} /\ RX_CAPACITY \in Nat \ {0} /\ BodyLens \subseteq Nat
  /\ \A b \in BodyLens : b <= MAX_BODY_LEN /\ ~(b > MAX_BODY_LEN)
BY ConnectionAssumption

\* Both invariants hold at first.
LEMMA RxInit == ConnInit => RxIInv /\ FullIInv
<1> SUFFICES ASSUME ConnInit  PROVE RxIInv /\ FullIInv
  BY Zenon
<1>1. << >> \in RxByte
  BY Zenon DEF RxByte
<1>2. Holds(rxRing, RX_CAPACITY, << >>, RxByte)
  BY <1>1, ConnTypes, EmptyRing, Zenon DEF ConnInit
<1>3. Contents(rxRing) = << >>
  BY ONLY <1>2, ConnTypes, HoldsContents, Zenon
<1>4. << >> \in Seq(RxByte) /\ << >> \o << >> \o << >> = << >> /\ Len(<< >>) = 0
  OBVIOUS
<1>5. FrameStarts([k \in 1..1 |-> 0])
  BY DEF FrameStarts, ConnInit
<1>6. RxIInv
  BY <1>2, <1>3, <1>4, <1>5 DEF RxIInv, ConnInit
<1>7. FullIInv
  BY DEF FullIInv, ConnInit
<1> QED  BY <1>6, <1>7, Zenon

\* The bytes in the ring follow those taken out of it.
LEMMA RingInStream ==
  ASSUME RxIInv
  PROVE  /\ Len(extracted) + Len(Contents(rxRing)) + Len(wire) = Len(stream)
         /\ \A i \in 1..Len(Contents(rxRing)) : Contents(rxRing)[i] = stream[Len(extracted) + i]
<1> PICK s : s = Contents(rxRing)
  BY Zenon
<1>1. /\ s \in Seq(RxByte) /\ wire \in Seq(RxByte) /\ extracted \in Seq(RxByte)
      /\ (extracted \o s) \o wire = stream
  BY Zenon DEF RxIInv, Holds
<1>2. /\ extracted \o s \in Seq(RxByte) /\ Len(extracted \o s) = Len(extracted) + Len(s)
      /\ \A i \in 1..Len(s) : (extracted \o s)[Len(extracted) + i] = s[i]
  <2>1. extracted \in Seq(RxByte) /\ s \in Seq(RxByte)
    BY ONLY <1>1, Zenon
  <2> QED  BY ONLY <2>1, ConcatElements
<1> PICK y : y = extracted \o s
  BY Zenon
<1>3. /\ Len(stream) = Len(y) + Len(wire)
      /\ \A i \in 1..Len(y) : stream[i] = y[i]
  BY ONLY <1>1, <1>2, y = extracted \o s, ConcatElements
<1>4. ASSUME NEW i \in 1..Len(s)  PROVE s[i] = stream[Len(extracted) + i]
  <2>1. Len(extracted) + i \in 1..Len(y)
    BY <1>1, <1>2
  <2> QED  BY ONLY <1>2, <1>3, <2>1, y = extracted \o s, i \in 1..Len(s), Zenon
<1> QED  BY <1>2, <1>3, <1>4, Zenon

\* Steps that leave the receiving side alone
LEMMA RxSame ==
  ASSUME RxIInv, UNCHANGED rxVars
  PROVE  RxIInv'
<1>1. UNCHANGED <<rxRing, wire, frames, stream, extracted, delivered>>
  BY Zenon DEF rxVars
<1>2. PICK start : FrameStarts(start)
  BY Zenon DEF RxIInv
<1>3. FrameStarts(start)'
  BY ONLY <1>1, <1>2, Zenon DEF FrameStarts
<1>4. Contents(rxRing)' = Contents(rxRing)
  BY ONLY <1>1, Zenon
<1> QED  BY ONLY RxIInv, <1>1, <1>3, <1>4, Zenon DEF RxIInv

\* and those that leave the rx ring as it is.
LEMMA FullSame ==
  ASSUME FullIInv, UNCHANGED <<rxRing, frames, delivered>>,
         tpc' \notin {"extract", "closed"} => tpc \notin {"extract", "closed"},
         closedBy' = "full" => closedBy = "full" /\ (tpc = "closed" => tpc' = "closed")
  PROVE  FullIInv'
<1>1. readable(rxRing)' = readable(rxRing)
  BY Zenon
<1> QED  BY <1>1, Zenon DEF FullIInv, FullOnlyWhenTooLong

\* While the ring has bytes, there is a frame still to be delivered.
LEMMA NextFrame ==
  ASSUME RxIInv, readable(rxRing) > 0
  PROVE  Len(delivered) < Len(frames)
<1> PICK d \in Nat : d = Len(delivered)
  BY DEF RxIInv
<1> PICK f \in Nat : f = Len(frames)
  BY DEF RxIInv
<1>1. PICK start : FrameStarts(start)
  BY Zenon DEF RxIInv
<1>2. Len(stream) = start[f + 1] /\ Len(extracted) = start[d + 1] /\ d <= f
  BY <1>1, Zenon DEF FrameStarts, RxIInv
<1>3. Len(extracted) + Len(Contents(rxRing)) + Len(wire) = Len(stream)
  BY RingInStream, Zenon
<1>4. /\ Len(extracted) \in Nat /\ Len(wire) \in Nat /\ Len(Contents(rxRing)) \in Nat
      /\ Len(Contents(rxRing)) = readable(rxRing)
  BY DEF RxIInv, Holds, readable
<1>5. Len(extracted) # Len(stream)
  BY ONLY readable(rxRing) > 0, <1>3, <1>4
<1>6. d # f
  BY ONLY <1>2, <1>5, Zenon
<1> QED  BY <1>2, <1>6

\* recv moves bytes from the wire to the ring.
LEMMA RxRecvStep ==
  ASSUME RxIInv, FullIInv, Recv
  PROVE  RxIInv' /\ FullIInv'
<1> DEFINE s == Contents(rxRing)
<1>1. /\ Holds(rxRing, RX_CAPACITY, s, RxByte) /\ s \in Seq(RxByte)
      /\ wire \in Seq(RxByte) /\ extracted \in Seq(RxByte)
      /\ (extracted \o s) \o wire = stream
  BY Zenon DEF RxIInv, Holds
<1>2. RX_CAPACITY \in Nat \ {0}
  BY ConnTypes, Zenon
<1> HIDE DEF s
<1>3. writeLen(rxRing) \in Int
  <2>1. /\ Len(s) \in 0..RX_CAPACITY /\ rxRing.m_tail \in 0..(RX_CAPACITY - 1)
        /\ writeLen(rxRing) = IF RX_CAPACITY - rxRing.m_tail <= RX_CAPACITY - Len(s)
                                THEN RX_CAPACITY - rxRing.m_tail ELSE RX_CAPACITY - Len(s)
    BY ONLY <1>1, <1>2, RingLengths, Zenon
  <2> QED  BY ONLY <1>2, <2>1
<1>4. PICK n \in 1..Min({writeLen(rxRing), Len(wire)}) :
        /\ rxRing' = CopyIn(rxRing, SubSeq(wire, 1, n))
        /\ wire' = SubSeq(wire, n + 1, Len(wire))
  BY Zenon DEF Recv
<1>5. n \in 0..Len(wire) /\ n <= writeLen(rxRing)
  <2>1. Len(wire) \in Nat
    BY <1>1
  <2>2. Min({writeLen(rxRing), Len(wire)}) = IF writeLen(rxRing) <= Len(wire) THEN writeLen(rxRing)
                                                                             ELSE Len(wire)
    BY ONLY <1>3, <2>1, MinOfTwo
  <2> QED  BY ONLY <1>3, <2>1, <2>2, n \in 1..Min({writeLen(rxRing), Len(wire)})
<1> DEFINE p == SubSeq(wire, 1, n)
           q == SubSeq(wire, n + 1, Len(wire))
<1>6. p \in Seq(RxByte) /\ Len(p) = n
  BY ONLY <1>1, <1>5, PrefixElements, Zenon
<1>7. q \in Seq(RxByte)
  BY ONLY <1>1, <1>5, SuffixElements, Zenon
<1>8. extracted \o s \in Seq(RxByte)
  BY <1>1
<1>9. ((extracted \o s) \o p) \o q = (extracted \o s) \o wire
  BY ONLY <1>1, <1>5, <1>8, MoveBytes, Zenon
<1> HIDE DEF p, q
<1>10. (extracted \o s) \o p = extracted \o (s \o p)
  <2>1. extracted \in Seq(RxByte) /\ s \in Seq(RxByte) /\ p \in Seq(RxByte)
    BY ONLY <1>1, <1>6, Zenon
  <2>2. Regrouped(extracted, s, p)
    BY ONLY <2>1, Regroup, Zenon
  <2> QED  BY ONLY <2>2, Zenon DEF Regrouped
<1>11. Holds(rxRing', RX_CAPACITY, s \o p, RxByte)
  <2>1. Len(p) <= writeLen(rxRing)
    BY ONLY <1>5, <1>6, Zenon
  <2>2. rxRing' = CopyIn(rxRing, p)
    BY ONLY <1>4, Zenon DEF p
  <2> QED  BY ONLY <1>1, <1>2, <1>6, <2>1, <2>2, CopyInHolds, Zenon
<1>12. Contents(rxRing') = s \o p /\ Holds(rxRing', RX_CAPACITY, Contents(rxRing'), RxByte)
  BY ONLY <1>2, <1>11, RingAfter, Zenon
<1>13. extracted \o Contents(rxRing') \o q = stream
  BY ONLY <1>1, <1>9, <1>10, <1>12, Zenon
<1>14. UNCHANGED <<frames, stream, extracted, delivered, closedBy>> /\ tpc' = "extract"
       /\ tpc = "recv"
  BY Zenon DEF Recv
<1>15. \E start : FrameStarts(start)'
  <2>1. PICK start : FrameStarts(start)
    BY Zenon DEF RxIInv
  <2>2. FrameStarts(start)'
    BY ONLY <1>14, <2>1, Zenon DEF FrameStarts
  <2> QED  BY <2>2, Zenon
<1>16. wire' = q
  BY ONLY <1>4, Zenon DEF q
<1>17. RxIInv'
  BY ONLY RxIInv, <1>7, <1>12, <1>13, <1>14, <1>15, <1>16, Zenon DEF RxIInv
<1>18. FullIInv'
  BY ONLY FullIInv, <1>14, Zenon DEF FullIInv
<1> QED  BY <1>17, <1>18, Zenon

\* The bytes of a frame
LEMMA FrameBytesType ==
  ASSUME NEW k \in Nat, NEW b \in BodyLens
  PROVE  /\ FrameBytes(k, b) \in Seq(RxByte) /\ Len(FrameBytes(k, b)) = HEADER_SIZE + b
         /\ HEADER_SIZE + b \in Nat \ {0} /\ b \in Nat
         /\ \A i \in 1..(HEADER_SIZE + b) :
              FrameBytes(k, b)[i] = <<k, i, IF i = HEADER_SIZE THEN b ELSE 0>>
<1>1. HEADER_SIZE + b \in Nat \ {0} /\ b \in Nat
  BY ConnTypes
<1>2. \A i \in 1..(HEADER_SIZE + b) : <<k, i, IF i = HEADER_SIZE THEN b ELSE 0>> \in RxByte
  BY <1>1 DEF RxByte
<1> QED  BY <1>1, <1>2 DEF FrameBytes

\* Its starting positions, with the one after it
LEMMA StartsGrow ==
  ASSUME NEW b \in BodyLens, NEW start, FrameStarts(start), RxIInv,
         frames' = Append(frames, b), stream' = stream \o FrameBytes(Len(frames) + 1, b),
         UNCHANGED <<extracted, delivered>>
  PROVE  \E next : FrameStarts(next)'
<1> PICK f \in Nat : f = Len(frames)
  BY DEF RxIInv
<1> DEFINE F == FrameBytes(f + 1, b)
           m == HEADER_SIZE + b
           next == [k \in 1..(f + 2) |-> IF k <= f + 1 THEN start[k] ELSE start[f + 1] + m]
<1>1. /\ F \in Seq(RxByte) /\ Len(F) = m /\ m \in Nat \ {0}
  BY FrameBytesType
<1>2. /\ Len(frames') = f + 1 /\ frames'[f + 1] = b
      /\ \A k \in 1..f : frames'[k] = frames[k]
  BY DEF RxIInv
<1>3. /\ start \in [1..(f + 1) -> Nat]
      /\ \A k \in 1..f : start[k + 1] = start[k] + (HEADER_SIZE + frames[k])
      /\ \A k \in 1..f : start[k + 1] <= Len(stream)
      /\ Len(stream) = start[f + 1] /\ Len(extracted) = start[Len(delivered) + 1]
      /\ \A k \in 1..f : \A i \in 1..(HEADER_SIZE + frames[k]) :
           stream[start[k] + i] = FrameBytes(k, frames[k])[i]
  BY Zenon DEF FrameStarts
<1>4. /\ stream \in Seq(RxByte) /\ Len(delivered) \in 0..f
      /\ \A k \in 1..f : HEADER_SIZE + frames[k] \in Nat
  <2>1. frames \in Seq(BodyLens) /\ delivered \in Seq(Seq(RxByte)) /\ Len(delivered) <= f
    BY Zenon DEF RxIInv
  <2>2. \A k \in 1..f : frames[k] \in BodyLens
    BY ONLY <2>1, f = Len(frames), ElementOfSeq, Zenon
  <2>3. ASSUME NEW k \in 1..f  PROVE HEADER_SIZE + frames[k] \in Nat
    <3>1. frames[k] \in Nat /\ HEADER_SIZE \in Nat
      BY <2>2, ConnTypes, Zenon
    <3> QED  BY ONLY <3>1
  <2>4. Len(delivered) \in 0..f
    BY ONLY <2>1, f \in Nat
  <2> QED  BY ONLY RxIInv, <2>3, <2>4, Zenon DEF RxIInv
<1> HIDE DEF F, m
<1>5. /\ Len(stream') = start[f + 1] + m
      /\ \A i \in 1..Len(stream) : stream'[i] = stream[i]
      /\ \A i \in 1..m : stream'[start[f + 1] + i] = F[i]
  <2>1. stream' = stream \o F
    BY Zenon DEF F
  <2>2. /\ Len(stream \o F) = Len(stream) + Len(F)
        /\ \A i \in 1..Len(stream) : (stream \o F)[i] = stream[i]
        /\ \A i \in 1..Len(F) : (stream \o F)[Len(stream) + i] = F[i]
    <3>1. stream \in Seq(RxByte) /\ F \in Seq(RxByte)
      BY ONLY <1>1, <1>4, Zenon
    <3> QED  BY ONLY <3>1, ConcatElements
  <2> QED  BY ONLY <1>1, <1>3, <2>1, <2>2, Zenon
<1>6. /\ next \in [1..(f + 2) -> Nat] /\ next[f + 2] = start[f + 1] + m
      /\ \A k \in 1..(f + 1) : next[k] = start[k]
  BY ONLY <1>1, <1>3, f \in Nat
<1> HIDE DEF next
<1>7. ASSUME NEW k \in 1..(f + 1)
      PROVE  /\ next[k + 1] = next[k] + (HEADER_SIZE + frames'[k])
             /\ next[k + 1] <= Len(stream')
             /\ \A i \in 1..(HEADER_SIZE + frames'[k]) :
                  stream'[next[k] + i] = FrameBytes(k, frames'[k])[i]
  <2>1. CASE k \in 1..f
    <3>1. k + 1 \in 1..(f + 1) /\ frames'[k] = frames[k]
      BY ONLY <1>2, <2>1, f \in Nat
    <3>2. next[k] = start[k] /\ next[k + 1] = start[k + 1]
      BY ONLY <1>6, <3>1, k \in 1..(f + 1), Zenon
    <3>3. start[k] \in Nat /\ start[k + 1] \in Nat /\ start[f + 1] \in Nat
      BY ONLY <1>3, <3>1, k \in 1..(f + 1), f \in Nat
    <3>4. ASSUME NEW i \in 1..(HEADER_SIZE + frames[k])
          PROVE  stream'[start[k] + i] = FrameBytes(k, frames[k])[i]
      <4>1. start[k] + i \in 1..Len(stream)
        <5>1. /\ start[k + 1] = start[k] + (HEADER_SIZE + frames[k])
              /\ start[k + 1] <= Len(stream) /\ HEADER_SIZE + frames[k] \in Nat
          BY ONLY <1>3, <1>4, <2>1, Zenon
        <5>2. Len(stream) \in Nat
          BY ONLY <1>4
        <5> QED  BY ONLY <3>3, <5>1, <5>2, i \in 1..(HEADER_SIZE + frames[k])
      <4> QED  BY ONLY <1>3, <1>5, <2>1, <4>1, i \in 1..(HEADER_SIZE + frames[k]), Zenon
    <3>5. start[k + 1] <= Len(stream')
      BY ONLY <1>1, <1>3, <1>5, <2>1, <3>3
    <3> QED  BY ONLY <1>3, <2>1, <3>1, <3>2, <3>4, <3>5
  <2>2. CASE k = f + 1
    <3>1. /\ next[k] = start[f + 1] /\ next[k + 1] = start[f + 1] + m
          /\ HEADER_SIZE + frames'[k] = m /\ FrameBytes(k, frames'[k]) = F
          /\ start[f + 1] + m \in Nat
      <4>1. k + 1 = f + 2 /\ k \in 1..(f + 1)
        BY ONLY <2>2, f \in Nat
      <4>2. start[f + 1] \in Nat
        BY ONLY <1>3, f \in Nat
      <4> QED  BY ONLY <1>1, <1>2, <1>6, <2>2, <4>1, <4>2 DEF m, F
    <3>2. next[k + 1] = next[k] + (HEADER_SIZE + frames'[k]) /\ next[k + 1] <= Len(stream')
      <4>1. start[f + 1] + m <= start[f + 1] + m
        BY ONLY <3>1
      <4> QED  BY ONLY <1>5, <3>1, <4>1, Zenon
    <3>3. \A i \in 1..(HEADER_SIZE + frames'[k]) :
            stream'[next[k] + i] = FrameBytes(k, frames'[k])[i]
      BY ONLY <1>5, <3>1, Zenon
    <3> QED  BY ONLY <3>2, <3>3, Zenon
  <2>3. k \in 1..f \/ k = f + 1
    BY ONLY k \in 1..(f + 1), f \in Nat
  <2> QED  BY ONLY <2>1, <2>2, <2>3, Zenon
<1>8. Len(delivered) + 1 \in 1..(f + 1) /\ (f + 1) + 1 = f + 2
  BY ONLY <1>4, f \in Nat
<1>9. FrameStarts(next)'
  BY ONLY <1>2, <1>3, <1>5, <1>6, <1>7, <1>8, UNCHANGED <<extracted, delivered>>, Zenon DEF FrameStarts
<1> QED  BY <1>9, Zenon

\* The peer sends a frame.
LEMMA RxPeerStep ==
  ASSUME RxIInv, FullIInv, NEW b \in BodyLens, PeerSends(b)
  PROVE  RxIInv' /\ FullIInv'
<1> DEFINE s == Contents(rxRing)
           F == FrameBytes(Len(frames) + 1, b)
<1>1. /\ tpc # "closed" /\ frames' = Append(frames, b) /\ wire' = wire \o F /\ stream' = stream \o F
      /\ UNCHANGED <<tpc, rxRing, extracted, delivered, closedBy>>
  BY Zenon DEF PeerSends
<1>2. /\ Holds(rxRing, RX_CAPACITY, s, RxByte) /\ s \in Seq(RxByte)
      /\ wire \in Seq(RxByte) /\ extracted \in Seq(RxByte) /\ stream \in Seq(RxByte)
      /\ (extracted \o s) \o wire = stream
      /\ frames \in Seq(BodyLens) /\ delivered \in Seq(Seq(RxByte)) /\ Len(delivered) <= Len(frames)
      /\ \A k \in 1..Len(delivered) : delivered[k] = FrameBytes(k, frames[k])
  BY Zenon DEF RxIInv, Holds
<1>3. Len(frames) \in Nat /\ Len(frames) + 1 \in Nat /\ Len(delivered) \in Nat
  BY <1>2
<1>4. F \in Seq(RxByte)
  BY ONLY <1>3, b \in BodyLens, FrameBytesType, Zenon
<1> HIDE DEF s, F
<1>5. /\ frames' \in Seq(BodyLens) /\ Len(frames') = Len(frames) + 1
      /\ frames'[Len(frames) + 1] = b
      /\ \A k \in 1..Len(frames) : frames'[k] = frames[k]
  BY ONLY <1>1, <1>2, b \in BodyLens
<1>6. (extracted \o s) \o (wire \o F) = stream \o F
  <2>1. extracted \o s \in Seq(RxByte) /\ wire \in Seq(RxByte) /\ F \in Seq(RxByte)
    BY ONLY <1>2, <1>4
  <2>2. Regrouped(extracted \o s, wire, F)
    BY ONLY <2>1, Regroup, Zenon
  <2>3. ((extracted \o s) \o wire) \o F = (extracted \o s) \o (wire \o F)
    BY ONLY <2>2, Zenon DEF Regrouped
  <2> QED  BY ONLY <1>2, <2>3, Zenon
<1>7. \E start : FrameStarts(start)'
  <2>1. PICK start : FrameStarts(start)
    BY Zenon DEF RxIInv
  <2> QED  BY ONLY RxIInv, b \in BodyLens, <1>1, <2>1, StartsGrow, Zenon DEF F
<1>8. wire \o F \in Seq(RxByte) /\ stream \o F \in Seq(RxByte)
  BY ONLY <1>2, <1>4
<1>9. \A k \in 1..Len(delivered) : delivered[k] = FrameBytes(k, frames'[k])
  <2>1. \A k \in 1..Len(delivered) : k \in 1..Len(frames)
    BY ONLY <1>2, <1>3
  <2> QED  BY ONLY <1>2, <1>5, <2>1, Zenon
<1>10. Contents(rxRing)' = s
  BY <1>1, Zenon DEF s
<1>11. RxIInv'
  <2>1. Len(delivered) <= Len(frames')
    BY ONLY <1>2, <1>3, <1>5
  <2> QED  BY ONLY <1>1, <1>2, <1>5, <1>6, <1>7, <1>8, <1>9, <1>10, <2>1, Zenon DEF RxIInv
<1>12. FullIInv'
  <2>1. closedBy # "full"
    BY <1>1, Zenon DEF FullIInv
  <2>2. ASSUME tpc \notin {"extract", "closed"}, Len(delivered) < Len(frames')
        PROVE  readable(rxRing) < HEADER_SIZE + frames'[Len(delivered) + 1]
    <3>1. CASE Len(delivered) < Len(frames)
      <4>1. Len(delivered) + 1 \in 1..Len(frames)
        BY ONLY <1>3, <3>1
      <4> QED  BY ONLY FullIInv, <1>5, <2>2, <3>1, <4>1, Zenon DEF FullIInv
    <3>2. CASE ~(Len(delivered) < Len(frames))
      <4>1. ~(readable(rxRing) > 0)
        BY ONLY RxIInv, <3>2, NextFrame, Zenon
      <4>2. Len(delivered) = Len(frames)
        BY ONLY <1>2, <1>3, <3>2
      <4>3. HEADER_SIZE + b \in Nat \ {0} /\ readable(rxRing) \in Nat
        BY ONLY <1>2, b \in BodyLens, FrameBytesType, 1 \in Nat DEF Holds, readable
      <4> QED  BY ONLY <1>5, <4>1, <4>2, <4>3
    <3> QED  BY <3>1, <3>2, Zenon
  <2> QED  BY ONLY <1>1, <2>1, <2>2, Zenon DEF FullIInv, readable
<1> QED  BY <1>11, <1>12, Zenon

\* The header at the front of the ring is that of the next frame.
LEMMA HeaderValue ==
  ASSUME RxIInv, ~(readable(rxRing) < HEADER_SIZE)
  PROVE  /\ Len(delivered) < Len(frames) /\ frames[Len(delivered) + 1] \in BodyLens
         /\ HeaderBodyLen(rxRing) = frames[Len(delivered) + 1]
<1> DEFINE s == Contents(rxRing)
<1>1. /\ Holds(rxRing, RX_CAPACITY, s, RxByte) /\ s \in Seq(RxByte)
      /\ frames \in Seq(BodyLens) /\ delivered \in Seq(Seq(RxByte)) /\ extracted \in Seq(RxByte)
  BY Zenon DEF RxIInv, Holds
<1>2. readable(rxRing) \in Nat /\ readable(rxRing) = Len(s)
  BY <1>1 DEF Holds, readable
<1>3. \A i \in 1..Len(s) : s[i] = stream[Len(extracted) + i]
  BY RingInStream, Zenon
<1> HIDE DEF s
<1> PICK d \in Nat : d = Len(delivered)
  BY <1>1
<1>4. HEADER_SIZE \in 1..Len(s) /\ HEADER_SIZE \in 0..Len(s) /\ readable(rxRing) > 0
  BY ONLY <1>2, ~(readable(rxRing) < HEADER_SIZE), ConnTypes
<1>5. d < Len(frames)
  BY ONLY RxIInv, <1>4, d = Len(delivered), NextFrame, Zenon
<1>6. d + 1 \in 1..Len(frames) /\ frames[d + 1] \in BodyLens
  <2>1. d + 1 \in 1..Len(frames)
    BY <1>1, <1>5
  <2> QED  BY ONLY <1>1, <2>1, ElementOfSeq, Zenon
<1>7. peek(rxRing, HEADER_SIZE)[HEADER_SIZE] = s[HEADER_SIZE]
  <2>1. HEADER_SIZE \in 1..HEADER_SIZE
    BY ConnTypes
  <2> QED  BY ONLY <1>1, <1>4, <2>1, ConnTypes, PeekHolds
<1>8. PICK start : FrameStarts(start)
  BY Zenon DEF RxIInv
<1>9. HEADER_SIZE \in 1..(HEADER_SIZE + frames[d + 1])
  <2>1. frames[d + 1] \in Nat /\ HEADER_SIZE \in Nat \ {0}
    BY <1>6, ConnTypes, Zenon
  <2> QED  BY ONLY <2>1
<1>10. stream[start[d + 1] + HEADER_SIZE] = FrameBytes(d + 1, frames[d + 1])[HEADER_SIZE]
  BY ONLY <1>6, <1>8, <1>9, Zenon DEF FrameStarts
<1>11. Len(extracted) = start[d + 1]
  BY ONLY <1>8, d = Len(delivered), Zenon DEF FrameStarts
<1>12. FrameBytes(d + 1, frames[d + 1])[HEADER_SIZE] = <<d + 1, HEADER_SIZE, frames[d + 1]>>
  <2>1. d + 1 \in Nat
    OBVIOUS
  <2> QED  BY ONLY <1>6, <1>9, <2>1, FrameBytesType, Zenon
<1>13. HeaderBodyLen(rxRing) = <<d + 1, HEADER_SIZE, frames[d + 1]>>[3]
  BY ONLY <1>3, <1>4, <1>7, <1>10, <1>11, <1>12, Zenon DEF HeaderBodyLen
<1> QED  BY <1>5, <1>6, <1>13, Zenon

\* Taking out the next frame.
LEMMA RxTakeStep ==
  ASSUME RxIInv, NEW b, b = frames[Len(delivered) + 1], Len(delivered) < Len(frames),
         ~(readable(rxRing) < HEADER_SIZE + b), TakeFrame(HEADER_SIZE + b),
         UNCHANGED <<wire, frames, stream>>
  PROVE  RxIInv'
<1> DEFINE s == Contents(rxRing)
           m == HEADER_SIZE + b
           p == SubSeq(s, 1, m)
           q == SubSeq(s, m + 1, Len(s))
           F == FrameBytes(Len(delivered) + 1, b)
<1>1. /\ Holds(rxRing, RX_CAPACITY, s, RxByte) /\ s \in Seq(RxByte)
      /\ wire \in Seq(RxByte) /\ extracted \in Seq(RxByte)
      /\ (extracted \o s) \o wire = stream
      /\ frames \in Seq(BodyLens) /\ delivered \in Seq(Seq(RxByte))
      /\ \A k \in 1..Len(delivered) : delivered[k] = FrameBytes(k, frames[k])
  BY Zenon DEF RxIInv, Holds
<1>2. readable(rxRing) = Len(s)
  BY <1>1, Zenon DEF Holds, readable
<1>3. \A i \in 1..Len(s) : s[i] = stream[Len(extracted) + i]
  BY RingInStream, Zenon
<1> HIDE DEF s
<1> PICK d \in Nat : d = Len(delivered)
  BY <1>1
<1>4. d + 1 \in 1..Len(frames) /\ b \in BodyLens /\ b = frames[d + 1]
  <2>1. d + 1 \in 1..Len(frames)
    BY <1>1
  <2> QED  BY ONLY <1>1, <2>1, ElementOfSeq, b = frames[Len(delivered) + 1], d = Len(delivered), Zenon
<1>5. /\ F \in Seq(RxByte) /\ Len(F) = m /\ m \in Nat \ {0}
  <2>1. Len(delivered) + 1 \in Nat
    BY <1>1
  <2> QED  BY ONLY <1>4, <2>1, FrameBytesType
<1> HIDE DEF m, F
<1>6. m \in 0..Len(s)
  BY ONLY <1>1, <1>2, <1>5, ~(readable(rxRing) < HEADER_SIZE + b) DEF m
<1>7. p \in Seq(RxByte) /\ Len(p) = m /\ \A i \in 1..m : p[i] = s[i]
  BY ONLY <1>1, <1>6, PrefixElements, Zenon
<1>8. q \in Seq(RxByte)
  BY ONLY <1>1, <1>6, SuffixElements, Zenon
<1>9. readBytes(rxRing, m) = p /\ Holds(readRest(rxRing, m), RX_CAPACITY, q, RxByte)
  BY ONLY <1>1, <1>6, ConnTypes, ReadHolds, Zenon
<1>10. (extracted \o p) \o q = extracted \o s
  BY ONLY <1>1, <1>6, MoveBytes, Zenon
<1> HIDE DEF p, q
<1>11. delivered' = Append(delivered, p) /\ extracted' = extracted \o p /\ rxRing' = readRest(rxRing, m)
  BY ONLY <1>9, TakeFrame(HEADER_SIZE + b), Zenon DEF TakeFrame, m
<1>12. Contents(rxRing') = q /\ Holds(rxRing', RX_CAPACITY, Contents(rxRing'), RxByte)
  BY ONLY <1>9, <1>11, ConnTypes, RingAfter, Zenon
<1>13. PICK start : FrameStarts(start)
  BY Zenon DEF RxIInv
<1>14. /\ Len(extracted) = start[d + 1]
       /\ start[(d + 1) + 1] = start[d + 1] + m
       /\ \A i \in 1..m : stream[start[d + 1] + i] = F[i]
  BY ONLY <1>4, <1>13, d = Len(delivered), Zenon DEF FrameStarts, m, F
<1>15. p = F
  <2>1. ASSUME NEW i \in 1..m  PROVE p[i] = F[i]
    <3>1. i \in 1..Len(s)
      BY ONLY <1>1, <1>6, i \in 1..m
    <3> QED  BY ONLY <1>3, <1>7, <1>14, <3>1, i \in 1..m, Zenon
  <2> QED  BY ONLY <1>5, <1>7, <2>1, SeqEqual, Zenon
<1>16. /\ delivered' \in Seq(Seq(RxByte)) /\ Len(delivered') = d + 1
       /\ delivered'[d + 1] = p /\ \A k \in 1..d : delivered'[k] = delivered[k]
  BY ONLY <1>1, <1>7, <1>11, d = Len(delivered)
<1>17. extracted \o p \in Seq(RxByte) /\ Len(extracted \o p) = start[(d + 1) + 1]
  <2>1. extracted \in Seq(RxByte) /\ p \in Seq(RxByte)
    BY ONLY <1>1, <1>7, Zenon
  <2>2. extracted \o p \in Seq(RxByte) /\ Len(extracted \o p) = Len(extracted) + Len(p)
    BY ONLY <2>1, ConcatElements, Zenon
  <2> QED  BY ONLY <1>7, <1>14, <2>2, Zenon
<1>18. FrameStarts(start)'
  BY ONLY <1>11, <1>13, <1>16, <1>17, UNCHANGED <<wire, frames, stream>>, Zenon DEF FrameStarts
<1>19. \A k \in 1..(d + 1) : delivered'[k] = FrameBytes(k, frames[k])
  <2>1. \A k \in 1..(d + 1) : k \in 1..d \/ k = d + 1
    BY ONLY d \in Nat
  <2>2. delivered'[d + 1] = FrameBytes(d + 1, frames[d + 1])
    BY ONLY <1>4, <1>15, <1>16, d = Len(delivered), Zenon DEF F
  <2> QED  BY ONLY <1>1, <1>16, <2>1, <2>2, d = Len(delivered), Zenon
<1>20. d + 1 <= Len(frames)
  BY ONLY <1>1, <1>4
<1>21. UNCHANGED <<wire, frames, stream>> /\ extracted' = extracted \o p
  BY ONLY <1>11, UNCHANGED <<wire, frames, stream>>, Zenon
<1>22. /\ wire' \in Seq(RxByte) /\ stream' \in Seq(RxByte) /\ extracted' \in Seq(RxByte)
       /\ frames' \in Seq(BodyLens) /\ delivered' \in Seq(Seq(RxByte))
  BY ONLY RxIInv, <1>16, <1>17, <1>21, Zenon DEF RxIInv
<1>23. extracted' \o Contents(rxRing') \o wire' = stream'
  BY ONLY <1>1, <1>10, <1>12, <1>21, Zenon
<1>24. /\ Len(delivered') <= Len(frames')
       /\ \A k \in 1..Len(delivered') : delivered'[k] = FrameBytes(k, frames'[k])
  BY ONLY <1>16, <1>19, <1>20, <1>21, Zenon
<1> QED  BY ONLY <1>12, <1>18, <1>22, <1>23, <1>24 DEF RxIInv

\* One turn of the loop takes out a complete frame or leaves none.
LEMMA RxExtractStep ==
  ASSUME RxIInv, FullIInv, Extract
  PROVE  RxIInv' /\ FullIInv'
<1>1. tpc = "extract" /\ UNCHANGED <<wire, frames, stream>> /\ closedBy # "full"
  BY Zenon DEF Extract, FullIInv
<1>2. frames \in Seq(BodyLens) /\ delivered \in Seq(Seq(RxByte)) /\ readable(rxRing) \in Nat
  BY DEF RxIInv, Holds, readable
<1>3. \A k \in 1..Len(frames) : frames[k] \in BodyLens
  BY ONLY <1>2, ElementOfSeq, Zenon
<1>4. ASSUME TryExtractFrame(rxRing) = "NeedMoreData", Len(delivered) < Len(frames)
      PROVE  readable(rxRing) < HEADER_SIZE + frames[Len(delivered) + 1]
  <2>1. Len(delivered) + 1 \in 1..Len(frames)
    BY ONLY <1>2, <1>4
  <2>2. frames[Len(delivered) + 1] \in Nat /\ HEADER_SIZE \in Nat
    BY ONLY <1>3, <2>1, ConnTypes, Zenon
  <2>3. CASE readable(rxRing) < HEADER_SIZE
    BY ONLY <1>2, <2>2, <2>3
  <2>4. CASE ~(readable(rxRing) < HEADER_SIZE)
    <3>1. HeaderBodyLen(rxRing) = frames[Len(delivered) + 1]
      BY ONLY RxIInv, <2>4, HeaderValue, Zenon
    <3> QED  BY ONLY <1>4, <2>4, <3>1, Zenon DEF TryExtractFrame
  <2> QED  BY <2>3, <2>4, Zenon
<1>5. CASE TryExtractFrame(rxRing) = "NeedMoreData"
  <2>1. tpc' = "recv" /\ UNCHANGED <<rxRing, extracted, delivered, closedBy>>
    BY <1>5, Zenon DEF Extract
  <2>2. UNCHANGED rxVars
    BY ONLY <1>1, <2>1, Zenon DEF rxVars
  <2>3. FullIInv'
    BY ONLY <1>1, <1>4, <1>5, <2>1, Zenon DEF FullIInv, readable
  <2> QED  BY ONLY RxIInv, <2>2, <2>3, RxSame, Zenon
<1>6. CASE TryExtractFrame(rxRing) # "NeedMoreData"
  <2> DEFINE b == frames[Len(delivered) + 1]
  <2>1. ~(readable(rxRing) < HEADER_SIZE)
    BY <1>6, Zenon DEF TryExtractFrame
  <2>2. Len(delivered) < Len(frames) /\ b \in BodyLens /\ HeaderBodyLen(rxRing) = b
    BY ONLY RxIInv, <2>1, HeaderValue, Zenon
  <2> HIDE DEF b
  <2>3. ~(b > MAX_BODY_LEN)
    BY ONLY <2>2, ConnTypes, Zenon
  <2>4. ~(readable(rxRing) < HEADER_SIZE + b) /\ TryExtractFrame(rxRing) = "Ok"
    BY ONLY <1>6, <2>1, <2>2, <2>3, Zenon DEF TryExtractFrame
  <2>5. TakeFrame(HEADER_SIZE + b) /\ UNCHANGED <<tpc, closedBy>>
    BY ONLY Extract, <2>2, <2>4, Zenon DEF Extract
  <2>6. RxIInv'
    BY ONLY RxIInv, <1>1, <2>2, <2>4, <2>5, RxTakeStep, Zenon DEF b
  <2>7. FullIInv'
    BY ONLY <1>1, <2>5, Zenon DEF FullIInv
  <2> QED  BY <2>6, <2>7, Zenon
<1> QED  BY <1>5, <1>6, Zenon

\* A full ring does not hold a complete frame.
LEMMA RxFullStep ==
  ASSUME RxIInv, FullIInv, RxRingFull
  PROVE  FullIInv'
<1> DEFINE s == Contents(rxRing)
<1>1. /\ tpc = "recv" /\ writeLen(rxRing) = 0 /\ tpc' = "closed"
      /\ UNCHANGED <<rxRing, frames, delivered>>
  BY Zenon DEF RxRingFull, Close, rxVars
<1>2. Holds(rxRing, RX_CAPACITY, s, RxByte)
  BY Zenon DEF RxIInv
<1> HIDE DEF s
<1>3. readable(rxRing) = RX_CAPACITY
  <2>1. /\ Len(s) \in 0..RX_CAPACITY /\ rxRing.m_tail \in 0..(RX_CAPACITY - 1)
        /\ readable(rxRing) = Len(s)
        /\ writeLen(rxRing) = IF RX_CAPACITY - rxRing.m_tail <= RX_CAPACITY - Len(s)
                                THEN RX_CAPACITY - rxRing.m_tail ELSE RX_CAPACITY - Len(s)
    BY ONLY <1>2, ConnTypes, RingLengths
  <2> QED  BY ONLY <1>1, <2>1, ConnTypes
<1>4. readable(rxRing) > 0
  BY ONLY <1>3, ConnTypes
<1>5. Len(delivered) < Len(frames)
  BY ONLY RxIInv, <1>4, NextFrame, Zenon
<1>6. RX_CAPACITY < HEADER_SIZE + frames[Len(delivered) + 1]
  BY ONLY FullIInv, <1>1, <1>3, <1>5, Zenon DEF FullIInv
<1>7. HEADER_SIZE + frames[Len(delivered) + 1] > RX_CAPACITY
  <2>1. frames \in Seq(BodyLens) /\ delivered \in Seq(Seq(RxByte))
    BY Zenon DEF RxIInv
  <2>2. Len(delivered) + 1 \in 1..Len(frames)
    BY ONLY <1>5, <2>1
  <2>3. frames[Len(delivered) + 1] \in BodyLens
    BY ONLY <2>1, <2>2, ElementOfSeq, Zenon
  <2>4. frames[Len(delivered) + 1] \in Nat /\ HEADER_SIZE \in Nat /\ RX_CAPACITY \in Nat
    BY ONLY <2>3, ConnTypes, Zenon
  <2> QED  BY ONLY <1>6, <2>4, Zenon
<1> QED  BY ONLY <1>1, <1>7, Zenon DEF FullIInv, FullOnlyWhenTooLong

\* Every step keeps both.
LEMMA RxStep == RxIInv /\ FullIInv /\ [ConnNext]_connVars => (RxIInv /\ FullIInv)'
<1> SUFFICES ASSUME RxIInv, FullIInv, [ConnNext]_connVars  PROVE RxIInv' /\ FullIInv'
  BY Zenon
<1>1. CASE /\ UNCHANGED rxVars
           /\ tpc' \notin {"extract", "closed"} => tpc \notin {"extract", "closed"}
           /\ closedBy' = "full" => closedBy = "full" /\ (tpc = "closed" => tpc' = "closed")
  <2>1. RxIInv'
    BY ONLY RxIInv, <1>1, RxSame, Zenon
  <2>2. UNCHANGED <<rxRing, frames, delivered>>
    BY ONLY <1>1, Zenon DEF rxVars
  <2>3. FullIInv'
    BY ONLY FullIInv, <1>1, <2>2, FullSame, Zenon
  <2> QED  BY <2>1, <2>3, Zenon
<1>2. CASE UNCHANGED connVars
  BY <1>1, <1>2, Zenon DEF connVars
<1>3. CASE PeerCloses \/ Receive \/ RecvAgain
  BY <1>1, <1>3, Zenon DEF PeerCloses, Receive, RecvAgain, Close
<1>4. CASE TxBatchEnds \/ Writable \/ FlushDone
  BY <1>1, <1>4, Zenon DEF TxBatchEnds, Writable, FlushDone
<1>5. CASE SendFails \/ Closed
  BY <1>1, <1>2, <1>5, Zenon DEF SendFails, Closed, Close
<1>6. CASE Flush
  BY <1>1, <1>6, Zenon DEF Flush
<1>7. ASSUME NEW len \in TxLens, TxPacket(len)  PROVE RxIInv' /\ FullIInv'
  BY <1>1, <1>7, Zenon DEF TxPacket
<1>8. CASE RxRingFull
  <2>1. UNCHANGED rxVars
    BY <1>8, Zenon DEF RxRingFull
  <2> QED  BY ONLY RxIInv, FullIInv, <1>8, <2>1, RxSame, RxFullStep, Zenon
<1>9. CASE Recv
  BY <1>9, RxRecvStep, Zenon
<1>10. CASE Extract
  BY <1>10, RxExtractStep, Zenon
<1>11. ASSUME NEW b \in BodyLens, PeerSends(b)  PROVE RxIInv' /\ FullIInv'
  BY <1>11, RxPeerStep, Zenon
<1> QED
  BY <1>2, <1>3, <1>4, <1>5, <1>6, <1>7, <1>8, <1>9, <1>10, <1>11, Zenon DEF ConnNext, Reactor

(***************************************************************************)
(* receive and tryExtractFrame deliver each frame of the peer whole and in *)
(* order, however recv cuts the stream and wherever the ring wraps.        *)
(***************************************************************************)
THEOREM ConnRxStream == ConnSpec => []RxStream
<1>1. RxIInv => RxStream
  <2> SUFFICES ASSUME RxIInv  PROVE RxStream
    BY Zenon
  <2>1. RX_CAPACITY \in Nat \ {0} /\ Holds(rxRing, RX_CAPACITY, Contents(rxRing), RxByte)
    BY ConnTypes, Zenon DEF RxIInv
  <2>2. RingOK(rxRing, RX_CAPACITY)
    BY ONLY <2>1, HoldsContents, Zenon
  <2> QED  BY <2>2, Zenon DEF RxIInv, RxStream
<1> QED  BY <1>1, RxInit, RxStep, PTL DEF ConnSpec

(***************************************************************************)
(* receive only closes a connection for a full ring when the frame at its  *)
(* front is longer than the ring.                                          *)
(***************************************************************************)
THEOREM ConnFullOnlyWhenTooLong == ConnSpec => []FullOnlyWhenTooLong
<1>1. FullIInv => FullOnlyWhenTooLong
  BY Zenon DEF FullIInv, FullOnlyWhenTooLong
<1> QED  BY <1>1, RxInit, RxStep, PTL DEF ConnSpec
=============================================================================
