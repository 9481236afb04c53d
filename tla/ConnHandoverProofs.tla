------------------------- MODULE ConnHandoverProofs -------------------------
(***************************************************************************)
(* Proofs of SingleOwner and HandoverAnnounced, for any set of             *)
(* descriptors, any number of connections and any size of the batches and  *)
(* of the handover queue.                                                  *)
(*                                                                         *)
(* For SingleOwner the inductive invariant speaks of the batches too: an   *)
(* event that was reported for a connection and is still to be served      *)
(* names a connection that the reactor owns, or one that is closed.  For   *)
(* TcpReactor this needs that a batch has one event per descriptor, as a   *)
(* handover gives the connection away and would leave a second event       *)
(* behind.                                                                 *)
(***************************************************************************)
EXTENDS ConnHandover, SequenceTheorems, FunctionTheorems, FiniteSetTheorems, TLAPS

Item == [fd : Fds, conn : Nat]

\* f is a part of what is open.
PartOf(f, o) == \A fd \in DOMAIN f : fd \in Fds /\ o[fd] # 0 /\ f[fd] = o[fd]

\* The queue q holds open connections, each once.
QueueOf(q, o) ==
  /\ \A i \in 1..Len(q) : q[i].fd \in Fds /\ o[q[i].fd] # 0 /\ q[i].conn = o[q[i].fd]
  /\ \A i, j \in 1..Len(q) : q[i].fd = q[j].fd => i = j

QueuedFds(q) == {q[i].fd : i \in 1..Len(q)}

\* Tables f and g and the queue q share the connections in o among them.
Owned(o, f, g, q) ==
  /\ PartOf(f, o) /\ PartOf(g, o) /\ QueueOf(q, o)
  /\ DOMAIN f \cap DOMAIN g = {}
  /\ QueuedFds(q) \cap (DOMAIN f \cup DOMAIN g) = {}
  /\ \A fd \in Fds : o[fd] # 0 => fd \in DOMAIN f \cup DOMAIN g \cup QueuedFds(q)

\* Events of the batch b are about connections of the table f, or closed ones.
EventsOf(b, f, o, n) ==
  \A i \in 1..Len(b) : b[i].ev \in {"in", "hup"} =>
    b[i].fd \in Fds /\ b[i].conn \in 1..n /\ (o[b[i].fd] = b[i].conn => b[i].fd \in DOMAIN f)

OncePerFd(b) == \A i, j \in 1..Len(b) : b[i].fd = b[j].fd => i = j

Closed(o, S) == [fd \in Fds |-> IF fd \in S THEN 0 ELSE o[fd]]

(***************************************************************************)
(* Closing                                                                 *)
(***************************************************************************)
LEMMA OwnedSymmetric ==
  ASSUME NEW o, NEW f, NEW g, NEW q, Owned(o, f, g, q)
  PROVE  Owned(o, g, f, q)
BY Zenon DEF Owned

\* A reactor closes connections that are not owned by anyone else.
LEMMA CloseOwned ==
  ASSUME NEW o, NEW f, NEW g, NEW q, NEW S, Owned(o, f, g, q),
         S \cap (DOMAIN g \cup QueuedFds(q)) = {}
  PROVE  Owned(Closed(o, S), Drop(f, S), g, q)
<1> DEFINE o1 == Closed(o, S)
           f1 == Drop(f, S)
<1>1. DOMAIN f1 = DOMAIN f \ S /\ \A fd \in DOMAIN f1 : f1[fd] = f[fd]
  BY Zenon DEF Drop
<1>2. \A fd \in Fds : o1[fd] = IF fd \in S THEN 0 ELSE o[fd]
  BY Zenon DEF Closed
<1> HIDE DEF o1, f1
<1>3. PartOf(f1, o1)
  BY <1>1, <1>2, Zenon DEF Owned, PartOf
<1>4. PartOf(g, o1)
  BY <1>2, Zenon DEF Owned, PartOf
<1>5. QueueOf(q, o1)
  <2>1. \A i \in 1..Len(q) : q[i].fd \notin S
    BY Zenon DEF QueuedFds
  <2> QED  BY <1>2, <2>1, Zenon DEF Owned, QueueOf
<1>6. \A fd \in Fds : o1[fd] # 0 => fd \in DOMAIN f1 \cup DOMAIN g \cup QueuedFds(q)
  BY <1>1, <1>2, Zenon DEF Owned
<1> QED  BY <1>1, <1>3, <1>4, <1>5, <1>6, Zenon DEF Owned, o1, f1

LEMMA CloseEvents ==
  ASSUME NEW b, NEW f, NEW o, NEW n \in Nat, NEW S, EventsOf(b, f, o, n)
  PROVE  EventsOf(b, Drop(f, S), Closed(o, S), n)
<1>1. DOMAIN Drop(f, S) = DOMAIN f \ S
  BY Zenon DEF Drop
<1>2. \A fd \in Fds : Closed(o, S)[fd] = IF fd \in S THEN 0 ELSE o[fd]
  BY Zenon DEF Closed
<1>3. \A c \in 1..n : c # 0
  OBVIOUS
<1> QED  BY <1>1, <1>2, <1>3 DEF EventsOf

\* The other reactor's events: none of its connections is closed.
LEMMA CloseOtherEvents ==
  ASSUME NEW b, NEW g, NEW o, NEW n \in Nat, NEW S, EventsOf(b, g, o, n)
  PROVE  EventsOf(b, g, Closed(o, S), n)
<1>1. \A fd \in Fds : Closed(o, S)[fd] = IF fd \in S THEN 0 ELSE o[fd]
  BY Zenon DEF Closed
<1>2. \A c \in 1..n : c # 0
  OBVIOUS
<1> QED  BY <1>1, <1>2, Zenon DEF EventsOf

(***************************************************************************)
(* Sequences                                                               *)
(***************************************************************************)
LEMMA TailEvents ==
  ASSUME NEW T, NEW b \in Seq(T), b # << >>, NEW f, NEW o, NEW n
  PROVE  /\ EventsOf(b, f, o, n) => EventsOf(Tail(b), f, o, n)
         /\ OncePerFd(b) => OncePerFd(Tail(b))
<1>1. PICK m \in Nat : m = Len(b) /\ m > 0
  BY EmptySeq, LenProperties
<1>2. Len(Tail(b)) = m - 1 /\ \A i \in 1..(m - 1) : Tail(b)[i] = b[i + 1]
  BY <1>1, HeadTailProperties, Zenon
<1>3. \A i \in 1..(m - 1) : i + 1 \in 1..m
  BY <1>1
<1>4. \A i, j \in 1..(m - 1) : i + 1 = j + 1 => i = j
  BY <1>1
<1>5. EventsOf(b, f, o, n) => EventsOf(Tail(b), f, o, n)
  BY <1>1, <1>2, <1>3, Zenon DEF EventsOf
<1>6. OncePerFd(b) => OncePerFd(Tail(b))
  BY <1>1, <1>2, <1>3, <1>4 DEF OncePerFd
<1> QED  BY <1>5, <1>6, Zenon

\* As many descriptors as items.
LEMMA QueueCount ==
  ASSUME NEW q \in Seq(Item), \A i, j \in 1..Len(q) : q[i].fd = q[j].fd => i = j
  PROVE  Cardinality(QueuedFds(q)) = Len(q)
<1>1. PICK n \in Nat : n = Len(q)
  BY LenProperties, Zenon
<1>2. PICK h : h = [i \in 1..n |-> q[i].fd]
  BY Zenon
<1>3. h \in Bijection(1..n, QueuedFds(q))
  <2>1. h \in [1..n -> QueuedFds(q)]
    BY <1>1, <1>2, Zenon DEF QueuedFds
  <2>2. \A i, j \in 1..n : h[i] = h[j] => i = j
    BY <1>1, <1>2, Zenon
  <2>3. \A t \in QueuedFds(q) : \E i \in 1..n : h[i] = t
    BY <1>1, <1>2, Zenon DEF QueuedFds
  <2> QED  BY <2>1, <2>2, <2>3, Fun_IsBij, Zenon
<1>4. ExistsBijection(1..n, QueuedFds(q))
  BY <1>3, Fun_ExistsBij, Zenon
<1>5. IsFiniteSet(1..n) /\ Cardinality(1..n) = n
  <2>1. IsFiniteSet(1..n) /\ Cardinality(1..n) = IF 1 > n THEN 0 ELSE n - 1 + 1
    BY <1>1, FS_Interval, 1 \in Int, n \in Int, Zenon
  <2> QED  BY <1>1, <2>1
<1> QED  BY <1>1, <1>4, <1>5, FS_Bijection, Zenon

\* accept gets a number that is free.
LEMMA LowestFree == Free # {} => Min(Free) \in Free
<1> SUFFICES ASSUME Free # {}  PROVE Min(Free) \in Free
  BY Zenon
<1>1. Free \subseteq Nat
  BY HandoverAssumption, Zenon DEF Free
<1>2. PICK R : R = OpToRel(<, Nat)
  BY Zenon
<1>3. IsWellFoundedOn(R, Nat)
  BY <1>2, NatLessThanWellFounded, Zenon
<1>4. \E x \in Free : \A y \in Free : ~(<<y, x>> \in R)
  BY <1>1, <1>3, WFMin, Zenon
<1>5. \A x, y \in Nat : ~(<<y, x>> \in R) => x =< y
  BY <1>2 DEF OpToRel
<1>6. \E x \in Free : \A y \in Free : x =< y
  BY <1>1, <1>4, <1>5, Zenon
<1> QED  BY <1>6, Zenon DEF Min

(***************************************************************************)
(* Accepting and handing over                                              *)
(***************************************************************************)
LEMMA AcceptOwned ==
  ASSUME NEW o \in [Fds -> Nat], NEW f, NEW g, NEW q, NEW x \in Fds, NEW c \in Nat,
         Owned(o, f, g, q), o[x] = 0, c # 0
  PROVE  /\ x \notin DOMAIN f
         /\ Owned([o EXCEPT ![x] = c], Put(f, x, c), g, q)
<1> DEFINE o1 == [o EXCEPT ![x] = c]
           f1 == Put(f, x, c)
<1>1. /\ DOMAIN f1 = DOMAIN f \cup {x}
      /\ \A fd \in DOMAIN f1 : f1[fd] = IF fd = x THEN c ELSE f[fd]
  BY Zenon DEF Put
<1>2. \A fd \in Fds : o1[fd] = IF fd = x THEN c ELSE o[fd]
  BY Zenon
<1> HIDE DEF o1, f1
<1>3. x \notin DOMAIN f /\ x \notin DOMAIN g /\ \A i \in 1..Len(q) : q[i].fd # x
  BY Zenon DEF Owned, PartOf, QueueOf
<1>4. x \notin QueuedFds(q)
  BY <1>3, Zenon DEF QueuedFds
<1>5. PartOf(f1, o1)
  BY <1>1, <1>2, Zenon DEF Owned, PartOf
<1>6. PartOf(g, o1)
  BY <1>2, <1>3, Zenon DEF Owned, PartOf
<1>7. QueueOf(q, o1)
  BY <1>2, <1>3 DEF Owned, QueueOf
<1>8. \A fd \in Fds : o1[fd] # 0 => fd \in DOMAIN f1 \cup DOMAIN g \cup QueuedFds(q)
  BY <1>1, <1>2, Zenon DEF Owned
<1> QED  BY <1>1, <1>3, <1>4, <1>5, <1>6, <1>7, <1>8 DEF Owned, o1, f1

LEMMA AcceptEvents ==
  ASSUME NEW o \in [Fds -> Nat], NEW f, NEW b, NEW x \in Fds, NEW n \in Nat,
         EventsOf(b, f, o, n)
  PROVE  /\ EventsOf(b, f, [o EXCEPT ![x] = n + 1], n + 1)
         /\ EventsOf(b, Put(f, x, n + 1), [o EXCEPT ![x] = n + 1], n + 1)
<1> DEFINE o1 == [o EXCEPT ![x] = n + 1]
<1>1. \A fd \in Fds : o1[fd] = IF fd = x THEN n + 1 ELSE o[fd]
  BY Zenon
<1> HIDE DEF o1
<1>2. \A c \in 1..n : c # n + 1 /\ c \in 1..(n + 1)
  OBVIOUS
<1>3. DOMAIN f \subseteq DOMAIN Put(f, x, n + 1)
  BY Zenon DEF Put
<1>4. EventsOf(b, f, o1, n + 1)
  BY <1>1, <1>2, Zenon DEF EventsOf
<1>5. EventsOf(b, Put(f, x, n + 1), o1, n + 1)
  BY <1>1, <1>2, <1>3, Zenon DEF EventsOf
<1> QED  BY <1>4, <1>5, Zenon DEF o1

\* The connection leaves the table and enters the queue.
LEMMA HandOver ==
  ASSUME NEW o, NEW f, NEW g, NEW q \in Seq(Item), Owned(o, f, g, q),
         NEW x \in DOMAIN f, o[x] \in Nat
  PROVE  /\ Append(q, [fd |-> x, conn |-> f[x]]) \in Seq(Item)
         /\ Owned(o, Drop(f, {x}), g, Append(q, [fd |-> x, conn |-> f[x]]))
<1>1. PICK it : it = [fd |-> x, conn |-> f[x]]
  BY Zenon
<1>2. it \in Item /\ it.fd = x /\ it.conn = o[x] /\ x \in Fds /\ o[x] # 0
  BY <1>1, Zenon DEF Item, Owned, PartOf
<1>3. PICK n \in Nat : n = Len(q)
  BY LenProperties, Zenon
<1>4. PICK q1 : q1 = Append(q, it)
  BY Zenon
<1>5. /\ q1 \in Seq(Item) /\ Len(q1) = n + 1 /\ q1[n + 1] = it
      /\ \A i \in 1..n : q1[i] = q[i]
  BY <1>2, <1>3, <1>4, AppendProperties
<1>6. PICK f1 : f1 = Drop(f, {x})
  BY Zenon
<1>7. DOMAIN f1 = DOMAIN f \ {x} /\ \A fd \in DOMAIN f1 : f1[fd] = f[fd]
  BY <1>6, Zenon DEF Drop
<1>8. \A i \in 1..(n + 1) : i \in 1..n \/ i = n + 1
  BY <1>3
<1>9. QueuedFds(q1) = QueuedFds(q) \cup {x}
  <2>1. n + 1 \in 1..(n + 1) /\ 1..n \subseteq 1..(n + 1)
    BY <1>3
  <2> QED  BY <1>2, <1>3, <1>5, <1>8, <2>1 DEF QueuedFds
<1>10. x \notin DOMAIN g /\ x \notin QueuedFds(q)
  BY Zenon DEF Owned
<1>11. QueueOf(q1, o)
  <2>1. ASSUME NEW i \in 1..(n + 1)
        PROVE  q1[i].fd \in Fds /\ o[q1[i].fd] # 0 /\ q1[i].conn = o[q1[i].fd]
    BY <1>2, <1>3, <1>5, <1>8 DEF Owned, QueueOf
  <2>2. ASSUME NEW i \in 1..(n + 1), NEW j \in 1..(n + 1), q1[i].fd = q1[j].fd
        PROVE  i = j
    <3>1. \A k \in 1..n : q[k].fd # x
      BY <1>3, <1>10, Zenon DEF QueuedFds
    <3> QED  BY <1>2, <1>3, <1>5, <1>8, <2>2, <3>1 DEF Owned, QueueOf
  <2> QED  BY <1>5, <2>1, <2>2, Zenon DEF QueueOf
<1>12. Owned(o, f1, g, q1)
  <2>1. PartOf(f1, o) /\ PartOf(g, o)
    BY <1>7, Zenon DEF Owned, PartOf
  <2>2. /\ DOMAIN f1 \cap DOMAIN g = {}
        /\ QueuedFds(q1) \cap (DOMAIN f1 \cup DOMAIN g) = {}
        /\ \A fd \in Fds : o[fd] # 0 => fd \in DOMAIN f1 \cup DOMAIN g \cup QueuedFds(q1)
    BY <1>7, <1>9, <1>10, Zenon DEF Owned
  <2> QED  BY <1>11, <2>1, <2>2, Zenon DEF Owned
<1> QED  BY <1>1, <1>4, <1>5, <1>6, <1>12, Zenon

\* The queue is emptied into the table g.
LEMMA TakeOver ==
  ASSUME NEW o, NEW f, NEW g, NEW q \in Seq(Item), Owned(o, f, g, q), NEW all,
         DOMAIN all = DOMAIN g \cup QueuedFds(q),
         \A fd \in DOMAIN g : all[fd] = g[fd],
         \A i \in 1..Len(q) : all[q[i].fd] = q[i].conn
  PROVE  Owned(o, f, all, << >>)
<1>1. PartOf(all, o)
  <2>1. ASSUME NEW fd \in QueuedFds(q)
        PROVE  fd \in Fds /\ o[fd] # 0 /\ all[fd] = o[fd]
    BY DEF Owned, QueueOf, QueuedFds
  <2> QED  BY <2>1, Zenon DEF Owned, PartOf
<1>2. QueuedFds(<< >>) = {} /\ QueueOf(<< >>, o)
  <2>1. 1..Len(<< >>) = {}
    BY EmptySeq
  <2> QED  BY <2>1, Zenon DEF QueuedFds, QueueOf
<1> QED  BY <1>1, <1>2, Zenon DEF Owned

-----------------------------------------------------------------------------
(***************************************************************************)
(* The inductive invariant                                                 *)
(***************************************************************************)
Event == [fd : Int, ev : {"in", "hup", "tx", "listen", "wakeup", "handover"}, conn : Nat]

Known ==
  /\ open \in [Fds -> Nat] /\ accepted \in Nat /\ \A fd \in Fds : open[fd] <= accepted
  /\ m_handoverQueue \in Seq(Item)
  /\ tcpEvents \in Seq(Event) /\ tlsEvents \in Seq(Event)

Shared == Owned(open, m_tcpConns, m_tlsConns, m_handoverQueue)

Reported ==
  /\ EventsOf(tcpEvents, m_tcpConns, open, accepted) /\ OncePerFd(tcpEvents)
  /\ EventsOf(tlsEvents, m_tlsConns, open, accepted)

OwnersHold == Known /\ Shared /\ Reported

OwnersIInv == strayClose = {} => OwnersHold

LEMMA ClosedOnPurpose ==
  ASSUME NEW S, NEW for, CloseFds(S, for), strayClose' = {}
  PROVE  /\ strayClose = {} /\ open' = Closed(open, S)
         /\ \A fd \in S : open[fd] \in {0, for[fd]}
<1>1. strayClose = {} /\ {open[fd] : fd \in {f \in S : open[f] \notin {0, for[f]}}} = {}
  BY Zenon DEF CloseFds
<1>2. \A fd \in S : open[fd] \in {0, for[fd]}
  BY <1>1, Zenon
<1> QED  BY <1>1, <1>2, Zenon DEF CloseFds, Closed

LEMMA ClosedType ==
  ASSUME Known, NEW S
  PROVE  /\ Closed(open, S) \in [Fds -> Nat]
         /\ \A fd \in Fds : Closed(open, S)[fd] <= accepted
<1>1. \A fd \in Fds : Closed(open, S)[fd] = IF fd \in S THEN 0 ELSE open[fd]
  BY Zenon DEF Closed
<1>2. Closed(open, S) \in [Fds -> Nat]
  BY Zenon DEF Closed, Known
<1>3. ASSUME NEW fd \in Fds  PROVE Closed(open, S)[fd] <= accepted
  <2>1. open[fd] \in Nat /\ open[fd] <= accepted /\ accepted \in Nat
    BY Zenon DEF Known
  <2>2. Closed(open, S)[fd] = 0 \/ Closed(open, S)[fd] = open[fd]
    BY <1>1, Zenon
  <2> QED  BY <2>1, <2>2
<1> QED  BY <1>2, <1>3, Zenon

\* TcpReactor serves an event and closes the descriptors in S.
LEMMA TcpClosesSome ==
  ASSUME OwnersHold, tcpEvents # << >>, NEW S,
         S \cap (DOMAIN m_tlsConns \cup QueuedFds(m_handoverQueue)) = {},
         open' = Closed(open, S), m_tcpConns' = Drop(m_tcpConns, S),
         tcpEvents' = Tail(tcpEvents),
         UNCHANGED <<accepted, m_tlsConns, tlsEvents, m_handoverQueue>>
  PROVE  OwnersHold'
<1>1. tcpEvents \in Seq(Event) /\ accepted \in Nat
  BY Zenon DEF OwnersHold, Known
<1>2. Tail(tcpEvents) \in Seq(Event)
  BY <1>1, HeadTailProperties, Zenon
<1>3. Known'
  BY <1>2, ClosedType, Zenon DEF OwnersHold, Known
<1>4. Shared'
  BY CloseOwned, Zenon DEF OwnersHold, Shared
<1>5. /\ EventsOf(Tail(tcpEvents), m_tcpConns, open, accepted)
      /\ OncePerFd(Tail(tcpEvents))
  BY <1>1, TailEvents, Zenon DEF OwnersHold, Reported
<1>6. EventsOf(Tail(tcpEvents), Drop(m_tcpConns, S), Closed(open, S), accepted)
  BY <1>1, <1>5, CloseEvents, Zenon
<1>7. EventsOf(tlsEvents, m_tlsConns, Closed(open, S), accepted)
  BY <1>1, CloseOtherEvents, Zenon DEF OwnersHold, Reported
<1> QED  BY <1>3, <1>4, <1>5, <1>6, <1>7, Zenon DEF OwnersHold, Reported

\* TlsReactor serves an event, with g for its table, and closes the
\* descriptors in S.
LEMMA TlsClosesSome ==
  ASSUME OwnersHold, tlsEvents # << >>, NEW S, NEW g,
         Owned(open, m_tcpConns, g, m_handoverQueue'), m_handoverQueue' \in Seq(Item),
         EventsOf(tlsEvents, g, open, accepted),
         S \cap (DOMAIN m_tcpConns \cup QueuedFds(m_handoverQueue')) = {},
         open' = Closed(open, S), m_tlsConns' = Drop(g, S),
         tlsEvents' = Tail(tlsEvents),
         UNCHANGED <<accepted, m_tcpConns, tcpEvents>>
  PROVE  OwnersHold'
<1>1. tlsEvents \in Seq(Event) /\ accepted \in Nat
  BY Zenon DEF OwnersHold, Known
<1>2. Tail(tlsEvents) \in Seq(Event)
  BY <1>1, HeadTailProperties, Zenon
<1>3. Known'
  BY <1>2, ClosedType, Zenon DEF OwnersHold, Known
<1>4. Shared'
  <2>1. PICK q : q = m_handoverQueue'
    BY Zenon
  <2>2. Owned(open, g, m_tcpConns, q)
    BY <2>1, OwnedSymmetric, Zenon
  <2>3. Owned(Closed(open, S), Drop(g, S), m_tcpConns, q)
    BY <2>1, <2>2, CloseOwned, Zenon
  <2>4. Owned(Closed(open, S), m_tcpConns, Drop(g, S), q)
    BY <2>3, OwnedSymmetric, Zenon
  <2> QED  BY <2>1, <2>4, Zenon DEF Shared
<1>5. EventsOf(Tail(tlsEvents), g, open, accepted)
  BY <1>1, TailEvents, Zenon
<1>6. EventsOf(Tail(tlsEvents), Drop(g, S), Closed(open, S), accepted)
  BY <1>1, <1>5, CloseEvents, Zenon
<1>7. EventsOf(tcpEvents, m_tcpConns, Closed(open, S), accepted)
  BY <1>1, CloseOtherEvents, Zenon DEF OwnersHold, Reported
<1> QED  BY <1>3, <1>4, <1>6, <1>7, Zenon DEF OwnersHold, Reported

(***************************************************************************)
(* The steps of TcpReactor                                                 *)
(***************************************************************************)
\* A batch for the table f: its events are true when it is returned.
LEMMA NewBatch ==
  ASSUME OwnersHold, NEW f, PartOf(f, open), NEW extra, extra \subseteq Event,
         \A e \in extra : e.ev \notin {"in", "hup"},
         NEW b \in Batches(ConnEvents(f) \cup extra)
  PROVE  b \in Seq(Event) /\ EventsOf(b, f, open, accepted) /\ OncePerFd(b)
<1>1. PICK n \in 1..MaxBatch : b \in [1..n -> ConnEvents(f) \cup extra]
  BY Zenon DEF Batches
<1>2. n \in Nat
  BY HandoverAssumption
<1>3. \A fd \in DOMAIN f : fd \in Int /\ fd \in Fds /\ f[fd] \in 1..accepted
  <2>1. ASSUME NEW fd \in DOMAIN f  PROVE fd \in Int /\ fd \in Fds /\ f[fd] \in 1..accepted
    <3>1. fd \in Fds /\ open[fd] # 0 /\ f[fd] = open[fd]
      BY Zenon DEF PartOf
    <3>2. open[fd] \in Nat /\ accepted \in Nat /\ open[fd] <= accepted
      BY <3>1, Zenon DEF OwnersHold, Known
    <3>3. fd \in Nat
      BY <3>1, HandoverAssumption, Zenon
    <3> QED  BY <3>1, <3>2, <3>3
  <2> QED  BY <2>1, Zenon
<1>4. ASSUME NEW e \in ConnEvents(f)
      PROVE  e \in Event /\ e.fd \in Fds /\ e.conn \in 1..accepted /\ e.fd \in DOMAIN f
  BY <1>3 DEF ConnEvents, Event, OwnersHold, Known
<1>5. b \in Seq(Event) /\ Len(b) = n
  <2>1. b \in [1..n -> Event]
    BY <1>1, <1>4, Zenon
  <2> QED  BY <1>2, <2>1, LenProperties
<1>6. EventsOf(b, f, open, accepted)
  BY <1>1, <1>4, <1>5, Zenon DEF EventsOf
<1>7. OncePerFd(b)
  BY <1>1, <1>5, Zenon DEF OncePerFd, Batches
<1> QED  BY <1>5, <1>6, <1>7, Zenon

LEMMA TcpWaitKeeps ==
  ASSUME OwnersHold, TcpWait
  PROVE  OwnersHold'
<1>1. PICK extra : extra = {Special("tx"), Special("listen")}
  BY Zenon
<1>2. extra \subseteq Event /\ \A e \in extra : e.ev \notin {"in", "hup"}
  BY <1>1 DEF Special, Event
<1>3. PICK b : b = tcpEvents'
  BY Zenon
<1>4. b \in Batches(ConnEvents(m_tcpConns) \cup extra)
  BY <1>1, <1>3, Zenon DEF TcpWait
<1>5. PartOf(m_tcpConns, open)
  BY Zenon DEF OwnersHold, Shared, Owned
<1>6. b \in Seq(Event) /\ EventsOf(b, m_tcpConns, open, accepted) /\ OncePerFd(b)
  BY <1>2, <1>4, <1>5, NewBatch, Zenon
<1> QED  BY <1>3, <1>6, Zenon DEF TcpWait, OwnersHold, Known, Shared, Reported, tlsVars

\* The event at the head of TcpReactor's batch.
LEMMA TcpHead ==
  ASSUME OwnersHold, tcpEvents # << >>, Head(tcpEvents).ev \in {"in", "hup"}
  PROVE  LET e == Head(tcpEvents) IN
           /\ e.fd \in Fds /\ e.conn \in 1..accepted /\ accepted \in Nat
           /\ open[e.fd] = e.conn => e.fd \in DOMAIN m_tcpConns
           /\ \A i \in 1..Len(Tail(tcpEvents)) : Tail(tcpEvents)[i].fd # e.fd
<1>1. tcpEvents \in Seq(Event) /\ accepted \in Nat
  BY Zenon DEF OwnersHold, Known
<1>2. PICK n \in Nat : n = Len(tcpEvents) /\ n > 0
  BY <1>1, EmptySeq, LenProperties
<1>3. /\ Head(tcpEvents) = tcpEvents[1] /\ Len(Tail(tcpEvents)) = n - 1
      /\ \A i \in 1..(n - 1) : Tail(tcpEvents)[i] = tcpEvents[i + 1]
  BY <1>1, <1>2, HeadTailProperties
<1>4. 1 \in 1..n
  BY <1>2
<1>5. ASSUME NEW i \in 1..(n - 1)  PROVE tcpEvents[i + 1].fd # tcpEvents[1].fd
  <2>1. i + 1 \in 1..n /\ i + 1 # 1
    BY <1>2
  <2> QED  BY <1>2, <1>4, <2>1, Zenon DEF OwnersHold, Reported, OncePerFd
<1> QED  BY <1>1, <1>2, <1>3, <1>4, <1>5, Zenon DEF OwnersHold, Reported, EventsOf

LEMMA TcpTxKeeps ==
  ASSUME OwnersIInv, TcpTx, strayClose' = {}
  PROVE  OwnersHold'
<1>1. PICK S \in SUBSET DOMAIN m_tcpConns :
        CloseFds(S, m_tcpConns) /\ m_tcpConns' = Drop(m_tcpConns, S)
  BY Zenon DEF TcpTx
<1>2. strayClose = {} /\ open' = Closed(open, S)
  BY <1>1, ClosedOnPurpose, Zenon
<1>3. OwnersHold
  BY <1>2, Zenon DEF OwnersIInv
<1>4. S \cap (DOMAIN m_tlsConns \cup QueuedFds(m_handoverQueue)) = {}
  BY <1>1, <1>3, Zenon DEF OwnersHold, Shared, Owned
<1> QED
  BY <1>1, <1>2, <1>3, <1>4, TcpClosesSome, Zenon DEF TcpTx, AtTcp, TcpEventDone, tlsVars

LEMMA TcpReceivesKeeps ==
  ASSUME OwnersIInv, TcpReceives, strayClose' = {}
  PROVE  OwnersHold'
<1>1. PICK S \in SUBSET ({Head(tcpEvents).fd} \cap DOMAIN m_tcpConns) :
        CloseFds(S, m_tcpConns) /\ m_tcpConns' = Drop(m_tcpConns, S)
  BY Zenon DEF TcpReceives
<1>2. strayClose = {} /\ open' = Closed(open, S)
  BY <1>1, ClosedOnPurpose, Zenon
<1>3. OwnersHold
  BY <1>2, Zenon DEF OwnersIInv
<1>4. S \cap (DOMAIN m_tlsConns \cup QueuedFds(m_handoverQueue)) = {}
  BY <1>1, <1>3, Zenon DEF OwnersHold, Shared, Owned
<1> QED
  BY <1>1, <1>2, <1>3, <1>4, TcpClosesSome, Zenon DEF TcpReceives, AtTcp, TcpEventDone, tlsVars

\* The event may be an old one: then its descriptor is closed, or the close
\* is recorded in strayClose.
LEMMA TcpClosesKeeps ==
  ASSUME OwnersIInv, TcpCloses, strayClose' = {}
  PROVE  OwnersHold'
<1>1. PICK e : e = Head(tcpEvents)
  BY Zenon
<1>2. PICK for : for = [f \in {e.fd} |-> e.conn]
  BY Zenon
<1>3. CloseFds({e.fd}, for) /\ m_tcpConns' = Drop(m_tcpConns, {e.fd})
  BY <1>1, <1>2, Zenon DEF TcpCloses
<1>4. strayClose = {} /\ open' = Closed(open, {e.fd}) /\ open[e.fd] \in {0, e.conn}
  BY <1>2, <1>3, ClosedOnPurpose
<1>5. OwnersHold
  BY <1>4, Zenon DEF OwnersIInv
<1>6. e.fd \in Fds /\ (open[e.fd] = e.conn => e.fd \in DOMAIN m_tcpConns)
  BY <1>1, <1>5, TcpHead, Zenon DEF TcpCloses, AtTcp
<1>7. e.fd \notin DOMAIN m_tlsConns /\ e.fd \notin QueuedFds(m_handoverQueue)
  <2>1. CASE open[e.fd] = 0
    BY <1>5, <2>1, Zenon DEF OwnersHold, Shared, Owned, PartOf, QueueOf, QueuedFds
  <2>2. CASE e.fd \in DOMAIN m_tcpConns
    BY <1>5, <2>2, Zenon DEF OwnersHold, Shared, Owned
  <2> QED  BY <1>4, <1>6, <2>1, <2>2, Zenon
<1> QED
  BY <1>3, <1>4, <1>5, <1>7, TcpClosesSome, Zenon DEF TcpCloses, AtTcp, TcpEventDone, tlsVars

LEMMA TcpAcceptKeeps ==
  ASSUME OwnersHold, TcpAccept
  PROVE  OwnersHold'
<1>1. PICK x : x = Min(Free)
  BY Zenon
<1>2. x \in Fds /\ open[x] = 0
  BY <1>1, LowestFree, Zenon DEF TcpAccept, Free
<1>3. open \in [Fds -> Nat] /\ accepted \in Nat /\ \A fd \in Fds : open[fd] <= accepted
  BY Zenon DEF OwnersHold, Known
<1>4. PICK c \in Nat : c = accepted + 1 /\ c # 0
  BY <1>3
<1>5. PICK o1 : o1 = [open EXCEPT ![x] = c]
  BY Zenon
<1>6. Owned(open, m_tcpConns, m_tlsConns, m_handoverQueue)
  BY Zenon DEF OwnersHold, Shared
<1>7. /\ x \notin DOMAIN m_tcpConns
      /\ Owned(o1, Put(m_tcpConns, x, c), m_tlsConns, m_handoverQueue)
  BY <1>2, <1>3, <1>4, <1>5, <1>6, AcceptOwned, Zenon
<1>8. open' = o1 /\ m_tcpConns' = Put(m_tcpConns, x, c) /\ accepted' = c
  BY <1>1, <1>4, <1>5, <1>7, Zenon DEF TcpAccept
<1>9. UNCHANGED <<tcpEvents, tlsEvents, m_tlsConns, m_handoverQueue>>
  BY Zenon DEF TcpAccept, tlsVars
<1>10. Known'
  <2>1. o1 \in [Fds -> Nat] /\ \A fd \in Fds : o1[fd] <= c
    BY <1>2, <1>3, <1>4, <1>5
  <2> QED  BY <1>4, <1>8, <1>9, <2>1, Zenon DEF OwnersHold, Known
<1>11. EventsOf(tcpEvents, Put(m_tcpConns, x, c), o1, c)
  BY <1>2, <1>3, <1>4, <1>5, AcceptEvents, Zenon DEF OwnersHold, Reported
<1>12. EventsOf(tlsEvents, m_tlsConns, o1, c)
  BY <1>2, <1>3, <1>4, <1>5, AcceptEvents, Zenon DEF OwnersHold, Reported
<1> QED  BY <1>7, <1>8, <1>9, <1>10, <1>11, <1>12, Zenon DEF OwnersHold, Shared, Reported

LEMMA TcpAcceptAgainKeeps ==
  ASSUME OwnersHold, TcpAcceptAgain
  PROVE  OwnersHold'
<1>1. tcpEvents \in Seq(Event) /\ tcpEvents # << >>
  BY Zenon DEF OwnersHold, Known, TcpAcceptAgain, AtTcp
<1>2. Tail(tcpEvents) \in Seq(Event)
  BY <1>1, HeadTailProperties, Zenon
<1>3. /\ EventsOf(Tail(tcpEvents), m_tcpConns, open, accepted)
      /\ OncePerFd(Tail(tcpEvents))
  BY <1>1, TailEvents, Zenon DEF OwnersHold, Reported
<1> QED
  BY <1>2, <1>3, Zenon DEF TcpAcceptAgain, TcpEventDone, tlsVars, OwnersHold, Known, Shared, Reported

\* The event of the handover is the only one of its descriptor in the batch.
LEMMA HandoverToTlsKeeps ==
  ASSUME OwnersIInv, HandoverToTls, strayClose' = {}
  PROVE  OwnersHold'
<1>1. PICK x : x = Head(tcpEvents).fd
  BY Zenon
<1>2. /\ x \in DOMAIN m_tcpConns /\ m_tcpConns' = Drop(m_tcpConns, {x})
      /\ tcpEvents # << >> /\ Head(tcpEvents).ev = "in" /\ tcpEvents' = Tail(tcpEvents)
      /\ UNCHANGED <<accepted, m_tlsConns, tlsEvents>>
  BY <1>1, Zenon DEF HandoverToTls, AtTcp, TcpEventDone, tlsVars
<1>3. CASE Len(m_handoverQueue) >= HandoverCap
  <2>1. CloseFds({x}, m_tcpConns) /\ m_handoverQueue' = m_handoverQueue
    BY <1>1, <1>3, Zenon DEF HandoverToTls
  <2>2. strayClose = {} /\ open' = Closed(open, {x})
    BY <2>1, ClosedOnPurpose, Zenon
  <2>3. OwnersHold
    BY <2>2, Zenon DEF OwnersIInv
  <2>4. {x} \cap (DOMAIN m_tlsConns \cup QueuedFds(m_handoverQueue)) = {}
    BY <1>2, <2>3, Zenon DEF OwnersHold, Shared, Owned
  <2> QED  BY <1>2, <2>1, <2>2, <2>3, <2>4, TcpClosesSome, Zenon
<1>4. CASE ~(Len(m_handoverQueue) >= HandoverCap)
  <2>1. PICK q1 : q1 = Append(m_handoverQueue, [fd |-> x, conn |-> m_tcpConns[x]])
    BY Zenon
  <2>2. m_handoverQueue' = q1 /\ UNCHANGED <<open, strayClose>>
    BY <1>1, <1>4, <2>1, Zenon DEF HandoverToTls
  <2>3. OwnersHold
    BY <2>2, Zenon DEF OwnersIInv
  <2>4. /\ Owned(open, m_tcpConns, m_tlsConns, m_handoverQueue)
        /\ m_handoverQueue \in Seq(Item) /\ tcpEvents \in Seq(Event)
    BY <2>3, Zenon DEF OwnersHold, Shared, Known
  <2>5. open[x] \in Nat
    BY <1>2, <2>3, Zenon DEF OwnersHold, Shared, Owned, PartOf, Known
  <2>6. q1 \in Seq(Item) /\ Owned(open, Drop(m_tcpConns, {x}), m_tlsConns, q1)
    BY <1>2, <2>1, <2>4, <2>5, HandOver, Zenon
  <2>7. Tail(tcpEvents) \in Seq(Event)
    BY <1>2, <2>4, HeadTailProperties, Zenon
  <2>8. /\ EventsOf(Tail(tcpEvents), m_tcpConns, open, accepted)
        /\ OncePerFd(Tail(tcpEvents))
    BY <1>2, <2>3, <2>4, TailEvents, Zenon DEF OwnersHold, Reported
  <2>9. \A i \in 1..Len(Tail(tcpEvents)) : Tail(tcpEvents)[i].fd # x
    BY <1>1, <1>2, <2>3, TcpHead, Zenon
  <2>10. DOMAIN Drop(m_tcpConns, {x}) = DOMAIN m_tcpConns \ {x}
    BY Zenon DEF Drop
  <2>11. EventsOf(Tail(tcpEvents), Drop(m_tcpConns, {x}), open, accepted)
    BY <2>8, <2>9, <2>10, Zenon DEF EventsOf
  <2>12. Known'
    BY <1>2, <2>2, <2>3, <2>6, <2>7, Zenon DEF OwnersHold, Known
  <2> QED  BY <1>2, <2>2, <2>3, <2>6, <2>8, <2>11, <2>12, Zenon DEF OwnersHold, Shared, Reported
<1> QED  BY <1>3, <1>4, Zenon

(***************************************************************************)
(* The steps of TlsReactor                                                 *)
(***************************************************************************)
LEMMA TlsWaitKeeps ==
  ASSUME OwnersHold, TlsWait
  PROVE  OwnersHold'
<1>1. PICK extra : extra = IF wakeup THEN {Special("wakeup")} ELSE {}
  BY Zenon
<1>2. extra \subseteq Event /\ \A e \in extra : e.ev \notin {"in", "hup"}
  BY <1>1 DEF Special, Event
<1>3. PICK b : b = tlsEvents'
  BY Zenon
<1>4. b \in Batches(ConnEvents(m_tlsConns) \cup extra)
  BY <1>1, <1>3, Zenon DEF TlsWait
<1>5. PartOf(m_tlsConns, open)
  BY Zenon DEF OwnersHold, Shared, Owned
<1>6. b \in Seq(Event) /\ EventsOf(b, m_tlsConns, open, accepted)
  BY <1>2, <1>4, <1>5, NewBatch, Zenon
<1> QED  BY <1>3, <1>6, Zenon DEF TlsWait, OwnersHold, Known, Shared, Reported, tcpVars

LEMMA TlsHead ==
  ASSUME OwnersHold, tlsEvents # << >>, Head(tlsEvents).ev \in {"in", "hup"}
  PROVE  LET e == Head(tlsEvents) IN
           e.fd \in Fds /\ (open[e.fd] = e.conn => e.fd \in DOMAIN m_tlsConns)
<1>1. tlsEvents \in Seq(Event)
  BY Zenon DEF OwnersHold, Known
<1>2. 1 \in 1..Len(tlsEvents) /\ Head(tlsEvents) = tlsEvents[1]
  BY <1>1, EmptySeq, LenProperties, HeadTailProperties
<1> QED  BY <1>2, Zenon DEF OwnersHold, Reported, EventsOf

LEMMA DrainWakeupKeeps ==
  ASSUME OwnersHold, DrainWakeup
  PROVE  OwnersHold'
<1>1. tlsEvents \in Seq(Event) /\ tlsEvents # << >>
  BY Zenon DEF OwnersHold, Known, DrainWakeup, AtTls
<1>2. PICK n \in Nat : n = Len(tlsEvents) /\ n > 0
  BY <1>1, EmptySeq, LenProperties
<1>3. PICK t : t = Tail(tlsEvents)
  BY Zenon
<1>4. /\ t \in Seq(Event) /\ Len(t) = n - 1
      /\ \A i \in 1..(n - 1) : t[i] = tlsEvents[i + 1]
  BY <1>1, <1>2, <1>3, HeadTailProperties, Zenon
<1>5. PICK h : h = <<Special("handover")>>
  BY Zenon
<1>6. h \in Seq(Event) /\ Len(h) = 1 /\ h[1].ev = "handover"
  BY <1>5 DEF Special, Event
<1>7. PICK b : b = h \o t
  BY Zenon
<1>8. /\ b \in Seq(Event) /\ Len(b) = 1 + (n - 1)
      /\ \A i \in 1..(1 + (n - 1)) : b[i] = IF i <= 1 THEN h[i] ELSE t[i - 1]
  <2>1. /\ b \in Seq(Event) /\ Len(b) = Len(h) + Len(t)
        /\ \A i \in 1..(Len(h) + Len(t)) : b[i] = IF i <= Len(h) THEN h[i] ELSE t[i - Len(h)]
    <3>1. h \in Seq(Event) /\ t \in Seq(Event)
      BY <1>4, <1>6, Zenon
    <3> QED  BY <1>7, <3>1, ConcatProperties, Zenon
  <2> QED  BY <1>4, <1>6, <2>1, Zenon
<1>9. EventsOf(b, m_tlsConns, open, accepted)
  <2>1. ASSUME NEW i \in 1..Len(b), b[i].ev \in {"in", "hup"}
        PROVE  i \in 1..n /\ b[i] = tlsEvents[i]
    <3>1. CASE i = 1
      BY <1>6, <1>8, <2>1, <3>1
    <3>2. CASE i # 1
      <4>1. i \in 1..n /\ i - 1 \in 1..(n - 1) /\ (i - 1) + 1 = i /\ ~(i <= 1)
        BY <1>2, <1>8, <3>2
      <4> QED  BY <1>4, <1>8, <4>1, Zenon
    <3> QED  BY <3>1, <3>2, Zenon
  <2> QED  BY <1>2, <2>1, Zenon DEF OwnersHold, Reported, EventsOf
<1>10. tlsEvents' = b /\ UNCHANGED <<open, tcpVars, m_tlsConns, m_handoverQueue>>
  BY <1>3, <1>5, <1>7, Zenon DEF DrainWakeup
<1> QED  BY <1>8, <1>9, <1>10, Zenon DEF OwnersHold, Known, Shared, Reported, tcpVars

LEMMA TlsServesKeeps ==
  ASSUME OwnersIInv, TlsServes, strayClose' = {}
  PROVE  OwnersHold'
<1>1. PICK S \in SUBSET ({Head(tlsEvents).fd} \cap DOMAIN m_tlsConns) :
        CloseFds(S, m_tlsConns) /\ m_tlsConns' = Drop(m_tlsConns, S)
  BY Zenon DEF TlsServes
<1>2. strayClose = {} /\ open' = Closed(open, S)
  BY <1>1, ClosedOnPurpose, Zenon
<1>3. OwnersHold
  BY <1>2, Zenon DEF OwnersIInv
<1>4. /\ tlsEvents # << >> /\ tlsEvents' = Tail(tlsEvents)
      /\ UNCHANGED <<accepted, m_tcpConns, tcpEvents, m_handoverQueue>>
  BY Zenon DEF TlsServes, AtTls, TlsEventDone, tcpVars
<1>5. S \cap (DOMAIN m_tcpConns \cup QueuedFds(m_handoverQueue')) = {}
  BY <1>1, <1>3, <1>4, Zenon DEF OwnersHold, Shared, Owned
<1>6. /\ Owned(open, m_tcpConns, m_tlsConns, m_handoverQueue')
      /\ m_handoverQueue' \in Seq(Item)
      /\ EventsOf(tlsEvents, m_tlsConns, open, accepted)
  BY <1>3, <1>4, Zenon DEF OwnersHold, Shared, Known, Reported
<1> QED  BY <1>1, <1>2, <1>3, <1>4, <1>5, <1>6, TlsClosesSome, Zenon

LEMMA TlsClosesKeeps ==
  ASSUME OwnersIInv, TlsCloses, strayClose' = {}
  PROVE  OwnersHold'
<1>1. PICK e : e = Head(tlsEvents)
  BY Zenon
<1>2. PICK for : for = [f \in {e.fd} |-> e.conn]
  BY Zenon
<1>3. CloseFds({e.fd}, for) /\ m_tlsConns' = Drop(m_tlsConns, {e.fd})
  BY <1>1, <1>2, Zenon DEF TlsCloses
<1>4. strayClose = {} /\ open' = Closed(open, {e.fd}) /\ open[e.fd] \in {0, e.conn}
  BY <1>2, <1>3, ClosedOnPurpose
<1>5. OwnersHold
  BY <1>4, Zenon DEF OwnersIInv
<1>6. /\ tlsEvents # << >> /\ tlsEvents' = Tail(tlsEvents) /\ Head(tlsEvents).ev = "hup"
      /\ UNCHANGED <<accepted, m_tcpConns, tcpEvents, m_handoverQueue>>
  BY Zenon DEF TlsCloses, AtTls, TlsEventDone, tcpVars
<1>7. e.fd \in Fds /\ (open[e.fd] = e.conn => e.fd \in DOMAIN m_tlsConns)
  BY <1>1, <1>5, <1>6, TlsHead, Zenon
<1>8. e.fd \notin DOMAIN m_tcpConns /\ e.fd \notin QueuedFds(m_handoverQueue)
  <2>1. CASE open[e.fd] = 0
    BY <1>5, <2>1, Zenon DEF OwnersHold, Shared, Owned, PartOf, QueueOf, QueuedFds
  <2>2. CASE e.fd \in DOMAIN m_tlsConns
    BY <1>5, <2>2, Zenon DEF OwnersHold, Shared, Owned
  <2> QED  BY <1>4, <1>7, <2>1, <2>2, Zenon
<1>9. {e.fd} \cap (DOMAIN m_tcpConns \cup QueuedFds(m_handoverQueue')) = {}
  BY <1>6, <1>8, Zenon
<1>10. /\ Owned(open, m_tcpConns, m_tlsConns, m_handoverQueue')
       /\ m_handoverQueue' \in Seq(Item)
       /\ EventsOf(tlsEvents, m_tlsConns, open, accepted)
  BY <1>5, <1>6, Zenon DEF OwnersHold, Shared, Known, Reported
<1> QED  BY <1>3, <1>4, <1>5, <1>6, <1>9, <1>10, TlsClosesSome, Zenon

\* processHandover moves the queue into the table, then descriptors of the
\* table are closed.
LEMMA ProcessWakeupKeeps ==
  ASSUME OwnersIInv, ProcessWakeup, strayClose' = {}
  PROVE  OwnersHold'
<1> DEFINE items == {m_handoverQueue[i] : i \in DOMAIN m_handoverQueue}
           all == [fd \in DOMAIN m_tlsConns \cup {x.fd : x \in items} |->
                     IF fd \in DOMAIN m_tlsConns THEN m_tlsConns[fd]
                     ELSE (CHOOSE x \in items : x.fd = fd).conn]
<1>1. items = {m_handoverQueue[i] : i \in DOMAIN m_handoverQueue}
  BY Zenon
<1>2. /\ DOMAIN all = DOMAIN m_tlsConns \cup {x.fd : x \in items}
      /\ \A fd \in DOMAIN all : all[fd] = IF fd \in DOMAIN m_tlsConns THEN m_tlsConns[fd]
                                          ELSE (CHOOSE x \in items : x.fd = fd).conn
  BY Zenon
<1>3. \E noSsl \in SUBSET {x.fd : x \in items} : \E S \in SUBSET (DOMAIN all \ noSsl) :
        CloseFds(S \cup noSsl, all) /\ m_tlsConns' = Drop(all, S \cup noSsl)
  BY Zenon DEF ProcessWakeup
<1> HIDE DEF items, all
<1>4. PICK S : /\ S \subseteq DOMAIN all
               /\ CloseFds(S, all) /\ m_tlsConns' = Drop(all, S)
  <2>1. PICK noSsl \in SUBSET {x.fd : x \in items} : \E S \in SUBSET (DOMAIN all \ noSsl) :
          CloseFds(S \cup noSsl, all) /\ m_tlsConns' = Drop(all, S \cup noSsl)
    BY <1>3, Zenon
  <2>2. PICK S \in SUBSET (DOMAIN all \ noSsl) :
          CloseFds(S \cup noSsl, all) /\ m_tlsConns' = Drop(all, S \cup noSsl)
    BY <2>1, Zenon
  <2>3. S \cup noSsl \subseteq DOMAIN all
    BY <1>2, <2>1, <2>2, Zenon
  <2> QED  BY <2>2, <2>3, Zenon
<1>5. strayClose = {} /\ open' = Closed(open, S)
  BY <1>4, ClosedOnPurpose, Zenon
<1>6. OwnersHold
  BY <1>5, Zenon DEF OwnersIInv
<1>7. PICK q : q = m_handoverQueue
  BY Zenon
<1>8. q \in Seq(Item) /\ DOMAIN q = 1..Len(q) /\ Owned(open, m_tcpConns, m_tlsConns, q)
  BY <1>6, <1>7, LenProperties, Zenon DEF OwnersHold, Known, Shared
<1>9. {x.fd : x \in items} = QueuedFds(q)
  BY <1>1, <1>7, <1>8, Zenon DEF QueuedFds
<1>10. DOMAIN all = DOMAIN m_tlsConns \cup QueuedFds(q)
  BY <1>2, <1>9, Zenon
<1>11. \A fd \in DOMAIN m_tlsConns : all[fd] = m_tlsConns[fd]
  BY <1>2, Zenon
<1>12. ASSUME NEW i \in 1..Len(q)  PROVE all[q[i].fd] = q[i].conn
  <2>1. q[i] \in items
    BY <1>1, <1>7, <1>8, Zenon
  <2>2. q[i].fd \in QueuedFds(q) /\ q[i].fd \notin DOMAIN m_tlsConns
    BY <1>8, Zenon DEF QueuedFds, Owned
  <2>3. \A x \in items : x.fd = q[i].fd => x = q[i]
    BY <1>1, <1>7, <1>8 DEF Owned, QueueOf
  <2>4. (CHOOSE x \in items : x.fd = q[i].fd) = q[i]
    BY <2>1, <2>3, Zenon
  <2> QED  BY <1>2, <1>10, <2>2, <2>4, Zenon
<1>13. Owned(open, m_tcpConns, all, << >>)
  BY <1>8, <1>10, <1>11, <1>12, TakeOver, Zenon
<1>14. /\ tlsEvents # << >> /\ tlsEvents' = Tail(tlsEvents) /\ m_handoverQueue' = << >>
       /\ UNCHANGED <<accepted, m_tcpConns, tcpEvents>>
  BY Zenon DEF ProcessWakeup, AtTls, TlsEventDone, tcpVars
<1>15. << >> \in Seq(Item)
  BY EmptySeq, Zenon
<1>16. EventsOf(tlsEvents, all, open, accepted)
  BY <1>6, <1>10, Zenon DEF OwnersHold, Reported, EventsOf
<1>17. S \cap (DOMAIN m_tcpConns \cup QueuedFds(<< >>)) = {}
  <2>1. 1..Len(<< >>) = {}
    BY EmptySeq
  <2>2. QueuedFds(<< >>) = {}
    BY <2>1, Zenon DEF QueuedFds
  <2> QED  BY <1>4, <1>13, <2>2, Zenon DEF Owned
<1> QED
  BY <1>4, <1>5, <1>6, <1>13, <1>14, <1>15, <1>16, <1>17, TlsClosesSome, Zenon

-----------------------------------------------------------------------------
LEMMA OwnersInitially == HandoverInit => OwnersIInv
<1> SUFFICES ASSUME HandoverInit  PROVE OwnersHold
  BY Zenon DEF OwnersIInv
<1>1. /\ open = [fd \in Fds |-> 0] /\ accepted = 0
      /\ m_tcpConns = << >> /\ m_tlsConns = << >> /\ m_handoverQueue = << >>
      /\ tcpEvents = << >> /\ tlsEvents = << >>
  BY Zenon DEF HandoverInit
<1>2. /\ \A T : << >> \in Seq(T)
      /\ 1..Len(<< >>) = {} /\ DOMAIN << >> = {}
  BY EmptySeq
<1>3. Known
  BY <1>1, <1>2 DEF Known
<1>4. Shared
  BY <1>1, <1>2, Zenon DEF Shared, Owned, PartOf, QueueOf, QueuedFds
<1>5. Reported
  BY <1>1, <1>2, Zenon DEF Reported, EventsOf, OncePerFd
<1> QED  BY <1>3, <1>4, <1>5, Zenon DEF OwnersHold

LEMMA OwnersStep == OwnersIInv /\ [HandoverNext]_handoverVars => OwnersIInv'
<1> SUFFICES ASSUME OwnersIInv, [HandoverNext]_handoverVars, strayClose' = {}
             PROVE  OwnersHold'
  BY Zenon DEF OwnersIInv
<1>1. CASE TcpTx  BY <1>1, TcpTxKeeps
<1>2. CASE TcpCloses  BY <1>2, TcpClosesKeeps
<1>3. CASE TcpReceives  BY <1>3, TcpReceivesKeeps
<1>4. CASE HandoverToTls  BY <1>4, HandoverToTlsKeeps
<1>5. CASE ProcessWakeup  BY <1>5, ProcessWakeupKeeps
<1>6. CASE TlsCloses  BY <1>6, TlsClosesKeeps
<1>7. CASE TlsServes  BY <1>7, TlsServesKeeps
<1>8. CASE TcpWait \/ TcpAccept \/ TcpAcceptAgain \/ TlsWait \/ DrainWakeup
  <2>1. strayClose' = strayClose
    BY <1>8, Zenon DEF TcpWait, TcpAccept, TcpAcceptAgain, TlsWait, DrainWakeup
  <2>2. OwnersHold
    BY <2>1, Zenon DEF OwnersIInv
  <2> QED
    BY <1>8, <2>2, TcpWaitKeeps, TcpAcceptKeeps, TcpAcceptAgainKeeps, TlsWaitKeeps,
       DrainWakeupKeeps
<1>9. CASE HandoverWakeup \/ UNCHANGED handoverVars
  BY <1>9 DEF HandoverWakeup, handoverVars, tcpVars, tlsVars, OwnersIInv, OwnersHold, Known,
     Shared, Reported
<1> QED
  BY <1>1, <1>2, <1>3, <1>4, <1>5, <1>6, <1>7, <1>8, <1>9, Zenon DEF HandoverNext, TlsReactor

(***************************************************************************)
(* Every open connection has exactly one owner, and no owner holds a       *)
(* descriptor that is closed or belongs to another connection, as long as  *)
(* no old event has been served for a new connection.                      *)
(***************************************************************************)
THEOREM HandoverSingleOwner == HandoverSpec => []SingleOwner
<1>1. OwnersIInv => SingleOwner
  <2> SUFFICES ASSUME OwnersIInv, strayClose = {}
               PROVE  SingleOwner
    BY Zenon DEF SingleOwner
  <2>1. Known /\ Owned(open, m_tcpConns, m_tlsConns, m_handoverQueue)
    BY Zenon DEF OwnersIInv, OwnersHold, Shared
  <2>2. m_handoverQueue \in Seq(Item) /\ DOMAIN m_handoverQueue = 1..Len(m_handoverQueue)
    BY <2>1, LenProperties, Zenon DEF Known
  <2>3. PICK queued : queued = {m_handoverQueue[i].fd : i \in DOMAIN m_handoverQueue}
    BY Zenon
  <2>4. queued = QueuedFds(m_handoverQueue)
    BY <2>2, <2>3, Zenon DEF QueuedFds
  <2>5. Cardinality(queued) = Len(m_handoverQueue)
    BY <2>1, <2>2, <2>4, QueueCount, Zenon DEF Owned, QueueOf
  <2>6. \A fd \in Fds : open[fd] # 0 =>
          \/ fd \in DOMAIN m_tcpConns /\ m_tcpConns[fd] = open[fd]
          \/ fd \in DOMAIN m_tlsConns /\ m_tlsConns[fd] = open[fd]
          \/ \E i \in DOMAIN m_handoverQueue :
               m_handoverQueue[i] = [fd |-> fd, conn |-> open[fd]]
    <3>1. ASSUME NEW i \in DOMAIN m_handoverQueue
          PROVE  m_handoverQueue[i] =
                   [fd |-> m_handoverQueue[i].fd, conn |-> open[m_handoverQueue[i].fd]]
      <4>1. m_handoverQueue[i] \in Item
        BY <2>2, ElementOfSeq, Zenon
      <4>2. m_handoverQueue[i].conn = open[m_handoverQueue[i].fd]
        BY <2>1, <2>2, Zenon DEF Owned, QueueOf
      <4> QED  BY <4>1, <4>2, Zenon DEF Item
    <3> QED  BY <2>1, <2>2, <3>1 DEF Owned, PartOf, QueuedFds
  <2>7. \A fd \in Fds : open[fd] = 0 =>
          fd \notin DOMAIN m_tcpConns \cup DOMAIN m_tlsConns \cup queued
    BY <2>1, <2>4 DEF Owned, PartOf, QueueOf, QueuedFds
  <2>8. /\ DOMAIN m_tcpConns \cap DOMAIN m_tlsConns = {}
        /\ queued \cap (DOMAIN m_tcpConns \cup DOMAIN m_tlsConns) = {}
    BY <2>1, <2>4, Zenon DEF Owned
  <2> QED  BY <2>3, <2>5, <2>6, <2>7, <2>8, Zenon DEF SingleOwner
<1> QED  BY <1>1, OwnersInitially, OwnersStep, PTL DEF HandoverSpec

(***************************************************************************)
(* HandoverAnnounced.  The batch of the TLS reactor is a sequence, of      *)
(* whatever events.                                                        *)
(***************************************************************************)
IsBatch(b) == b \in Seq({b[i] : i \in DOMAIN b})

\* Every sequence is one of its own elements.
LEMMA OwnElements == ASSUME NEW T, NEW b \in Seq(T)  PROVE IsBatch(b)
<1>1. DOMAIN b = 1..Len(b) /\ Len(b) \in Nat /\ b = [i \in 1..Len(b) |-> b[i]]
  OBVIOUS
<1>2. b \in [1..Len(b) -> {b[i] : i \in DOMAIN b}]
  BY <1>1, Zenon
<1> QED  BY <1>1, <1>2 DEF IsBatch

\* The TLS reactor takes a batch, or takes its first event.
LEMMA BatchStep == IsBatch(tlsEvents) /\ [HandoverNext]_handoverVars => IsBatch(tlsEvents)'
<1> SUFFICES ASSUME IsBatch(tlsEvents), [HandoverNext]_handoverVars  PROVE IsBatch(tlsEvents')
  BY Zenon DEF IsBatch
<1>1. CASE tlsEvents' = tlsEvents
  BY <1>1, Zenon
<1>2. CASE tlsEvents # << >> /\ tlsEvents' = Tail(tlsEvents)
  <2>1. Tail(tlsEvents) \in Seq({tlsEvents[i] : i \in DOMAIN tlsEvents})
    BY <1>2 DEF IsBatch
  <2> QED  BY <1>2, <2>1, OwnElements, Zenon
<1>3. CASE tlsEvents # << >> /\ tlsEvents' = <<Special("handover")>> \o Tail(tlsEvents)
  <2> PICK T : T = {tlsEvents[i] : i \in DOMAIN tlsEvents} \cup {Special("handover")}
    BY Zenon
  <2>1. tlsEvents \in Seq({tlsEvents[i] : i \in DOMAIN tlsEvents})
    BY Zenon DEF IsBatch
  <2>2. Tail(tlsEvents) \in Seq(T) /\ <<Special("handover")>> \in Seq(T)
    BY <1>3, <2>1
  <2>3. tlsEvents' \in Seq(T)
    BY <1>3, <2>2
  <2> QED  BY <2>3, OwnElements, Zenon
<1>4. CASE TlsWait
  <2> PICK ready : tlsEvents' \in Batches(ready)
    BY <1>4, Zenon DEF TlsWait
  <2>1. PICK n \in 1..MaxBatch : tlsEvents' \in [1..n -> ready]
    BY Zenon DEF Batches
  <2>2. n \in Nat
    BY HandoverAssumption
  <2>3. tlsEvents' \in Seq(ready)
    BY <2>1, <2>2
  <2> QED  BY <2>3, OwnElements, Zenon
<1> QED
  BY <1>1, <1>2, <1>3, <1>4, Zenon
     DEF HandoverNext, TlsReactor, TcpWait, TcpTx, TcpAccept, TcpAcceptAgain, TcpCloses, TcpReceives,
         HandoverToTls, HandoverWakeup, DrainWakeup, ProcessWakeup, TlsCloses, TlsServes, AtTls,
         TlsEventDone, handoverVars, tlsVars

(***************************************************************************)
(* A connection that TcpReactor has put into m_handoverQueue is announced  *)
(* to the TLS thread until it is taken: the eventfd is written after the   *)
(* push and drained before processHandover.  This holds whatever stale     *)
(* events do to the descriptors.                                           *)
(***************************************************************************)
THEOREM HandoverNeverForgotten == HandoverSpec => []HandoverAnnounced
<1>1. HandoverInit => HandoverAnnounced
  BY Zenon DEF HandoverInit, HandoverAnnounced
<1>2. IsBatch(tlsEvents) /\ HandoverAnnounced /\ [HandoverNext]_handoverVars => HandoverAnnounced'
  <2> SUFFICES ASSUME IsBatch(tlsEvents), HandoverAnnounced, [HandoverNext]_handoverVars
               PROVE  HandoverAnnounced'
    BY Zenon
  <2>1. ASSUME UNCHANGED <<m_handoverQueue, wakeup, hpc, tlsEvents>>  PROVE HandoverAnnounced'
    BY <2>1, Zenon DEF HandoverAnnounced, AtTls
  <2>2. ASSUME UNCHANGED <<m_handoverQueue, wakeup, hpc>>, ~AtTls("handover")  PROVE HandoverAnnounced'
    BY <2>2, Zenon DEF HandoverAnnounced
  <2>3. CASE TcpWait \/ TcpTx \/ TcpAccept \/ TcpAcceptAgain \/ TcpCloses \/ TcpReceives
    BY <2>1, <2>3, Zenon
       DEF TcpWait, TcpTx, TcpAccept, TcpAcceptAgain, TcpCloses, TcpReceives, tlsVars
  <2>4. CASE HandoverToTls
    <3>1. UNCHANGED <<wakeup, tlsEvents>> /\ (hpc' = TRUE \/ UNCHANGED <<m_handoverQueue, hpc>>)
      BY <2>4 DEF HandoverToTls, tlsVars
    <3> QED  BY <2>1, <3>1, Zenon DEF HandoverAnnounced
  <2>5. CASE HandoverWakeup
    BY <2>5, Zenon DEF HandoverWakeup, HandoverAnnounced
  <2>6. CASE TlsWait \/ TlsCloses \/ TlsServes
    <3>1. ~AtTls("handover")
      BY <2>6 DEF TlsWait, TlsCloses, TlsServes, AtTls
    <3> QED  BY <2>2, <2>6, <3>1, Zenon DEF TlsWait, TlsCloses, TlsServes, tcpVars
  <2>7. CASE DrainWakeup
    <3> PICK T, x, q : /\ q = Tail(tlsEvents) /\ T = {tlsEvents[i] : i \in DOMAIN tlsEvents}
                       /\ x = Special("handover")
      BY Zenon
    <3>1. tlsEvents # << >> /\ tlsEvents' = <<x>> \o q /\ x.ev = "handover"
      BY <2>7 DEF DrainWakeup, AtTls, Special
    <3>2. q \in Seq(T)
      BY <3>1 DEF IsBatch
    <3>3. <<x>> \o q # << >> /\ Head(<<x>> \o q) = x
      BY <3>2
    <3> QED  BY <3>1, <3>3, Zenon DEF HandoverAnnounced, AtTls
  <2>8. CASE ProcessWakeup
    BY <2>8, Zenon DEF ProcessWakeup, HandoverAnnounced
  <2>9. CASE UNCHANGED handoverVars
    BY <2>1, <2>9, Zenon DEF handoverVars, tcpVars, tlsVars
  <2> QED
    BY <2>3, <2>4, <2>5, <2>6, <2>7, <2>8, <2>9, Zenon DEF HandoverNext, TlsReactor
<1>3. HandoverInit => IsBatch(tlsEvents)
  BY DEF HandoverInit, IsBatch
<1> QED  BY <1>1, <1>2, <1>3, BatchStep, PTL DEF HandoverSpec
=============================================================================
