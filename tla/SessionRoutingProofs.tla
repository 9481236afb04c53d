------------------------ MODULE SessionRoutingProofs ------------------------
(***************************************************************************)
(* SessionManager and the routers, for any number of connections, session  *)
(* ids, shards and packets.                                                *)
(***************************************************************************)
EXTENDS SessionRouting, SequenceTheorems, TLAPS

States == {"PRE_AUTH", "AUTH", "IN_WORLD"}
Session == [state : States, tlsFd : TlsFds, tcpFd : TcpFds \cup {NoFd}, connInfo : Sources]
Packet == [src : Sources, gen : Nat, op : {"LOGIN", "LOBBY", "PING"}, sid : Nat,
           body : LoginBodies]
Ops == {"LOGIN_SUCCESS", "LOGIN_FAIL", "LOBBY_RES", "PING_RES"}
Hands == {Idle} \cup [pc : {"snapshot"}, op : Ops, req : Packet]
                \cup [pc : {"state", "send"}, op : Ops, req : Packet, snap : Session]

RoutingTypes ==
  /\ m_sessions \in [DOMAIN m_sessions -> Session]
  /\ m_tlsFdToSessionId \in [DOMAIN m_tlsFdToSessionId -> Sids]
  /\ DOMAIN m_tlsFdToSessionId \subseteq TlsFds
  /\ conn \in [TlsFds -> [open : BOOLEAN, gen : Nat]]
  /\ rx \in [Sources -> Seq(Packet)] /\ bound \in [Sources -> {0} \cup Sids]
  /\ shardQ \in [Shards -> Seq(Packet)] /\ hand \in [Shards -> Hands]
  /\ creators \subseteq [by : TlsFds \X Nat, sid : Sids]

\* sid was given to a connection at fd.
OwnerIs(sid, fd) == \E c \in creators : c.sid = sid /\ c.by[1] = fd

\* A login for sid has succeeded; sid may be gone by now.
Authentic(sid) ==
  sid \in Issued /\ (sid \in DOMAIN m_sessions => m_sessions[sid].state # "PRE_AUTH")

\* And a TCP connection has been bound to it.
Lobbied(sid) ==
  Authentic(sid) /\ (sid \in DOMAIN m_sessions => m_sessions[sid].tcpFd \in TcpFds)

\* What is known of a packet from w in the worker's queue,
SentBy(w, pkt) ==
  /\ pkt.src = w
  /\ pkt.op = "LOGIN" <=> w \in TlsFds
  /\ pkt.op = "LOBBY" <=> w \in TcpFds
  /\ pkt.sid # 0 => /\ pkt.sid \in Issued
                    /\ w \in TlsFds => OwnerIs(pkt.sid, w)
                    /\ w \in TcpFds => Authentic(pkt.sid)

\* of the id the worker has bound,
BoundBy(w, sid) ==
  /\ sid \in Issued
  /\ w \in TlsFds => OwnerIs(sid, w)
  /\ w \in TcpFds => Lobbied(sid)

\* of a request at shard s,
Requested(s, req) ==
  /\ req.sid \in Issued /\ selectShard(req.sid) = s
  /\ req.op = "LOGIN" => OwnerIs(req.sid, req.src)
  /\ req.op = "LOBBY" => Lobbied(req.sid)

\* of the answer that shard s works on,
Handled(s) ==
  LET h == hand[s] IN h.pc # "idle" =>
    /\ Requested(s, h.req)
    /\ h.op = HandleEvent(h.req)
    /\ h.pc = "state" => h.req.sid \in DOMAIN m_sessions
    /\ h.pc \in {"state", "send"} => /\ OwnerIs(h.req.sid, h.snap.tlsFd)
                                     /\ h.op = "LOBBY_RES" => h.snap.tcpFd \in TcpFds

\* and of the answers given to the reactors.
AnswerOK(a) ==
  /\ a.op \in {"LOGIN_SUCCESS", "LOGIN_FAIL"} =>
       /\ a.dst = a.req.src
       /\ a.header # 0 => /\ a.header \in Nat
                          /\ OwnerIs(a.header, a.dst)
                          /\ Authentic(a.header)
  /\ a.op = "LOBBY_RES" => a.dst \in TcpFds

\* Every id has one owner, and live sessions are bound to theirs.
Owners ==
  /\ \A c, d \in creators : c.sid = d.sid => c.by[1] = d.by[1]
  /\ DOMAIN m_sessions \subseteq Issued
  /\ \A sid \in DOMAIN m_sessions : OwnerIs(sid, m_sessions[sid].tlsFd)

Ingress ==
  \A w \in Sources :
    /\ \A i \in 1..Len(rx[w]) : SentBy(w, rx[w][i])
    /\ bound[w] # 0 => rx[w] # << >> /\ BoundBy(w, bound[w])

Queued == \A s \in Shards : \A i \in 1..Len(shardQ[s]) : Requested(s, shardQ[s][i])

RoutingIInv ==
  /\ RoutingTypes /\ Owners /\ Ingress /\ Queued
  /\ \A s \in Shards : Handled(s)
  /\ \A a \in tx : AnswerOK(a)
  /\ FdMapConsistent /\ AnswerMatchesState

(***************************************************************************)
(* Elements of queues                                                      *)
(***************************************************************************)
LEMMA AppendElements ==
  ASSUME NEW S, NEW s \in Seq(S), NEW x \in S, NEW i \in 1..Len(Append(s, x))
  PROVE  Append(s, x)[i] = x \/ \E j \in 1..Len(s) : Append(s, x)[i] = s[j]
<1> DEFINE n == Len(s)
<1>1. /\ n \in Nat /\ Len(Append(s, x)) = n + 1 /\ Append(s, x)[n + 1] = x
      /\ \A j \in 1..n : Append(s, x)[j] = s[j]
  BY AppendProperties, LenProperties
<1> HIDE DEF n
<1>2. i = n + 1 \/ i \in 1..n
  BY <1>1
<1>3. QED BY <1>1, <1>2, Zenon DEF n

LEMMA HeadElement ==
  ASSUME NEW S, NEW s \in Seq(S), s # << >>
  PROVE  Head(s) \in S /\ \E j \in 1..Len(s) : Head(s) = s[j]
<1>1. Len(s) \in Nat \ {0}
  BY EmptySeq, Zenon
<1>2. 1 \in 1..Len(s) /\ Head(s) = s[1]
  BY <1>1
<1>3. QED BY <1>2, HeadTailProperties, Zenon

LEMMA TailElements ==
  ASSUME NEW S, NEW s \in Seq(S), s # << >>, NEW i \in 1..Len(Tail(s))
  PROVE  \E j \in 1..Len(s) : Tail(s)[i] = s[j]
<1> DEFINE n == Len(s)
<1>1. n \in Nat /\ Len(Tail(s)) = n - 1 /\ Tail(s)[i] = s[i + 1]
  BY HeadTailProperties, LenProperties, Zenon
<1> HIDE DEF n
<1>2. i + 1 \in 1..n
  BY <1>1
<1>3. QED BY <1>1, <1>2, Zenon DEF n

(***************************************************************************)
(* What no step takes back                                                 *)
(***************************************************************************)
\* The sessions that sid \in Issued may have after a step.
KeptSessions ==
  \A sid \in Issued : sid \in DOMAIN m_sessions' =>
    /\ sid \in DOMAIN m_sessions
    /\ m_sessions[sid].state # "PRE_AUTH" => m_sessions'[sid].state # "PRE_AUTH"
    /\ m_sessions[sid].tcpFd \in TcpFds => m_sessions'[sid].tcpFd \in TcpFds

\* The type of a session that was bound to a packet.
LEMMA BindType ==
  ASSUME NEW session, NEW pkt \in Packet,
         session \in [state : States, tlsFd : TlsFds \cup {NoFd}, tcpFd : TcpFds \cup {NoFd},
                      connInfo : Sources \cup {NoFd}],
         pkt.src \in TlsFds \/ session.tlsFd \in TlsFds
  PROVE  /\ Bind(session, pkt) \in Session
         /\ Bind(session, pkt).state = session.state
         /\ Bind(session, pkt).tlsFd = IF pkt.src \in TlsFds THEN pkt.src ELSE session.tlsFd
         /\ Bind(session, pkt).tcpFd = IF pkt.src \in TcpFds THEN pkt.src ELSE session.tcpFd
BY Zenon DEF Bind, Session, Packet

\* The first packet of a worker's queue.
LEMMA FirstPacket ==
  ASSUME RoutingIInv, NEW w \in Sources, rx[w] # << >>
  PROVE  Head(rx[w]) \in Packet /\ SentBy(w, Head(rx[w]))
<1>1. rx[w] \in Seq(Packet) /\ \A i \in 1..Len(rx[w]) : SentBy(w, rx[w][i])
  BY Zenon DEF RoutingIInv, RoutingTypes, Ingress
<1>2. Head(rx[w]) \in Packet /\ \E j \in 1..Len(rx[w]) : Head(rx[w]) = rx[w][j]
  BY <1>1, HeadElement, Zenon
<1>3. QED BY <1>1, <1>2, Zenon

LEMMA CreateKeeps ==
  ASSUME RoutingIInv, NEW w \in Sources, NEW sid \in Sids, Create(w, sid) PROVE KeptSessions
BY Zenon DEF Create, KeptSessions

LEMMA CheckAndBindKeeps ==
  ASSUME RoutingIInv, NEW w \in Sources, CheckAndBind(w) PROVE KeptSessions
<1> DEFINE pkt == Head(rx[w])
<1>1. pkt \in Packet /\ m_sessions \in [DOMAIN m_sessions -> Session]
  BY FirstPacket, Zenon DEF CheckAndBind, RoutingIInv, RoutingTypes
<1>2. CASE pkt.sid \in DOMAIN m_sessions
  <2>1. m_sessions' = [m_sessions EXCEPT ![pkt.sid] = Bind(m_sessions[pkt.sid], pkt)]
    BY <1>2, Zenon DEF CheckAndBind
  <2> HIDE DEF pkt
  <2>2. m_sessions[pkt.sid] \in Session
    BY <1>1, <1>2, Zenon
  <2>3. /\ Bind(m_sessions[pkt.sid], pkt).state = m_sessions[pkt.sid].state
        /\ Bind(m_sessions[pkt.sid], pkt).tcpFd =
             IF pkt.src \in TcpFds THEN pkt.src ELSE m_sessions[pkt.sid].tcpFd
    BY <1>1, <2>2, Zenon DEF Bind, Session, Packet
  <2>4. QED BY <1>1, <1>2, <2>1, <2>3, Zenon DEF KeptSessions
<1>3. CASE pkt.sid \notin DOMAIN m_sessions
  BY <1>3, Zenon DEF CheckAndBind, KeptSessions
<1>4. QED BY <1>2, <1>3, Zenon

LEMMA ApplyStateKeeps ==
  ASSUME RoutingIInv, NEW s \in Shards, ApplyState(s) PROVE KeptSessions
<1> DEFINE sid == hand[s].req.sid
<1>0. m_sessions \in [DOMAIN m_sessions -> Session]
  BY Zenon DEF RoutingIInv, RoutingTypes
<1>1. CASE hand[s].op = "LOGIN_SUCCESS"
  BY <1>0, <1>1, Zenon DEF ApplyState, SetState, KeptSessions, Session
<1>2. CASE hand[s].op = "LOGIN_FAIL"
  BY <1>0, <1>2, Zenon DEF ApplyState, Erase, KeptSessions, Restrict, sessionVars
<1>3. CASE hand[s].op = "LOBBY_RES"
  BY <1>0, <1>3, Zenon DEF ApplyState, SetState, KeptSessions, Session
<1>4. CASE hand[s].op = "PING_RES"
  BY <1>4, Zenon DEF ApplyState, KeptSessions, sessionVars
<1>5. hand[s].op \in Ops
  BY DEF RoutingIInv, RoutingTypes, Hands, Idle, ApplyState
<1>6. QED BY <1>1, <1>2, <1>3, <1>4, <1>5, Zenon DEF Ops

LEMMA StepKeeps ==
  ASSUME RoutingIInv, [RoutingNext]_routingVars
  PROVE  KeptSessions /\ creators \subseteq creators'
<1>1. KeptSessions
  <2>1. CASE UNCHANGED m_sessions
    BY <2>1, Zenon DEF KeptSessions
  <2>2. QED BY <2>1, CreateKeeps, CheckAndBindKeeps, ApplyStateKeeps, Zenon
            DEF RoutingNext, routingVars, sessionVars, Arrive, CreateFails, Dispatch, CloseTls,
                OpenTls, HandleRequest, GetTxSnapshot, Send
<1>2. creators \subseteq creators'
  BY Zenon DEF RoutingNext, routingVars, histVars, Arrive, Create, CreateFails, CheckAndBind, Dispatch,
         CloseTls, OpenTls, HandleRequest, GetTxSnapshot, ApplyState, Send
<1>3. QED BY <1>1, <1>2, Zenon

\* Ids stay issued, owned, authentic and lobbied.
LEMMA Stable ==
  ASSUME RoutingIInv, [RoutingNext]_routingVars, NEW sid
  PROVE  /\ sid \in Issued => sid \in Issued'
         /\ \A fd : OwnerIs(sid, fd) => OwnerIs(sid, fd)'
         /\ Authentic(sid) => Authentic(sid)'
         /\ Lobbied(sid) => Lobbied(sid)'
<1>1. KeptSessions /\ creators \subseteq creators'
  BY StepKeeps, Zenon
<1>2. sid \in Issued => sid \in Issued'
  BY <1>1, Zenon DEF Issued
<1>3. ASSUME NEW fd, OwnerIs(sid, fd) PROVE OwnerIs(sid, fd)'
  BY <1>1, <1>3, Zenon DEF OwnerIs
<1>4. Authentic(sid) => Authentic(sid)'
  BY <1>1, <1>2, Zenon DEF Authentic, KeptSessions
<1>5. Lobbied(sid) => Lobbied(sid)'
  BY <1>1, <1>4, Zenon DEF Lobbied, Authentic, KeptSessions
<1>6. QED BY <1>2, <1>3, <1>4, <1>5, Zenon

\* What is known of packets, requests and answers stays true of them.
LEMMA StableRecords ==
  ASSUME RoutingIInv, [RoutingNext]_routingVars
  PROVE  /\ \A w, pkt : SentBy(w, pkt) => SentBy(w, pkt)'
         /\ \A w, sid : BoundBy(w, sid) => BoundBy(w, sid)'
         /\ \A s, req : Requested(s, req) => Requested(s, req)'
         /\ \A a : AnswerOK(a) => AnswerOK(a)'
<1>1. ASSUME NEW w, NEW pkt, SentBy(w, pkt) PROVE SentBy(w, pkt)'
  BY <1>1, Stable, Zenon DEF SentBy
<1>2. ASSUME NEW w, NEW sid, BoundBy(w, sid) PROVE BoundBy(w, sid)'
  BY <1>2, Stable, Zenon DEF BoundBy
<1>3. ASSUME NEW s, NEW req, Requested(s, req) PROVE Requested(s, req)'
  BY <1>3, Stable, Zenon DEF Requested
<1>4. ASSUME NEW a, AnswerOK(a) PROVE AnswerOK(a)'
  BY <1>4, Stable, Zenon DEF AnswerOK
<1>5. QED BY <1>1, <1>2, <1>3, <1>4, Zenon

\* The parts of the invariant that a step does not touch.
LEMMA KeepIngress ==
  ASSUME RoutingIInv, [RoutingNext]_routingVars, UNCHANGED rxVars PROVE Ingress'
BY StableRecords, Zenon DEF RoutingIInv, Ingress, rxVars

LEMMA KeepQueued ==
  ASSUME RoutingIInv, [RoutingNext]_routingVars, UNCHANGED shardQ PROVE Queued'
BY StableRecords, Zenon DEF RoutingIInv, Queued

LEMMA KeepAnswers ==
  ASSUME RoutingIInv, [RoutingNext]_routingVars, UNCHANGED tx PROVE (\A a \in tx : AnswerOK(a))'
BY StableRecords, Zenon DEF RoutingIInv

LEMMA KeepHandled ==
  ASSUME RoutingIInv, [RoutingNext]_routingVars, NEW s \in Shards, UNCHANGED hand[s],
         hand[s].pc = "state" => hand[s].req.sid \in DOMAIN m_sessions'
  PROVE  Handled(s)'
<1> DEFINE h == hand[s]
<1>1. Handled(s)
  BY Zenon DEF RoutingIInv
<1>2. CASE h.pc = "idle"
  BY <1>2, Zenon DEF Handled
<1>3. CASE h.pc # "idle"
  <2>1. Requested(s, h.req)'
    BY <1>1, <1>3, StableRecords, Zenon DEF Handled
  <2>2. OwnerIs(h.req.sid, h.snap.tlsFd) => OwnerIs(h.req.sid, h.snap.tlsFd)'
    BY Stable, Zenon
  <2>3. QED BY <1>1, <1>3, <2>1, <2>2, Zenon DEF Handled
<1>4. QED BY <1>2, <1>3, Zenon

LEMMA KeepOwners ==
  ASSUME RoutingIInv, UNCHANGED <<m_sessions, creators>> PROVE Owners'
BY Zenon DEF RoutingIInv, Owners, Issued, OwnerIs

LEMMA KeepMaps ==
  ASSUME RoutingIInv, UNCHANGED sessionVars PROVE FdMapConsistent'
BY Zenon DEF RoutingIInv, FdMapConsistent, sessionVars

LEMMA KeepMatches ==
  ASSUME RoutingIInv, UNCHANGED <<m_sessions, hand>> PROVE AnswerMatchesState'
BY Zenon DEF RoutingIInv, AnswerMatchesState

(***************************************************************************)
(* The invariant holds initially, and each step preserves it.              *)
(***************************************************************************)
LEMMA RoutingInitIInv == RoutingInit => RoutingIInv
<1> SUFFICES ASSUME RoutingInit PROVE RoutingIInv
  BY Zenon
<1> USE DEF RoutingInit
<1>1. DOMAIN m_sessions = {} /\ DOMAIN m_tlsFdToSessionId = {}
  OBVIOUS
<1>2. RoutingTypes
  <2>1. m_sessions \in [DOMAIN m_sessions -> Session]
        /\ m_tlsFdToSessionId \in [DOMAIN m_tlsFdToSessionId -> Sids]
    BY <1>1
  <2>2. << >> \in Seq(Packet)
    BY EmptySeq, Zenon
  <2>3. rx \in [Sources -> Seq(Packet)] /\ shardQ \in [Shards -> Seq(Packet)]
    BY <2>2, Zenon
  <2>4. /\ conn \in [TlsFds -> [open : BOOLEAN, gen : Nat]]
        /\ bound \in [Sources -> {0} \cup Sids] /\ hand \in [Shards -> Hands]
    BY Zenon DEF Hands
  <2>5. QED BY <1>1, <2>1, <2>3, <2>4, Zenon DEF RoutingTypes
<1>3. Owners /\ FdMapConsistent
  BY <1>1, Zenon DEF Owners, FdMapConsistent, Issued
<1>4. Ingress /\ Queued
  BY DEF Ingress, Queued
<1>5. AnswerMatchesState /\ \A s \in Shards : Handled(s)
  BY Zenon DEF AnswerMatchesState, Handled, Idle
<1>6. QED BY <1>2, <1>3, <1>4, <1>5, Zenon DEF RoutingIInv

LEMMA ConnStep ==
  ASSUME RoutingIInv, [RoutingNext]_routingVars, NEW fd \in TlsFds, CloseTls(fd) \/ OpenTls(fd)
  PROVE  RoutingIInv'
<1>1. UNCHANGED <<sessionVars, rxVars, shardQ, hand, histVars>>
  BY Zenon DEF CloseTls, OpenTls
<1>2. conn' \in [TlsFds -> [open : BOOLEAN, gen : Nat]]
  <2>1. conn \in [TlsFds -> [open : BOOLEAN, gen : Nat]]
    BY Zenon DEF RoutingIInv, RoutingTypes
  <2>2. CASE CloseTls(fd)
    <3>1. conn' = [conn EXCEPT ![fd] = [conn[fd] EXCEPT !.open = FALSE]]
      BY <2>2, Zenon DEF CloseTls
    <3>2. [conn[fd] EXCEPT !.open = FALSE] \in [open : BOOLEAN, gen : Nat]
      BY <2>1, Zenon
    <3>3. QED BY <2>1, <3>1, <3>2, Zenon
  <2>3. CASE OpenTls(fd)
    BY <2>1, <2>3 DEF OpenTls
  <2>4. QED BY <2>2, <2>3, Zenon
<1>3. RoutingTypes'
  BY <1>1, <1>2, Zenon DEF RoutingIInv, RoutingTypes, sessionVars, rxVars, histVars
<1>4. Owners' /\ FdMapConsistent' /\ AnswerMatchesState'
  BY <1>1, KeepOwners, KeepMaps, KeepMatches, Zenon DEF sessionVars, histVars
<1>5. Ingress' /\ Queued' /\ (\A a \in tx : AnswerOK(a))'
  BY <1>1, KeepIngress, KeepQueued, KeepAnswers, Zenon DEF histVars
<1>6. (\A s \in Shards : Handled(s))'
  BY <1>1, KeepHandled, Zenon DEF RoutingIInv, Handled, sessionVars
<1>7. QED BY <1>3, <1>4, <1>5, <1>6, Zenon DEF RoutingIInv

LEMMA UnchangedStep == ASSUME RoutingIInv, UNCHANGED routingVars PROVE RoutingIInv'
<1>1. [RoutingNext]_routingVars
  BY Zenon
<1>2. UNCHANGED <<sessionVars, conn, rxVars, shardQ, hand, histVars>>
  BY Zenon DEF routingVars
<1>3. RoutingTypes'
  BY <1>2, Zenon DEF RoutingIInv, RoutingTypes, sessionVars, rxVars, histVars
<1>4. Owners' /\ FdMapConsistent' /\ AnswerMatchesState'
  BY <1>2, KeepOwners, KeepMaps, KeepMatches, Zenon DEF sessionVars, histVars
<1>5. Ingress' /\ Queued' /\ (\A a \in tx : AnswerOK(a))'
  BY <1>1, <1>2, KeepIngress, KeepQueued, KeepAnswers, Zenon DEF histVars
<1>6. (\A s \in Shards : Handled(s))'
  BY <1>1, <1>2, KeepHandled, Zenon DEF RoutingIInv, Handled, sessionVars
<1>7. QED BY <1>3, <1>4, <1>5, <1>6, Zenon DEF RoutingIInv

\* A client sends an id it has learned, and TLS clients only their own.
LEMMA PacketSent ==
  ASSUME RoutingIInv, NEW w \in Sources, NEW pkt \in Packets(w)
  PROVE  pkt \in Packet /\ SentBy(w, pkt)
<1>1. \A a \in LoginAnswers : AnswerOK(a) /\ a.op \in {"LOGIN_SUCCESS", "LOGIN_FAIL"}
  BY Zenon DEF RoutingIInv, LoginAnswers
<1>2. CASE w \in TlsFds
  <2>1. /\ pkt.src = w /\ pkt.op = "LOGIN" /\ pkt.gen = conn[w].gen /\ pkt.body \in LoginBodies
        /\ pkt.sid \in {0} \cup LearnedBy(w, conn[w].gen)
        /\ pkt = [src |-> w, gen |-> pkt.gen, op |-> "LOGIN", sid |-> pkt.sid, body |-> pkt.body]
    BY <1>2, Zenon DEF Packets
  <2>2. pkt.sid # 0 => pkt.sid \in Nat /\ OwnerIs(pkt.sid, w) /\ Authentic(pkt.sid)
    BY <1>1, <2>1, Zenon DEF LearnedBy, AnswerOK
  <2>3. conn[w].gen \in Nat
    BY <1>2, Zenon DEF RoutingIInv, RoutingTypes
  <2>4. pkt \in Packet
    BY <2>1, <2>2, <2>3 DEF Packet
  <2>5. QED BY <1>2, <2>1, <2>2, <2>4, RoutingAssumption, Zenon DEF SentBy, Authentic
<1>3. CASE w \notin TlsFds
  <2>1. /\ pkt.src = w /\ pkt.gen = 0 /\ pkt.body \in LoginBodies /\ pkt.sid \in Learned
        /\ pkt.op = IF w \in TcpFds THEN "LOBBY" ELSE "PING"
        /\ pkt = [src |-> w, gen |-> 0, op |-> pkt.op, sid |-> pkt.sid, body |-> pkt.body]
    BY <1>3, Zenon DEF Packets, LoginBodies, LobbyBodies, PingBodies
  <2>2. pkt.sid # 0 => pkt.sid \in Nat /\ Authentic(pkt.sid)
    BY <1>1, <2>1, Zenon DEF Learned, AnswerOK
  <2>3. pkt \in Packet
    BY <2>1, <2>2 DEF Packet
  <2>4. QED BY <1>3, <2>1, <2>2, <2>3, Zenon DEF SentBy, Authentic
<1>4. QED BY <1>2, <1>3, Zenon

LEMMA ArriveStep ==
  ASSUME RoutingIInv, [RoutingNext]_routingVars, NEW w \in Sources, Arrive(w) PROVE RoutingIInv'
<1>1. UNCHANGED <<sessionVars, conn, bound, shardQ, hand, tx, creators>>
  BY Zenon DEF Arrive
<1>2. PICK pkt \in Packets(w) : rx' = [rx EXCEPT ![w] = Append(rx[w], pkt)]
  BY Zenon DEF Arrive
<1>3. pkt \in Packet /\ SentBy(w, pkt)
  BY PacketSent, Zenon
<1>4. rx \in [Sources -> Seq(Packet)]
  BY Zenon DEF RoutingIInv, RoutingTypes
<1>5. RoutingTypes'
  <2>1. rx' \in [Sources -> Seq(Packet)]
    BY <1>2, <1>3, <1>4, AppendProperties, Zenon
  <2>2. QED BY <1>1, <2>1, Zenon DEF RoutingIInv, RoutingTypes, sessionVars
<1>6. Ingress'
  <2>1. ASSUME NEW v \in Sources PROVE (\A i \in 1..Len(rx[v]) : SentBy(v, rx[v][i]))'
    <3>1. \A i \in 1..Len(rx[v]) : SentBy(v, rx[v][i])
      BY Zenon DEF RoutingIInv, Ingress
    <3>2. SUFFICES ASSUME NEW i \in 1..Len(rx'[v]), NEW q, q = rx'[v][i] PROVE SentBy(v, q)
      BY StableRecords, Zenon
    <3>3. CASE v = w
      <4>1. rx'[v] = Append(rx[v], pkt) /\ rx[v] \in Seq(Packet)
        BY <1>2, <1>4, <3>3, Zenon
      <4>2. rx'[v][i] = pkt \/ \E j \in 1..Len(rx[v]) : rx'[v][i] = rx[v][j]
        BY <1>3, <3>2, <4>1, AppendElements
      <4>3. QED BY <1>3, <3>1, <3>2, <3>3, <4>2, Zenon
    <3>4. CASE v # w
      BY <1>2, <1>4, <3>1, <3>2, <3>4, Zenon
    <3>5. QED BY <3>3, <3>4, Zenon
  <2>2. ASSUME NEW v \in Sources PROVE (bound[v] # 0 => rx[v] # << >> /\ BoundBy(v, bound[v]))'
    <3>1. bound' = bound /\ (bound[v] # 0 => rx[v] # << >> /\ BoundBy(v, bound[v]))
      BY <1>1, Zenon DEF RoutingIInv, Ingress
    <3>2. rx[v] # << >> => rx'[v] # << >>
      BY <1>2, <1>3, <1>4, AppendProperties
    <3>3. QED BY <3>1, <3>2, StableRecords, Zenon
  <2>3. QED BY <2>1, <2>2, Zenon DEF Ingress
<1>7. Owners' /\ FdMapConsistent' /\ AnswerMatchesState'
  BY <1>1, KeepOwners, KeepMaps, KeepMatches, Zenon DEF sessionVars
<1>8. Queued' /\ (\A a \in tx : AnswerOK(a))'
  BY <1>1, KeepQueued, KeepAnswers, Zenon
<1>9. (\A s \in Shards : Handled(s))'
  BY <1>1, KeepHandled, Zenon DEF RoutingIInv, Handled, sessionVars
<1>10. QED BY <1>5, <1>6, <1>7, <1>8, <1>9, Zenon DEF RoutingIInv

\* A worker is done with the first packet of its queue.
LEMMA DropFirst ==
  ASSUME RoutingIInv, [RoutingNext]_routingVars, NEW w \in Sources, rx[w] # << >>,
         rx' = [rx EXCEPT ![w] = Tail(rx[w])],
         bound' = [bound EXCEPT ![w] = 0]
  PROVE  rx' \in [Sources -> Seq(Packet)] /\ bound' \in [Sources -> {0} \cup Sids] /\ Ingress'
<1>1. rx \in [Sources -> Seq(Packet)] /\ bound \in [Sources -> {0} \cup Sids]
  BY Zenon DEF RoutingIInv, RoutingTypes
<1>2. Tail(rx[w]) \in Seq(Packet)
  BY <1>1, HeadTailProperties, Zenon
<1>3. rx' \in [Sources -> Seq(Packet)] /\ bound' \in [Sources -> {0} \cup Sids]
  BY <1>1, <1>2, Zenon
<1>4. ASSUME NEW v \in Sources PROVE (\A i \in 1..Len(rx[v]) : SentBy(v, rx[v][i]))'
  <2>1. \A i \in 1..Len(rx[v]) : SentBy(v, rx[v][i])
    BY Zenon DEF RoutingIInv, Ingress
  <2>2. SUFFICES ASSUME NEW i \in 1..Len(rx'[v]), NEW q, q = rx'[v][i] PROVE SentBy(v, q)
    BY StableRecords, Zenon
  <2>3. CASE v = w
    <3>1. rx'[v] = Tail(rx[v]) /\ rx[v] \in Seq(Packet) /\ rx[v] # << >>
      BY <1>1, <2>3, Zenon
    <3>2. \E j \in 1..Len(rx[v]) : rx'[v][i] = rx[v][j]
      BY <2>2, <3>1, TailElements
    <3>3. QED BY <2>1, <2>2, <3>2, Zenon
  <2>4. CASE v # w
    BY <1>1, <2>1, <2>2, <2>4, Zenon
  <2>5. QED BY <2>3, <2>4, Zenon
<1>5. ASSUME NEW v \in Sources PROVE (bound[v] # 0 => rx[v] # << >> /\ BoundBy(v, bound[v]))'
  <2>1. bound[v] # 0 => rx[v] # << >> /\ BoundBy(v, bound[v])
    BY Zenon DEF RoutingIInv, Ingress
  <2>2. v = w => bound'[v] = 0
    BY <1>1, Zenon
  <2>3. v # w => bound'[v] = bound[v] /\ rx'[v] = rx[v]
    BY <1>1, Zenon
  <2>4. QED BY <2>1, <2>2, <2>3, StableRecords, Zenon
<1>6. QED BY <1>3, <1>4, <1>5, Zenon DEF Ingress

LEMMA CreateFailsStep ==
  ASSUME RoutingIInv, [RoutingNext]_routingVars, NEW w \in Sources, CreateFails(w)
  PROVE  RoutingIInv'
<1>1. UNCHANGED <<sessionVars, conn, bound, shardQ, hand, tx, creators>>
  BY Zenon DEF CreateFails
<1>2. /\ rx[w] # << >> /\ rx' = [rx EXCEPT ![w] = Tail(rx[w])]
      /\ bound' = [bound EXCEPT ![w] = 0]
  BY <1>1, Zenon DEF CreateFails, RoutingIInv, RoutingTypes
<1>3. rx' \in [Sources -> Seq(Packet)] /\ bound' \in [Sources -> {0} \cup Sids] /\ Ingress'
  BY <1>2, DropFirst, Zenon
<1>4. RoutingTypes'
  BY <1>1, <1>3, Zenon DEF RoutingIInv, RoutingTypes, sessionVars
<1>5. Owners' /\ FdMapConsistent' /\ AnswerMatchesState'
  BY <1>1, KeepOwners, KeepMaps, KeepMatches, Zenon DEF sessionVars
<1>6. Queued' /\ (\A a \in tx : AnswerOK(a))'
  BY <1>1, KeepQueued, KeepAnswers, Zenon
<1>7. (\A s \in Shards : Handled(s))'
  BY <1>1, KeepHandled, Zenon DEF RoutingIInv, Handled, sessionVars
<1>8. QED BY <1>3, <1>4, <1>5, <1>6, <1>7, Zenon DEF RoutingIInv

\* A worker binds the first packet of its queue.
LEMMA BindFirst ==
  ASSUME RoutingIInv, [RoutingNext]_routingVars, NEW w \in Sources, rx[w] # << >>, UNCHANGED rx,
         NEW sid \in Sids, bound' = [bound EXCEPT ![w] = sid], BoundBy(w, sid)'
  PROVE  rx' \in [Sources -> Seq(Packet)] /\ bound' \in [Sources -> {0} \cup Sids] /\ Ingress'
<1>1. rx \in [Sources -> Seq(Packet)] /\ bound \in [Sources -> {0} \cup Sids]
  BY Zenon DEF RoutingIInv, RoutingTypes
<1>2. ASSUME NEW v \in Sources PROVE (\A i \in 1..Len(rx[v]) : SentBy(v, rx[v][i]))'
  BY StableRecords, Zenon DEF RoutingIInv, Ingress
<1>3. ASSUME NEW v \in Sources PROVE (bound[v] # 0 => rx[v] # << >> /\ BoundBy(v, bound[v]))'
  <2>1. bound[v] # 0 => rx[v] # << >> /\ BoundBy(v, bound[v])
    BY Zenon DEF RoutingIInv, Ingress
  <2>2. v = w => bound'[v] = sid
    BY <1>1, Zenon
  <2>3. v # w => bound'[v] = bound[v]
    BY <1>1, Zenon
  <2>4. QED BY <2>1, <2>2, <2>3, StableRecords, Zenon
<1>4. QED BY <1>1, <1>2, <1>3, Zenon DEF Ingress

LEMMA CreateStep ==
  ASSUME RoutingIInv, [RoutingNext]_routingVars, NEW w \in Sources, NEW sid \in Sids,
         Create(w, sid)
  PROVE  RoutingIInv'
<1> DEFINE pkt == Head(rx[w])
           new == Bind(NewSession, pkt)
           c == [by |-> <<w, pkt.gen>>, sid |-> sid]
<1>1. UNCHANGED <<conn, rx, shardQ, hand, tx>>
  BY Zenon DEF Create
<1>2. /\ pkt \in Packet /\ pkt.src = w /\ w \in TlsFds
      /\ rx[w] # << >> /\ bound' = [bound EXCEPT ![w] = sid]
      /\ w \notin DOMAIN m_tlsFdToSessionId /\ sid \notin Issued /\ sid \notin DOMAIN m_sessions
      /\ creators' = creators \cup {c}
      /\ m_sessions' = [x \in DOMAIN m_sessions \cup {sid} |->
                          IF x = sid THEN new ELSE m_sessions[x]]
      /\ m_tlsFdToSessionId' = [f \in DOMAIN m_tlsFdToSessionId \cup {w} |->
                          IF f = w THEN sid ELSE m_tlsFdToSessionId[f]]
  BY FirstPacket, Zenon DEF Create, SentBy, RoutingIInv, Owners
<1>3. new \in Session /\ new.tlsFd = w /\ new.state = "PRE_AUTH"
  <2>1. NewSession \in [state : States, tlsFd : TlsFds \cup {NoFd}, tcpFd : TcpFds \cup {NoFd},
                        connInfo : Sources \cup {NoFd}]
    BY Zenon DEF NewSession, States
  <2>2. QED BY <1>2, <2>1, BindType DEF NewSession
<1>4. c \in [by : TlsFds \X Nat, sid : Sids] /\ c.sid = sid /\ c.by[1] = w
  BY <1>2, Zenon DEF Packet
<1> HIDE DEF pkt, new, c
<1>5. OwnerIs(sid, w)' /\ sid \in Issued'
  BY <1>2, <1>4, Zenon DEF OwnerIs, Issued
<1>6. rx' \in [Sources -> Seq(Packet)] /\ bound' \in [Sources -> {0} \cup Sids] /\ Ingress'
  <2>1. BoundBy(w, sid)'
    BY <1>2, <1>5, RoutingAssumption, Zenon DEF BoundBy
  <2>2. QED BY <1>1, <1>2, <2>1, BindFirst, Zenon
<1>7. RoutingTypes'
  <2>1. m_sessions' \in [DOMAIN m_sessions' -> Session]
    BY <1>2, <1>3, Zenon DEF RoutingIInv, RoutingTypes
  <2>2. /\ m_tlsFdToSessionId' \in [DOMAIN m_tlsFdToSessionId' -> Sids]
        /\ DOMAIN m_tlsFdToSessionId' \subseteq TlsFds
    BY <1>2, Zenon DEF RoutingIInv, RoutingTypes
  <2>3. creators' \subseteq [by : TlsFds \X Nat, sid : Sids]
    BY <1>2, <1>4, Zenon DEF RoutingIInv, RoutingTypes
  <2>4. QED BY <1>1, <1>6, <2>1, <2>2, <2>3, Zenon DEF RoutingIInv, RoutingTypes
<1>8. Owners'
  <2>1. \A d, e \in creators' : d.sid = e.sid => d.by[1] = e.by[1]
    BY <1>2, <1>4 DEF RoutingIInv, Owners, Issued
  <2>2. DOMAIN m_sessions' \subseteq Issued'
    BY <1>2, <1>5, Stable, Zenon DEF RoutingIInv, Owners
  <2>3. ASSUME NEW x \in DOMAIN m_sessions' PROVE OwnerIs(x, m_sessions[x].tlsFd)'
    <3>1. CASE x = sid
      BY <1>2, <1>3, <1>5, <3>1, Zenon
    <3>2. CASE x # sid
      <4>1. x \in DOMAIN m_sessions /\ m_sessions'[x] = m_sessions[x]
        BY <1>2, <3>2, Zenon
      <4>2. QED BY <4>1, Stable, Zenon DEF RoutingIInv, Owners
    <3>3. QED BY <3>1, <3>2, Zenon
  <2>4. QED BY <2>1, <2>2, <2>3, Zenon DEF Owners
<1>9. FdMapConsistent'
  BY <1>2, <1>3, Zenon DEF RoutingIInv, FdMapConsistent
<1>10. ASSUME NEW s \in Shards, hand[s].pc # "idle"
       PROVE  hand[s].req.sid # sid
  BY <1>2, <1>10, Zenon DEF RoutingIInv, Handled, Requested
<1>11. AnswerMatchesState'
  BY <1>1, <1>2, <1>10, Zenon DEF RoutingIInv, AnswerMatchesState
<1>12. Queued' /\ (\A a \in tx : AnswerOK(a))'
  BY <1>1, KeepQueued, KeepAnswers, Zenon
<1>13. (\A s \in Shards : Handled(s))'
  BY <1>1, <1>2, KeepHandled, Zenon DEF RoutingIInv, Handled
<1>14. QED BY <1>6, <1>7, <1>8, <1>9, <1>11, <1>12, <1>13, Zenon DEF RoutingIInv

\* An id has one owner.
LEMMA OneOwner ==
  ASSUME RoutingIInv, NEW sid, NEW f, NEW g, OwnerIs(sid, f), OwnerIs(sid, g) PROVE f = g
BY DEF RoutingIInv, Owners, OwnerIs

LEMMA IssuedIds == RoutingIInv => Issued \subseteq Sids /\ 0 \notin Issued
BY RoutingAssumption DEF RoutingIInv, RoutingTypes, Issued

\* checkAndBind finds the session: the only field it changes that another
\* part of the invariant depends on is the TCP descriptor, because a TLS
\* client sends its own id.
LEMMA BoundStep ==
  ASSUME RoutingIInv, [RoutingNext]_routingVars, NEW w \in Sources, CheckAndBind(w),
         Head(rx[w]).sid \in DOMAIN m_sessions
  PROVE  RoutingIInv'
<1> DEFINE pkt == Head(rx[w])
<1>0. PICK sid : sid = pkt.sid
  BY Zenon
<1> DEFINE old == m_sessions[sid]
           new == Bind(old, pkt)
<1>1. /\ UNCHANGED <<m_tlsFdToSessionId, conn, rx, shardQ, hand, tx, creators>>
      /\ rx[w] # << >> /\ sid \in DOMAIN m_sessions
      /\ m_sessions' = [m_sessions EXCEPT ![sid] = new]
      /\ bound' = [bound EXCEPT ![w] = sid]
  BY <1>0, Zenon DEF CheckAndBind, histVars
<1>2. pkt \in Packet /\ SentBy(w, pkt) /\ sid \in Issued /\ sid \in Sids /\ sid # 0
  BY <1>0, <1>1, FirstPacket, IssuedIds, Zenon DEF RoutingIInv, Owners
<1>3. old \in Session /\ m_sessions \in [DOMAIN m_sessions -> Session]
  BY <1>1, Zenon DEF RoutingIInv, RoutingTypes
<1>4. /\ new \in Session /\ new.state = old.state
      /\ new.tlsFd = IF w \in TlsFds THEN w ELSE old.tlsFd
      /\ new.tcpFd = IF w \in TcpFds THEN w ELSE old.tcpFd
  <2>1. /\ old \in [state : States, tlsFd : TlsFds \cup {NoFd}, tcpFd : TcpFds \cup {NoFd},
                    connInfo : Sources \cup {NoFd}]
        /\ old.tlsFd \in TlsFds /\ pkt.src = w
    BY <1>2, <1>3, Zenon DEF Session, SentBy
  <2>2. QED BY <1>2, <2>1, BindType
<1> HIDE DEF pkt, new, old
<1>5. new.tlsFd = old.tlsFd
  <2>1. OwnerIs(sid, old.tlsFd)
    BY <1>1, Zenon DEF RoutingIInv, Owners, old
  <2>2. w \in TlsFds => OwnerIs(sid, w)
    BY <1>0, <1>2, Zenon DEF SentBy
  <2>3. QED BY <1>4, <2>1, <2>2, OneOwner, Zenon
<1>6. /\ DOMAIN m_sessions' = DOMAIN m_sessions /\ m_sessions'[sid] = new
      /\ \A x \in DOMAIN m_sessions :
           /\ m_sessions'[x].tlsFd = m_sessions[x].tlsFd
           /\ m_sessions'[x].state = m_sessions[x].state
  BY <1>1, <1>3, <1>4, <1>5, Zenon DEF old
<1>7. rx' \in [Sources -> Seq(Packet)] /\ bound' \in [Sources -> {0} \cup Sids] /\ Ingress'
  <2>1. w \in TlsFds => OwnerIs(sid, w)'
    BY <1>0, <1>2, Stable, Zenon DEF SentBy
  <2>2. w \in TcpFds => Lobbied(sid)'
    <3>1. w \in TcpFds => Authentic(sid)'
      BY <1>0, <1>2, Stable, Zenon DEF SentBy
    <3>2. w \in TcpFds => m_sessions'[sid].tcpFd \in TcpFds
      BY <1>4, <1>6, Zenon
    <3>3. QED BY <3>1, <3>2, Zenon DEF Lobbied
  <2>3. BoundBy(w, sid)'
    BY <1>2, <2>1, <2>2, Stable, Zenon DEF BoundBy
  <2>4. QED BY <1>1, <1>2, <2>3, BindFirst, Zenon
<1>8. RoutingTypes'
  <2>1. m_sessions' \in [DOMAIN m_sessions' -> Session]
    BY <1>1, <1>3, <1>4, Zenon
  <2>2. QED BY <1>1, <1>7, <2>1, Zenon DEF RoutingIInv, RoutingTypes
<1>9. Owners'
  BY <1>1, <1>6 DEF RoutingIInv, Owners, Issued, OwnerIs
<1>10. FdMapConsistent'
  BY <1>1, <1>6 DEF RoutingIInv, FdMapConsistent
<1>11. AnswerMatchesState'
  BY <1>1, <1>6 DEF RoutingIInv, AnswerMatchesState
<1>12. Queued' /\ (\A a \in tx : AnswerOK(a))'
  BY <1>1, KeepQueued, KeepAnswers, Zenon
<1>13. (\A s \in Shards : Handled(s))'
  BY <1>1, <1>6, KeepHandled, Zenon DEF RoutingIInv, Handled
<1>14. QED BY <1>7, <1>8, <1>9, <1>10, <1>11, <1>12, <1>13, Zenon DEF RoutingIInv

LEMMA NotBoundStep ==
  ASSUME RoutingIInv, [RoutingNext]_routingVars, NEW w \in Sources, CheckAndBind(w),
         Head(rx[w]).sid \notin DOMAIN m_sessions
  PROVE  RoutingIInv'
<1>1. UNCHANGED <<sessionVars, conn, bound, shardQ, hand, tx, creators>>
  BY Zenon DEF CheckAndBind, histVars, sessionVars
<1>2. /\ rx[w] # << >> /\ rx' = [rx EXCEPT ![w] = Tail(rx[w])]
      /\ bound' = [bound EXCEPT ![w] = 0]
  BY <1>1, Zenon DEF CheckAndBind, RoutingIInv, RoutingTypes
<1>3. rx' \in [Sources -> Seq(Packet)] /\ bound' \in [Sources -> {0} \cup Sids] /\ Ingress'
  BY <1>2, DropFirst, Zenon
<1>4. RoutingTypes'
  BY <1>1, <1>3, Zenon DEF RoutingIInv, RoutingTypes, sessionVars
<1>5. Owners' /\ FdMapConsistent' /\ AnswerMatchesState'
  BY <1>1, KeepOwners, KeepMaps, KeepMatches, Zenon DEF sessionVars
<1>6. Queued' /\ (\A a \in tx : AnswerOK(a))'
  BY <1>1, KeepQueued, KeepAnswers, Zenon
<1>7. (\A s \in Shards : Handled(s))'
  BY <1>1, KeepHandled, Zenon DEF RoutingIInv, Handled, sessionVars
<1>8. QED BY <1>3, <1>4, <1>5, <1>6, <1>7, Zenon DEF RoutingIInv

LEMMA SelectsAShard == ASSUME NEW sid \in Nat PROVE selectShard(sid) \in Shards
<1>1. sid \div SidLow \in Int
  BY RoutingAssumption
<1>2. QED BY <1>1, RoutingAssumption DEF selectShard, Shards

LEMMA DispatchStep ==
  ASSUME RoutingIInv, [RoutingNext]_routingVars, NEW w \in Sources, Dispatch(w)
  PROVE  RoutingIInv'
<1> DEFINE pkt == Head(rx[w])
           sid == bound[w]
           req == [pkt EXCEPT !.sid = sid]
           t == selectShard(sid)
<1>1. /\ UNCHANGED <<sessionVars, conn, hand, tx, creators>>
      /\ sid # 0
      /\ rx' = [rx EXCEPT ![w] = Tail(rx[w])] /\ bound' = [bound EXCEPT ![w] = 0]
      /\ shardQ' = shardQ \/ shardQ' = [shardQ EXCEPT ![t] = Append(shardQ[t], req)]
  BY Zenon DEF Dispatch, histVars
<1>2. rx[w] # << >> /\ BoundBy(w, sid)
  BY <1>1, Zenon DEF RoutingIInv, Ingress
<1>3. rx' \in [Sources -> Seq(Packet)] /\ bound' \in [Sources -> {0} \cup Sids] /\ Ingress'
  BY <1>1, <1>2, DropFirst, Zenon
<1>4. pkt \in Packet /\ SentBy(w, pkt) /\ sid \in Sids /\ sid \in Nat
  BY <1>2, FirstPacket, IssuedIds, RoutingAssumption, Zenon DEF BoundBy
<1>5. req \in Packet /\ req.sid = sid /\ req.op = pkt.op /\ req.src = w
  BY <1>4, Zenon DEF Packet, SentBy
<1>6. Requested(t, req)
  <2>1. req.op = "LOGIN" => w \in TlsFds
    BY <1>4, <1>5, Zenon DEF SentBy
  <2>2. req.op = "LOBBY" => w \in TcpFds
    BY <1>4, <1>5, Zenon DEF SentBy
  <2>3. QED BY <1>2, <1>5, <2>1, <2>2, Zenon DEF Requested, BoundBy
<1>7. t \in Shards /\ shardQ \in [Shards -> Seq(Packet)]
  BY <1>4, SelectsAShard, Zenon DEF RoutingIInv, RoutingTypes
<1> HIDE DEF pkt, sid, req, t
<1>8. shardQ' \in [Shards -> Seq(Packet)]
  <2>1. Append(shardQ[t], req) \in Seq(Packet)
    BY <1>5, <1>7, AppendProperties, Zenon
  <2>2. QED BY <1>1, <1>7, <2>1, Zenon
<1>9. Queued'
  <2>1. CASE UNCHANGED shardQ
    BY <2>1, KeepQueued, Zenon
  <2>2. CASE shardQ' = [shardQ EXCEPT ![t] = Append(shardQ[t], req)]
    <3>1. ASSUME NEW s \in Shards
          PROVE  (\A i \in 1..Len(shardQ[s]) : Requested(s, shardQ[s][i]))'
      <4>1. \A i \in 1..Len(shardQ[s]) : Requested(s, shardQ[s][i])
        BY Zenon DEF RoutingIInv, Queued
      <4>2. SUFFICES ASSUME NEW i \in 1..Len(shardQ'[s]), NEW q, q = shardQ'[s][i]
                     PROVE  Requested(s, q)
        BY StableRecords, Zenon
      <4>3. CASE s = t
        <5>1. shardQ'[s] = Append(shardQ[s], req) /\ shardQ[s] \in Seq(Packet)
          BY <1>7, <2>2, <4>3, Zenon
        <5>2. shardQ'[s][i] = req \/ \E j \in 1..Len(shardQ[s]) : shardQ'[s][i] = shardQ[s][j]
          BY <1>5, <4>2, <5>1, AppendElements
        <5>3. QED BY <1>6, <4>1, <4>2, <4>3, <5>2, Zenon
      <4>4. CASE s # t
        BY <1>7, <2>2, <4>1, <4>2, <4>4, Zenon
      <4>5. QED BY <4>3, <4>4, Zenon
    <3>2. QED BY <3>1, Zenon DEF Queued
  <2>3. QED BY <1>1, <2>1, <2>2, Zenon
<1>10. RoutingTypes'
  BY <1>1, <1>3, <1>8, Zenon DEF RoutingIInv, RoutingTypes, sessionVars
<1>11. Owners' /\ FdMapConsistent' /\ AnswerMatchesState'
  BY <1>1, KeepOwners, KeepMaps, KeepMatches, Zenon DEF sessionVars
<1>12. (\A a \in tx : AnswerOK(a))'
  BY <1>1, KeepAnswers, Zenon
<1>13. (\A s \in Shards : Handled(s))'
  BY <1>1, KeepHandled, Zenon DEF RoutingIInv, Handled, sessionVars
<1>14. QED BY <1>3, <1>9, <1>10, <1>11, <1>12, <1>13, Zenon DEF RoutingIInv

\* What a shard has in hand, by where it is.
LEMMA InHand ==
  ASSUME RoutingIInv, NEW s \in Shards
  PROVE  /\ hand[s].pc = "snapshot" => hand[s] \in [pc : {"snapshot"}, op : Ops, req : Packet]
         /\ hand[s].pc \in {"state", "send"} =>
              hand[s] \in [pc : {"state", "send"}, op : Ops, req : Packet, snap : Session]
         /\ hand[s].pc \in {"idle", "snapshot", "state", "send"}
         /\ hand \in [Shards -> Hands]
BY DEF RoutingIInv, RoutingTypes, Hands, Idle

LEMMA HandleRequestStep ==
  ASSUME RoutingIInv, [RoutingNext]_routingVars, NEW s \in Shards, HandleRequest(s)
  PROVE  RoutingIInv'
<1>0. PICK req : req = Head(shardQ[s])
  BY Zenon
<1> DEFINE h == [pc |-> "snapshot", op |-> HandleEvent(req), req |-> req]
<1>1. /\ UNCHANGED <<sessionVars, conn, rxVars, tx, creators>>
      /\ shardQ[s] # << >> /\ shardQ' = [shardQ EXCEPT ![s] = Tail(shardQ[s])]
      /\ hand' = [hand EXCEPT ![s] = h]
  BY <1>0, Zenon DEF HandleRequest, histVars
<1>2. shardQ \in [Shards -> Seq(Packet)] /\ hand \in [Shards -> Hands]
  BY Zenon DEF RoutingIInv, RoutingTypes
<1>3. req \in Packet /\ Requested(s, req)
  <2>1. req \in Packet /\ \E j \in 1..Len(shardQ[s]) : req = shardQ[s][j]
    BY <1>0, <1>1, <1>2, HeadElement, Zenon
  <2>2. QED BY <2>1, Zenon DEF RoutingIInv, Queued
<1>4. h \in Hands
  BY <1>3, Zenon DEF Hands, HandleEvent, LoginReqEvent, LobbyEntryReqEvent, PingReqEvent, Packet, Ops
<1>5. RoutingTypes'
  <2>1. Tail(shardQ[s]) \in Seq(Packet)
    BY <1>1, <1>2, HeadTailProperties, Zenon
  <2>2. shardQ' \in [Shards -> Seq(Packet)]
    BY <1>1, <1>2, <2>1, Zenon
  <2>3. hand' \in [Shards -> Hands]
    BY <1>1, <1>2, <1>4, Zenon
  <2>4. QED BY <1>1, <2>2, <2>3, Zenon DEF RoutingIInv, RoutingTypes, sessionVars, rxVars
<1>6. Queued'
  <2>1. ASSUME NEW t \in Shards
        PROVE  (\A i \in 1..Len(shardQ[t]) : Requested(t, shardQ[t][i]))'
    <3>1. \A i \in 1..Len(shardQ[t]) : Requested(t, shardQ[t][i])
      BY Zenon DEF RoutingIInv, Queued
    <3>2. SUFFICES ASSUME NEW i \in 1..Len(shardQ'[t]), NEW q, q = shardQ'[t][i]
                   PROVE  Requested(t, q)
      BY StableRecords, Zenon
    <3>3. CASE t = s
      <4>1. shardQ'[t] = Tail(shardQ[t]) /\ shardQ[t] \in Seq(Packet) /\ shardQ[t] # << >>
        BY <1>1, <1>2, <3>3, Zenon
      <4>2. \E j \in 1..Len(shardQ[t]) : shardQ'[t][i] = shardQ[t][j]
        BY <3>2, <4>1, TailElements
      <4>3. QED BY <3>1, <3>2, <4>2, Zenon
    <3>4. CASE t # s
      BY <1>1, <1>2, <3>1, <3>2, <3>4, Zenon
    <3>5. QED BY <3>3, <3>4, Zenon
  <2>2. QED BY <2>1, Zenon DEF Queued
<1>7. hand'[s] = h /\ \A t \in Shards : t # s => hand'[t] = hand[t]
  BY <1>1, <1>2, Zenon
<1>8. ASSUME NEW t \in Shards PROVE Handled(t)'
  <2>1. CASE t = s
    <3>1. Requested(s, req)'
      BY <1>3, StableRecords, Zenon
    <3>2. /\ hand'[t].pc = "snapshot" /\ hand'[t].req = req
          /\ hand'[t].op = HandleEvent(req)
      BY <1>7, <2>1
    <3>3. QED BY <2>1, <3>1, <3>2, Zenon DEF Handled
  <2>2. CASE t # s
    BY <1>1, <1>7, <2>2, KeepHandled, Zenon DEF RoutingIInv, Handled, sessionVars
  <2>3. QED BY <2>1, <2>2, Zenon
<1>9. AnswerMatchesState'
  BY <1>1, <1>7 DEF RoutingIInv, AnswerMatchesState, sessionVars
<1>10. Owners' /\ FdMapConsistent'
  BY <1>1, KeepOwners, KeepMaps, Zenon DEF sessionVars
<1>11. Ingress' /\ (\A a \in tx : AnswerOK(a))'
  BY <1>1, KeepIngress, KeepAnswers, Zenon
<1>12. QED BY <1>5, <1>6, <1>8, <1>9, <1>10, <1>11, Zenon DEF RoutingIInv

LEMMA SnapshotStep ==
  ASSUME RoutingIInv, [RoutingNext]_routingVars, NEW s \in Shards, GetTxSnapshot(s)
  PROVE  RoutingIInv'
<1>0. PICK h : h = hand[s]
  BY Zenon
<1>1. PICK g : g = IF h.req.sid \in DOMAIN m_sessions
                     THEN [pc |-> "state", op |-> h.op, req |-> h.req, snap |-> m_sessions[h.req.sid]]
                     ELSE Idle
  BY Zenon
<1>2. /\ UNCHANGED <<sessionVars, conn, rxVars, shardQ, tx, creators>>
      /\ h.pc = "snapshot" /\ hand' = [hand EXCEPT ![s] = g]
  BY <1>0, <1>1, Zenon DEF GetTxSnapshot, histVars
<1>3. h \in [pc : {"snapshot"}, op : Ops, req : Packet] /\ hand \in [Shards -> Hands]
  BY <1>0, <1>2, InHand, Zenon
<1>4. m_sessions \in [DOMAIN m_sessions -> Session]
  BY Zenon DEF RoutingIInv, RoutingTypes
<1>5. g \in Hands
  BY <1>1, <1>3, <1>4, Zenon DEF Hands
<1>6. RoutingTypes'
  <2>1. hand' \in [Shards -> Hands]
    BY <1>2, <1>3, <1>5, Zenon
  <2>2. QED BY <1>2, <2>1, Zenon DEF RoutingIInv, RoutingTypes, sessionVars, rxVars
<1>7. hand'[s] = g /\ \A t \in Shards : t # s => hand'[t] = hand[t]
  BY <1>2, <1>3, Zenon
<1>8. ASSUME NEW t \in Shards PROVE Handled(t)'
  <2>1. CASE t = s /\ h.req.sid \in DOMAIN m_sessions
    <3>1. /\ hand'[t].pc = "state" /\ hand'[t].op = h.op /\ hand'[t].req = h.req
          /\ hand'[t].snap = m_sessions[h.req.sid]
      <4>1. g = [pc |-> "state", op |-> h.op, req |-> h.req, snap |-> m_sessions[h.req.sid]]
        BY ONLY <1>1, <2>1, Zenon
      <4>2. /\ g.pc = "state" /\ g.op = h.op /\ g.req = h.req
            /\ g.snap = m_sessions[h.req.sid]
        BY ONLY <4>1, Zenon
      <4>3. QED BY ONLY <1>7, <2>1, <4>2, Zenon
    <3>2. Requested(s, h.req) /\ h.op = HandleEvent(h.req)
      BY <1>0, <1>2, Zenon DEF RoutingIInv, Handled
    <3>3. OwnerIs(h.req.sid, m_sessions[h.req.sid].tlsFd)
      BY <2>1, Zenon DEF RoutingIInv, Owners
    <3>4. h.op = "LOBBY_RES" => m_sessions[h.req.sid].tcpFd \in TcpFds
      <4>1. h.op = "LOBBY_RES" => h.req.op = "LOBBY"
        BY <1>3, <3>2, Zenon DEF HandleEvent, LoginReqEvent, LobbyEntryReqEvent, PingReqEvent, Packet
      <4>2. QED BY <2>1, <3>2, <4>1, Zenon DEF Requested, Lobbied
    <3>5. Requested(s, h.req)' /\ OwnerIs(h.req.sid, m_sessions[h.req.sid].tlsFd)'
      BY <1>2, <3>2, <3>3, StableRecords, Stable, Zenon DEF sessionVars
    <3>6. h.req.sid \in DOMAIN m_sessions'
      BY <1>2, <2>1, Zenon DEF sessionVars
    <3>7. QED BY <1>2, <2>1, <3>1, <3>2, <3>4, <3>5, <3>6, Zenon DEF Handled, sessionVars
  <2>2. CASE t = s /\ h.req.sid \notin DOMAIN m_sessions
    <3>1. g = Idle /\ Idle.pc = "idle"
      BY ONLY <1>1, <2>2, Zenon DEF Idle
    <3>2. hand'[t].pc = "idle"
      BY ONLY <1>7, <2>2, <3>1, Zenon
    <3>3. QED BY ONLY <3>2, Zenon DEF Handled
  <2>3. CASE t # s
    BY <1>2, <1>7, <2>3, KeepHandled, Zenon DEF RoutingIInv, Handled, sessionVars
  <2>4. QED BY <2>1, <2>2, <2>3, Zenon
<1>9. AnswerMatchesState'
  <2>1. g.pc # "send"
    BY <1>1, Zenon DEF Idle
  <2>2. QED BY <1>2, <1>7, <2>1 DEF RoutingIInv, AnswerMatchesState, sessionVars
<1>10. Owners' /\ FdMapConsistent'
  BY <1>2, KeepOwners, KeepMaps, Zenon DEF sessionVars
<1>11. Ingress' /\ Queued' /\ (\A a \in tx : AnswerOK(a))'
  BY <1>2, KeepIngress, KeepQueued, KeepAnswers, Zenon
<1>12. QED BY <1>6, <1>8, <1>9, <1>10, <1>11, Zenon DEF RoutingIInv

LEMMA SendStep ==
  ASSUME RoutingIInv, [RoutingNext]_routingVars, NEW s \in Shards, Send(s) PROVE RoutingIInv'
<1>0. PICK h : h = hand[s]
  BY Zenon
<1>1. PICK a : a = [op |-> h.op, header |-> Header(h), dst |-> Destination(h),
                    gen |-> IF Destination(h) \in TlsFds THEN conn[Destination(h)].gen ELSE 0,
                    req |-> h.req]
  BY Zenon
<1>2. /\ UNCHANGED <<sessionVars, conn, rxVars, shardQ, creators>>
      /\ h.pc = "send" /\ tx' = tx \cup {a} /\ hand' = [hand EXCEPT ![s] = Idle]
  BY <1>0, <1>1, Zenon DEF Send
<1>3. /\ h \in [pc : {"state", "send"}, op : Ops, req : Packet, snap : Session]
      /\ hand \in [Shards -> Hands]
  BY <1>0, <1>2, InHand, Zenon
<1>4. RoutingTypes'
  <2>1. hand' \in [Shards -> Hands]
    BY <1>2, <1>3, Zenon DEF Hands
  <2>2. QED BY <1>2, <2>1, Zenon DEF RoutingIInv, RoutingTypes, sessionVars, rxVars
<1>5. hand'[s] = Idle /\ \A t \in Shards : t # s => hand'[t] = hand[t]
  BY <1>2, <1>3, Zenon
<1>6. ASSUME NEW t \in Shards PROVE Handled(t)'
  <2>1. CASE t = s
    BY <1>5, <2>1 DEF Handled, Idle
  <2>2. CASE t # s
    BY <1>2, <1>5, <2>2, KeepHandled, Zenon DEF RoutingIInv, Handled, sessionVars
  <2>3. QED BY <2>1, <2>2, Zenon
<1>7. AnswerMatchesState'
  BY <1>2, <1>5 DEF RoutingIInv, AnswerMatchesState, sessionVars, Idle
<1>8. AnswerOK(a)
  <2>1. /\ Requested(s, h.req) /\ h.op = HandleEvent(h.req) /\ OwnerIs(h.req.sid, h.snap.tlsFd)
        /\ h.op = "LOBBY_RES" => h.snap.tcpFd \in TcpFds
    BY <1>0, <1>2, Zenon DEF RoutingIInv, Handled
  <2>2. /\ a.op = h.op /\ a.req = h.req /\ a.header = Header(h) /\ a.dst = Destination(h)
    BY <1>1, Zenon
  <2>3. CASE h.op = "LOBBY_RES"
    BY <2>1, <2>2, <2>3, Zenon DEF AnswerOK, Destination
  <2>4. CASE h.op \in {"LOGIN_SUCCESS", "LOGIN_FAIL"}
    <3>1. h.req.op = "LOGIN"
      BY <1>3, <2>1, <2>4
         DEF HandleEvent, LoginReqEvent, LobbyEntryReqEvent, PingReqEvent, Packet
    <3>2. a.dst = h.snap.tlsFd
      BY <2>2, <2>4, Zenon DEF Destination
    <3>3. h.snap.tlsFd = h.req.src
      BY <2>1, <3>1, OneOwner, Zenon DEF Requested
    <3>4. CASE h.op = "LOGIN_FAIL"
      BY <2>2, <3>2, <3>3, <3>4, Zenon DEF AnswerOK, Header, LoginFailHeader
    <3>5. CASE h.op = "LOGIN_SUCCESS"
      <4>1. a.header = h.req.sid
        BY <2>2, <3>5, Zenon DEF Header, LoginSuccessHeader
      <4>2. Authentic(h.req.sid)
        <5>1. h.req.sid \in DOMAIN m_sessions /\ m_sessions[h.req.sid].state = "AUTH"
          BY <1>0, <1>2, <3>5, Zenon DEF RoutingIInv, AnswerMatchesState
        <5>2. QED BY <2>1, <5>1, Zenon DEF Authentic, Requested
      <4>3. h.req.sid \in Nat
        BY <1>3, Zenon DEF Packet
      <4>4. QED BY <2>1, <2>2, <3>2, <3>3, <3>5, <4>1, <4>2, <4>3, Zenon DEF AnswerOK
    <3>6. QED BY <2>4, <3>4, <3>5, Zenon
  <2>5. CASE h.op = "PING_RES"
    BY <2>2, <2>5, Zenon DEF AnswerOK
  <2>6. QED BY <1>3, <2>3, <2>4, <2>5, Zenon DEF Ops
<1>9. (\A b \in tx : AnswerOK(b))'
  BY <1>2, <1>8, StableRecords, Zenon DEF RoutingIInv
<1>10. Owners' /\ FdMapConsistent'
  BY <1>2, KeepOwners, KeepMaps, Zenon DEF sessionVars
<1>11. Ingress' /\ Queued'
  BY <1>2, KeepIngress, KeepQueued, Zenon
<1>12. QED BY <1>4, <1>6, <1>7, <1>9, <1>10, <1>11, Zenon DEF RoutingIInv

\* The session that a shard is about to change is live, and its request is
\* in no other hand: this is where selectShard matters.
LEMMA OwnShard ==
  ASSUME RoutingIInv, NEW s \in Shards, hand[s].pc = "state", NEW t \in Shards, t # s,
         hand[t].pc # "idle"
  PROVE  hand[t].req.sid # hand[s].req.sid
BY Zenon DEF RoutingIInv, Handled, Requested

\* What ApplyState does to the maps.
LEMMA AppliedState ==
  ASSUME RoutingIInv, NEW s \in Shards, ApplyState(s), NEW sid, sid = hand[s].req.sid
  PROVE  /\ hand[s].op = "LOGIN_FAIL" => DOMAIN m_sessions' = DOMAIN m_sessions \ {sid}
         /\ hand[s].op # "LOGIN_FAIL" =>
              DOMAIN m_sessions' = DOMAIN m_sessions /\ UNCHANGED m_tlsFdToSessionId
         /\ m_sessions' \in [DOMAIN m_sessions' -> Session]
         /\ \A x \in DOMAIN m_sessions' : m_sessions'[x].tlsFd = m_sessions[x].tlsFd
         /\ \A x \in DOMAIN m_sessions' : x # sid => m_sessions'[x] = m_sessions[x]
         /\ hand[s].op = "LOGIN_SUCCESS" => m_sessions'[sid].state = "AUTH"
         /\ hand[s].op = "LOBBY_RES" => m_sessions'[sid].state = "IN_WORLD"
         /\ hand[s].op = "PING_RES" => UNCHANGED m_sessions
         /\ hand[s].op \in Ops /\ sid \in DOMAIN m_sessions
<1>1. /\ m_sessions \in [DOMAIN m_sessions -> Session]
      /\ hand[s].op \in Ops /\ hand[s].pc = "state"
  BY InHand, Zenon DEF ApplyState, RoutingIInv, RoutingTypes
<1>2. sid \in DOMAIN m_sessions
  BY <1>1, Zenon DEF RoutingIInv, Handled
<1>3. ASSUME NEW st \in States, SetState(sid, st)
      PROVE  /\ DOMAIN m_sessions' = DOMAIN m_sessions /\ UNCHANGED m_tlsFdToSessionId
             /\ m_sessions' \in [DOMAIN m_sessions' -> Session]
             /\ \A x \in DOMAIN m_sessions' : m_sessions'[x].tlsFd = m_sessions[x].tlsFd
             /\ \A x \in DOMAIN m_sessions' : x # sid => m_sessions'[x] = m_sessions[x]
             /\ m_sessions'[sid].state = st
  <2>1. PICK r : r = [m_sessions[sid] EXCEPT !.state = st]
    BY Zenon
  <2>2. r \in Session /\ r.state = st /\ r.tlsFd = m_sessions[sid].tlsFd
    BY <1>1, <1>2, <2>1, Zenon DEF Session
  <2>3. m_sessions' = [x \in DOMAIN m_sessions |-> IF x = sid THEN r ELSE m_sessions[x]]
    BY <1>3, <2>1, Zenon DEF SetState
  <2>4. UNCHANGED m_tlsFdToSessionId
    BY <1>3, Zenon DEF SetState
  <2>5. QED BY <1>1, <1>2, <2>2, <2>3, <2>4, Zenon
<1>4. CASE hand[s].op = "LOGIN_SUCCESS"
  <2>1. SetState(sid, "AUTH")
    BY <1>4, Zenon DEF ApplyState
  <2>2. QED BY <1>1, <1>2, <1>3, <1>4, <2>1, Zenon DEF States
<1>5. CASE hand[s].op = "LOBBY_RES"
  <2>1. SetState(sid, "IN_WORLD")
    BY <1>5, Zenon DEF ApplyState
  <2>2. QED BY <1>1, <1>2, <1>3, <1>5, <2>1, Zenon DEF States
<1>6. CASE hand[s].op = "LOGIN_FAIL"
  <2>1. m_sessions' = Restrict(m_sessions, DOMAIN m_sessions \ {sid})
    BY <1>2, <1>6, Zenon DEF ApplyState, Erase
  <2>2. QED BY <1>1, <1>2, <1>6, <2>1, Zenon DEF Restrict
<1>7. CASE hand[s].op = "PING_RES"
  BY <1>1, <1>2, <1>7, Zenon DEF ApplyState, sessionVars
<1>8. QED BY <1>1, <1>4, <1>5, <1>6, <1>7, Zenon DEF Ops

LEMMA ApplyStateStep ==
  ASSUME RoutingIInv, [RoutingNext]_routingVars, NEW s \in Shards, ApplyState(s)
  PROVE  RoutingIInv'
<1>0. PICK h, sid : h = hand[s] /\ sid = h.req.sid
  BY Zenon
<1> DEFINE g == [h EXCEPT !.pc = "send"]
<1>1. /\ UNCHANGED <<conn, rxVars, shardQ, tx, creators>>
      /\ h.pc = "state" /\ hand' = [hand EXCEPT ![s] = g]
  BY <1>0, Zenon DEF ApplyState, histVars
<1>2. /\ h \in [pc : {"state", "send"}, op : Ops, req : Packet, snap : Session]
      /\ hand \in [Shards -> Hands]
  BY <1>0, <1>1, InHand, Zenon
<1>3. g \in Hands /\ g.pc = "send" /\ g.op = h.op /\ g.req = h.req /\ g.snap = h.snap
  BY <1>2, Zenon DEF Hands
<1> HIDE DEF g
<1>4. hand'[s] = g /\ (\A t \in Shards : t # s => hand'[t] = hand[t]) /\ hand' \in [Shards -> Hands]
  BY <1>1, <1>2, <1>3, Zenon
<1>5. /\ h.op = "LOGIN_FAIL" => DOMAIN m_sessions' = DOMAIN m_sessions \ {sid}
      /\ h.op # "LOGIN_FAIL" =>
           DOMAIN m_sessions' = DOMAIN m_sessions /\ UNCHANGED m_tlsFdToSessionId
      /\ m_sessions' \in [DOMAIN m_sessions' -> Session]
      /\ \A x \in DOMAIN m_sessions' : m_sessions'[x].tlsFd = m_sessions[x].tlsFd
      /\ \A x \in DOMAIN m_sessions' : x # sid => m_sessions'[x] = m_sessions[x]
      /\ h.op = "LOGIN_SUCCESS" => m_sessions'[sid].state = "AUTH"
      /\ h.op = "LOBBY_RES" => m_sessions'[sid].state = "IN_WORLD"
      /\ sid \in DOMAIN m_sessions
  BY <1>0, AppliedState, Zenon
<1>6. DOMAIN m_sessions' \subseteq DOMAIN m_sessions
  BY <1>5, Zenon
<1>7. h.op = "LOGIN_FAIL" =>
        m_tlsFdToSessionId' = [f \in DOMAIN m_tlsFdToSessionId \ {m_sessions[sid].tlsFd} |->
                                 m_tlsFdToSessionId[f]]
  BY <1>0, <1>5, Zenon DEF ApplyState, Erase, Restrict
<1>8. RoutingTypes'
  <2>1. /\ m_tlsFdToSessionId' \in [DOMAIN m_tlsFdToSessionId' -> Sids]
        /\ DOMAIN m_tlsFdToSessionId' \subseteq TlsFds
    <3>1. /\ m_tlsFdToSessionId \in [DOMAIN m_tlsFdToSessionId -> Sids]
          /\ DOMAIN m_tlsFdToSessionId \subseteq TlsFds
      BY Zenon DEF RoutingIInv, RoutingTypes
    <3>2. CASE h.op = "LOGIN_FAIL"
      BY <1>7, <3>1, <3>2, Zenon
    <3>3. CASE h.op # "LOGIN_FAIL"
      BY <1>5, <3>1, <3>3, Zenon
    <3>4. QED BY <3>2, <3>3, Zenon
  <2>2. QED BY <1>1, <1>4, <1>5, <2>1, Zenon DEF RoutingIInv, RoutingTypes, rxVars
<1>9. Owners'
  <2>1. \A c, d \in creators' : c.sid = d.sid => c.by[1] = d.by[1]
    BY <1>1, Zenon DEF RoutingIInv, Owners
  <2>2. DOMAIN m_sessions' \subseteq Issued'
    BY <1>6, Stable, Zenon DEF RoutingIInv, Owners
  <2>3. ASSUME NEW x \in DOMAIN m_sessions' PROVE OwnerIs(x, m_sessions[x].tlsFd)'
    <3>1. OwnerIs(x, m_sessions[x].tlsFd)
      BY <1>6, Zenon DEF RoutingIInv, Owners
    <3>2. PICK fd : fd = m_sessions[x].tlsFd
      BY Zenon
    <3>3. OwnerIs(x, fd)'
      BY <3>1, <3>2, Stable, Zenon
    <3>4. m_sessions'[x].tlsFd = fd
      BY <1>5, <3>2, Zenon
    <3>5. QED BY <3>3, <3>4, Zenon
  <2>4. QED BY <2>1, <2>2, <2>3, Zenon DEF Owners
<1>10. FdMapConsistent'
  <2>1. FdMapConsistent
    BY Zenon DEF RoutingIInv
  <2>2. CASE h.op = "LOGIN_FAIL"
    BY <1>5, <1>7, <2>1, <2>2 DEF FdMapConsistent
  <2>3. CASE h.op # "LOGIN_FAIL"
    BY <1>5, <2>1, <2>3, Zenon DEF FdMapConsistent
  <2>4. QED BY <2>2, <2>3, Zenon
<1>11. ASSUME NEW t \in Shards, t # s, hand[t].pc # "idle" PROVE hand[t].req.sid # sid
  BY <1>0, <1>1, <1>11, OwnShard, Zenon
<1>12. ASSUME NEW t \in Shards PROVE Handled(t)'
  <2>1. CASE t = s
    <3>1. /\ Requested(s, h.req) /\ h.op = HandleEvent(h.req)
          /\ OwnerIs(h.req.sid, h.snap.tlsFd)
          /\ h.op = "LOBBY_RES" => h.snap.tcpFd \in TcpFds
      BY <1>0, <1>1, Zenon DEF RoutingIInv, Handled
    <3>2. Requested(s, h.req)' /\ OwnerIs(h.req.sid, h.snap.tlsFd)'
      BY <3>1, StableRecords, Stable, Zenon
    <3>3. /\ hand'[t].pc = "send" /\ hand'[t].op = h.op /\ hand'[t].req = h.req
          /\ hand'[t].snap = h.snap
      BY <1>3, <1>4, <2>1, Zenon
    <3>4. QED BY <2>1, <3>1, <3>2, <3>3, Zenon DEF Handled
  <2>2. CASE t # s
    <3>1. hand[t].pc = "state" => hand[t].req.sid \in DOMAIN m_sessions'
      <4>1. hand[t].pc = "state" => hand[t].req.sid \in DOMAIN m_sessions
        BY Zenon DEF RoutingIInv, Handled
      <4>2. QED BY <1>5, <1>11, <2>2, <4>1, Zenon
    <3>2. QED BY <1>4, <2>2, <3>1, KeepHandled, Zenon
  <2>3. QED BY <2>1, <2>2, Zenon
<1>13. AnswerMatchesState'
  <2>1. ASSUME NEW t \in Shards, t # s, hand[t].pc = "send"
        PROVE  /\ hand[t].req.sid # sid
               /\ hand[t].req.sid \in DOMAIN m_sessions' <=> hand[t].req.sid \in DOMAIN m_sessions
    BY <1>5, <1>11, <2>1, Zenon
  <2>2. /\ h.op = "LOGIN_SUCCESS" => sid \in DOMAIN m_sessions' /\ m_sessions'[sid].state = "AUTH"
        /\ h.op = "LOGIN_FAIL" => sid \notin DOMAIN m_sessions'
        /\ h.op = "LOBBY_RES" => sid \in DOMAIN m_sessions' /\ m_sessions'[sid].state = "IN_WORLD"
    BY <1>5, Zenon
  <2>3. hand'[s].op = h.op /\ hand'[s].req.sid = sid
    BY <1>0, <1>3, <1>4, Zenon
  <2>4. QED BY <1>4, <1>5, <2>1, <2>2, <2>3 DEF RoutingIInv, AnswerMatchesState
<1>14. Ingress' /\ Queued' /\ (\A a \in tx : AnswerOK(a))'
  BY <1>1, KeepIngress, KeepQueued, KeepAnswers, Zenon
<1>15. QED BY <1>8, <1>9, <1>10, <1>12, <1>13, <1>14, Zenon DEF RoutingIInv

LEMMA RoutingNextIInv == RoutingIInv /\ [RoutingNext]_routingVars => RoutingIInv'
<1> SUFFICES ASSUME RoutingIInv, [RoutingNext]_routingVars PROVE RoutingIInv'
  BY Zenon
<1>1. ASSUME NEW w \in Sources, CheckAndBind(w) PROVE RoutingIInv'
  BY <1>1, BoundStep, NotBoundStep, Zenon
<1>2. QED
  BY <1>1, ArriveStep, CreateFailsStep, CreateStep, DispatchStep, ConnStep, HandleRequestStep,
     SnapshotStep, ApplyStateStep, SendStep, UnchangedStep DEF RoutingNext

LEMMA RoutingIInvInvariant == RoutingSpec => []RoutingIInv
BY RoutingInitIInv, RoutingNextIInv, PTL DEF RoutingSpec

(***************************************************************************)
(* SessionManager's two maps stay inverse to each other, whatever workers  *)
(* and shards do between two locked calls.                                 *)
(***************************************************************************)
THEOREM RoutingFdMapConsistent == RoutingSpec => []FdMapConsistent
<1>1. RoutingIInv => FdMapConsistent
  BY Zenon DEF RoutingIInv
<1>2. QED BY <1>1, RoutingIInvInvariant, PTL

(***************************************************************************)
(* Types of SessionManager's maps and of the queues, and every event of a  *)
(* session is at one shard.                                                *)
(***************************************************************************)
THEOREM RoutingTypeCorrect == RoutingSpec => []RoutingTypeOK
<1>1. RoutingIInv => RoutingTypeOK
  <2> SUFFICES ASSUME RoutingIInv PROVE RoutingTypeOK
    BY Zenon
  <2>1. /\ DOMAIN m_sessions \subseteq Sids /\ DOMAIN m_tlsFdToSessionId \subseteq TlsFds
        /\ \A sid \in DOMAIN m_sessions :
             /\ m_sessions[sid].state \in States /\ m_sessions[sid].tlsFd \in TlsFds
             /\ m_sessions[sid].tcpFd \in TcpFds \cup {NoFd}
             /\ m_sessions[sid].connInfo \in Sources
    BY DEF RoutingIInv, RoutingTypes, Owners, Issued, Session
  <2>2. \A w \in Sources : bound[w] \in {0} \cup Sids /\ (bound[w] # 0 => rx[w] # << >>)
    BY Zenon DEF RoutingIInv, RoutingTypes, Ingress
  <2>3. ASSUME NEW s \in Shards
        PROVE  /\ hand[s].pc \in {"idle", "snapshot", "state", "send"}
               /\ \A i \in DOMAIN shardQ[s] : selectShard(shardQ[s][i].sid) = s
    <3>1. hand[s] \in Hands /\ shardQ[s] \in Seq(Packet)
      BY Zenon DEF RoutingIInv, RoutingTypes
    <3>2. hand[s].pc \in {"idle", "snapshot", "state", "send"}
      BY <3>1 DEF Hands, Idle
    <3>3. DOMAIN shardQ[s] = 1..Len(shardQ[s])
      BY <3>1, LenProperties, Zenon
    <3>4. QED BY <3>2, <3>3, Zenon DEF RoutingIInv, Queued, Requested
  <2>4. QED BY <2>1, <2>2, <2>3, Zenon DEF RoutingTypeOK, States
<1>2. QED BY <1>1, RoutingIInvInvariant, PTL

(***************************************************************************)
(* TxRouter announces a state only while the session is in it.             *)
(***************************************************************************)
THEOREM RoutingAnswerMatchesState == RoutingSpec => []AnswerMatchesState
<1>1. RoutingIInv => AnswerMatchesState
  BY Zenon DEF RoutingIInv
<1>2. QED BY <1>1, RoutingIInvInvariant, PTL

(***************************************************************************)
(* PacketBuilder addresses login answers to the descriptor the request     *)
(* came from, and lobby answers to a TCP descriptor.                       *)
(***************************************************************************)
THEOREM RoutingAnswerToRequester == RoutingSpec => []AnswerToRequester
<1>1. RoutingIInv => AnswerToRequester
  BY Zenon DEF RoutingIInv, AnswerToRequester, AnswerOK
<1>2. QED BY <1>1, RoutingIInvInvariant, PTL

\* Only three kinds of steps show in the life of a session.
LEMMA LifeUntouched ==
  ASSUME RoutingIInv, UNCHANGED creators, DOMAIN m_sessions' = DOMAIN m_sessions,
         \A x \in DOMAIN m_sessions : m_sessions'[x].state = m_sessions[x].state
  PROVE  UNCHANGED LifeOf
BY Zenon DEF LifeOf, Issued

LEMMA LifeOfApplyState ==
  ASSUME RoutingIInv, NEW s \in Shards, ApplyState(s) PROVE [Life!LifeNext]_LifeOf
<1>0. PICK h, sid : h = hand[s] /\ sid = h.req.sid
  BY Zenon
<1>1. /\ h.op = "LOGIN_FAIL" => DOMAIN m_sessions' = DOMAIN m_sessions \ {sid}
      /\ h.op # "LOGIN_FAIL" => DOMAIN m_sessions' = DOMAIN m_sessions
      /\ \A x \in DOMAIN m_sessions' : x # sid => m_sessions'[x] = m_sessions[x]
      /\ h.op = "LOGIN_SUCCESS" => m_sessions'[sid].state = "AUTH"
      /\ h.op = "LOBBY_RES" => m_sessions'[sid].state = "IN_WORLD"
      /\ h.op = "PING_RES" => UNCHANGED m_sessions
      /\ h.op \in Ops /\ sid \in DOMAIN m_sessions
  BY <1>0, AppliedState, Zenon
<1>2. UNCHANGED creators /\ UNCHANGED Issued
  BY Zenon DEF ApplyState, histVars, Issued
<1>3. sid \in Issued /\ sid \in Sids /\ m_sessions[sid].state \in States
  BY <1>1, IssuedIds, Zenon DEF RoutingIInv, Owners, RoutingTypes, Session
<1>4. LifeOf[sid] = m_sessions[sid].state
  BY <1>1, <1>3, Zenon DEF LifeOf
<1>5. CASE h.op = "LOGIN_SUCCESS"
  <2>1. LifeOf' = [LifeOf EXCEPT ![sid] = "AUTH"]
    BY <1>1, <1>2, <1>3, <1>5, Zenon DEF LifeOf
  <2>2. QED BY <1>3, <1>4, <2>1, Zenon DEF Life!LifeNext, Life!Authenticate, Life!Become, States
<1>6. CASE h.op = "LOBBY_RES"
  <2>1. LifeOf' = [LifeOf EXCEPT ![sid] = "IN_WORLD"]
    BY <1>1, <1>2, <1>3, <1>6, Zenon DEF LifeOf
  <2>2. m_sessions[sid].state # "PRE_AUTH"
    <3>1. h.pc = "state" /\ h.req \in Packet
      BY <1>0, InHand, Zenon DEF ApplyState
    <3>2. Requested(s, h.req) /\ h.op = HandleEvent(h.req)
      BY <1>0, <3>1, Zenon DEF RoutingIInv, Handled
    <3>3. h.req.op = "LOBBY"
      BY <1>6, <3>1, <3>2
         DEF HandleEvent, LoginReqEvent, LobbyEntryReqEvent, PingReqEvent, Packet
    <3>4. QED BY <1>0, <1>1, <3>2, <3>3, Zenon DEF Requested, Lobbied, Authentic
  <2>3. QED BY <1>3, <1>4, <2>1, <2>2, Zenon DEF Life!LifeNext, Life!EnterWorld, Life!Become, States
<1>7. CASE h.op = "LOGIN_FAIL"
  <2>1. LifeOf' = [LifeOf EXCEPT ![sid] = "gone"]
    BY <1>1, <1>2, <1>3, <1>7, Zenon DEF LifeOf
  <2>2. QED BY <1>3, <1>4, <2>1, Zenon DEF Life!LifeNext, Life!End, Life!Become, States
<1>8. CASE h.op = "PING_RES"
  BY <1>1, <1>2, <1>8, Zenon DEF LifeOf
<1>9. QED BY <1>1, <1>5, <1>6, <1>7, <1>8, Zenon DEF Ops

LEMMA LifeOfCreate ==
  ASSUME RoutingIInv, NEW w \in Sources, NEW sid \in Sids, Create(w, sid)
  PROVE  Life!LifeNext
<1>1. /\ sid \notin Issued /\ sid \notin DOMAIN m_sessions
      /\ DOMAIN m_sessions' = DOMAIN m_sessions \cup {sid}
      /\ Issued' = Issued \cup {sid}
      /\ \A x \in DOMAIN m_sessions : m_sessions'[x] = m_sessions[x]
  <2>1. PICK c : c.sid = sid /\ creators' = creators \cup {c}
    BY Zenon DEF Create
  <2>2. Issued' = Issued \cup {sid}
    BY <2>1, Zenon DEF Issued
  <2>3. sid \notin Issued /\ sid \notin DOMAIN m_sessions
    BY Zenon DEF Create, RoutingIInv, Owners
  <2>4. QED BY <2>2, <2>3, Zenon DEF Create
<1>2. m_sessions'[sid].state = "PRE_AUTH"
  <2>1. Head(rx[w]) \in Packet
    BY FirstPacket, Zenon DEF Create
  <2>2. Bind(NewSession, Head(rx[w])).state = "PRE_AUTH"
    BY <2>1, Zenon DEF Bind, NewSession
  <2>3. QED BY <2>2, Zenon DEF Create
<1>3. LifeOf[sid] = "none" /\ LifeOf' = [LifeOf EXCEPT ![sid] = "PRE_AUTH"]
  BY <1>1, <1>2, Zenon DEF LifeOf
<1>4. QED BY <1>3, Zenon DEF Life!LifeNext, Life!Begin, Life!Become

LEMMA LifeOfCheckAndBind ==
  ASSUME RoutingIInv, NEW w \in Sources, CheckAndBind(w) PROVE UNCHANGED LifeOf
<1>0. PICK pkt, sid : pkt = Head(rx[w]) /\ sid = pkt.sid
  BY Zenon
<1>1. UNCHANGED creators
  BY Zenon DEF CheckAndBind, histVars
<1>2. CASE sid \in DOMAIN m_sessions
  <2>1. m_sessions' = [m_sessions EXCEPT ![sid] = Bind(m_sessions[sid], pkt)]
    BY <1>0, <1>2, Zenon DEF CheckAndBind
  <2>2. pkt \in Packet /\ m_sessions \in [DOMAIN m_sessions -> Session]
    BY <1>0, FirstPacket, Zenon DEF CheckAndBind, RoutingIInv, RoutingTypes
  <2>3. Bind(m_sessions[sid], pkt).state = m_sessions[sid].state
    BY <1>2, <2>2, Zenon DEF Bind, Session
  <2>4. QED BY <1>1, <1>2, <2>1, <2>2, <2>3, LifeUntouched, Zenon
<1>3. CASE sid \notin DOMAIN m_sessions
  BY <1>0, <1>1, <1>3, LifeUntouched, Zenon DEF CheckAndBind
<1>4. QED BY <1>2, <1>3, Zenon

(***************************************************************************)
(* RxRouter, SessionManager, the contexts and TxRouter together implement  *)
(* the life of a session: no interleaving of their calls skips the login,  *)
(* revives an erased id or touches a second session.                       *)
(***************************************************************************)
THEOREM RoutingRefinesLife == RoutingSpec => ImplementsSessionLife
<1>1. RoutingInit => Life!LifeInit
  BY DEF RoutingInit, Life!LifeInit, LifeOf, Issued
<1>2. RoutingIInv /\ [RoutingNext]_routingVars => [Life!LifeNext]_LifeOf
  <2> SUFFICES ASSUME RoutingIInv, [RoutingNext]_routingVars PROVE [Life!LifeNext]_LifeOf
    BY Zenon
  <2>1. CASE UNCHANGED <<m_sessions, creators>>
    BY <2>1, LifeUntouched, Zenon
  <2>2. QED BY <2>1, LifeOfApplyState, LifeOfCreate, LifeOfCheckAndBind, Zenon
            DEF RoutingNext, routingVars, sessionVars, histVars, Arrive, CreateFails, Dispatch,
                CloseTls, OpenTls, HandleRequest, GetTxSnapshot, Send
<1>3. QED BY <1>1, <1>2, RoutingIInvInvariant, PTL
          DEF RoutingSpec, ImplementsSessionLife, Life!LifeSpec
=============================================================================
