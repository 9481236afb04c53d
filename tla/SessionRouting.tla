--------------------------- MODULE SessionRouting ---------------------------
(***************************************************************************)
(* Sessions from ingress to egress.  Protocol workers run                  *)
(* RxRouter::handlePacket: they create or bind a session in SessionManager *)
(* and then dispatch an event to the session's shard.  A shard handles one *)
(* event at a time; its answer goes through TxRouter::handlePacket, which  *)
(* takes a snapshot of the session, then changes the session, then builds  *)
(* and enqueues the packet.  Each SessionManager call holds m_lock and is  *)
(* one step; nothing is locked between two calls.                          *)
(*                                                                         *)
(* Clients follow the protocol of packet/ParsedPacketTypes.h and           *)
(* simulator/Client.cpp: LOGIN over TLS, with session id 0 or with the id  *)
(* that this connection was given, LOBBY_ENTRY over TCP and PING over UDP  *)
(* with the id a login answer has in its header, which is 0 if the login   *)
(* failed.  TLS connections come and go, and the kernel reuses their       *)
(* descriptors.                                                            *)
(***************************************************************************)
EXTENDS Integers, Sequences, FiniteSets, Functions

CONSTANTS TlsFds, TcpFds, UdpPeers,   \* the sources packets come from
          Sids,         \* session ids the generator may draw, without 0
          SidLow,       \* 2^32: selectShard drops the low word of the id
          WorkerCount,  \* shards
          MaxPackets,   \* bound: packets that arrive in a behaviour
          MaxConns      \* bound: TLS connections per descriptor

ASSUME RoutingAssumption ==
  /\ TlsFds \cap TcpFds = {} /\ UdpPeers \cap (TlsFds \cup TcpFds) = {}
  /\ "-1" \notin TlsFds \cup TcpFds \cup UdpPeers
  /\ Sids \subseteq Nat \ {0}
  /\ SidLow \in Nat \ {0} /\ WorkerCount \in Nat \ {0}

VARIABLES m_sessions,          \* sid -> session
          m_tlsFdToSessionId,  \* fd -> sid
          conn,      \* TLS fd -> [open, gen]: gen numbers its connections
          rx,        \* source -> packets waiting in its worker's queue
          bound,     \* source -> id the worker bound for the first packet, or 0
          shardQ,    \* shard -> queued events
          hand,      \* shard -> the answer it is working on
          tx,        \* history: the answers given to the reactors
          refused,   \* history: connections whose LOGIN_REQ was "Duplicate"
          creators,  \* history: the sessions created, and by which connections
          arrived    \* packets so far

rxVars == <<rx, bound>>
sessionVars == <<m_sessions, m_tlsFdToSessionId>>
histVars == <<tx, refused, creators, arrived>>
routingVars == <<sessionVars, conn, rxVars, shardQ, hand, histVars>>

Sources == TlsFds \cup TcpFds \cup UdpPeers
Shards == 0..(WorkerCount - 1)
NoFd == "-1"
Idle == [pc |-> "idle"]

\* (sessionId >> 32) % workerCount
selectShard(sid) == (sid \div SidLow) % WorkerCount

RoutingInit ==
  /\ m_sessions = << >> /\ m_tlsFdToSessionId = << >>
  /\ conn = [fd \in TlsFds |-> [open |-> TRUE, gen |-> 1]]
  /\ rx = [w \in Sources |-> << >>] /\ bound = [w \in Sources |-> 0]
  /\ shardQ = [s \in Shards |-> << >>] /\ hand = [s \in Shards |-> Idle]
  /\ tx = {} /\ refused = {} /\ creators = {} /\ arrived = 0

(***************************************************************************)
(* The network                                                             *)
(***************************************************************************)
LoginAnswers == {a \in tx : a.op \in {"LOGIN_SUCCESS", "LOGIN_FAIL"}}

\* Client::loginPhase takes the id from the header of the answer, whichever.
LearnedBy(fd, gen) == {a.header : a \in {b \in LoginAnswers : b.dst = fd /\ b.gen = gen}}
Learned == {a.header : a \in LoginAnswers}

\* What the parsers and LoginContext tell apart in a body: the account is
\* right or wrong, or the body is malformed and yields no event.
LoginBodies == {"pass", "fail", "malformed"}
LobbyBodies == {"pass", "malformed"}
PingBodies == {"pass", "malformed"}

\* The packets w may send now, as PacketParser::parse returns them.
Packets(w) ==
  IF w \in TlsFds
    THEN [src : {w}, gen : {conn[w].gen}, op : {"LOGIN"},
          sid : {0} \cup LearnedBy(w, conn[w].gen), body : LoginBodies]
  ELSE IF w \in TcpFds
    THEN [src : {w}, gen : {0}, op : {"LOBBY"}, sid : Learned, body : LobbyBodies]
    ELSE [src : {w}, gen : {0}, op : {"PING"}, sid : Learned, body : PingBodies]

Arrive(w) ==
  /\ arrived < MaxPackets
  /\ w \in TlsFds => conn[w].open
  /\ \E pkt \in Packets(w) : rx' = [rx EXCEPT ![w] = Append(@, pkt)]
  /\ arrived' = arrived + 1
  /\ UNCHANGED <<sessionVars, conn, bound, shardQ, hand, tx, refused, creators>>

\* TlsReactor::closeConnection: nothing tells SessionManager.
CloseTls(fd) ==
  /\ conn[fd].open
  /\ conn' = [conn EXCEPT ![fd].open = FALSE]
  /\ UNCHANGED <<sessionVars, rxVars, shardQ, hand, histVars>>

\* A new connection is given the descriptor.
OpenTls(fd) ==
  /\ ~conn[fd].open
  /\ conn[fd].gen < MaxConns
  /\ conn' = [conn EXCEPT ![fd] = [open |-> TRUE, gen |-> @.gen + 1]]
  /\ UNCHANGED <<sessionVars, rxVars, shardQ, hand, histVars>>

(***************************************************************************)
(* RxRouter::handlePacket                                                  *)
(***************************************************************************)
NewSession == [state |-> "PRE_AUTH", tlsFd |-> NoFd, tcpFd |-> NoFd, connInfo |-> NoFd]

\* Binds a fresh session.
BindAnew(session, pkt) ==
  [NewSession EXCEPT !.connInfo = pkt.src,
                     !.tlsFd = IF pkt.src \in TlsFds THEN pkt.src ELSE session.tlsFd,
                     !.tcpFd = IF pkt.src \in TcpFds THEN pkt.src ELSE session.tcpFd]

\* Session::bind overwrites m_connInfo whatever the protocol.
Bind(session, pkt) ==
  [session EXCEPT !.connInfo = pkt.src,
                  !.tlsFd = IF pkt.src \in TlsFds THEN pkt.src ELSE @,
                  !.tcpFd = IF pkt.src \in TcpFds THEN pkt.src ELSE @]

Issued == {c.sid : c \in creators}

\* SessionManager::create.  The 64-bit random id is new.
Create(w, sid) ==
  LET pkt == Head(rx[w]) IN
    /\ rx[w] # << >> /\ bound[w] = 0
    /\ pkt.op = "LOGIN" /\ pkt.sid = 0
    /\ w \notin DOMAIN m_tlsFdToSessionId
    /\ sid \notin Issued
    /\ m_sessions' = [x \in DOMAIN m_sessions \cup {sid} |->
                        IF x = sid THEN Bind(NewSession, pkt) ELSE m_sessions[x]]
    /\ m_tlsFdToSessionId' = [f \in DOMAIN m_tlsFdToSessionId \cup {w} |->
                        IF f = w THEN sid ELSE m_tlsFdToSessionId[f]]
    /\ bound' = [bound EXCEPT ![w] = sid]
    /\ creators' = creators \cup {[by |-> <<w, pkt.gen>>, sid |-> sid]}
    /\ UNCHANGED <<conn, rx, shardQ, hand, tx, refused, arrived>>

\* create returns false: "Duplicate LOGIN_REQ".
CreateFails(w) ==
  LET pkt == Head(rx[w]) IN
    /\ rx[w] # << >> /\ bound[w] = 0
    /\ pkt.op = "LOGIN" /\ pkt.sid = 0
    /\ w \in DOMAIN m_tlsFdToSessionId
    /\ rx' = [rx EXCEPT ![w] = Tail(@)]
    /\ refused' = refused \cup {<<w, pkt.gen>>}
    /\ UNCHANGED <<sessionVars, conn, bound, shardQ, hand, tx, creators, arrived>>

\* checkAndBind, which refuses 0 and ids that are gone
CheckAndBind(w) ==
  LET pkt == Head(rx[w]) IN
    /\ rx[w] # << >> /\ bound[w] = 0
    /\ ~(pkt.op = "LOGIN" /\ pkt.sid = 0)
    /\ IF pkt.sid \in DOMAIN m_sessions
         THEN /\ m_sessions' = [m_sessions EXCEPT ![pkt.sid] = Bind(@, pkt)]
              /\ bound' = [bound EXCEPT ![w] = pkt.sid]
              /\ UNCHANGED rx
         ELSE /\ rx' = [rx EXCEPT ![w] = Tail(@)]
              /\ UNCHANGED <<m_sessions, bound>>
    /\ UNCHANGED <<m_tlsFdToSessionId, conn, shardQ, hand, histVars>>

\* Chooses a shard by the source of the packet.
DispatchBySource(w) ==
  LET pkt == Head(rx[w])
      s == IF w \in TlsFds THEN 0 ELSE WorkerCount - 1 IN
    /\ bound[w] # 0
    /\ shardQ' = IF pkt.body = "malformed" THEN shardQ
                 ELSE [shardQ EXCEPT ![s] = Append(@, [pkt EXCEPT !.sid = bound[w]])]
    /\ rx' = [rx EXCEPT ![w] = Tail(@)]
    /\ bound' = [bound EXCEPT ![w] = 0]
    /\ UNCHANGED <<sessionVars, conn, hand, histVars>>

\* EventFactory::create, which returns nullptr for a malformed body, and
\* ShardManager::dispatch.
Dispatch(w) ==
  LET pkt == Head(rx[w])
      s == selectShard(bound[w]) IN
    /\ bound[w] # 0
    /\ shardQ' = IF pkt.body = "malformed" THEN shardQ
                 ELSE [shardQ EXCEPT ![s] = Append(@, [pkt EXCEPT !.sid = bound[w]])]
    /\ rx' = [rx EXCEPT ![w] = Tail(@)]
    /\ bound' = [bound EXCEPT ![w] = 0]
    /\ UNCHANGED <<sessionVars, conn, hand, histVars>>

(***************************************************************************)
(* The shard: event, action, TxRouter::handlePacket                        *)
(***************************************************************************)
\* The opcodes of the actions that the contexts commit.
LoginReqEvent(req) == IF req.body = "pass" THEN "LOGIN_SUCCESS" ELSE "LOGIN_FAIL"
LobbyEntryReqEvent(req) == "LOBBY_RES"
PingReqEvent(req) == "PING_RES"

HandleEvent(req) ==
  CASE req.op = "LOGIN" -> LoginReqEvent(req)
    [] req.op = "LOBBY" -> LobbyEntryReqEvent(req)
    [] req.op = "PING" -> PingReqEvent(req)

HandleRequest(s) ==
  /\ hand[s] = Idle /\ shardQ[s] # << >>
  /\ LET req == Head(shardQ[s]) IN
       hand' = [hand EXCEPT ![s] = [pc |-> "snapshot", op |-> HandleEvent(req), req |-> req]]
  /\ shardQ' = [shardQ EXCEPT ![s] = Tail(@)]
  /\ UNCHANGED <<sessionVars, conn, rxVars, histVars>>

\* getTxSnapshot; a session that is gone ends the answer.
GetTxSnapshot(s) ==
  /\ hand[s].pc = "snapshot"
  /\ LET h == hand[s] IN
       hand' = [hand EXCEPT ![s] =
                  IF h.req.sid \in DOMAIN m_sessions
                    THEN [pc |-> "state", op |-> h.op, req |-> h.req,
                          snap |-> m_sessions[h.req.sid]]
                    ELSE Idle]
  /\ UNCHANGED <<sessionVars, conn, rxVars, shardQ, histVars>>

\* setState, which ignores an id that is gone
SetState(sid, state) ==
  /\ m_sessions' = [x \in DOMAIN m_sessions |->
                      IF x = sid THEN [m_sessions[x] EXCEPT !.state = state]
                                 ELSE m_sessions[x]]
  /\ UNCHANGED m_tlsFdToSessionId

\* Leaves the fd in m_tlsFdToSessionId.
EraseSessionOnly(sid) ==
  /\ m_sessions' = Restrict(m_sessions, DOMAIN m_sessions \ {sid})
  /\ UNCHANGED m_tlsFdToSessionId

\* erase
Erase(sid) ==
  IF sid \in DOMAIN m_sessions
    THEN /\ m_tlsFdToSessionId' =
              Restrict(m_tlsFdToSessionId,
                       DOMAIN m_tlsFdToSessionId \ {m_sessions[sid].tlsFd})
         /\ m_sessions' = Restrict(m_sessions, DOMAIN m_sessions \ {sid})
    ELSE UNCHANGED sessionVars

ApplyState(s) ==
  /\ hand[s].pc = "state"
  /\ LET sid == hand[s].req.sid IN
       CASE hand[s].op = "LOGIN_SUCCESS" -> SetState(sid, "AUTH")
         [] hand[s].op = "LOGIN_FAIL" -> Erase(sid)
         [] hand[s].op = "LOBBY_RES" -> SetState(sid, "IN_WORLD")
         [] hand[s].op = "PING_RES" -> UNCHANGED sessionVars
  /\ hand' = [hand EXCEPT ![s].pc = "send"]
  /\ UNCHANGED <<conn, rxVars, shardQ, histVars>>

\* Answers where the last packet of the session came from.
DestinationOfLast(h) == h.snap.connInfo

\* PacketBuilder::build: TLS and TCP answers go to the session's fd, UDP
\* answers to the source address in m_connInfo.
Destination(h) ==
  CASE h.op \in {"LOGIN_SUCCESS", "LOGIN_FAIL"} -> h.snap.tlsFd
    [] h.op = "LOBBY_RES" -> h.snap.tcpFd
    [] h.op = "PING_RES" -> h.snap.connInfo

\* The session id each builder writes in the header: 0 in a LOGIN_FAIL_RES.
LoginSuccessHeader(h) == h.req.sid
LoginFailHeader(h) == 0
LobbyHeader(h) == h.req.sid
PingHeader(h) == h.req.sid

Header(h) ==
  CASE h.op = "LOGIN_SUCCESS" -> LoginSuccessHeader(h)
    [] h.op = "LOGIN_FAIL" -> LoginFailHeader(h)
    [] h.op = "LOBBY_RES" -> LobbyHeader(h)
    [] h.op = "PING_RES" -> PingHeader(h)

Send(s) ==
  /\ hand[s].pc = "send"
  /\ LET h == hand[s]
         dst == Destination(h) IN
       tx' = tx \cup {[op |-> h.op, header |-> Header(h), dst |-> dst,
                       gen |-> IF dst \in TlsFds THEN conn[dst].gen ELSE 0,
                       req |-> h.req]}
  /\ hand' = [hand EXCEPT ![s] = Idle]
  /\ UNCHANGED <<sessionVars, conn, rxVars, shardQ, refused, creators, arrived>>

RoutingNext ==
  \/ \E w \in Sources :
       \/ Arrive(w) \/ CreateFails(w) \/ CheckAndBind(w) \/ Dispatch(w)
       \/ \E sid \in Sids : Create(w, sid)
  \/ \E fd \in TlsFds : CloseTls(fd) \/ OpenTls(fd)
  \/ \E s \in Shards : HandleRequest(s) \/ GetTxSnapshot(s) \/ ApplyState(s) \/ Send(s)

RoutingSpec == RoutingInit /\ [][RoutingNext]_routingVars

\* A session's life as SessionLife has it.
LifeOf ==
  [sid \in Sids |-> IF sid \in DOMAIN m_sessions THEN m_sessions[sid].state
                    ELSE IF sid \in Issued THEN "gone" ELSE "none"]

Life == INSTANCE SessionLife WITH life <- LifeOf
-----------------------------------------------------------------------------
(***************************************************************************)
(* Types of SessionManager's maps and of the queues; an event waits only   *)
(* at the shard selectShard gives to its session.                          *)
(***************************************************************************)
RoutingTypeOK ==
  /\ DOMAIN m_sessions \subseteq Sids
  /\ \A sid \in DOMAIN m_sessions :
       /\ m_sessions[sid].state \in {"PRE_AUTH", "AUTH", "IN_WORLD"}
       /\ m_sessions[sid].tlsFd \in TlsFds
       /\ m_sessions[sid].tcpFd \in TcpFds \cup {NoFd}
       /\ m_sessions[sid].connInfo \in Sources
  /\ DOMAIN m_tlsFdToSessionId \subseteq TlsFds
  /\ \A w \in Sources : bound[w] \in {0} \cup Sids /\ (bound[w] # 0 => rx[w] # << >>)
  /\ \A s \in Shards :
       /\ hand[s].pc \in {"idle", "snapshot", "state", "send"}
       /\ \A i \in DOMAIN shardQ[s] : selectShard(shardQ[s][i].sid) = s

(***************************************************************************)
(* m_sessions and m_tlsFdToSessionId stay inverse to each other: every     *)
(* session is found under its TLS descriptor, every descriptor entry leads *)
(* to a live session, and no two sessions share a descriptor.              *)
(***************************************************************************)
FdMapConsistent ==
  /\ \A sid \in DOMAIN m_sessions :
       /\ m_sessions[sid].tlsFd \in DOMAIN m_tlsFdToSessionId
       /\ m_tlsFdToSessionId[m_sessions[sid].tlsFd] = sid
  /\ \A fd \in DOMAIN m_tlsFdToSessionId :
       /\ m_tlsFdToSessionId[fd] \in DOMAIN m_sessions
       /\ m_sessions[m_tlsFdToSessionId[fd]].tlsFd = fd

(***************************************************************************)
(* The answer a shard is about to send agrees with the session: between    *)
(* TxRouter's calls no other thread changes the state it announces,        *)
(* although no lock is held, because selectShard gives a session one       *)
(* shard.                                                                  *)
(***************************************************************************)
AnswerMatchesState ==
  \A s \in Shards : hand[s].pc = "send" =>
    LET sid == hand[s].req.sid IN
      CASE hand[s].op = "LOGIN_SUCCESS" ->
             sid \in DOMAIN m_sessions /\ m_sessions[sid].state = "AUTH"
        [] hand[s].op = "LOGIN_FAIL" -> sid \notin DOMAIN m_sessions
        [] hand[s].op = "LOBBY_RES" ->
             sid \in DOMAIN m_sessions /\ m_sessions[sid].state = "IN_WORLD"
        [] OTHER -> TRUE

(***************************************************************************)
(* A login answer goes to the descriptor its request came from, and a      *)
(* lobby answer to a TCP descriptor.                                       *)
(***************************************************************************)
AnswerToRequester ==
  \A a \in tx :
    /\ a.op \in {"LOGIN_SUCCESS", "LOGIN_FAIL"} => a.dst = a.req.src
    /\ a.op = "LOBBY_RES" => a.dst \in TcpFds

(***************************************************************************)
(* Sessions live as SessionLife says, whatever threads and packets         *)
(* interleave: nobody is in the world whose login has not succeeded, a     *)
(* login answer and a lobby answer change one session only, and an id that *)
(* was erased never comes back.                                            *)
(***************************************************************************)
ImplementsSessionLife == Life!LifeSpec

(***************************************************************************)
(* "Duplicate LOGIN_REQ" (SessionManager::create) is said only of a        *)
(* connection that has logged in before.                                   *)
(***************************************************************************)
DuplicateIsDuplicate == refused \subseteq {c.by : c \in creators}

=============================================================================
