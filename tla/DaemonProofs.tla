---------------------------- MODULE DaemonProofs ----------------------------
(***************************************************************************)
(* The two daemons: the login sessions of mgmtd (MgmtHttp), for any number *)
(* of browsers and threads, any lifetime and any run of the clock; and its *)
(* calls to serverd (IpcExchange), for any number of calls, descriptors    *)
(* and workers, any reply lengths and any ring size.                       *)
(***************************************************************************)
EXTENDS MgmtHttp, IpcExchange, QueueLemmas

Ids == Nat \cup {NoCookie}

(***************************************************************************)
(* An id somebody holds is in the table until it ends or expires; the      *)
(* response that carries it to the browser holds it as well.               *)
(***************************************************************************)
Kept(c) ==
  c # NoCookie /\ c \notin ended /\ now <= c + TTL => c \in DOMAIN m_sessions

HttpIInv ==
  /\ now \in Nat
  /\ cookie \in [Browsers -> Ids]
  /\ res \in [Browsers -> [cookie : Ids, keep : BOOLEAN]]
  /\ m_sessions \in [DOMAIN m_sessions -> Nat]
  /\ \A s \in DOMAIN m_sessions : s \in Nat /\ m_sessions[s] = s + TTL
  /\ \A b \in Browsers : Kept(cookie[b]) /\ Kept(res[b].cookie)

\* It holds at first
LEMMA HttpInitially == HttpInit => HttpIInv
BY HttpAssumption DEF HttpInit, HttpIInv, Ids, NoRes, Kept

\* A response carries an id that is kept; nothing else of the browser changes.
LEMMA RespondKeeps ==
  ASSUME HttpIInv, NEW b \in Browsers, NEW c \in Ids, Respond(b, c), Kept(c)',
         cookie' = cookie, \A d \in Ids : Kept(d) /\ d # c => Kept(d)'
  PROVE  /\ res' \in [Browsers -> [cookie : Ids, keep : BOOLEAN]]
         /\ \A a \in Browsers : Kept(cookie[a])' /\ Kept(res[a].cookie)'
<1>1. PICK keep \in BOOLEAN : res' = [res EXCEPT ![b] = [cookie |-> c, keep |-> keep]]
  BY Zenon DEF Respond
<1>2. res' \in [Browsers -> [cookie : Ids, keep : BOOLEAN]]
  BY <1>1, Zenon DEF HttpIInv
<1>3. ASSUME NEW d \in Ids, Kept(d)  PROVE Kept(d)'
  BY <1>3, Zenon
<1>4. ASSUME NEW a \in Browsers  PROVE Kept(cookie[a])' /\ Kept(res[a].cookie)'
  <2>1. Kept(cookie[a])'
    BY <1>3, Zenon DEF HttpIInv
  <2>2. CASE a = b
    <3>1. res'[a].cookie = c
      BY <1>1, <2>2, Zenon DEF HttpIInv
    <3> QED  BY <2>1, <3>1, Zenon
  <2>3. CASE a # b
    <3>1. res'[a] = res[a] /\ res[a].cookie \in Ids
      BY <1>1, <2>3, Zenon DEF HttpIInv
    <3>2. Kept(res[a].cookie)'
      BY <1>3, <3>1, Zenon DEF HttpIInv
    <3> QED  BY <2>1, <3>1, <3>2, Zenon
  <2> QED  BY <2>2, <2>3, Zenon
<1> QED  BY <1>2, <1>4, Zenon

\* Steps that leave the clock, the table and the ended ids alone
LEMMA QuietStep ==
  ASSUME HttpIInv, UNCHANGED <<now, m_sessions, ended>>
  PROVE  /\ \A d : Kept(d) => Kept(d)'
         /\ now' \in Nat /\ m_sessions' \in [DOMAIN m_sessions' -> Nat]
         /\ \A s \in DOMAIN m_sessions' : s \in Nat /\ m_sessions'[s] = s + TTL
BY Zenon DEF HttpIInv, Kept

\* The connection's own steps: a response reaches the browser, or is lost.
LEMMA SessionSteps ==
  ASSUME HttpIInv, NEW b \in Browsers,
         Accept(b) \/ Requests(b) \/ ReadEnds(b) \/ OnWrite(b) \/ WriteFails(b) \/ HandleStats(b)
  PROVE  HttpIInv'
<1>1. UNCHANGED <<now, m_sessions, ended>>
  BY Zenon DEF Accept, Requests, ReadEnds, OnWrite, WriteFails, HandleStats
<1>2. \A d : Kept(d) => Kept(d)'
  BY <1>1, QuietStep, Zenon
<1>3. CASE UNCHANGED <<res, cookie>>
  BY <1>1, <1>2, <1>3, QuietStep, Zenon DEF HttpIInv
<1>4. CASE res' = [res EXCEPT ![b] = NoRes] /\ cookie' \in {cookie, [cookie EXCEPT ![b] = res[b].cookie]}
  <2>1. NoRes \in [cookie : Ids, keep : BOOLEAN] /\ NoRes.cookie = NoCookie
    BY Zenon DEF NoRes, Ids
  <2>2. res' \in [Browsers -> [cookie : Ids, keep : BOOLEAN]] /\ cookie' \in [Browsers -> Ids]
    BY <1>4, <2>1, Zenon DEF HttpIInv
  <2>3. ASSUME NEW a \in Browsers  PROVE Kept(cookie[a])' /\ Kept(res[a].cookie)'
    <3>1. cookie'[a] \in {cookie[a], res[a].cookie}
      BY <1>4, Zenon DEF HttpIInv
    <3>2. res'[a].cookie \in {NoCookie, res[a].cookie}
      BY <1>4, <2>1, Zenon DEF HttpIInv
    <3>3. Kept(cookie[a]) /\ Kept(res[a].cookie)
      BY Zenon DEF HttpIInv
    <3>4. Kept(cookie[a])'
      BY <1>1, <3>1, <3>3 DEF Kept
    <3>5. Kept(res[a].cookie)'
      BY <1>1, <3>2, <3>3, Zenon DEF Kept
    <3> QED  BY <3>4, <3>5, Zenon
  <2> QED  BY <1>1, <2>2, <2>3, QuietStep, Zenon DEF HttpIInv
<1> QED  BY <1>3, <1>4, Zenon DEF Accept, Requests, ReadEnds, OnWrite, WriteFails, HandleStats

\* Answers that leave the table alone
LEMMA AnswerSteps ==
  ASSUME HttpIInv, NEW b \in Browsers,
         HandleOther(b) \/ HandleNotFound(b) \/ SendReturns(b) \/ SendThrows(b)
  PROVE  HttpIInv'
<1>1. UNCHANGED <<now, m_sessions, ended, cookie>>
  BY Zenon DEF HandleOther, HandleNotFound, SendReturns, SendThrows
<1>2. Respond(b, cookie[b])
  BY Zenon DEF HandleOther, HandleNotFound, SendReturns, SendThrows, Respond
<1>3. cookie[b] \in Ids /\ Kept(cookie[b])'
  BY <1>1, QuietStep, Zenon DEF HttpIInv
<1>4. \A d \in Ids : Kept(d) => Kept(d)'
  BY <1>1, QuietStep, Zenon
<1> QED  BY <1>1, <1>2, <1>3, <1>4, QuietStep, RespondKeeps, Zenon DEF HttpIInv

\* AuthService::login
LEMMA LoginStep ==
  ASSUME HttpIInv, NEW b \in Browsers, HandleLogin(b)  PROVE HttpIInv'
<1>1. /\ UNCHANGED <<now, cookie>> /\ Respond(b, now) /\ ended \subseteq ended'
      /\ m_sessions' = [s \in DOMAIN m_sessions \cup {now} |->
                          IF s = now THEN now + TTL ELSE m_sessions[s]]
  BY Zenon DEF HandleLogin
<1>2. now \in Nat /\ TTL \in Nat
  BY HttpAssumption, Zenon DEF HttpIInv
<1>3. DOMAIN m_sessions' = DOMAIN m_sessions \cup {now}
  BY <1>1, Zenon
<1>4. \A d \in Ids : Kept(d) => Kept(d)'
  BY <1>1, <1>3, Zenon DEF Kept
<1>5. now \in Ids /\ Kept(now)'
  BY <1>1, <1>2, <1>3, Zenon DEF Kept, Ids
<1>6. /\ m_sessions' \in [DOMAIN m_sessions' -> Nat]
      /\ \A s \in DOMAIN m_sessions' : s \in Nat /\ m_sessions'[s] = s + TTL
  BY <1>1, <1>2, <1>3 DEF HttpIInv
<1> QED  BY <1>1, <1>4, <1>5, <1>6, RespondKeeps, Zenon DEF HttpIInv

\* Erasing an id takes away no other one.
LEMMA EraseKeeps ==
  ASSUME HttpIInv, NEW c, Erase(c)
  PROVE  /\ DOMAIN m_sessions' = DOMAIN m_sessions \ {c}
         /\ m_sessions' \in [DOMAIN m_sessions' -> Nat]
         /\ \A s \in DOMAIN m_sessions' : s \in Nat /\ m_sessions'[s] = s + TTL
BY Zenon DEF HttpIInv, Erase, Restrict

\* AuthService::logout: the id ends for all who hold it.
LEMMA LogoutStep ==
  ASSUME HttpIInv, NEW b \in Browsers, HandleLogout(b)  PROVE HttpIInv'
<1>1. /\ UNCHANGED <<now, cookie>> /\ Respond(b, NoCookie) /\ Erase(cookie[b])
      /\ ended' = ended \cup ({cookie[b]} \ {NoCookie})
  BY Zenon DEF HandleLogout
<1>2. \A d \in Ids : Kept(d) => Kept(d)'
  BY <1>1, EraseKeeps, Zenon DEF Kept
<1>3. NoCookie \in Ids /\ Kept(NoCookie)'
  BY Zenon DEF Kept, Ids
<1> QED  BY <1>1, <1>2, <1>3, EraseKeeps, RespondKeeps, Zenon DEF HttpIInv

\* validateSession erases an id only when it has expired.
LEMMA UnauthorizedStep ==
  ASSUME HttpIInv, NEW b \in Browsers, HandleUnauthorized(b)  PROVE HttpIInv'
<1>1. UNCHANGED <<now, cookie, ended>> /\ Respond(b, cookie[b]) /\ cookie[b] \in Ids
  BY Zenon DEF HandleUnauthorized, HttpIInv
<1>2. CASE Known(b) /\ Expired(b) /\ Erase(cookie[b])
  <2>1. now > cookie[b] + TTL
    BY <1>2, Zenon DEF Known, Expired, HttpIInv
  <2>2. \A d \in Ids : Kept(d) => Kept(d)'
    <3>1. DOMAIN m_sessions' = DOMAIN m_sessions \ {cookie[b]}
      BY <1>2, EraseKeeps, Zenon
    <3>2. ~(now <= cookie[b] + TTL)
      BY <1>2, <2>1, HttpAssumption DEF HttpIInv, Known
    <3> QED  BY <1>1, <3>1, <3>2, Zenon DEF Kept
  <2>3. Kept(cookie[b])'
    BY <1>1, <2>2, Zenon DEF HttpIInv
  <2> QED  BY <1>1, <1>2, <2>2, <2>3, EraseKeeps, RespondKeeps, Zenon DEF HttpIInv
<1>3. CASE UNCHANGED m_sessions
  <2>1. \A d \in Ids : Kept(d) => Kept(d)'
    BY <1>1, <1>3, QuietStep, Zenon
  <2>2. Kept(cookie[b])'
    BY <1>1, <2>1, Zenon DEF HttpIInv
  <2> QED  BY <1>1, <1>3, <2>1, <2>2, QuietStep, RespondKeeps, Zenon DEF HttpIInv
<1> QED  BY <1>2, <1>3, Zenon DEF HandleUnauthorized

\* and every step keeps it.
LEMMA HttpStep == HttpIInv /\ [HttpNext]_httpVars => HttpIInv'
<1> SUFFICES ASSUME HttpIInv, [HttpNext]_httpVars  PROVE HttpIInv'
  OBVIOUS
<1>1. CASE Tick
  <2>1. UNCHANGED <<m_sessions, res, cookie, ended>> /\ now' = now + 1 /\ now \in Nat /\ TTL \in Nat
    BY <1>1, HttpAssumption, Zenon DEF Tick, HttpIInv
  <2>2. \A d \in Ids : Kept(d) => Kept(d)'
    BY <2>1, HttpAssumption DEF Kept, Ids
  <2>3. \A b \in Browsers : cookie[b] \in Ids /\ res[b].cookie \in Ids
    BY Zenon DEF HttpIInv
  <2> QED  BY <2>1, <2>2, <2>3 DEF HttpIInv
<1>2. CASE UNCHANGED httpVars
  BY <1>2, Zenon DEF httpVars, HttpIInv, Kept
<1> QED
  BY <1>1, <1>2, SessionSteps, AnswerSteps, LoginStep, LogoutStep, UnauthorizedStep
     DEF HttpNext, Handle

(***************************************************************************)
(* A browser keeps its session until it expires or is logged out, whatever *)
(* the other browsers do (AuthService).                                    *)
(***************************************************************************)
THEOREM HttpOwnSession == HttpSpec => []OwnSession
<1>1. HttpIInv => OwnSession
  BY Zenon DEF HttpIInv, OwnSession, Kept
<1> QED  BY <1>1, HttpInitially, HttpStep, PTL DEF HttpSpec
-----------------------------------------------------------------------------
(***************************************************************************)
(* IpcExchange.  A worker knows a request by its descriptor only.  That a  *)
(* reply goes to its own call rests on this: the connection of a message   *)
(* stays open, and keeps its descriptor, until its reply is flushed.  The  *)
(* invariant says where each call is, and that it is nowhere else.  It is  *)
(* about a client that lives: after a death of mgmtd it does not hold.     *)
(***************************************************************************)
\* What a worker is given and gives back: a descriptor, and whose request it is.
Messages == [fd : Fds, call : Calls]

\* Requests and replies that are with a worker or in a queue.
InRings == AllOf(IpcWorkers, rxQueue)
Queued == InRings \cup Range(m_txQueue) \cup Range(batch)

\* Parts of its request that a call has written.
Parts(k) == IF cpc[k] = "connected" THEN 0 ELSE IF cpc[k] = "header" THEN 1 ELSE 2

\* The client has not closed its socket.
Open(k) == cpc[k] \in {"connected", "header", "waiting"}

NoReply(k) == txRing[k] = << >> /\ wire[k] = << >>

\* The server has read all of the request.
RequestRead(k) == cpc[k] = "waiting" /\ rxRing[k] = 0 /\ inbox[k] = 0

InQueue(d) == [fd |-> d, call |-> m_conns[d]] \in Queued

\* The stages of a call on its connection: its request is being read,
Reading(k) ==
  /\ Open(k) /\ NoReply(k)
  /\ rxRing[k] + inbox[k] = Parts(k) /\ rxRing[k] <= 1

\* its reply is on the way and somebody will send the rest,
Replying(d, k) ==
  /\ RequestRead(k)
  /\ txRing[k] # << >> /\ OneIn(txRing[k], k) /\ OneIn(wire[k], k)
  /\ Len(wire[k]) + Len(txRing[k]) = frameLen[k]
  /\ k \in armed \/ d \in dirtyFds

\* it is not accepted yet,
Fresh(k) == rxRing[k] = 0 /\ inbox[k] = Parts(k) /\ NoReply(k) /\ Open(k)

\* or its whole reply is sent and the connection is closed.
Answered(k) ==
  /\ cpc[k] = "waiting" \/ (cpc[k] = "replied" /\ got[k] = k)
  /\ wire[k] # << >> /\ OneIn(wire[k], k) /\ Len(wire[k]) = frameLen[k]

\* A connection is at one of these stages, or its request is with a worker, or
\* its reply did not fit into the tx ring and was dropped.
ConnOK(d) ==
  IF InQueue(d) THEN RequestRead(m_conns[d]) /\ NoReply(m_conns[d])
  ELSE \/ Reading(m_conns[d])
       \/ Replying(d, m_conns[d])
       \/ RequestRead(m_conns[d]) /\ NoReply(m_conns[d]) /\ m_conns[d] \in dropped

IpcTypes ==
  /\ calls \in 0..MaxCalls /\ backlog \in Seq(Calls) /\ shut \subseteq 1..calls
  /\ cpc \in [Calls -> {"none", "connected", "header", "waiting", "replied"}]
  /\ got \in [Calls -> Nat] /\ frameLen \in [Calls -> Nat]
  /\ inbox \in [Calls -> Nat] /\ rxRing \in [Calls -> Nat]
  /\ wire \in [Calls -> Seq(Calls)] /\ txRing \in [Calls -> Seq(Calls)]
  /\ m_conns \in [DOMAIN m_conns -> Calls] /\ DOMAIN m_conns \subseteq Fds
  /\ m_rr \in IpcWorkers /\ rxQueue \in [IpcWorkers -> Seq(Messages)]
  /\ m_txQueue \in Seq(Messages) /\ batch \in Seq(Messages)
  /\ \A e \in events : ~e.hup /\ e.fd \in Fds

\* A message is in one place.
QueuedOnce ==
  /\ Apart(IpcWorkers, rxQueue) /\ IsInjective(m_txQueue) /\ IsInjective(batch)
  /\ InRings \cap Range(m_txQueue) = {} /\ InRings \cap Range(batch) = {}
  /\ Range(m_txQueue) \cap Range(batch) = {}

\* A connection is in one place.
CallOnce ==
  /\ IsInjective(backlog) /\ IsInjective(m_conns)
  /\ Range(backlog) \cup Range(m_conns) \cup shut = 1..calls
  /\ Range(backlog) \cap Range(m_conns) = {}
  /\ Range(backlog) \cap shut = {} /\ Range(m_conns) \cap shut = {}

\* Where each call stands.
CallsOK ==
  /\ \A k \in Calls : k > calls => cpc[k] = "none" /\ inbox[k] = 0 /\ rxRing[k] = 0 /\ NoReply(k)
  /\ \A k \in Range(backlog) : Fresh(k)
  /\ \A k \in shut : Answered(k)
  /\ \A d \in DOMAIN m_conns : ConnOK(d)

\* A message is of the connection that has its descriptor now.
MessagesOK ==
  /\ \A m \in Queued : m.fd \in DOMAIN m_conns /\ m_conns[m.fd] = m.call
  /\ \A m \in Range(m_txQueue) \cup Range(batch) : frameLen[m.call] > 0

IpcState == IpcTypes /\ QueuedOnce /\ CallOnce /\ CallsOK /\ MessagesOK

IpcIInv == crashes \in Nat /\ (crashes = 0 => IpcState)

\* It holds at first
LEMMA IpcInitially == IpcInit => IpcIInv
<1> SUFFICES ASSUME IpcInit PROVE IpcState /\ crashes = 0
  BY DEF IpcIInv
<1>0. /\ Range(<< >>) = {} /\ DOMAIN << >> = {} /\ IsInjective(<< >>)
  BY DEF Range, IsInjective
<1>1. MaxCalls \in Nat /\ NumWorkers \in Nat \ {0}
  BY IpcAssumption, Zenon
<1>2. IpcTypes
  BY <1>1 DEF IpcInit, IpcTypes, Calls, IpcWorkers, Messages
<1>3. \A w \in IpcWorkers : rxQueue[w] = << >>
  BY Zenon DEF IpcInit
<1>4. InRings = {} /\ Range(m_txQueue) = {} /\ Range(batch) = {}
  BY <1>0, <1>3, Zenon DEF IpcInit, InRings, AllOf
<1>5. QueuedOnce
  BY <1>0, <1>3, <1>4, Zenon DEF IpcInit, QueuedOnce, Apart
<1>6. CallOnce
  BY <1>0 DEF IpcInit, CallOnce
<1>7. CallsOK
  BY <1>0, Zenon DEF IpcInit, CallsOK, NoReply
<1>8. MessagesOK
  BY <1>4, Zenon DEF MessagesOK, Queued
<1> QED  BY <1>2, <1>5, <1>6, <1>7, <1>8, Zenon DEF IpcState, IpcInit

\* What the invariant says of a connection does not change with other calls.
CallKept(k) ==
  /\ cpc'[k] = cpc[k] /\ inbox'[k] = inbox[k] /\ rxRing'[k] = rxRing[k]
  /\ txRing'[k] = txRing[k] /\ wire'[k] = wire[k]

\* So a connection stays as it should be.
LEMMA ConnKept ==
  ASSUME NEW d \in DOMAIN m_conns, ConnOK(d), m_conns'[d] = m_conns[d],
         CallKept(m_conns[d]), InQueue(d)' = InQueue(d),
         InQueue(d) \/ frameLen'[m_conns[d]] = frameLen[m_conns[d]],
         m_conns[d] \in armed => m_conns[d] \in armed',
         d \in dirtyFds /\ txRing[m_conns[d]] # << >> => d \in dirtyFds',
         m_conns[d] \in dropped => m_conns[d] \in dropped'
  PROVE  ConnOK(d)'
<1> DEFINE k == m_conns[d]
<1>1. CASE InQueue(d)
  BY <1>1, Zenon DEF ConnOK, CallKept, RequestRead, NoReply
<1>2. CASE ~InQueue(d)
  <2>1. CASE Reading(k)
    BY <1>2, <2>1, Zenon DEF ConnOK, CallKept, Reading, Open, NoReply, Parts
  <2>2. CASE Replying(d, k)
    <3>1. Replying(d, k)'
      BY <1>2, <2>2, Zenon DEF CallKept, Replying, RequestRead, OneIn
    <3> QED  BY <1>2, <3>1, Zenon DEF ConnOK
  <2>3. CASE RequestRead(k) /\ NoReply(k) /\ k \in dropped
    BY <1>2, <2>3, Zenon DEF ConnOK, CallKept, RequestRead, NoReply
  <2> QED  BY <1>2, <2>1, <2>2, <2>3, Zenon DEF ConnOK
<1> QED  BY <1>1, <1>2, Zenon

\* Nor does what it says of the messages, while queues and connections stay.
LEMMA QueuesKept ==
  ASSUME UNCHANGED <<m_conns, batch, rxQueue, m_txQueue, frameLen>>
  PROVE  /\ Queued' = Queued /\ InRings' = InRings
         /\ QueuedOnce => QueuedOnce'
         /\ MessagesOK => MessagesOK'
         /\ \A d : InQueue(d)' = InQueue(d)
<1>1. InRings' = InRings
  BY Zenon DEF InRings
<1>2. Queued' = Queued
  BY <1>1, Zenon DEF Queued
<1>3. \A d : InQueue(d)' = InQueue(d)
  BY <1>2, Zenon DEF InQueue
<1>4. QueuedOnce => QueuedOnce'
  BY <1>1, Zenon DEF QueuedOnce
<1>5. MessagesOK => MessagesOK'
  BY <1>2, Zenon DEF MessagesOK
<1> QED  BY <1>1, <1>2, <1>3, <1>4, <1>5, Zenon

\* Calls are numbered from 1.
LEMMA CallNumbers ==
  ASSUME IpcState
  PROVE  /\ MaxCalls \in Nat \ {0} /\ calls \in Nat /\ calls <= MaxCalls
         /\ 1..calls \subseteq Calls /\ \A k \in Calls : k \in Nat /\ (k \in 1..calls <=> k <= calls)
         /\ shut \subseteq 1..calls /\ Range(backlog) \subseteq 1..calls
         /\ Range(m_conns) \subseteq 1..calls
<1>1. calls \in 0..MaxCalls /\ shut \subseteq 1..calls
  BY Zenon DEF IpcState, IpcTypes
<1>2. MaxCalls \in Nat \ {0}
  BY IpcAssumption, Zenon
<1>3. Range(backlog) \subseteq 1..calls /\ Range(m_conns) \subseteq 1..calls
  BY Zenon DEF IpcState, CallOnce
<1>4. calls \in Nat /\ calls <= MaxCalls
  BY <1>1, <1>2
<1>5. 1..calls \subseteq Calls /\ \A k \in Calls : k \in Nat /\ (k \in 1..calls <=> k <= calls)
  BY <1>2, <1>4 DEF Calls
<1> QED  BY <1>1, <1>2, <1>3, <1>4, <1>5, Zenon

\* A connection is open and is a call of its own.
LEMMA ConnCall ==
  ASSUME IpcState, NEW d \in DOMAIN m_conns
  PROVE  /\ m_conns[d] \in Range(m_conns) /\ m_conns[d] \in 1..calls /\ m_conns[d] \in Calls
         /\ m_conns[d] \notin Range(backlog) /\ m_conns[d] \notin shut
         /\ \A c \in DOMAIN m_conns : m_conns[c] = m_conns[d] => c = d
         /\ Open(m_conns[d]) /\ ~CallerClosed(m_conns[d]) /\ d \in Fds
<1>1. m_conns[d] \in Range(m_conns)
  BY Zenon DEF Range
<1>2. m_conns[d] \in 1..calls /\ m_conns[d] \notin Range(backlog) /\ m_conns[d] \notin shut
  BY <1>1, Zenon DEF IpcState, CallOnce
<1>3. m_conns[d] \in Calls /\ d \in Fds
  BY Zenon DEF IpcState, IpcTypes
<1>4. \A c \in DOMAIN m_conns : m_conns[c] = m_conns[d] => c = d
  BY Zenon DEF IpcState, CallOnce, IsInjective
<1>5. Open(m_conns[d])
  BY Zenon DEF IpcState, CallsOK, ConnOK, Reading, Replying, RequestRead, Open
<1>6. ~CallerClosed(m_conns[d])
  BY <1>5, Zenon DEF Open, CallerClosed
<1> QED  BY <1>1, <1>2, <1>3, <1>4, <1>5, <1>6, Zenon

\* Connect: the new call is in the backlog and has written nothing.
LEMMA ConnectStep == ASSUME IpcState, Connect PROVE IpcState'
<1> PICK n \in Nat : n = calls + 1
  BY CallNumbers
<1>1. /\ calls \in Nat /\ calls' = n /\ n \in Calls /\ n \notin 1..calls /\ n > calls
      /\ 1..n = (1..calls) \cup {n}
  BY CallNumbers DEF Connect, Calls
<1>2. /\ cpc' = [cpc EXCEPT ![n] = "connected"] /\ cpc \in [Calls -> {"none", "connected", "header", "waiting", "replied"}]
      /\ \A k \in Calls : k # n => cpc'[k] = cpc[k]
      /\ cpc'[n] = "connected"
  BY <1>1, Zenon DEF Connect, IpcState, IpcTypes
<1>3. /\ UNCHANGED <<got, crashes, inbox, wire, shut, m_conns, rxRing, txRing, armed,
                     ready, events, batch, dirtyFds, m_rr, rxQueue, m_txQueue, frameLen, dropped>>
      /\ backlog' = Append(backlog, n)
  BY <1>1, Zenon DEF Connect, sockVars, connVars, loopVars, queueVars
<1>4. backlog \in Seq(Calls) /\ IsInjective(backlog) /\ n \notin Range(backlog) /\ n \notin Range(m_conns) /\ n \notin shut
  BY <1>1, Zenon DEF IpcState, IpcTypes, CallOnce
<1>5. /\ backlog' \in Seq(Calls) /\ Range(backlog') = Range(backlog) \cup {n}
  BY <1>1, <1>3, <1>4, ElementsOfAppend
<1>6. IsInjective(backlog')
  BY ONLY <1>1, <1>3, <1>4, InjectiveAppend, Zenon
<1>7. IpcTypes'
  <2>1. calls' \in 0..MaxCalls /\ shut' \subseteq 1..calls'
    BY <1>1, <1>3, CallNumbers DEF Calls
  <2>2. cpc' \in [Calls -> {"none", "connected", "header", "waiting", "replied"}]
    BY <1>1, <1>2, Zenon
  <2> QED  BY <1>3, <1>5, <2>1, <2>2, Zenon DEF IpcState, IpcTypes
<1>8. QueuedOnce' /\ MessagesOK' /\ \A d : InQueue(d)' = InQueue(d)
  BY <1>3, QueuesKept, Zenon DEF IpcState
<1>9. CallOnce'
  BY <1>1, <1>3, <1>4, <1>5, <1>6 DEF IpcState, CallOnce
<1>10. ASSUME NEW k \in Calls, k # n PROVE CallKept(k)
  BY <1>2, <1>3, <1>10, Zenon DEF CallKept
<1>11. \A k \in Calls : k > calls' => cpc'[k] = "none" /\ inbox'[k] = 0 /\ rxRing'[k] = 0 /\ NoReply(k)'
  <2> SUFFICES ASSUME NEW k \in Calls, k > n PROVE cpc'[k] = "none" /\ inbox'[k] = 0 /\ rxRing'[k] = 0 /\ NoReply(k)'
    BY <1>1, Zenon
  <2>1. k > calls /\ k # n /\ k \in Nat
    BY <1>1 DEF Calls
  <2> QED  BY <2>1, <1>2, <1>3, Zenon DEF IpcState, CallsOK, NoReply
<1>12. Fresh(n)'
  <2>1. inbox[n] = 0 /\ rxRing[n] = 0 /\ NoReply(n)
    BY <1>1, Zenon DEF IpcState, CallsOK
  <2> QED  BY <1>2, <1>3, <2>1, Zenon DEF Fresh, NoReply, Open, Parts
<1>13. ASSUME NEW k \in Range(backlog) PROVE Fresh(k)'
  <2>1. k \in 1..calls /\ k \in Calls /\ k # n
    BY <1>1, <1>4, CallNumbers, Zenon
  <2> QED  BY <2>1, <1>2, <1>3, Zenon DEF IpcState, CallsOK, Fresh, NoReply, Open, Parts
<1>14. ASSUME NEW k \in shut PROVE Answered(k)'
  <2>1. k \in Calls /\ k # n
    BY <1>1, <1>4, CallNumbers, Zenon
  <2>2. Answered(k) /\ cpc'[k] = cpc[k]
    BY <2>1, <1>2, Zenon DEF IpcState, CallsOK
  <2> QED  BY <2>2, <1>3, Zenon DEF Answered, OneIn
<1>15. ASSUME NEW d \in DOMAIN m_conns PROVE ConnOK(d)'
  <2>1. m_conns[d] \in Calls /\ m_conns[d] # n /\ ConnOK(d)
    BY <1>4, ConnCall, Zenon DEF IpcState, CallsOK
  <2>2. CallKept(m_conns[d])
    BY <2>1, <1>10, Zenon
  <2> QED  BY <2>1, <2>2, <1>3, <1>8, ConnKept, Zenon
<1>16. CallsOK'
  <2>1. \A k \in Range(backlog') : Fresh(k)'
    BY <1>5, <1>12, <1>13, Zenon
  <2>2. \A k \in shut' : Answered(k)'
    BY <1>3, <1>14, Zenon
  <2>3. \A d \in DOMAIN m_conns' : ConnOK(d)'
    BY <1>3, <1>15, Zenon
  <2> QED  BY ONLY <1>11, <2>1, <2>2, <2>3, Zenon DEF CallsOK
<1> QED  BY <1>7, <1>8, <1>9, <1>16, Zenon DEF IpcState

\* What a step leaves of a call it is not about, and of that call's connection
CallUntouched(k) ==
  /\ CallKept(k) /\ got'[k] = got[k] /\ frameLen'[k] = frameLen[k]
  /\ k \in armed => k \in armed'
  /\ k \in dropped => k \in dropped'

ConnUntouched(d) ==
  /\ InQueue(d)' = InQueue(d)
  /\ d \in dirtyFds /\ txRing[m_conns[d]] # << >> => d \in dirtyFds'

CallFine(x) ==
  /\ x \in Range(backlog) => Fresh(x)'
  /\ x \in shut => Answered(x)'
  /\ \A d \in DOMAIN m_conns : m_conns[d] = x => ConnOK(d)'

\* What the invariant says of the calls is kept by such a step.
LEMMA OtherCalls ==
  ASSUME IpcState, NEW k \in Calls, CallUntouched(k), UNCHANGED m_conns,
         \A d \in DOMAIN m_conns : m_conns[d] = k => ConnUntouched(d)
  PROVE  CallFine(k)
<1>1. ASSUME k \in Range(backlog) PROVE Fresh(k)'
  <2>1. Fresh(k)
    BY <1>1, Zenon DEF IpcState, CallsOK
  <2> QED  BY <2>1, Zenon DEF CallUntouched, CallKept, Fresh, NoReply, Open, Parts
<1>2. ASSUME k \in shut PROVE Answered(k)'
  <2>1. Answered(k)
    BY <1>2, Zenon DEF IpcState, CallsOK
  <2> QED  BY <2>1, Zenon DEF CallUntouched, CallKept, Answered, OneIn
<1>3. ASSUME NEW d \in DOMAIN m_conns, m_conns[d] = k PROVE ConnOK(d)'
  <2>1. ConnOK(d)
    BY Zenon DEF IpcState, CallsOK
  <2>2. ConnUntouched(d)
    BY <1>3, Zenon
  <2> QED  BY <1>3, <2>1, <2>2, ConnKept, Zenon DEF CallUntouched, ConnUntouched
<1> QED  BY <1>1, <1>2, <1>3, Zenon DEF CallFine

\* A step about one call x (0 for none) that moves no connection
LEMMA OneCallStep ==
  ASSUME IpcState, IpcTypes', QueuedOnce', MessagesOK',
         UNCHANGED <<calls, backlog, shut, m_conns>>,
         NEW x \in 0..calls, x # 0 => CallFine(x),
         \A k \in Calls : k # x => CallUntouched(k),
         \A d \in DOMAIN m_conns : m_conns[d] # x => ConnUntouched(d)
  PROVE  IpcState'
<1>1. \A k \in Calls : k # 0
  BY CallNumbers DEF Calls
<1>2. ASSUME NEW k \in Calls, k # x PROVE CallFine(k)
  <2>1. \A d \in DOMAIN m_conns : m_conns[d] = k => ConnUntouched(d)
    BY <1>2, Zenon
  <2> QED  BY <1>2, <2>1, OtherCalls, Zenon
<1>3. \A k \in Calls : CallFine(k)
  BY <1>1, <1>2, Zenon
<1>4. CallOnce'
  BY Zenon DEF IpcState, CallOnce
<1>5. ASSUME NEW k \in Calls, k > calls'
      PROVE  cpc'[k] = "none" /\ inbox'[k] = 0 /\ rxRing'[k] = 0 /\ NoReply(k)'
  <2>1. k # x /\ k > calls
    BY <1>5, CallNumbers
  <2>2. CallKept(k)
    BY <2>1, Zenon DEF CallUntouched
  <2> QED  BY <2>1, <2>2, Zenon DEF IpcState, CallsOK, CallKept, NoReply
<1>6. \A k \in Range(backlog') : Fresh(k)'
  BY <1>3, CallNumbers, Zenon DEF CallFine
<1>7. \A k \in shut' : Answered(k)'
  BY <1>3, CallNumbers, Zenon DEF CallFine
<1>8. \A d \in DOMAIN m_conns' : ConnOK(d)'
  BY <1>3, ConnCall, Zenon DEF CallFine
<1>9. CallsOK'
  BY ONLY <1>5, <1>6, <1>7, <1>8, Zenon DEF CallsOK
<1> QED  BY <1>4, <1>9, Zenon DEF IpcState

\* writeAll: the request goes on from the client to the socket.
LEMMA WriteAllStep == ASSUME IpcState, NEW k \in Calls, WriteAll(k) PROVE IpcState'
<1>1. cpc[k] \in {"connected", "header"} /\ k \in 1..calls
  BY CallNumbers DEF IpcState, CallsOK, WriteAll
<1>2. k \notin shut
  BY <1>1, Zenon DEF IpcState, CallsOK, Answered
<1>3. /\ cpc' = [cpc EXCEPT ![k] = IF @ = "connected" THEN "header" ELSE "waiting"]
      /\ inbox' = [inbox EXCEPT ![k] = @ + 1]
  BY <1>2, Zenon DEF WriteAll
<1>4. UNCHANGED <<calls, got, backlog, crashes, wire, shut, m_conns, rxRing, txRing, armed,
                  ready, events, batch, dirtyFds, m_rr, rxQueue, m_txQueue, frameLen, dropped>>
  BY Zenon DEF WriteAll, connVars, loopVars, queueVars
<1>5. /\ cpc \in [Calls -> {"none", "connected", "header", "waiting", "replied"}]
      /\ inbox \in [Calls -> Nat] /\ rxRing \in [Calls -> Nat]
  BY Zenon DEF IpcState, IpcTypes
<1>6. /\ cpc' \in [Calls -> {"none", "connected", "header", "waiting", "replied"}]
      /\ inbox' \in [Calls -> Nat]
  BY <1>3, <1>5
<1>7. IpcTypes'
  BY <1>4, <1>6, Zenon DEF IpcState, IpcTypes
<1>8. QueuedOnce' /\ MessagesOK' /\ \A d : InQueue(d)' = InQueue(d)
  BY <1>4, QueuesKept, Zenon DEF IpcState
<1>9. ASSUME NEW j \in Calls, j # k PROVE CallUntouched(j)
  BY <1>3, <1>4, <1>5, <1>9, Zenon DEF CallUntouched, CallKept
<1>10. /\ Open(k)' /\ inbox'[k] = inbox[k] + 1 /\ Parts(k)' = Parts(k) + 1
       /\ inbox[k] \in Nat /\ rxRing[k] \in Nat
  BY <1>1, <1>3, <1>5 DEF Open, Parts
<1>11. ASSUME k \in Range(backlog) PROVE Fresh(k)'
  <2>1. Fresh(k)
    BY <1>11, Zenon DEF IpcState, CallsOK
  <2> QED  BY <2>1, <1>4, <1>10, Zenon DEF Fresh, NoReply
<1>12. ASSUME NEW d \in DOMAIN m_conns, m_conns[d] = k PROVE ConnOK(d)'
  <2>1. ConnOK(d) /\ ~RequestRead(k)
    BY <1>1, Zenon DEF IpcState, CallsOK, RequestRead
  <2>2. ~InQueue(d) /\ Reading(k)
    BY <2>1, <1>12, Zenon DEF ConnOK, Replying
  <2>3. Parts(k) \in Nat
    BY Zenon DEF Parts
  <2>4. Reading(k)'
    BY <2>2, <2>3, <1>4, <1>10 DEF Reading, NoReply
  <2> QED  BY <2>2, <2>4, <1>4, <1>8, <1>12, Zenon DEF ConnOK
<1>13. CallFine(k)
  BY <1>2, <1>11, <1>12, Zenon DEF CallFine
<1>14. \A d \in DOMAIN m_conns : m_conns[d] # k => ConnUntouched(d)
  BY <1>4, <1>8, Zenon DEF ConnUntouched
<1>15. k \in 0..calls /\ UNCHANGED <<calls, backlog, shut, m_conns>>
  BY <1>1, <1>4, CallNumbers
<1> QED  BY ONLY IpcState, <1>7, <1>8, <1>9, <1>13, <1>14, <1>15, OneCallStep, Zenon

\* A call whose connection is closed can be read; one that is not closed cannot.
LEMMA CompleteIsAnswered ==
  ASSUME IpcState, NEW k \in Calls
  PROVE  /\ k \in shut => Complete(k) /\ Head(wire[k]) = k
         /\ Complete(k) => k \in shut
<1>1. wire[k] \in Seq(Calls) /\ txRing[k] \in Seq(Calls) /\ frameLen[k] \in Nat
  BY Zenon DEF IpcState, IpcTypes
<1>2. ASSUME wire[k] # << >>, OneIn(wire[k], k) PROVE Head(wire[k]) = k
  <2>1. Len(wire[k]) \in Nat /\ Len(wire[k]) > 0
    BY <1>1, <1>2, EmptySeq
  <2>2. wire[k][1] = k
    BY <1>2, <2>1 DEF OneIn
  <2> QED  BY <1>1, <1>2, <2>2, HeadTailProperties
<1>3. ASSUME k \in shut PROVE Complete(k) /\ Head(wire[k]) = k
  <2>1. Answered(k)
    BY <1>3, Zenon DEF IpcState, CallsOK
  <2>2. Head(wire[k]) = k
    BY <1>2, <2>1, Zenon DEF Answered
  <2> QED  BY <1>1, <2>1, <2>2 DEF Complete, Answered
<1>4. ASSUME Complete(k), k \notin shut PROVE FALSE
  <2>1. wire[k] # << >>
    BY <1>4, Zenon DEF Complete
  <2>2. k \in 1..calls
    BY <2>1, CallNumbers DEF IpcState, CallsOK, NoReply
  <2>3. k \notin Range(backlog)
    BY <2>1, Zenon DEF IpcState, CallsOK, Fresh, NoReply
  <2>4. PICK d \in DOMAIN m_conns : m_conns[d] = k
    BY <1>4, <2>2, <2>3, Zenon DEF IpcState, CallOnce, Range
  <2>5. Replying(d, k)
    BY <2>1, <2>4, Zenon DEF IpcState, CallsOK, ConnOK, Reading, NoReply
  <2>6. Head(wire[k]) = k
    BY <1>2, <2>1, <2>5, Zenon DEF Replying
  <2>7. Len(wire[k]) >= frameLen[k]
    BY <1>4, <2>6, Zenon DEF Complete
  <2>8. Len(txRing[k]) \in Nat /\ Len(txRing[k]) > 0 /\ Len(wire[k]) \in Nat
    BY <1>1, <2>5, EmptySeq DEF Replying
  <2>9. Len(wire[k]) + Len(txRing[k]) = frameLen[k]
    BY <2>5, Zenon DEF Replying
  <2>10. \A a, b, f \in Nat : b > 0 /\ a + b = f => ~(a >= f)
    OBVIOUS
  <2> QED  BY <1>1, <2>7, <2>8, <2>9, <2>10, Zenon
<1> QED  BY <1>3, <1>4, Zenon

\* readExact: the reply is the call's own.
LEMMA ReadReplyStep == ASSUME IpcState, NEW k \in Calls, ReadReply(k) PROVE IpcState'
<1>1. cpc[k] = "waiting" /\ k \in shut /\ Head(wire[k]) = k
  BY CompleteIsAnswered, Zenon DEF ReadReply
<1>2. cpc' = [cpc EXCEPT ![k] = "replied"] /\ got' = [got EXCEPT ![k] = k]
  BY <1>1, Zenon DEF ReadReply
<1>3. UNCHANGED <<calls, backlog, crashes, inbox, wire, shut, m_conns, rxRing, txRing, armed,
                  ready, events, batch, dirtyFds, m_rr, rxQueue, m_txQueue, frameLen, dropped>>
  BY Zenon DEF ReadReply, sockVars, connVars, loopVars, queueVars
<1>4. /\ cpc \in [Calls -> {"none", "connected", "header", "waiting", "replied"}]
      /\ got \in [Calls -> Nat]
  BY Zenon DEF IpcState, IpcTypes
<1>14. k \in Nat /\ k \in 0..calls
  BY <1>1, CallNumbers
<1>5. /\ cpc' \in [Calls -> {"none", "connected", "header", "waiting", "replied"}]
      /\ got' \in [Calls -> Nat] /\ cpc'[k] = "replied" /\ got'[k] = k
  BY <1>2, <1>4, <1>14, Zenon
<1>6. IpcTypes'
  BY <1>3, <1>5, Zenon DEF IpcState, IpcTypes
<1>7. QueuedOnce' /\ MessagesOK' /\ \A d : InQueue(d)' = InQueue(d)
  BY <1>3, QueuesKept, Zenon DEF IpcState
<1>8. ASSUME NEW j \in Calls, j # k PROVE CallUntouched(j)
  BY <1>2, <1>3, <1>4, <1>8, Zenon DEF CallUntouched, CallKept
<1>9. Answered(k)'
  <2>1. Answered(k)
    BY <1>1, Zenon DEF IpcState, CallsOK
  <2> QED  BY <2>1, <1>3, <1>5, Zenon DEF Answered, OneIn
<1>10. k \notin Range(backlog) /\ \A d \in DOMAIN m_conns : m_conns[d] # k
  BY <1>1, ConnCall, Zenon DEF IpcState, CallOnce
<1>11. CallFine(k)
  BY <1>9, <1>10, Zenon DEF CallFine
<1>12. \A d \in DOMAIN m_conns : m_conns[d] # k => ConnUntouched(d)
  BY <1>3, <1>7, Zenon DEF ConnUntouched
<1>13. UNCHANGED <<calls, backlog, shut, m_conns>>
  BY <1>3, Zenon
<1> QED  BY ONLY IpcState, <1>14, <1>6, <1>7, <1>8, <1>11, <1>12, <1>13, OneCallStep, Zenon

\* A read that fails finds the connection closed before the reply was whole: never.
LEMMA ReadFailsNever == ASSUME IpcState, NEW k \in Calls, ReadFails(k) PROVE FALSE
BY CompleteIsAnswered, Zenon DEF ReadFails

\* Steps of the reactor that only choose what is served or flushed next
LEMMA LoopStep ==
  ASSUME IpcState,
         UNCHANGED <<clientVars, sockVars, connVars, queueVars, batch>>,
         \A e \in events' : ~e.hup /\ e.fd \in Fds,
         \A d \in DOMAIN m_conns : d \in dirtyFds /\ txRing[m_conns[d]] # << >> => d \in dirtyFds'
  PROVE  IpcState'
<1>1. UNCHANGED <<calls, cpc, got, backlog, crashes, inbox, wire, shut, m_conns, rxRing, txRing,
                  armed, batch, m_rr, rxQueue, m_txQueue, frameLen, dropped>>
  BY Zenon DEF clientVars, sockVars, connVars, queueVars
<1>2. IpcTypes'
  BY <1>1, Zenon DEF IpcState, IpcTypes
<1>3. QueuedOnce' /\ MessagesOK' /\ \A d : InQueue(d)' = InQueue(d)
  BY <1>1, QueuesKept, Zenon DEF IpcState
<1>4. \A k \in Calls : CallUntouched(k)
  BY <1>1, Zenon DEF CallUntouched, CallKept
<1>5. \A d \in DOMAIN m_conns : ConnUntouched(d)
  BY <1>3, Zenon DEF ConnUntouched
<1>6. 0 \in 0..calls /\ UNCHANGED <<calls, backlog, shut, m_conns>>
  BY <1>1, CallNumbers
<1> QED  BY ONLY IpcState, <1>2, <1>3, <1>4, <1>5, <1>6, OneCallStep, Zenon

\* epoll_wait: no connection of a living client is reported as hung up.
LEMMA WaitStep == ASSUME IpcState, Wait PROVE IpcState'
<1>1. ASSUME NEW e \in events' PROVE ~e.hup /\ e.fd \in Fds
  <2>1. PICK d \in DOMAIN m_conns : e = ConnEvent(d)
    BY Zenon DEF Wait, ReadyConns
  <2> QED  BY <2>1, ConnCall, Zenon DEF ConnEvent
<1> QED  BY <1>1, LoopStep, Zenon DEF Wait

\* EPOLLOUT: the descriptor is flushed next.
LEMMA WritableStep == ASSUME IpcState, NEW e \in events, Writable(e) PROVE IpcState'
<1>1. \A f \in events' : ~f.hup /\ f.fd \in Fds
  BY Zenon DEF Writable, IpcState, IpcTypes
<1> QED  BY <1>1, LoopStep, Zenon DEF Writable, Serving

\* flushTxBuffer that finds nothing to send
LEMMA FlushNothingStep == ASSUME IpcState, NEW d \in Fds, FlushNothing(d) PROVE IpcState'
<1>1. \A f \in events' : ~f.hup /\ f.fd \in Fds
  BY Zenon DEF FlushNothing, IpcState, IpcTypes
<1>2. \A c \in DOMAIN m_conns : c \in dirtyFds /\ txRing[m_conns[c]] # << >> => c \in dirtyFds'
  BY Zenon DEF FlushNothing, FlushTxBuffer, Unsent
<1> QED  BY <1>1, <1>2, LoopStep, Zenon DEF FlushNothing

\* dequeueAll: the replies are moved as they are.
LEMMA ProcessTxQueueStep == ASSUME IpcState, ProcessTxQueue PROVE IpcState'
<1>1. /\ UNCHANGED <<calls, cpc, got, backlog, crashes, inbox, wire, shut, m_conns, rxRing, txRing,
                     armed, events, dirtyFds, m_rr, rxQueue, frameLen, dropped>>
      /\ batch = << >> /\ batch' = m_txQueue /\ m_txQueue' = << >>
  BY Zenon DEF ProcessTxQueue, Serving, clientVars, sockVars, connVars
<1>2. IpcTypes'
  BY <1>1, Zenon DEF IpcState, IpcTypes
<1>3. Range(<< >>) = {} /\ IsInjective(<< >>)
  BY DEF Range, IsInjective
<1>4. InRings' = InRings /\ Queued' = Queued
      /\ Range(m_txQueue') = {} /\ Range(batch') = Range(m_txQueue) /\ Range(batch) = {}
  BY <1>1, <1>3, Zenon DEF InRings, Queued
<1>5. QueuedOnce'
  BY <1>1, <1>3, <1>4, Zenon DEF IpcState, QueuedOnce
<1>6. MessagesOK'
  BY <1>1, <1>4, Zenon DEF IpcState, MessagesOK
<1>7. \A k \in Calls : CallUntouched(k)
  BY <1>1, Zenon DEF CallUntouched, CallKept
<1>8. \A d \in DOMAIN m_conns : ConnUntouched(d)
  BY <1>1, <1>4, Zenon DEF ConnUntouched, InQueue
<1>9. 0 \in 0..calls /\ UNCHANGED <<calls, backlog, shut, m_conns>>
  BY <1>1, CallNumbers
<1> QED  BY ONLY IpcState, <1>2, <1>5, <1>6, <1>7, <1>8, <1>9, OneCallStep, Zenon

\* A message is of a connection, and that connection's only one.
LEMMA MessageConn ==
  ASSUME IpcState, NEW m \in Queued
  PROVE  /\ m \in Messages /\ m.fd \in DOMAIN m_conns /\ m_conns[m.fd] = m.call
         /\ m = [fd |-> m.fd, call |-> m_conns[m.fd]] /\ InQueue(m.fd)
         /\ m.call \in 1..calls /\ m.call \in Calls
         /\ RequestRead(m.call) /\ NoReply(m.call)
         /\ \A d \in DOMAIN m_conns : m_conns[d] = m.call => d = m.fd
<1>1. m \in Messages
  <2>1. \A s \in Seq(Messages) : Range(s) \subseteq Messages
    BY ElementOfSeq DEF Range
  <2>2. rxQueue \in [IpcWorkers -> Seq(Messages)] /\ m_txQueue \in Seq(Messages)
        /\ batch \in Seq(Messages)
    BY Zenon DEF IpcState, IpcTypes
  <2> QED  BY <2>1, <2>2, Zenon DEF Queued, InRings, AllOf
<1>2. m.fd \in DOMAIN m_conns /\ m_conns[m.fd] = m.call
  BY Zenon DEF IpcState, MessagesOK
<1>3. m = [fd |-> m.fd, call |-> m_conns[m.fd]]
  BY <1>1, <1>2, Zenon DEF Messages
<1>4. InQueue(m.fd)
  BY <1>3, Zenon DEF InQueue
<1>5. ConnOK(m.fd)
  BY <1>2, Zenon DEF IpcState, CallsOK
<1>6. RequestRead(m.call) /\ NoReply(m.call)
  BY <1>2, <1>4, <1>5, Zenon DEF ConnOK
<1>7. /\ m.call \in 1..calls /\ m.call \in Calls
      /\ \A d \in DOMAIN m_conns : m_conns[d] = m.call => d = m.fd
  BY <1>2, ConnCall, Zenon
<1> QED  BY <1>1, <1>2, <1>3, <1>4, <1>6, <1>7, Zenon

\* drainRxQueue: the message goes on from its ring to the reply queue.
LEMMA HandleRequestStep == ASSUME IpcState, NEW w \in IpcWorkers, HandleRequest(w) PROVE IpcState'
<1>0. PICK m : m = Head(rxQueue[w])
  BY Zenon
<1>1. /\ UNCHANGED <<calls, cpc, got, backlog, crashes, inbox, wire, shut, m_conns, rxRing, txRing,
                     armed, ready, events, batch, dirtyFds, m_rr, dropped>>
      /\ rxQueue[w] # << >> /\ rxQueue' = [rxQueue EXCEPT ![w] = Tail(@)]
      /\ m_txQueue' = Append(m_txQueue, m)
  BY <1>0, Zenon DEF HandleRequest, clientVars, sockVars, connVars, loopVars
<1>2. PICK n \in Nat : n > 0 /\ frameLen' = [frameLen EXCEPT ![m.call] = n]
  <2>1. HEADER_SIZE \in Nat \ {0} /\ MAX_LEN \in Nat /\ Bodies \subseteq Nat
    BY IpcAssumption, Zenon
  <2>2. \A body \in Bodies : FrameLen(body) \in Nat /\ FrameLen(body) > 0
    BY <2>1 DEF FrameLen
  <2> QED  BY <1>0, <2>2, Zenon DEF HandleRequest, HandlerReplies
<1>3. /\ rxQueue' \in [IpcWorkers -> Seq(Messages)] /\ m \in Messages /\ m \in InRings
      /\ InRings' = InRings \ {m} /\ Apart(IpcWorkers, rxQueue')
  <2>1. rxQueue \in [IpcWorkers -> Seq(Messages)] /\ Apart(IpcWorkers, rxQueue)
    BY Zenon DEF IpcState, IpcTypes, QueuedOnce
  <2>2. rxQueue[w] # << >> /\ rxQueue' = [rxQueue EXCEPT ![w] = Tail(@)]
    BY <1>1, Zenon
  <2>3. HeadTaken(IpcWorkers, Messages, rxQueue, w, rxQueue')
    BY ONLY w \in IpcWorkers, <2>1, <2>2, ApartTail, Zenon
  <2> QED  BY <1>0, <2>3, Zenon DEF InRings, HeadTaken
<1>4. m \in Queued
  BY <1>3, Zenon DEF Queued
<1>5. /\ m.fd \in DOMAIN m_conns /\ m_conns[m.fd] = m.call /\ InQueue(m.fd)
      /\ m.call \in 1..calls /\ m.call \in Calls
      /\ \A d \in DOMAIN m_conns : m_conns[d] = m.call => d = m.fd
  BY <1>4, MessageConn, Zenon
<1>6. m_txQueue \in Seq(Messages) /\ IsInjective(m_txQueue) /\ m \notin Range(m_txQueue) /\ m \notin Range(batch)
  BY <1>3, Zenon DEF IpcState, IpcTypes, QueuedOnce
<1>7. m_txQueue' \in Seq(Messages) /\ Range(m_txQueue') = Range(m_txQueue) \cup {m}
  BY <1>1, <1>3, <1>6, ElementsOfAppend
<1>8. IsInjective(m_txQueue')
  BY ONLY <1>1, <1>3, <1>6, InjectiveAppend, Zenon
<1>9. Queued' = Queued
  BY <1>1, <1>3, <1>7, Zenon DEF Queued
<1>10. frameLen \in [Calls -> Nat] /\ frameLen' \in [Calls -> Nat] /\ frameLen'[m.call] = n
       /\ \A k \in Calls : k # m.call => frameLen'[k] = frameLen[k]
  BY <1>2, <1>5, Zenon DEF IpcState, IpcTypes
<1>11. IpcTypes'
  BY <1>1, <1>3, <1>7, <1>10, Zenon DEF IpcState, IpcTypes
<1>12. QueuedOnce'
  <2>1. InRings \cap Range(m_txQueue) = {} /\ InRings \cap Range(batch) = {}
        /\ Range(m_txQueue) \cap Range(batch) = {} /\ IsInjective(batch)
    BY Zenon DEF IpcState, QueuedOnce
  <2>2. InRings' \cap Range(m_txQueue') = {} /\ InRings' \cap Range(batch') = {}
        /\ Range(m_txQueue') \cap Range(batch') = {} /\ IsInjective(batch')
    BY <2>1, <1>1, <1>3, <1>6, <1>7, Zenon
  <2> QED  BY ONLY <2>2, <1>3, <1>8, Zenon DEF QueuedOnce
<1>13. MessagesOK'
  <2>1. \A x \in Queued' : x.fd \in DOMAIN m_conns' /\ m_conns'[x.fd] = x.call
    BY <1>1, <1>9, Zenon DEF IpcState, MessagesOK
  <2>2. ASSUME NEW x \in Range(m_txQueue') \cup Range(batch') PROVE frameLen'[x.call] > 0
    <3>1. x \in Queued
      BY <1>9, Zenon DEF Queued
    <3>2. x.call \in Calls
      BY <3>1, MessageConn, Zenon
    <3>3. x = m \/ x \in Range(m_txQueue) \cup Range(batch)
      BY <1>1, <1>7, Zenon
    <3>4. x = m \/ frameLen[x.call] > 0
      BY <3>3, Zenon DEF IpcState, MessagesOK
    <3> QED  BY <3>2, <3>4, <1>2, <1>10, Zenon
  <2> QED  BY <2>1, <2>2, Zenon DEF MessagesOK
<1>14. ASSUME NEW k \in Calls, k # m.call PROVE CallUntouched(k)
  BY <1>1, <1>10, <1>14, Zenon DEF CallUntouched, CallKept
<1>15. \A d \in DOMAIN m_conns : ConnUntouched(d)
  BY <1>1, <1>9, Zenon DEF ConnUntouched, InQueue
<1>16. CallFine(m.call)
  <2>1. m.call \notin Range(backlog) /\ m.call \notin shut /\ ConnOK(m.fd)
    BY <1>5, ConnCall, Zenon DEF IpcState, CallsOK
  <2>2. CallKept(m.call) /\ InQueue(m.fd)' = InQueue(m.fd)
    BY <1>1, <1>9, Zenon DEF CallKept, InQueue
  <2>3. ConnOK(m.fd)'
    BY <2>1, <2>2, <1>1, <1>5, ConnKept, Zenon
  <2> QED  BY <2>1, <2>3, <1>5, Zenon DEF CallFine
<1>17. m.call \in 0..calls /\ UNCHANGED <<calls, backlog, shut, m_conns>>
  BY <1>1, <1>5, CallNumbers
<1> QED  BY ONLY IpcState, <1>11, <1>12, <1>13, <1>14, <1>15, <1>16, <1>17, OneCallStep, Zenon

\* receive with a whole frame: the request goes on from the socket to a ring.
LEMMA FrameRead ==
  ASSUME IpcState, NEW e \in events, Receive(e), e.fd \in DOMAIN m_conns,
         rxRing[m_conns[e.fd]] + inbox[m_conns[e.fd]] = 2
  PROVE  IpcState'
<1> PICK d \in DOMAIN m_conns : d = e.fd
  BY Zenon
<1> PICK k : k = m_conns[d]
  BY Zenon
<1> PICK m : m = [fd |-> d, call |-> k]
  BY Zenon
<1>0. /\ k \in Calls /\ k \in 1..calls /\ k \notin Range(backlog) /\ k \notin shut
      /\ ~CallerClosed(k) /\ d \in Fds
      /\ \A c \in DOMAIN m_conns : m_conns[c] = k => c = d
  BY ConnCall, Zenon
<1>1. /\ UNCHANGED <<calls, cpc, got, backlog, crashes, wire, shut, m_conns, txRing, armed, ready,
                     batch, m_txQueue, frameLen, dropped>>
      /\ dirtyFds = {} /\ events' = events \ {e}
      /\ inbox' = [inbox EXCEPT ![k] = 0] /\ rxRing' = [rxRing EXCEPT ![k] = 0]
      /\ rxQueue' = [rxQueue EXCEPT ![m_rr] = Append(@, m)]
      /\ m_rr' = (m_rr + 1) % NumWorkers
  BY <1>0, Zenon DEF Receive, Serving, ExtractFrame, clientVars
<1>2. inbox \in [Calls -> Nat] /\ rxRing \in [Calls -> Nat] /\ m_rr \in IpcWorkers
  BY Zenon DEF IpcState, IpcTypes
<1>3. ~RequestRead(k)
  BY <1>0, <1>2 DEF RequestRead
<1>4. ~InQueue(d) /\ Reading(k)
  BY <1>3, Zenon DEF IpcState, CallsOK, ConnOK, Replying
<1>5. m \in Messages /\ m \notin Queued /\ m \notin InRings
  BY <1>0, <1>4, Zenon DEF Messages, InQueue, Queued
<1>6. cpc[k] = "waiting" /\ NoReply(k)
  BY <1>4 DEF Reading, Parts, Open
<1>7. /\ rxQueue' \in [IpcWorkers -> Seq(Messages)]
      /\ InRings' = InRings \cup {m} /\ Apart(IpcWorkers, rxQueue')
  <2>1. rxQueue \in [IpcWorkers -> Seq(Messages)] /\ Apart(IpcWorkers, rxQueue)
    BY Zenon DEF IpcState, IpcTypes, QueuedOnce
  <2>2. /\ m_rr \in IpcWorkers /\ m \in Messages /\ m \notin AllOf(IpcWorkers, rxQueue)
        /\ rxQueue' = [rxQueue EXCEPT ![m_rr] = Append(@, m)]
    BY <1>1, <1>2, <1>5, Zenon DEF InRings
  <2>3. PutLast(IpcWorkers, Messages, rxQueue, m, rxQueue')
    BY ONLY <2>1, <2>2, ApartAppend, Zenon
  <2> QED  BY <2>3, Zenon DEF InRings, PutLast
<1>8. Queued' = Queued \cup {m}
  BY <1>1, <1>7, Zenon DEF Queued
<1>9. /\ inbox' \in [Calls -> Nat] /\ rxRing' \in [Calls -> Nat]
      /\ inbox'[k] = 0 /\ rxRing'[k] = 0
      /\ \A j \in Calls : j # k => inbox'[j] = inbox[j] /\ rxRing'[j] = rxRing[j]
  BY <1>0, <1>1, <1>2, Zenon
<1>10. m_rr' \in IpcWorkers
  <2>1. NumWorkers \in Nat \ {0}
    BY ONLY IpcAssumption, Zenon
  <2>2. m_rr \in 0..(NumWorkers - 1) /\ m_rr' = (m_rr + 1) % NumWorkers
    BY <1>1, <1>2, Zenon DEF IpcWorkers
  <2> QED  BY ONLY <2>1, <2>2 DEF IpcWorkers
<1>11. IpcTypes'
  BY <1>1, <1>7, <1>9, <1>10, Zenon DEF IpcState, IpcTypes
<1>12. QueuedOnce'
  <2>1. InRings \cap Range(m_txQueue) = {} /\ InRings \cap Range(batch) = {}
        /\ Range(m_txQueue) \cap Range(batch) = {} /\ IsInjective(batch) /\ IsInjective(m_txQueue)
    BY Zenon DEF IpcState, QueuedOnce
  <2>2. InRings' \cap Range(m_txQueue') = {} /\ InRings' \cap Range(batch') = {}
        /\ Range(m_txQueue') \cap Range(batch') = {} /\ IsInjective(batch') /\ IsInjective(m_txQueue')
    BY <2>1, <1>1, <1>5, <1>7 DEF Queued
  <2> QED  BY ONLY <2>2, <1>7, Zenon DEF QueuedOnce
<1>13. MessagesOK'
  <2>1. \A x \in Queued' : x.fd \in DOMAIN m_conns' /\ m_conns'[x.fd] = x.call
    <3>1. m.fd = d /\ m.call = k
      BY Zenon
    <3> QED  BY <1>1, <1>8, <3>1, Zenon DEF IpcState, MessagesOK
  <2> QED  BY <1>1, <2>1, Zenon DEF IpcState, MessagesOK
<1>14. ASSUME NEW j \in Calls, j # k PROVE CallUntouched(j)
  BY <1>1, <1>9, <1>14, Zenon DEF CallUntouched, CallKept
<1>15. ASSUME NEW c \in DOMAIN m_conns, m_conns[c] # k PROVE ConnUntouched(c)
  <2>1. [fd |-> c, call |-> m_conns[c]] # m
    BY <1>15, Zenon
  <2>2. m_conns' = m_conns /\ dirtyFds = {} /\ \A x : x # m => (x \in Queued') = (x \in Queued)
    BY <1>1, <1>8
  <2> QED  BY ONLY <2>1, <2>2, Zenon DEF ConnUntouched, InQueue
<1>16. ConnOK(d)'
  BY <1>1, <1>6, <1>8, <1>9, Zenon DEF ConnOK, InQueue, RequestRead, NoReply
<1>17. CallFine(k)
  BY <1>0, <1>16, Zenon DEF CallFine
<1>18. k \in 0..calls /\ UNCHANGED <<calls, backlog, shut, m_conns>>
  BY <1>0, <1>1, CallNumbers
<1> QED  BY ONLY IpcState, <1>11, <1>12, <1>13, <1>14, <1>15, <1>17, <1>18, OneCallStep, Zenon

\* receive: with less than a frame the parts are kept.
LEMMA ReceiveStep == ASSUME IpcState, NEW e \in events, Receive(e) PROVE IpcState'
<1>0. /\ UNCHANGED <<calls, cpc, got, backlog, crashes, wire, txRing, armed, ready,
                     batch, m_txQueue, frameLen, dropped>>
      /\ dirtyFds = {} /\ events' = events \ {e}
  BY Zenon DEF Receive, Serving, clientVars
<1>1. CASE e.fd \notin DOMAIN m_conns
  <2>1. UNCHANGED <<clientVars, sockVars, connVars, queueVars, batch>>
    BY <1>1, Zenon DEF Receive, sockVars, connVars, queueVars
  <2>2. \A f \in events' : ~f.hup /\ f.fd \in Fds
    BY <1>0, Zenon DEF IpcState, IpcTypes
  <2> QED  BY <1>0, <2>1, <2>2, LoopStep, Zenon
<1>2. CASE e.fd \in DOMAIN m_conns /\ rxRing[m_conns[e.fd]] + inbox[m_conns[e.fd]] # 2
  <2> PICK d \in DOMAIN m_conns : d = e.fd
    BY <1>2, Zenon
  <2> PICK k : k = m_conns[d]
    BY Zenon
  <2>0. /\ k \in Calls /\ k \in 1..calls /\ k \notin Range(backlog) /\ k \notin shut
        /\ ~CallerClosed(k)
        /\ \A c \in DOMAIN m_conns : m_conns[c] = k => c = d
    BY ConnCall, Zenon
  <2>1. /\ inbox' = [inbox EXCEPT ![k] = 0] /\ rxRing' = [rxRing EXCEPT ![k] = rxRing[k] + inbox[k]]
        /\ UNCHANGED <<m_conns, shut, rxQueue, m_rr>>
    BY <1>2, <2>0, Zenon DEF Receive, ExtractFrame
  <2>2. inbox \in [Calls -> Nat] /\ rxRing \in [Calls -> Nat]
    BY Zenon DEF IpcState, IpcTypes
  <2>3. /\ inbox' \in [Calls -> Nat] /\ rxRing' \in [Calls -> Nat]
        /\ inbox'[k] = 0 /\ rxRing'[k] = rxRing[k] + inbox[k] /\ inbox[k] \in Nat /\ rxRing[k] \in Nat
        /\ \A j \in Calls : j # k => inbox'[j] = inbox[j] /\ rxRing'[j] = rxRing[j]
    BY <2>0, <2>1, <2>2
  <2>4. IpcTypes'
    BY <1>0, <2>1, <2>3, Zenon DEF IpcState, IpcTypes
  <2>5. QueuedOnce' /\ MessagesOK' /\ \A c : InQueue(c)' = InQueue(c)
    BY <1>0, <2>1, QueuesKept, Zenon DEF IpcState
  <2>6. ASSUME NEW j \in Calls, j # k PROVE CallUntouched(j)
    BY <1>0, <2>3, <2>6, Zenon DEF CallUntouched, CallKept
  <2>7. \A c \in DOMAIN m_conns : ConnUntouched(c)
    BY <1>0, <2>5, Zenon DEF ConnUntouched
  <2>8. ConnOK(d)
    BY Zenon DEF IpcState, CallsOK
  <2>9. CASE RequestRead(k)
    <3>1. CallUntouched(k)
      BY <1>0, <2>3, <2>9 DEF RequestRead, CallUntouched, CallKept
    <3>2. \A j \in Calls : CallUntouched(j)
      BY <2>6, <3>1, Zenon
    <3>3. 0 \in 0..calls /\ UNCHANGED <<calls, backlog, shut, m_conns>>
      BY <1>0, <2>1, CallNumbers
    <3> QED  BY ONLY IpcState, <2>4, <2>5, <2>7, <3>2, <3>3, OneCallStep, Zenon
  <2>10. CASE ~RequestRead(k)
    <3>1. ~InQueue(d) /\ Reading(k)
      BY <2>8, <2>10, Zenon DEF ConnOK, Replying
    <3>2. rxRing[k] + inbox[k] = Parts(k) /\ Parts(k) \in 0..2 /\ Parts(k) # 2
      BY <1>2, <3>1 DEF Reading, Parts
    <3>3. Parts(k)' = Parts(k) /\ Open(k)' /\ NoReply(k)'
      BY <1>0, <3>1, Zenon DEF Parts, Open, NoReply, Reading
    <3>4. Reading(k)'
      BY <3>2, <3>3, <2>3 DEF Reading
    <3>5. ConnOK(d)'
      BY <3>1, <3>4, <2>1, <2>5, Zenon DEF ConnOK
    <3>6. CallFine(k)
      BY <2>0, <3>5, Zenon DEF CallFine
    <3>7. k \in 0..calls /\ UNCHANGED <<calls, backlog, shut, m_conns>>
      BY <1>0, <2>0, <2>1, CallNumbers
    <3> QED  BY ONLY IpcState, <2>4, <2>5, <2>6, <2>7, <3>6, <3>7, OneCallStep, Zenon
  <2> QED  BY <2>9, <2>10, Zenon
<1>3. CASE e.fd \in DOMAIN m_conns /\ rxRing[m_conns[e.fd]] + inbox[m_conns[e.fd]] = 2
  BY <1>3, FrameRead, Zenon
<1> QED  BY <1>1, <1>2, <1>3, Zenon

\* processTxQueue: the reply goes to the tx ring and its descriptor is to be
\* flushed, or it does not fit and is dropped.
LEMMA WriteReplyStep == ASSUME IpcState, WriteReply PROVE IpcState'
<1>0. PICK m : m = Head(batch)
  BY Zenon
<1>1. /\ UNCHANGED <<calls, cpc, got, backlog, crashes, inbox, wire, shut, m_conns, rxRing,
                     armed, ready, events, m_rr, rxQueue, m_txQueue, frameLen>>
      /\ batch # << >> /\ batch' = Tail(batch)
  BY Zenon DEF WriteReply, clientVars, sockVars
<1>2. batch \in Seq(Messages) /\ IsInjective(batch)
  BY Zenon DEF IpcState, IpcTypes, QueuedOnce
<1>3. m \in Messages /\ batch' \in Seq(Messages) /\ Range(batch) = {m} \cup Range(batch')
  BY <1>0, <1>1, <1>2, ElementsOfTail, Zenon
<1>4. IsInjective(batch') /\ m \notin Range(batch')
  BY <1>0, <1>1, <1>2, InjectiveTail, Zenon
<1>5. m \in Queued
  BY <1>3, Zenon DEF Queued
<1>6. /\ m.fd \in DOMAIN m_conns /\ m_conns[m.fd] = m.call
      /\ m = [fd |-> m.fd, call |-> m_conns[m.fd]]
      /\ m.call \in 1..calls /\ m.call \in Calls
      /\ RequestRead(m.call) /\ NoReply(m.call)
      /\ \A d \in DOMAIN m_conns : m_conns[d] = m.call => d = m.fd
  BY <1>5, MessageConn, Zenon
<1>7. frameLen[m.call] \in Nat \ {0} /\ txRing \in [Calls -> Seq(Calls)]
  <2>1. frameLen \in [Calls -> Nat] /\ txRing \in [Calls -> Seq(Calls)]
    BY Zenon DEF IpcState, IpcTypes
  <2>2. frameLen[m.call] > 0
    BY <1>3, Zenon DEF IpcState, MessagesOK
  <2> QED  BY <1>6, <2>1, <2>2
<1>8. InRings' = InRings /\ InRings \cap Range(batch) = {} /\ Range(m_txQueue) \cap Range(batch) = {}
      /\ InRings \cap Range(m_txQueue) = {} /\ IsInjective(m_txQueue)
  BY <1>1, Zenon DEF IpcState, QueuedOnce, InRings
<1>9. Queued' = Queued \ {m}
  BY <1>1, <1>3, <1>4, <1>8, Zenon DEF Queued
<1>10. QueuedOnce'
  <2>1. InRings' \cap Range(m_txQueue') = {} /\ InRings' \cap Range(batch') = {}
        /\ Range(m_txQueue') \cap Range(batch') = {} /\ IsInjective(batch') /\ IsInjective(m_txQueue')
    BY <1>1, <1>3, <1>4, <1>8, Zenon
  <2>2. Apart(IpcWorkers, rxQueue')
    BY <1>1, Zenon DEF IpcState, QueuedOnce
  <2> QED  BY ONLY <2>1, <2>2, Zenon DEF QueuedOnce
<1>11. MessagesOK'
  BY <1>1, <1>3, <1>9, Zenon DEF IpcState, MessagesOK
<1>12. ~InQueue(m.fd)'
  BY <1>1, <1>6, <1>9, Zenon DEF InQueue
<1>13. ASSUME NEW d \in DOMAIN m_conns, m_conns[d] # m.call PROVE InQueue(d)' = InQueue(d)
  <2>1. [fd |-> d, call |-> m_conns[d]] # m
    BY <1>6, <1>13
  <2> QED  BY <2>1, <1>1, <1>9 DEF InQueue
<1>14. m.call \in 0..calls /\ UNCHANGED <<calls, backlog, shut, m_conns>>
       /\ m.call \notin Range(backlog) /\ m.call \notin shut
  BY <1>1, <1>6, CallNumbers, ConnCall
<1>15. CASE Fits(m)
  <2>0. PICK r : r = ReplyBytes(m)
    BY Zenon
  <2>1. txRing' = [txRing EXCEPT ![m.call] = @ \o r] /\ dirtyFds' = dirtyFds \cup {m.fd} /\ dropped' = dropped
    BY <1>0, <1>6, <1>15, <2>0, Zenon DEF WriteReply
  <2>2. txRing[m.call] = << >> /\ wire[m.call] = << >>
    BY <1>6, Zenon DEF NoReply
  <2>3. r \in Seq(Calls) /\ Len(r) = frameLen[m.call] /\ OneIn(r, m.call) /\ r # << >> /\ << >> \o r = r
    <3>1. /\ m.call \in Calls /\ frameLen[m.call] \in Nat \ {0}
          /\ r = [i \in 1..frameLen[m.call] |-> m.call]
      BY <1>6, <1>7, <2>0, Zenon DEF ReplyBytes
    <3> QED  BY ONLY <3>1, OneOnly
  <2>4. txRing' \in [Calls -> Seq(Calls)] /\ txRing'[m.call] = r
        /\ \A j \in Calls : j # m.call => txRing'[j] = txRing[j]
    BY <1>6, <1>7, <2>1, <2>2, <2>3, Zenon
  <2>5. IpcTypes'
    BY <1>1, <1>3, <2>4, Zenon DEF IpcState, IpcTypes
  <2>6. ASSUME NEW j \in Calls, j # m.call PROVE CallUntouched(j)
    BY <1>1, <2>1, <2>4, <2>6, Zenon DEF CallUntouched, CallKept
  <2>7. ASSUME NEW d \in DOMAIN m_conns, m_conns[d] # m.call PROVE ConnUntouched(d)
    BY <1>13, <2>1, <2>7, Zenon DEF ConnUntouched
  <2>8. Replying(m.fd, m.call)'
    <3>1. OneIn(<< >>, m.call) /\ Len(<< >>) = 0
      BY DEF OneIn
    <3>2. RequestRead(m.call)'
      BY <1>1, <1>6, Zenon DEF RequestRead
    <3>3. wire'[m.call] = << >> /\ frameLen'[m.call] = frameLen[m.call] /\ m.fd \in dirtyFds'
      BY <1>1, <2>1, <2>2, Zenon
    <3>4. Len(wire'[m.call]) + Len(txRing'[m.call]) = frameLen'[m.call]
      BY <1>7, <2>3, <2>4, <3>1, <3>3
    <3>5. txRing'[m.call] # << >> /\ OneIn(txRing'[m.call], m.call) /\ OneIn(wire'[m.call], m.call)
      BY <2>3, <2>4, <3>1, <3>3, Zenon
    <3> QED  BY <3>2, <3>3, <3>4, <3>5, Zenon DEF Replying, OneIn
  <2>9. ConnOK(m.fd)'
    BY <1>1, <1>6, <1>12, <2>8, Zenon DEF ConnOK
  <2>10. CallFine(m.call)
    BY <1>6, <1>14, <2>9, Zenon DEF CallFine
  <2> QED  BY ONLY IpcState, <1>10, <1>11, <1>14, <2>5, <2>6, <2>7, <2>10, OneCallStep, Zenon
<1>16. CASE ~Fits(m)
  <2>1. dropped' = dropped \cup {m.call} /\ UNCHANGED <<txRing, dirtyFds>>
    BY <1>0, <1>6, <1>16, Zenon DEF WriteReply
  <2>2. IpcTypes'
    BY <1>1, <1>3, <2>1, Zenon DEF IpcState, IpcTypes
  <2>3. ASSUME NEW j \in Calls, j # m.call PROVE CallUntouched(j)
    BY <1>1, <2>1, Zenon DEF CallUntouched, CallKept
  <2>4. ASSUME NEW d \in DOMAIN m_conns, m_conns[d] # m.call PROVE ConnUntouched(d)
    BY <1>13, <2>1, <2>4, Zenon DEF ConnUntouched
  <2>5. ConnOK(m.fd)'
    BY <1>1, <1>6, <1>12, <2>1, Zenon DEF ConnOK, RequestRead, NoReply
  <2>6. CallFine(m.call)
    BY <1>6, <1>14, <2>5, Zenon DEF CallFine
  <2> QED  BY ONLY IpcState, <1>10, <1>11, <1>14, <2>2, <2>3, <2>4, <2>6, OneCallStep, Zenon
<1> QED  BY <1>15, <1>16, Zenon

\* flushTxBuffer, a part of the ring: the rest waits for EPOLLOUT.
LEMMA FlushPartStep ==
  ASSUME IpcState, NEW d \in Fds, NEW n \in Nat, FlushPart(d, n) PROVE IpcState'
<1>0. d \in DOMAIN m_conns
  BY Zenon DEF FlushPart, Unsent
<1> PICK k : k = m_conns[d]
  BY Zenon
<1>31. PICK s : s = wire[k]
  BY Zenon
<1>32. PICK t : t = txRing[k]
  BY Zenon
<1>1. /\ UNCHANGED <<calls, cpc, got, backlog, crashes, inbox, shut, m_conns, rxRing, ready, events,
                     batch, m_rr, rxQueue, m_txQueue, frameLen, dropped>>
      /\ dirtyFds' = dirtyFds \ {d} /\ t # << >> /\ n < Len(t)
      /\ wire' = [wire EXCEPT ![k] = s \o SubSeq(t, 1, n)]
      /\ txRing' = [txRing EXCEPT ![k] = SubSeq(t, n + 1, Len(t))]
      /\ armed' = armed \cup {k}
  BY <1>31, <1>32, Zenon DEF FlushPart, FlushTxBuffer, Unsent, clientVars, queueVars
<1>2. /\ k \in Calls /\ k \in 1..calls /\ k \notin Range(backlog) /\ k \notin shut
      /\ \A c \in DOMAIN m_conns : m_conns[c] = k => c = d
  BY <1>0, ConnCall, Zenon
<1>3. /\ wire \in [Calls -> Seq(Calls)] /\ txRing \in [Calls -> Seq(Calls)]
      /\ s \in Seq(Calls) /\ t \in Seq(Calls) /\ Len(t) \in Nat /\ Len(s) \in Nat
  <2>1. /\ wire \in [Calls -> Seq(Calls)] /\ txRing \in [Calls -> Seq(Calls)]
        /\ s \in Seq(Calls) /\ t \in Seq(Calls)
    BY <1>2, <1>31, <1>32, Zenon DEF IpcState, IpcTypes
  <2> QED  BY ONLY <2>1
<1>4. ~InQueue(d) /\ Replying(d, k)
  BY <1>0, <1>1, <1>32, Zenon DEF IpcState, CallsOK, ConnOK, Reading, NoReply
<1>33. PICK a : a = s \o SubSeq(t, 1, n)
  BY Zenon
<1>34. PICK b : b = SubSeq(t, n + 1, Len(t))
  BY Zenon
<1>5. n \in 0..Len(t) /\ OneIn(s, k) /\ OneIn(t, k)
  <2>1. n < Len(t)
    BY <1>1, Zenon
  <2>2. n \in 0..Len(t)
    BY ONLY n \in Nat, <1>3, <2>1
  <2> QED  BY <1>4, <1>31, <1>32, <2>2, Zenon DEF Replying
<1>6. /\ a \in Seq(Calls) /\ OneIn(a, k) /\ Len(a) = Len(s) + n
      /\ b \in Seq(Calls) /\ OneIn(b, k) /\ Len(b) = Len(t) - n
  <2>1. PICK p : p = SubSeq(t, 1, n) /\ a = s \o p
    BY <1>33, Zenon
  <2>2. /\ s \in Seq(Calls) /\ t \in Seq(Calls) /\ OneIn(s, k) /\ OneIn(t, k) /\ n \in 0..Len(t)
        /\ p = SubSeq(t, 1, n) /\ b = SubSeq(t, n + 1, Len(t)) /\ a = s \o p
    BY <1>3, <1>5, <1>34, <2>1, Zenon
  <2>3. /\ p \in Seq(Calls) /\ OneIn(p, k) /\ Len(p) = n
        /\ b \in Seq(Calls) /\ OneIn(b, k) /\ Len(b) = Len(t) - n
    BY ONLY <2>2, OneSplit
  <2>4. s \o p \in Seq(Calls) /\ OneIn(s \o p, k) /\ Len(s \o p) = Len(s) + Len(p)
    <3>1. s \in Seq(Calls) /\ p \in Seq(Calls) /\ OneIn(s, k) /\ OneIn(p, k)
      BY ONLY <2>2, <2>3, Zenon
    <3> QED  BY ONLY <3>1, OneConcat, Zenon
  <2> QED  BY ONLY <2>2, <2>3, <2>4, Zenon
<1>7. /\ wire' \in [Calls -> Seq(Calls)] /\ txRing' \in [Calls -> Seq(Calls)]
      /\ wire'[k] = a /\ txRing'[k] = b
      /\ \A j \in Calls : j # k => wire'[j] = wire[j] /\ txRing'[j] = txRing[j]
  BY <1>1, <1>2, <1>3, <1>6, <1>33, <1>34, Zenon
<1>8. IpcTypes'
  BY <1>1, <1>7, Zenon DEF IpcState, IpcTypes
<1>9. QueuedOnce' /\ MessagesOK' /\ \A c : InQueue(c)' = InQueue(c)
  BY <1>1, QueuesKept, Zenon DEF IpcState
<1>10. ASSUME NEW j \in Calls, j # k PROVE CallUntouched(j)
  BY <1>1, <1>7, <1>10, Zenon DEF CallUntouched, CallKept
<1>11. ASSUME NEW c \in DOMAIN m_conns, m_conns[c] # k PROVE ConnUntouched(c)
  BY <1>1, <1>9, <1>11, Zenon DEF ConnUntouched
<1>12. Replying(d, k)'
  <2>1. RequestRead(k)' /\ k \in armed'
    BY <1>1, <1>4, Zenon DEF Replying, RequestRead
  <2>2. Len(s) + Len(t) = frameLen[k] /\ frameLen'[k] = frameLen[k]
    BY <1>1, <1>4, <1>31, <1>32, Zenon DEF Replying
  <2>5. n < Len(t)
    BY <1>1, Zenon
  <2>3. Len(a) + Len(b) = frameLen'[k] /\ Len(b) > 0
    BY ONLY <1>3, <1>5, <1>6, <2>2, <2>5
  <2>4. b # << >>
    BY ONLY <1>6, <2>3, EmptySeq
  <2> QED  BY <1>6, <1>7, <2>1, <2>3, <2>4, Zenon DEF Replying, OneIn
<1>13. ConnOK(d)'
  BY <1>0, <1>1, <1>4, <1>9, <1>12, Zenon DEF ConnOK
<1>14. CallFine(k)
  BY <1>2, <1>13, Zenon DEF CallFine
<1>15. k \in 0..calls /\ UNCHANGED <<calls, backlog, shut, m_conns>>
  BY <1>1, <1>2, CallNumbers
<1> QED  BY ONLY IpcState, <1>8, <1>9, <1>10, <1>11, <1>14, <1>15, OneCallStep, Zenon

\* flushTxBuffer, the whole ring: the reply is on the wire when the connection
\* is closed, and no message has its descriptor.
LEMMA FlushWholeStep == ASSUME IpcState, NEW d \in Fds, FlushWhole(d) PROVE IpcState'
<1>0. d \in DOMAIN m_conns
  BY Zenon DEF FlushWhole, Unsent
<1> PICK k : k = m_conns[d]
  BY Zenon
<1>31. PICK s : s = wire[k]
  BY Zenon
<1>32. PICK t : t = txRing[k]
  BY Zenon
<1>1. /\ UNCHANGED <<calls, cpc, got, backlog, crashes, inbox, rxRing, armed, ready, events,
                     batch, m_rr, rxQueue, m_txQueue, frameLen, dropped>>
      /\ dirtyFds' = dirtyFds \ {d} /\ t # << >>
      /\ wire' = [wire EXCEPT ![k] = s \o t]
      /\ txRing' = [txRing EXCEPT ![k] = << >>]
      /\ m_conns' = Restrict(m_conns, DOMAIN m_conns \ {d}) /\ shut' = shut \cup {k}
  BY <1>31, <1>32, Zenon DEF FlushWhole, FlushTxBuffer, Unsent, CloseConnection, clientVars, queueVars
<1>2. /\ k \in Calls /\ k \in 1..calls /\ k \notin Range(backlog) /\ k \notin shut
      /\ \A c \in DOMAIN m_conns : m_conns[c] = k => c = d
  BY <1>0, ConnCall, Zenon
<1>3. /\ wire \in [Calls -> Seq(Calls)] /\ txRing \in [Calls -> Seq(Calls)]
      /\ s \in Seq(Calls) /\ t \in Seq(Calls) /\ Len(t) \in Nat /\ Len(s) \in Nat
  <2>1. /\ wire \in [Calls -> Seq(Calls)] /\ txRing \in [Calls -> Seq(Calls)]
        /\ s \in Seq(Calls) /\ t \in Seq(Calls)
    BY <1>2, <1>31, <1>32, Zenon DEF IpcState, IpcTypes
  <2> QED  BY ONLY <2>1
<1>4. ~InQueue(d) /\ Replying(d, k)
  BY <1>0, <1>1, <1>32, Zenon DEF IpcState, CallsOK, ConnOK, Reading, NoReply
<1>33. PICK a : a = s \o t
  BY Zenon
<1>5. a \in Seq(Calls) /\ OneIn(a, k) /\ Len(a) = frameLen[k] /\ a # << >>
  <2>1. OneIn(s, k) /\ OneIn(t, k) /\ Len(s) + Len(t) = frameLen[k]
    BY <1>4, <1>31, <1>32, Zenon DEF Replying
  <2>3. a \in Seq(Calls) /\ OneIn(a, k) /\ Len(a) = Len(s) + Len(t)
    <3>1. s \in Seq(Calls) /\ t \in Seq(Calls) /\ OneIn(s, k) /\ OneIn(t, k) /\ a = s \o t
      BY <1>3, <1>33, <2>1, Zenon
    <3> QED  BY ONLY <3>1, OneConcat, Zenon
  <2>4. Len(t) > 0
    BY <1>1, <1>3, EmptySeq
  <2>5. Len(a) # 0
    BY <1>3, <2>3, <2>4
  <2> QED  BY <2>1, <2>3, <2>5, EmptySeq, Zenon
<1>6. /\ wire' \in [Calls -> Seq(Calls)] /\ txRing' \in [Calls -> Seq(Calls)]
      /\ wire'[k] = a
      /\ \A j \in Calls : j # k => wire'[j] = wire[j] /\ txRing'[j] = txRing[j]
  <2>1. wire' = [wire EXCEPT ![k] = a]
    BY <1>1, <1>33, Zenon
  <2>2. << >> \in Seq(Calls)
    BY ONLY EmptySeq, Zenon
  <2>3. wire' \in [Calls -> Seq(Calls)] /\ wire'[k] = a /\ \A j \in Calls : j # k => wire'[j] = wire[j]
    BY ONLY <1>2, <1>3, <1>5, <2>1, Zenon
  <2>4. txRing' = [txRing EXCEPT ![k] = << >>]
    BY <1>1, Zenon
  <2>5. txRing' \in [Calls -> Seq(Calls)] /\ \A j \in Calls : j # k => txRing'[j] = txRing[j]
    BY ONLY <1>3, <2>2, <2>4, Zenon
  <2> QED  BY <2>3, <2>5, Zenon
<1>7. /\ DOMAIN m_conns' = DOMAIN m_conns \ {d}
      /\ \A c \in DOMAIN m_conns' : m_conns'[c] = m_conns[c] /\ m_conns[c] # k
  BY <1>1, <1>2, Zenon DEF Restrict
<1>8. Range(m_conns') = Range(m_conns) \ {k}
  BY <1>0, <1>7, Zenon DEF Range
<1>9. IpcTypes'
  <2>1. m_conns' \in [DOMAIN m_conns' -> Calls] /\ DOMAIN m_conns' \subseteq Fds
    BY <1>1, <1>7, Zenon DEF IpcState, IpcTypes, Restrict
  <2>2. shut' \subseteq 1..calls
    BY <1>1, <1>2, CallNumbers, Zenon
  <2> QED  BY <1>1, <1>6, <2>1, <2>2, Zenon DEF IpcState, IpcTypes
<1>10. InRings' = InRings /\ Queued' = Queued
  BY <1>1, Zenon DEF InRings, Queued
<1>11. QueuedOnce'
  BY <1>1, <1>10, Zenon DEF IpcState, QueuedOnce
<1>12. MessagesOK'
  <2>1. ASSUME NEW m \in Queued PROVE m.fd \in DOMAIN m_conns' /\ m_conns'[m.fd] = m.call
    <3>1. m.fd \in DOMAIN m_conns /\ m_conns[m.fd] = m.call /\ InQueue(m.fd)
      BY MessageConn, Zenon
    <3>2. m.fd # d
      BY <3>1, <1>4, Zenon
    <3> QED  BY <3>1, <3>2, <1>7, Zenon
  <2> QED  BY <1>1, <1>10, <2>1, Zenon DEF IpcState, MessagesOK
<1>13. CallOnce'
  <2>1. IsInjective(m_conns')
    BY <1>7, Zenon DEF IpcState, CallOnce, IsInjective
  <2>2. k \in Range(m_conns)
    BY <1>0, Zenon DEF Range
  <2> QED  BY <2>1, <2>2, <1>1, <1>2, <1>8, Zenon DEF IpcState, CallOnce
<1>14. ASSUME NEW j \in Calls, j # k PROVE CallUntouched(j)
  BY <1>1, <1>6, <1>14, Zenon DEF CallUntouched, CallKept
<1>15. ASSUME NEW j \in Calls, j > calls'
       PROVE  cpc'[j] = "none" /\ inbox'[j] = 0 /\ rxRing'[j] = 0 /\ NoReply(j)'
  <2>1. j > calls /\ j # k
    BY <1>1, <1>2, <1>15, CallNumbers
  <2> QED  BY <2>1, <1>1, <1>6, Zenon DEF IpcState, CallsOK, NoReply
<1>16. ASSUME NEW j \in Range(backlog') PROVE Fresh(j)'
  <2>1. j \in Calls /\ j # k /\ Fresh(j)
    BY <1>1, <1>2, CallNumbers, Zenon DEF IpcState, CallsOK
  <2> QED  BY <2>1, <1>1, <1>6, Zenon DEF Fresh, NoReply, Open, Parts
<1>17. ASSUME NEW j \in shut' PROVE Answered(j)'
  <2>1. CASE j = k
    <3>1. cpc'[k] = "waiting" /\ frameLen'[k] = frameLen[k]
      BY <1>1, <1>4, Zenon DEF Replying, RequestRead
    <3> QED  BY <2>1, <3>1, <1>5, <1>6, Zenon DEF Answered, OneIn
  <2>2. CASE j # k
    <3>1. j \in shut /\ j \in Calls /\ Answered(j)
      BY <2>2, <1>1, CallNumbers, Zenon DEF IpcState, CallsOK
    <3> QED  BY <2>2, <3>1, <1>14, Zenon DEF Answered, OneIn, CallUntouched, CallKept
  <2> QED  BY <2>1, <2>2, Zenon
<1>18. ASSUME NEW c \in DOMAIN m_conns' PROVE ConnOK(c)'
  <2>1. c \in DOMAIN m_conns /\ c # d /\ m_conns'[c] = m_conns[c] /\ m_conns[c] # k
    BY <1>7, Zenon
  <2>2. ConnOK(c) /\ m_conns[c] \in Calls
    BY <2>1, ConnCall, Zenon DEF IpcState, CallsOK
  <2>3. CallUntouched(m_conns[c]) /\ InQueue(c)' = InQueue(c)
    BY <2>1, <2>2, <1>10, <1>14, Zenon DEF InQueue
  <2> QED  BY <2>1, <2>2, <2>3, <1>1, ConnKept, Zenon DEF CallUntouched
<1>19. CallsOK'
  BY ONLY <1>15, <1>16, <1>17, <1>18, Zenon DEF CallsOK
<1> QED  BY <1>9, <1>11, <1>12, <1>13, <1>19, Zenon DEF IpcState

\* accept: the connections at the head of the backlog get descriptors that are free.
LEMMA Accepted ==
  ASSUME IpcState, AcceptConnection
  PROVE  /\ \A d \in DOMAIN m_conns : d \in DOMAIN m_conns' /\ m_conns'[d] = m_conns[d]
         /\ \A d \in DOMAIN m_conns' \ DOMAIN m_conns :
              d \in Fds /\ m_conns'[d] \in Range(backlog) /\ m_conns'[d] \notin Range(backlog')
         /\ IsInjective(m_conns') /\ IsInjective(backlog') /\ backlog' \in Seq(Calls)
         /\ Range(backlog) = Range(backlog') \cup (Range(m_conns') \ Range(m_conns))
         /\ Range(m_conns) \subseteq Range(m_conns') /\ Range(m_conns') \cap Range(backlog') = {}
<1>0. PICK n \in 0..Len(backlog) : \E f \in [1..n -> Fds \ DOMAIN m_conns] :
        /\ IsInjective(f)
        /\ m_conns' = Extended(m_conns, n, f, backlog)
        /\ backlog' = SubSeq(backlog, n + 1, Len(backlog))
  BY Zenon DEF AcceptConnection, Extended
<1>1. PICK f \in [1..n -> Fds \ DOMAIN m_conns] :
        /\ IsInjective(f)
        /\ m_conns' = Extended(m_conns, n, f, backlog)
        /\ backlog' = SubSeq(backlog, n + 1, Len(backlog))
  BY <1>0, Zenon
<1>2. /\ backlog \in Seq(Calls) /\ IsInjective(backlog) /\ n \in Nat
      /\ Range(backlog) \cap Range(m_conns) = {}
  BY DEF IpcState, IpcTypes, CallOnce
<1>3. /\ backlog' \in Seq(Calls) /\ IsInjective(backlog') /\ Range(backlog') \subseteq Range(backlog)
      /\ \A i \in 1..n : backlog[i] \in Range(backlog) /\ backlog[i] \notin Range(backlog')
      /\ \A k \in Range(backlog) : k \in Range(backlog') \/ \E i \in 1..n : k = backlog[i]
      /\ \A i, j \in 1..n : backlog[i] = backlog[j] => i = j
  <2>1. /\ backlog \in Seq(Calls) /\ IsInjective(backlog) /\ n \in 0..Len(backlog)
        /\ backlog' = SubSeq(backlog, n + 1, Len(backlog))
    BY <1>1, <1>2, Zenon
  <2> QED  BY ONLY <2>1, InjectiveSuffix
<1>4. /\ \A d \in DOMAIN m_conns : d \in DOMAIN m_conns' /\ m_conns'[d] = m_conns[d]
      /\ \A d \in DOMAIN m_conns' \ DOMAIN m_conns :
           d \in Fds /\ \E i \in 1..n : d = f[i] /\ m_conns'[d] = backlog[i]
      /\ \A i \in 1..n : f[i] \in DOMAIN m_conns' /\ m_conns'[f[i]] = backlog[i]
  <2>1. PICK F : F = Fds \ DOMAIN m_conns
    BY Zenon
  <2>2. /\ F \cap DOMAIN m_conns = {} /\ n \in Nat /\ f \in [1..n -> F] /\ IsInjective(f)
        /\ m_conns' = Extended(m_conns, n, f, backlog)
    BY <1>1, <1>2, <2>1, Zenon
  <2>3. Extends(m_conns', m_conns, n, f, backlog, F)
    BY ONLY <2>2, NewValues, Zenon
  <2> QED  BY <2>1, <2>3, Zenon DEF Extends
<1>5. ASSUME NEW d \in DOMAIN m_conns' \ DOMAIN m_conns
      PROVE  d \in Fds /\ m_conns'[d] \in Range(backlog) /\ m_conns'[d] \notin Range(backlog')
  BY <1>3, <1>4, Zenon
<1>6. \A d \in DOMAIN m_conns : m_conns[d] \in Range(m_conns) /\ m_conns[d] \notin Range(backlog)
  BY ConnCall, Zenon
<1>7. IsInjective(m_conns')
  <2> SUFFICES ASSUME NEW c \in DOMAIN m_conns', NEW d \in DOMAIN m_conns', m_conns'[c] = m_conns'[d]
               PROVE  c = d
    BY Zenon DEF IsInjective
  <2>1. CASE c \in DOMAIN m_conns
    BY <2>1, <1>4, <1>5, <1>6, ConnCall, Zenon
  <2>2. CASE d \in DOMAIN m_conns
    BY <2>2, <1>4, <1>5, <1>6, ConnCall, Zenon
  <2>3. CASE c \notin DOMAIN m_conns /\ d \notin DOMAIN m_conns
    <3>1. PICK i \in 1..n : c = f[i] /\ m_conns'[c] = backlog[i]
      BY <2>3, <1>4, Zenon
    <3>2. PICK j \in 1..n : d = f[j] /\ m_conns'[d] = backlog[j]
      BY <2>3, <1>4, Zenon
    <3>3. \A x, y \in 1..n : backlog[x] = backlog[y] => x = y
      BY <1>3, Zenon
    <3> QED  BY ONLY <3>1, <3>2, <3>3, m_conns'[c] = m_conns'[d], Zenon
  <2> QED  BY <2>1, <2>2, <2>3, Zenon
<1>8. Range(m_conns) \subseteq Range(m_conns')
  BY <1>4 DEF Range
<1>9. \A k \in Range(m_conns') : k \in Range(m_conns) \/ (k \in Range(backlog) /\ k \notin Range(backlog'))
  BY <1>4, <1>5 DEF Range
<1>10. \A i \in 1..n : backlog[i] \in Range(m_conns')
  BY <1>4, Zenon DEF Range
<1>11. \A k \in Range(backlog) : k \in Range(backlog') \/ k \in Range(m_conns') \ Range(m_conns)
  <2> SUFFICES ASSUME NEW k \in Range(backlog), k \notin Range(backlog')
               PROVE  k \in Range(m_conns') /\ k \notin Range(m_conns)
    BY Zenon
  <2> QED  BY <1>2, <1>3, <1>10, Zenon
<1>12. \A k \in Range(m_conns') : k \notin Range(backlog')
  BY <1>2, <1>3, <1>9, Zenon
<1>13. Range(backlog) = Range(backlog') \cup (Range(m_conns') \ Range(m_conns))
  BY ONLY <1>3, <1>9, <1>11, Zenon
<1>14. Range(m_conns') \cap Range(backlog') = {}
  BY ONLY <1>12, Zenon
<1> QED  BY <1>3, <1>4, <1>5, <1>7, <1>8, <1>13, <1>14, Zenon

\* acceptConnection: their calls go on from the backlog to the connections.
LEMMA AcceptStep == ASSUME IpcState, AcceptConnection PROVE IpcState'
<1>1. UNCHANGED <<calls, cpc, got, crashes, inbox, wire, shut, rxRing, txRing, armed, events, batch,
                  dirtyFds, m_rr, rxQueue, m_txQueue, frameLen, dropped>>
  BY Zenon DEF AcceptConnection, sockVars, queueVars
<1>2. /\ \A d \in DOMAIN m_conns : d \in DOMAIN m_conns' /\ m_conns'[d] = m_conns[d]
      /\ \A d \in DOMAIN m_conns' \ DOMAIN m_conns :
           d \in Fds /\ m_conns'[d] \in Range(backlog) /\ m_conns'[d] \notin Range(backlog')
      /\ IsInjective(m_conns') /\ IsInjective(backlog') /\ backlog' \in Seq(Calls)
      /\ Range(backlog) = Range(backlog') \cup (Range(m_conns') \ Range(m_conns))
      /\ Range(m_conns) \subseteq Range(m_conns') /\ Range(m_conns') \cap Range(backlog') = {}
  BY Accepted, Zenon
<1>3. IpcTypes'
  <2>1. m_conns' \in [DOMAIN m_conns' -> Calls] /\ DOMAIN m_conns' \subseteq Fds
    <3>1. \A d \in DOMAIN m_conns' : m_conns'[d] \in Calls /\ d \in Fds
      BY <1>2, ConnCall, CallNumbers, Zenon
    <3>2. m_conns' = [d \in DOMAIN m_conns' |-> m_conns'[d]]
      BY Zenon DEF AcceptConnection
    <3> QED  BY <3>1, <3>2, Zenon
  <2> QED  BY <1>1, <1>2, <2>1, Zenon DEF IpcState, IpcTypes
<1>4. InRings' = InRings /\ Queued' = Queued
  BY <1>1, Zenon DEF InRings, Queued
<1>5. QueuedOnce'
  BY <1>1, <1>4, Zenon DEF IpcState, QueuedOnce
<1>6. MessagesOK'
  BY <1>1, <1>2, <1>4, Zenon DEF IpcState, MessagesOK
<1>7. CallOnce'
  BY <1>1, <1>2, Zenon DEF IpcState, CallOnce
<1>8. ASSUME NEW k \in Range(backlog) PROVE Fresh(k)' /\ Fresh(k)
  BY <1>1, Zenon DEF IpcState, CallsOK, Fresh, NoReply, Open, Parts
<1>9. \A k \in Range(backlog') : Fresh(k)'
  BY <1>2, <1>8, Zenon
<1>10. \A k \in shut' : Answered(k)'
  BY <1>1, Zenon DEF IpcState, CallsOK, Answered, OneIn
<1>11. \A k \in Calls : k > calls' => cpc'[k] = "none" /\ inbox'[k] = 0 /\ rxRing'[k] = 0 /\ NoReply(k)'
  BY <1>1, Zenon DEF IpcState, CallsOK, NoReply
<1>12. ASSUME NEW d \in DOMAIN m_conns' PROVE ConnOK(d)'
  <2>1. CASE d \in DOMAIN m_conns
    <3>1. m_conns'[d] = m_conns[d] /\ ConnOK(d)
      BY <2>1, <1>2, Zenon DEF IpcState, CallsOK
    <3>2. CallKept(m_conns[d]) /\ InQueue(d)' = InQueue(d)
      BY <3>1, <1>1, <1>4, Zenon DEF CallKept, InQueue
    <3> QED  BY <2>1, <3>1, <3>2, <1>1, ConnKept, Zenon
  <2>2. CASE d \notin DOMAIN m_conns
    <3> PICK k : k = m_conns'[d]
      BY Zenon
    <3>1. k \in Range(backlog) /\ Fresh(k)' /\ k \in Calls
      BY <2>2, <1>2, <1>8, CallNumbers, Zenon
    <3>2. ~InQueue(d)'
      <4>1. \A m \in Queued : m.fd # d
        BY <2>2, MessageConn, Zenon
      <4> QED  BY <4>1, <1>4, Zenon DEF InQueue
    <3>3. Reading(k)'
      BY <3>1 DEF Fresh, Reading, Parts
    <3> QED  BY <3>2, <3>3, Zenon DEF ConnOK
  <2> QED  BY <2>1, <2>2, Zenon
<1>13. CallsOK'
  BY ONLY <1>9, <1>10, <1>11, <1>12, Zenon DEF CallsOK
<1> QED  BY <1>3, <1>5, <1>6, <1>7, <1>13, Zenon DEF IpcState

\* Every step keeps it
LEMMA IpcInductive == IpcIInv /\ [IpcNext]_ipcVars => IpcIInv'
<1> SUFFICES ASSUME IpcIInv, [IpcNext]_ipcVars PROVE IpcIInv'
  BY Zenon
<1>1. CASE Crash
  BY <1>1 DEF Crash, IpcIInv
<1>2. CASE ~Crash
  <2>1. crashes' = crashes
    BY <1>2, Zenon DEF IpcNext, IpcReactorStep, FlushSends, ipcVars, clientVars, Connect, WriteAll,
       ReadReply, ReadFails, Wait, AcceptConnection, ProcessTxQueue, WriteReply, Hup, Receive,
       Writable, FlushNothing, FlushPart, FlushWhole, FlushFails, HandleRequest
  <2> SUFFICES ASSUME IpcState PROVE IpcState'
    BY <2>1, Zenon DEF IpcIInv
  <2>3. CASE Connect
    BY <2>3, ConnectStep, Zenon
  <2>4. ASSUME NEW k \in Calls, WriteAll(k) \/ ReadReply(k) \/ ReadFails(k) PROVE IpcState'
    BY <2>4, WriteAllStep, ReadReplyStep, ReadFailsNever, Zenon
  <2>5. CASE Wait \/ AcceptConnection \/ ProcessTxQueue \/ WriteReply
    BY <2>5, WaitStep, AcceptStep, ProcessTxQueueStep, WriteReplyStep, Zenon
  <2>6. ASSUME NEW e \in events, Hup(e) PROVE IpcState'
    BY <2>6, Zenon DEF Hup, IpcState, IpcTypes
  <2>7. ASSUME NEW e \in events, Receive(e) \/ Writable(e) PROVE IpcState'
    BY <2>7, ReceiveStep, WritableStep, Zenon
  <2>8. ASSUME NEW d \in Fds, FlushFails(d) PROVE IpcState'
    BY <2>8, ConnCall, Zenon DEF FlushFails, Unsent
  <2>9. ASSUME NEW d \in Fds, NEW n \in Nat, FlushPart(d, n) PROVE IpcState'
    BY <2>9, FlushPartStep, Zenon
  <2>10. ASSUME NEW d \in Fds, FlushNothing(d) \/ FlushSends(d) \/ FlushPart(d, 0) PROVE IpcState'
    <3>1. 1..TX_SIZE \subseteq Nat
      BY IpcAssumption
    <3> QED  BY <2>9, <2>10, <3>1, FlushNothingStep, FlushWholeStep, Zenon DEF FlushSends
  <2>11. ASSUME NEW w \in IpcWorkers, HandleRequest(w) PROVE IpcState'
    BY <2>11, HandleRequestStep, Zenon
  <2>12. CASE UNCHANGED ipcVars
    <3>1. UNCHANGED <<clientVars, sockVars, connVars, queueVars, batch>> /\ UNCHANGED <<events, dirtyFds>>
      BY <2>12, Zenon DEF ipcVars, loopVars
    <3>2. \A e \in events' : ~e.hup /\ e.fd \in Fds
      BY <3>1, Zenon DEF IpcState, IpcTypes
    <3> QED  BY <3>1, <3>2, LoopStep, Zenon
  <2> QED  BY <1>2, <2>3, <2>4, <2>5, <2>6, <2>7, <2>8, <2>10, <2>11, <2>12, Zenon DEF IpcNext, IpcReactorStep
<1> QED  BY <1>1, <1>2, Zenon

\* So it is an invariant.
LEMMA IpcInvariant == IpcSpec => []IpcIInv
BY IpcInitially, IpcInductive, PTL DEF IpcSpec

\* The calls of a client that lives
LEMMA IpcLiving ==
  ASSUME IpcIInv, crashes = 0, NEW k \in Calls
  PROVE  /\ cpc[k] # "failed" /\ (cpc[k] = "replied" => got[k] = k)
         /\ cpc[k] = "waiting" /\ k \notin Range(backlog) /\ k \notin shut
              => \E d \in DOMAIN m_conns : m_conns[d] = k /\ ConnOK(d)
<1>0. IpcState
  BY Zenon DEF IpcIInv
<1>1. cpc[k] # "failed"
  BY <1>0, Zenon DEF IpcState, IpcTypes
<1>2. cpc[k] = "none" \/ k \in Range(backlog) \/ k \in shut \/ \E d \in DOMAIN m_conns : m_conns[d] = k
  <2>1. CASE k > calls
    BY <1>0, <2>1, Zenon DEF IpcState, CallsOK
  <2>2. CASE ~(k > calls)
    <3>1. k \in 1..calls
      BY <1>0, <2>2, CallNumbers
    <3> QED  BY <1>0, <3>1, Zenon DEF IpcState, CallOnce, Range
  <2> QED  BY <2>1, <2>2, Zenon
<1>3. ASSUME cpc[k] = "replied" PROVE got[k] = k
  <2>1. k \notin Range(backlog)
    BY <1>0, <1>3, Zenon DEF IpcState, CallsOK, Fresh, Open
  <2>2. \A d \in DOMAIN m_conns : m_conns[d] # k
    BY <1>0, <1>3, ConnCall, Zenon DEF Open
  <2>3. k \in shut
    BY <1>2, <1>3, <2>1, <2>2, Zenon
  <2> QED  BY <1>0, <1>3, <2>3, Zenon DEF IpcState, CallsOK, Answered
<1>4. ASSUME cpc[k] = "waiting", k \notin Range(backlog), k \notin shut
      PROVE  \E d \in DOMAIN m_conns : m_conns[d] = k /\ ConnOK(d)
  BY <1>0, <1>2, <1>4, Zenon DEF IpcState, CallsOK
<1> QED  BY <1>1, <1>3, <1>4, Zenon

(***************************************************************************)
(* For any number of calls, workers and descriptors, any reply lengths and *)
(* any ring size: while mgmtd lives, IpcClient::send never fails and never *)
(* returns the reply of another call, although IpcReactor and its workers  *)
(* know a request by a descriptor that is used again.                      *)
(***************************************************************************)
THEOREM IpcCallsExact == IpcSpec => []CallsExact
<1>1. IpcIInv => CallsExact
  <2> SUFFICES ASSUME IpcIInv, NEW k \in Calls
               PROVE  /\ cpc[k] = "replied" => got[k] = k \/ crashes > 0
                      /\ cpc[k] = "failed" => crashes > 0
    BY Zenon DEF CallsExact
  <2>1. CASE crashes = 0
    BY <2>1, IpcLiving, Zenon
  <2>2. CASE crashes # 0
    BY <2>2 DEF IpcIInv
  <2> QED  BY <2>1, <2>2, Zenon
<1> QED  BY <1>1, IpcInvariant, PTL

(***************************************************************************)
(* The safety half of CallReturns: while mgmtd lives, a call that waits    *)
(* has its request or its reply somewhere from where the reactor or a      *)
(* worker will take it, unless writeToTxBuffer found the ring too full.    *)
(***************************************************************************)
THEOREM IpcCallUnderway == IpcSpec => []CallUnderway
<1>1. IpcIInv => CallUnderway
  <2> SUFFICES ASSUME IpcIInv, crashes = 0, NEW k \in Calls, cpc[k] = "waiting",
                      k \notin Range(backlog), ~Complete(k), k \notin dropped
               PROVE  \E d \in DOMAIN m_conns :
                        /\ m_conns[d] = k
                        /\ \/ inbox[k] > 0
                           \/ \E w \in IpcWorkers : [fd |-> d, call |-> k] \in Range(rxQueue[w])
                           \/ [fd |-> d, call |-> k] \in Range(m_txQueue) \cup Range(batch)
                           \/ txRing[k] # << >> /\ (k \in armed \/ d \in dirtyFds)
    BY Zenon DEF CallUnderway
  <2>1. IpcState
    BY Zenon DEF IpcIInv
  <2>2. k \notin shut
    BY <2>1, CompleteIsAnswered, Zenon
  <2>3. PICK d \in DOMAIN m_conns : m_conns[d] = k /\ ConnOK(d)
    BY <2>2, IpcLiving, Zenon
  <2>4. CASE InQueue(d)
    BY <2>3, <2>4, Zenon DEF InQueue, Queued, InRings, AllOf
  <2>5. CASE ~InQueue(d) /\ Reading(k)
    <3>1. rxRing[k] + inbox[k] = 2 /\ rxRing[k] <= 1
      BY <2>5, Zenon DEF Reading, Parts
    <3>2. rxRing[k] \in Nat /\ inbox[k] \in Nat
      BY <2>1, Zenon DEF IpcState, IpcTypes
    <3>3. inbox[k] > 0
      BY ONLY <3>1, <3>2
    <3> QED  BY <2>3, <3>3, Zenon
  <2>6. CASE ~InQueue(d) /\ Replying(d, k)
    BY <2>3, <2>6, Zenon DEF Replying
  <2> QED  BY <2>3, <2>4, <2>5, <2>6, Zenon DEF ConnOK
<1> QED  BY <1>1, IpcInvariant, PTL
=============================================================================
