------------------------------ MODULE MgmtHttp ------------------------------
(***************************************************************************)
(* The HTTP side of mgmtd: HttpSession's chain of asynchronous reads and   *)
(* writes, HttpRouter::handle and AuthService's sessions, run by the       *)
(* threads of one io_context.  A statistics request blocks its thread in   *)
(* IpcClient::send; IpcExchange shows that the call returns unless the     *)
(* reply is too long, and then it never does.  A session id is the second  *)
(* of the login.                                                           *)
(***************************************************************************)
EXTENDS Integers, FiniteSets, Functions

CONSTANTS Browsers,   \* each has one connection, and sends its cookie
          IoThreads,  \* threads of the io_context, 4 in the code
          TTL,        \* SESSION_TTL_SEC, 1800 in the code
          MaxTime,    \* bound: the clock, in seconds
          NoCookie    \* no cookie

ASSUME HttpAssumption == {IoThreads, TTL, MaxTime} \subseteq Nat \ {0} /\ NoCookie \notin Nat

VARIABLES now,         \* AuthService::now
          m_sessions,  \* [session id -> expiresAt]
          hpc,         \* [browser -> read, ready, ipc, write, closed]
          req,         \* [browser -> the request being handled]
          res,         \* [browser -> the response being written]
          cookie,      \* [browser -> session id it holds]
          ended,       \* history: ids given out twice or logged out
          stuck        \* browsers whose IPC call will not return

httpVars == <<now, m_sessions, hpc, req, res, cookie, ended, stuck>>

\* "page" stands for static files and for targets that are not known.
Routes == {"page", "login", "logout", "v1"}

\* What req and res hold when there is no request, and no response
NoReq == "none"

NoRes == [cookie |-> NoCookie, keep |-> FALSE]

HttpInit ==
  /\ now = 0 /\ m_sessions = << >> /\ ended = {} /\ stuck = {}
  /\ hpc = [b \in Browsers |-> "closed"] /\ cookie = [b \in Browsers |-> NoCookie]
  /\ req = [b \in Browsers |-> NoReq]
  /\ res = [b \in Browsers |-> NoRes]

Tick ==
  /\ now < MaxTime
  /\ now' = now + 1
  /\ UNCHANGED <<m_sessions, hpc, req, res, cookie, ended, stuck>>

\* A thread of the io_context is free to run a handler.
FreeThread == Cardinality({b \in Browsers : hpc[b] = "ipc"}) < IoThreads

Enter(b, l) == hpc' = [hpc EXCEPT ![b] = l]

(***************************************************************************)
(* HttpListener::onAccept, HttpSession                                     *)
(***************************************************************************)
Accept(b) ==
  /\ hpc[b] = "closed" /\ FreeThread
  /\ Enter(b, "read")
  /\ UNCHANGED <<now, m_sessions, req, res, cookie, ended, stuck>>

\* async_read completes with a request.
Requests(b) ==
  /\ hpc[b] = "read"
  /\ \E r \in Routes : req' = [req EXCEPT ![b] = r]
  /\ Enter(b, "ready")
  /\ UNCHANGED <<now, m_sessions, res, cookie, ended, stuck>>

\* end_of_stream, or an error
ReadEnds(b) ==
  /\ hpc[b] = "read" /\ FreeThread
  /\ Enter(b, "closed")
  /\ UNCHANGED <<now, m_sessions, req, res, cookie, ended, stuck>>

\* makeResponse and async_write; keep is the request's keep_alive.
Respond(b, c) ==
  /\ \E keep \in BOOLEAN : res' = [res EXCEPT ![b] = [cookie |-> c, keep |-> keep]]
  /\ req' = [req EXCEPT ![b] = NoReq]
  /\ Enter(b, "write")

OnWrite(b) ==
  /\ hpc[b] = "write" /\ FreeThread
  /\ Enter(b, IF res[b].keep THEN "read" ELSE "closed")
  /\ cookie' = [cookie EXCEPT ![b] = res[b].cookie]
  /\ res' = [res EXCEPT ![b] = NoRes]
  /\ UNCHANGED <<now, m_sessions, req, ended, stuck>>

\* The response is lost with the connection.
WriteFails(b) ==
  /\ hpc[b] = "write" /\ FreeThread
  /\ Enter(b, "closed")
  /\ res' = [res EXCEPT ![b] = NoRes]
  /\ UNCHANGED <<now, m_sessions, req, cookie, ended, stuck>>

(***************************************************************************)
(* HttpRouter::handle, on a free thread                                    *)
(***************************************************************************)
Handling(b, routes) == hpc[b] = "ready" /\ FreeThread /\ req[b] \in routes

\* A page, a body that is not understood, a failed login
HandleOther(b) ==
  /\ Handling(b, {"page", "login"})
  /\ Respond(b, cookie[b])
  /\ UNCHANGED <<now, m_sessions, cookie, ended, stuck>>

\* AuthService::login
HandleLogin(b) ==
  /\ Handling(b, {"login"})
  /\ m_sessions' = [s \in DOMAIN m_sessions \cup {now} |->
                      IF s = now THEN now + TTL ELSE m_sessions[s]]
  /\ ended' = IF now \in DOMAIN m_sessions THEN ended \cup {now} ELSE ended
  /\ Respond(b, now)
  /\ UNCHANGED <<now, cookie, stuck>>

Erase(s) == m_sessions' = Restrict(m_sessions, DOMAIN m_sessions \ {s})

\* AuthService::logout
HandleLogout(b) ==
  /\ Handling(b, {"logout"})
  /\ Erase(cookie[b]) /\ ended' = ended \cup ({cookie[b]} \ {NoCookie})
  /\ Respond(b, NoCookie)
  /\ UNCHANGED <<now, cookie, stuck>>

Known(b) == cookie[b] \in DOMAIN m_sessions

\* Takes the session for expired a second early.
ExpiredEarly(b) == now >= m_sessions[cookie[b]]

Expired(b) == now > m_sessions[cookie[b]]

\* validateSession refuses; an expired session is erased.
HandleUnauthorized(b) ==
  /\ Handling(b, {"v1"})
  /\ IF Known(b) THEN Expired(b) /\ Erase(cookie[b]) ELSE UNCHANGED m_sessions
  /\ Respond(b, cookie[b])
  /\ UNCHANGED <<now, cookie, ended, stuck>>

\* dispatchProtected does not know the target.
HandleNotFound(b) ==
  /\ Handling(b, {"v1"}) /\ Known(b) /\ ~Expired(b)
  /\ Respond(b, cookie[b])
  /\ UNCHANGED <<now, m_sessions, cookie, ended, stuck>>

\* dispatchProtected, StatsService, IpcClient::send
HandleStats(b) ==
  /\ Handling(b, {"v1"}) /\ Known(b) /\ ~Expired(b)
  /\ Enter(b, "ipc")
  /\ stuck' \in {stuck, stuck \cup {b}}
  /\ UNCHANGED <<now, m_sessions, req, res, cookie, ended>>

SendReturns(b) ==
  /\ hpc[b] = "ipc" /\ b \notin stuck
  /\ Respond(b, cookie[b])
  /\ UNCHANGED <<now, m_sessions, cookie, ended, stuck>>

\* The exception ends the handler without a response.
SendThrowsAway(b) ==
  /\ hpc[b] = "ipc" /\ b \notin stuck
  /\ Enter(b, "ready") /\ req' = [req EXCEPT ![b] = NoReq]
  /\ UNCHANGED <<now, m_sessions, res, cookie, ended, stuck>>

\* The exception becomes a response 500 that closes the connection.
SendThrows(b) ==
  /\ hpc[b] = "ipc" /\ b \notin stuck
  /\ res' = [res EXCEPT ![b] = [cookie |-> cookie[b], keep |-> FALSE]]
  /\ req' = [req EXCEPT ![b] = NoReq]
  /\ Enter(b, "write")
  /\ UNCHANGED <<now, m_sessions, cookie, ended, stuck>>

Handle(b) ==
  \/ HandleOther(b) \/ HandleLogin(b) \/ HandleLogout(b)
  \/ HandleUnauthorized(b) \/ HandleNotFound(b) \/ HandleStats(b)

HttpNext ==
  \/ Tick
  \/ \E b \in Browsers :
       \/ Accept(b) \/ Requests(b) \/ ReadEnds(b) \/ OnWrite(b) \/ WriteFails(b)
       \/ Handle(b) \/ SendReturns(b) \/ SendThrows(b)

HttpSpec == HttpInit /\ [][HttpNext]_httpVars

(***************************************************************************)
(* The io_context runs its handlers in order, so that one that is ready    *)
(* while threads become free again and again is run; a call that is not    *)
(* stuck ends.                                                             *)
(***************************************************************************)
HttpFairness ==
  \A b \in Browsers : /\ SF_httpVars(Handle(b))
                      /\ WF_httpVars(SendReturns(b) \/ SendThrows(b))
                      /\ SF_httpVars(OnWrite(b) \/ WriteFails(b))

HttpFairSpec == HttpSpec /\ HttpFairness
-----------------------------------------------------------------------------
(***************************************************************************)
(* A browser keeps its session until it expires or until the browser       *)
(* itself logs out, whatever others log in, log out and let expire in the  *)
(* meantime; two logins in one second, which get one id, share a session.  *)
(***************************************************************************)
OwnSession ==
  \A b \in Browsers :
    cookie[b] # NoCookie /\ cookie[b] \notin ended /\ now <= cookie[b] + TTL
    => cookie[b] \in DOMAIN m_sessions

(***************************************************************************)
(* Every request is answered, unless its own IPC call is one that never    *)
(* returns, or such calls have taken all the threads: then login and       *)
(* static pages are not served either.                                     *)
(***************************************************************************)
RequestAnswered ==
  \A b \in Browsers :
    (hpc[b] = "ready") ~> (hpc[b] = "write" \/ b \in stuck \/ Cardinality(stuck) >= IoThreads)
=============================================================================
